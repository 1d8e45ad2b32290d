--------------------------- MODULE TsStreamProofs ---------------------------
(***************************************************************************)
(* Proofs about TsStream, for every number of buffers, of pages and of     *)
(* table entries, and every width of the feed counter that can count the   *)
(* feeds the demultiplexer allows.                                         *)
(*                                                                         *)
(* The invariant says what is held at every step of the initialisation and *)
(* of the exit, that the counter is the number of open feeds until it      *)
(* wraps, what the stream's absence means for the feeds begun then, and    *)
(* that a table is what sgpagefill makes of its buffer's segments.         *)
(***************************************************************************)
EXTENDS TsStream, TLAPS, FiniteSetTheorems

(***************************************************************************)
(* The page tables.  Before and FlattenSeq are recursive functions: the    *)
(* lemmas show that the recursions have a solution, which the definitions  *)
(* then choose, and that page k lands in entry k.                          *)
(***************************************************************************)

\* Induction up to n, from the well-foundedness of the subsets of 0 .. n.
LEMMA Induction ==
  ASSUME NEW n \in Nat, NEW S, 0 \in S, \A m \in 0 .. n - 1 : m \in S => m + 1 \in S
  PROVE  \A m \in 0 .. n : m \in S
<1> SUFFICES ASSUME NEW m0 \in 0 .. n, m0 \notin S PROVE FALSE
  OBVIOUS
<1> DEFINE F == 0 .. n
           Down(m) == {k \in Nat : k <= m}
           T == {Down(m) : m \in {x \in F : x \notin S}}
<1>1. T # {}
  OBVIOUS
<1>2. T \subseteq FiniteSubsetsOf(F)
  <2>1. ASSUME NEW m \in F PROVE Down(m) \subseteq F /\ IsFiniteSet(Down(m))
    <3>1. Down(m) = 0 .. m
      OBVIOUS
    <3>2. IsFiniteSet(0 .. m)
      BY FS_Interval
    <3>3. IsFiniteSet(Down(m))
      BY <3>1, <3>2
    <3>4. Down(m) \subseteq F
      OBVIOUS
    <3> QED
      BY <3>3, <3>4
  <2> QED
    BY <2>1 DEF FiniteSubsetsOf
<1>3. IsWellFoundedOn(StrictSubsetOrdering(F), FiniteSubsetsOf(F))
  BY FS_StrictSubsetOrderingWellFounded
<1>4. PICK X \in T : \A Y \in T : ~(<<Y, X>> \in StrictSubsetOrdering(F))
  <2> HIDE DEF T
  <2> QED
    BY <1>1, <1>2, <1>3, WFMin
<1>5. PICK m \in F : m \notin S /\ X = Down(m)
  OBVIOUS
<1>6. m # 0 /\ m - 1 \in F /\ m - 1 \notin S
  BY <1>5
<1>7. Down(m - 1) \in T
  BY <1>6
<1>8. Down(m - 1) \subseteq X /\ Down(m - 1) # X
  <2>1. m \in X /\ m \notin Down(m - 1)
    BY <1>5, <1>6
  <2> QED
    BY <1>5, <1>6, <2>1
<1>9. <<Down(m - 1), X>> \in StrictSubsetOrdering(F)
  <2>1. Down(m - 1) \in SUBSET F /\ X \in SUBSET F
    BY <1>2, <1>5, <1>7 DEF FiniteSubsetsOf
  <2> HIDE DEF Down
  <2> QED
    BY <1>8, <2>1 DEF StrictSubsetOrdering
<1> QED
  BY <1>4, <1>7, <1>9

\* f is the recursion from a by step; there is one.
Follows(f, N, V, a, step) ==
  /\ f \in [0 .. N -> V]
  /\ f[0] = a
  /\ \A n \in 1 .. N : f[n] = step[<<n, f[n - 1]>>]

LEMMA Recursion ==
  ASSUME NEW N \in Nat, NEW V, NEW a \in V, NEW step \in [(1 .. N) \X V -> V]
  PROVE  \E f : Follows(f, N, V, a, step)
<1> DEFINE Good(f, m) == f[0] = a /\ \A n \in 1 .. m : f[n] = step[<<n, f[n - 1]>>]
           S == {m \in 0 .. N : \E f \in [0 .. m -> V] : Good(f, m)}
<1>1. 0 \in S
  <2> DEFINE f == [k \in 0 .. 0 |-> a]
  <2>1. f \in [0 .. 0 -> V] /\ Good(f, 0)
    OBVIOUS
  <2>2. 0 \in 0 .. N
    OBVIOUS
  <2> HIDE DEF f, Good
  <2> QED
    BY <2>1, <2>2
<1>2. ASSUME NEW m \in 0 .. N - 1, m \in S PROVE m + 1 \in S
  <2>1. PICK f \in [0 .. m -> V] : Good(f, m)
    BY <1>2
  <2> DEFINE v == step[<<m + 1, f[m]>>]
             g == [k \in 0 .. m + 1 |-> IF k = m + 1 THEN v ELSE f[k]]
  <2>2. v \in V
    <3>1. m + 1 \in 1 .. N /\ f[m] \in V
      OBVIOUS
    <3> QED
      BY <3>1
  <2>3. g \in [0 .. m + 1 -> V]
    BY <2>2
  <2>4. g[0] = a
    BY <2>1
  <2>5. ASSUME NEW n \in 1 .. m + 1 PROVE g[n] = step[<<n, g[n - 1]>>]
    <3>1. CASE n = m + 1
      <4>1. g[n] = v /\ g[n - 1] = f[m]
        BY <3>1
      <4> QED
        BY <3>1, <4>1
    <3>2. CASE n # m + 1
      <4>1. n \in 1 .. m /\ g[n] = f[n] /\ g[n - 1] = f[n - 1]
        BY <3>2
      <4>2. f[n] = step[<<n, f[n - 1]>>]
        BY <2>1, <4>1
      <4> HIDE DEF g
      <4> QED
        BY <4>1, <4>2
    <3> QED
      BY <3>1, <3>2
  <2>6. Good(g, m + 1)
    BY <2>4, <2>5
  <2>7. m + 1 \in 0 .. N
    OBVIOUS
  <2> HIDE DEF g, Good
  <2> QED
    BY <2>3, <2>6, <2>7
<1> HIDE DEF S
<1>3. N \in S
  BY <1>1, <1>2, Induction
<1> QED
  BY <1>3 DEF S, Follows

\* Before is what its recursion says.
LEMMA BeforeIs ==
  ASSUME NEW N \in Nat, NEW s \in [1 .. N -> Nat]
  PROVE  /\ Len(s) = N
         /\ Before(s) \in [0 .. N -> Nat]
         /\ Before(s)[0] = 0
         /\ \A n \in 1 .. N : Before(s)[n] = Before(s)[n - 1] + s[n]
<1>1. Len(s) = N
  OBVIOUS
<1> DEFINE Def(g) == g = [n \in 0 .. N |-> IF n = 0 THEN 0 ELSE g[n - 1] + s[n]]
<1>2. \E g : Def(g)
  <2> DEFINE step == [p \in (1 .. N) \X Nat |-> p[2] + s[p[1]]]
  <2>1. step \in [(1 .. N) \X Nat -> Nat]
    OBVIOUS
  <2>2. PICK f \in [0 .. N -> Nat] : f[0] = 0 /\ \A n \in 1 .. N : f[n] = step[<<n, f[n - 1]>>]
    <3> DEFINE V == Nat
               zero == 0
    <3>1. step \in [(1 .. N) \X V -> V] /\ zero \in V
      BY <2>1
    <3> HIDE DEF step, V, zero
    <3>2. \E f : Follows(f, N, V, zero, step)
      BY <3>1, Recursion
    <3> QED
      BY <3>2 DEF V, zero, Follows
  <2>3. \A n \in 1 .. N : f[n] = f[n - 1] + s[n]
    <3>1. ASSUME NEW n \in 1 .. N PROVE f[n] = f[n - 1] + s[n]
      <4>1. n - 1 \in 0 .. N /\ f[n - 1] \in Nat
        OBVIOUS
      <4>2. step[<<n, f[n - 1]>>] = f[n - 1] + s[n]
        BY <4>1
      <4> QED
        BY <2>2, <4>2
    <3> QED
      BY <3>1
  <2>4. Def(f)
    BY <2>2, <2>3
  <2> QED
    BY <2>4
<1>3. Before(s) = CHOOSE g : Def(g)
  BY <1>1 DEF Before
<1>4. Def(Before(s))
  BY <1>2, <1>3
<1> DEFINE b == Before(s)
<1> HIDE DEF b
<1>5. b = [n \in 0 .. N |-> IF n = 0 THEN 0 ELSE b[n - 1] + s[n]]
  BY <1>4 DEF b
<1>6. b[0] = 0 /\ \A n \in 1 .. N : b[n] = b[n - 1] + s[n]
  BY <1>5
<1>7. \A n \in 0 .. N : b[n] \in Nat
  <2> DEFINE S == {n \in 0 .. N : b[n] \in Nat}
  <2>1. 0 \in S
    BY <1>6
  <2>2. \A m \in 0 .. N - 1 : m \in S => m + 1 \in S
    BY <1>6
  <2>3. \A m \in 0 .. N : m \in S
    <3> HIDE DEF S
    <3> QED
      BY <2>1, <2>2, Induction
  <2> QED
    BY <2>3
<1>8. b \in [0 .. N -> Nat]
  BY <1>5, <1>7
<1> QED
  BY <1>1, <1>6, <1>8 DEF b

\* f[n] is the first n sequences of g one after the other.
Flattens(f, g, N, V) ==
  /\ f \in [1 .. N -> Seq(V)]
  /\ f[1] = g[1]
  /\ \A n \in 2 .. N : f[n] = f[n - 1] \o g[n]
  /\ FlattenSeq(g) = f[N]

LEMMA FlattenIs ==
  ASSUME NEW N \in Nat \ {0}, NEW V, NEW g \in [1 .. N -> Seq(V)]
  PROVE  \E f : Flattens(f, g, N, V)
<1> DEFINE W == Seq(V)
           step == [p \in (1 .. N) \X W |-> p[2] \o g[p[1]]]
           Def(f) == f = [n \in 1 .. N |-> IF n = 1 THEN g[n] ELSE f[n - 1] \o g[n]]
           empty == <<>>
<1>1. Len(g) = N
  OBVIOUS
<1>2. step \in [(1 .. N) \X W -> W] /\ empty \in W
  OBVIOUS
<1>3. PICK f : Follows(f, N, W, empty, step)
  <2> HIDE DEF W, step, empty
  <2> QED
    BY <1>2, Recursion
<1>4. ASSUME NEW n \in 1 .. N
      PROVE  f[n - 1] \in Seq(V) /\ f[n] \in Seq(V) /\ f[n] = f[n - 1] \o g[n]
  <2>1. n - 1 \in 0 .. N /\ n \in 0 .. N
    OBVIOUS
  <2>2. f[n - 1] \in W /\ f[n] \in W /\ f[n] = step[<<n, f[n - 1]>>]
    <3> HIDE DEF W, step, empty
    <3> QED
      BY <1>3, <2>1 DEF Follows
  <2>3. step[<<n, f[n - 1]>>] = f[n - 1] \o g[n]
    BY <2>2
  <2> QED
    BY <2>2, <2>3
<1>5. f[1] = g[1]
  <2>1. f[0] = <<>>
    BY <1>3 DEF Follows
  <2>2. f[1] = f[0] \o g[1]
    <3>1. 1 \in 1 .. N /\ 1 - 1 = 0
      OBVIOUS
    <3> HIDE DEF W, step, empty
    <3> QED
      BY <1>4, <3>1
  <2>3. g[1] \in Seq(V)
    OBVIOUS
  <2> QED
    BY <2>1, <2>2, <2>3
<1> DEFINE e == [n \in 1 .. N |-> f[n]]
<1>6. Def(e)
  <2>1. ASSUME NEW n \in 1 .. N PROVE e[n] = IF n = 1 THEN g[n] ELSE e[n - 1] \o g[n]
    <3>1. CASE n = 1
      BY <1>5, <3>1
    <3>2. CASE n # 1
      <4>1. n - 1 \in 1 .. N
        BY <3>2
      <4>2. e[n - 1] = f[n - 1] /\ e[n] = f[n]
        BY <4>1
      <4> HIDE DEF e
      <4> QED
        BY <1>4, <3>2, <4>2
    <3> QED
      BY <3>1, <3>2
  <2> QED
    BY <2>1
<1>7. \E x : Def(x)
  <2> HIDE DEF e, Def
  <2> QED
    BY <1>6
<1> DEFINE c == CHOOSE x : Def(x)
<1>8. Def(c)
  BY <1>7
<1>9. FlattenSeq(g) = c[N]
  BY <1>1 DEF FlattenSeq
<1> HIDE DEF c
<1>10. c = [n \in 1 .. N |-> IF n = 1 THEN g[n] ELSE c[n - 1] \o g[n]]
  BY <1>8
<1>11. c[1] = g[1] /\ \A n \in 2 .. N : c[n] = c[n - 1] \o g[n]
  <2>1. c[1] = g[1]
    BY <1>10
  <2>2. ASSUME NEW n \in 2 .. N PROVE c[n] = c[n - 1] \o g[n]
    <3>1. n \in 1 .. N /\ n # 1
      OBVIOUS
    <3> QED
      BY <1>10, <3>1
  <2> QED
    BY <2>1, <2>2
<1>12. \A n \in 1 .. N : c[n] \in Seq(V)
  <2> DEFINE S == {m \in 0 .. N - 1 : c[m + 1] \in Seq(V)}
  <2>1. 0 \in S
    BY <1>11
  <2>2. ASSUME NEW m \in 0 .. (N - 1) - 1, m \in S PROVE m + 1 \in S
    <3>1. m + 2 \in 2 .. N /\ m + 2 \in 1 .. N /\ (m + 2) - 1 = m + 1 /\ (m + 1) + 1 = m + 2
          /\ m + 1 \in 0 .. N - 1
      OBVIOUS
    <3>2. c[m + 2] = c[m + 1] \o g[m + 2]
      BY <1>11, <3>1
    <3>3. c[m + 1] \in Seq(V) /\ g[m + 2] \in Seq(V)
      BY <2>2, <3>1
    <3>4. c[m + 2] \in Seq(V)
      BY <3>2, <3>3
    <3> QED
      BY <3>1, <3>4
  <2>3. \A m \in 0 .. N - 1 : m \in S
    <3>1. N - 1 \in Nat
      OBVIOUS
    <3> HIDE DEF S
    <3> QED
      BY <2>1, <2>2, <3>1, Induction
  <2>4. ASSUME NEW n \in 1 .. N PROVE c[n] \in Seq(V)
    <3>1. n - 1 \in 0 .. N - 1 /\ (n - 1) + 1 = n
      OBVIOUS
    <3>2. n - 1 \in S
      BY <2>3, <3>1
    <3> QED
      BY <3>1, <3>2
  <2> QED
    BY <2>4
<1>13. c \in [1 .. N -> Seq(V)]
  <2> HIDE DEF Def
  <2> QED
    BY <1>10, <1>12
<1> QED
  BY <1>9, <1>11, <1>13 DEF Flattens

LEMMA Concat ==
  ASSUME NEW V, NEW x \in Seq(V), NEW y \in Seq(V)
  PROVE  /\ Len(x \o y) = Len(x) + Len(y)
         /\ \A k \in 1 .. Len(x) : (x \o y)[k] = x[k]
         /\ \A k \in 1 .. Len(x) + Len(y) : k > Len(x) => (x \o y)[k] = y[k - Len(x)]
OBVIOUS

\* Filling page by page puts the k-th page of the buffer in the k-th place.
LEMMA FlattenRight ==
  ASSUME NEW N \in Nat \ {0}, NEW s \in [1 .. N -> Nat]
  PROVE  LET mapped == FlattenSeq([n \in 1 .. N |-> [j \in 1 .. s[n] |-> <<n, j>>]]) IN
         /\ mapped \in Seq((1 .. N) \X Nat)
         /\ Len(mapped) = Before(s)[N]
         /\ \A k \in 1 .. Before(s)[N] : PageAt(s, mapped[k]) = k
<1> DEFINE V == (1 .. N) \X Nat
           g == [n \in 1 .. N |-> [j \in 1 .. s[n] |-> <<n, j>>]]
           b == Before(s)
<1>1. ASSUME NEW n \in 1 .. N
      PROVE  g[n] \in Seq(V) /\ Len(g[n]) = s[n] /\ \A j \in 1 .. s[n] : g[n][j] = <<n, j>>
  OBVIOUS
<1>2. g \in [1 .. N -> Seq(V)]
  BY <1>1
<1>3. /\ b \in [0 .. N -> Nat] /\ b[0] = 0
      /\ \A n \in 1 .. N : b[n] = b[n - 1] + s[n]
  BY BeforeIs
<1>4. \E f : Flattens(f, g, N, V)
  <2> HIDE DEF V, g
  <2> QED
    BY <1>2, FlattenIs
<1>5. PICK f \in [1 .. N -> Seq(V)] :
        /\ f[1] = g[1]
        /\ \A n \in 2 .. N : f[n] = f[n - 1] \o g[n]
        /\ FlattenSeq(g) = f[N]
  BY <1>4 DEF Flattens
<1> HIDE DEF V, g, b
<1> DEFINE Filled(n) == /\ Len(f[n]) = b[n]
                        /\ \A k \in 1 .. b[n] : b[f[n][k][1] - 1] + f[n][k][2] = k
<1>6. Filled(1)
  <2>1. 1 \in 1 .. N /\ 1 - 1 = 0
    OBVIOUS
  <2>2. b[1] = s[1] /\ Len(f[1]) = s[1]
    BY <1>1, <1>3, <1>5, <2>1
  <2>3. \A k \in 1 .. b[1] : f[1][k] = <<1, k>>
    BY <1>1, <1>5, <2>1, <2>2
  <2>4. ASSUME NEW k \in 1 .. b[1] PROVE b[f[1][k][1] - 1] + f[1][k][2] = k
    <3>1. f[1][k][1] = 1 /\ f[1][k][2] = k
      BY <2>3
    <3>2. k \in Nat
      BY <2>2, <2>1
    <3> QED
      BY <1>3, <3>1, <3>2
  <2> QED
    BY <2>2, <2>4
<1>7. ASSUME NEW n \in 1 .. N - 1, Filled(n) PROVE Filled(n + 1)
  <2>1. n \in 1 .. N /\ n + 1 \in 2 .. N /\ n + 1 \in 1 .. N /\ (n + 1) - 1 = n /\ n \in 0 .. N
        /\ n + 1 \in 0 .. N
    OBVIOUS
  <2>2. b[n] \in Nat /\ s[n + 1] \in Nat /\ b[n + 1] \in Nat /\ b[n + 1] = b[n] + s[n + 1]
    BY <1>3, <2>1
  <2>3. f[n + 1] = f[n] \o g[n + 1]
    BY <1>5, <2>1
  <2>4. f[n] \in Seq(V) /\ g[n + 1] \in Seq(V) /\ Len(g[n + 1]) = s[n + 1] /\ Len(f[n]) = b[n]
    BY <1>1, <1>7, <2>1
  <2>5. /\ Len(f[n + 1]) = b[n] + s[n + 1]
        /\ \A k \in 1 .. b[n] : f[n + 1][k] = f[n][k]
        /\ \A k \in 1 .. b[n] + s[n + 1] : k > b[n] => f[n + 1][k] = g[n + 1][k - b[n]]
    <3> DEFINE x == f[n]
               y == g[n + 1]
    <3>1. x \in Seq(V) /\ y \in Seq(V) /\ f[n + 1] = x \o y
          /\ Len(x) = b[n] /\ Len(y) = s[n + 1]
      BY <2>3, <2>4
    <3> HIDE DEF x, y
    <3>2. /\ Len(x \o y) = Len(x) + Len(y)
          /\ \A k \in 1 .. Len(x) : (x \o y)[k] = x[k]
          /\ \A k \in 1 .. Len(x) + Len(y) : k > Len(x) => (x \o y)[k] = y[k - Len(x)]
      BY <3>1, Concat
    <3>3. /\ Len(f[n + 1]) = b[n] + s[n + 1]
          /\ \A k \in 1 .. b[n] : f[n + 1][k] = x[k]
          /\ \A k \in 1 .. b[n] + s[n + 1] : k > b[n] => f[n + 1][k] = y[k - b[n]]
      BY <3>1, <3>2
    <3> QED
      BY <3>3 DEF x, y
  <2>6. Len(f[n + 1]) = b[n + 1]
    BY <2>2, <2>5
  <2>7. ASSUME NEW k \in 1 .. b[n + 1] PROVE b[f[n + 1][k][1] - 1] + f[n + 1][k][2] = k
    <3>1. CASE k <= b[n]
      <4>1. k \in 1 .. b[n]
        BY <2>2, <3>1
      <4>2. f[n + 1][k] = f[n][k]
        BY <2>5, <4>1
      <4> QED
        BY <1>7, <4>1, <4>2
    <3>2. CASE k > b[n]
      <4>1. k - b[n] \in 1 .. s[n + 1] /\ k \in Nat
        BY <2>2, <3>2
      <4>2. f[n + 1][k] = g[n + 1][k - b[n]]
        BY <2>2, <2>5, <3>2
      <4>3. f[n + 1][k] = <<n + 1, k - b[n]>>
        BY <1>1, <2>1, <4>1, <4>2
      <4>4. f[n + 1][k][1] - 1 = n /\ f[n + 1][k][2] = k - b[n]
        BY <2>1, <4>3
      <4>5. k = b[n] + (k - b[n])
        BY <2>2, <4>1
      <4> QED
        BY <4>4, <4>5
    <3> QED
      BY <2>2, <3>1, <3>2
  <2> QED
    BY <2>6, <2>7
<1>8. Filled(N)
  <2> DEFINE S == {m \in 0 .. N - 1 : Filled(m + 1)}
  <2>1. 0 \in S
    BY <1>6
  <2>2. ASSUME NEW m \in 0 .. (N - 1) - 1, m \in S PROVE m + 1 \in S
    <3>1. m + 1 \in 1 .. N - 1 /\ m + 1 \in 0 .. N - 1
      OBVIOUS
    <3>2. Filled(m + 1)
      BY <2>2
    <3> HIDE DEF Filled
    <3> QED
      BY <1>7, <3>1, <3>2
  <2>3. N - 1 \in 0 .. N - 1 /\ N - 1 \in Nat /\ (N - 1) + 1 = N
    OBVIOUS
  <2>4. N - 1 \in S
    <3> HIDE DEF S
    <3> QED
      BY <2>1, <2>2, <2>3, Induction
  <2> HIDE DEF Filled
  <2> QED
    BY <2>3, <2>4
<1>9. FlattenSeq(g) \in Seq(V) /\ Len(FlattenSeq(g)) = b[N]
  BY <1>5, <1>8
<1>10. \A k \in 1 .. b[N] : PageAt(s, FlattenSeq(g)[k]) = k
  BY <1>5, <1>8 DEF PageAt, b
<1> QED
  BY <1>9, <1>10 DEF g, b, V

LEMMA MinIs ==
  ASSUME NEW a \in Nat, NEW b \in Nat
  PROVE  Min({a, b}) = IF a <= b THEN a ELSE b
BY DEF Min

\* However the pages are joined: entry k is page k, the entries left over the last page.
LEMMA PagefillRight ==
  ASSUME NEW pages \in Nat \ {0}, NEW entries \in Nat, NEW s \in Mergings(pages),
         NEW k \in 1 .. entries
  PROVE  PageAt(s, sgpagefill(s, entries)[k]) = Min({k, pages})
<1>1. PICK N \in 1 .. pages : s \in [1 .. N -> 1 .. pages]
  BY DEF Mergings
<1>2. Pages(s) = pages
  BY DEF Mergings
<1>3. N \in Nat \ {0} /\ s \in [1 .. N -> Nat] /\ Len(s) = N
  BY <1>1
<1> DEFINE mapped == FlattenSeq([n \in 1 .. N |-> [j \in 1 .. s[n] |-> <<n, j>>]])
<1>4. /\ Len(mapped) = Before(s)[N]
      /\ \A m \in 1 .. Before(s)[N] : PageAt(s, mapped[m]) = m
  BY <1>3, FlattenRight
<1>5. Before(s)[N] = pages
  BY <1>2, <1>3 DEF Pages
<1>6. sgpagefill(s, entries) = [m \in 1 .. entries |-> mapped[Min({m, Len(mapped)})]]
  BY <1>3 DEF sgpagefill
<1> HIDE DEF mapped
<1>7. sgpagefill(s, entries)[k] = mapped[Min({k, pages})]
  BY <1>4, <1>5, <1>6
<1>8. Min({k, pages}) \in 1 .. pages
  BY MinIs
<1> QED
  BY <1>4, <1>5, <1>7, <1>8

-----------------------------------------------------------------------------
(* The stream.                                                             *)

Upto(x) == Kinds \X (0 .. x - 1)
From(x) == Kinds \X (x .. RINGSIZ - 1)

\* What is held when the driver's thread is at a step.
HeldInv ==
  /\ pc = "stream" => held = {} /\ i = 0
  /\ pc = "dmabuf" => held = {Stream} /\ i = 0
  /\ pc = "buffer" => held = {Stream, Array} \cup Upto(i)
  /\ pc = "ring" => held = {Stream, Array} \cup Upto(RINGSIZ) /\ i = 0
  /\ pc \in {"acquire", "publish", "bound"} => held = Resources /\ i = 0
  /\ pc = "free_buffer" => held = {Stream, Array, Ring} \cup From(i)
  /\ pc = "free_ring" => held = {Stream, Array, Ring}
  /\ pc \in {"unregister", "gone"} => held = {}
  /\ ~bug

StreamAt ==
  /\ pc \in {"bound", "free_buffer", "free_ring"} => stream = "set"
  /\ pc \in {"unregister", "gone"} => stream = "freed"
  /\ pc \notin {"bound", "free_buffer", "free_ring", "unregister", "gone"} => stream = "null"

FeedInv ==
  /\ feeds = IF open = CountWrap THEN 0 ELSE open
  /\ early => open > 0
  /\ stream = "null" => ~enabled /\ (open > 0 => early)
  /\ FeedsServed

\* The count goes up and down with the open feeds, and wraps at the last of them.
LEMMA Counting ==
  ASSUME NEW x \in 0 .. feednum
  PROVE  LET count(y) == IF y = CountWrap THEN 0 ELSE y
         IN  /\ x < feednum => Counted(count(x)) = count(x + 1)
             /\ x > 0 => (count(x) + (CountWrap - 1)) % CountWrap = count(x - 1)
<1> DEFINE count(y) == IF y = CountWrap THEN 0 ELSE y
<1>1. /\ CountWrap \in Nat /\ CountWrap > 1 /\ feednum \in Nat /\ feednum <= CountWrap
      /\ x \in Nat /\ x <= CountWrap
  BY CountAssumption, FeedsAssumption
<1>2. ASSUME x < feednum PROVE Counted(count(x)) = count(x + 1)
  <2>1. count(x) = x
    BY <1>1, <1>2
  <2>2. CASE x + 1 = CountWrap
    BY <1>1, <2>1, <2>2 DEF Counted
  <2>3. CASE x + 1 < CountWrap
    BY <1>1, <2>1, <2>3 DEF Counted
  <2> QED BY <1>1, <1>2, <2>2, <2>3
<1>3. ASSUME x > 0 PROVE (count(x) + (CountWrap - 1)) % CountWrap = count(x - 1)
  <2>1. CASE x = CountWrap
    BY <1>1, <2>1
  <2>2. CASE x < CountWrap
    <3>1. x + (CountWrap - 1) = CountWrap + (x - 1) /\ x - 1 \in 0 .. CountWrap - 1
      BY <1>1, <1>3, <2>2
    <3>2. (CountWrap + (x - 1)) % CountWrap = x - 1
      BY <1>1, <3>1
    <3> QED BY <1>1, <2>2, <3>1, <3>2
  <2> QED BY <1>1, <2>1, <2>2
<1> QED BY <1>2, <1>3

IInv == TypeOK /\ HeldInv /\ StreamAt /\ FeedInv

USE SizesAssumption DEF Buffers

LEMMA InitInv == Init => IInv
<1> SUFFICES ASSUME Init PROVE IInv
  OBVIOUS
<1>1. TypeOK
  BY CountAssumption DEF Init, TypeOK, Steps
<1>2. HeldInv /\ StreamAt
  BY DEF Init, HeldInv, StreamAt
<1>3. FeedInv
  BY CountAssumption DEF Init, FeedInv, FeedsServed
<1> QED BY <1>1, <1>2, <1>3 DEF IInv

-----------------------------------------------------------------------------
(* Types.                                                                  *)

LEMMA AllocateType ==
  ASSUME TypeOK, Allocate PROVE TypeOK'
<1>1. DOMAIN Structures = {"stream", "dmabuf", "ring"}
  BY DEF Structures
<1>2. pc \in {"stream", "dmabuf", "ring"} => Structures[pc].is \in Resources
                                         /\ Structures[pc].next \in {"dmabuf", "buffer", "acquire"}
  BY DEF Structures, Resources
<1>3. held' \subseteq Resources /\ pc' \in {"failed", "dmabuf", "buffer", "acquire"}
  BY <1>1, <1>2 DEF Allocate, Failed, TypeOK
<1> QED BY <1>3 DEF TypeOK, Steps, Allocate, engine, users

LEMMA AllocateBufferType ==
  ASSUME TypeOK, AllocateBuffer PROVE TypeOK'
<1>1. i \in Buffers
  BY DEF TypeOK
<1>2. \A kind \in Kinds : <<kind, i>> \in Resources
  BY <1>1 DEF Resources
<1>3. Parts(i) \subseteq Resources
  BY <1>1 DEF Resources, Parts
<1>4. /\ held' \subseteq Resources
      /\ pc' \in {"failed", "bug", "buffer", "ring"}
      /\ i' \in Buffers
      /\ DOMAIN segments' = Buffers /\ DOMAIN table' = Buffers
  <2>1. CASE (TableFails \/ ListFails \/ MappingFails) /\ UNCHANGED <<i, segments, table>>
    BY <2>1, <1>1, <1>2 DEF TypeOK, TableFails, ListFails, MappingFails, Failed, Kinds
  <2>2. CASE BufferAllocated
    <3>1. held' \subseteq Resources
      BY <2>2, <1>3 DEF TypeOK, BufferAllocated
    <3>2. DOMAIN segments' = Buffers /\ DOMAIN table' = Buffers
      BY <2>2 DEF TypeOK, BufferAllocated
    <3>3. pc' \in {"buffer", "ring"} /\ i' \in Buffers
      BY <2>2, <1>1 DEF AllocateBuffer, BufferAllocated, MoreBuffers
    <3> QED BY <3>1, <3>2, <3>3
  <2> QED BY <2>1, <2>2 DEF AllocateBuffer
<1>5. UNCHANGED <<stream, engine, users, bug>>
  BY DEF AllocateBuffer
<1> QED BY <1>4, <1>5 DEF TypeOK, Steps, engine, users

LEMMA FreeType ==
  ASSUME TypeOK, FreeBuffer \/ FreeStream PROVE TypeOK'
<1>1. CASE FreeBuffer
  <2>1. held' \subseteq Resources /\ bug' \in BOOLEAN
    BY <1>1 DEF FreeBuffer, Give, TypeOK
  <2>2. pc' \in {"free_buffer", "free_ring"} /\ i' \in Buffers
    BY <1>1 DEF FreeBuffer, MoreBuffers, TypeOK
  <2> QED BY <1>1, <2>1, <2>2 DEF FreeBuffer, TypeOK, Steps, engine, users
<1>2. CASE FreeStream
  <2>1. held' \subseteq Resources /\ bug' \in BOOLEAN
    BY <1>2 DEF FreeStream, Give, TypeOK
  <2> QED BY <1>2, <2>1 DEF FreeStream, TypeOK, Steps, engine, users
<1> QED BY <1>1, <1>2

LEMMA FeedType ==
  ASSUME TypeOK, FeedInv, Users PROVE TypeOK' /\ feeds' = IF open' = CountWrap THEN 0 ELSE open'
<1>0. open \in 0 .. feednum /\ feednum \in Nat /\ CountWrap \in Nat /\ CountWrap > 1
  BY CountAssumption DEF TypeOK
<1>1. open' \in 0 .. feednum /\ feeds' = IF open' = CountWrap THEN 0 ELSE open'
  <2> DEFINE count(y) == IF y = CountWrap THEN 0 ELSE y
  <2>0. feeds = count(open)
    BY DEF FeedInv
  <2>1. CASE StartFeed
    <3>1. open < feednum /\ open' = open + 1 /\ feeds' = Counted(feeds)
      BY <2>1 DEF StartFeed
    <3> QED BY <3>1, <2>0, <1>0, Counting
  <2>2. CASE StopFeed
    <3>1. open > 0 /\ open' = open - 1 /\ feeds' = (feeds + (CountWrap - 1)) % CountWrap
      BY <2>2 DEF StopFeed
    <3>2. (count(open) + (CountWrap - 1)) % CountWrap = count(open - 1)
      BY <3>1, <1>0, Counting
    <3>3. open' \in 0 .. feednum
      BY <3>1, <1>0
    <3> QED BY <3>1, <3>2, <3>3, <2>0
  <2> QED BY <2>1, <2>2 DEF Users
<1>2. feeds' \in 0 .. CountWrap - 1
  BY <1>0, <1>1, FeedsAssumption
<1>3. clock_run' \in BOOLEAN /\ enabled' \in BOOLEAN /\ early' \in BOOLEAN /\ fault' \in BOOLEAN
      /\ resets' \in {0, 1}
  <2>1. CASE StartFeed
    <3>1. CASE UNCHANGED <<engine, early, fault>>
      BY <3>1 DEF engine, TypeOK
    <3>2. CASE DmaStart
      <4>1. CASE stream = "null" /\ early' = TRUE /\ UNCHANGED <<engine, fault>>
        BY <4>1 DEF engine, TypeOK
      <4>2. CASE stream = "set" /\ Reset /\ enabled' = TRUE /\ UNCHANGED <<early, fault>>
        <5>1. resets' \in {0, 1} /\ clock_run' = TRUE
          BY <4>2 DEF Reset, TypeOK
        <5> QED BY <4>2, <5>1 DEF TypeOK
      <4>3. CASE stream = "freed" /\ fault' = TRUE /\ UNCHANGED <<engine, early>>
        BY <4>3 DEF engine, TypeOK
      <4> QED BY <3>2, <4>1, <4>2, <4>3 DEF DmaStart
    <3> QED BY <2>1, <3>1, <3>2 DEF StartFeed
  <2>2. CASE StopFeed
    <3>1. clock_run' \in BOOLEAN /\ enabled' \in BOOLEAN /\ resets' \in {0, 1}
      BY <2>2 DEF StopFeed, DmaStop, engine, TypeOK
    <3>2. early' \in BOOLEAN
      BY <2>2 DEF StopFeed
    <3>3. fault' \in BOOLEAN
      BY <2>2 DEF StopFeed, DmaStop, TypeOK
    <3> QED BY <3>1, <3>2, <3>3
  <2> QED BY <2>1, <2>2 DEF Users
<1>4. UNCHANGED <<pc, i, memory, stream, bug>>
  BY DEF Users, StartFeed, StopFeed
<1> QED BY <1>1, <1>2, <1>3, <1>4 DEF TypeOK, memory

-----------------------------------------------------------------------------
(* What is held.                                                           *)

LEMMA HeldByDriver ==
  ASSUME TypeOK, HeldInv, Driver PROVE HeldInv'
<1> USE DEF HeldInv, TypeOK, Upto, From, Parts, Kinds, Resources, Stream, Array, Ring
<1>1. CASE Allocate
  BY <1>1 DEF Allocate, Structures, Failed
<1>2. CASE AllocateBuffer
  <2>1. CASE (TableFails \/ ListFails \/ MappingFails) /\ UNCHANGED <<i, segments, table>>
    BY <1>2, <2>1 DEF AllocateBuffer, TableFails, ListFails, MappingFails, Failed
  <2>2. CASE BufferAllocated
    BY <1>2, <2>2 DEF AllocateBuffer, BufferAllocated, MoreBuffers
  <2> QED BY <1>2, <2>1, <2>2 DEF AllocateBuffer
<1>3. CASE Acquire \/ Publish \/ Exit
  BY <1>3 DEF Acquire, Publish, Exit, memory
<1>4. CASE FreeBuffer
  BY <1>4 DEF FreeBuffer, Give, FreedParts, MoreBuffers
<1>5. CASE FreeStream
  BY <1>5 DEF FreeStream, Give
<1>6. CASE Unregister
  BY <1>6 DEF Unregister, memory
<1> QED BY <1>1, <1>2, <1>3, <1>4, <1>5, <1>6 DEF Driver

LEMMA StreamByDriver ==
  ASSUME TypeOK, StreamAt, Driver PROVE StreamAt'
<1> USE DEF StreamAt
<1>1. CASE Allocate
  BY <1>1 DEF Allocate, Structures, Failed
<1>2. CASE AllocateBuffer
  <2>1. pc = "buffer" /\ stream' = stream /\ pc' \in {"failed", "bug", "buffer", "ring"}
    BY <1>2 DEF AllocateBuffer, TableFails, ListFails, MappingFails, Failed, BufferAllocated
  <2> QED BY <2>1
<1>3. CASE Acquire \/ Publish \/ Exit \/ FreeStream \/ Unregister
  BY <1>3 DEF Acquire, Publish, Exit, FreeStream, Unregister
<1>4. CASE FreeBuffer
  BY <1>4 DEF FreeBuffer
<1> QED BY <1>1, <1>2, <1>3, <1>4 DEF Driver

-----------------------------------------------------------------------------
(* The feeds.                                                              *)

\* The driver leaves the count alone, and the engine but for the first reset: before the stream
\* is there no feed has started the engine, and those that are open were early.
LEMMA FeedByDriver ==
  ASSUME TypeOK, StreamAt, FeedInv, Driver PROVE FeedInv'
<1> USE DEF FeedInv, FeedsServed
<1>1. CASE Allocate \/ AllocateBuffer \/ Exit \/ FreeBuffer \/ Unregister
  <2>1. UNCHANGED <<stream, engine, users>>
    BY <1>1 DEF Allocate, AllocateBuffer, Exit, FreeBuffer, Unregister
  <2> QED BY <2>1 DEF engine, users
<1>2. CASE Acquire
  BY <1>2 DEF Acquire, Reset, StreamAt, users
<1>3. CASE Publish
  BY <1>3 DEF Publish, StreamAt, engine, users
<1>4. CASE FreeStream
  BY <1>4 DEF FreeStream, engine, users
<1> QED BY <1>1, <1>2, <1>3, <1>4 DEF Driver

\* The first feed starts the engine or is early; any other finds it as it should be; only the
\* last one stops it.
LEMMA FeedByUsers ==
  ASSUME TypeOK, FeedInv, Users PROVE FeedInv'
<1> DEFINE count(y) == IF y = CountWrap THEN 0 ELSE y
<1>0. feeds' = count(open') /\ open \in Nat /\ CountWrap \in Nat /\ CountWrap > 1
  BY FeedType, CountAssumption DEF TypeOK
<1>1. CASE StartFeed
  <2>1. open' = open + 1 /\ stream' = stream
    BY <1>1 DEF StartFeed
  <2>2. CASE FirstFeed(feeds')
    <3>1. DmaStart
      BY <1>1, <2>2 DEF StartFeed
    <3>2. CASE stream = "null" /\ early' = TRUE /\ UNCHANGED <<engine, fault>>
      BY <3>2, <2>1, <1>0 DEF FeedInv, FeedsServed, engine
    <3>3. CASE stream = "set" /\ Reset /\ enabled' = TRUE /\ UNCHANGED <<early, fault>>
      BY <3>3, <2>1, <1>0 DEF FeedInv, FeedsServed, Reset
    <3>4. CASE stream = "freed" /\ fault' = TRUE /\ UNCHANGED <<engine, early>>
      BY <3>4, <2>1, <1>0 DEF FeedInv, FeedsServed, engine
    <3> QED BY <3>1, <3>2, <3>3, <3>4 DEF DmaStart
  <2>3. CASE ~FirstFeed(feeds')
    <3>1. UNCHANGED <<engine, early, fault>>
      BY <1>1, <2>3 DEF StartFeed
    <3>2. open > 0
      BY <2>1, <2>3, <1>0 DEF FirstFeed
    <3> QED BY <3>1, <3>2, <2>1, <1>0 DEF FeedInv, FeedsServed, engine
  <2> QED BY <2>2, <2>3
<1>2. CASE StopFeed
  <2>1. /\ open > 0 /\ open' = open - 1 /\ stream' = stream
        /\ early' <=> (early /\ open > 1)
        /\ enabled' = enabled
    BY <1>2 DEF StopFeed, DmaStop, engine
  <2>2. CASE feeds' = 0
    <3>1. open' = 0
      <4>1. open' \in Nat /\ open' < CountWrap
        BY <2>1, <1>0, FeedsAssumption, CountAssumption DEF TypeOK
      <4> QED BY <4>1, <2>2, <1>0
    <3>2. open = 1
      BY <3>1, <2>1, <1>0
    <3>3. ~early'
      BY <3>2, <2>1
    <3> QED BY <3>1, <3>3, <2>1, <1>0 DEF FeedInv, FeedsServed
  <2>3. CASE feeds' # 0
    <3>1. UNCHANGED <<engine, fault>>
      BY <1>2, <2>3 DEF StopFeed
    <3>2. open > 1
      BY <2>1, <2>3, <1>0
    <3>3. early' <=> early
      BY <3>2, <2>1
    <3> QED BY <3>1, <3>2, <3>3, <2>1, <1>0 DEF FeedInv, FeedsServed, engine
  <2> QED BY <2>2, <2>3
<1> QED BY <1>1, <1>2 DEF Users

-----------------------------------------------------------------------------
(* The theorems.                                                           *)

LEMMA DriverType ==
  ASSUME TypeOK, Driver PROVE TypeOK'
<1>1. CASE Allocate
  BY <1>1, AllocateType
<1>2. CASE AllocateBuffer
  BY <1>2, AllocateBufferType
<1>3. CASE FreeBuffer \/ FreeStream
  BY <1>3, FreeType
<1>4. CASE Acquire
  <2>1. pc' \in Steps /\ resets' \in {0, 1} /\ clock_run' = TRUE
    BY <1>4 DEF Acquire, Reset, Steps, TypeOK
  <2> QED BY <1>4, <2>1 DEF Acquire, TypeOK, memory, users
<1>5. CASE Publish
  BY <1>5 DEF Publish, TypeOK, Steps, memory, engine, users
<1>6. CASE Exit \/ Unregister
  BY <1>6 DEF Exit, Unregister, TypeOK, Steps, memory, engine, users
<1> QED BY <1>1, <1>2, <1>3, <1>4, <1>5, <1>6 DEF Driver

LEMMA Inductive ==
  ASSUME IInv, [Next]_vars PROVE IInv'
<1> USE DEF IInv
<1>1. CASE Driver
  BY <1>1, DriverType, HeldByDriver, StreamByDriver, FeedByDriver
<1>2. CASE Users
  <2>1. UNCHANGED <<pc, i, held, stream, bug>>
    BY <1>2 DEF Users, StartFeed, StopFeed, memory
  <2>2. HeldInv' /\ StreamAt'
    BY <2>1 DEF HeldInv, StreamAt, Upto, From
  <2> QED BY <1>2, <2>2, FeedType, FeedByUsers
<1>3. CASE UNCHANGED vars
  <2>1. UNCHANGED <<pc, i, held, segments, table, stream, clock_run, enabled, resets, feeds, open,
                    early, fault, bug>>
    BY <1>3 DEF vars, memory, engine, users
  <2>2. TypeOK'
    BY <2>1 DEF TypeOK
  <2>3. HeldInv' /\ StreamAt'
    BY <2>1 DEF HeldInv, StreamAt, Upto, From
  <2>4. FeedInv'
    BY <2>1 DEF FeedInv, FeedsServed
  <2> QED BY <2>2, <2>3, <2>4
<1> QED BY <1>1, <1>2, <1>3 DEF Next

LEMMA Invariance == Spec => []IInv
<1> QED BY InitInv, Inductive, PTL DEF Spec

\* The stream's variables keep their types; the counter stays a u8.
THEOREM StreamTypes == Spec => []TypeOK
<1>1. IInv => TypeOK
  BY DEF IInv
<1> QED BY <1>1, Invariance, PTL

\* However many buffers the ring has, an exit releases what the initialisation took, each thing
\* once, and nothing that is not held (saa7231_ts2dtl_exit, saa7231_dmabuf_free).
THEOREM StreamExitBalanced == Spec => []ExitBalanced
<1>1. IInv => ExitBalanced
  BY DEF IInv, HeldInv, ExitBalanced
<1> QED BY <1>1, Invariance, PTL

\* As long as the demultiplexer allows no more feeds than the counter has values, an open feed
\* that did not come before the stream finds the engine running (start_feed, stop_feed).
THEOREM StreamFeedsServed == Spec => []FeedsServed
<1>1. IInv => FeedsServed
  BY DEF IInv, FeedInv
<1> QED BY <1>1, Invariance, PTL

\* Nothing resets the engine while it runs for an open feed: the acquire of the initialisation
\* comes before any start, and only the first feed acquires again.
THEOREM StreamNeverReset == Spec => NeverResetUnderFeed
<1>1. ASSUME IInv, [Next]_vars PROVE [resets' # resets /\ enabled => open = 0]_vars
  <2> SUFFICES ASSUME resets' # resets, enabled PROVE open = 0
    OBVIOUS
  <2>0. TypeOK /\ StreamAt /\ FeedInv /\ (Next \/ UNCHANGED vars)
    BY <1>1 DEF IInv
  <2>1. stream # "null"
    BY <2>0 DEF FeedInv
  <2>2. pc # "acquire"
    BY <2>0, <2>1 DEF StreamAt
  <2>3. ~(Allocate \/ AllocateBuffer \/ Publish \/ Exit \/ FreeBuffer \/ FreeStream \/ Unregister)
    BY DEF Allocate, AllocateBuffer, Publish, Exit, FreeBuffer, FreeStream, Unregister, engine
  <2>4. ~Acquire /\ ~UNCHANGED vars
    BY <2>2 DEF Acquire, vars, engine
  <2>5. ~StopFeed
    BY DEF StopFeed, DmaStop, engine
  <2>6. StartFeed /\ FirstFeed(feeds')
    BY <2>0, <2>3, <2>4, <2>5 DEF Next, Driver, Users, StartFeed, engine
  <2>7. open' = open + 1 /\ open \in Nat /\ CountWrap \in Nat /\ CountWrap > 1
    BY <2>0, <2>6, CountAssumption DEF StartFeed, TypeOK
  <2>8. feeds' = IF open' = CountWrap THEN 0 ELSE open'
    BY <2>0, <2>6, FeedType DEF Users
  <2> QED BY <2>6, <2>7, <2>8 DEF FirstFeed
<1> QED BY <1>1, Invariance, PTL DEF Spec, NeverResetUnderFeed

\* What a table holds, from the moment its buffer is allocated.
TableInv ==
  \A x \in Buffers :
    \/ table[x] = <<>>
    \/ segments[x] \in Mergings(TsPages) /\ table[x] = sgpagefill(segments[x], Entries)

LEMMA TablesKept == TypeOK /\ TableInv /\ [Next]_vars => TableInv'
<1> SUFFICES ASSUME TypeOK, TableInv, [Next]_vars PROVE TableInv'
  OBVIOUS
<1>1. CASE UNCHANGED memory
  BY <1>1 DEF TableInv, memory
<1>2. CASE AllocateBuffer
  <2>1. CASE UNCHANGED <<segments, table>>
    BY <2>1 DEF TableInv
  <2>2. CASE BufferAllocated
    <3>1. PICK s \in Mergings(TsPages) :
            /\ segments' = [segments EXCEPT ![i] = s]
            /\ table' = [table EXCEPT ![i] = sgpagefill(s, Entries)]
      BY <2>2 DEF BufferAllocated
    <3> SUFFICES ASSUME NEW x \in Buffers
                 PROVE  \/ table'[x] = <<>>
                        \/ /\ segments'[x] \in Mergings(TsPages)
                           /\ table'[x] = sgpagefill(segments'[x], Entries)
      BY DEF TableInv
    <3>2. CASE x = i
      <4>1. segments'[x] = s /\ table'[x] = sgpagefill(s, Entries)
        BY <3>1, <3>2 DEF TypeOK
      <4> QED
        BY <4>1
    <3>3. CASE x # i
      <4>1. segments'[x] = segments[x] /\ table'[x] = table[x]
        BY <3>1, <3>3 DEF TypeOK
      <4> QED
        BY <4>1 DEF TableInv
    <3> QED
      BY <3>2, <3>3
  <2> QED
    BY <1>2, <2>1, <2>2 DEF AllocateBuffer
<1>3. CASE UNCHANGED <<segments, table>>
  BY <1>3 DEF TableInv
<1> QED
  BY <1>1, <1>2, <1>3 DEF Next, Driver, Users, Allocate, Acquire, Publish, Exit, FreeBuffer,
     FreeStream, Unregister, StartFeed, StopFeed, vars, memory

\* However dma_map_sg joins the pages, entry k of every buffer's table is its k-th page and the
\* entries left over its last one (saa7231_dmabuf_sgpagefill), for any sizes.
THEOREM StreamTablesRight == Spec => []TablesRight
<1>1. Init => TableInv
  BY DEF Init, TableInv
<1>2. TypeOK /\ TableInv => TablesRight
  <2> SUFFICES ASSUME TableInv, NEW x \in Buffers, table[x] # <<>>, NEW k \in 1 .. Entries
               PROVE  PageAt(segments[x], table[x][k]) = Min({k, TsPages})
    BY DEF TablesRight
  <2>1. segments[x] \in Mergings(TsPages) /\ table[x] = sgpagefill(segments[x], Entries)
    BY DEF TableInv
  <2> QED
    BY <2>1, PagefillRight, SizesAssumption
<1> QED
  BY <1>1, <1>2, TablesKept, StreamTypes, PTL DEF Spec
=============================================================================

---------------------------- MODULE ExecutionProofs ----------------------------
(***************************************************************************)
(* The arithmetic of an opportunity for every order book, trade size,      *)
(* pool, fee and gas price: the walk through the book is the best          *)
(* execution it allows, and what is published is a gap between the two     *)
(* markets.  Both are facts about a loop, proved by induction over the     *)
(* levels, which starts from the least number of a set (WFMin): the proof  *)
(* of a step shows the induction's set closed under adding one.            *)
(***************************************************************************)
EXTENDS Execution, SequenceTheorems, FiniteSetTheorems, WellFoundedInduction, TLAPS

-------------------------------------------------------------------------------
(* Induction and primitive recursion. *)

\* A set of numbers that is not empty has a least one.
LEMMA LeastNumber ==
    ASSUME NEW S \in SUBSET Nat, S # {}
    PROVE  \E n \in S : \A m \in S : n <= m
<1> DEFINE R == OpToRel(<, Nat)
<1>1. IsWellFoundedOn(R, Nat)
  BY NatLessThanWellFounded
<1>2. \A x, y \in Nat : y < x => <<y, x>> \in R
  BY DEF OpToRel
<1> HIDE DEF R
<1>3. PICK n \in S : \A m \in S : <<m, n>> \notin R
  BY <1>1, WFMin
<1>4. ASSUME NEW m \in S PROVE n <= m
  <2>1. <<m, n>> \notin R /\ m \in Nat /\ n \in Nat
    BY <1>3
  <2>2. ~(m < n)
    BY <1>2, <2>1
  <2> QED
    BY <2>1, <2>2
<1> QED
  BY <1>4

\* What holds of 0, and of n + 1 when of n, holds of every number.
LEMMA Induction ==
    ASSUME NEW S, 0 \in S, \A n \in Nat : n \in S => n + 1 \in S
    PROVE  \A n \in Nat : n \in S
<1> DEFINE rest == {n \in Nat : n \notin S}
<1> SUFFICES ASSUME rest # {} PROVE FALSE
  OBVIOUS
<1>1. PICK n \in rest : \A m \in rest : n <= m
  BY LeastNumber
<1>2. n # 0 /\ n - 1 \in Nat /\ n - 1 \notin rest /\ (n - 1) + 1 = n
  BY <1>1
<1> QED
  BY <1>2

\* A loop of N turns over X has its intermediate values.
LEMMA Recursion ==
    ASSUME NEW X, NEW x \in X, NEW N \in Nat, NEW turn \in [1..N -> [X -> X]]
    PROVE  \E f \in [0..N -> X] : f[0] = x /\ \A i \in 1..N : f[i] = turn[i][f[i - 1]]
<1> DEFINE Upto(f, n) == f[0] = x /\ \A i \in 1..n : f[i] = turn[i][f[i - 1]]
           S == {n \in Nat : n <= N => \E f \in [0..n -> X] : Upto(f, n)}
<1>1. 0 \in S
  <2> DEFINE g == [i \in 0..0 |-> x]
  <2>1. g \in [0..0 -> X] /\ g[0] = x
    OBVIOUS
  <2> HIDE DEF g
  <2>2. Upto(g, 0)
    BY <2>1
  <2> QED
    BY <2>1, <2>2
<1>2. ASSUME NEW n \in Nat, n \in S PROVE n + 1 \in S
  <2> SUFFICES ASSUME n + 1 <= N PROVE \E f \in [0..n+1 -> X] : Upto(f, n + 1)
    OBVIOUS
  <2>1. PICK f \in [0..n -> X] : Upto(f, n)
    BY <1>2
  <2> DEFINE g == [i \in 0..n+1 |-> IF i = n + 1 THEN turn[n + 1][f[n]] ELSE f[i]]
  <2>2. g \in [0..n+1 -> X] /\ g[n + 1] = turn[n + 1][f[n]] /\ \A i \in 0..n : g[i] = f[i]
    <3>1. n + 1 \in 1..N /\ f[n] \in X /\ turn[n + 1][f[n]] \in X
      OBVIOUS
    <3> QED
      BY <3>1
  <2> HIDE DEF g
  <2>3. g[0] = x
    BY <2>1, <2>2
  <2>4. ASSUME NEW i \in 1..n+1 PROVE g[i] = turn[i][g[i - 1]]
    <3>1. CASE i = n + 1
      BY <2>2, <3>1
    <3>2. CASE i # n + 1
      <4>1. i \in 1..n /\ i \in 0..n /\ i - 1 \in 0..n
        BY <3>2
      <4> QED
        BY <2>1, <2>2, <4>1
    <3> QED
      BY <3>1, <3>2
  <2> QED
    BY <2>2, <2>3, <2>4
<1> HIDE DEF S
<1>3. N \in S
  BY <1>1, <1>2, Induction
<1> QED
  BY <1>3 DEF S
-------------------------------------------------------------------------------
(* Sums. *)

\* Partial sums exist.
LEMMA PartialSums ==
    ASSUME NEW N \in Nat
    PROVE  \A f \in [1..N -> Int] :
             \E s \in [0..N -> Int] : s[0] = 0 /\ \A i \in 1..N : s[i] = s[i - 1] + f[i]
<1>1. PICK X, zero : X = Int /\ zero = 0
  OBVIOUS
<1>2. \A turn \in [1..N -> [X -> X]] :
        \E s \in [0..N -> X] : s[0] = zero /\ \A i \in 1..N : s[i] = turn[i][s[i - 1]]
  <2>1. zero \in X
    BY <1>1
  <2> QED
    BY <2>1, Recursion
<1> TAKE f \in [1..N -> Int]
<1>3. PICK turn : turn = [i \in 1..N |-> [x \in X |-> x + f[i]]]
  OBVIOUS
<1>4. turn \in [1..N -> [X -> X]]
  BY <1>1, <1>3
<1>5. PICK s \in [0..N -> X] : s[0] = zero /\ \A i \in 1..N : s[i] = turn[i][s[i - 1]]
  BY <1>2, <1>4
<1>6. \A i \in 1..N : s[i - 1] \in X
  OBVIOUS
<1>7. \A i \in 1..N : s[i] = s[i - 1] + f[i]
  BY <1>3, <1>5, <1>6
<1> QED
  BY <1>1, <1>5, <1>7

\* Total is the last of them.
LEMMA TotalIs ==
    ASSUME NEW N \in Nat, NEW f \in [1..N -> Int], NEW s \in [0..N -> Int],
           s[0] = 0, \A i \in 1..N : s[i] = s[i - 1] + f[i]
    PROVE  Total(f, N) = s[N]
<1>1. s = [i \in 0..N |-> IF i = 0 THEN 0 ELSE s[i - 1] + f[i]]
  OBVIOUS
<1>2. PICK t : /\ t = [i \in 0..N |-> IF i = 0 THEN 0 ELSE t[i - 1] + f[i]]
               /\ Total(f, N) = t[N]
  BY <1>1 DEF Total
<1>3. t[0] = 0 /\ \A i \in 1..N : t[i] = t[i - 1] + f[i]
  BY <1>2
<1> DEFINE S == {n \in Nat : n <= N => t[n] = s[n]}
<1>4. ASSUME NEW n \in Nat, n \in S PROVE n + 1 \in S
  <2>1. n + 1 <= N => n + 1 \in 1..N /\ (n + 1) - 1 = n /\ t[n] = s[n]
    BY <1>4
  <2> QED
    BY <1>3, <2>1
<1>5. 0 \in S
  BY <1>3
<1> HIDE DEF S
<1>6. N \in S
  BY <1>4, <1>5, Induction
<1>7. t[N] = s[N]
  BY <1>6 DEF S
<1> QED
  BY <1>2, <1>7

\* A list of numbers that never rises from one to the next never rises.
LEMMA Falling ==
    ASSUME NEW N \in Nat, NEW e \in [0..N -> Int], \A i \in 1..N : e[i] <= e[i - 1]
    PROVE  \A j \in 0..N : \A i \in 0..j : e[j] <= e[i]
<1> DEFINE S == {n \in Nat : n <= N => \A i \in 0..n : e[n] <= e[i]}
<1>1. 0 \in S
  OBVIOUS
<1>2. ASSUME NEW n \in Nat, n \in S PROVE n + 1 \in S
  <2> SUFFICES ASSUME n + 1 <= N, NEW i \in 0..n+1 PROVE e[n + 1] <= e[i]
    OBVIOUS
  <2>1. n + 1 \in 1..N /\ n + 1 \in 0..N /\ n \in 0..N /\ i \in 0..N /\ (n + 1) - 1 = n
    OBVIOUS
  <2>2. e[n + 1] \in Int /\ e[n] \in Int /\ e[i] \in Int /\ e[n + 1] <= e[n]
    BY <2>1
  <2>3. i # n + 1 => i \in 0..n /\ e[n] <= e[i]
    BY <1>2
  <2> QED
    BY <2>2, <2>3
<1> HIDE DEF S
<1>3. \A n \in Nat : n \in S
  BY <1>1, <1>2, Induction
<1> QED
  BY <1>3 DEF S

\* Moving an amount to a higher price does not lower its value.
LEMMA Dearer ==
    ASSUME NEW a \in Int, NEW b \in Int, a <= b, NEW d \in Nat
    PROVE  a * d \in Int /\ b * d \in Int /\ a * d <= b * d
  OBVIOUS

\* Prices rise along a list, and d is how far one buyer is ahead of another after each
\* of its levels.  What the one has paid more than the other is at most what the
\* difference is worth at the price of the last level.
LEMMA Ahead ==
    ASSUME NEW N \in Nat, NEW p \in [1..N -> Int], NEW d \in [0..N -> Nat],
           NEW e \in [0..N -> Int], d[0] = 0, e[0] = 0,
           \A i, j \in 1..N : i < j => p[i] <= p[j],
           \A i \in 1..N : e[i] = e[i - 1] + p[i] * (d[i] - d[i - 1])
    PROVE  d[N] = 0 => e[N] <= 0
<1> DEFINE Bound(n) == IF n = 0 THEN e[n] <= 0 ELSE e[n] <= p[n] * d[n]
           S == {n \in Nat : n <= N => Bound(n)}
<1>1. 0 \in S
  OBVIOUS
<1>2. ASSUME NEW n \in Nat, n \in S PROVE n + 1 \in S
  <2> SUFFICES ASSUME n + 1 <= N PROVE e[n + 1] <= p[n + 1] * d[n + 1]
    OBVIOUS
  <2>1. n + 1 \in 1..N /\ n \in 0..N /\ (n + 1) - 1 = n /\ Bound(n)
    BY <1>2
  <2>2. /\ e[n + 1] = e[n] + p[n + 1] * (d[n + 1] - d[n])
        /\ e[n] \in Int /\ p[n + 1] \in Int /\ d[n] \in Nat /\ d[n + 1] \in Nat
    <3>1. n + 1 \in 1..N /\ n + 1 \in 0..N /\ n \in 0..N /\ (n + 1) - 1 = n
      BY <2>1
    <3> HIDE DEF Bound
    <3> QED
      BY <3>1
  <2>3. e[n] <= p[n + 1] * d[n]
    <3>1. CASE n = 0
      BY <2>1, <2>2, <3>1
    <3>2. CASE n # 0
      <4>1. n \in 1..N /\ p[n] \in Int /\ p[n] <= p[n + 1] /\ e[n] <= p[n] * d[n]
        BY <2>1, <3>2
      <4>2. /\ p[n] * d[n] \in Int /\ p[n + 1] * d[n] \in Int
            /\ p[n] * d[n] <= p[n + 1] * d[n]
        BY <2>2, <4>1, Dearer
      <4> QED
        BY <2>2, <4>1, <4>2
    <3> QED
      BY <3>1, <3>2
  <2>4. p[n + 1] * (d[n + 1] - d[n]) = p[n + 1] * d[n + 1] - p[n + 1] * d[n]
    BY <2>2
  <2> QED
    BY <2>2, <2>3, <2>4
<1> HIDE DEF S
<1>3. N \in S
  BY <1>1, <1>2, Induction
<1>4. ASSUME d[N] = 0 PROVE e[N] <= 0
  <2>1. Bound(N)
    BY <1>3 DEF S
  <2>2. CASE N = 0
    BY <2>1, <2>2
  <2>3. CASE N # 0
    <3>1. N \in 1..N /\ p[N] \in Int /\ e[N] <= p[N] * 0
      BY <1>4, <2>1, <2>3
    <3> QED
      BY <3>1
  <2> QED
    BY <2>2, <2>3
<1> QED
  BY <1>4

-------------------------------------------------------------------------------
(* The walk through a side of the book. *)

Depth == [price : Nat, volume : Nat]

\* The loop in numbers: what is left (r) and paid (c) after each level, and what each
\* one fills (g).
WalkOf(side, N, n, r, c, g) ==
    /\ r \in [0..N -> 0..n] /\ c \in [0..N -> Nat] /\ g \in [1..N -> 0..n]
    /\ r[0] = n /\ c[0] = 0
    /\ \A i \in 1..N :
         /\ g[i] <= side[i].volume /\ (g[i] = r[i - 1] \/ g[i] = side[i].volume)
         /\ r[i] = r[i - 1] - g[i]
         /\ c[i] = c[i - 1] + g[i] * side[i].price

\* A filling of the size from the levels, what is paid at each of them, and a side
\* whose levels get worse: dearer where sign is 1, cheaper where it is -1.
FillingOf(side, N, n, f) ==
    /\ f \in [1..N -> 0..n] /\ \A i \in 1..N : f[i] <= side[i].volume
    /\ Total(f, N) = n
PaidOf(side, N, f) == [i \in 1..N |-> f[i] * side[i].price]
Worsening(side, N, sign) ==
    /\ sign \in {1, -1}
    /\ \A i, j \in 1..N : i < j => sign * side[i].price <= sign * side[j].price

\* One turn keeps the type of the loop's variables.
LEMMA FillFacts ==
    ASSUME NEW n \in Nat, NEW w \in [remaining : 0..n, cost : Nat], NEW level \in Depth
    PROVE  /\ Fill(w, level) \in [remaining : 0..n, cost : Nat]
           /\ \E fill \in 0..n :
                /\ fill <= level.volume /\ (fill = w.remaining \/ fill = level.volume)
                /\ Fill(w, level).remaining = w.remaining - fill
                /\ Fill(w, level).cost = w.cost + fill * level.price
<1> DEFINE fill == IF w.remaining <= level.volume THEN w.remaining ELSE level.volume
<1>1. /\ w.remaining \in 0..n /\ w.cost \in Nat
      /\ level.volume \in Nat /\ level.price \in Nat
  BY DEF Depth
<1>2. /\ fill \in 0..n /\ fill <= level.volume /\ w.remaining - fill \in 0..n
      /\ fill = w.remaining \/ fill = level.volume
  BY <1>1
<1>3. Fill(w, level) = [remaining |-> w.remaining - fill, cost |-> w.cost + fill * level.price]
  BY DEF Fill
<1> HIDE DEF fill
<1>4. w.cost + fill * level.price \in Nat
  <2>1. fill \in Nat
    BY <1>2
  <2>2. fill * level.price \in Nat
    BY <1>1, <2>1
  <2> QED
    BY <1>1, <2>2
<1> QED
  BY <1>2, <1>3, <1>4

\* The values of the loop exist, and are those of the recursion.
LEMMA WalkedFacts ==
    ASSUME NEW N \in Nat, NEW n \in Nat
    PROVE  \A side \in [1..N -> Depth] : Len(side) = N =>
             /\ Walked(side, n) \in [0..N -> [remaining : 0..n, cost : Nat]]
             /\ Walked(side, n)[0] = [remaining |-> n, cost |-> 0]
             /\ \A i \in 1..N : Walked(side, n)[i] = Fill(Walked(side, n)[i - 1], side[i])
<1>1. PICK X, start : X = [remaining : 0..n, cost : Nat] /\ start = [remaining |-> n, cost |-> 0]
  OBVIOUS
<1>2. \A turn \in [1..N -> [X -> X]] :
        \E w \in [0..N -> X] : w[0] = start /\ \A i \in 1..N : w[i] = turn[i][w[i - 1]]
  <2>1. start \in X
    BY <1>1
  <2> QED
    BY <2>1, Recursion
<1> SUFFICES ASSUME NEW side \in [1..N -> Depth], Len(side) = N
             PROVE  /\ Walked(side, n) \in [0..N -> X]
                    /\ Walked(side, n)[0] = start
                    /\ \A i \in 1..N :
                         Walked(side, n)[i] = Fill(Walked(side, n)[i - 1], side[i])
  BY <1>1
<1>3. \A i \in 1..N, w \in X : Fill(w, side[i]) \in X
  BY <1>1, FillFacts
<1>4. PICK turn : turn = [i \in 1..N |-> [w \in X |-> Fill(w, side[i])]]
  OBVIOUS
<1>5. turn \in [1..N -> [X -> X]]
  BY <1>3, <1>4
<1>6. PICK w \in [0..N -> X] : w[0] = start /\ \A i \in 1..N : w[i] = turn[i][w[i - 1]]
  BY <1>2, <1>5
<1>7. \A i \in 1..N : w[i] = Fill(w[i - 1], side[i])
  <2>1. \A i \in 1..N : w[i - 1] \in X
    OBVIOUS
  <2> QED
    BY <1>4, <1>6, <2>1
<1>8. w = [i \in 0..Len(side) |-> IF i = 0 THEN [remaining |-> n, cost |-> 0]
                                  ELSE Fill(w[i - 1], side[i])]
  BY <1>1, <1>6, <1>7
<1>9. Walked(side, n) = [i \in 0..Len(side) |->
                           IF i = 0 THEN [remaining |-> n, cost |-> 0]
                           ELSE Fill(Walked(side, n)[i - 1], side[i])]
  BY <1>8 DEF Walked
<1>10. /\ Walked(side, n)[0] = start
       /\ \A i \in 1..N : Walked(side, n)[i] = Fill(Walked(side, n)[i - 1], side[i])
  BY <1>1, <1>9
<1> DEFINE S == {m \in Nat : m <= N => Walked(side, n)[m] \in X}
<1>11. 0 \in S
  BY <1>1, <1>10
<1>12. ASSUME NEW m \in Nat, m \in S PROVE m + 1 \in S
  <2>1. m + 1 <= N => m + 1 \in 1..N /\ (m + 1) - 1 = m /\ Walked(side, n)[m] \in X
    BY <1>12
  <2> QED
    BY <1>3, <1>10, <2>1
<1> HIDE DEF S
<1>13. \A m \in Nat : m \in S
  BY <1>11, <1>12, Induction
<1>14. \A m \in 0..N : Walked(side, n)[m] \in X
  BY <1>13 DEF S
<1>15. Walked(side, n) = [m \in 0..N |-> Walked(side, n)[m]]
  BY <1>9
<1> QED
  BY <1>10, <1>14, <1>15

\* So the walk is a loop in numbers.
LEMMA WalkIsLoop ==
    ASSUME NEW N \in Nat, NEW n \in Nat, NEW side \in [1..N -> Depth], Len(side) = N
    PROVE  \E r, c, g : /\ WalkOf(side, N, n, r, c, g)
                        /\ Walk(side, n).remaining = r[N] /\ Walk(side, n).cost = c[N]
<1>1. PICK w : w = Walked(side, n)
  OBVIOUS
<1>2. /\ w \in [0..N -> [remaining : 0..n, cost : Nat]]
      /\ w[0] = [remaining |-> n, cost |-> 0]
      /\ \A i \in 1..N : w[i] = Fill(w[i - 1], side[i])
  BY <1>1, WalkedFacts
<1> DEFINE r == [i \in 0..N |-> w[i].remaining]
           c == [i \in 0..N |-> w[i].cost]
           Fills(i, fill) ==
               /\ fill <= side[i].volume /\ (fill = r[i - 1] \/ fill = side[i].volume)
               /\ r[i] = r[i - 1] - fill
               /\ c[i] = c[i - 1] + fill * side[i].price
           g == [i \in 1..N |-> CHOOSE fill \in 0..n : Fills(i, fill)]
<1>3. r \in [0..N -> 0..n] /\ c \in [0..N -> Nat] /\ r[0] = n /\ c[0] = 0
  <2>1. \A i \in 0..N : w[i].remaining \in 0..n /\ w[i].cost \in Nat
    BY <1>2
  <2>2. w[0].remaining = n /\ w[0].cost = 0
    BY <1>2
  <2> QED
    BY <2>1, <2>2
<1>4. ASSUME NEW i \in 1..N PROVE \E fill \in 0..n : Fills(i, fill)
  <2>1. i - 1 \in 0..N /\ i \in 0..N
    OBVIOUS
  <2>2. /\ w[i - 1] \in [remaining : 0..n, cost : Nat] /\ side[i] \in Depth
        /\ w[i] = Fill(w[i - 1], side[i])
    BY <1>2, <2>1
  <2>3. /\ r[i] = w[i].remaining /\ c[i] = w[i].cost
        /\ r[i - 1] = w[i - 1].remaining /\ c[i - 1] = w[i - 1].cost
    BY <2>1
  <2>4. PICK v, level : v = w[i - 1] /\ level = side[i]
    OBVIOUS
  <2>5. PICK fill \in 0..n :
          /\ fill <= level.volume /\ (fill = v.remaining \/ fill = level.volume)
          /\ Fill(v, level).remaining = v.remaining - fill
          /\ Fill(v, level).cost = v.cost + fill * level.price
    <3>1. v \in [remaining : 0..n, cost : Nat] /\ level \in Depth
      BY <2>2, <2>4
    <3> QED
      BY <3>1, FillFacts
  <2> HIDE DEF r, c
  <2> QED
    BY <2>2, <2>3, <2>4, <2>5
<1> HIDE DEF Fills
<1>5. \A i \in 1..N : g[i] \in 0..n /\ Fills(i, g[i])
  BY <1>4
<1>6. g \in [1..N -> 0..n]
  BY <1>5
<1>7. Walk(side, n).remaining = r[N] /\ Walk(side, n).cost = c[N]
  BY <1>1 DEF Walk
<1> HIDE DEF g, r, c
<1>8. WalkOf(side, N, n, r, c, g)
  BY <1>3, <1>5, <1>6 DEF WalkOf, Fills
<1> QED
  BY <1>7, <1>8

\* What the loop has filled is a filling of the side, at the cost it has found.
LEMMA WalkFills ==
    ASSUME NEW N \in Nat, NEW n \in Nat, NEW side \in [1..N -> Depth],
           NEW r, NEW c, NEW g, WalkOf(side, N, n, r, c, g), r[N] = 0
    PROVE  FillingOf(side, N, n, g) /\ Total(PaidOf(side, N, g), N) = c[N]
<1>1. /\ r \in [0..N -> 0..n] /\ c \in [0..N -> Nat] /\ g \in [1..N -> 0..n]
      /\ r[0] = n /\ c[0] = 0
      /\ \A i \in 1..N : /\ r[i] = r[i - 1] - g[i] /\ g[i] <= side[i].volume
                         /\ c[i] = c[i - 1] + g[i] * side[i].price
  BY DEF WalkOf
<1>2. Total(g, N) = n
  <2> DEFINE s == [i \in 0..N |-> n - r[i]]
  <2>1. g \in [1..N -> Int] /\ s \in [0..N -> Int] /\ s[0] = 0 /\ s[N] = n
    BY <1>1
  <2>2. ASSUME NEW i \in 1..N PROVE s[i] = s[i - 1] + g[i]
    <3>1. i \in 0..N /\ i - 1 \in 0..N /\ r[i] = r[i - 1] - g[i]
      BY <1>1
    <3>2. r[i - 1] \in Int /\ g[i] \in Int /\ s[i] = n - r[i] /\ s[i - 1] = n - r[i - 1]
      BY <1>1, <3>1
    <3> HIDE DEF s
    <3> QED
      BY <3>1, <3>2
  <2> HIDE DEF s
  <2> QED
    BY <2>1, <2>2, TotalIs
<1>3. Total(PaidOf(side, N, g), N) = c[N]
  <2>1. PICK f : f = PaidOf(side, N, g) /\ f = [i \in 1..N |-> g[i] * side[i].price]
    BY DEF PaidOf
  <2>2. ASSUME NEW i \in 1..N PROVE g[i] * side[i].price \in Int
    <3>1. g[i] \in 0..n /\ side[i] \in Depth
      BY <1>1
    <3>2. g[i] \in Int /\ side[i].price \in Int
      BY <3>1 DEF Depth
    <3> QED
      BY <3>2
  <2>3. f \in [1..N -> Int] /\ c \in [0..N -> Int] /\ \A i \in 1..N : c[i] = c[i - 1] + f[i]
    BY <1>1, <2>1, <2>2
  <2>4. Total(f, N) = c[N]
    BY <1>1, <2>3, TotalIs
  <2> QED
    BY <2>1, <2>4
<1> QED
  BY <1>1, <1>2, <1>3 DEF FillingOf

\* After no level has another filling of the size taken more than the loop: this one
\* takes a level whole, unless it has all it needs.
LEMMA NeverBehind ==
    ASSUME NEW N \in Nat, NEW n \in Nat, NEW side \in [1..N -> Depth],
           NEW r, NEW c, NEW g, WalkOf(side, N, n, r, c, g),
           NEW f \in [1..N -> 0..n], \A i \in 1..N : f[i] <= side[i].volume,
           NEW F \in [0..N -> Int], F[0] = 0, F[N] = n,
           \A i \in 1..N : F[i] = F[i - 1] + f[i]
    PROVE  \A i \in 0..N : n - r[i] - F[i] \in Nat
<1>1. /\ r \in [0..N -> 0..n] /\ g \in [1..N -> 0..n] /\ r[0] = n
      /\ \A i \in 1..N : /\ g[i] = r[i - 1] \/ g[i] = side[i].volume
                         /\ r[i] = r[i - 1] - g[i]
  BY DEF WalkOf
<1>2. \A i \in 0..N : F[i] <= n
  <2> DEFINE e == [i \in 0..N |-> -F[i]]
  <2>1. e \in [0..N -> Int] /\ \A i \in 0..N : e[i] = -F[i]
    OBVIOUS
  <2>2. ASSUME NEW i \in 1..N PROVE e[i] <= e[i - 1]
    <3>1. i \in 0..N /\ i - 1 \in 0..N /\ F[i] = F[i - 1] + f[i] /\ f[i] \in 0..n
      OBVIOUS
    <3>2. e[i] = -F[i] /\ e[i - 1] = -F[i - 1] /\ F[i] \in Int /\ F[i - 1] \in Int
      BY <2>1, <3>1
    <3> HIDE DEF e
    <3> QED
      BY <3>1, <3>2
  <2> HIDE DEF e
  <2>3. \A j \in 0..N : \A i \in 0..j : e[j] <= e[i]
    BY <2>1, <2>2, Falling
  <2> SUFFICES ASSUME NEW i \in 0..N PROVE F[i] <= n
    OBVIOUS
  <2>4. N \in 0..N /\ i \in 0..N
    OBVIOUS
  <2>5. e[N] <= e[i] /\ e[N] = -n /\ e[i] = -F[i] /\ F[i] \in Int
    BY <2>1, <2>3, <2>4
  <2> QED
    BY <2>5
<1> DEFINE S == {m \in Nat : m <= N => n - r[m] - F[m] \in Nat}
<1>3. 0 \in S
  BY <1>1
<1>4. ASSUME NEW m \in Nat, m \in S PROVE m + 1 \in S
  <2> SUFFICES ASSUME m + 1 <= N PROVE n - r[m + 1] - F[m + 1] \in Nat
    OBVIOUS
  <2>1. /\ m + 1 \in 1..N /\ m + 1 \in 0..N /\ m \in 0..N /\ (m + 1) - 1 = m
        /\ n - r[m] - F[m] \in Nat
    BY <1>4
  <2>2. /\ r[m + 1] = r[m] - g[m + 1] /\ F[m + 1] = F[m] + f[m + 1] /\ F[m + 1] <= n
        /\ g[m + 1] = r[m] \/ g[m + 1] = side[m + 1].volume
        /\ f[m + 1] <= side[m + 1].volume
    BY <1>1, <1>2, <2>1
  <2>3. /\ r[m] \in 0..n /\ r[m + 1] \in 0..n /\ g[m + 1] \in 0..n /\ f[m + 1] \in 0..n
        /\ F[m] \in Int /\ F[m + 1] \in Int
    BY <1>1, <2>1
  <2>4. side[m + 1].volume \in Nat
    <3>1. side[m + 1] \in Depth
      BY <2>1
    <3> QED
      BY <3>1 DEF Depth
  <2>5. CASE g[m + 1] = r[m]
    BY <2>2, <2>3, <2>5
  <2>6. CASE g[m + 1] = side[m + 1].volume
    <3>1. PICK R, FF, G, ff : R = r[m] /\ FF = F[m] /\ G = g[m + 1] /\ ff = f[m + 1]
      OBVIOUS
    <3>2. /\ R \in 0..n /\ FF \in Int /\ G \in 0..n /\ ff \in 0..n /\ ff <= G
          /\ n - R - FF \in Nat
      BY <2>1, <2>2, <2>3, <2>6, <3>1
    <3>3. n - (R - G) - (FF + ff) \in Nat
      BY <3>2
    <3> QED
      BY <2>2, <3>1, <3>3
  <2> QED
    BY <2>2, <2>5, <2>6
<1> HIDE DEF S
<1>5. \A m \in Nat : m \in S
  BY <1>3, <1>4, Induction
<1> QED
  BY <1>5 DEF S

\* The side can be filled as soon as any filling of it exists, and none is better: sign
\* is 1 where the levels get dearer, and -1 where they get cheaper.
LEMMA WalkBest ==
    ASSUME NEW N \in Nat, NEW n \in Nat, NEW side \in [1..N -> Depth],
           NEW r, NEW c, NEW g, WalkOf(side, N, n, r, c, g),
           NEW f, FillingOf(side, N, n, f), NEW sign, Worsening(side, N, sign)
    PROVE  /\ r[N] = 0 /\ Total(PaidOf(side, N, f), N) \in Int
           /\ sign * c[N] <= sign * Total(PaidOf(side, N, f), N)
<1>0. /\ f \in [1..N -> 0..n] /\ \A i \in 1..N : f[i] <= side[i].volume
      /\ Total(f, N) = n /\ sign \in {1, -1}
      /\ \A i, j \in 1..N : i < j => sign * side[i].price <= sign * side[j].price
  BY DEF FillingOf, Worsening
<1>1. /\ r \in [0..N -> 0..n] /\ c \in [0..N -> Nat] /\ g \in [1..N -> 0..n]
      /\ r[0] = n /\ c[0] = 0
      /\ \A i \in 1..N : r[i] = r[i - 1] - g[i] /\ c[i] = c[i - 1] + g[i] * side[i].price
  BY DEF WalkOf
<1>2. PICK F \in [0..N -> Int] : F[0] = 0 /\ \A i \in 1..N : F[i] = F[i - 1] + f[i]
  <2>1. f \in [1..N -> Int]
    BY <1>0
  <2> QED
    BY <2>1, PartialSums
<1>3. F[N] = n
  <2>1. f \in [1..N -> Int]
    BY <1>0
  <2> QED
    BY <1>0, <1>2, <2>1, TotalIs
<1>4. \A i \in 0..N : n - r[i] - F[i] \in Nat
  BY <1>0, <1>2, <1>3, NeverBehind
<1>6. \A i \in 1..N : side[i].price \in Nat /\ g[i] \in 0..n /\ f[i] \in 0..n
  <2>1. \A i \in 1..N : side[i] \in Depth
    OBVIOUS
  <2> QED
    BY <1>0, <1>1, <2>1 DEF Depth
<1>5. PICK paid : /\ paid = PaidOf(side, N, f)
                  /\ paid = [i \in 1..N |-> f[i] * side[i].price]
  BY DEF PaidOf
<1>7. paid \in [1..N -> Int]
  <2>1. \A i \in 1..N : f[i] * side[i].price \in Int
    BY <1>6
  <2> QED
    BY <1>5, <2>1
<1>8. PICK C \in [0..N -> Int] : C[0] = 0 /\ \A i \in 1..N : C[i] = C[i - 1] + paid[i]
  BY <1>7, PartialSums
<1>9. Total(paid, N) = C[N]
  BY <1>7, <1>8, TotalIs
<1>10. r[N] = 0
  <2>1. N \in 0..N
    OBVIOUS
  <2>2. r[N] \in 0..n /\ n - r[N] - n \in Nat
    BY <1>1, <1>3, <1>4, <2>1
  <2> QED
    BY <2>2
<1>11. PICK d, e, p : /\ d = [i \in 0..N |-> n - r[i] - F[i]]
                      /\ e = [i \in 0..N |-> sign * (c[i] - C[i])]
                      /\ p = [i \in 1..N |-> sign * side[i].price]
  OBVIOUS
<1>12. /\ p \in [1..N -> Int] /\ d \in [0..N -> Nat] /\ e \in [0..N -> Int]
       /\ d[0] = 0 /\ e[0] = 0 /\ d[N] = 0
       /\ \A i, j \in 1..N : i < j => p[i] <= p[j]
  <2>1. \A i \in 1..N : sign * side[i].price \in Int
    BY <1>0, <1>6
  <2>2. \A i \in 0..N : c[i] \in Int /\ C[i] \in Int
    BY <1>1
  <2>3. \A i \in 0..N : sign * (c[i] - C[i]) \in Int
    BY <1>0, <2>2
  <2>4. d[0] = 0 /\ e[0] = 0 /\ d[N] = 0
    BY <1>0, <1>1, <1>2, <1>3, <1>8, <1>10, <1>11
  <2>5. \A i, j \in 1..N : i < j => p[i] <= p[j]
    BY <1>0, <1>11
  <2> QED
    BY <1>4, <1>11, <2>1, <2>3, <2>4, <2>5
<1>13. ASSUME NEW i \in 1..N PROVE e[i] = e[i - 1] + p[i] * (d[i] - d[i - 1])
  <2>1. i \in 0..N /\ i - 1 \in 0..N
    OBVIOUS
  <2>2. PICK price, gi, fi, R, FF, c1, C1 :
          /\ price = side[i].price /\ gi = g[i] /\ fi = f[i]
          /\ R = r[i - 1] /\ FF = F[i - 1] /\ c1 = c[i - 1] /\ C1 = C[i - 1]
    OBVIOUS
  <2>3. /\ price \in Int /\ gi \in Int /\ fi \in Int
        /\ R \in Int /\ FF \in Int /\ c1 \in Int /\ C1 \in Int
    <3>1. r[i - 1] \in 0..n /\ c[i - 1] \in Nat /\ F[i - 1] \in Int /\ C[i - 1] \in Int
      BY <1>1, <2>1
    <3>2. price \in Nat /\ gi \in 0..n /\ fi \in 0..n
      BY <1>6, <2>2
    <3>3. R \in 0..n /\ c1 \in Nat /\ FF \in Int /\ C1 \in Int
      BY <2>2, <3>1
    <3> QED
      BY <3>2, <3>3
  <2>4. /\ r[i] = R - gi /\ F[i] = FF + fi /\ c[i] = c1 + gi * price
        /\ C[i] = C1 + fi * price
    BY <1>1, <1>2, <1>5, <1>8, <2>2
  <2>5. /\ d[i] = n - (R - gi) - (FF + fi) /\ d[i - 1] = n - R - FF
        /\ e[i] = sign * ((c1 + gi * price) - (C1 + fi * price))
        /\ e[i - 1] = sign * (c1 - C1) /\ p[i] = sign * price
    BY <1>11, <2>1, <2>2, <2>4
  <2>6. d[i] - d[i - 1] = gi - fi
    BY <2>3, <2>5
  <2>7. sign * ((c1 + gi * price) - (C1 + fi * price))
          = sign * (c1 - C1) + (sign * price) * (gi - fi)
    <3>1. gi * price - fi * price = price * (gi - fi)
      BY <2>3
    <3>2. gi * price \in Int /\ fi * price \in Int /\ price * (gi - fi) \in Int
      BY <2>3
    <3> QED
      BY <1>0, <2>3, <3>1, <3>2
  <2> QED
    BY <2>5, <2>6, <2>7
<1>14. e[N] <= 0
  BY <1>12, <1>13, Ahead
<1>15. sign * c[N] <= sign * C[N] /\ C[N] \in Int
  <2>1. N \in 0..N
    OBVIOUS
  <2>2. c[N] \in Int /\ C[N] \in Int /\ sign * (c[N] - C[N]) <= 0
    BY <1>1, <1>11, <1>14, <2>1
  <2> QED
    BY <1>0, <2>2
<1> QED
  BY <1>5, <1>9, <1>10, <1>15

\* The loop does no better than the price of the first level.
LEMMA WalkSlips ==
    ASSUME NEW N \in Nat, NEW n \in Nat, NEW side \in [1..N -> Depth], N # 0,
           NEW r, NEW c, NEW g, WalkOf(side, N, n, r, c, g), r[N] = 0,
           NEW sign, Worsening(side, N, sign)
    PROVE  sign * (side[1].price * n) <= sign * c[N]
<1>0. /\ sign \in {1, -1}
      /\ \A i, j \in 1..N : i < j => sign * side[i].price <= sign * side[j].price
  BY DEF Worsening
<1>1. /\ r \in [0..N -> 0..n] /\ c \in [0..N -> Nat] /\ g \in [1..N -> 0..n]
      /\ r[0] = n /\ c[0] = 0
      /\ \A i \in 1..N : r[i] = r[i - 1] - g[i] /\ c[i] = c[i - 1] + g[i] * side[i].price
  BY DEF WalkOf
<1>2. \A i \in 1..N : side[i].price \in Nat
  <2>1. \A i \in 1..N : side[i] \in Depth
    OBVIOUS
  <2> QED
    BY <2>1 DEF Depth
<1>3. PICK first : first = side[1].price /\ first \in Nat
  BY <1>2
<1>4. PICK e : e = [i \in 0..N |-> sign * (first * (n - r[i]) - c[i])]
  OBVIOUS
<1>5. \A i \in 0..N : first * (n - r[i]) \in Int /\ c[i] \in Int /\ r[i] \in Int
  <2> SUFFICES ASSUME NEW i \in 0..N
               PROVE  first * (n - r[i]) \in Int /\ c[i] \in Int /\ r[i] \in Int
    OBVIOUS
  <2>1. r[i] \in 0..n /\ c[i] \in Nat
    BY <1>1
  <2>2. n - r[i] \in Int
    BY <2>1
  <2> QED
    BY <1>3, <2>1, <2>2
<1>6. e \in [0..N -> Int] /\ e[0] = 0
  <2>1. \A i \in 0..N : sign * (first * (n - r[i]) - c[i]) \in Int
    BY <1>0, <1>5
  <2>2. e[0] = sign * (first * (n - n) - 0)
    BY <1>1, <1>4
  <2> QED
    BY <1>0, <1>3, <1>4, <2>1, <2>2
<1>7. ASSUME NEW i \in 1..N PROVE e[i] <= e[i - 1]
  <2>1. i \in 0..N /\ i - 1 \in 0..N
    OBVIOUS
  <2>2. PICK price, gi, R, c1 :
          price = side[i].price /\ gi = g[i] /\ R = r[i - 1] /\ c1 = c[i - 1]
    OBVIOUS
  <2>3. price \in Int /\ gi \in Nat /\ R \in Int /\ c1 \in Int
    <3>1. r[i - 1] \in 0..n /\ c[i - 1] \in Nat /\ g[i] \in 0..n
      BY <1>1, <2>1
    <3>2. R \in 0..n /\ c1 \in Nat /\ gi \in 0..n /\ price \in Nat
      BY <1>2, <2>2, <3>1
    <3> QED
      BY <3>2
  <2>4. /\ e[i - 1] = sign * (first * (n - R) - c1)
        /\ e[i] = sign * (first * (n - (R - gi)) - (c1 + gi * price))
    BY <1>1, <1>4, <2>1, <2>2
  <2>5. sign * first <= sign * price
    BY <1>0, <1>2, <1>3, <2>2
  <2>6. (sign * first) * gi <= (sign * price) * gi
    <3>1. sign * first \in Int /\ sign * price \in Int
      BY <1>0, <1>3, <2>3
    <3> QED
      BY <2>3, <2>5, <3>1, Dearer
  <2>7. e[i] - e[i - 1] = (sign * first) * gi - (sign * price) * gi
    <3>1. first * (n - (R - gi)) = first * (n - R) + first * gi
      BY <1>3, <2>3
    <3>2. first * (n - R) \in Int /\ first * gi \in Int /\ gi * price \in Int
      BY <1>3, <2>3
    <3>3. gi * price = price * gi
      BY <2>3
    <3>4. PICK a, b, x : a = first * (n - R) /\ b = first * gi /\ x = gi * price
      OBVIOUS
    <3>5. /\ e[i - 1] = sign * (a - c1) /\ e[i] = sign * ((a + b) - (c1 + x))
          /\ a \in Int /\ b \in Int /\ x \in Int
      BY <2>4, <3>1, <3>2, <3>4
    <3>6. e[i] - e[i - 1] = sign * b - sign * x
      BY <1>0, <2>3, <3>5
    <3>7. sign * b = (sign * first) * gi /\ sign * x = (sign * price) * gi
      BY <1>0, <1>3, <2>3, <3>3, <3>4
    <3> QED
      BY <3>6, <3>7
  <2>8. e[i] \in Int /\ e[i - 1] \in Int
    BY <1>6, <2>1
  <2>9. (sign * first) * gi \in Int /\ (sign * price) * gi \in Int
    BY <1>0, <1>3, <2>3
  <2> QED
    BY <2>6, <2>7, <2>8, <2>9
<1>8. \A j \in 0..N : \A i \in 0..j : e[j] <= e[i]
  BY <1>6, <1>7, Falling
<1>9. e[N] <= 0
  <2>1. N \in 0..N /\ 0 \in 0..N
    OBVIOUS
  <2> QED
    BY <1>6, <1>8, <2>1
<1>10. c[N] \in Int /\ sign * (first * n - c[N]) <= 0
  <2>1. N \in 0..N /\ n - r[N] = n
    OBVIOUS
  <2> QED
    BY <1>0, <1>1, <1>4, <1>9, <2>1
<1>11. first * n \in Int
  BY <1>3
<1> QED
  BY <1>0, <1>3, <1>10, <1>11

-------------------------------------------------------------------------------
(* The invariant. *)

Inputs ==
    /\ book \in Books /\ size \in Sizes /\ pool \in Pools
    /\ gasPrice \in GasInputs

\* The quotes of the block, once fetched.
Quoted == [cexBuy  |-> CEXPrice(TRUE), cexSell |-> CEXPrice(FALSE),
           dexBuy  |-> DEXPrice(pool.buy, gasPrice.buy),
           dexSell |-> DEXPrice(pool.sell, gasPrice.sell)]

\* What is found comes from those quotes, and what is published from what is found.
IInv ==
    /\ Inputs
    /\ pc \in {"fetch", "analyse", "publish", "done"}
    /\ pc # "fetch" => quotes = Quoted
    /\ found # {} => pc \in {"publish", "done"}
    /\ \A o \in found : \E d \in Directions : Analysed(d) /\ o = Opportunity(d)
    /\ published # {} => pc = "done"
    /\ \A o \in published : o \in found /\ IsProfitable(o)

\* Before anything is fetched.
LEMMA InitIInv == Init => IInv
  BY DEF Init, IInv, Inputs

\* Each stage adds its part.
LEMMA NextIInv == ASSUME IInv, [Next]_vars PROVE IInv'
<1>1. CASE Fetch
  <2>1. /\ pc = "fetch" /\ pc' = "analyse" /\ quotes' = Quoted
        /\ UNCHANGED <<book, size, pool, gasPrice, found, published>>
    BY <1>1 DEF Fetch, Quoted
  <2>2. found' = {} /\ published' = {}
    BY <2>1 DEF IInv
  <2>3. Quoted' = Quoted
    BY <2>1 DEF Quoted, CEXPrice, DEXPrice, Side, Slippage, GasCost, GasOfSize
  <2> QED
    BY <2>1, <2>2, <2>3 DEF IInv, Inputs
<1>2. CASE Analyze
  <2>1. /\ pc = "analyse" /\ pc' = "publish"
        /\ found' = {Opportunity(d) : d \in {e \in Directions : Analysed(e)}}
        /\ UNCHANGED <<book, size, pool, gasPrice, quotes, published>>
    BY <1>2 DEF Analyze
  <2>2. published' = {}
    BY <2>1 DEF IInv
  <2>3. Quoted' = Quoted
    BY <2>1 DEF Quoted, CEXPrice, DEXPrice, Side, Slippage, GasCost, GasOfSize
  <2>4. \A d : Opportunity(d)' = Opportunity(d) /\ Analysed(d)' = Analysed(d)
    BY <2>1 DEF Opportunity, Analysed, Profit, DEXLeg, CEXLeg, Buy, Sell
  <2> QED
    BY <2>1, <2>2, <2>3, <2>4 DEF IInv, Inputs
<1>3. CASE Publish
  <2>1. /\ pc = "publish" /\ pc' = "done"
        /\ published' = {o \in found : IsProfitable(o) /\ MeetsThreshold(o)}
        /\ UNCHANGED <<book, size, pool, gasPrice, quotes, found>>
    BY <1>3 DEF Publish
  <2>2. Quoted' = Quoted
    BY <2>1 DEF Quoted, CEXPrice, DEXPrice, Side, Slippage, GasCost, GasOfSize
  <2>3. \A d : Opportunity(d)' = Opportunity(d) /\ Analysed(d)' = Analysed(d)
    BY <2>1 DEF Opportunity, Analysed, Profit, DEXLeg, CEXLeg, Buy, Sell
  <2>4. \A o \in published' : o \in found /\ IsProfitable(o)
    BY <2>1
  <2> QED
    BY <2>1, <2>2, <2>3, <2>4 DEF IInv, Inputs, IsProfitable
<1>4. CASE UNCHANGED vars
  <2>1. UNCHANGED <<book, size, pool, gasPrice, pc, quotes, found, published>>
    BY <1>4 DEF vars
  <2>2. Quoted' = Quoted
    BY <2>1 DEF Quoted, CEXPrice, DEXPrice, Side, Slippage, GasCost, GasOfSize
  <2>3. \A d : Opportunity(d)' = Opportunity(d) /\ Analysed(d)' = Analysed(d)
    BY <2>1 DEF Opportunity, Analysed, Profit, DEXLeg, CEXLeg, Buy, Sell
  <2> QED
    BY <2>1, <2>2, <2>3 DEF IInv, Inputs, IsProfitable
<1> QED
  BY <1>1, <1>2, <1>3, <1>4 DEF Next, Stopped

THEOREM Invariance == Spec => []IInv
  BY InitIInv, NextIInv, PTL DEF Spec

-------------------------------------------------------------------------------
(* What a quote of the exchange says. *)

Sign(isBuy) == IF isBuy THEN 1 ELSE -1

\* A side of the book is a list of levels, each worse than the one before.
LEMMA SideFacts ==
    ASSUME Inputs, NEW isBuy \in BOOLEAN
    PROVE  \E N \in Nat :
             /\ Side(isBuy) \in [1..N -> Depth] /\ Len(Side(isBuy)) = N
             /\ Side(isBuy) = << >> <=> N = 0
             /\ Worsening(Side(isBuy), N, Sign(isBuy))
<1>1. PICK s : s = Side(isBuy)
  OBVIOUS
<1>2. /\ s \in Sides
      /\ isBuy => Ascending(s)
      /\ ~isBuy => Descending(s)
  BY <1>1 DEF Inputs, Books, Side
<1>3. PICK N \in 0..MaxLevels : s \in [1..N -> Level]
  BY <1>2 DEF Sides
<1>4. N \in Nat
  BY <1>3, ExecutionAssumption
<1>5. Level \subseteq Depth
  BY ExecutionAssumption DEF Level, Depth
<1>6. s \in [1..N -> Depth] /\ DOMAIN s = 1..N
  BY <1>3, <1>5
<1>7. Len(s) = N /\ (s = << >> <=> N = 0)
  BY <1>4, <1>6, EmptySeq, LenProperties
<1>8. ASSUME NEW i \in 1..N, NEW j \in 1..N, i < j
      PROVE  Sign(isBuy) * s[i].price <= Sign(isBuy) * s[j].price
  <2>1. s[i] \in Depth /\ s[j] \in Depth
    BY <1>6
  <2>2. s[i].price \in Nat /\ s[j].price \in Nat
    BY <2>1 DEF Depth
  <2>3. (isBuy => s[i].price < s[j].price) /\ (~isBuy => s[i].price > s[j].price)
    BY <1>2, <1>6, <1>8 DEF Ascending, Descending
  <2> QED
    BY <2>2, <2>3 DEF Sign
<1>9. Worsening(s, N, Sign(isBuy))
  BY <1>8 DEF Worsening, Sign
<1> QED
  BY <1>1, <1>4, <1>6, <1>7, <1>9

\* Fees are a part of the cost that is never more than the cost.
LEMMA FeeFacts ==
    ASSUME NEW c \in Nat, NEW isBuy \in BOOLEAN
    PROVE  /\ WithFee(c, isBuy) \in Nat /\ c * FeeScale \in Nat
           /\ c * TradingFee \in Nat
           /\ WithFee(c, isBuy) = c * FeeScale + Sign(isBuy) * (c * TradingFee)
<1>1. FeeScale \in Nat /\ TradingFee \in Nat /\ FeeScale - TradingFee \in Nat
  BY ExecutionAssumption
<1>2. /\ c * FeeScale \in Nat /\ c * TradingFee \in Nat
      /\ c * (FeeScale + TradingFee) \in Nat /\ c * (FeeScale - TradingFee) \in Nat
  BY <1>1
<1>3. /\ c * (FeeScale + TradingFee) = c * FeeScale + c * TradingFee
      /\ c * (FeeScale - TradingFee) = c * FeeScale - c * TradingFee
  BY <1>1
<1> QED
  BY <1>2, <1>3 DEF WithFee, Sign

\* A quote of the exchange, for the loop behind it.
LEMMA QuoteIsLoop ==
    ASSUME Inputs, NEW isBuy \in BOOLEAN
    PROVE  \E N, r, c, g :
             /\ N \in Nat
             /\ Side(isBuy) \in [1..N -> Depth] /\ Len(Side(isBuy)) = N
             /\ Worsening(Side(isBuy), N, Sign(isBuy))
             /\ WalkOf(Side(isBuy), N, size, r, c, g)
             /\ CEXPrice(isBuy) = NoPrice <=> r[N] # 0
             /\ CEXPrice(isBuy) # NoPrice =>
                  /\ N # 0
                  /\ CEXPrice(isBuy) =
                       [amount |-> WithFee(c[N], isBuy), value |-> c[N] * FeeScale,
                        slippage |-> Slippage(Side(isBuy), c[N], isBuy), gas |-> 0]
<1>1. PICK s : s = Side(isBuy)
  OBVIOUS
<1>2. PICK N \in Nat : /\ s \in [1..N -> Depth] /\ Len(s) = N /\ (s = << >> <=> N = 0)
                       /\ Worsening(s, N, Sign(isBuy))
  BY <1>1, SideFacts
<1>3. size \in Nat /\ size # 0
  BY ExecutionAssumption DEF Inputs
<1>4. PICK r, c, g : /\ WalkOf(s, N, size, r, c, g)
                     /\ Walk(s, size).remaining = r[N] /\ Walk(s, size).cost = c[N]
  BY <1>2, <1>3, WalkIsLoop
<1>5. /\ r[N] \in Nat /\ c[N] \in Nat /\ (N = 0 => r[N] # 0)
  BY <1>3, <1>4 DEF WalkOf
<1> DEFINE quote == [amount |-> WithFee(c[N], isBuy), value |-> c[N] * FeeScale,
                     slippage |-> Slippage(s, c[N], isBuy), gas |-> 0]
<1>6. quote # NoPrice
  <2>1. WithFee(c[N], isBuy) \in Nat
    BY <1>5, FeeFacts
  <2>2. quote.amount \in Nat
    BY <2>1
  <2>3. NoPrice.amount \notin Nat
    BY DEF NoPrice
  <2> QED
    BY <2>2, <2>3
<1>7. CEXPrice(isBuy) = IF s = << >> \/ r[N] > 0 THEN NoPrice ELSE quote
  BY <1>1, <1>4 DEF CEXPrice
<1> HIDE DEF quote
<1>8. /\ CEXPrice(isBuy) = NoPrice <=> r[N] # 0
      /\ CEXPrice(isBuy) # NoPrice => N # 0 /\ CEXPrice(isBuy) = quote
  BY <1>2, <1>5, <1>6, <1>7
<1> QED
  BY <1>1, <1>2, <1>4, <1>8 DEF quote

\* The quote is the best of all fillings, and there is one if there is any filling.
LEMMA BestQuote ==
    ASSUME Inputs, NEW isBuy \in BOOLEAN,
           NEW side, side = Side(isBuy), NEW quote, quote = CEXPrice(isBuy)
    PROVE  /\ quote = NoPrice <=> Fillings(side) = {}
           /\ quote # NoPrice =>
                /\ \E f \in Fillings(side) : quote.amount = WithFee(Cost(side, f), isBuy)
                /\ \A f \in Fillings(side) :
                      LET bare == FeeScale * Cost(side, f)
                          fee  == TradingFee * Cost(side, f)
                      IN  IF isBuy THEN quote.amount <= bare + fee
                          ELSE quote.amount >= bare - fee
                /\ quote.slippage >= 0
<1>1. PICK N, r, c, g :
        /\ N \in Nat
        /\ side \in [1..N -> Depth] /\ Len(side) = N
        /\ Worsening(side, N, Sign(isBuy))
        /\ WalkOf(side, N, size, r, c, g)
        /\ quote = NoPrice <=> r[N] # 0
        /\ quote # NoPrice =>
             /\ N # 0
             /\ quote = [amount |-> WithFee(c[N], isBuy), value |-> c[N] * FeeScale,
                         slippage |-> Slippage(side, c[N], isBuy), gas |-> 0]
  BY QuoteIsLoop
<1>2. size \in Nat /\ Sign(isBuy) \in {1, -1} /\ FeeScale \in Nat /\ TradingFee \in Nat
  BY ExecutionAssumption DEF Inputs, Sign
<1>3. c[N] \in Nat
  BY <1>1 DEF WalkOf
<1>4. /\ \A f : f \in Fillings(side) <=> FillingOf(side, N, size, f)
      /\ \A f : Cost(side, f) = Total(PaidOf(side, N, f), N)
  <2>1. DOMAIN side = 1..N
    BY <1>1
  <2> QED
    BY <1>1, <2>1 DEF Fillings, Cost, FillingOf, PaidOf
\* Any filling at all: the loop has filled the size, at no worse cost.
<1>5. ASSUME NEW f \in Fillings(side)
      PROVE  /\ r[N] = 0 /\ Cost(side, f) \in Int
             /\ Sign(isBuy) * c[N] <= Sign(isBuy) * Cost(side, f)
  <2>1. FillingOf(side, N, size, f)
    BY <1>4
  <2>2. /\ r[N] = 0 /\ Total(PaidOf(side, N, f), N) \in Int
        /\ Sign(isBuy) * c[N] <= Sign(isBuy) * Total(PaidOf(side, N, f), N)
    BY <1>1, <1>2, <2>1, WalkBest
  <2> QED
    BY <1>4, <2>2
\* The loop's own.
<1>6. ASSUME r[N] = 0 PROVE g \in Fillings(side) /\ Cost(side, g) = c[N]
  BY <1>1, <1>2, <1>4, <1>6, WalkFills
<1>7. quote = NoPrice <=> Fillings(side) = {}
  BY <1>1, <1>5, <1>6
<1>8. ASSUME quote # NoPrice
      PROVE  /\ \E f \in Fillings(side) : quote.amount = WithFee(Cost(side, f), isBuy)
             /\ \A f \in Fillings(side) :
                   LET bare == FeeScale * Cost(side, f)
                       fee  == TradingFee * Cost(side, f)
                   IN  IF isBuy THEN quote.amount <= bare + fee
                       ELSE quote.amount >= bare - fee
             /\ quote.slippage >= 0
  <2>1. /\ r[N] = 0 /\ N # 0 /\ quote.amount = WithFee(c[N], isBuy)
        /\ quote.slippage = Slippage(side, c[N], isBuy)
    BY <1>1, <1>8
  <2>2. \E f \in Fillings(side) : quote.amount = WithFee(Cost(side, f), isBuy)
    BY <1>6, <2>1
  <2>3. ASSUME NEW f \in Fillings(side)
        PROVE  LET bare == FeeScale * Cost(side, f)
                   fee  == TradingFee * Cost(side, f)
               IN  IF isBuy THEN quote.amount <= bare + fee
                   ELSE quote.amount >= bare - fee
    <3>1. PICK C : C = Cost(side, f)
      OBVIOUS
    <3>2. C \in Int /\ Sign(isBuy) * c[N] <= Sign(isBuy) * C
      BY <1>5, <3>1
    <3>3. CASE isBuy
      <4>1. c[N] <= C /\ FeeScale + TradingFee \in Nat
        BY <1>2, <1>3, <3>2, <3>3 DEF Sign
      <4>2. c[N] * (FeeScale + TradingFee) <= C * (FeeScale + TradingFee)
        BY <1>3, <3>2, <4>1, Dearer
      <4>3. C * (FeeScale + TradingFee) = FeeScale * C + TradingFee * C
        BY <1>2, <3>2
      <4>4. quote.amount = c[N] * (FeeScale + TradingFee)
        BY <2>1, <3>3 DEF WithFee
      <4> QED
        BY <3>1, <3>3, <4>2, <4>3, <4>4
    <3>4. CASE ~isBuy
      <4>1. C <= c[N] /\ FeeScale - TradingFee \in Nat
        BY <1>2, <1>3, <3>2, <3>4, ExecutionAssumption DEF Sign
      <4>2. /\ C * (FeeScale - TradingFee) <= c[N] * (FeeScale - TradingFee)
            /\ C * (FeeScale - TradingFee) \in Int /\ c[N] * (FeeScale - TradingFee) \in Int
        <5>1. c[N] \in Int
          BY <1>3
        <5> QED
          BY <3>2, <4>1, <5>1, Dearer
      <4>3. C * (FeeScale - TradingFee) = FeeScale * C - TradingFee * C
        BY <1>2, <3>2
      <4>4. quote.amount = c[N] * (FeeScale - TradingFee)
        BY <2>1, <3>4 DEF WithFee
      <4> QED
        BY <3>1, <3>4, <4>2, <4>3, <4>4
    <3> QED
      BY <3>3, <3>4
  <2>4. quote.slippage >= 0
    <3>1. Sign(isBuy) * (side[1].price * size) <= Sign(isBuy) * c[N]
      BY <1>1, <1>2, <2>1, WalkSlips
    <3>2. side[1].price \in Nat /\ side[1].price * size \in Int
      <4>1. side[1] \in Depth
        BY <1>1, <2>1
      <4>2. side[1].price \in Nat
        BY <4>1 DEF Depth
      <4> QED
        BY <1>2, <4>2
    <3> QED
      BY <1>3, <2>1, <3>1, <3>2 DEF Slippage, Sign
  <2> QED
    BY <2>2, <2>3, <2>4
<1> QED
  BY <1>7, <1>8

\* The execution of an order is the best the book allows: nothing is left out or counted
\* twice, no filling of the size is better, slippage is never a gain, and there is a
\* price whenever the size can be filled, for every book, size and fee.
THEOREM BestExecutionAlways == Spec => []BestExecution
<1>1. IInv => BestExecution
  <2> SUFFICES ASSUME IInv, pc # "fetch", NEW isBuy \in BOOLEAN
               PROVE  LET side  == Side(isBuy)
                          quote == quotes[IF isBuy THEN "cexBuy" ELSE "cexSell"]
                      IN  /\ quote = NoPrice <=> Fillings(side) = {}
                          /\ quote # NoPrice =>
                              /\ \E f \in Fillings(side) :
                                    quote.amount = WithFee(Cost(side, f), isBuy)
                              /\ \A f \in Fillings(side) :
                                    LET bare == FeeScale * Cost(side, f)
                                        fee  == TradingFee * Cost(side, f)
                                    IN  IF isBuy THEN quote.amount <= bare + fee
                                        ELSE quote.amount >= bare - fee
                              /\ quote.slippage >= 0
    BY DEF BestExecution
  <2>1. quotes[IF isBuy THEN "cexBuy" ELSE "cexSell"] = CEXPrice(isBuy)
    <3>1. quotes = Quoted
      BY DEF IInv
    <3>3. quotes["cexBuy"] = CEXPrice(TRUE) /\ quotes["cexSell"] = CEXPrice(FALSE)
      BY <3>1 DEF Quoted
    <3>2. isBuy = TRUE \/ isBuy = FALSE
      OBVIOUS
    <3> QED
      BY <3>2, <3>3
  <2>2. Inputs
    BY DEF IInv
  <2> QED
    BY <2>1, <2>2, BestQuote
<1> QED
  BY <1>1, Invariance, PTL

-------------------------------------------------------------------------------
(* What is published. *)

\* Gas costs nothing less than nothing.
LEMMA GasFacts ==
    ASSUME Inputs, NEW node \in {gasPrice.buy, gasPrice.sell}
    PROVE  GasCostUSD(GasCost(node)) \in Nat
<1>1. GasOfSize \in Nat
  <2> DEFINE B == {bound \in SizeBounds : size >= bound}
  <2>1. IsFiniteSet(B)
    BY ExecutionAssumption, FS_Subset
  <2>2. Cardinality(B) \in Nat
    BY <2>1, FS_CardinalityType
  <2> HIDE DEF B
  <2>3. 1 + Cardinality(B) \in Nat
    BY <2>2
  <2> QED
    BY <2>3 DEF GasOfSize, B
<1>2. /\ gasPrice.cached # NoGasPrice => gasPrice.cached \in Nat
      /\ node # NoGasPrice => node \in Nat
  BY ExecutionAssumption DEF Inputs, GasInputs, MayFail
<1>3. GasEstimate \in Nat /\ DefaultGasPrice \in Nat /\ ETHPrice \in Nat /\ FeeScale \in Nat
  BY ExecutionAssumption
<1>4. GasCost(node) \in Nat
  <2>1. /\ gasPrice.cached # NoGasPrice => GasEstimate * gasPrice.cached \in Nat
        /\ node # NoGasPrice => GasOfSize * node \in Nat
        /\ GasEstimate * DefaultGasPrice \in Nat
    BY <1>1, <1>2, <1>3
  <2> QED
    BY <2>1 DEF GasCost
<1>5. \A gas \in Nat : GasCostUSD(gas) \in Nat
  <2> SUFFICES ASSUME NEW gas \in Nat PROVE gas * ETHPrice * FeeScale \in Nat
    BY DEF GasCostUSD
  <2>1. gas * ETHPrice \in Nat
    BY <1>3
  <2> QED
    BY <1>3, <2>1
<1> QED
  BY <1>4, <1>5

\* A quote of the exchange is no better than the best level and no better than before
\* its fee.
LEMMA QuoteBounds ==
    ASSUME Inputs, NEW isBuy \in BOOLEAN, NEW side, side = Side(isBuy),
           NEW quote, quote = CEXPrice(isBuy), quote # NoPrice
    PROVE  \E c \in Nat :
             /\ side[1].price * size \in Nat
             /\ size * side[1].price = side[1].price * size
             /\ quote.value = c * FeeScale
             /\ Sign(isBuy) * (side[1].price * size) <= Sign(isBuy) * c
             /\ Sign(isBuy) * (c * FeeScale) <= Sign(isBuy) * quote.amount
             /\ quote.amount \in Nat
<1>1. PICK N, r, c, g :
        /\ N \in Nat
        /\ side \in [1..N -> Depth] /\ Len(side) = N
        /\ Worsening(side, N, Sign(isBuy))
        /\ WalkOf(side, N, size, r, c, g)
        /\ quote = NoPrice <=> r[N] # 0
        /\ quote # NoPrice =>
             /\ N # 0
             /\ quote = [amount |-> WithFee(c[N], isBuy), value |-> c[N] * FeeScale,
                         slippage |-> Slippage(side, c[N], isBuy), gas |-> 0]
  BY QuoteIsLoop
<1>2. size \in Nat
  BY ExecutionAssumption DEF Inputs
<1>3. PICK C : C = c[N] /\ C \in Nat
  BY <1>1 DEF WalkOf
<1>4. N # 0 /\ r[N] = 0
  BY <1>1
<1>5. Sign(isBuy) * (side[1].price * size) <= Sign(isBuy) * C
  BY <1>1, <1>2, <1>3, <1>4, WalkSlips
<1>6. side[1].price * size \in Nat /\ size * side[1].price = side[1].price * size
  <2>1. side[1] \in Depth
    BY <1>1, <1>4
  <2>2. side[1].price \in Nat
    BY <2>1 DEF Depth
  <2> QED
    BY <1>2, <2>2
<1>7. /\ quote.amount = WithFee(C, isBuy) /\ quote.value = C * FeeScale
  BY <1>1, <1>3
<1>8. /\ WithFee(C, isBuy) \in Nat
      /\ Sign(isBuy) * (C * FeeScale) <= Sign(isBuy) * WithFee(C, isBuy)
  <2>1. /\ WithFee(C, isBuy) \in Nat /\ C * FeeScale \in Nat /\ C * TradingFee \in Nat
        /\ WithFee(C, isBuy) = C * FeeScale + Sign(isBuy) * (C * TradingFee)
    BY <1>3, FeeFacts
  <2> QED
    BY <2>1 DEF Sign
<1> QED
  BY <1>3, <1>5, <1>6, <1>7, <1>8

\* Amounts compare as their multiples do.
LEMMA Cheaper ==
    ASSUME NEW a \in Int, NEW b \in Int, a * FeeScale < b * FeeScale
    PROVE  a < b
<1>1. FeeScale \in Nat
  BY ExecutionAssumption
<1>2. b <= a => b * FeeScale <= a * FeeScale
  BY <1>1, Dearer
<1>3. a * FeeScale \in Int /\ b * FeeScale \in Int
  BY <1>1
<1> QED
  BY <1>2, <1>3

\* Nothing is published but a real gap between the two markets: it is there between the
\* best level of the book and the pool before fees, slippage and gas, and the stated
\* price difference has the sign of the direction, for every book, pool, gas and fee.
THEOREM PublishedGaps == Spec => []PublishedGapIsReal
<1>1. IInv => PublishedGapIsReal
  <2> SUFFICES ASSUME IInv, NEW o \in published
               PROVE  IF o.direction = "CEXToDEX"
                      THEN size * book.asks[1].price < pool.sell /\ o.priceDiff > 0
                      ELSE pool.buy < size * book.bids[1].price /\ o.priceDiff < 0
    BY DEF PublishedGapIsReal
  <2>1. PICK d \in Directions : Analysed(d) /\ o = Opportunity(d) /\ IsProfitable(o)
    BY DEF IInv
  <2>2. Inputs /\ quotes = Quoted
    BY DEF IInv
  <2>3. /\ quotes["cexBuy"] = CEXPrice(TRUE) /\ quotes["cexSell"] = CEXPrice(FALSE)
        /\ quotes["dexBuy"] = DEXPrice(pool.buy, gasPrice.buy)
        /\ quotes["dexSell"] = DEXPrice(pool.sell, gasPrice.sell)
    BY <2>2 DEF Quoted
  <2>4. size \in Nat /\ FeeScale \in Nat
    BY <2>2, ExecutionAssumption DEF Inputs
  <2>5. /\ GasCostUSD(GasCost(gasPrice.buy)) \in Nat
        /\ GasCostUSD(GasCost(gasPrice.sell)) \in Nat
    BY <2>2, GasFacts
  <2>6. CASE d = "CEXToDEX"
    <3>1. PICK buy, sell : buy = CEXPrice(TRUE) /\ sell = DEXPrice(pool.sell, gasPrice.sell)
      OBVIOUS
    <3>2. buy # NoPrice /\ sell # NoPrice
      BY <2>1, <2>3, <2>6, <3>1 DEF Analysed, Buy, Sell
    <3>3. /\ o.direction = "CEXToDEX" /\ o.priceDiff = sell.value - buy.value
          /\ sell.amount - buy.amount - GasCostUSD(sell.gas) > 0
      BY <2>1, <2>3, <2>6, <3>1
      DEF Opportunity, Profit, IsProfitable, DEXLeg, CEXLeg, Buy, Sell
    <3>4. PICK P : P = pool.sell /\ P \in Nat
      BY <2>2, <3>1, <3>2, ExecutionAssumption DEF Inputs, Pools, DEXPrice
    <3>5. /\ sell.amount = P * FeeScale /\ sell.value = P * FeeScale
          /\ sell.gas = GasCost(gasPrice.sell)
      BY <3>1, <3>2, <3>4 DEF DEXPrice
    <3>6. PICK side : side = book.asks /\ side = Side(TRUE)
      BY DEF Side
    <3>7. PICK c \in Nat :
            /\ side[1].price * size \in Nat
            /\ size * side[1].price = side[1].price * size
            /\ buy.value = c * FeeScale
            /\ Sign(TRUE) * (side[1].price * size) <= Sign(TRUE) * c
            /\ Sign(TRUE) * (c * FeeScale) <= Sign(TRUE) * buy.amount
            /\ buy.amount \in Nat
      BY <2>2, <3>1, <3>2, <3>6, QuoteBounds
    <3>8. c * FeeScale \in Nat /\ P * FeeScale \in Nat
      BY <2>4, <3>4
    <3>9. side[1].price * size <= c /\ c * FeeScale <= buy.amount
      BY <3>7, <3>8 DEF Sign
    <3>10. c * FeeScale < P * FeeScale
      BY <2>5, <3>3, <3>5, <3>7, <3>8, <3>9
    <3>11. c < P
      BY <3>4, <3>10, Cheaper
    <3>12. side[1].price * size < P
      BY <3>4, <3>7, <3>9, <3>11
    <3>13. o.priceDiff > 0
      BY <3>3, <3>5, <3>7, <3>8, <3>10
    <3>14. size * side[1].price < P
      BY <3>7, <3>12
    <3> QED
      BY <3>3, <3>4, <3>6, <3>13, <3>14
  <2>7. CASE d = "DEXToCEX"
    <3>1. PICK buy, sell : buy = DEXPrice(pool.buy, gasPrice.buy) /\ sell = CEXPrice(FALSE)
      OBVIOUS
    <3>2. buy # NoPrice /\ sell # NoPrice
      BY <2>1, <2>3, <2>7, <3>1 DEF Analysed, Buy, Sell
    <3>3. /\ o.direction = "DEXToCEX" /\ o.priceDiff = buy.value - sell.value
          /\ sell.amount - buy.amount - GasCostUSD(buy.gas) > 0
      BY <2>1, <2>3, <2>7, <3>1
      DEF Opportunity, Profit, IsProfitable, DEXLeg, CEXLeg, Buy, Sell
    <3>4. PICK P : P = pool.buy /\ P \in Nat
      BY <2>2, <3>1, <3>2, ExecutionAssumption DEF Inputs, Pools, DEXPrice
    <3>5. buy.amount = P * FeeScale /\ buy.value = P * FeeScale /\ buy.gas = GasCost(gasPrice.buy)
      BY <3>1, <3>2, <3>4 DEF DEXPrice
    <3>6. PICK side : side = book.bids /\ side = Side(FALSE)
      BY DEF Side
    <3>7. PICK c \in Nat :
            /\ side[1].price * size \in Nat
            /\ size * side[1].price = side[1].price * size
            /\ sell.value = c * FeeScale
            /\ Sign(FALSE) * (side[1].price * size) <= Sign(FALSE) * c
            /\ Sign(FALSE) * (c * FeeScale) <= Sign(FALSE) * sell.amount
            /\ sell.amount \in Nat
      BY <2>2, <3>1, <3>2, <3>6, QuoteBounds
    <3>8. c * FeeScale \in Nat /\ P * FeeScale \in Nat
      BY <2>4, <3>4
    <3>9. c <= side[1].price * size /\ sell.amount <= c * FeeScale
      BY <3>7, <3>8 DEF Sign
    <3>10. P * FeeScale < c * FeeScale
      BY <2>5, <3>3, <3>5, <3>7, <3>8, <3>9
    <3>11. P < c
      BY <3>4, <3>10, Cheaper
    <3>12. P < side[1].price * size
      BY <3>4, <3>7, <3>9, <3>11
    <3>13. o.priceDiff < 0
      BY <3>3, <3>5, <3>7, <3>8, <3>10
    <3>14. P < size * side[1].price
      BY <3>7, <3>12
    <3> QED
      BY <3>3, <3>4, <3>6, <3>13, <3>14
  <2> QED
    BY <2>6, <2>7 DEF Directions
<1> QED
  BY <1>1, Invariance, PTL

===============================================================================

----------------------------- MODULE OrderFacts -----------------------------
(***************************************************************************)
(* Induction in the form the proofs of this project use it: a nonempty set *)
(* of naturals has a least element, so a property of all naturals fails    *)
(* first somewhere.  From it, that what a loop computes round by round     *)
(* exists and has the type of its rounds, and what FlattenSeq makes of a   *)
(* sequence with one more part.                                            *)
(***************************************************************************)
EXTENDS Integers, SequencesExt, WellFoundedInduction, TLAPS

(* Every set of naturals has a least element.  Proofs by induction   *)
(* take the least counterexample.                                          *)
LEMMA LeastElement ==
    ASSUME NEW T, T \subseteq Nat, T # {}
    PROVE  \E x \in T : \A y \in T : x <= y
<1> DEFINE R == OpToRel(<, Nat)
<1>1. \A i, j \in Nat : i < j => <<i, j>> \in R
    BY DEF OpToRel
<1>2. IsWellFoundedOn(R, Nat)
    BY NatLessThanWellFounded
<1> HIDE DEF R
<1>3. PICK x \in T : \A y \in T : ~(<<y, x>> \in R)
    BY <1>2, WFMin
<1>4. ASSUME NEW y \in T PROVE x <= y
    <2>1. x \in Nat /\ y \in Nat
        OBVIOUS
    <2>2. ~(y < x)
        BY <1>1, <1>3, <2>1
    <2> QED BY <2>1, <2>2
<1> QED BY <1>4


(* A loop of N rounds: each makes its value of the one before.             *)
IsLoop(f, N, first, step) == f[0] = first /\ \A j \in 1..N : f[j] = step[j][f[j - 1]]

(* The function of the rounds that such a loop computes exists.            *)
LEMMA LoopHasValues ==
    ASSUME NEW N \in Nat, NEW V, NEW first \in V, NEW step \in [1..N -> [V -> V]]
    PROVE  \E f \in [0..N -> V] : IsLoop(f, N, first, step)
<1> DEFINE Computes(f, n) ==
        /\ f \in [0..n -> V]
        /\ f[0] = first
        /\ \A j \in 1..n : f[j] = step[j][f[j - 1]]
           Stuck == {n \in 0..N : \A f : ~Computes(f, n)}
<1>1. Computes([j \in 0..0 |-> first], 0)
    OBVIOUS
<1>2. ASSUME NEW n \in 0..(N - 1), NEW f, Computes(f, n)
      PROVE  \E g : Computes(g, n + 1)
    <2> HIDE DEF Stuck
    <2>0. f \in [0..n -> V] /\ n \in Nat /\ n + 1 \in 1..N
        BY <1>2
    <2> DEFINE v == step[n + 1][f[n]]
               g == [j \in 0..(n + 1) |-> IF j = n + 1 THEN v ELSE f[j]]
    <2>1. v \in V
        <3>1. f[n] \in V
            BY <2>0
        <3>2. step[n + 1] \in [V -> V]
            BY <2>0
        <3> QED BY <3>1, <3>2
    <2> HIDE DEF v
    <2>2. \A j \in 0..n : g[j] = f[j] /\ f[j] \in V
        <3> TAKE j \in 0..n
        <3>1. j # n + 1 /\ j \in 0..(n + 1)
            OBVIOUS
        <3> QED BY <2>0, <3>1
    <2>3. g[n + 1] = v
        OBVIOUS
    <2>4. g \in [0..(n + 1) -> V]
        <3>1. \A j \in 0..(n + 1) : (IF j = n + 1 THEN v ELSE f[j]) \in V
            BY <2>0, <2>1
        <3> HIDE DEF Computes
        <3> QED BY <3>1
    <2> HIDE DEF g
    <2>5. \A j \in 1..(n + 1) : g[j] = step[j][g[j - 1]]
        <3> TAKE j \in 1..(n + 1)
        <3>1. CASE j = n + 1
            <4>1. g[j - 1] = f[n]
                BY <2>2, <3>1
            <4> QED BY <2>3, <3>1, <4>1 DEF v
        <3>2. CASE j \in 1..n
            <4>1. j - 1 \in 0..n /\ g[j] = f[j] /\ g[j - 1] = f[j - 1]
                BY <2>2, <3>2
            <4> QED BY <1>2, <3>2, <4>1
        <3> QED BY <3>1, <3>2
    <2>6. g[0] = first
        BY <1>2, <2>2
    <2> QED BY <2>4, <2>5, <2>6
<1>3. Stuck = {}
    <2> SUFFICES ASSUME Stuck # {} PROVE FALSE
        OBVIOUS
    <2> HIDE DEF Computes
    <2>1. Stuck \subseteq Nat
        OBVIOUS
    <2> HIDE DEF Stuck
    <2>2. PICK n \in Stuck : \A m \in Stuck : n <= m
        BY <2>1, LeastElement
    <2> USE DEF Stuck
    <2>3. n \in 1..N
        BY <1>1, <2>2
    <2>4. n - 1 \in 0..(N - 1) /\ n - 1 \notin Stuck
        BY <2>2, <2>3
    <2>5. PICK f : Computes(f, n - 1)
        BY <2>4
    <2>6. \E g : Computes(g, (n - 1) + 1)
        BY <1>2, <2>3, <2>4, <2>5
    <2> QED BY <2>2, <2>6
<1>4. PICK f : Computes(f, N)
    <2>1. N \notin Stuck
        BY <1>3
    <2> HIDE DEF Computes
    <2> QED BY <2>1
<1> QED BY <1>4 DEF IsLoop

(* A loop that takes an element to another, each nearer to the end, leads  *)
(* somewhere: the function that gives where it stops exists.               *)
Nearing(S, step, rank) == \A s \in S : step[s] = s \/ rank[step[s]] < rank[s]
IsEndOf(S, step, f) == \A s \in S : f[s] = IF step[s] = s THEN s ELSE f[step[s]]

LEMMA LoopsEnd ==
    ASSUME NEW S, NEW step \in [S -> S], NEW R \in Nat, NEW rank \in [S -> 0..R], Nearing(S, step, rank)
    PROVE  \E f \in [S -> S] : IsEndOf(S, step, f)
<1>a. \A s \in S : step[s] = s \/ rank[step[s]] < rank[s]
    BY DEF Nearing
<1> DEFINE V == [S -> S]
           start == [s \in S |-> s]
           next(g) == [s \in S |-> step[g[s]]]
           rounds == [k \in 1..R |-> [g \in V |-> next(g)]]
<1>1. start \in V
    OBVIOUS
<1>2. \A g \in V : next(g) \in V
    OBVIOUS
<1>3. rounds \in [1..R -> [V -> V]] /\ \A k \in 1..R, g \in V : rounds[k][g] = next(g)
    BY <1>2
<1> HIDE DEF rounds, start, next, V
<1>4. PICK h \in [0..R -> V] : IsLoop(h, R, start, rounds)
    BY <1>1, <1>3, LoopHasValues
<1>5. \A k \in 0..R : h[k] \in V
    OBVIOUS
<1>6. \A s \in S : h[0][s] = s
    BY <1>4 DEF IsLoop, start
<1>7. \A k \in 1..R, s \in S : h[k][s] = step[h[k - 1][s]]
    <2> TAKE k \in 1..R, s \in S
    <2>1. k - 1 \in 0..R
        OBVIOUS
    <2>2. h[k] = rounds[k][h[k - 1]] /\ h[k - 1] \in V
        BY <1>4, <2>1 DEF IsLoop
    <2>3. h[k] = next(h[k - 1])
        BY <1>3, <2>2
    <2> QED BY <2>3 DEF next
<1>8. \A k \in 0..R, s \in S : h[k][s] \in S
    BY <1>5 DEF V
<1> DEFINE Near(k) == \A s \in S : rank[h[k][s]] <= R - k \/ step[h[k][s]] = h[k][s]
           Far == {k \in 0..R : ~Near(k)}
<1>9. Far = {}
    <2> SUFFICES ASSUME Far # {} PROVE FALSE
        OBVIOUS
    <2>1. Far \subseteq Nat
        OBVIOUS
    <2> HIDE DEF Far
    <2>2. PICK k \in Far : \A j \in Far : k <= j
        BY <2>1, LeastElement
    <2>3. k \in 0..R /\ ~Near(k)
        BY <2>2 DEF Far
    <2>4. k # 0
        BY <1>6, <2>3
    <2>5. k - 1 \in 0..R /\ k \in 1..R /\ Near(k - 1)
        BY <2>2, <2>3, <2>4 DEF Far
    <2>6. PICK s \in S : ~(rank[h[k][s]] <= R - k) /\ step[h[k][s]] # h[k][s]
        BY <2>3
    <2>7. PICK t \in S : t = h[k - 1][s] /\ h[k][s] = step[t]
        BY <1>7, <1>8, <2>5
    <2>8. rank[t] <= R - (k - 1) \/ step[t] = t
        BY <2>5, <2>7
    <2>9. rank[step[t]] < rank[t] /\ rank[t] <= R - (k - 1)
        BY <1>a, <2>6, <2>7, <2>8
    <2>10. rank[step[t]] \in 0..R /\ rank[t] \in 0..R
        OBVIOUS
    <2> QED BY <2>6, <2>7, <2>9, <2>10, <2>3
<1>10. \A s \in S : step[h[R][s]] = h[R][s]
    <2> TAKE s \in S
    <2>0. R \in 0..R
        OBVIOUS
    <2>1. Near(R)
        <3> HIDE DEF Near
        <3> QED BY <1>9, <2>0
    <2>2. PICK t \in S : t = h[R][s]
        BY <1>8
    <2>3. rank[t] <= R - R \/ step[t] = t
        BY <2>1, <2>2
    <2>4. rank[t] \in 0..R /\ rank[step[t]] \in 0..R
        OBVIOUS
    <2>5. step[t] = t \/ rank[step[t]] < rank[t]
        BY <1>a
    <2> QED BY ONLY R \in Nat, <2>2, <2>3, <2>4, <2>5
<1> DEFINE Swaps(k) == \A s \in S : h[k][step[s]] = step[h[k][s]]
           Odd == {k \in 0..R : ~Swaps(k)}
<1>11. Odd = {}
    <2> SUFFICES ASSUME Odd # {} PROVE FALSE
        OBVIOUS
    <2>1. Odd \subseteq Nat
        OBVIOUS
    <2> HIDE DEF Odd
    <2>2. PICK k \in Odd : \A j \in Odd : k <= j
        BY <2>1, LeastElement
    <2>3. k \in 0..R /\ ~Swaps(k)
        BY <2>2 DEF Odd
    <2>4. k # 0
        BY <1>6, <2>3
    <2>5. k - 1 \in 0..R /\ k \in 1..R /\ Swaps(k - 1)
        BY <2>2, <2>3, <2>4 DEF Odd
    <2>6. PICK s \in S : h[k][step[s]] # step[h[k][s]]
        BY <2>3
    <2>7. step[s] \in S
        OBVIOUS
    <2>8. h[k][step[s]] = step[h[k - 1][step[s]]] /\ h[k][s] = step[h[k - 1][s]]
        BY <1>7, <2>5, <2>7
    <2>9. h[k - 1][step[s]] = step[h[k - 1][s]]
        BY <2>5
    <2> QED BY <2>6, <2>8, <2>9
<1>12. \A s \in S : h[R][step[s]] = h[R][s]
    <2>0. R \in 0..R
        OBVIOUS
    <2>1. Swaps(R)
        <3> HIDE DEF Swaps
        <3> QED BY <1>11, <2>0
    <2> QED BY <1>10, <2>1
<1>13. \A s \in S : step[s] = s => h[R][s] = s
    <2> DEFINE Moved == {k \in 0..R : \E s \in S : step[s] = s /\ h[k][s] # s}
    <2>1. Moved = {}
        <3> SUFFICES ASSUME Moved # {} PROVE FALSE
            OBVIOUS
        <3>1. Moved \subseteq Nat
            OBVIOUS
        <3> HIDE DEF Moved
        <3>2. PICK k \in Moved : \A j \in Moved : k <= j
            BY <3>1, LeastElement
        <3>3. PICK s \in S : k \in 0..R /\ step[s] = s /\ h[k][s] # s
            BY <3>2 DEF Moved
        <3>4. k # 0
            BY <1>6, <3>3
        <3>5. k - 1 \in 0..R /\ k \in 1..R /\ k - 1 \notin Moved
            BY <3>2, <3>3, <3>4
        <3>6. h[k - 1][s] = s
            BY <3>3, <3>5 DEF Moved
        <3> QED BY <1>7, <3>3, <3>5, <3>6
    <2> QED BY <2>1
<1>14. h[R] \in [S -> S]
    BY <1>5 DEF V
<1> QED BY <1>12, <1>13, <1>14 DEF IsEndOf

(* Multiplication is monotone.                                             *)
LEMMA ProductsGrow ==
    ASSUME NEW a \in Nat, NEW b \in Nat, NEW c \in Nat, a <= b
    PROVE  a * c \in Nat /\ b * c \in Nat /\ a * c <= b * c
<1>1. b - a \in Nat
    OBVIOUS
<1>2. (b - a) * c >= 0 /\ b * c = a * c + (b - a) * c
    BY <1>1
<1> QED BY <1>2

(* The rounds in which FlattenSeq joins the parts.                         *)
Joins(f, parts) ==
    f = [i \in 1..Len(parts) |-> IF i = 1 THEN parts[i] ELSE f[i - 1] \o parts[i]]

(* They exist, and their values are sequences.                             *)
LEMMA JoinsExist ==
    ASSUME NEW S, NEW parts \in Seq(Seq(S))
    PROVE  \E f \in [1..Len(parts) -> Seq(S)] : Joins(f, parts)
<1> DEFINE N == Len(parts)
           step == [j \in 1..N |-> [x \in Seq(S) |-> x \o parts[j]]]
<1>1. N \in Nat /\ \A j \in 1..N : parts[j] \in Seq(S)
    OBVIOUS
<1>2. step \in [1..N -> [Seq(S) -> Seq(S)]]
    BY <1>1
<1>3. \A j \in 1..N, x \in Seq(S) : step[j][x] = x \o parts[j]
    OBVIOUS
<1> HIDE DEF step, N
<1>4. PICK g \in [0..N -> Seq(S)] : IsLoop(g, N, <<>>, step)
    <2>1. <<>> \in Seq(S)
        OBVIOUS
    <2> QED BY <1>1, <1>2, <2>1, LoopHasValues
<1> DEFINE f == [j \in 1..N |-> g[j]]
<1>5. \A j \in 1..N : f[j] = IF j = 1 THEN parts[j] ELSE f[j - 1] \o parts[j]
    <2> TAKE j \in 1..N
    <2>1. j \in Nat /\ j - 1 \in 0..N /\ g[j - 1] \in Seq(S)
        BY <1>1, <1>4
    <2>2. g[j] = g[j - 1] \o parts[j]
        BY <1>3, <1>4, <2>1 DEF IsLoop
    <2>3. CASE j = 1
        <3>1. g[j - 1] = <<>>
            BY <1>4, <2>3 DEF IsLoop
        <3>2. <<>> \o parts[j] = parts[j]
            BY <1>1
        <3> QED BY <2>2, <2>3, <3>1, <3>2
    <2>4. CASE j # 1
        <3>1. j - 1 \in 1..N
            BY <2>1, <2>4
        <3> QED BY <2>2, <2>4, <3>1
    <2> QED BY <2>3, <2>4
<1>6. f \in [1..N -> Seq(S)]
    <2>1. \A j \in 1..N : g[j] \in Seq(S)
        BY <1>1, <1>4
    <2> QED BY <2>1
<1>7. f = [j \in 1..N |-> f[j]]
    OBVIOUS
<1> HIDE DEF f
<1>8. Joins(f, parts)
    BY <1>5, <1>7 DEF Joins, N
<1> QED BY <1>6, <1>8 DEF N

(* The parts are the first of more parts.                                  *)
Begins(parts, more) ==
    /\ Len(parts) \in Nat /\ Len(more) \in Nat /\ Len(parts) <= Len(more)
    /\ \A j \in 1..Len(parts) : more[j] = parts[j]

(* Any two ways to join them agree on the parts they share.                *)
LEMMA JoinsAgree ==
    ASSUME NEW f, NEW parts, Joins(f, parts), NEW g, NEW more, Joins(g, more), Begins(parts, more)
    PROVE  \A j \in 1..Len(parts) : g[j] = f[j]
<1> DEFINE N == Len(parts)
           Odd == {j \in 1..N : g[j] # f[j]}
<1>1. N \in Nat /\ Len(more) \in Nat /\ N <= Len(more) /\ \A j \in 1..N : more[j] = parts[j]
    BY DEF Begins
<1>2. /\ \A j \in 1..N : f[j] = IF j = 1 THEN parts[j] ELSE f[j - 1] \o parts[j]
      /\ \A j \in 1..N : g[j] = IF j = 1 THEN parts[j] ELSE g[j - 1] \o parts[j]
    <2> HIDE DEF N
    <2>1. \A j \in 1..N : j \in 1..Len(more)
        BY <1>1
    <2> QED BY <1>1, <2>1 DEF Joins, N
<1> SUFFICES ASSUME Odd # {} PROVE FALSE
    OBVIOUS
<1>3. Odd \subseteq Nat
    BY <1>1
<1> HIDE DEF Odd, N
<1>4. PICK j \in Odd : \A k \in Odd : j <= k
    BY <1>3, LeastElement
<1>5. j \in 1..N /\ j \in Nat
    BY <1>3, <1>4 DEF Odd
<1>6. CASE j = 1
    BY <1>2, <1>4, <1>5, <1>6 DEF Odd
<1>7. CASE j # 1
    <2>1. j - 1 \in 1..N /\ ~(j <= j - 1)
        BY <1>1, <1>5, <1>7
    <2>2. g[j - 1] = f[j - 1]
        BY <1>4, <2>1 DEF Odd
    <2> QED BY <1>2, <1>4, <1>5, <1>7, <2>2 DEF Odd
<1> QED BY <1>6, <1>7

(* Flattening, part by part.                                               *)
LEMMA FlattenAppend ==
    ASSUME NEW S, NEW parts \in Seq(Seq(S)), NEW part \in Seq(S)
    PROVE  /\ FlattenSeq(parts) \in Seq(S)
           /\ FlattenSeq(Append(parts, part)) = FlattenSeq(parts) \o part
<1> DEFINE N == Len(parts)
           more == Append(parts, part)
           f == CHOOSE h : Joins(h, parts)
           g == CHOOSE h : Joins(h, more)
<1>1. N \in Nat /\ more \in Seq(Seq(S)) /\ Len(more) = N + 1 /\ more[N + 1] = part
      /\ \A j \in 1..N : more[j] = parts[j]
    OBVIOUS
<1> HIDE DEF more
<1>2. PICK F \in [1..N -> Seq(S)] : Joins(F, parts)
    BY JoinsExist
<1>3. Joins(f, parts)
    BY <1>2
<1>4. Joins(g, more)
    <2>1. \E h : Joins(h, more)
        BY <1>1, JoinsExist
    <2> QED BY <2>1
<1>5. FlattenSeq(parts) = IF N = 0 THEN parts ELSE f[N]
    BY DEF FlattenSeq, Joins
<1>6. FlattenSeq(more) = g[N + 1]
    BY <1>1 DEF FlattenSeq, Joins
<1> HIDE DEF f, g
<1>7. \A j \in 1..N : f[j] = F[j] /\ g[j] = f[j]
    <2>1. Begins(parts, more) /\ Begins(parts, parts)
        BY <1>1 DEF Begins
    <2>2. \A j \in 1..Len(parts) : f[j] = F[j]
        BY <1>2, <1>3, <2>1, JoinsAgree
    <2>3. \A j \in 1..Len(parts) : g[j] = f[j]
        BY <1>3, <1>4, <2>1, JoinsAgree
    <2> QED BY <2>2, <2>3
<1>8. g[N + 1] = IF N = 0 THEN part ELSE g[N] \o part
    <2>1. \A j \in 1..(N + 1) : g[j] = IF j = 1 THEN more[j] ELSE g[j - 1] \o more[j]
        BY <1>1, <1>4 DEF Joins
    <2>2. N + 1 \in 1..(N + 1) /\ (N + 1 = 1 <=> N = 0) /\ (N + 1) - 1 = N
        BY <1>1
    <2> HIDE DEF N
    <2> QED BY <1>1, <2>1, <2>2
<1>9. CASE N = 0
    <2>1. parts = <<>> /\ <<>> \o part = part
        BY <1>9
    <2>2. <<>> \in Seq(S)
        OBVIOUS
    <2> QED BY <1>5, <1>6, <1>8, <1>9, <2>1, <2>2 DEF more
<1>10. CASE N # 0
    <2>1. N \in 1..N
        BY <1>1, <1>10
    <2>2. F[N] \in Seq(S)
        BY <1>2, <2>1
    <2> QED BY <1>5, <1>6, <1>7, <1>8, <1>10, <2>1, <2>2 DEF more
<1> QED BY <1>9, <1>10

=============================================================================

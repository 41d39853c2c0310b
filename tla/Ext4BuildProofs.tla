--------------------------- MODULE Ext4BuildProofs ---------------------------
(***************************************************************************)
(* Proofs about Ext4Plan and Ext4Build: that the groups of a plan have an  *)
(* inode for every node, which blocks a rebuild gives to which file, and   *)
(* what a finished image gives back, for every geometry, every tree, with  *)
(* and without shared blocks and however often the image has to grow.      *)
(***************************************************************************)
EXTENDS Ext4Build, OrderFacts, FiniteSetTheorems

-----------------------------------------------------------------------------
(* The plan.                                                               *)

(* The least element that Min chooses exists.  *)
LEMMA MinIsLeast ==
    ASSUME NEW S, S \subseteq Nat, S # {}
    PROVE  Min(S) \in S /\ \A y \in S : Min(S) <= y
<1>1. \E x \in S : \A y \in S : x <= y
    BY LeastElement
<1> QED BY <1>1 DEF Min

(* The greatest element that Max chooses exists when the set is bounded.  *)
LEMMA MaxIsGreatest ==
    ASSUME NEW S, NEW n \in Nat, S \subseteq 0..n, S # {}
    PROVE  Max(S) \in S /\ \A y \in S : Max(S) >= y
<1> DEFINE Short == {k \in Nat : n - k \in S}
<1>1. Short \subseteq Nat /\ Short # {}
    <2>1. PICK y \in S : TRUE
        OBVIOUS
    <2>2. n - y \in Nat /\ n - (n - y) = y
        BY <2>1
    <2>3. n - y \in Short
        BY <2>1, <2>2
    <2> QED BY <2>3
<1> HIDE DEF Short
<1>2. PICK k \in Short : \A m \in Short : k <= m
    BY <1>1, LeastElement
<1> USE DEF Short
<1>3. k \in Nat /\ n - k \in S
    BY <1>2
<1>4. ASSUME NEW y \in S PROVE n - k >= y
    <2>1. y \in 0..n
        OBVIOUS
    <2>2. n - y \in Nat /\ n - (n - y) = y
        BY <2>1
    <2>3. n - y \in Short
        BY <2>2
    <2>4. k <= n - y
        BY <1>2, <2>3
    <2> QED BY <1>3, <2>1, <2>4
<1>5. \E x \in S : \A y \in S : x >= y
    BY <1>3, <1>4
<1> QED BY <1>5 DEF Max

(* Rounding up.  *)
LEMMA CeilRoundsUp ==
    ASSUME NEW a \in Nat, NEW b \in Nat \ {0}
    PROVE  /\ Ceil(a, b) \in Nat
           /\ a <= Ceil(a, b) * b
           /\ (Ceil(a, b) - 1) * b < a
<1> DEFINE c == a + b - 1
<1>1. c \in Nat
    OBVIOUS
<1>2. c = b * (c \div b) + (c % b) /\ c % b \in 0..(b - 1) /\ c \div b \in Nat
    BY <1>1
<1> QED BY <1>2 DEF Ceil

(* The recursion by which MapThenSumSet sums v over the subsets of S.      *)
IsSum(f, S, v) ==
    \A s \in SUBSET S :
        f[s] = IF s = {} THEN 0
               ELSE v[CHOOSE x \in s : TRUE] + f[s \ {CHOOSE x \in s : TRUE}]

(* The sum of naturals over a finite set exists.                           *)
LEMMA SumsExist ==
    ASSUME NEW S, IsFiniteSet(S), NEW v \in [S -> Nat]
    PROVE  \E f \in [SUBSET S -> Nat] : IsSum(f, S, v)
<1> DEFINE Pick(s) == CHOOSE x \in s : TRUE
           Small(n) == {s \in SUBSET S : Cardinality(s) <= n}
           Sums(f, n) ==
               /\ f \in [Small(n) -> Nat]
               /\ \A s \in Small(n) :
                      f[s] = IF s = {} THEN 0 ELSE v[Pick(s)] + f[s \ {Pick(s)}]
           Stuck == {n \in Nat : \A f : ~Sums(f, n)}
<1>1. \A s \in SUBSET S : /\ IsFiniteSet(s) /\ Cardinality(s) \in Nat
                          /\ Cardinality(s) = 0 <=> s = {}
    BY FS_Subset, FS_CardinalityType, FS_EmptySet
<1>2. \A s \in SUBSET S : s # {} =>
          /\ Pick(s) \in s /\ s \ {Pick(s)} \in SUBSET S
          /\ Cardinality(s \ {Pick(s)}) = Cardinality(s) - 1
    <2> SUFFICES ASSUME NEW s \in SUBSET S, s # {}
                 PROVE  /\ Pick(s) \in s /\ s \ {Pick(s)} \in SUBSET S
                        /\ Cardinality(s \ {Pick(s)}) = Cardinality(s) - 1
        OBVIOUS
    <2>1. Pick(s) \in s
        OBVIOUS
    <2> HIDE DEF Pick
    <2>2. Cardinality(s \ {Pick(s)}) = Cardinality(s) - 1
        BY <1>1, <2>1, FS_RemoveElement
    <2> QED BY <2>1, <2>2
<1> HIDE DEF Pick
<1>3. \E f : Sums(f, 0)
    <2> DEFINE f == [s \in Small(0) |-> 0]
    <2>1. \A s \in Small(0) : s = {}
        BY <1>1
    <2>2. f \in [Small(0) -> Nat] /\ \A s \in Small(0) : f[s] = 0
        OBVIOUS
    <2> HIDE DEF f, Small
    <2>3. Sums(f, 0)
        BY <2>1, <2>2
    <2> QED BY <2>3
<1>4. ASSUME NEW n \in Nat, NEW f, Sums(f, n)
      PROVE  \E g : Sums(g, n + 1)
    <2> DEFINE g == [s \in Small(n + 1) |->
                        IF s = {} THEN 0 ELSE v[Pick(s)] + f[s \ {Pick(s)}]]
    <2> HIDE DEF Stuck
    <2>1. \A s \in Small(n + 1) : s # {} =>
              Pick(s) \in S /\ s \ {Pick(s)} \in Small(n) /\ f[s \ {Pick(s)}] \in Nat
        <3> SUFFICES ASSUME NEW s \in Small(n + 1), s # {}
                     PROVE  Pick(s) \in S /\ s \ {Pick(s)} \in Small(n)
                            /\ f[s \ {Pick(s)}] \in Nat
            OBVIOUS
        <3>1. Pick(s) \in S /\ s \ {Pick(s)} \in SUBSET S
            BY <1>2
        <3>2. Cardinality(s \ {Pick(s)}) <= n
            BY <1>1, <1>2
        <3>3. s \ {Pick(s)} \in Small(n)
            BY <3>1, <3>2
        <3> QED BY <1>4, <3>1, <3>3
    <2>2. g \in [Small(n + 1) -> Nat]
        BY <2>1
    <2>3. \A s \in Small(n) : s \in Small(n + 1) /\ g[s] = f[s]
        <3> TAKE s \in Small(n)
        <3>1. s \in Small(n + 1)
            BY <1>1
        <3> QED BY <1>4, <3>1
    <2>4. \A s \in Small(n + 1) :
              g[s] = IF s = {} THEN 0 ELSE v[Pick(s)] + g[s \ {Pick(s)}]
        <3> TAKE s \in Small(n + 1)
        <3>1. CASE s = {}
            BY <3>1
        <3>2. CASE s # {}
            <4>1. g[s \ {Pick(s)}] = f[s \ {Pick(s)}]
                BY <2>1, <2>3, <3>2
            <4>2. g[s] = v[Pick(s)] + f[s \ {Pick(s)}]
                BY <3>2
            <4> HIDE DEF g, Small
            <4> QED BY <3>2, <4>1, <4>2
        <3> QED BY <3>1, <3>2
    <2> QED BY <2>2, <2>4
<1>5. Stuck = {}
    <2> SUFFICES ASSUME Stuck # {} PROVE FALSE
        OBVIOUS
    <2> HIDE DEF Sums, Small
    <2>1. Stuck \subseteq Nat
        OBVIOUS
    <2> HIDE DEF Stuck
    <2>2. PICK n \in Stuck : \A m \in Stuck : n <= m
        BY <2>1, LeastElement
    <2> USE DEF Stuck
    <2>3. n \in Nat /\ n # 0
        BY <1>3, <2>2
    <2>4. n - 1 \in Nat /\ n - 1 \notin Stuck
        BY <2>2, <2>3
    <2>5. PICK f : Sums(f, n - 1)
        BY <2>4
    <2>6. \E g : Sums(g, n)
        BY <1>4, <2>3, <2>4, <2>5
    <2> QED BY <2>2, <2>6
<1>6. Cardinality(S) \in Nat /\ Small(Cardinality(S)) = SUBSET S
    <2>1. \A s \in SUBSET S : Cardinality(s) <= Cardinality(S)
        BY FS_Subset
    <2> QED BY <1>1, <2>1
<1>7. PICK f : Sums(f, Cardinality(S))
    <2>1. Cardinality(S) \notin Stuck
        BY <1>5
    <2> HIDE DEF Sums, Small
    <2> QED BY <1>6, <2>1
<1>8. /\ f \in [SUBSET S -> Nat]
      /\ \A s \in SUBSET S : f[s] = IF s = {} THEN 0 ELSE v[Pick(s)] + f[s \ {Pick(s)}]
    BY <1>6, <1>7
<1> QED BY <1>8 DEF Pick, IsSum

(* And whatever satisfies the recursion of that sum is a natural.          *)
LEMMA SumsAreNatural ==
    ASSUME NEW S, IsFiniteSet(S), NEW v \in [S -> Nat], NEW h, IsSum(h, S, v)
    PROVE  h[S] \in Nat
<1> DEFINE R == StrictSubsetOrdering(S)
           Odd == {s \in SUBSET S : h[s] \notin Nat}
<1>1. IsWellFoundedOn(R, SUBSET S)
    BY FS_StrictSubsetOrderingWellFounded, FS_FiniteSubsetsOfFinite
<1>2. h[{}] = 0
    BY DEF IsSum
<1>3. Odd = {}
    <2> SUFFICES ASSUME Odd # {} PROVE FALSE
        OBVIOUS
    <2>1. Odd \subseteq SUBSET S
        OBVIOUS
    <2> HIDE DEF Odd, R
    <2>2. PICK s \in Odd : \A t \in Odd : ~(<<t, s>> \in R)
        BY <1>1, <2>1, WFMin
    <2> DEFINE x == CHOOSE x \in s : TRUE
    <2>3. s \in SUBSET S /\ h[s] \notin Nat
        BY <2>2 DEF Odd
    <2>4. s # {}
        BY <1>2, <2>3
    <2>5. x \in s
        BY <2>4
    <2>6. h[s] = v[x] + h[s \ {x}]
        BY <2>3, <2>4 DEF IsSum
    <2> HIDE DEF x
    <2>7. <<s \ {x}, s>> \in R
        BY <2>3, <2>5 DEF R, StrictSubsetOrdering
    <2>8. h[s \ {x}] \in Nat
        BY <2>2, <2>3, <2>7 DEF Odd
    <2>9. v[x] \in Nat
        BY <2>3, <2>5
    <2> QED BY <2>3, <2>6, <2>8, <2>9
<1> QED BY <1>3

(* A union of sets, each no larger than its term, is no larger than the    *)
(* sum.                                                                    *)
LEMMA UnionsAreBounded ==
    ASSUME NEW S, IsFiniteSet(S), NEW v \in [S -> Nat], NEW h, IsSum(h, S, v),
           NEW own, \A i \in S : IsFiniteSet(own[i]) /\ Cardinality(own[i]) <= v[i]
    PROVE  /\ IsFiniteSet(UNION {own[i] : i \in S})
           /\ Cardinality(UNION {own[i] : i \in S}) <= h[S]
<1> DEFINE R == StrictSubsetOrdering(S)
           all(s) == UNION {own[i] : i \in s}
           Bounded(s) == /\ h[s] \in Nat /\ IsFiniteSet(all(s))
                         /\ Cardinality(all(s)) <= h[s]
           Odd == {s \in SUBSET S : ~Bounded(s)}
<1>1. IsWellFoundedOn(R, SUBSET S)
    BY FS_StrictSubsetOrderingWellFounded, FS_FiniteSubsetsOfFinite
<1>2. Bounded({})
    <2>1. h[{}] = 0
        BY DEF IsSum
    <2>2. all({}) = {}
        OBVIOUS
    <2> HIDE DEF all
    <2> QED BY <2>1, <2>2, FS_EmptySet
<1>3. Odd = {}
    <2> SUFFICES ASSUME Odd # {} PROVE FALSE
        OBVIOUS
    <2>1. Odd \subseteq SUBSET S
        OBVIOUS
    <2> HIDE DEF Odd, R
    <2>2. PICK s \in Odd : \A t \in Odd : ~(<<t, s>> \in R)
        BY <1>1, <2>1, WFMin
    <2> DEFINE x == CHOOSE x \in s : TRUE
    <2>3. s \in SUBSET S /\ ~Bounded(s)
        BY <2>2 DEF Odd
    <2>4. s # {}
        BY <1>2, <2>3
    <2>5. x \in s
        BY <2>4
    <2>6. h[s] = v[x] + h[s \ {x}]
        BY <2>3, <2>4 DEF IsSum
    <2> HIDE DEF x
    <2>7. <<s \ {x}, s>> \in R
        BY <2>3, <2>5 DEF R, StrictSubsetOrdering
    <2>8. Bounded(s \ {x})
        BY <2>2, <2>3, <2>7 DEF Odd
    <2>9. v[x] \in Nat /\ IsFiniteSet(own[x]) /\ Cardinality(own[x]) <= v[x]
        BY <2>3, <2>5
    <2>10. all(s) = all(s \ {x}) \cup own[x]
        BY <2>5
    <2> DEFINE A == all(s \ {x})
               B == own[x]
    <2> HIDE DEF A, B
    <2>11. /\ IsFiniteSet(A) /\ h[s \ {x}] \in Nat /\ Cardinality(A) <= h[s \ {x}]
           /\ IsFiniteSet(B) /\ Cardinality(B) <= v[x]
        BY <2>8, <2>9 DEF A, B
    <2>12. /\ IsFiniteSet(A \cup B)
           /\ Cardinality(A \cup B) = Cardinality(A) + Cardinality(B) - Cardinality(A \cap B)
        BY <2>11, FS_Union
    <2>13. /\ Cardinality(A) \in Nat /\ Cardinality(B) \in Nat
           /\ Cardinality(A \cap B) \in Nat
        BY <2>11, FS_CardinalityType, FS_Intersection
    <2>14. Cardinality(A \cup B) <= v[x] + h[s \ {x}]
        BY <2>9, <2>11, <2>12, <2>13
    <2>15. all(s) = A \cup B
        BY <2>10 DEF A, B
    <2> HIDE DEF all
    <2>16. Bounded(s)
        BY <2>6, <2>9, <2>11, <2>12, <2>14, <2>15
    <2> QED BY <2>3, <2>16
<1>4. S \in SUBSET S
    OBVIOUS
<1> QED BY <1>3, <1>4

-----------------------------------------------------------------------------
(* The terms of the plan.                                                  *)

(* The image of a finite set is finite.  *)
LEMMA ImagesAreFinite ==
    ASSUME NEW S, IsFiniteSet(S), NEW f, DOMAIN f = S
    PROVE  IsFiniteSet({f[x] : x \in S})
<1> DEFINE T == {f[x] : x \in S}
           g == [x \in S |-> f[x]]
<1>1. g \in Surjection(S, T)
    BY DEF Surjection
<1> QED BY <1>1, FS_Surjection

(* The nodes of which a plan counts every block, and how many they have.   *)
Counted(nodes, dedup) ==
    {i \in DOMAIN nodes : TakesBlocks(nodes[i]) /\ ~(dedup /\ nodes[i].kind = "file")}
Lengths(nodes, dedup) == [i \in Counted(nodes, dedup) |-> Len(nodes[i].data)]

(* The data a plan counts is their sum, and what there is of hashes.       *)
LEMMA DataIsASum ==
    ASSUME NEW nodes \in Seq(Node), NEW dedup \in BOOLEAN
    PROVE  /\ IsFiniteSet(Counted(nodes, dedup))
           /\ Lengths(nodes, dedup) \in [Counted(nodes, dedup) -> Nat]
           /\ \E h : \E hashed \in Nat :
                  /\ IsSum(h, Counted(nodes, dedup), Lengths(nodes, dedup))
                  /\ DataBlocks(nodes, dedup) = h[Counted(nodes, dedup)] + hashed
<1> DEFINE counted(i) == TakesBlocks(nodes[i]) /\ ~(dedup /\ nodes[i].kind = "file")
           S == {i \in DOMAIN nodes : counted(i)}
           v == [i \in S |-> Len(nodes[i].data)]
           distinct(i) == {Hash[nodes[i].data[k]] : k \in {k \in DOMAIN nodes[i].data :
                                                             nodes[i].data[k] # Zero}}
           files == {i \in DOMAIN nodes : dedup /\ nodes[i].kind = "file"}
           hashes == UNION {distinct(i) : i \in files}
           Sums(f) == f = [s \in SUBSET S |->
                              IF s = {} THEN 0
                              ELSE Len(nodes[CHOOSE x \in s : TRUE].data)
                                       + f[s \ {CHOOSE x \in s : TRUE}]]
           h == CHOOSE f : Sums(f)
<1>1. DataBlocks(nodes, dedup) = h[S] + Cardinality(hashes)
    BY DEF DataBlocks, MapThenSumSet, MapThenFoldSet
<1>2. DOMAIN nodes = 1..Len(nodes) /\ Len(nodes) \in Nat
    OBVIOUS
<1>3. \A i \in DOMAIN nodes : nodes[i].data \in Seq({Zero} \cup DOMAIN Hash)
    <2> TAKE i \in DOMAIN nodes
    <2>1. nodes[i] \in Node
        BY <1>2
    <2> QED BY <2>1 DEF Node
<1>4. \A i \in DOMAIN nodes : Len(nodes[i].data) \in Nat
                              /\ DOMAIN nodes[i].data = 1..Len(nodes[i].data)
    BY <1>3
<1>5. IsFiniteSet(DOMAIN nodes) /\ S \in SUBSET DOMAIN nodes /\ files \in SUBSET DOMAIN nodes
    BY <1>2, FS_Interval
<1>6. IsFiniteSet(S) /\ v \in [S -> Nat] /\ IsSum(h, S, v)
    <2>1. IsFiniteSet(S)
        BY <1>5, FS_Subset
    <2>2. v \in [S -> Nat]
        BY <1>4
    <2> HIDE DEF S, v
    <2>3. \A s \in SUBSET S : s # {} => (CHOOSE x \in s : TRUE) \in S
        OBVIOUS
    <2>4. \A s \in SUBSET S : s # {} =>
              v[CHOOSE x \in s : TRUE] = Len(nodes[CHOOSE x \in s : TRUE].data)
        BY <2>3 DEF v
    <2>5. PICK f \in [SUBSET S -> Nat] : IsSum(f, S, v)
        BY <2>1, <2>2, SumsExist
    <2> HIDE DEF h
    <2>6. Sums(f)
        <3>1. \A s \in SUBSET S :
                  f[s] = IF s = {} THEN 0
                         ELSE Len(nodes[CHOOSE x \in s : TRUE].data) + f[s \ {CHOOSE x \in s : TRUE}]
            BY ONLY <2>4, <2>5 DEF IsSum
        <3>2. f = [s \in SUBSET S |-> f[s]]
            BY ONLY <2>5
        <3> QED BY ONLY <3>1, <3>2
    <2>7. Sums(h)
        BY ONLY <2>6 DEF h
    <2>8. IsSum(h, S, v)
        <3>1. \A s \in SUBSET S :
                  h[s] = IF s = {} THEN 0
                         ELSE Len(nodes[CHOOSE x \in s : TRUE].data) + h[s \ {CHOOSE x \in s : TRUE}]
            BY ONLY <2>7
        <3> QED BY ONLY <2>4, <3>1 DEF IsSum
    <2> QED BY <2>1, <2>2, <2>8
<1>7. Cardinality(hashes) \in Nat
    <2>1. \A i \in files : IsFiniteSet(distinct(i))
        <3> TAKE i \in files
        <3> DEFINE K == {k \in DOMAIN nodes[i].data : nodes[i].data[k] # Zero}
                   f == [k \in K |-> Hash[nodes[i].data[k]]]
        <3>1. IsFiniteSet(K)
            <4>1. DOMAIN nodes[i].data = 1..Len(nodes[i].data) /\ Len(nodes[i].data) \in Nat
                BY <1>4
            <4>2. IsFiniteSet(DOMAIN nodes[i].data)
                BY <4>1, FS_Interval
            <4> QED BY <4>2, FS_Subset
        <3>2. IsFiniteSet({f[k] : k \in K})
            BY <3>1, ImagesAreFinite
        <3>3. {f[k] : k \in K} = distinct(i)
            OBVIOUS
        <3> QED BY <3>2, <3>3
    <2>2. IsFiniteSet(files)
        BY <1>5, FS_Subset
    <2> DEFINE d == [i \in files |-> distinct(i)]
    <2>3. IsFiniteSet({d[i] : i \in files})
        <3> HIDE DEF files, distinct
        <3> QED BY <2>2, ImagesAreFinite
    <2>4. {d[i] : i \in files} = {distinct(i) : i \in files}
        <3> HIDE DEF files, distinct
        <3> QED OBVIOUS
    <2> DEFINE all == {distinct(i) : i \in files}
    <2>5. IsFiniteSet(all) /\ \A T \in all : IsFiniteSet(T)
        BY <2>1, <2>3, <2>4
    <2>6. IsFiniteSet(UNION all)
        <3> HIDE DEF all
        <3> QED BY <2>5, FS_UNION
    <2> QED BY <2>6, FS_CardinalityType
<1>8. S = Counted(nodes, dedup) /\ v = Lengths(nodes, dedup)
    BY DEF Counted, Lengths
<1> HIDE DEF h, hashes, S, v
<1> QED BY <1>1, <1>6, <1>7, <1>8

(* So it is a number of blocks.                                            *)
LEMMA DataIsCounted ==
    ASSUME NEW nodes \in Seq(Node), NEW dedup \in BOOLEAN
    PROVE  DataBlocks(nodes, dedup) \in Nat
<1> DEFINE S == Counted(nodes, dedup)
           v == Lengths(nodes, dedup)
<1>1. IsFiniteSet(S) /\ v \in [S -> Nat]
    BY DataIsASum
<1>2. PICK h : \E hashed \in Nat : /\ IsSum(h, S, v)
                                   /\ DataBlocks(nodes, dedup) = h[S] + hashed
    BY DataIsASum
<1> HIDE DEF S, v
<1>3. h[S] \in Nat
    BY <1>1, <1>2, SumsAreNatural
<1> QED BY <1>2, <1>3

(* Without hashes it is as many blocks as the nodes can take.              *)
LEMMA DataIsEnough ==
    ASSUME NEW nodes \in Seq(Node), NEW own,
           \A i \in DOMAIN nodes :
               /\ IsFiniteSet(own[i]) /\ Cardinality(own[i]) <= Len(nodes[i].data)
               /\ ~TakesBlocks(nodes[i]) => own[i] = {}
    PROVE  /\ IsFiniteSet(UNION {own[i] : i \in DOMAIN nodes})
           /\ Cardinality(UNION {own[i] : i \in DOMAIN nodes}) <= DataBlocks(nodes, FALSE)
<1> DEFINE S == Counted(nodes, FALSE)
           v == Lengths(nodes, FALSE)
           data == DataBlocks(nodes, FALSE)
           all == UNION {own[i] : i \in S}
<1>1. IsFiniteSet(S) /\ v \in [S -> Nat]
    BY DataIsASum
<1>2. PICK h : \E hashed \in Nat : IsSum(h, S, v) /\ data = h[S] + hashed
    BY DataIsASum
<1>3. \A i \in S : i \in DOMAIN nodes /\ v[i] = Len(nodes[i].data)
    BY DEF Counted, Lengths
<1>4. UNION {own[i] : i \in DOMAIN nodes} = all
    <2>1. \A i \in DOMAIN nodes : i \in S \/ own[i] = {}
        BY DEF Counted
    <2> HIDE DEF S
    <2> QED BY <1>3, <2>1
<1> HIDE DEF S, v, data
<1>5. \A i \in S : IsFiniteSet(own[i]) /\ Cardinality(own[i]) <= v[i]
    BY <1>3
<1>6. IsFiniteSet(all) /\ Cardinality(all) <= h[S]
    BY ONLY <1>1, <1>2, <1>5, UnionsAreBounded
<1>7. h[S] \in Nat /\ Cardinality(all) \in Nat
    BY <1>1, <1>2, <1>6, SumsAreNatural, FS_CardinalityType
<1> HIDE DEF all
<1>8. Cardinality(all) <= data
    BY <1>2, <1>6, <1>7
<1> QED BY <1>4, <1>6, <1>8 DEF data

(* Every group's metadata is at least a block.  *)
LEMMA MetadataTakesBlocks ==
    ASSUME NEW groups \in Nat
    PROVE  MetaBlocks(groups) \in Nat \ {0}
<1>1. DescriptorBlocks(groups) \in Nat
    BY CeilRoundsUp, GeometryAssumption DEF DescriptorBlocks
<1> QED BY <1>1, GeometryAssumption DEF MetaBlocks

(* What a plan asks for is a number of blocks.                              *)
LEMMA NeedIsNatural ==
    ASSUME NEW nodes \in Seq(Node), NEW data \in Nat, NEW groups \in Nat
    PROVE  Need(nodes, data, groups) \in Nat
<1>1. MetaBlocks(groups) \in Nat
    BY MetadataTakesBlocks
<1>2. \A m \in Nat : groups * m \in Nat
    OBVIOUS
<1>3. Len(nodes) \in Nat
    OBVIOUS
<1> QED BY <1>1, <1>2, <1>3 DEF Need

(* A round of the plan asks for enough groups for the inodes.  *)
LEMMA GroupsForInodes ==
    ASSUME NEW nodes \in Seq(Node), NEW data \in Nat, NEW reserve \in Nat, NEW groups \in Nat
    PROVE  /\ WantGroups(nodes, data, reserve, groups) \in Nat \ {0}
           /\ Len(nodes) + InodeMargin
                  <= WantGroups(nodes, data, reserve, groups) * InodesPerGroup
<1> DEFINE space == Ceil(Need(nodes, data, groups) + reserve, BlocksPerGroup)
           inodes == Ceil(Len(nodes) + InodeMargin, InodesPerGroup)
           want == WantGroups(nodes, data, reserve, groups)
<1>1. space \in Nat
    <2>0. Need(nodes, data, groups) \in Nat
        BY NeedIsNatural
    <2>1. Need(nodes, data, groups) + reserve \in Nat
        BY <2>0
    <2> HIDE DEF inodes, want
    <2> QED BY <2>1, CeilRoundsUp, GeometryAssumption
<1>2. Len(nodes) + InodeMargin \in Nat
    BY GeometryAssumption
<1>3. inodes \in Nat /\ Len(nodes) + InodeMargin <= inodes * InodesPerGroup
    BY <1>2, CeilRoundsUp, GeometryAssumption
<1>4. want = AtLeast(AtLeast(space, inodes), 1)
    BY DEF WantGroups
<1> HIDE DEF space, inodes, want
<1>5. want \in Nat \ {0} /\ inodes <= want
    BY <1>1, <1>3, <1>4 DEF AtLeast
<1>6. InodesPerGroup \in Nat /\ inodes * InodesPerGroup <= want * InodesPerGroup
    BY <1>3, <1>5, ProductsGrow, GeometryAssumption
<1>7. want * InodesPerGroup \in Nat /\ inodes * InodesPerGroup \in Nat
    BY <1>3, <1>5, <1>6
<1> QED BY <1>2, <1>3, <1>5, <1>6, <1>7 DEF want

(* So does the fixed point, which has at least one round.  *)
LEMMA FixedPointFitsInodes ==
    ASSUME NEW nodes \in Seq(Node), NEW data \in Nat, NEW reserve \in Nat
    PROVE  /\ FixedPoint(nodes, data, reserve) \in Nat \ {0}
           /\ Len(nodes) + InodeMargin <= FixedPoint(nodes, data, reserve) * InodesPerGroup
<1> DEFINE want(x) == WantGroups(nodes, data, reserve, x)
           step == [n \in 1..FixRounds |-> [x \in Nat |-> AtLeast(x, want(x))]]
           Rounds(g) == g = [n \in 0..FixRounds |->
                                IF n = 0 THEN 1 ELSE AtLeast(g[n - 1], want(g[n - 1]))]
           h == CHOOSE g : Rounds(g)
<1>1. FixedPoint(nodes, data, reserve) = h[FixRounds]
    BY DEF FixedPoint
<1>2. \A x \in Nat : want(x) \in Nat \ {0} /\ Len(nodes) + InodeMargin <= want(x) * InodesPerGroup
    BY GroupsForInodes
<1> HIDE DEF want
<1>3. step \in [1..FixRounds -> [Nat -> Nat]]
    BY <1>2 DEF AtLeast
<1>4. FixRounds \in Nat \ {0}
    BY GeometryAssumption
<1>5. \A n \in 1..FixRounds, x \in Nat : step[n][x] = AtLeast(x, want(x))
    OBVIOUS
<1> HIDE DEF step
<1>6. PICK f \in [0..FixRounds -> Nat] : IsLoop(f, FixRounds, 1, step)
    BY <1>3, <1>4, LoopHasValues
<1>7. Rounds(f)
    <2>1. \A n \in 0..FixRounds :
              f[n] = IF n = 0 THEN 1 ELSE AtLeast(f[n - 1], want(f[n - 1]))
        <3> TAKE n \in 0..FixRounds
        <3>1. CASE n = 0
            BY <1>6, <3>1 DEF IsLoop
        <3>2. CASE n # 0
            <4>1. n \in 1..FixRounds /\ n - 1 \in 0..FixRounds
                BY <1>4, <3>2
            <4>2. f[n - 1] \in Nat
                BY <1>6, <4>1
            <4> QED BY <1>5, <1>6, <3>2, <4>1, <4>2 DEF IsLoop
        <3> QED BY <3>1, <3>2
    <2>2. f = [n \in 0..FixRounds |-> f[n]]
        OBVIOUS
    <2> QED BY <2>1, <2>2
<1>8. Rounds(h)
    BY <1>7
<1> HIDE DEF h
<1>9. /\ h[0] = 1
      /\ \A n \in 1..FixRounds : h[n] = AtLeast(h[n - 1], want(h[n - 1]))
    BY <1>4, <1>8
<1>10. \A n \in 0..FixRounds : h[n] \in Nat
    <2> DEFINE Odd == {n \in 0..FixRounds : h[n] \notin Nat}
    <2> SUFFICES ASSUME Odd # {} PROVE FALSE
        OBVIOUS
    <2>1. Odd \subseteq Nat
        OBVIOUS
    <2> HIDE DEF Odd
    <2>2. PICK n \in Odd : \A m \in Odd : n <= m
        BY <2>1, LeastElement
    <2> USE DEF Odd
    <2>3. n \in 1..FixRounds /\ n - 1 \in 0..FixRounds
        BY <1>4, <1>9, <2>2
    <2>4. h[n - 1] \in Nat
        BY <2>2, <2>3
    <2>5. h[n] \in Nat
        BY <1>2, <1>9, <2>3, <2>4 DEF AtLeast
    <2> QED BY <2>2, <2>5
<1> DEFINE last == h[FixRounds - 1]
<1>11. last \in Nat /\ h[FixRounds] = AtLeast(last, want(last))
    BY <1>4, <1>9, <1>10
<1> HIDE DEF last
<1> DEFINE w == want(last)
<1>12. w \in Nat \ {0} /\ Len(nodes) + InodeMargin <= w * InodesPerGroup
    BY <1>2, <1>11
<1> HIDE DEF w
<1>13. h[FixRounds] \in Nat \ {0} /\ w <= h[FixRounds]
    BY <1>11, <1>12 DEF AtLeast, w
<1>14. w * InodesPerGroup <= h[FixRounds] * InodesPerGroup
    BY <1>12, <1>13, ProductsGrow, GeometryAssumption
<1>15. Len(nodes) + InodeMargin \in Nat /\ InodesPerGroup \in Nat
    BY GeometryAssumption
<1>16. Len(nodes) + InodeMargin <= h[FixRounds] * InodesPerGroup
    BY <1>12, <1>13, <1>14, <1>15
<1> QED BY <1>1, <1>13, <1>16

(* A plan is a number of whole groups.                                     *)
LEMMA PlanIsGroups ==
    ASSUME NEW nodes \in Seq(Node), NEW dedup \in BOOLEAN, NEW reserve \in Nat
    PROVE  \E groups \in Nat \ {0} :
               /\ PlanTotal(nodes, dedup, reserve) = groups * BlocksPerGroup
               /\ PlanTotal(nodes, dedup, reserve) \div BlocksPerGroup = groups
               /\ FixedPoint(nodes, DataBlocks(nodes, dedup), reserve) <= groups
<1> DEFINE data == DataBlocks(nodes, dedup)
           from == FixedPoint(nodes, data, reserve)
           roomy == {g \in from..(from + RoomRounds) :
                         \/ g * BlocksPerGroup - Need(nodes, data, g) >= Margin(reserve)
                         \/ g = from + RoomRounds}
           plan == PlanTotal(nodes, dedup, reserve)
<1>1. data \in Nat
    BY DataIsCounted
<1> HIDE DEF data
<1>2. from \in Nat \ {0}
    BY <1>1, FixedPointFitsInodes
<1>3. plan = Min(roomy) * BlocksPerGroup
    BY DEF PlanTotal, data
<1> HIDE DEF from
<1>4. roomy \subseteq Nat /\ from + RoomRounds \in roomy
    BY <1>2, GeometryAssumption
<1>5. \A g \in roomy : from <= g
    BY <1>2
<1> HIDE DEF roomy
<1> DEFINE groups == Min(roomy)
<1>6. groups \in Nat \ {0} /\ from <= groups
    <2>1. groups \in Nat /\ from <= groups
        BY <1>4, <1>5, MinIsLeast
    <2> HIDE DEF groups
    <2> QED BY <1>2, <2>1
<1>7. plan = groups * BlocksPerGroup
    BY <1>3
<1> HIDE DEF groups, plan
<1>8. plan \div BlocksPerGroup = groups
    <2>1. groups * BlocksPerGroup = BlocksPerGroup * groups + 0
        BY <1>6, GeometryAssumption
    <2> QED BY <1>6, <1>7, <2>1, GeometryAssumption
<1> QED BY <1>6, <1>7, <1>8 DEF plan, from, data

(* The size that is built: a number of blocks that holds the plan, and as  *)
(* many groups as the nodes need inodes.                                   *)
LEMMA PlanHoldsInodes ==
    ASSUME NEW nodes \in Seq(Node), NEW shared \in BOOLEAN, NEW compact \in BOOLEAN,
           NEW reserve \in Nat, NEW inputBlocks \in Nat
    PROVE  /\ TargetBlocks(nodes, shared, compact, reserve, inputBlocks) \in Nat
           /\ PlanTotal(nodes, shared /\ compact, reserve)
                  <= TargetBlocks(nodes, shared, compact, reserve, inputBlocks)
           /\ \E groups \in Nat \ {0} :
                  /\ groups * BlocksPerGroup
                         <= TargetBlocks(nodes, shared, compact, reserve, inputBlocks)
                  /\ Len(nodes) + InodeMargin <= groups * InodesPerGroup
<1> DEFINE dedup == shared /\ compact
           data == DataBlocks(nodes, dedup)
           from == FixedPoint(nodes, data, reserve)
           plan == PlanTotal(nodes, dedup, reserve)
           target == TargetBlocks(nodes, shared, compact, reserve, inputBlocks)
<1>1. data \in Nat /\ dedup \in BOOLEAN
    BY DataIsCounted
<1>2. PICK groups \in Nat \ {0} : plan = groups * BlocksPerGroup /\ from <= groups
    BY <1>1, PlanIsGroups
<1> HIDE DEF data
<1>3. from \in Nat \ {0} /\ Len(nodes) + InodeMargin <= from * InodesPerGroup
    BY <1>1, FixedPointFitsInodes
<1>4. target = IF compact THEN plan ELSE AtLeast(plan, inputBlocks)
    BY DEF TargetBlocks
<1> HIDE DEF from, plan, target
<1>5. plan \in Nat
    BY <1>2, GeometryAssumption
<1>6. from * BlocksPerGroup <= plan
    BY <1>2, <1>3, ProductsGrow, GeometryAssumption
<1>7. target \in Nat /\ plan <= target
    BY <1>4, <1>5 DEF AtLeast
<1>8. from * BlocksPerGroup \in Nat
    BY <1>3, GeometryAssumption
<1>9. from * BlocksPerGroup <= target
    BY <1>5, <1>6, <1>7, <1>8
<1> QED BY <1>3, <1>7, <1>9 DEF target, plan

-----------------------------------------------------------------------------
(* The relation between a file's blocks and the image's.                   *)

(* An extent <<logical, physical, length>>.                                *)
Extent == [1..3 -> Nat]

(* By these extents block l of a file is block b of the image.             *)
Maps(exts, l, b) ==
    \E j \in DOMAIN exts : /\ exts[j][1] <= l /\ l < exts[j][1] + exts[j][3]
                           /\ b = exts[j][2] + (l - exts[j][1])

(* The extents of a file's first blocks: in order and without overlaps.    *)
InOrder(exts, upto) ==
    /\ exts \in Seq(Extent)
    /\ \A j \in 1..Len(exts) : exts[j][3] >= 1 /\ exts[j][1] + exts[j][3] <= upto
    /\ \A j, k \in 1..Len(exts) : j < k => exts[j][1] + exts[j][3] <= exts[k][1]

-----------------------------------------------------------------------------
(* The inductive invariant.  That files read back is not inductive: while  *)
(* blocks are placed, a shared block must already hold what its file says, *)
(* and a directory's block, which is written last, must not be mistaken    *)
(* for a twin; that one block has one owner rests on the bitmap covering   *)
(* every block that was given.                                             *)
Working == pc \in {"place", "trees", "write", "done"}

NodeShares(i) == Shares(job.shared, Nodes[i])

(* Blocks of node i that have been placed so far.                          *)
Upto(i) ==
    IF pc # "place" \/ i < node THEN Len(Nodes[i].data)
    ELSE IF i = node THEN logical ELSE 0

Shape ==
    /\ DOMAIN extents = DOMAIN Nodes /\ DOMAIN trees = DOMAIN Nodes
    /\ DOMAIN disk = 0..(total - 1)
    /\ \A i \in DOMAIN Nodes : InOrder(extents[i], Upto(i)) /\ trees[i] \in Seq(Nat)
    /\ pc = "place" => \A i \in DOMAIN Nodes : trees[i] = <<>>
    /\ pc = "place" /\ node <= Len(Nodes) => logical <= Len(Nodes[node].data)

(* The bitmap covers the metadata, the tree blocks and the data apart.     *)
Marked ==
    /\ Metadata \subseteq used /\ TreeBlocks \subseteq used
    /\ TreeBlocks \cap Metadata = {}
    /\ \A i \in DOMAIN Nodes : \A l, b \in Nat :
           Maps(extents[i], l, b) => b \in used /\ b \notin Metadata /\ b \notin TreeBlocks
    /\ \A b \in used : \/ b \in Metadata \/ b \in TreeBlocks
                       \/ \E i \in DOMAIN Nodes : \E l \in Nat : Maps(extents[i], l, b)

(* A block of a node that does not share is nobody else's.                 *)
Alone ==
    \A i, k \in DOMAIN Nodes : \A l, m, b \in Nat :
        ~NodeShares(i) /\ Maps(extents[i], l, b) /\ Maps(extents[k], m, b)
            => i = k /\ l = m

(* Shared blocks are written when they are given, the others at the end.   *)
Contents ==
    \A i \in DOMAIN Nodes : \A l, b \in Nat : Maps(extents[i], l, b) =>
        /\ NodeShares(i) => disk[b] = Nodes[i].data[l + 1]
        /\ ~NodeShares(i) /\ pc = "place" => disk[b] = Zero
        /\ ~NodeShares(i) /\ (pc = "done" \/ (pc = "write" /\ i < node))
               => disk[b] = Nodes[i].data[l + 1]

(* What nobody was given has not been written.                             *)
FreeIsBlank == pc = "place" => \A b \in 0..(total - 1) : b \notin used => disk[b] = Zero

(* What was placed is somewhere, but for the holes.                        *)
Covered ==
    \A i \in DOMAIN Nodes : TakesBlocks(Nodes[i]) =>
        \A l \in 0..(Upto(i) - 1) :
            \/ \E b \in Nat : Maps(extents[i], l, b)
            \/ NodeShares(i) /\ Nodes[i].data[l + 1] = Zero

(* The image has the groups the plan asked for, which growing only adds to.*)
Planned ==
    \E groups \in Nat \ {0} : /\ groups * BlocksPerGroup <= total
                              /\ Len(Nodes) + InodeMargin <= groups * InodesPerGroup

IInv ==
    /\ TypeOK
    /\ job \in Jobs /\ Planned
    /\ Working => Shape /\ Marked /\ Alone /\ Contents /\ FreeIsBlank /\ Covered
    /\ pc = "failed" => reason # "none"

-----------------------------------------------------------------------------
(* The relation that a list of extents is.                                 *)

(* An extent taken up at the end maps its blocks and nothing else.         *)
LEMMA RunMaps ==
    ASSUME NEW exts, NEW l \in Nat, NEW p \in Nat, NEW n \in Nat \ {0}, InOrder(exts, l)
    PROVE  /\ InOrder(Append(exts, <<l, p, n>>), l + n)
           /\ \A x, b \in Nat : Maps(Append(exts, <<l, p, n>>), x, b)
                  <=> \/ Maps(exts, x, b)
                      \/ l <= x /\ x < l + n /\ b = p + (x - l)
<1> DEFINE new == Append(exts, <<l, p, n>>)
           N == Len(exts)
<1>1. exts \in Seq(Extent) /\ N \in Nat /\ DOMAIN exts = 1..N
    BY DEF InOrder
<1>2. <<l, p, n>> \in Extent
    BY DEF Extent
<1>3. /\ new \in Seq(Extent) /\ Len(new) = N + 1 /\ DOMAIN new = 1..(N + 1)
      /\ \A j \in 1..N : new[j] = exts[j]
      /\ new[N + 1] = <<l, p, n>>
    BY <1>1, <1>2
<1> HIDE DEF new, N
<1>4. \A j \in 1..N : exts[j][1] \in Nat /\ exts[j][2] \in Nat /\ exts[j][3] \in Nat
    <2> TAKE j \in 1..N
    <2>1. exts[j] \in Extent
        BY <1>1
    <2> QED BY <2>1 DEF Extent
<1>5. /\ \A j \in 1..N : exts[j][3] >= 1 /\ exts[j][1] + exts[j][3] <= l
      /\ \A j, k \in 1..N : j < k => exts[j][1] + exts[j][3] <= exts[k][1]
    BY DEF InOrder, N
<1>6. new[N + 1][1] = l /\ new[N + 1][2] = p /\ new[N + 1][3] = n
    BY <1>3
<1>7. InOrder(new, l + n)
    <2>1. ASSUME NEW j \in 1..(N + 1)
          PROVE  new[j][3] >= 1 /\ new[j][1] + new[j][3] <= l + n
        <3>1. CASE j = N + 1
            BY <1>6, <3>1
        <3>2. CASE j \in 1..N
            BY <1>3, <1>4, <1>5, <3>2
        <3> QED BY <1>1, <3>1, <3>2
    <2>2. ASSUME NEW j \in 1..(N + 1), NEW k \in 1..(N + 1), j < k
          PROVE  new[j][1] + new[j][3] <= new[k][1]
        <3>1. j \in 1..N /\ new[j] = exts[j]
            BY <1>1, <1>3, <2>2
        <3>2. CASE k = N + 1
            BY <1>5, <1>6, <3>1, <3>2
        <3>3. CASE k \in 1..N
            BY <1>3, <1>5, <2>2, <3>1, <3>3
        <3> QED BY <1>1, <3>2, <3>3
    <2> QED BY <1>3, <2>1, <2>2 DEF InOrder
<1>8. ASSUME NEW x \in Nat, NEW b \in Nat
      PROVE  Maps(new, x, b) <=> Maps(exts, x, b) \/ (l <= x /\ x < l + n /\ b = p + (x - l))
    <2>1. Maps(new, x, b) <=> \E j \in 1..(N + 1) : /\ new[j][1] <= x /\ x < new[j][1] + new[j][3]
                                                     /\ b = new[j][2] + (x - new[j][1])
        BY <1>3 DEF Maps
    <2>2. Maps(exts, x, b) <=> \E j \in 1..N : /\ new[j][1] <= x /\ x < new[j][1] + new[j][3]
                                               /\ b = new[j][2] + (x - new[j][1])
        BY <1>1, <1>3 DEF Maps
    <2>3. 1..(N + 1) = 1..N \cup {N + 1}
        BY <1>1
    <2> QED BY <1>6, <2>1, <2>2, <2>3
<1> QED BY <1>7, <1>8 DEF new

(* Extents in order up to a block are in order up to any later one.        *)
LEMMA InOrderGrows ==
    ASSUME NEW exts, NEW a \in Nat, NEW b \in Nat, a <= b, InOrder(exts, a)
    PROVE  InOrder(exts, b)
<1>1. exts \in Seq(Extent)
    BY DEF InOrder
<1>2. ASSUME NEW j \in 1..Len(exts)
      PROVE  exts[j][3] >= 1 /\ exts[j][1] + exts[j][3] <= b
    <2>1. exts[j] \in Extent
        BY <1>1
    <2>2. exts[j][1] + exts[j][3] \in Nat
        BY <2>1 DEF Extent
    <2>3. exts[j][3] >= 1 /\ exts[j][1] + exts[j][3] <= a
        BY DEF InOrder
    <2> QED BY <2>2, <2>3
<1> QED BY <1>1, <1>2 DEF InOrder

(* So does a block, whether it is merged into the last extent or not.      *)
LEMMA BlockMaps ==
    ASSUME NEW exts, NEW l \in Nat, NEW p \in Nat, InOrder(exts, l)
    PROVE  /\ InOrder(WithBlock(exts, l, p), l + 1)
           /\ \A x, b \in Nat : Maps(WithBlock(exts, l, p), x, b)
                  <=> Maps(exts, x, b) \/ (x = l /\ b = p)
<1>1. CASE ~Continues(exts, l, p)
    <2>1. WithBlock(exts, l, p) = Append(exts, <<l, p, 1>>)
        BY <1>1 DEF WithBlock
    <2>2. \A x, b \in Nat : l <= x /\ x < l + 1 /\ b = p + (x - l) <=> x = l /\ b = p
        OBVIOUS
    <2> QED BY <2>1, <2>2, RunMaps
<1>2. CASE Continues(exts, l, p)
    <2> DEFINE N == Len(exts)
               new == [exts EXCEPT ![N][3] = @ + 1]
    <2>1. WithBlock(exts, l, p) = new
        BY <1>2 DEF WithBlock
    <2>2. exts \in Seq(Extent) /\ N \in Nat /\ DOMAIN exts = 1..N /\ exts # <<>>
        BY <1>2 DEF InOrder, Continues
    <2>3. N \in 1..N
        BY <2>2
    <2>4. \A j \in 1..N : exts[j][1] \in Nat /\ exts[j][2] \in Nat /\ exts[j][3] \in Nat
        <3> TAKE j \in 1..N
        <3>1. exts[j] \in Extent
            BY <2>2
        <3> QED BY <3>1 DEF Extent
    <2> DEFINE last == [exts[N] EXCEPT ![3] = @ + 1]
    <2>5. /\ last \in Extent
          /\ last[1] = exts[N][1] /\ last[2] = exts[N][2] /\ last[3] = exts[N][3] + 1
        <3>1. exts[N] \in [1..3 -> Nat]
            BY <2>2, <2>3 DEF Extent
        <3>2. exts[N][3] + 1 \in Nat
            BY <2>3, <2>4
        <3> QED BY <3>1, <3>2 DEF Extent
    <2>6. new = [exts EXCEPT ![N] = last]
        OBVIOUS
    <2> HIDE DEF last
    <2>7. /\ new \in Seq(Extent) /\ Len(new) = N /\ DOMAIN new = 1..N
          /\ \A j \in 1..N : j # N => new[j] = exts[j]
          /\ new[N] = last
        BY <2>2, <2>3, <2>5, <2>6
    <2> HIDE DEF new
    <2>8. /\ new[N][1] = exts[N][1] /\ new[N][2] = exts[N][2]
          /\ new[N][3] = exts[N][3] + 1
        BY <2>5, <2>7
    <2>9. /\ \A j \in 1..N : exts[j][3] >= 1 /\ exts[j][1] + exts[j][3] <= l
          /\ \A j, k \in 1..N : j < k => exts[j][1] + exts[j][3] <= exts[k][1]
        BY DEF InOrder
    <2>10. exts[N][1] + exts[N][3] = l /\ exts[N][2] + exts[N][3] = p
        BY <1>2 DEF Continues
    <2> HIDE DEF N
    <2>11. InOrder(new, l + 1)
        <3>1. ASSUME NEW j \in 1..N
              PROVE  new[j][3] >= 1 /\ new[j][1] + new[j][3] <= l + 1
            <4>1. CASE j = N
                BY <2>3, <2>4, <2>8, <2>9, <2>10, <4>1
            <4>2. CASE j # N
                <5>1. new[j] = exts[j]
                    BY <2>7, <4>2
                <5>2. exts[j][3] >= 1 /\ exts[j][1] + exts[j][3] <= l
                    BY <2>9
                <5>3. exts[j][1] \in Nat /\ exts[j][3] \in Nat
                    BY <2>4
                <5> QED BY <5>1, <5>2, <5>3
            <4> QED BY <4>1, <4>2
        <3>2. ASSUME NEW j \in 1..N, NEW k \in 1..N, j < k
              PROVE  new[j][1] + new[j][3] <= new[k][1]
            <4>1. j # N /\ new[j] = exts[j]
                BY <2>2, <2>7, <3>2
            <4>2. new[k][1] = exts[k][1]
                BY <2>7, <2>8
            <4> QED BY <2>9, <3>2, <4>1, <4>2
        <3> QED BY <2>7, <3>1, <3>2 DEF InOrder
    <2>12. ASSUME NEW x \in Nat, NEW b \in Nat
           PROVE  Maps(new, x, b) <=> Maps(exts, x, b) \/ (x = l /\ b = p)
        <3>1. ASSUME Maps(new, x, b)
              PROVE  Maps(exts, x, b) \/ (x = l /\ b = p)
            <4>1. PICK j \in 1..N : /\ new[j][1] <= x /\ x < new[j][1] + new[j][3]
                                    /\ b = new[j][2] + (x - new[j][1])
                BY <2>7, <3>1 DEF Maps
            <4>2. CASE j # N
                BY <2>2, <2>7, <4>1, <4>2 DEF Maps
            <4>3. CASE j = N /\ x < l
                <5>1. /\ exts[N][1] <= x /\ x < exts[N][1] + exts[N][3]
                      /\ b = exts[N][2] + (x - exts[N][1])
                    BY <2>8, <2>10, <4>1, <4>3
                <5> QED BY <2>2, <2>3, <5>1 DEF Maps
            <4>4. CASE j = N /\ ~(x < l)
                BY <2>3, <2>4, <2>8, <2>10, <4>1, <4>4
            <4> QED BY <4>2, <4>3, <4>4
        <3>2. ASSUME Maps(exts, x, b)
              PROVE  Maps(new, x, b)
            <4>1. PICK j \in 1..N : /\ exts[j][1] <= x /\ x < exts[j][1] + exts[j][3]
                                    /\ b = exts[j][2] + (x - exts[j][1])
                BY <2>2, <3>2 DEF Maps
            <4>2. /\ new[j][1] <= x /\ x < new[j][1] + new[j][3]
                  /\ b = new[j][2] + (x - new[j][1])
                <5>1. CASE j = N
                    BY <2>3, <2>4, <2>8, <4>1, <5>1
                <5>2. CASE j # N
                    <6>1. new[j] = exts[j]
                        BY <2>7, <5>2
                    <6> QED BY <4>1, <6>1
                <5> QED BY <5>1, <5>2
            <4> QED BY <2>7, <4>2 DEF Maps
        <3>3. ASSUME x = l, b = p
              PROVE  Maps(new, x, b)
            <4>1. /\ new[N][1] <= x /\ x < new[N][1] + new[N][3]
                  /\ b = new[N][2] + (x - new[N][1])
                BY <2>3, <2>4, <2>8, <2>9, <2>10, <3>3
            <4> QED BY <2>3, <2>7, <4>1 DEF Maps
        <3> QED BY <3>1, <3>2, <3>3
    <2> QED BY <2>1, <2>11, <2>12
<1> QED BY <1>1, <1>2

-----------------------------------------------------------------------------
(* Groups and the allocator.                                               *)

LEMMA JobFacts ==
    ASSUME job \in Jobs
    PROVE  /\ Nodes \in Seq(Node) /\ Len(Nodes) \in Nat /\ DOMAIN Nodes = 1..Len(Nodes)
           /\ \A i \in DOMAIN Nodes : Len(Nodes[i].data) \in Nat
           /\ job.shared \in BOOLEAN /\ job.compact \in BOOLEAN
           /\ job.reserve \in Nat /\ job.inputBlocks \in Nat
<1>1. /\ Nodes \in Seq(Node) /\ job.shared \in BOOLEAN /\ job.compact \in BOOLEAN
      /\ job.reserve \in Nat /\ job.inputBlocks \in Nat
    BY JobsAssumption DEF Nodes
<1>2. Len(Nodes) \in Nat /\ DOMAIN Nodes = 1..Len(Nodes)
    BY <1>1
<1>3. ASSUME NEW i \in DOMAIN Nodes PROVE Len(Nodes[i].data) \in Nat
    <2>1. Nodes[i] \in Node
        BY <1>1, <1>2
    <2>2. Nodes[i].data \in Seq({Zero} \cup DOMAIN Hash)
        BY <2>1 DEF Node
    <2> QED BY <2>2
<1> QED BY <1>1, <1>2, <1>3

(* Every group of the image starts with metadata.                          *)
LEMMA GroupsStartWithMetadata ==
    ASSUME total \in Nat
    PROVE  /\ Groups \in Nat /\ total <= Groups * BlocksPerGroup
           /\ \A g \in Nat : g * BlocksPerGroup < total => g * BlocksPerGroup \in Metadata
<1>1. Groups \in Nat /\ total <= Groups * BlocksPerGroup
    BY CeilRoundsUp, GeometryAssumption DEF Groups
<1>2. MetaBlocks(Groups) \in Nat \ {0}
    BY <1>1, MetadataTakesBlocks
<1>3. ASSUME NEW g \in Nat, g * BlocksPerGroup < total
      PROVE  g * BlocksPerGroup \in Metadata
    <2> DEFINE start == g * BlocksPerGroup
    <2>1. g < Groups
        <3> SUFFICES ASSUME Groups <= g PROVE FALSE
            BY <1>1
        <3>1. Groups * BlocksPerGroup <= start /\ Groups * BlocksPerGroup \in Nat
            BY <1>1, ProductsGrow, GeometryAssumption
        <3>2. start \in Nat
            BY GeometryAssumption
        <3> HIDE DEF start
        <3> QED BY <1>1, <1>3, <3>1, <3>2 DEF start
    <2>2. g \in 0..(Groups - 1)
        BY <1>1, <2>1
    <2>3. start \in Nat
        BY GeometryAssumption
    <2> HIDE DEF start
    <2>4. start \in start..(start + MetaBlocks(Groups) - 1)
        BY <1>2, <2>3
    <2>5. start \in MetaOf(g)
        BY <2>4 DEF MetaOf, start
    <2> QED BY <2>2, <2>5 DEF Metadata, start
<1> QED BY <1>1, <1>3

(* So an extent that takes no metadata ends within its group.              *)
LEMMA ExtentsEndInTheirGroup ==
    ASSUME total \in Nat, NEW p \in Nat, NEW n \in Nat \ {0},
           \A b \in p..(p + n - 1) : b < total /\ b \notin Metadata
    PROVE  n \in 1..BlocksPerGroup
<1> SUFFICES ASSUME BlocksPerGroup < n PROVE FALSE
    BY GeometryAssumption
<1> DEFINE g == Ceil(p, BlocksPerGroup)
           start == g * BlocksPerGroup
<1>1. g \in Nat /\ p <= start /\ (g - 1) * BlocksPerGroup < p
    BY CeilRoundsUp, GeometryAssumption
<1>2. BlocksPerGroup \in Nat
    BY GeometryAssumption
<1> HIDE DEF g
<1>3. (g - 1) * BlocksPerGroup = start - BlocksPerGroup /\ start \in Nat
    BY <1>1, <1>2
<1>4. start < total => start \in Metadata
    BY <1>1, GroupsStartWithMetadata
<1> HIDE DEF start
<1>5. start \in p..(p + n - 1)
    BY <1>1, <1>2, <1>3
<1> QED BY <1>4, <1>5

(* The allocator gives a block that is free.                               *)
LEMMA FirstFreeIsFree ==
    ASSUME TypeOK, Free # {}
    PROVE  FirstFree \in next..(total - 1) /\ FirstFree \notin used /\ FirstFree \in Nat
<1>0. next \in Nat /\ total \in Nat
    BY DEF TypeOK
<1>1. Free \subseteq Nat
    BY <1>0 DEF Free, FreeFrom
<1>2. FirstFree \in Free
    BY <1>1, MinIsLeast DEF FirstFree
<1> QED BY <1>0, <1>1, <1>2 DEF Free, FreeFrom

(* And a run of free blocks no longer than an extent may be.               *)
LEMMA RunsAreFree ==
    ASSUME TypeOK, Free # {}, NEW wanted \in Nat \ {0}
    PROVE  LET n == RunLength(FirstFree, wanted)
           IN  /\ n \in 1..wanted /\ n <= MaxExtentLen
               /\ \A x \in FirstFree..(FirstFree + n - 1) : x < total /\ x \notin used
<1> DEFINE most == Min({wanted, MaxExtentLen})
           runs == {n \in 1..most : \A x \in FirstFree..(FirstFree + n - 1) :
                                        x < total /\ x \notin used}
<1>1. FirstFree \in Nat /\ FirstFree < total /\ FirstFree \notin used
    <2>1. next \in Nat /\ total \in Nat
        BY DEF TypeOK
    <2> QED BY <2>1, FirstFreeIsFree
<1>2. most \in Nat \ {0} /\ most <= wanted /\ most <= MaxExtentLen
    <2>1. most \in {wanted, MaxExtentLen} /\ \A y \in {wanted, MaxExtentLen} : most <= y
        BY MinIsLeast, FanoutAssumption
    <2> QED BY <2>1, FanoutAssumption
<1> HIDE DEF most
<1>3. runs \subseteq 0..most /\ 1 \in runs
    BY <1>1, <1>2
<1>4. Max(runs) \in runs
    BY <1>2, <1>3, MaxIsGreatest
<1>5. RunLength(FirstFree, wanted) = Max(runs)
    BY DEF RunLength, most
<1> DEFINE n == RunLength(FirstFree, wanted)
<1>6. n \in runs
    BY <1>4, <1>5
<1> HIDE DEF n
<1>7. n \in 1..most /\ \A x \in FirstFree..(FirstFree + n - 1) : x < total /\ x \notin used
    BY <1>6
<1>8. n \in 1..wanted /\ n <= MaxExtentLen
    BY <1>2, <1>7, FanoutAssumption
<1> QED BY <1>7, <1>8 DEF n

-----------------------------------------------------------------------------
(* A step that gives the node's next n blocks the blocks p, p + 1, ... of  *)
(* the image: fresh ones, or one that holds the same content already.      *)
Given(n, p) == p..(p + n - 1)

Places(n, p) ==
    /\ logical' = logical + n /\ logical + n <= Len(Nodes[node].data)
    /\ UNCHANGED <<job, pc, total, node, trees>>
    /\ DOMAIN extents' = DOMAIN extents
    /\ \A i \in DOMAIN extents : i # node => extents'[i] = extents[i]
    /\ InOrder(extents'[node], logical + n)
    /\ \A l, b \in Nat : Maps(extents'[node], l, b)
           <=> \/ Maps(extents[node], l, b)
               \/ logical <= l /\ l < logical + n /\ b = p + (l - logical)
    /\ used' = used \cup Given(n, p)
    /\ \A b \in Given(n, p) : b < total /\ b \notin Metadata
    /\ DOMAIN disk' = DOMAIN disk
    /\ \A b \in DOMAIN disk : b \notin Given(n, p) => disk'[b] = disk[b]
    /\ \A b \in Given(n, p) : disk'[b] = IF NodeShares(node)
                                         THEN Nodes[node].data[logical + (b - p) + 1]
                                         ELSE Zero
    /\ \/ \A b \in Given(n, p) : b \notin used
       \/ NodeShares(node) /\ n = 1 /\ disk[p] # Zero /\ disk' = disk

(* Whatever is placed, the invariant survives.                             *)
LEMMA PlacesKeeps ==
    ASSUME IInv, pc = "place", node \in DOMAIN Nodes, NEW n \in Nat \ {0}, NEW p \in Nat,
           Places(n, p)
    PROVE  Shape' /\ Marked' /\ Alone' /\ Contents' /\ FreeIsBlank' /\ Covered'
<1> DEFINE run == Given(n, p)
           Fresh(l, b) == logical <= l /\ l < logical + n /\ b = p + (l - logical)
<1>1. /\ total \in Nat /\ logical \in Nat /\ used \subseteq 0..(total - 1)
      /\ Len(Nodes) \in Nat /\ DOMAIN Nodes = 1..Len(Nodes) /\ node \in Nat
      /\ \A i \in DOMAIN Nodes : Len(Nodes[i].data) \in Nat
    BY JobFacts DEF IInv, TypeOK
<1>2. Shape /\ Marked /\ Alone /\ Contents /\ FreeIsBlank /\ Covered
    BY DEF IInv, Working
<1>3. /\ job' = job /\ pc' = "place" /\ total' = total /\ node' = node /\ trees' = trees
      /\ logical' = logical + n /\ logical + n <= Len(Nodes[node].data)
      /\ Nodes' = Nodes /\ Metadata' = Metadata /\ TreeBlocks' = TreeBlocks
      /\ \A i : NodeShares(i)' = NodeShares(i)
    BY DEF Places, Nodes, Metadata, MetaOf, Groups, TreeBlocks, NodeShares
<1>4. /\ DOMAIN extents = DOMAIN Nodes /\ DOMAIN extents' = DOMAIN Nodes
      /\ TreeBlocks = {}
    BY <1>2 DEF Shape, Places, TreeBlocks
<1>5. /\ used' = used \cup run
      /\ \A b \in run : b \in 0..(total - 1) /\ b \notin Metadata
      /\ DOMAIN disk = 0..(total - 1) /\ DOMAIN disk' = 0..(total - 1)
      /\ \A b \in 0..(total - 1) : b \notin run => disk'[b] = disk[b]
    BY <1>1, <1>2 DEF Places, Shape, Given
<1>6. \A i \in DOMAIN Nodes : \A l, b \in Nat :
          Maps(extents'[i], l, b) <=> Maps(extents[i], l, b) \/ (i = node /\ Fresh(l, b))
    BY <1>4 DEF Places
<1>7. \A l, b \in Nat : Fresh(l, b) => b \in run /\ l = logical + (b - p)
    BY <1>1 DEF Given
<1>8. \A b \in run : b \in Nat /\ logical + (b - p) \in Nat /\ Fresh(logical + (b - p), b)
    BY <1>1 DEF Given
<1>9. \A i \in DOMAIN Nodes : \A l, b \in Nat :
          Maps(extents[i], l, b) => b \in used /\ b \in 0..(total - 1)
    BY <1>1, <1>2 DEF Marked
<1>10. ASSUME NEW i \in DOMAIN Nodes, NEW l \in Nat, NEW b \in Nat,
              Maps(extents[i], l, b), b \in run
       PROVE  NodeShares(i) /\ NodeShares(node) /\ disk' = disk
    <2>1. b \in used
        BY <1>9, <1>10
    <2>2. NodeShares(node) /\ n = 1 /\ disk[p] # Zero /\ disk' = disk
        BY <1>10, <2>1 DEF Places
    <2>3. b = p
        BY <1>10, <2>2 DEF Given
    <2>4. ~NodeShares(i) => disk[b] = Zero
        BY <1>2, <1>10 DEF Contents
    <2> QED BY <2>2, <2>3, <2>4
<1>11. \A b \in run : disk'[b] = IF NodeShares(node)
                                 THEN Nodes[node].data[logical + (b - p) + 1] ELSE Zero
    BY DEF Places
<1> HIDE DEF run, Fresh
<1>12. Shape'
    <2>1. ASSUME NEW i \in DOMAIN Nodes PROVE InOrder(extents'[i], Upto(i)')
        <3>1. CASE i = node
            <4>1. Upto(i)' = logical + n
                BY <1>1, <1>3, <3>1 DEF Upto
            <4> QED BY <3>1, <4>1 DEF Places
        <3>2. CASE i # node
            <4>1. Upto(i)' = Upto(i)
                BY <1>3, <3>2 DEF Upto
            <4>2. extents'[i] = extents[i]
                BY <1>4, <3>2 DEF Places
            <4> QED BY <1>2, <4>1, <4>2 DEF Shape
        <3> QED BY <3>1, <3>2
    <2> QED BY <1>2, <1>3, <1>4, <1>5, <2>1 DEF Shape
<1>13. Marked'
    <2>1. \A i \in DOMAIN Nodes : \A l, b \in Nat : Maps(extents'[i], l, b) =>
              b \in used' /\ b \notin Metadata /\ b \notin TreeBlocks
        <3> SUFFICES ASSUME NEW i \in DOMAIN Nodes, NEW l \in Nat, NEW b \in Nat,
                            Maps(extents'[i], l, b)
                     PROVE  b \in used' /\ b \notin Metadata
            BY <1>4
        <3>1. CASE Maps(extents[i], l, b)
            BY <1>2, <1>5, <3>1 DEF Marked
        <3>2. CASE Fresh(l, b)
            BY <1>5, <1>7, <3>2
        <3> QED BY <1>6, <3>1, <3>2
    <2>2. \A b \in used' : \/ b \in Metadata \/ b \in TreeBlocks
                           \/ \E i \in DOMAIN Nodes : \E l \in Nat : Maps(extents'[i], l, b)
        <3> TAKE b \in used'
        <3>1. CASE b \in used
            <4>1. b \in Nat
                BY <1>1, <3>1
            <4>2. \/ b \in Metadata \/ b \in TreeBlocks
                  \/ \E i \in DOMAIN Nodes : \E l \in Nat : Maps(extents[i], l, b)
                BY <1>2, <3>1 DEF Marked
            <4> QED BY <1>6, <4>1, <4>2
        <3>2. CASE b \in run
            BY <1>6, <1>8, <3>2
        <3> QED BY <1>5, <3>1, <3>2
    <2>3. Metadata \subseteq used' /\ TreeBlocks \subseteq used'
          /\ TreeBlocks \cap Metadata = {}
        BY <1>2, <1>4, <1>5 DEF Marked
    <2> QED BY <1>3, <2>1, <2>2, <2>3 DEF Marked
<1>14. Alone'
    <2> SUFFICES ASSUME NEW i \in DOMAIN Nodes, NEW k \in DOMAIN Nodes,
                        NEW l \in Nat, NEW m \in Nat, NEW b \in Nat,
                        ~NodeShares(i), Maps(extents'[i], l, b), Maps(extents'[k], m, b)
                 PROVE  i = k /\ l = m
        BY <1>3 DEF Alone
    <2>1. CASE Maps(extents[i], l, b) /\ Maps(extents[k], m, b)
        BY <1>2, <2>1 DEF Alone
    <2>2. CASE Maps(extents[i], l, b) /\ k = node /\ Fresh(m, b)
        BY <1>7, <1>10, <2>2
    <2>3. CASE i = node /\ Fresh(l, b) /\ Maps(extents[k], m, b)
        BY <1>7, <1>10, <2>3
    <2>4. CASE i = node /\ Fresh(l, b) /\ k = node /\ Fresh(m, b)
        BY <1>7, <2>4
    <2> QED BY <1>6, <2>1, <2>2, <2>3, <2>4
<1>15. Contents'
    <2> SUFFICES ASSUME NEW i \in DOMAIN Nodes, NEW l \in Nat, NEW b \in Nat,
                        Maps(extents'[i], l, b)
                 PROVE  disk'[b] = IF NodeShares(i) THEN Nodes[i].data[l + 1] ELSE Zero
        BY <1>3 DEF Contents
    <2>1. CASE Maps(extents[i], l, b)
        <3>1. disk[b] = IF NodeShares(i) THEN Nodes[i].data[l + 1] ELSE Zero
            BY <1>2, <2>1 DEF Contents
        <3>2. disk'[b] = disk[b]
            BY <1>5, <1>9, <1>10, <2>1
        <3> QED BY <3>1, <3>2
    <2>2. CASE i = node /\ Fresh(l, b)
        BY <1>7, <1>11, <2>2
    <2> QED BY <1>6, <2>1, <2>2
<1>16. FreeIsBlank'
    BY <1>2, <1>3, <1>5 DEF FreeIsBlank
<1>17. Covered'
    <2> SUFFICES ASSUME NEW i \in DOMAIN Nodes, TakesBlocks(Nodes[i]),
                        NEW l \in 0..(Upto(i)' - 1)
                 PROVE  \/ \E b \in Nat : Maps(extents'[i], l, b)
                        \/ NodeShares(i) /\ Nodes[i].data[l + 1] = Zero
        BY <1>3 DEF Covered
    <2>1. CASE i # node \/ l < logical
        <3>1. l \in 0..(Upto(i) - 1)
            BY <1>1, <1>3, <2>1 DEF Upto
        <3> QED BY <1>2, <1>6, <3>1 DEF Covered
    <2>2. CASE i = node /\ ~(l < logical)
        <3>1. Upto(i)' = logical + n
            BY <1>1, <1>3, <2>2 DEF Upto
        <3>2. l \in Nat /\ p + (l - logical) \in Nat /\ Fresh(l, p + (l - logical))
            BY <1>1, <2>2, <3>1 DEF Fresh
        <3> QED BY <1>6, <2>2, <3>2
    <2> QED BY <2>1, <2>2
<1> QED BY <1>12, <1>13, <1>14, <1>15, <1>16, <1>17

(* Extents that keep off the metadata are no longer than a group.          *)
LEMMA ExtentsAreShort ==
    ASSUME total \in Nat, NEW exts, NEW upto \in Nat, InOrder(exts, upto),
           \A l, b \in Nat : Maps(exts, l, b) => b < total /\ b \notin Metadata
    PROVE  \A j \in DOMAIN exts : exts[j][3] \in 1..BlocksPerGroup
<1> SUFFICES ASSUME NEW j \in DOMAIN exts PROVE exts[j][3] \in 1..BlocksPerGroup
    OBVIOUS
<1> DEFINE l == exts[j][1]
           p == exts[j][2]
           n == exts[j][3]
<1>1. exts \in Seq(Extent) /\ j \in 1..Len(exts) /\ n >= 1
    BY DEF InOrder
<1>2. exts[j] \in Extent
    BY <1>1
<1>3. l \in Nat /\ p \in Nat /\ n \in Nat \ {0}
    BY <1>1, <1>2 DEF Extent
<1>4. ASSUME NEW b \in p..(p + n - 1) PROVE b < total /\ b \notin Metadata
    <2>1. b \in Nat /\ l + (b - p) \in Nat
        BY <1>3
    <2>2. l <= l + (b - p) /\ l + (b - p) < l + n /\ b = p + ((l + (b - p)) - l)
        BY <1>3
    <2>3. Maps(exts, l + (b - p), b)
        BY <2>2 DEF Maps
    <2> QED BY <2>1, <2>3
<1> HIDE DEF n, p, l
<1>5. n \in 1..BlocksPerGroup
    BY <1>3, <1>4, ExtentsEndInTheirGroup
<1> QED BY <1>5 DEF n

(* A placing step that keeps to the limit of an extent keeps the types.    *)
LEMMA PlacesTypes ==
    ASSUME IInv, pc = "place", node \in DOMAIN Nodes, NEW n \in Nat \ {0}, NEW p \in Nat,
           Places(n, p), next' \in 0..total, UNCHANGED <<reason, attempt>>,
           ~NodeShares(node) =>
               \A j \in DOMAIN extents'[node] : extents'[node][j][3] <= MaxExtentLen
    PROVE  IInv'
<1>1. Shape' /\ Marked' /\ Alone' /\ Contents' /\ FreeIsBlank' /\ Covered'
    BY PlacesKeeps
<1>2. /\ total \in Nat /\ logical \in Nat /\ used \subseteq 0..(total - 1)
      /\ DOMAIN Nodes = 1..Len(Nodes) /\ Len(Nodes) \in Nat
    BY JobFacts DEF IInv, TypeOK
<1>3. /\ job' = job /\ pc' = "place" /\ total' = total /\ node' = node
      /\ logical' = logical + n /\ Nodes' = Nodes /\ Metadata' = Metadata
      /\ \A i : NodeShares(i)' = NodeShares(i)
    BY DEF Places, Nodes, Metadata, MetaOf, Groups, NodeShares
<1>4. DOMAIN extents = DOMAIN Nodes /\ DOMAIN extents' = DOMAIN Nodes
    BY DEF IInv, Working, Shape, Places
<1>5. used' \subseteq 0..(total - 1)
    <2>1. \A b \in Given(n, p) : b \in Nat /\ b < total
        BY DEF Places, Given
    <2>2. used' = used \cup Given(n, p)
        BY DEF Places
    <2>3. \A b \in used' : b \in 0..(total - 1)
        <3> TAKE b \in used'
        <3>1. CASE b \in used
            BY <1>2, <3>1
        <3>2. CASE b \in Given(n, p)
            BY <1>2, <2>1, <3>2
        <3> QED BY <2>2, <3>1, <3>2
    <2> QED BY <2>3
<1>6. \A j \in DOMAIN extents'[node] : extents'[node][j][3] \in 1..BlocksPerGroup
    <2>1. InOrder(extents'[node], logical + n) /\ logical + n \in Nat
        BY <1>2 DEF Places
    <2>2. \A l, b \in Nat : Maps(extents'[node], l, b) => b \in used' /\ b \notin Metadata
        BY <1>1, <1>3 DEF Marked
    <2>3. \A l, b \in Nat : Maps(extents'[node], l, b) => b < total /\ b \notin Metadata
        BY <1>2, <1>5, <2>2
    <2> QED BY <1>2, <2>1, <2>3, ExtentsAreShort
<1>7. \A i \in DOMAIN extents' : \A j \in DOMAIN extents'[i] :
          /\ extents'[i][j][3] \in 1..BlocksPerGroup
          /\ ~NodeShares(i) => extents'[i][j][3] <= MaxExtentLen
    <2> TAKE i \in DOMAIN extents'
    <2>1. CASE i = node
        BY <1>6, <2>1
    <2>2. CASE i # node
        <3>1. extents'[i] = extents[i] /\ i \in DOMAIN extents
            BY <1>4, <2>2 DEF Places
        <3> QED BY <3>1 DEF IInv, TypeOK, NodeShares
    <2> QED BY <2>1, <2>2
<1>8. TypeOK'
    <2>1. /\ pc' = pc /\ reason' = reason /\ attempt' = attempt /\ total' = total
          /\ next' \in 0..total' /\ node' = node /\ logical' \in Nat /\ Nodes' = Nodes
        BY <1>2, <1>3
    <2>2. \A i \in DOMAIN extents' : \A j \in DOMAIN extents'[i] :
              /\ extents'[i][j][3] \in 1..BlocksPerGroup
              /\ ~Shares(job'.shared, Nodes'[i]) => extents'[i][j][3] <= MaxExtentLen
        BY <1>3, <1>7 DEF NodeShares
    <2> QED BY <1>3, <1>5, <2>1, <2>2 DEF IInv, TypeOK
<1>9. job' \in Jobs /\ Planned'
    BY <1>3 DEF IInv, Planned
<1> QED BY <1>1, <1>3, <1>8, <1>9 DEF IInv

-----------------------------------------------------------------------------
(* The steps that place a node's blocks.                                   *)

(* Facts that every placing step needs.                                    *)
LEMMA PlacingFacts ==
    ASSUME IInv, Placing, NodeHasMore
    PROVE  /\ pc = "place" /\ node \in DOMAIN Nodes /\ TakesBlocks(Nodes[node])
           /\ total \in Nat /\ next \in 0..total /\ logical \in Nat
           /\ used \subseteq 0..(total - 1)
           /\ Shape /\ Marked /\ Contents /\ FreeIsBlank
           /\ DOMAIN extents = DOMAIN Nodes /\ node \in DOMAIN extents
           /\ InOrder(extents[node], logical)
           /\ Len(Nodes[node].data) \in Nat /\ logical < Len(Nodes[node].data)
<1>1. /\ total \in Nat /\ next \in 0..total /\ logical \in Nat
      /\ used \subseteq 0..(total - 1) /\ node \in 1..(Len(Nodes) + 1)
      /\ DOMAIN Nodes = 1..Len(Nodes) /\ Len(Nodes) \in Nat
      /\ \A i \in DOMAIN Nodes : Len(Nodes[i].data) \in Nat
    BY JobFacts DEF IInv, TypeOK
<1>2. pc = "place" /\ node <= Len(Nodes) /\ logical < Len(Nodes[node].data)
      /\ TakesBlocks(Nodes[node])
    BY DEF Placing, NodeHasMore
<1>3. node \in DOMAIN Nodes
    BY <1>1, <1>2
<1>4. Shape /\ Marked /\ Contents /\ FreeIsBlank
    BY <1>2 DEF IInv, Working
<1>5. Upto(node) = logical
    BY <1>1, <1>2 DEF Upto
<1>6. DOMAIN extents = DOMAIN Nodes /\ InOrder(extents[node], logical)
    BY <1>3, <1>4, <1>5 DEF Shape
<1> QED BY <1>1, <1>2, <1>3, <1>4, <1>6

(* A step that ends a round leaves the last one's extents where they are.  *)
LEMMA FailKeeps ==
    ASSUME IInv, NEW why \in {"no_free", "no_room", "too_deep"}, Fail(why)
    PROVE  IInv'
<1>1. pc' = "failed" /\ reason' = why
      /\ UNCHANGED <<job, total, attempt, used, next, node, logical, extents, trees, disk>>
    BY DEF Fail
<1>2. TypeOK'
    BY <1>1 DEF IInv, TypeOK, Nodes
<1>3. job' \in Jobs /\ Planned'
    BY <1>1 DEF IInv, Planned, Nodes
<1>4. ~Working' /\ reason' # "none"
    BY <1>1 DEF Working
<1> QED BY <1>2, <1>3, <1>4 DEF IInv

(* A hole maps no block, and reads as the zeros it stands for.              *)
LEMMA SkipHoleKeeps ==
    ASSUME IInv, SkipHole
    PROVE  IInv'
<1>1. /\ Placing /\ NodeHasMore /\ NodeShares(node) /\ Content = Zero
      /\ logical' = logical + 1
      /\ UNCHANGED <<job, pc, reason, total, attempt, node, trees, used, next, extents, disk>>
    BY DEF SkipHole, Advance, NodeShares
<1>2. /\ pc = "place" /\ node \in DOMAIN Nodes /\ logical \in Nat
      /\ InOrder(extents[node], logical) /\ Shape
      /\ Len(Nodes[node].data) \in Nat /\ logical < Len(Nodes[node].data)
    BY <1>1, PlacingFacts
<1>3. Nodes' = Nodes /\ Metadata' = Metadata /\ TreeBlocks' = TreeBlocks
      /\ \A i : NodeShares(i)' = NodeShares(i)
    BY <1>1 DEF Nodes, Metadata, MetaOf, Groups, TreeBlocks, NodeShares
<1>4. node \in Nat /\ DOMAIN Nodes = 1..Len(Nodes) /\ Len(Nodes) \in Nat
    BY <1>2, JobFacts DEF IInv
<1>5. \A i \in DOMAIN Nodes : Upto(i)' = IF i = node THEN logical + 1 ELSE Upto(i)
    BY <1>1, <1>2, <1>3, <1>4 DEF Upto
<1>6. TypeOK'
    BY <1>1, <1>2 DEF IInv, TypeOK, Nodes
<1>7. Shape'
    <2>1. InOrder(extents[node], logical + 1)
        BY <1>2, InOrderGrows
    <2>2. ASSUME NEW i \in DOMAIN Nodes
          PROVE  InOrder(extents[i], Upto(i)') /\ trees[i] \in Seq(Nat)
        BY <1>2, <1>5, <2>1 DEF Shape
    <2>3. logical + 1 <= Len(Nodes[node].data)
        BY <1>2
    <2> QED BY <1>1, <1>2, <1>3, <2>2, <2>3 DEF Shape
<1>8. Marked' /\ Alone' /\ Contents' /\ FreeIsBlank'
    <2>1. Marked /\ Alone /\ Contents /\ FreeIsBlank
        BY <1>2 DEF IInv, Working
    <2>2. Marked'
        BY <1>1, <1>3, <2>1 DEF Marked
    <2>3. Alone'
        BY <1>1, <1>3, <2>1 DEF Alone
    <2>4. Contents'
        BY <1>1, <1>3, <2>1 DEF Contents
    <2>5. FreeIsBlank'
        BY <1>1, <2>1 DEF FreeIsBlank
    <2> QED BY <2>2, <2>3, <2>4, <2>5
<1>9. Covered'
    <2> SUFFICES ASSUME NEW i \in DOMAIN Nodes, TakesBlocks(Nodes[i]),
                        NEW l \in 0..(Upto(i)' - 1)
                 PROVE  \/ \E b \in Nat : Maps(extents[i], l, b)
                        \/ NodeShares(i) /\ Nodes[i].data[l + 1] = Zero
        BY <1>1, <1>3 DEF Covered
    <2>1. CASE i = node /\ l = logical
        BY <1>1, <2>1 DEF Content
    <2>2. CASE ~(i = node /\ l = logical)
        <3>1. l \in 0..(Upto(i) - 1)
            <4>1. CASE i = node
                <5>1. Upto(i)' = logical + 1 /\ Upto(i) = logical
                    BY <1>2, <1>4, <1>5, <4>1 DEF Upto
                <5> QED BY <1>2, <2>2, <4>1, <5>1
            <4>2. CASE i # node
                BY <1>5, <4>2
            <4> QED BY <4>1, <4>2
        <3> QED BY <1>2, <3>1 DEF IInv, Working, Covered
    <2> QED BY <2>1, <2>2
<1>10. job' \in Jobs /\ Planned' /\ pc' = "place"
    BY <1>1, <1>2, <1>3 DEF IInv, Planned
<1> QED BY <1>6, <1>7, <1>8, <1>9, <1>10 DEF IInv

(* One block more, merged or not, is a placing step.                       *)
LEMMA ExtendsByABlock ==
    ASSUME IInv, Placing, NodeHasMore, NEW p \in Nat,
           extents' = [extents EXCEPT ![node] = WithBlock(@, logical, p)]
    PROVE  /\ DOMAIN extents' = DOMAIN extents
           /\ \A i \in DOMAIN extents : i # node => extents'[i] = extents[i]
           /\ InOrder(extents'[node], logical + 1)
           /\ \A l, b \in Nat : Maps(extents'[node], l, b)
                  <=> \/ Maps(extents[node], l, b)
                      \/ logical <= l /\ l < logical + 1 /\ b = p + (l - logical)
<1>1. logical \in Nat /\ node \in DOMAIN extents /\ InOrder(extents[node], logical)
    BY PlacingFacts
<1>2. extents'[node] = WithBlock(extents[node], logical, p)
    BY <1>1
<1>3. InOrder(extents'[node], logical + 1)
    BY <1>1, <1>2, BlockMaps
<1>4. \A l, b \in Nat : Maps(extents'[node], l, b)
          <=> Maps(extents[node], l, b) \/ (l = logical /\ b = p)
    BY <1>1, <1>2, BlockMaps
<1>5. \A l, b \in Nat : l = logical /\ b = p
          <=> logical <= l /\ l < logical + 1 /\ b = p + (l - logical)
    BY <1>1
<1>6. DOMAIN extents' = DOMAIN extents /\ \A i \in DOMAIN extents : i # node => extents'[i] = extents[i]
    OBVIOUS
<1> QED BY <1>3, <1>4, <1>5, <1>6

(* A shared block maps a block of the same content that another sharing     *)
(* file owns already.                                                      *)
LEMMA ShareBlockKeeps ==
    ASSUME IInv, ShareBlock
    PROVE  IInv'
<1> DEFINE p == Min(Twins)
<1>1. /\ Placing /\ NodeHasMore /\ NodeShares(node) /\ ~Hole /\ ~AtLimit /\ Twins # {}
      /\ extents' = [extents EXCEPT ![node] = WithBlock(@, logical, p)]
      /\ logical' = logical + 1
      /\ UNCHANGED <<job, pc, reason, total, attempt, node, trees, used, next, disk>>
    BY DEF ShareBlock, Advance, NodeShares
<1>2. /\ pc = "place" /\ node \in DOMAIN Nodes /\ total \in Nat /\ next \in 0..total
      /\ logical \in Nat /\ used \subseteq 0..(total - 1)
      /\ Len(Nodes[node].data) \in Nat /\ logical < Len(Nodes[node].data)
    BY <1>1, PlacingFacts
<1>3. Twins \subseteq Nat
    <2>1. Twins \subseteq used
        BY DEF Twins
    <2>2. 0..(total - 1) \subseteq Nat
        OBVIOUS
    <2> QED BY <1>2, <2>1, <2>2
<1>4. p \in Twins
    BY <1>1, <1>3, MinIsLeast
<1> HIDE DEF p
<1>5. p \in Nat /\ p \in used /\ p < total /\ p \notin Metadata /\ disk[p] = Content
    <2>1. p \in used /\ p \notin Metadata /\ disk[p] = Content
        BY <1>4 DEF Twins
    <2>2. p \in 0..(total - 1)
        BY <1>2, <2>1
    <2> QED BY <1>2, <2>1, <2>2
<1>6. disk[p] # Zero
    BY <1>1, <1>5 DEF Hole
<1>7. Given(1, p) = {p}
    BY <1>5 DEF Given
<1>8. /\ DOMAIN extents' = DOMAIN extents
      /\ \A i \in DOMAIN extents : i # node => extents'[i] = extents[i]
      /\ InOrder(extents'[node], logical + 1)
      /\ \A l, b \in Nat : Maps(extents'[node], l, b)
             <=> \/ Maps(extents[node], l, b)
                 \/ logical <= l /\ l < logical + 1 /\ b = p + (l - logical)
    BY <1>1, <1>5, ExtendsByABlock
<1>9. Content = Nodes[node].data[logical + (p - p) + 1]
    BY <1>2, <1>5 DEF Content
<1>10. logical + 1 <= Len(Nodes[node].data)
    BY <1>2
<1>11. Places(1, p)
    BY <1>1, <1>5, <1>6, <1>7, <1>8, <1>9, <1>10 DEF Places
<1> QED BY <1>1, <1>2, <1>5, <1>11, PlacesTypes

(* A file that shares takes the first free block for one of its own.        *)
LEMMA PlaceSharedKeeps ==
    ASSUME IInv, PlaceShared
    PROVE  IInv'
<1>1. CASE Free = {}
    <2>1. Fail("no_free")
        BY <1>1 DEF PlaceShared
    <2> QED BY <2>1, FailKeeps
<1>2. CASE Free # {}
    <2> DEFINE p == FirstFree
    <2>1. /\ Placing /\ NodeHasMore /\ NodeShares(node)
          /\ used' = used \cup {p} /\ next' = p + 1
          /\ disk' = [disk EXCEPT ![p] = Content]
          /\ extents' = [extents EXCEPT ![node] = WithBlock(@, logical, p)]
          /\ logical' = logical + 1
          /\ UNCHANGED <<job, pc, reason, total, attempt, node, trees>>
        BY <1>2 DEF PlaceShared, Give, Advance, NodeShares
    <2>2. /\ pc = "place" /\ node \in DOMAIN Nodes /\ total \in Nat /\ next \in 0..total
          /\ logical \in Nat /\ used \subseteq 0..(total - 1) /\ Marked /\ Shape
          /\ Len(Nodes[node].data) \in Nat /\ logical < Len(Nodes[node].data)
        BY <2>1, PlacingFacts
    <2>3. p \in next..(total - 1) /\ p \notin used /\ p \in Nat
        BY <1>2, FirstFreeIsFree DEF IInv
    <2> HIDE DEF p
    <2>4. p \notin Metadata /\ p < total /\ next' \in 0..total
        BY <2>1, <2>2, <2>3 DEF Marked
    <2>5. Given(1, p) = {p}
        BY <2>3 DEF Given
    <2>6. /\ DOMAIN disk' = DOMAIN disk /\ p \in DOMAIN disk /\ disk'[p] = Content
          /\ \A b \in DOMAIN disk : b # p => disk'[b] = disk[b]
        <3>1. p \in DOMAIN disk
            BY <2>2, <2>3 DEF Shape
        <3> QED BY <2>1, <3>1
    <2>7. /\ DOMAIN extents' = DOMAIN extents
          /\ \A i \in DOMAIN extents : i # node => extents'[i] = extents[i]
          /\ InOrder(extents'[node], logical + 1)
          /\ \A l, b \in Nat : Maps(extents'[node], l, b)
                 <=> \/ Maps(extents[node], l, b)
                     \/ logical <= l /\ l < logical + 1 /\ b = p + (l - logical)
        BY <2>1, <2>3, ExtendsByABlock
    <2>8. Content = Nodes[node].data[logical + (p - p) + 1]
        BY <2>2, <2>3 DEF Content
    <2>9. logical + 1 <= Len(Nodes[node].data)
        BY <2>2
    <2>10. Places(1, p)
        BY <2>1, <2>3, <2>4, <2>5, <2>6, <2>7, <2>8, <2>9 DEF Places
    <2> QED BY <2>1, <2>2, <2>3, <2>4, <2>10, PlacesTypes
<1> QED BY <1>1, <1>2

(* Anything else takes a run of free blocks.                                *)
LEMMA PlaceRunKeeps ==
    ASSUME IInv, PlaceRun
    PROVE  IInv'
<1>1. CASE Free = {}
    <2>1. Fail("no_free")
        BY <1>1 DEF PlaceRun
    <2> QED BY <2>1, FailKeeps
<1>2. CASE Free # {}
    <2> DEFINE p == FirstFree
               wanted == Len(Nodes[node].data) - logical
               n == RunLength(p, wanted)
    <2>1. /\ Placing /\ NodeHasMore /\ ~NodeShares(node)
          /\ used' = used \cup (p..(p + n - 1)) /\ next' = p + n
          /\ extents' = [extents EXCEPT ![node] = Append(@, <<logical, p, n>>)]
          /\ logical' = logical + n
          /\ UNCHANGED <<job, pc, reason, total, attempt, node, trees, disk>>
        BY <1>2 DEF PlaceRun, Advance, NodeShares
    <2>2. /\ pc = "place" /\ node \in DOMAIN Nodes /\ total \in Nat /\ next \in 0..total
          /\ logical \in Nat /\ used \subseteq 0..(total - 1) /\ Marked /\ Shape /\ FreeIsBlank
          /\ node \in DOMAIN extents /\ InOrder(extents[node], logical)
          /\ Len(Nodes[node].data) \in Nat /\ logical < Len(Nodes[node].data)
        BY <2>1, PlacingFacts
    <2>3. p \in next..(total - 1) /\ p \in Nat
        BY <1>2, FirstFreeIsFree DEF IInv
    <2>4. wanted \in Nat \ {0}
        BY <2>2
    <2> HIDE DEF wanted
    <2>5. /\ n \in 1..wanted /\ n <= MaxExtentLen
          /\ \A x \in p..(p + n - 1) : x < total /\ x \notin used
        BY <1>2, <2>4, RunsAreFree DEF IInv
    <2> HIDE DEF p, n
    <2>6. n \in Nat \ {0} /\ logical + n <= Len(Nodes[node].data)
        BY <2>2, <2>4, <2>5 DEF wanted
    <2>7. next' \in 0..total
        <3>1. p + n - 1 \in p..(p + n - 1)
            BY <2>3, <2>6
        <3>2. p + n - 1 < total
            BY <2>5, <3>1
        <3> QED BY <2>1, <2>2, <2>3, <2>6, <3>2
    <2>8. extents'[node] = Append(extents[node], <<logical, p, n>>)
          /\ DOMAIN extents' = DOMAIN extents
          /\ \A i \in DOMAIN extents : i # node => extents'[i] = extents[i]
        BY <2>1, <2>2
    <2>9. /\ InOrder(extents'[node], logical + n)
          /\ \A l, b \in Nat : Maps(extents'[node], l, b)
                 <=> \/ Maps(extents[node], l, b)
                     \/ logical <= l /\ l < logical + n /\ b = p + (l - logical)
        BY <2>2, <2>3, <2>6, <2>8, RunMaps
    <2>10. \A b \in Given(n, p) : b < total /\ b \notin used /\ b \notin Metadata
        BY <2>2, <2>5 DEF Given, Marked
    <2>11. \A b \in Given(n, p) : disk'[b] = Zero
        <3> TAKE b \in Given(n, p)
        <3>1. b \in 0..(total - 1) /\ b \notin used
            BY <2>2, <2>3, <2>6, <2>10 DEF Given
        <3> QED BY <2>1, <2>2, <3>1 DEF FreeIsBlank
    <2>12. Places(n, p)
        BY <2>1, <2>6, <2>8, <2>9, <2>10, <2>11 DEF Places, Given
    <2>13. \A j \in DOMAIN extents'[node] : extents'[node][j][3] <= MaxExtentLen
        <3> DEFINE old == extents[node]
        <3>1. old \in Seq(Extent)
            BY <2>2 DEF InOrder
        <3>2. \A j \in DOMAIN old : old[j][3] <= MaxExtentLen
            BY <2>1, <2>2 DEF IInv, TypeOK, NodeShares
        <3> HIDE DEF old
        <3> DEFINE new == Append(old, <<logical, p, n>>)
        <3>3. /\ DOMAIN new = 1..(Len(old) + 1) /\ DOMAIN old = 1..Len(old) /\ Len(old) \in Nat
              /\ \A j \in 1..Len(old) : new[j] = old[j]
              /\ new[Len(old) + 1] = <<logical, p, n>>
            BY <3>1
        <3>4. extents'[node] = new
            BY <2>8 DEF old
        <3> HIDE DEF new
        <3>5. ASSUME NEW j \in DOMAIN new PROVE new[j][3] <= MaxExtentLen
            <4>1. CASE j \in 1..Len(old)
                BY <3>2, <3>3, <4>1
            <4>2. CASE j = Len(old) + 1
                BY <2>5, <3>3, <4>2
            <4> QED BY <3>3, <4>1, <4>2
        <3> QED BY <3>4, <3>5
    <2> QED BY <2>1, <2>2, <2>3, <2>6, <2>7, <2>12, <2>13, PlacesTypes
<1> QED BY <1>1, <1>2

-----------------------------------------------------------------------------
(* The steps that go on to the next node or phase.                         *)

(* A step that gives out nothing and claims nothing more to be written.    *)
GoesOn ==
    /\ Working /\ pc' \in {"place", "trees", "write", "done"}
    /\ UNCHANGED <<job, reason, total, attempt, used, next, extents, trees, disk>>
    /\ node' \in 1..(Len(Nodes) + 1) /\ logical' \in Nat
    /\ \A i \in DOMAIN Nodes :
           /\ Upto(i)' \in Nat /\ Upto(i) \in Nat /\ Upto(i) <= Upto(i)'
           /\ TakesBlocks(Nodes[i]) => Upto(i)' = Upto(i)
           /\ pc' = "done" \/ (pc' = "write" /\ i < node')
                  => pc = "done" \/ (pc = "write" /\ i < node)
    /\ pc' = "place" => /\ pc = "place"
                        /\ node' <= Len(Nodes) => logical' <= Len(Nodes[node'].data)

(* Going on to the next node or phase keeps the invariant.                  *)
LEMMA GoesOnKeeps ==
    ASSUME IInv, GoesOn
    PROVE  IInv'
<1>1. /\ Working /\ pc' \in {"place", "trees", "write", "done"}
      /\ UNCHANGED <<job, reason, total, attempt, used, next, extents, trees, disk>>
      /\ node' \in 1..(Len(Nodes) + 1) /\ logical' \in Nat
      /\ pc' = "place" => pc = "place"
    BY DEF GoesOn
<1>2. Nodes' = Nodes /\ Metadata' = Metadata /\ TreeBlocks' = TreeBlocks
      /\ \A i : NodeShares(i)' = NodeShares(i)
    BY <1>1 DEF Nodes, Metadata, MetaOf, Groups, TreeBlocks, NodeShares
<1>3. Shape /\ Marked /\ Alone /\ Contents /\ FreeIsBlank /\ Covered
    BY <1>1 DEF IInv
<1>4. TypeOK'
    BY <1>1, <1>2 DEF IInv, TypeOK
<1>5. Shape'
    <2>1. ASSUME NEW i \in DOMAIN Nodes
          PROVE  InOrder(extents[i], Upto(i)') /\ trees[i] \in Seq(Nat)
        <3>1. InOrder(extents[i], Upto(i)) /\ trees[i] \in Seq(Nat)
            BY <1>3 DEF Shape
        <3>2. Upto(i)' \in Nat /\ Upto(i) \in Nat /\ Upto(i) <= Upto(i)'
            BY DEF GoesOn
        <3> QED BY <3>1, <3>2, InOrderGrows
    <2>2. pc' = "place" /\ node' <= Len(Nodes) => logical' <= Len(Nodes[node'].data)
        BY DEF GoesOn
    <2>3. pc' = "place" => \A i \in DOMAIN Nodes : trees[i] = <<>>
        BY <1>1, <1>3 DEF Shape
    <2>4. /\ DOMAIN extents = DOMAIN Nodes /\ DOMAIN trees = DOMAIN Nodes
          /\ DOMAIN disk = 0..(total - 1)
        BY <1>3 DEF Shape
    <2> QED BY <1>1, <1>2, <2>1, <2>2, <2>3, <2>4 DEF Shape
<1>6. Marked'
    BY <1>1, <1>2, <1>3 DEF Marked
<1>7. Alone'
    BY <1>1, <1>2, <1>3 DEF Alone
<1>8. Contents'
    <2>1. \A i \in DOMAIN Nodes : pc' = "done" \/ (pc' = "write" /\ i < node')
              => pc = "done" \/ (pc = "write" /\ i < node)
        BY DEF GoesOn
    <2> QED BY <1>1, <1>2, <1>3, <2>1 DEF Contents
<1>9. FreeIsBlank'
    BY <1>1, <1>3 DEF FreeIsBlank
<1>10. Covered'
    <2>1. \A i \in DOMAIN Nodes : TakesBlocks(Nodes[i]) => Upto(i)' = Upto(i)
        BY DEF GoesOn
    <2> QED BY <1>1, <1>2, <1>3, <2>1 DEF Covered
<1>11. job' \in Jobs /\ Planned' /\ pc' # "failed"
    BY <1>1, <1>2 DEF IInv, Planned
<1> QED BY <1>4, <1>5, <1>6, <1>7, <1>8, <1>9, <1>10, <1>11 DEF IInv

(* Each of the loops' own steps is such a step.                             *)
LEMMA NextNodeKeeps ==
    ASSUME IInv, PlaceNext \/ PlaceDone \/ TreeNext \/ TreeDone \/ WriteDone
    PROVE  IInv'
<1>1. /\ Len(Nodes) \in Nat /\ DOMAIN Nodes = 1..Len(Nodes) /\ node \in 1..(Len(Nodes) + 1)
      /\ logical \in Nat /\ \A i \in DOMAIN Nodes : Len(Nodes[i].data) \in Nat
    BY JobFacts DEF IInv, TypeOK
<1>2. Nodes' = Nodes
    BY DEF PlaceNext, PlaceDone, TreeNext, TreeDone, WriteDone, Nodes
<1>3. ASSUME PlaceNext PROVE GoesOn
    <2>1. /\ pc = "place" /\ node <= Len(Nodes) /\ ~NodeHasMore /\ pc' = "place"
          /\ node' = node + 1 /\ logical' = 0
          /\ UNCHANGED <<job, reason, total, attempt, used, next, extents, trees, disk>>
        BY <1>3 DEF PlaceNext, Placing
    <2>2. node \in DOMAIN Nodes /\ logical <= Len(Nodes[node].data)
        BY <1>1, <2>1 DEF IInv, Working, Shape
    <2>3. ASSUME NEW i \in DOMAIN Nodes
          PROVE  /\ Upto(i)' \in Nat /\ Upto(i) \in Nat /\ Upto(i) <= Upto(i)'
                 /\ TakesBlocks(Nodes[i]) => Upto(i)' = Upto(i)
        <3>1. CASE i = node
            <4>1. Upto(i) = logical /\ Upto(i)' = Len(Nodes[i].data)
                BY <1>1, <1>2, <2>1, <3>1 DEF Upto
            <4>2. TakesBlocks(Nodes[i]) => ~(logical < Len(Nodes[i].data))
                BY <2>1, <3>1 DEF NodeHasMore
            <4> QED BY <1>1, <2>2, <3>1, <4>1, <4>2
        <3>2. CASE i # node
            <4>1. Upto(i)' = Upto(i)
                BY <1>1, <1>2, <2>1, <3>2 DEF Upto
            <4>2. Upto(i) \in Nat
                BY <1>1, <3>2 DEF Upto
            <4> QED BY <4>1, <4>2
        <3> QED BY <3>1, <3>2
    <2>4. node' <= Len(Nodes) => logical' <= Len(Nodes[node'].data)
        BY <1>1, <2>1
    <2> QED BY <1>1, <2>1, <2>3, <2>4 DEF GoesOn, Working
<1>4. ASSUME PlaceDone \/ TreeNext \/ TreeDone \/ WriteDone PROVE GoesOn
    <2>1. /\ Working /\ pc' \in {"trees", "write", "done"}
          /\ UNCHANGED <<job, reason, total, attempt, used, next, extents, trees, disk>>
          /\ logical' = logical /\ node' \in {1, node, node + 1}
        BY <1>4 DEF PlaceDone, TreeNext, TreeDone, WriteDone, Working
    <2>2. node' \in 1..(Len(Nodes) + 1)
        <3>1. CASE PlaceDone \/ TreeDone
            BY <1>1, <3>1 DEF PlaceDone, TreeDone
        <3>2. CASE TreeNext
            BY <1>1, <3>2 DEF TreeNext
        <3>3. CASE WriteDone
            BY <1>1, <3>3 DEF WriteDone
        <3> QED BY <1>4, <3>1, <3>2, <3>3
    <2>3. pc = "place" => node > Len(Nodes)
        BY <1>4 DEF PlaceDone, TreeNext, TreeDone, WriteDone
    <2>4. \A i \in DOMAIN Nodes : /\ Upto(i) = Len(Nodes[i].data)
                                  /\ Upto(i)' = Len(Nodes[i].data)
        BY <1>1, <1>2, <2>1, <2>3 DEF Upto
    <2>5. \A i \in DOMAIN Nodes : pc' = "done" \/ (pc' = "write" /\ i < node')
              => pc = "done" \/ (pc = "write" /\ i < node)
        BY <1>1, <1>4 DEF PlaceDone, TreeNext, TreeDone, WriteDone
    <2> QED BY <1>1, <2>1, <2>2, <2>4, <2>5 DEF GoesOn
<1> QED BY <1>3, <1>4, GoesOnKeeps

(* A tree block is fresh.                                                  *)
LEMMA GrowTreeKeeps ==
    ASSUME IInv, GrowTree
    PROVE  IInv'
<1> DEFINE TooDeep == Len(extents[node]) > MaxExtents
           p == FirstFree
<1>0. pc = "trees" /\ node <= Len(Nodes)
    BY DEF GrowTree
<1>6. Len(extents[node]) \in Nat /\ MaxExtents \in Nat
    <2>1. Shape /\ DOMAIN Nodes = 1..Len(Nodes) /\ Len(Nodes) \in Nat
          /\ node \in 1..(Len(Nodes) + 1)
        BY <1>0, JobFacts DEF IInv, TypeOK, Working
    <2>2. extents[node] \in Seq(Extent)
        BY <1>0, <2>1 DEF Shape, InOrder
    <2> QED BY <2>2, FanoutAssumption DEF MaxExtents
<1>1. ASSUME Fail("too_deep") \/ Fail("no_free") PROVE IInv'
    BY <1>1, FailKeeps
<1>2. ASSUME Free # {}, Give(p), trees' = [trees EXCEPT ![node] = Append(@, p)],
             UNCHANGED <<job, pc, reason, total, attempt, node, logical, extents, disk>>
      PROVE  IInv'
    <2>1. /\ Len(Nodes) \in Nat /\ DOMAIN Nodes = 1..Len(Nodes) /\ node \in 1..(Len(Nodes) + 1)
          /\ total \in Nat /\ used \subseteq 0..(total - 1) /\ next \in 0..total
        BY JobFacts DEF IInv, TypeOK
    <2>2. node \in DOMAIN Nodes
        BY <1>0, <2>1
    <2>3. Shape /\ Marked /\ Alone /\ Contents /\ FreeIsBlank /\ Covered
        BY <1>0 DEF IInv, Working
    <2>4. p \in next..(total - 1) /\ p \notin used /\ p \in Nat
        BY <1>2, FirstFreeIsFree DEF IInv
    <2> HIDE DEF p
    <2>5. used' = used \cup {p} /\ next' = p + 1
        BY <1>2 DEF Give
    <2>6. Nodes' = Nodes /\ Metadata' = Metadata
          /\ \A i : NodeShares(i)' = NodeShares(i)
        BY <1>2 DEF Nodes, Metadata, MetaOf, Groups, NodeShares
    <2>7. \A i \in DOMAIN Nodes : Upto(i)' = Upto(i)
        BY <1>2, <2>6 DEF Upto
    <2>8. TypeOK'
        <3>1. used' \subseteq 0..(total - 1) /\ next' \in 0..total
            BY ONLY <2>1, <2>4, <2>5
        <3>2. UNCHANGED <<job, pc, reason, total, attempt, node, logical, extents>> /\ Nodes' = Nodes
            BY ONLY <1>2, <2>6
        <3>3. TypeOK
            BY DEF IInv
        <3> QED BY ONLY <3>1, <3>2, <3>3 DEF TypeOK
    <2>9. /\ DOMAIN trees' = DOMAIN Nodes
          /\ trees'[node] = Append(trees[node], p) /\ trees[node] \in Seq(Nat)
          /\ \A i \in DOMAIN Nodes : i # node => trees'[i] = trees[i]
        BY <1>2, <2>2, <2>3 DEF Shape
    <2>10. \A i \in DOMAIN Nodes : trees'[i] \in Seq(Nat)
        <3> TAKE i \in DOMAIN Nodes
        <3>1. CASE i = node
            <4>1. Append(trees[node], p) \in Seq(Nat)
                BY ONLY <2>4, <2>9
            <4> QED BY ONLY <2>9, <3>1, <4>1
        <3>2. CASE i # node
            BY <2>3, <2>9, <3>2 DEF Shape
        <3> QED BY <3>1, <3>2
    <2>11. Shape'
        BY <1>0, <1>2, <2>3, <2>6, <2>7, <2>9, <2>10 DEF Shape
    <2>12. TreeBlocks' = TreeBlocks \cup {p}
        <3> DEFINE OfNode(i) == {trees[i][j] : j \in DOMAIN trees[i]}
                   OfNodeNow(i) == {trees'[i][j] : j \in DOMAIN trees'[i]}
        <3>1. OfNodeNow(node) = OfNode(node) \cup {p}
            <4>1. /\ DOMAIN trees'[node] = 1..(Len(trees[node]) + 1)
                  /\ DOMAIN trees[node] = 1..Len(trees[node]) /\ Len(trees[node]) \in Nat
                  /\ \A j \in 1..Len(trees[node]) : trees'[node][j] = trees[node][j]
                  /\ trees'[node][Len(trees[node]) + 1] = p
                BY <2>9
            <4>2. 1..(Len(trees[node]) + 1) = 1..Len(trees[node]) \cup {Len(trees[node]) + 1}
                BY <4>1
            <4> QED BY <4>1, <4>2
        <3>2. \A i \in DOMAIN Nodes : i # node => OfNodeNow(i) = OfNode(i)
            BY <2>9
        <3>3. TreeBlocks = UNION {OfNode(i) : i \in DOMAIN Nodes}
            BY <2>3 DEF TreeBlocks, Shape
        <3>4. TreeBlocks' = UNION {OfNodeNow(i) : i \in DOMAIN Nodes}
            BY <2>9 DEF TreeBlocks
        <3> HIDE DEF OfNode, OfNodeNow
        <3>5. \A b : b \in TreeBlocks' <=> b \in TreeBlocks \/ b = p
            BY <2>2, <3>1, <3>2, <3>3, <3>4
        <3> QED BY <3>5
    <2>13. Marked'
        <3>1. \A i \in DOMAIN Nodes : \A l, b \in Nat : Maps(extents[i], l, b) =>
                  b \in used' /\ b \notin Metadata /\ b \notin TreeBlocks'
            BY <2>3, <2>4, <2>5, <2>12 DEF Marked
        <3>2. \A b \in used' : \/ b \in Metadata \/ b \in TreeBlocks'
                               \/ \E i \in DOMAIN Nodes : \E l \in Nat : Maps(extents[i], l, b)
            BY <2>3, <2>5, <2>12 DEF Marked
        <3>3. Metadata \subseteq used' /\ TreeBlocks' \subseteq used'
              /\ TreeBlocks' \cap Metadata = {}
            BY <2>3, <2>4, <2>5, <2>12 DEF Marked
        <3>4. extents' = extents /\ DOMAIN Nodes' = DOMAIN Nodes /\ Metadata' = Metadata
            BY <1>2, <2>6
        <3>5. \A i : \A l, b \in Nat : Maps(extents[i], l, b)' <=> Maps(extents[i], l, b)
            BY ONLY <3>4 DEF Maps
        <3>6. \A i \in DOMAIN Nodes' : \A l, b \in Nat : Maps(extents[i], l, b)' =>
                  b \in used' /\ b \notin Metadata' /\ b \notin TreeBlocks'
            BY ONLY <3>1, <3>4, <3>5
        <3>7. \A b \in used' : \/ b \in Metadata' \/ b \in TreeBlocks'
                               \/ \E i \in DOMAIN Nodes' : \E l \in Nat : Maps(extents[i], l, b)'
            BY ONLY <3>2, <3>4, <3>5
        <3>8. Metadata' \subseteq used' /\ TreeBlocks' \subseteq used'
              /\ TreeBlocks' \cap Metadata' = {}
            BY ONLY <3>3, <3>4
        <3> QED BY ONLY <3>6, <3>7, <3>8 DEF Marked
    <2>14. Alone'
        <3>1. extents' = extents
            BY <1>2
        <3> QED BY <2>3, <2>6, <3>1 DEF Alone
    <2>15. Contents'
        BY <1>2, <2>3, <2>6 DEF Contents
    <2>16. FreeIsBlank'
        BY <1>0, <1>2 DEF FreeIsBlank
    <2>17. Covered'
        BY <1>2, <2>3, <2>6, <2>7 DEF Covered
    <2>18. job' \in Jobs /\ Planned' /\ pc' # "failed"
        BY <1>0, <1>2, <2>6 DEF IInv, Planned
    <2> QED BY <2>8, <2>11, <2>13, <2>14, <2>15, <2>16, <2>17, <2>18 DEF IInv
<1>3. CASE TooDeep
    <2>1. Fail("too_deep")
        <3>1. ~(Len(extents[node]) <= MaxExtents)
            <4>1. Len(extents[node]) \in Nat /\ MaxExtents \in Nat
                BY <1>6
            <4> QED BY <1>3, <4>1
        <3> QED BY <1>3, <3>1 DEF GrowTree
    <2> QED BY <1>1, <2>1
<1>4. CASE ~TooDeep /\ Free = {}
    <2>1. Fail("no_free")
        BY <1>4, <1>6 DEF GrowTree
    <2> QED BY <1>1, <2>1
<1>5. CASE ~TooDeep /\ Free # {}
    <2>1. /\ Give(p) /\ trees' = [trees EXCEPT ![node] = Append(@, p)]
          /\ UNCHANGED <<job, pc, reason, total, attempt, node, logical, extents, disk>>
        BY <1>5 DEF GrowTree
    <2> QED BY <1>2, <1>5, <2>1
<1> QED BY <1>3, <1>4, <1>5

-----------------------------------------------------------------------------
(* Writing and laying out.                                                 *)

(* The extent whose blocks include b, as WriteNode looks it up, maps b.    *)
LEMMA HitMaps ==
    ASSUME NEW exts, NEW upto \in Nat, InOrder(exts, upto), NEW b \in Nat,
           NEW hit, hit = {j \in DOMAIN exts : exts[j][2] <= b /\ b < exts[j][2] + exts[j][3]}
    PROVE  /\ hit = {} => \A l \in Nat : ~Maps(exts, l, b)
           /\ hit # {} => /\ exts[Max(hit)][1] + (b - exts[Max(hit)][2]) \in Nat
                          /\ Maps(exts, exts[Max(hit)][1] + (b - exts[Max(hit)][2]), b)
<1>1. exts \in Seq(Extent) /\ Len(exts) \in Nat /\ DOMAIN exts = 1..Len(exts)
    BY DEF InOrder
<1>2. \A j \in DOMAIN exts : exts[j][1] \in Nat /\ exts[j][2] \in Nat /\ exts[j][3] \in Nat
    <2> TAKE j \in DOMAIN exts
    <2>1. exts[j] \in Extent
        BY <1>1
    <2> QED BY <2>1 DEF Extent
<1>3. ASSUME NEW l \in Nat, Maps(exts, l, b) PROVE hit # {}
    <2>1. PICK j \in DOMAIN exts : /\ exts[j][1] <= l /\ l < exts[j][1] + exts[j][3]
                                   /\ b = exts[j][2] + (l - exts[j][1])
        BY <1>3 DEF Maps
    <2>2. exts[j][2] <= b /\ b < exts[j][2] + exts[j][3]
        BY <1>2, <2>1
    <2> QED BY <2>1, <2>2
<1>4. ASSUME hit # {}
      PROVE  /\ exts[Max(hit)][1] + (b - exts[Max(hit)][2]) \in Nat
             /\ Maps(exts, exts[Max(hit)][1] + (b - exts[Max(hit)][2]), b)
    <2>1. hit \subseteq 0..Len(exts)
        BY <1>1
    <2>2. Max(hit) \in hit
        BY <1>1, <1>4, <2>1, MaxIsGreatest
    <2> DEFINE m == Max(hit)
               l == exts[m][1] + (b - exts[m][2])
    <2>3. m \in DOMAIN exts /\ exts[m][2] <= b /\ b < exts[m][2] + exts[m][3]
        BY <2>2
    <2> HIDE DEF m
    <2>4. /\ l \in Nat /\ exts[m][1] <= l /\ l < exts[m][1] + exts[m][3]
          /\ b = exts[m][2] + (l - exts[m][1])
        BY <1>2, <2>3
    <2>5. Maps(exts, l, b)
        BY <2>3, <2>4 DEF Maps
    <2> QED BY <2>4, <2>5 DEF m
<1> QED BY <1>3, <1>4

(* Writing a node's data fills its own blocks and no others: shared blocks *)
(* were written when they were given.                                      *)
LEMMA WriteNodeKeeps ==
    ASSUME IInv, WriteNode
    PROVE  IInv'
<1>1. /\ pc = "write" /\ node <= Len(Nodes) /\ node' = node + 1
      /\ UNCHANGED <<job, pc, reason, total, attempt, used, next, logical, extents, trees>>
    BY DEF WriteNode
<1>2. /\ Len(Nodes) \in Nat /\ DOMAIN Nodes = 1..Len(Nodes) /\ node \in 1..(Len(Nodes) + 1)
      /\ total \in Nat /\ used \subseteq 0..(total - 1)
      /\ \A i \in DOMAIN Nodes : Len(Nodes[i].data) \in Nat
    BY JobFacts DEF IInv, TypeOK
<1>3. Shape /\ Marked /\ Alone /\ Contents /\ FreeIsBlank /\ Covered
    BY <1>1 DEF IInv, Working
<1>4. node \in DOMAIN Nodes /\ node' \in 1..(Len(Nodes) + 1)
    BY <1>1, <1>2
<1>5. Nodes' = Nodes /\ Metadata' = Metadata /\ TreeBlocks' = TreeBlocks
      /\ \A i : NodeShares(i)' = NodeShares(i)
    BY <1>1 DEF Nodes, Metadata, MetaOf, Groups, TreeBlocks, NodeShares
<1>6. \A i \in DOMAIN Nodes : Upto(i)' = Upto(i)
    BY <1>1, <1>5 DEF Upto
<1>7. /\ DOMAIN disk = 0..(total - 1) /\ DOMAIN extents = DOMAIN Nodes
      /\ InOrder(extents[node], Len(Nodes[node].data))
    <2>1. Upto(node) = Len(Nodes[node].data)
        BY <1>1 DEF Upto
    <2>2. DOMAIN disk = 0..(total - 1) /\ DOMAIN extents = DOMAIN Nodes
        BY <1>3 DEF Shape
    <2>3. InOrder(extents[node], Upto(node))
        BY <1>3, <1>4 DEF Shape
    <2> QED BY <2>1, <2>2, <2>3
<1>8. /\ DOMAIN disk' = DOMAIN disk
      /\ NodeShares(node) => disk' = disk
    BY DEF WriteNode, NodeShares
<1>9. ASSUME NEW b \in 0..(total - 1), ~NodeShares(node)
      PROVE  \/ disk'[b] = disk[b] /\ \A l \in Nat : ~Maps(extents[node], l, b)
             \/ \E l \in Nat : Maps(extents[node], l, b) /\ disk'[b] = Nodes[node].data[l + 1]
    <2> DEFINE hit == {j \in DOMAIN extents[node] :
                           /\ extents[node][j][2] <= b
                           /\ b < extents[node][j][2] + extents[node][j][3]}
               ext == extents[node][Max(hit)]
    <2>1. disk'[b] = IF hit = {} THEN disk[b] ELSE Nodes[node].data[ext[1] + (b - ext[2]) + 1]
        BY <1>7, <1>9 DEF WriteNode, NodeShares
    <2>2. b \in Nat /\ Len(Nodes[node].data) \in Nat
        BY <1>2, <1>4
    <2>3. /\ hit = {} => \A l \in Nat : ~Maps(extents[node], l, b)
          /\ hit # {} => /\ ext[1] + (b - ext[2]) \in Nat
                         /\ Maps(extents[node], ext[1] + (b - ext[2]), b)
        BY <1>7, <2>2, HitMaps
    <2> HIDE DEF hit
    <2> QED BY <2>1, <2>3
<1>10. \A i \in DOMAIN Nodes : \A l, b \in Nat :
           Maps(extents[i], l, b) => b \in 0..(total - 1)
    BY <1>2, <1>3 DEF Marked
<1>11. ASSUME NEW i \in DOMAIN Nodes, NEW l \in Nat, NEW b \in Nat, Maps(extents[i], l, b)
       PROVE  /\ i # node \/ NodeShares(node) => disk'[b] = disk[b]
              /\ i = node /\ ~NodeShares(node) => disk'[b] = Nodes[i].data[l + 1]
    <2>1. CASE NodeShares(node)
        <3>1. disk' = disk
            BY <1>8, <2>1
        <3> QED BY <2>1, <3>1
    <2>2. CASE ~NodeShares(node)
        <3>1. b \in 0..(total - 1)
            BY <1>10, <1>11
        <3>2. ASSUME NEW m \in Nat, Maps(extents[node], m, b)
              PROVE  i = node /\ m = l
            BY <1>3, <1>4, <1>11, <2>2, <3>2 DEF Alone
        <3>3. CASE i = node
            <4>1. \E m \in Nat : Maps(extents[node], m, b) /\ disk'[b] = Nodes[node].data[m + 1]
                BY <1>9, <1>11, <2>2, <3>1, <3>3
            <4> QED BY <2>2, <3>2, <3>3, <4>1
        <3>4. CASE i # node
            BY <1>9, <2>2, <3>1, <3>2, <3>4
        <3> QED BY <3>3, <3>4
    <2> QED BY <2>1, <2>2
<1>12. TypeOK'
    BY <1>1, <1>4, <1>5 DEF IInv, TypeOK
<1>13. Shape'
    <2>1. \A i \in DOMAIN Nodes : InOrder(extents[i], Upto(i)') /\ trees[i] \in Seq(Nat)
        BY <1>3, <1>6 DEF Shape
    <2>2. /\ DOMAIN extents = DOMAIN Nodes /\ DOMAIN trees = DOMAIN Nodes
          /\ DOMAIN disk = 0..(total - 1)
        BY <1>3 DEF Shape
    <2>3. extents' = extents /\ trees' = trees /\ total' = total /\ pc' = "write"
        BY <1>1
    <2> QED BY <1>5, <1>8, <2>1, <2>2, <2>3 DEF Shape
<1>14. Marked'
    BY <1>1, <1>3, <1>5 DEF Marked
<1>15. Alone'
    BY <1>1, <1>3, <1>5 DEF Alone
<1>16. Contents'
    <2> SUFFICES ASSUME NEW i \in DOMAIN Nodes, NEW l \in Nat, NEW b \in Nat,
                        Maps(extents[i], l, b)
                 PROVE  /\ NodeShares(i) => disk'[b] = Nodes[i].data[l + 1]
                        /\ ~NodeShares(i) /\ i < node + 1 => disk'[b] = Nodes[i].data[l + 1]
        BY <1>1, <1>5 DEF Contents
    <2>1. /\ NodeShares(i) => disk[b] = Nodes[i].data[l + 1]
          /\ ~NodeShares(i) /\ i < node => disk[b] = Nodes[i].data[l + 1]
        <3>1. ~NodeShares(i) /\ (pc = "done" \/ (pc = "write" /\ i < node))
                  => disk[b] = Nodes[i].data[l + 1]
            BY <1>3 DEF Contents
        <3>2. NodeShares(i) => disk[b] = Nodes[i].data[l + 1]
            BY <1>3 DEF Contents
        <3> QED BY <1>1, <3>1, <3>2
    <2>2. i < node + 1 => i < node \/ i = node
        BY <1>2
    <2> QED BY <1>11, <2>1, <2>2
<1>17. FreeIsBlank'
    BY <1>1 DEF FreeIsBlank
<1>18. Covered'
    <2>1. extents' = extents
        BY <1>1
    <2> QED BY <1>3, <1>5, <1>6, <2>1 DEF Covered
<1>19. job' \in Jobs /\ Planned' /\ pc' # "failed"
    BY <1>1, <1>5 DEF IInv, Planned
<1> QED BY <1>12, <1>13, <1>14, <1>15, <1>16, <1>17, <1>18, <1>19 DEF IInv

(* Metadata that fits its groups lies inside the image.                    *)
LEMMA MetadataIsInside ==
    ASSUME total \in Nat, \A g \in 0..(Groups - 1) : MetaBlocks(Groups) <= GroupBlocks(g)
    PROVE  Metadata \subseteq 0..(total - 1)
<1>1. Groups \in Nat /\ BlocksPerGroup \in Nat
    BY GroupsStartWithMetadata, GeometryAssumption
<1>2. (Groups - 1) * BlocksPerGroup < total
    BY CeilRoundsUp, GeometryAssumption DEF Groups
<1>3. MetaBlocks(Groups) \in Nat \ {0}
    BY <1>1, MetadataTakesBlocks
<1>4. ASSUME NEW g \in 0..(Groups - 1), NEW b \in MetaOf(g)
      PROVE  b \in 0..(total - 1)
    <2> DEFINE start == g * BlocksPerGroup
               most == (Groups - 1) * BlocksPerGroup
    <2>1. g \in Nat /\ Groups - 1 \in Nat /\ g <= Groups - 1
        BY <1>1, <1>4
    <2>2. start \in Nat /\ most \in Nat /\ start <= most
        BY <1>1, <2>1, ProductsGrow
    <2>3. most < total
        BY <1>2
    <2> HIDE DEF start, most
    <2>4. total - start \in Nat
        BY <2>2, <2>3
    <2>5. GroupBlocks(g) = Min({BlocksPerGroup, total - start})
        BY DEF GroupBlocks, start
    <2>6. GroupBlocks(g) <= total - start
        BY <1>1, <2>4, <2>5, MinIsLeast
    <2>7. MetaBlocks(Groups) <= GroupBlocks(g)
        BY <1>4
    <2>8. GroupBlocks(g) \in Nat
        <3>1. GroupBlocks(g) \in {BlocksPerGroup, total - start}
            BY <1>1, <2>4, <2>5, MinIsLeast
        <3> QED BY <1>1, <2>4, <3>1
    <2>9. b \in start..(start + MetaBlocks(Groups) - 1)
        BY <1>4 DEF MetaOf, start
    <2> QED BY <1>3, <2>2, <2>4, <2>6, <2>7, <2>8, <2>9
<1> QED BY <1>4 DEF Metadata

(* A round starts from scratch, whatever the one before has left.          *)
LEMMA LayoutGroupsKeeps ==
    ASSUME IInv, LayoutGroups
    PROVE  IInv'
<1> DEFINE NoRoom == \E g \in 0..(Groups - 1) : MetaBlocks(Groups) > GroupBlocks(g)
<1>1. CASE NoRoom
    <2>1. Fail("no_room")
        BY <1>1 DEF LayoutGroups
    <2> QED BY <2>1, FailKeeps
<1>2. CASE ~NoRoom
    <2>1. /\ used' = Metadata /\ next' = 0
          /\ extents' = [i \in DOMAIN Nodes |-> <<>>]
          /\ trees' = [i \in DOMAIN Nodes |-> <<>>]
          /\ disk' = [b \in 0..(total - 1) |-> Zero]
          /\ pc' = "place" /\ node' = 1 /\ logical' = 0
          /\ UNCHANGED <<job, reason, total, attempt>>
        BY <1>2 DEF LayoutGroups
    <2> HIDE DEF NoRoom
    <2>2. /\ Len(Nodes) \in Nat /\ DOMAIN Nodes = 1..Len(Nodes) /\ total \in Nat
          /\ \A i \in DOMAIN Nodes : Len(Nodes[i].data) \in Nat
        BY JobFacts DEF IInv, TypeOK
    <2>3. Groups \in Nat /\ MetaBlocks(Groups) \in Nat
        BY <2>2, GroupsStartWithMetadata, MetadataTakesBlocks
    <2>4. Nodes' = Nodes /\ Metadata' = Metadata
          /\ \A i : NodeShares(i)' = NodeShares(i)
        BY <2>1 DEF Nodes, Metadata, MetaOf, Groups, NodeShares
    <2>5. Metadata \subseteq 0..(total - 1)
        <3>1. \A g \in 0..(Groups - 1) : MetaBlocks(Groups) <= GroupBlocks(g)
            <4> TAKE g \in 0..(Groups - 1)
            <4>1. ~(MetaBlocks(Groups) > GroupBlocks(g))
                BY <1>2 DEF NoRoom
            <4>2. GroupBlocks(g) \in Int
                <5>1. BlocksPerGroup \in Nat /\ total - g * BlocksPerGroup \in Nat
                    <6>1. (Groups - 1) * BlocksPerGroup < total
                        BY <2>2, CeilRoundsUp, GeometryAssumption DEF Groups
                    <6>2. BlocksPerGroup \in Nat /\ g \in Nat /\ Groups - 1 \in Nat
                          /\ g <= Groups - 1
                        BY <2>3, GeometryAssumption
                    <6>3. /\ g * BlocksPerGroup \in Nat /\ (Groups - 1) * BlocksPerGroup \in Nat
                          /\ g * BlocksPerGroup <= (Groups - 1) * BlocksPerGroup
                        BY <6>2, ProductsGrow
                    <6> DEFINE start == g * BlocksPerGroup
                               most == (Groups - 1) * BlocksPerGroup
                    <6>4. start \in Nat /\ most \in Nat /\ start <= most /\ most < total
                        BY <6>1, <6>3
                    <6> HIDE DEF start, most
                    <6>5. total - start \in Nat
                        BY <2>2, <6>4
                    <6> QED BY <6>2, <6>5 DEF start
                <5>2. GroupBlocks(g) \in {BlocksPerGroup, total - g * BlocksPerGroup}
                    BY <5>1, MinIsLeast DEF GroupBlocks
                <5> QED BY <5>1, <5>2
            <4> QED BY <2>3, <4>1, <4>2
        <3> QED BY <2>2, <3>1, MetadataIsInside
    <2>6. \A i \in DOMAIN Nodes : extents'[i] = <<>> /\ trees'[i] = <<>>
        BY <2>1
    <2>7. \A i \in DOMAIN Nodes : \A l, b \in Nat : ~Maps(extents'[i], l, b)
        BY <2>6 DEF Maps
    <2>8. \A i \in DOMAIN Nodes : Upto(i)' = 0
        BY <2>1, <2>2 DEF Upto
    <2>9. TreeBlocks' = {}
        BY <2>1 DEF TreeBlocks
    <2>10. TypeOK'
        BY <2>1, <2>2, <2>4, <2>5, <2>6 DEF IInv, TypeOK
    <2>11. Shape'
        <3>1. InOrder(<<>>, 0)
            BY DEF InOrder
        <3>2. DOMAIN extents' = DOMAIN Nodes /\ DOMAIN trees' = DOMAIN Nodes
              /\ DOMAIN disk' = 0..(total - 1)
            BY <2>1
        <3>3. node' <= Len(Nodes) => logical' <= Len(Nodes[node'].data)
            BY <2>1, <2>2
        <3>4. <<>> \in Seq(Nat)
            OBVIOUS
        <3> QED BY <2>1, <2>4, <2>6, <2>8, <3>1, <3>2, <3>3, <3>4 DEF Shape
    <2>12. Marked'
        BY <2>1, <2>4, <2>7, <2>9 DEF Marked
    <2>13. Alone' /\ Contents'
        BY <2>4, <2>7 DEF Alone, Contents
    <2>14. FreeIsBlank'
        BY <2>1 DEF FreeIsBlank
    <2>15. Covered'
        BY <2>4, <2>8 DEF Covered
    <2>16. job' \in Jobs /\ Planned' /\ pc' # "failed"
        BY <2>1, <2>4 DEF IInv, Planned
    <2> QED BY <2>10, <2>11, <2>12, <2>13, <2>14, <2>15, <2>16 DEF IInv
<1> QED BY <1>1, <1>2

(* One more group: the plan's inodes fit as before.                        *)
LEMMA GrowKeeps ==
    ASSUME IInv, Grow
    PROVE  IInv'
<1>1. /\ attempt < MaxAttempts /\ total' = total + BlocksPerGroup /\ attempt' = attempt + 1
      /\ pc' = "layout" /\ reason' = "none"
      /\ UNCHANGED <<job, used, next, node, logical, extents, trees, disk>>
    BY DEF Grow, CanGrow, GrowTo
<1>2. /\ total \in Nat /\ attempt \in 1..MaxAttempts /\ next \in 0..total
      /\ used \subseteq 0..(total - 1) /\ BlocksPerGroup \in Nat
    BY GeometryAssumption DEF IInv, TypeOK
<1>3. Nodes' = Nodes
    BY <1>1 DEF Nodes
<1>4. /\ total' \in Nat /\ total <= total' /\ attempt' \in 1..MaxAttempts
      /\ next' \in 0..total'
    BY <1>1, <1>2, FanoutAssumption
<1>5. used' \subseteq 0..(total' - 1)
    <2>1. \A b \in used : b \in 0..(total' - 1)
        BY <1>1, <1>2, <1>4
    <2> QED BY <1>1, <2>1
<1>6. TypeOK'
    BY <1>1, <1>3, <1>4, <1>5 DEF IInv, TypeOK
<1>7. Planned'
    <2>1. PICK groups \in Nat \ {0} : /\ groups * BlocksPerGroup <= total
                                      /\ Len(Nodes) + InodeMargin <= groups * InodesPerGroup
        BY DEF IInv, Planned
    <2> DEFINE blocks == groups * BlocksPerGroup
    <2>2. blocks \in Nat /\ blocks <= total
        BY <1>2, <2>1
    <2> HIDE DEF blocks
    <2>3. blocks <= total'
        BY <1>2, <1>4, <2>2
    <2> QED BY <1>3, <2>1, <2>3 DEF Planned, blocks
<1>8. job' \in Jobs /\ ~Working' /\ pc' # "failed"
    BY <1>1 DEF IInv, Working
<1> QED BY <1>6, <1>7, <1>8 DEF IInv

(* The plan of the first round has room for the inodes.                    *)
LEMMA InitIInv == Init => IInv
<1> SUFFICES ASSUME Init PROVE IInv
    OBVIOUS
<1>1. /\ job \in Jobs /\ pc = "layout" /\ reason = "none" /\ attempt = 1
      /\ total = TargetBlocks(Nodes, job.shared, job.compact, job.reserve, job.inputBlocks)
      /\ used = {} /\ next = 0 /\ node = 1 /\ logical = 0
      /\ extents = <<>>
    BY DEF Init, Nodes
<1>2. /\ Nodes \in Seq(Node) /\ Len(Nodes) \in Nat
      /\ job.shared \in BOOLEAN /\ job.compact \in BOOLEAN
      /\ job.reserve \in Nat /\ job.inputBlocks \in Nat
    BY <1>1, JobFacts
<1>3. total \in Nat /\ Planned
    BY <1>1, <1>2, PlanHoldsInodes DEF Planned
<1>4. DOMAIN extents = {} /\ 1 \in 1..MaxAttempts
    BY <1>1, FanoutAssumption
<1>5. TypeOK
    BY <1>1, <1>2, <1>3, <1>4 DEF TypeOK
<1>6. ~Working /\ pc # "failed"
    BY <1>1 DEF Working
<1> QED BY <1>1, <1>3, <1>5, <1>6 DEF IInv

(* Every step keeps the invariant.                                          *)
LEMMA StepIInv == IInv /\ [Next]_vars => IInv'
<1> SUFFICES ASSUME IInv, [Next]_vars PROVE IInv'
    OBVIOUS
<1>1. CASE LayoutGroups
    BY <1>1, LayoutGroupsKeeps
<1>2. CASE SkipHole
    BY <1>2, SkipHoleKeeps
<1>3. CASE ShareBlock
    BY <1>3, ShareBlockKeeps
<1>4. CASE PlaceShared
    BY <1>4, PlaceSharedKeeps
<1>5. CASE PlaceRun
    BY <1>5, PlaceRunKeeps
<1>6. CASE PlaceNext \/ PlaceDone \/ TreeNext \/ TreeDone \/ WriteDone
    BY <1>6, NextNodeKeeps
<1>7. CASE GrowTree
    BY <1>7, GrowTreeKeeps
<1>8. CASE WriteNode
    BY <1>8, WriteNodeKeeps
<1>9. CASE Grow
    BY <1>9, GrowKeeps
<1>10. CASE Finished \/ UNCHANGED vars
    <2>1. UNCHANGED vars
        BY <1>10 DEF Finished
    <2>2. /\ job' = job /\ pc' = pc /\ reason' = reason /\ total' = total
          /\ attempt' = attempt /\ used' = used /\ next' = next /\ node' = node
          /\ logical' = logical /\ extents' = extents /\ trees' = trees /\ disk' = disk
        BY <2>1 DEF vars
    <2>3. Nodes' = Nodes /\ Metadata' = Metadata /\ TreeBlocks' = TreeBlocks
          /\ \A i : NodeShares(i)' = NodeShares(i)
        BY <2>2 DEF Nodes, Metadata, MetaOf, Groups, TreeBlocks, NodeShares
    <2>4. \A i \in DOMAIN Nodes : Upto(i)' = Upto(i)
        BY <2>2, <2>3 DEF Upto
    <2>5. TypeOK' /\ job' \in Jobs /\ Planned' /\ (pc' = "failed" => reason' # "none")
        BY <2>2, <2>3 DEF IInv, TypeOK, Planned
    <2>6. ASSUME Working
          PROVE  Shape' /\ Marked' /\ Alone' /\ Contents' /\ FreeIsBlank' /\ Covered'
        <3>1. Shape /\ Marked /\ Alone /\ Contents /\ FreeIsBlank /\ Covered
            BY <2>6 DEF IInv
        <3>2. Shape'
            BY <2>2, <2>3, <2>4, <3>1 DEF Shape
        <3>3. Marked'
            BY <2>2, <2>3, <3>1 DEF Marked
        <3>4. Alone'
            BY <2>2, <2>3, <3>1 DEF Alone
        <3>5. Contents'
            BY <2>2, <2>3, <3>1 DEF Contents
        <3>6. FreeIsBlank'
            BY <2>2, <3>1 DEF FreeIsBlank
        <3>7. Covered'
            BY <2>2, <2>3, <2>4, <3>1 DEF Covered
        <3> QED BY <3>2, <3>3, <3>4, <3>5, <3>6, <3>7
    <2>7. Working' = Working
        BY <2>2 DEF Working
    <2> QED BY <2>5, <2>6, <2>7 DEF IInv
<1> QED BY <1>1, <1>2, <1>3, <1>4, <1>5, <1>6, <1>7, <1>8, <1>9, <1>10 DEF Next

(* The invariant holds whatever is built and however often it has to grow. *)
THEOREM BuildInvariant == Spec => []IInv
<1> QED BY InitIInv, StepIInv, PTL DEF Spec

(* The types: no extent is longer than a group or, of a directory, than an *)
(* extent can say, and the allocator stays on the image.                   *)
THEOREM Ext4Types == Spec => []TypeOK
<1>1. IInv => TypeOK
    BY DEF IInv
<1> QED BY <1>1, BuildInvariant, PTL

-----------------------------------------------------------------------------
(* What the invariant says of extents, block by block.                     *)

(* What a node refers to is what its extents map.                          *)
LEMMA SpansAreMapped ==
    ASSUME NEW exts, NEW upto \in Nat, InOrder(exts, upto)
    PROVE  /\ \A j \in DOMAIN exts : \A b \in Span(exts[j]) :
                  /\ b \in Nat /\ exts[j][1] + (b - exts[j][2]) \in Nat
                  /\ Maps(exts, exts[j][1] + (b - exts[j][2]), b)
           /\ \A l, b \in Nat : Maps(exts, l, b) => \E j \in DOMAIN exts : b \in Span(exts[j])
           /\ \A j, k \in DOMAIN exts : \A b \in Span(exts[j]) \cap Span(exts[k]) :
                  exts[j][1] + (b - exts[j][2]) = exts[k][1] + (b - exts[k][2]) => j = k
<1>1. exts \in Seq(Extent) /\ DOMAIN exts = 1..Len(exts) /\ Len(exts) \in Nat
    BY DEF InOrder
<1>2. \A j \in DOMAIN exts : exts[j][1] \in Nat /\ exts[j][2] \in Nat /\ exts[j][3] \in Nat
    <2> TAKE j \in DOMAIN exts
    <2>1. exts[j] \in Extent
        BY <1>1
    <2> QED BY <2>1 DEF Extent
<1>3. ASSUME NEW j \in DOMAIN exts, NEW b \in Span(exts[j])
      PROVE  /\ b \in Nat /\ exts[j][1] + (b - exts[j][2]) \in Nat
             /\ exts[j][1] <= exts[j][1] + (b - exts[j][2])
             /\ exts[j][1] + (b - exts[j][2]) < exts[j][1] + exts[j][3]
             /\ b = exts[j][2] + ((exts[j][1] + (b - exts[j][2])) - exts[j][1])
    BY <1>2, <1>3 DEF Span
<1>4. ASSUME NEW j \in DOMAIN exts, NEW b \in Span(exts[j])
      PROVE  Maps(exts, exts[j][1] + (b - exts[j][2]), b)
    BY <1>3, <1>4 DEF Maps
<1>5. ASSUME NEW l \in Nat, NEW b \in Nat, Maps(exts, l, b)
      PROVE  \E j \in DOMAIN exts : b \in Span(exts[j])
    <2>1. PICK j \in DOMAIN exts : /\ exts[j][1] <= l /\ l < exts[j][1] + exts[j][3]
                                   /\ b = exts[j][2] + (l - exts[j][1])
        BY <1>5 DEF Maps
    <2>2. b \in Span(exts[j])
        BY <1>2, <2>1 DEF Span
    <2> QED BY <2>2
<1>6. ASSUME NEW j \in DOMAIN exts, NEW k \in DOMAIN exts,
             NEW b \in Span(exts[j]) \cap Span(exts[k]),
             exts[j][1] + (b - exts[j][2]) = exts[k][1] + (b - exts[k][2])
      PROVE  j = k
    <2> DEFINE x == exts[j][1] + (b - exts[j][2])
    <2>1. /\ exts[j][1] <= x /\ x < exts[j][1] + exts[j][3]
          /\ exts[k][1] <= x /\ x < exts[k][1] + exts[k][3] /\ x \in Nat
        BY <1>3, <1>6
    <2> HIDE DEF x
    <2>2. \A m, n \in 1..Len(exts) : m < n => exts[m][1] + exts[m][3] <= exts[n][1]
        BY DEF InOrder
    <2>3. ~(j < k)
        <3>1. j < k => exts[j][1] + exts[j][3] <= exts[k][1]
            BY <1>1, <2>2
        <3> QED BY <1>2, <2>1, <3>1
    <2>4. ~(k < j)
        <3>1. k < j => exts[k][1] + exts[k][3] <= exts[j][1]
            BY <1>1, <2>2
        <3> QED BY <1>2, <2>1, <3>1
    <2> QED BY <1>1, <2>3, <2>4
<1> QED BY <1>3, <1>4, <1>5, <1>6

(* The state of an image that is being or has been filled.                 *)
LEMMA WorkingFacts ==
    ASSUME IInv, Working
    PROVE  /\ Shape /\ Marked /\ Alone /\ Contents /\ Covered
           /\ DOMAIN Nodes = 1..Len(Nodes) /\ Len(Nodes) \in Nat
           /\ DOMAIN extents = DOMAIN Nodes
           /\ \A i \in DOMAIN Nodes : Upto(i) \in Nat /\ InOrder(extents[i], Upto(i))
           /\ \A b : b \in Referred <=> \E i \in DOMAIN Nodes : \E l \in Nat :
                                            b \in Nat /\ Maps(extents[i], l, b)
<1>1. /\ DOMAIN Nodes = 1..Len(Nodes) /\ Len(Nodes) \in Nat /\ logical \in Nat
      /\ \A i \in DOMAIN Nodes : Len(Nodes[i].data) \in Nat
    BY JobFacts DEF IInv, TypeOK
<1>2. Shape /\ Marked /\ Alone /\ Contents /\ Covered
    BY DEF IInv
<1>3. DOMAIN extents = DOMAIN Nodes
    BY <1>2 DEF Shape
<1>4. \A i \in DOMAIN Nodes : Upto(i) \in Nat /\ InOrder(extents[i], Upto(i))
    BY <1>1, <1>2 DEF Shape, Upto
<1>5. ASSUME NEW b
      PROVE  b \in Referred <=> \E i \in DOMAIN Nodes : \E l \in Nat :
                                    b \in Nat /\ Maps(extents[i], l, b)
    <2>1. b \in Referred <=> \E i \in DOMAIN Nodes : \E j \in DOMAIN extents[i] :
                                 b \in Span(extents[i][j])
        BY <1>3 DEF Referred
    <2>2. ASSUME NEW i \in DOMAIN Nodes
          PROVE  (\E j \in DOMAIN extents[i] : b \in Span(extents[i][j]))
                     <=> \E l \in Nat : b \in Nat /\ Maps(extents[i], l, b)
        <3> DEFINE exts == extents[i]
        <3>1. Upto(i) \in Nat /\ InOrder(exts, Upto(i))
            BY <1>4
        <3> HIDE DEF exts
        <3>2. /\ \A j \in DOMAIN exts : \A x \in Span(exts[j]) :
                     /\ x \in Nat /\ exts[j][1] + (x - exts[j][2]) \in Nat
                     /\ Maps(exts, exts[j][1] + (x - exts[j][2]), x)
              /\ \A l, x \in Nat : Maps(exts, l, x) =>
                     \E j \in DOMAIN exts : x \in Span(exts[j])
            BY <3>1, SpansAreMapped
        <3> QED BY <3>2 DEF exts
    <2> QED BY <2>1, <2>2
<1> QED BY <1>1, <1>2, <1>3, <1>4, <1>5

(* Payloads go to fresh blocks (README.md:57): no metadata, no tree block, *)
(* and two nodes refer to one block only if both share and agree on it.    *)
THEOREM BlocksNeverClash == Spec => []BlocksHaveOneOwner
<1>1. ASSUME IInv, Working
      PROVE  BlocksHaveOneOwner
    <2>1. Shape /\ Marked /\ Alone /\ Contents
          /\ DOMAIN extents = DOMAIN Nodes
          /\ \A i \in DOMAIN Nodes : Upto(i) \in Nat /\ InOrder(extents[i], Upto(i))
        BY <1>1, WorkingFacts
    <2>2. \A b : b \in Referred <=> \E i \in DOMAIN Nodes : \E l \in Nat :
                                        b \in Nat /\ Maps(extents[i], l, b)
        BY <1>1, WorkingFacts
    <2>3. Referred \cap Metadata = {} /\ TreeBlocks \cap (Metadata \cup Referred) = {}
        BY <2>1, <2>2 DEF Marked
    <2>4. ASSUME NEW i1 \in DOMAIN extents, NEW i2 \in DOMAIN extents,
                 NEW j1 \in DOMAIN extents[i1], NEW j2 \in DOMAIN extents[i2],
                 <<i1, j1>> # <<i2, j2>>,
                 NEW b \in Span(extents[i1][j1]) \cap Span(extents[i2][j2])
          PROVE  /\ Shares(job.shared, Nodes[i1]) /\ Shares(job.shared, Nodes[i2])
                 /\ Nodes[i1].data[extents[i1][j1][1] + b - extents[i1][j1][2] + 1]
                    = Nodes[i2].data[extents[i2][j2][1] + b - extents[i2][j2][2] + 1]
        <3> DEFINE l1 == extents[i1][j1][1] + (b - extents[i1][j1][2])
                   l2 == extents[i2][j2][1] + (b - extents[i2][j2][2])
        <3>1. /\ i1 \in DOMAIN Nodes /\ i2 \in DOMAIN Nodes
              /\ b \in Nat /\ l1 \in Nat /\ Maps(extents[i1], l1, b)
              /\ l2 \in Nat /\ Maps(extents[i2], l2, b)
            BY <2>1, <2>4, SpansAreMapped
        <3>2. i1 = i2 => l1 # l2
            <4> SUFFICES ASSUME i1 = i2, l1 = l2 PROVE FALSE
                OBVIOUS
            <4>1. j1 = j2
                BY <2>1, <2>4, <3>1, SpansAreMapped
            <4> QED BY <2>4, <4>1
        <3>3. NodeShares(i1) /\ NodeShares(i2)
            BY <2>1, <3>1, <3>2 DEF Alone
        <3>4. Nodes[i1].data[l1 + 1] = Nodes[i2].data[l2 + 1]
            BY <2>1, <3>1, <3>3 DEF Contents
        <3>5. /\ l1 + 1 = extents[i1][j1][1] + b - extents[i1][j1][2] + 1
              /\ l2 + 1 = extents[i2][j2][1] + b - extents[i2][j2][2] + 1
            <4>1. /\ extents[i1][j1] \in Extent /\ extents[i2][j2] \in Extent
                BY <2>1, <2>4, <3>1 DEF InOrder
            <4> QED BY <3>1, <4>1 DEF Extent
        <3> QED BY <3>3, <3>4, <3>5 DEF NodeShares
    <2> QED BY <2>3, <2>4 DEF BlocksHaveOneOwner
<1>2. IInv => BlocksHaveOneOwner
    BY <1>1 DEF BlocksHaveOneOwner, Working
<1> QED BY <1>2, BuildInvariant, PTL

(* What is taken is what is referred to.                                   *)
LEMMA UsedIsReferred ==
    ASSUME IInv, Working
    PROVE  used = Metadata \cup Referred \cup TreeBlocks
<1>1. Marked /\ used \subseteq Nat
    <2>1. Marked /\ total \in Nat /\ used \subseteq 0..(total - 1)
        BY DEF IInv, TypeOK
    <2> QED BY <2>1
<1>2. \A b : b \in Referred <=> \E i \in DOMAIN Nodes : \E l \in Nat :
                                    b \in Nat /\ Maps(extents[i], l, b)
    BY WorkingFacts
<1>3. \A b : b \in used <=> b \in Metadata \/ b \in Referred \/ b \in TreeBlocks
    BY <1>1, <1>2 DEF Marked
<1> QED BY <1>3

(* The block bitmaps mark what is referred to and nothing else, which is   *)
(* what e2fsck compares (README.md:209).                                   *)
THEOREM BitmapIsExact == Spec => []BitmapAgrees
<1>1. IInv => BitmapAgrees
    BY UsedIsReferred DEF BitmapAgrees, Working
<1> QED BY <1>1, BuildInvariant, PTL

(* Every inode number falls into a group that the image has: the writer    *)
(* indexes the groups' tables with it unchecked.                           *)
THEOREM InodesAlwaysFit == Spec => []InodesFit
<1>1. ASSUME IInv, NEW i \in DOMAIN Nodes
      PROVE  (Nid(i) - 1) \div InodesPerGroup < Groups
    <2>1. /\ DOMAIN Nodes = 1..Len(Nodes) /\ Len(Nodes) \in Nat /\ total \in Nat
          /\ InodesPerGroup \in Nat \ {0} /\ BlocksPerGroup \in Nat \ {0}
        BY <1>1, JobFacts, GeometryAssumption DEF IInv, TypeOK
    <2>2. PICK groups \in Nat \ {0} : /\ groups * BlocksPerGroup <= total
                                      /\ Len(Nodes) + InodeMargin <= groups * InodesPerGroup
        BY <1>1 DEF IInv, Planned
    <2>3. Groups \in Nat /\ (Groups - 1) * BlocksPerGroup < total
          /\ total <= Groups * BlocksPerGroup
        BY <2>1, CeilRoundsUp DEF Groups
    <2>4. groups <= Groups
        <3> SUFFICES ASSUME Groups + 1 <= groups PROVE FALSE
            BY <2>2, <2>3
        <3> DEFINE has == Groups * BlocksPerGroup
                   more == (Groups + 1) * BlocksPerGroup
                   blocks == groups * BlocksPerGroup
        <3>1. has \in Nat /\ blocks \in Nat /\ more <= blocks
            BY <2>1, <2>2, <2>3, ProductsGrow
        <3>2. more = has + BlocksPerGroup
            BY <2>1, <2>3
        <3>3. blocks <= total /\ total <= has
            BY <2>2, <2>3
        <3> HIDE DEF has, more, blocks
        <3> QED BY <2>1, <3>1, <3>2, <3>3
    <2> DEFINE n == Nid(i) - 1
               q == n \div InodesPerGroup
               room == groups * InodesPerGroup
               start == q * InodesPerGroup
    <2>5. n \in Nat /\ n < Len(Nodes) + InodeMargin
        BY <1>1, <2>1, GeometryAssumption DEF Nid
    <2> HIDE DEF n
    <2>6. q \in Nat /\ start \in Nat /\ start <= n
        <3>1. n = InodesPerGroup * q + (n % InodesPerGroup) /\ n % InodesPerGroup \in Nat
              /\ q \in Nat
            BY <2>1, <2>5
        <3> HIDE DEF q
        <3>2. InodesPerGroup * q = start
            BY <2>1, <3>1
        <3>3. start \in Nat
            BY <2>1, <3>1
        <3> HIDE DEF start
        <3> QED BY <2>5, <3>1, <3>2, <3>3
    <2>7. room \in Nat /\ Len(Nodes) + InodeMargin <= room
        BY <2>1, <2>2
    <2>8. q < groups
        <3> SUFFICES ASSUME groups <= q PROVE FALSE
            BY <2>2, <2>6
        <3>1. room <= start
            BY <2>1, <2>2, <2>6, ProductsGrow
        <3> HIDE DEF room, start
        <3> QED BY <2>1, <2>5, <2>6, <2>7, <3>1, GeometryAssumption
    <2> HIDE DEF q
    <2>9. q < Groups
        BY <2>2, <2>3, <2>4, <2>6, <2>8
    <2> QED BY <2>9 DEF q, n
<1>2. IInv => InodesFit
    BY <1>1 DEF InodesFit
<1> QED BY <1>2, BuildInvariant, PTL

(* A finished image gives every file and directory back block for block,   *)
(* whatever was shared, skipped as a hole or merged into an extent, and    *)
(* whatever a retry left behind of the round before.                       *)
THEOREM FilesAlwaysReadBack == Spec => []FilesReadBack
<1>1. ASSUME IInv, pc = "done", NEW i \in DOMAIN Nodes, TakesBlocks(Nodes[i]),
             Reachable(i) = DOMAIN extents[i], NEW l \in 0..(Len(Nodes[i].data) - 1)
      PROVE  FileBlock(i, l) = Nodes[i].data[l + 1]
    <2> DEFINE exts == extents[i]
               hit == {j \in DOMAIN exts : exts[j][1] <= l /\ l < exts[j][1] + exts[j][3]}
    <2>1. /\ Contents /\ Covered /\ Upto(i) \in Nat /\ InOrder(exts, Upto(i))
          /\ l \in Nat /\ Upto(i) = Len(Nodes[i].data)
        BY <1>1, WorkingFacts DEF Working, Upto
    <2>2. /\ exts \in Seq(Extent) /\ DOMAIN exts = 1..Len(exts) /\ Len(exts) \in Nat
        BY <2>1 DEF InOrder
    <2>3. FileBlock(i, l) = IF hit = {} THEN Zero
                            ELSE disk[exts[Max(hit)][2] + l - exts[Max(hit)][1]]
        BY <1>1 DEF FileBlock
    <2>4. CASE hit = {}
        <3>1. \A b \in Nat : ~Maps(exts, l, b)
            BY <2>4 DEF Maps
        <3>2. Nodes[i].data[l + 1] = Zero
            BY <1>1, <2>1, <3>1 DEF Covered
        <3> QED BY <2>3, <2>4, <3>2
    <2>5. CASE hit # {}
        <3>1. Max(hit) \in hit
            <4>1. hit \subseteq 0..Len(exts)
                BY <2>2
            <4> QED BY <2>2, <2>5, <4>1, MaxIsGreatest
        <3> DEFINE m == Max(hit)
                   b == exts[m][2] + l - exts[m][1]
        <3>2. m \in DOMAIN exts /\ exts[m][1] <= l /\ l < exts[m][1] + exts[m][3]
            BY <3>1
        <3> HIDE DEF m
        <3>3. exts[m] \in Extent
            BY <2>2, <3>2
        <3>4. b \in Nat /\ b = exts[m][2] + (l - exts[m][1])
            BY <2>1, <3>2, <3>3 DEF Extent
        <3>5. Maps(exts, l, b)
            BY <3>2, <3>4 DEF Maps
        <3> HIDE DEF b
        <3>6. disk[b] = Nodes[i].data[l + 1]
            BY <1>1, <2>1, <3>4, <3>5 DEF Contents
        <3> QED BY <2>3, <2>5, <3>6 DEF b, m
    <2> QED BY <2>4, <2>5
<1>2. IInv => FilesReadBack
    BY <1>1 DEF FilesReadBack
<1> QED BY <1>2, BuildInvariant, PTL

-----------------------------------------------------------------------------
(* The room for what a plan foresees.  The allocator only moves on, past   *)
(* blocks that are taken, so that when it finds none the whole image is;   *)
(* and what is taken is the metadata, the tree blocks and no more blocks   *)
(* of data than were planned.                                              *)
Roomy ==
    /\ \A g \in 0..(Groups - 1) : MetaBlocks(Groups) <= GroupBlocks(g)
    /\ \A b \in 0..(next - 1) : b \in used
    /\ \A i \in DOMAIN Nodes : ~TakesBlocks(Nodes[i]) => extents[i] = <<>>

RoomInv ==
    /\ PlanBlocks <= total
    /\ Working => Roomy
    /\ reason = "no_free" => pc = "failed"

(* The metadata is as many blocks as the groups spend on it.               *)
LEMMA MetadataIsCounted ==
    ASSUME total \in Nat
    PROVE  /\ Groups \in Nat /\ Groups * MetaBlocks(Groups) \in Nat
           /\ IsFiniteSet(Metadata) /\ Cardinality(Metadata) <= Groups * MetaBlocks(Groups)
<1> DEFINE m == MetaBlocks(Groups)
           Part(n) == UNION {MetaOf(g) : g \in 0..(n - 1)}
           Odd == {n \in Nat : ~(IsFiniteSet(Part(n)) /\ Cardinality(Part(n)) <= n * m)}
<1>1. Groups \in Nat /\ m \in Nat \ {0} /\ BlocksPerGroup \in Nat
    BY GroupsStartWithMetadata, MetadataTakesBlocks, GeometryAssumption
<1>2. \A g \in Nat : IsFiniteSet(MetaOf(g)) /\ Cardinality(MetaOf(g)) = m
    <2> TAKE g \in Nat
    <2> DEFINE start == g * BlocksPerGroup
    <2>1. start \in Nat
        BY <1>1
    <2>2. MetaOf(g) = start..(start + m - 1)
        BY DEF MetaOf
    <2> HIDE DEF start, m
    <2>3. start \in Int /\ start + m - 1 \in Int /\ ~(start > start + m - 1)
        BY <1>1, <2>1
    <2>4. (start + m - 1) - start + 1 = m
        BY <1>1, <2>1
    <2> QED BY <2>2, <2>3, <2>4, FS_Interval
<1> HIDE DEF m
<1>3. Odd = {}
    <2> SUFFICES ASSUME Odd # {} PROVE FALSE
        OBVIOUS
    <2>1. Odd \subseteq Nat
        OBVIOUS
    <2> HIDE DEF Odd
    <2>2. PICK n \in Odd : \A k \in Odd : n <= k
        BY <2>1, LeastElement
    <2>3. n \in Nat /\ ~(IsFiniteSet(Part(n)) /\ Cardinality(Part(n)) <= n * m)
        BY <2>2 DEF Odd
    <2>4. CASE n = 0
        <3>1. Part(n) = {}
            BY <2>4
        <3>2. n * m = 0
            BY <1>1, <2>4
        <3> HIDE DEF Part
        <3> QED BY <2>3, <3>1, <3>2, FS_EmptySet
    <2>5. CASE n # 0
        <3> DEFINE k == n - 1
        <3>1. k \in Nat /\ n = k + 1 /\ ~(n <= k)
            BY <2>3, <2>5
        <3>2. Part(n) = Part(k) \cup MetaOf(k)
            <4>1. 0..(n - 1) = 0..(k - 1) \cup {k}
                BY <3>1
            <4> HIDE DEF k
            <4> QED BY <4>1
        <3> HIDE DEF k
        <3>3. k \notin Odd
            BY <2>2, <3>1
        <3>4. IsFiniteSet(Part(k)) /\ Cardinality(Part(k)) <= k * m
            BY <3>1, <3>3 DEF Odd
        <3> DEFINE A == Part(k)
                   B == MetaOf(k)
        <3>5. IsFiniteSet(A) /\ Cardinality(A) <= k * m /\ IsFiniteSet(B) /\ Cardinality(B) = m
              /\ Part(n) = A \cup B
            BY <1>2, <3>1, <3>2, <3>4
        <3> HIDE DEF A, B, Part
        <3>6. /\ IsFiniteSet(A \cup B)
              /\ Cardinality(A \cup B) = Cardinality(A) + Cardinality(B) - Cardinality(A \cap B)
            BY <3>5, FS_Union
        <3>7. Cardinality(A) \in Nat /\ Cardinality(A \cap B) \in Nat
            BY <3>5, FS_CardinalityType, FS_Intersection
        <3>8. k * m \in Nat /\ n * m = k * m + m
            BY <1>1, <3>1
        <3>9. Cardinality(A \cup B) <= n * m
            BY <1>1, <3>5, <3>6, <3>7, <3>8
        <3> QED BY <2>3, <3>5, <3>6, <3>9
    <2> QED BY <2>4, <2>5
<1>4. IsFiniteSet(Part(Groups)) /\ Cardinality(Part(Groups)) <= Groups * m
    BY <1>1, <1>3
<1>5. Part(Groups) = Metadata
    BY DEF Metadata
<1>6. Groups * m \in Nat
    BY <1>1
<1> QED BY <1>1, <1>4, <1>5, <1>6 DEF m

(* When every group has room for its metadata, the groups of an image that *)
(* is larger than a plan leave no less beside it than those of the plan.   *)
LEMMA MoreGroupsLeaveMore ==
    ASSUME total \in Nat, \A g \in 0..(Groups - 1) : MetaBlocks(Groups) <= GroupBlocks(g),
           NEW planned \in Nat, planned * BlocksPerGroup <= total
    PROVE  planned * BlocksPerGroup - planned * MetaBlocks(Groups)
               <= total - Groups * MetaBlocks(Groups)
<1> DEFINE G == Groups
           m == MetaBlocks(G)
           size == BlocksPerGroup
<1>1. /\ G \in Nat /\ m \in Nat \ {0} /\ size \in Nat \ {0}
      /\ total <= G * size /\ (G - 1) * size < total
    BY CeilRoundsUp, MetadataTakesBlocks, GeometryAssumption DEF Groups
<1>2. planned <= G
    <2> SUFFICES ASSUME G < planned PROVE FALSE
        BY <1>1
    <2>1. G + 1 <= planned /\ G + 1 \in Nat
        BY <1>1
    <2> HIDE DEF G
    <2>2. (G + 1) * size <= planned * size
        BY <1>1, <2>1, ProductsGrow
    <2>3. (G + 1) * size = G * size + size /\ G * size \in Nat /\ planned * size \in Nat
        BY <1>1
    <2> QED BY <1>1, <2>2, <2>3
<1>3. CASE planned = G
    <2> HIDE DEF G, m
    <2>1. G * size \in Nat /\ G * m \in Nat
        BY <1>1
    <2>2. G * size - G * m <= total - G * m
        BY <1>1, <1>3, <2>1
    <2> QED BY <1>3, <2>2 DEF G, m
<1>4. CASE planned < G
    <2> DEFINE d == G - 1 - planned
               last == total - (G - 1) * size
    <2>1. d \in Nat /\ G = planned + d + 1 /\ G - 1 = planned + d
        BY <1>1, <1>4
    <2>2. (G - 1) * size \in Nat /\ last \in Nat
        BY <1>1, <2>1
    <2>3. GroupBlocks(G - 1) = Min({size, last})
        BY DEF GroupBlocks
    <2>4. G - 1 \in 0..(Groups - 1)
        BY <1>1, <2>1
    <2>5. m <= GroupBlocks(G - 1)
        BY <2>4
    <2> HIDE DEF G, m, d, last
    <2>6. Min({size, last}) \in Nat /\ Min({size, last}) <= size /\ Min({size, last}) <= last
        <3>1. {size, last} \subseteq Nat /\ {size, last} # {}
            BY <1>1, <2>2
        <3>2. Min({size, last}) \in {size, last} /\ \A y \in {size, last} : Min({size, last}) <= y
            BY <3>1, MinIsLeast
        <3> QED BY <3>1, <3>2
    <2>7. m <= size /\ m <= last
        BY <1>1, <2>2, <2>3, <2>5, <2>6
    <2>8. d * m <= d * size /\ d * m \in Nat /\ d * size \in Nat
        <3>1. m * d <= size * d
            BY <1>1, <2>1, <2>7, ProductsGrow
        <3> QED BY <1>1, <2>1, <3>1
    <2>9. /\ (planned + d) * size = planned * size + d * size
          /\ (planned + d + 1) * m = planned * m + d * m + m
        BY <1>1, <2>1
    <2>10. planned * size \in Nat /\ planned * m \in Nat
        BY <1>1
    <2>11. total = planned * size + d * size + last
        BY <1>1, <2>1, <2>2, <2>8, <2>9, <2>10 DEF last
    <2>12. planned * size - planned * m <= total - G * m
        <3>1. G * m = planned * m + d * m + m
            BY <2>1, <2>9
        <3> QED BY <1>1, <2>2, <2>7, <2>8, <2>10, <2>11, <3>1
    <2> QED BY <2>12 DEF G, m
<1> QED BY <1>1, <1>2, <1>3, <1>4

(* So it has room for what was planned.                                    *)
LEMMA PlanLeavesMargin ==
    ASSUME job \in Jobs, HasMargin(job), ~(job.shared /\ job.compact),
           total \in Nat, PlanBlocks <= total,
           \A g \in 0..(Groups - 1) : MetaBlocks(Groups) <= GroupBlocks(g),
           DescriptorBlocks(Groups) = DescriptorBlocks(PlanBlocks \div BlocksPerGroup)
    PROVE  /\ Margin(job.reserve) \in Nat /\ DataBlocks(Nodes, FALSE) \in Nat
           /\ Groups * MetaBlocks(Groups) + DataBlocks(Nodes, FALSE) + Len(Nodes)
                  + Margin(job.reserve) <= total
<1> DEFINE data == DataBlocks(Nodes, FALSE)
           m == MetaBlocks(Groups)
           room == Margin(job.reserve)
<1>1. /\ Nodes \in Seq(Node) /\ Len(Nodes) \in Nat /\ job.reserve \in Nat
      /\ (job.shared /\ job.compact) = FALSE
    BY JobFacts
<1>2. data \in Nat
    BY <1>1, DataIsCounted
<1>3. room \in Nat
    <2>1. BlocksPerGroup \div 4 \in Nat
        BY GeometryAssumption
    <2> QED BY <1>1, <2>1 DEF Margin, AtLeast
<1>4. PlanBlocks = PlanTotal(Nodes, FALSE, job.reserve)
    BY <1>1 DEF PlanBlocks, Nodes
<1>5. PICK groups \in Nat \ {0} : /\ PlanBlocks = groups * BlocksPerGroup
                                 /\ PlanBlocks \div BlocksPerGroup = groups
    BY <1>1, <1>4, PlanIsGroups
<1>6. groups * BlocksPerGroup - Need(Nodes, data, groups) >= room
    <2>1. PlanTotal(job.nodes, FALSE, job.reserve) \div BlocksPerGroup = groups
        BY <1>4, <1>5 DEF Nodes
    <2> QED BY <1>1, <2>1 DEF HasMargin, Nodes
<1>7. MetaBlocks(groups) = m
    BY <1>5 DEF MetaBlocks
<1>8. Need(Nodes, data, groups) = data + Len(Nodes) + groups * m
    BY <1>7 DEF Need
<1>9. groups * BlocksPerGroup - groups * m <= total - Groups * m
    BY <1>5, MoreGroupsLeaveMore
<1>10. Groups * m \in Nat /\ m \in Nat
    BY MetadataIsCounted, MetadataTakesBlocks
<1>11. groups * BlocksPerGroup \in Nat /\ groups * m \in Nat
    BY <1>10, GeometryAssumption
<1> HIDE DEF data, m, room
<1>12. Groups * m + data + Len(Nodes) + room <= total
    BY <1>1, <1>2, <1>3, <1>6, <1>8, <1>9, <1>10, <1>11
<1> QED BY <1>2, <1>3, <1>12 DEF data, m, room

(* A node takes no more blocks than it has placed.                         *)
LEMMA ExtentsAreCounted ==
    ASSUME NEW exts, NEW upto \in Nat, InOrder(exts, upto)
    PROVE  LET own == {b \in Nat : \E l \in Nat : Maps(exts, l, b)}
           IN  /\ IsFiniteSet(own) /\ Cardinality(own) <= upto
               /\ exts = <<>> => own = {}
<1> DEFINE own == {b \in Nat : \E l \in Nat : Maps(exts, l, b)}
           placed == {l \in 0..(upto - 1) : \E b \in Nat : Maps(exts, l, b)}
           g == [l \in placed |-> CHOOSE b \in Nat : Maps(exts, l, b)]
<1>1. /\ DOMAIN exts = 1..Len(exts) /\ Len(exts) \in Nat
      /\ \A j \in DOMAIN exts :
             /\ exts[j][1] \in Nat /\ exts[j][2] \in Nat /\ exts[j][3] \in Nat
             /\ exts[j][1] + exts[j][3] <= upto
      /\ \A j, k \in DOMAIN exts : j < k => exts[j][1] + exts[j][3] <= exts[k][1]
    <2>1. exts \in Seq(Extent) /\ DOMAIN exts = 1..Len(exts) /\ Len(exts) \in Nat
        BY DEF InOrder
    <2>2. \A j \in DOMAIN exts : exts[j] \in Extent
        BY <2>1
    <2>3. \A j \in DOMAIN exts :
              exts[j][1] \in Nat /\ exts[j][2] \in Nat /\ exts[j][3] \in Nat
        BY <2>2 DEF Extent
    <2>4. /\ \A j \in 1..Len(exts) : exts[j][1] + exts[j][3] <= upto
          /\ \A j, k \in 1..Len(exts) : j < k => exts[j][1] + exts[j][3] <= exts[k][1]
        BY DEF InOrder
    <2> QED BY ONLY <2>1, <2>3, <2>4
<1>2. \A l, b \in Nat : Maps(exts, l, b) => l \in 0..(upto - 1)
    BY <1>1 DEF Maps
<1>3. ASSUME NEW l \in Nat, NEW b \in Nat, NEW c \in Nat, Maps(exts, l, b), Maps(exts, l, c)
      PROVE  b = c
    <2>1. PICK j \in DOMAIN exts : /\ exts[j][1] <= l /\ l < exts[j][1] + exts[j][3]
                                   /\ b = exts[j][2] + (l - exts[j][1])
        BY <1>3 DEF Maps
    <2>2. PICK k \in DOMAIN exts : /\ exts[k][1] <= l /\ l < exts[k][1] + exts[k][3]
                                   /\ c = exts[k][2] + (l - exts[k][1])
        BY <1>3 DEF Maps
    <2>3. j = k
        <3>1. ~(j < k)
            <4>1. j < k => exts[j][1] + exts[j][3] <= exts[k][1]
                BY <1>1
            <4>2. exts[j][1] \in Nat /\ exts[j][3] \in Nat /\ exts[k][1] \in Nat
                BY <1>1
            <4> QED BY <2>1, <2>2, <4>1, <4>2
        <3>2. ~(k < j)
            <4>1. k < j => exts[k][1] + exts[k][3] <= exts[j][1]
                BY <1>1
            <4>2. exts[k][1] \in Nat /\ exts[k][3] \in Nat /\ exts[j][1] \in Nat
                BY <1>1
            <4> QED BY <2>1, <2>2, <4>1, <4>2
        <3>3. j \in Nat /\ k \in Nat
            BY <1>1
        <3> QED BY <3>1, <3>2, <3>3
    <2> QED BY <2>1, <2>2, <2>3
<1>4. g \in Surjection(placed, own)
    <2>1. \A l \in placed : g[l] \in Nat /\ Maps(exts, l, g[l]) /\ l \in Nat
        OBVIOUS
    <2>2. \A b \in own : \E l \in placed : g[l] = b
        <3> TAKE b \in own
        <3>1. PICK l \in Nat : b \in Nat /\ Maps(exts, l, b)
            OBVIOUS
        <3>2. l \in placed
            BY <1>2, <3>1
        <3>3. g[l] \in Nat /\ Maps(exts, l, g[l])
            BY <2>1, <3>2
        <3> HIDE DEF g
        <3>4. g[l] = b
            BY <1>3, <3>1, <3>3
        <3> QED BY <3>2, <3>4
    <2>3. g \in [placed -> own]
        <3>1. \A l \in placed : g[l] \in own
            BY <2>1
        <3>2. g = [l \in placed |-> g[l]]
            OBVIOUS
        <3> HIDE DEF g, placed, own
        <3> QED BY <3>1, <3>2
    <2> HIDE DEF g, placed, own
    <2> QED BY <2>2, <2>3 DEF Surjection
<1>5. IsFiniteSet(0..(upto - 1)) /\ Cardinality(0..(upto - 1)) = upto
    <2>1. 0 \in Int /\ upto - 1 \in Int /\ (upto - 1) - 0 + 1 = upto
        OBVIOUS
    <2>2. 0 > upto - 1 => upto = 0
        OBVIOUS
    <2> QED BY <2>1, <2>2, FS_Interval
<1>6. placed \in SUBSET (0..(upto - 1))
    OBVIOUS
<1>7. exts = <<>> => own = {}
    BY <1>1 DEF Maps
<1> HIDE DEF g, placed
<1>8. IsFiniteSet(placed) /\ Cardinality(placed) <= upto /\ Cardinality(placed) \in Nat
    BY <1>5, <1>6, FS_Subset, FS_CardinalityType
<1> HIDE DEF own
<1>9. IsFiniteSet(own) /\ Cardinality(own) <= Cardinality(placed) /\ Cardinality(own) \in Nat
    BY <1>4, <1>8, FS_Surjection, FS_CardinalityType
<1>10. Cardinality(own) <= upto
    BY <1>8, <1>9
<1> QED BY <1>7, <1>9, <1>10 DEF own

(* So what is taken is the metadata, the tree blocks and, at most, what a  *)
(* plan without hashes counts.                                             *)
LEMMA UsedIsCounted ==
    ASSUME IInv, Working, Roomy
    PROVE  /\ Cardinality(used) \in Nat /\ Cardinality(TreeBlocks) \in Nat
           /\ Cardinality(used) <= Groups * MetaBlocks(Groups) + DataBlocks(Nodes, FALSE)
                                       + Cardinality(TreeBlocks)
<1> DEFINE own == [i \in DOMAIN Nodes |->
                      {b \in Nat : \E l \in Nat : Maps(extents[i], l, b)}]
           meta == Groups * MetaBlocks(Groups)
           data == DataBlocks(Nodes, FALSE)
           R == Referred
           T == TreeBlocks
           M == Metadata
<1>1. /\ Nodes \in Seq(Node) /\ DOMAIN Nodes = 1..Len(Nodes) /\ Len(Nodes) \in Nat
      /\ total \in Nat /\ used \subseteq 0..(total - 1) /\ logical \in Nat
      /\ \A i \in DOMAIN Nodes : Len(Nodes[i].data) \in Nat
    BY JobFacts DEF IInv, TypeOK
<1>2. /\ \A i \in DOMAIN Nodes : Upto(i) \in Nat /\ InOrder(extents[i], Upto(i))
      /\ \A b : b \in R <=> \E i \in DOMAIN Nodes : \E l \in Nat :
                                b \in Nat /\ Maps(extents[i], l, b)
    BY WorkingFacts
<1>3. used = M \cup R \cup T
    BY UsedIsReferred
<1>4. ASSUME NEW i \in DOMAIN Nodes
      PROVE  /\ IsFiniteSet(own[i]) /\ Cardinality(own[i]) <= Len(Nodes[i].data)
             /\ ~TakesBlocks(Nodes[i]) => own[i] = {}
    <2>1. Upto(i) \in Nat /\ Upto(i) <= Len(Nodes[i].data)
        <3>1. pc = "place" /\ node <= Len(Nodes) => logical <= Len(Nodes[node].data)
            BY DEF IInv, Shape
        <3> QED BY <1>1, <3>1 DEF Upto
    <2> DEFINE exts == extents[i]
               upto == Upto(i)
               mine == {b \in Nat : \E l \in Nat : Maps(exts, l, b)}
    <2>2. InOrder(exts, upto) /\ own[i] = mine
        BY <1>2
    <2> HIDE DEF exts, upto
    <2>3. upto \in Nat
        BY <2>1 DEF upto
    <2>4. /\ IsFiniteSet(mine) /\ Cardinality(mine) <= upto
          /\ exts = <<>> => mine = {}
        BY ONLY <2>2, <2>3, ExtentsAreCounted
    <2>5. ~TakesBlocks(Nodes[i]) => exts = <<>>
        BY DEF Roomy, exts
    <2> HIDE DEF mine
    <2>6. Cardinality(mine) \in Nat
        BY <2>4, FS_CardinalityType
    <2>7. Cardinality(mine) <= Len(Nodes[i].data)
        BY <1>1, <2>1, <2>4, <2>6 DEF upto
    <2> HIDE DEF own
    <2> QED BY <2>2, <2>4, <2>5, <2>7
<1>5. UNION {own[i] : i \in DOMAIN Nodes} = R
    <2>1. \A i \in DOMAIN Nodes : own[i] = {b \in Nat : \E l \in Nat : Maps(extents[i], l, b)}
        OBVIOUS
    <2> HIDE DEF own, R
    <2>2. \A b : b \in UNION {own[i] : i \in DOMAIN Nodes}
                 <=> \E i \in DOMAIN Nodes : b \in own[i]
        OBVIOUS
    <2> QED BY <1>2, <2>1, <2>2
<1> HIDE DEF own
<1>6. IsFiniteSet(R) /\ Cardinality(R) <= data /\ data \in Nat
    <2>1. /\ IsFiniteSet(UNION {own[i] : i \in DOMAIN Nodes})
          /\ Cardinality(UNION {own[i] : i \in DOMAIN Nodes}) <= data
        BY <1>1, <1>4, DataIsEnough
    <2>2. data \in Nat
        BY <1>1, DataIsCounted
    <2> QED BY <1>5, <2>1, <2>2
<1>7. IsFiniteSet(M) /\ Cardinality(M) <= meta /\ meta \in Nat
    BY <1>1, MetadataIsCounted
<1>8. IsFiniteSet(used)
    <2>1. 0 \in Int /\ total - 1 \in Int
        BY <1>1
    <2>2. IsFiniteSet(0..(total - 1))
        BY <2>1, FS_Interval
    <2> QED BY <1>1, <2>2, FS_Subset
<1>9. IsFiniteSet(T)
    BY <1>3, <1>8, FS_Subset
<1> HIDE DEF M, R, T, meta, data
<1>10. /\ IsFiniteSet(M \cup R)
       /\ Cardinality(M \cup R) = Cardinality(M) + Cardinality(R) - Cardinality(M \cap R)
       /\ Cardinality(M \cap R) \in Nat /\ Cardinality(M) \in Nat /\ Cardinality(R) \in Nat
    BY <1>6, <1>7, FS_Union, FS_CardinalityType, FS_Intersection
<1>11. /\ Cardinality(M \cup R \cup T)
              = Cardinality(M \cup R) + Cardinality(T) - Cardinality((M \cup R) \cap T)
       /\ Cardinality((M \cup R) \cap T) \in Nat /\ Cardinality(T) \in Nat
       /\ Cardinality(M \cup R) \in Nat
    BY <1>9, <1>10, FS_Union, FS_CardinalityType, FS_Intersection
<1>12. Cardinality(used) \in Nat
    BY <1>8, FS_CardinalityType
<1>13. Cardinality(used) <= meta + data + Cardinality(T)
    BY <1>3, <1>6, <1>7, <1>10, <1>11, <1>12
<1> QED BY <1>11, <1>12, <1>13 DEF meta, data, T

(* An image as foreseen has the plan's margin left in every phase.         *)
LEMMA MarginIsLeft ==
    ASSUME IInv, Working, Roomy, PlanBlocks <= total, Foreseen,
           HasMargin(job), ~(job.shared /\ job.compact)
    PROVE  total - Cardinality(used) >= Margin(job.reserve) /\ Cardinality(used) \in Nat
<1> DEFINE meta == Groups * MetaBlocks(Groups)
           data == DataBlocks(Nodes, FALSE)
           room == Margin(job.reserve)
           U == Cardinality(used)
           T == Cardinality(TreeBlocks)
<1>1. job \in Jobs /\ total \in Nat /\ Len(Nodes) \in Nat
    BY JobFacts DEF IInv, TypeOK
<1>2. room \in Nat /\ data \in Nat /\ meta + data + Len(Nodes) + room <= total
    <2>1. DescriptorBlocks(Groups) = DescriptorBlocks(PlanBlocks \div BlocksPerGroup)
        BY DEF Foreseen
    <2> QED BY <1>1, <2>1, PlanLeavesMargin DEF Roomy
<1>3. U \in Nat /\ T \in Nat /\ U <= meta + data + T
    BY UsedIsCounted
<1>4. T <= Len(Nodes)
    BY DEF Foreseen
<1>5. meta \in Nat
    BY <1>1, MetadataIsCounted
<1> HIDE DEF meta, data, room, U, T
<1>6. total - U >= room
    BY <1>1, <1>2, <1>3, <1>4, <1>5
<1> QED BY <1>3, <1>6 DEF room, U

(* The allocator finds no block only when all are taken.                   *)
LEMMA FreeUnlessFull ==
    ASSUME IInv, Roomy, Cardinality(used) < total
    PROVE  Free # {}
<1> SUFFICES ASSUME Free = {} PROVE FALSE
    OBVIOUS
<1>1. total \in Nat /\ next \in 0..total /\ used \subseteq 0..(total - 1)
    BY DEF IInv, TypeOK
<1>2. \A b \in next..(total - 1) : b \in used
    BY DEF Free, FreeFrom
<1>3. \A b \in 0..(next - 1) : b \in used
    BY DEF Roomy
<1>4. \A b \in 0..(total - 1) : b \in 0..(next - 1) \/ b \in next..(total - 1)
    BY <1>1
<1>5. used = 0..(total - 1)
    BY <1>1, <1>2, <1>3, <1>4
<1>6. Cardinality(0..(total - 1)) = total
    <2>1. 0 \in Int /\ total - 1 \in Int /\ (total - 1) - 0 + 1 = total
        BY <1>1
    <2>2. 0 > total - 1 => total = 0
        BY <1>1
    <2> QED BY <2>1, <2>2, FS_Interval
<1> QED BY <1>1, <1>5, <1>6

-----------------------------------------------------------------------------
(* The room is kept by every step.                                         *)

LEMMA RoomGoesOn ==
    ASSUME IInv, RoomInv, Working, Working', UNCHANGED <<job, total, reason>>,
           \A b \in 0..(next' - 1) : b \in used',
           \A i \in DOMAIN Nodes : ~TakesBlocks(Nodes[i]) => extents'[i] = <<>>
    PROVE  RoomInv'
<1>1. /\ Nodes' = Nodes /\ PlanBlocks' = PlanBlocks /\ Groups' = Groups
      /\ \A g : GroupBlocks(g)' = GroupBlocks(g)
    BY DEF Nodes, PlanBlocks, Groups, GroupBlocks
<1>2. Roomy
    BY DEF RoomInv
<1>3. Roomy'
    BY <1>1, <1>2 DEF Roomy
<1>4. reason' # "no_free"
    BY DEF RoomInv, Working
<1> QED BY <1>1, <1>3, <1>4 DEF RoomInv

(* A step that takes no block.                                             *)
LEMMA RoomWithoutBlocks ==
    ASSUME IInv, RoomInv, Working, Working',
           UNCHANGED <<job, total, reason, next, used, extents>>
    PROVE  RoomInv'
<1>1. Roomy
    BY DEF RoomInv
<1>2. /\ \A b \in 0..(next' - 1) : b \in used'
      /\ \A i \in DOMAIN Nodes : ~TakesBlocks(Nodes[i]) => extents'[i] = <<>>
    BY <1>1 DEF Roomy
<1> QED BY <1>2, RoomGoesOn

(* A node that takes blocks was given some.                                *)
LEMMA OthersStayEmpty ==
    ASSUME IInv, RoomInv, Working, TakesBlocks(Nodes[node]), NEW exts,
           extents' = [extents EXCEPT ![node] = exts]
    PROVE  \A i \in DOMAIN Nodes : ~TakesBlocks(Nodes[i]) => extents'[i] = <<>>
<1>1. Roomy /\ DOMAIN extents = DOMAIN Nodes
    BY WorkingFacts DEF RoomInv
<1>2. \A i \in DOMAIN Nodes : i # node => extents'[i] = extents[i]
    BY <1>1
<1> QED BY <1>1, <1>2 DEF Roomy

(* The cursor moves past the first free block and what follows it.         *)
LEMMA CursorFollows ==
    ASSUME IInv, Roomy, Free # {}, NEW n \in Nat \ {0}, next' = FirstFree + n,
           used' = used \cup FirstFree..(FirstFree + n - 1)
    PROVE  \A b \in 0..(next' - 1) : b \in used'
<1> DEFINE p == FirstFree
<1>1. total \in Nat /\ next \in Nat /\ p \in next..(total - 1) /\ p \in Nat
    BY FirstFreeIsFree DEF IInv, TypeOK
<1>2. \A b \in next..(p - 1) : b \in used
    <2>1. Free \subseteq Nat
        BY <1>1 DEF Free, FreeFrom
    <2>2. \A b \in Free : p <= b
        BY <2>1, MinIsLeast DEF FirstFree
    <2>3. \A b \in next..(total - 1) : b \in used \/ b \in Free
        BY DEF Free, FreeFrom
    <2> HIDE DEF p
    <2>4. \A b \in next..(p - 1) : b \in next..(total - 1) /\ ~(p <= b)
        BY <1>1
    <2> QED BY <2>2, <2>3, <2>4
<1>3. \A b \in 0..(next - 1) : b \in used
    BY DEF Roomy
<1>4. next' = p + n /\ used' = used \cup p..(p + n - 1)
    OBVIOUS
<1> HIDE DEF p
<1>5. ASSUME NEW b \in 0..(next' - 1)
      PROVE  b \in used'
    <2>1. b \in 0..(next - 1) \/ b \in next..(p - 1) \/ b \in p..(p + n - 1)
        BY <1>1, <1>4
    <2> QED BY <1>2, <1>3, <1>4, <2>1
<1> QED BY <1>5

LEMMA GivenFollows ==
    ASSUME IInv, Roomy, Free # {}, next' = FirstFree + 1, used' = used \cup {FirstFree}
    PROVE  \A b \in 0..(next' - 1) : b \in used'
<1>1. FirstFree \in Nat
    BY FirstFreeIsFree DEF IInv
<1>2. {FirstFree} = FirstFree..(FirstFree + 1 - 1)
    BY <1>1
<1>3. used' = used \cup FirstFree..(FirstFree + 1 - 1)
    BY <1>2
<1> QED BY <1>3, CursorFollows

(* A failed round has room to account for no more.                         *)
LEMMA RoomAtFailure ==
    ASSUME IInv, RoomInv, NEW why, Fail(why)
    PROVE  RoomInv'
<1>1. /\ pc' = "failed" /\ UNCHANGED <<job, total>>
    BY DEF Fail
<1>2. PlanBlocks' = PlanBlocks /\ PlanBlocks <= total
    BY <1>1 DEF PlanBlocks, RoomInv
<1> QED BY <1>1, <1>2 DEF RoomInv, Working

LEMMA RoomInit == Init => RoomInv
<1> SUFFICES ASSUME Init PROVE RoomInv
    OBVIOUS
<1>1. job \in Jobs /\ pc = "layout" /\ reason = "none"
      /\ total = TargetBlocks(job.nodes, job.shared, job.compact, job.reserve, job.inputBlocks)
    BY DEF Init
<1>2. /\ job.nodes \in Seq(Node) /\ job.shared \in BOOLEAN /\ job.compact \in BOOLEAN
      /\ job.reserve \in Nat /\ job.inputBlocks \in Nat
    BY <1>1, JobFacts DEF Nodes
<1>3. PlanBlocks <= total
    BY <1>1, <1>2, PlanHoldsInodes DEF PlanBlocks
<1> QED BY <1>1, <1>3 DEF RoomInv, Working

LEMMA RoomStep ==
    ASSUME IInv, RoomInv, [Next]_vars
    PROVE  RoomInv'
<1>1. CASE LayoutGroups
    <2>1. CASE \E g \in 0..(Groups - 1) : MetaBlocks(Groups) > GroupBlocks(g)
        BY <1>1, <2>1, RoomAtFailure DEF LayoutGroups
    <2>2. CASE ~ \E g \in 0..(Groups - 1) : MetaBlocks(Groups) > GroupBlocks(g)
        <3>1. /\ next' = 0 /\ pc = "layout" /\ UNCHANGED <<job, reason, total>>
              /\ extents' = [i \in DOMAIN Nodes |-> <<>>]
            BY <1>1, <2>2 DEF LayoutGroups
        <3>2. /\ Nodes' = Nodes /\ PlanBlocks' = PlanBlocks /\ Groups' = Groups
              /\ \A g : GroupBlocks(g)' = GroupBlocks(g)
            BY <3>1 DEF Nodes, PlanBlocks, Groups, GroupBlocks
        <3>3. \A g \in 0..(Groups - 1) : MetaBlocks(Groups) <= GroupBlocks(g)
            <4>1. total \in Nat
                BY DEF IInv, TypeOK
            <4>2. MetaBlocks(Groups) \in Nat /\ Groups \in Nat
                BY <4>1, MetadataIsCounted, MetadataTakesBlocks
            <4>3. \A g \in 0..(Groups - 1) : GroupBlocks(g) \in Int
                <5> TAKE g \in 0..(Groups - 1)
                <5> DEFINE start == g * BlocksPerGroup
                <5>1. start \in Nat /\ start < total
                    <6>1. (Groups - 1) * BlocksPerGroup < total
                        BY <4>1, CeilRoundsUp, GeometryAssumption DEF Groups
                    <6>2. g <= Groups - 1 /\ g \in Nat /\ Groups - 1 \in Nat
                        BY <4>2
                    <6>3. start <= (Groups - 1) * BlocksPerGroup
                        BY <6>2, ProductsGrow, GeometryAssumption
                    <6>4. (Groups - 1) * BlocksPerGroup \in Nat /\ start \in Nat
                        BY <6>2, GeometryAssumption
                    <6> QED BY <4>1, <6>1, <6>3, <6>4
                <5>2. total - start \in Nat
                    BY <4>1, <5>1
                <5>3. Min({BlocksPerGroup, total - start}) \in {BlocksPerGroup, total - start}
                    BY <5>2, MinIsLeast, GeometryAssumption
                <5> QED BY <5>2, <5>3, GeometryAssumption DEF GroupBlocks
            <4> QED BY <2>2, <4>2, <4>3
        <3>4. Roomy'
            BY <3>1, <3>2, <3>3 DEF Roomy
        <3>5. reason' # "no_free"
            BY <3>1 DEF RoomInv
        <3> QED BY <3>1, <3>2, <3>4, <3>5 DEF RoomInv
    <2> QED BY <2>1, <2>2
<1>2. CASE SkipHole
    BY <1>2, RoomWithoutBlocks DEF SkipHole, Placing, Advance, Working
<1>3. CASE ShareBlock
    <2> DEFINE exts == WithBlock(extents[node], logical, Min(Twins))
    <2>1. /\ Working /\ Working' /\ UNCHANGED <<job, total, reason, next, used>>
          /\ TakesBlocks(Nodes[node]) /\ extents' = [extents EXCEPT ![node] = exts]
        BY <1>3 DEF ShareBlock, Placing, NodeHasMore, Advance, Working
    <2> HIDE DEF exts
    <2>2. \A i \in DOMAIN Nodes : ~TakesBlocks(Nodes[i]) => extents'[i] = <<>>
        BY <2>1, OthersStayEmpty
    <2>3. \A b \in 0..(next' - 1) : b \in used'
        BY <2>1 DEF RoomInv, Roomy
    <2> QED BY <2>1, <2>2, <2>3, RoomGoesOn
<1>4. CASE PlaceShared
    <2>1. CASE Free = {}
        BY <1>4, <2>1, RoomAtFailure DEF PlaceShared
    <2>2. CASE Free # {}
        <3> DEFINE exts == WithBlock(extents[node], logical, FirstFree)
        <3>1. /\ Working /\ Working' /\ UNCHANGED <<job, total, reason>>
              /\ TakesBlocks(Nodes[node]) /\ extents' = [extents EXCEPT ![node] = exts]
              /\ used' = used \cup {FirstFree} /\ next' = FirstFree + 1
            BY <1>4, <2>2 DEF PlaceShared, Placing, NodeHasMore, Advance, Working, Give
        <3> HIDE DEF exts
        <3>2. \A i \in DOMAIN Nodes : ~TakesBlocks(Nodes[i]) => extents'[i] = <<>>
            BY <3>1, OthersStayEmpty
        <3>3. \A b \in 0..(next' - 1) : b \in used'
            BY <2>2, <3>1, GivenFollows DEF RoomInv
        <3> QED BY <3>1, <3>2, <3>3, RoomGoesOn
    <2> QED BY <2>1, <2>2
<1>5. CASE PlaceRun
    <2>1. CASE Free = {}
        BY <1>5, <2>1, RoomAtFailure DEF PlaceRun
    <2>2. CASE Free # {}
        <3> DEFINE wanted == Len(Nodes[node].data) - logical
                   n == RunLength(FirstFree, wanted)
                   exts == Append(extents[node], <<logical, FirstFree, n>>)
        <3>1. /\ Working /\ Working' /\ UNCHANGED <<job, total, reason>>
              /\ TakesBlocks(Nodes[node]) /\ extents' = [extents EXCEPT ![node] = exts]
              /\ used' = used \cup FirstFree..(FirstFree + n - 1) /\ next' = FirstFree + n
            BY <1>5, <2>2 DEF PlaceRun, Placing, NodeHasMore, Advance, Working
        <3>2. wanted \in Nat \ {0}
            BY <1>5, PlacingFacts DEF PlaceRun, Placing, NodeHasMore
        <3>3. n \in Nat \ {0}
            <4> HIDE DEF wanted
            <4>1. n \in 1..wanted
                BY <2>2, <3>2, RunsAreFree DEF IInv
            <4> QED BY <3>2, <4>1
        <3> HIDE DEF n, wanted, exts
        <3>4. \A i \in DOMAIN Nodes : ~TakesBlocks(Nodes[i]) => extents'[i] = <<>>
            BY <3>1, OthersStayEmpty
        <3>5. \A b \in 0..(next' - 1) : b \in used'
            BY <2>2, <3>1, <3>3, CursorFollows DEF RoomInv
        <3> QED BY <3>1, <3>4, <3>5, RoomGoesOn
    <2> QED BY <2>1, <2>2
<1>6. CASE PlaceNext
    BY <1>6, RoomWithoutBlocks DEF PlaceNext, Placing, Working
<1>7. CASE PlaceDone
    BY <1>7, RoomWithoutBlocks DEF PlaceDone, Working
<1>8. CASE GrowTree
    <2>1. CASE \E why : Fail(why)
        BY <2>1, RoomAtFailure
    <2>2. CASE ~ \E why : Fail(why)
        <3>1. /\ Working /\ Working' /\ UNCHANGED <<job, total, reason, extents>>
              /\ Free # {} /\ used' = used \cup {FirstFree} /\ next' = FirstFree + 1
            <4>1. /\ ~(Len(extents[node]) > MaxExtents)
                  /\ ~(Len(extents[node]) <= MaxExtents /\ Free = {})
                BY <1>8, <2>2 DEF GrowTree
            <4>2. /\ Give(FirstFree) /\ UNCHANGED <<job, pc, reason, total, extents>>
                BY <1>8, <4>1 DEF GrowTree
            <4>3. Len(extents[node]) \in Nat /\ MaxExtents \in Nat
                <5>1. node \in DOMAIN Nodes
                    BY <1>8, JobFacts DEF GrowTree, IInv, TypeOK
                <5>2. Working
                    BY <1>8 DEF GrowTree, Working
                <5>3. extents[node] \in Seq(Extent)
                    BY <5>1, <5>2, WorkingFacts DEF InOrder
                <5> QED BY <5>3, FanoutAssumption DEF MaxExtents
            <4> QED BY <1>8, <4>1, <4>2, <4>3 DEF GrowTree, Give, Working
        <3>2. \A b \in 0..(next' - 1) : b \in used'
            BY <3>1, GivenFollows DEF RoomInv
        <3>3. \A i \in DOMAIN Nodes : ~TakesBlocks(Nodes[i]) => extents'[i] = <<>>
            BY <3>1 DEF RoomInv, Roomy
        <3> QED BY <3>1, <3>2, <3>3, RoomGoesOn
    <2> QED BY <2>1, <2>2
<1>9. CASE TreeNext
    BY <1>9, RoomWithoutBlocks DEF TreeNext, Working
<1>10. CASE TreeDone
    BY <1>10, RoomWithoutBlocks DEF TreeDone, Working
<1>11. CASE WriteNode
    BY <1>11, RoomWithoutBlocks DEF WriteNode, Working
<1>12. CASE WriteDone
    BY <1>12, RoomWithoutBlocks DEF WriteDone, Working
<1>13. CASE Grow
    <2>1. /\ pc' = "layout" /\ reason' = "none" /\ job' = job
          /\ total' = total + BlocksPerGroup
        BY <1>13 DEF Grow, GrowTo
    <2>2. PlanBlocks' = PlanBlocks /\ PlanBlocks <= total
        BY <2>1 DEF PlanBlocks, RoomInv
    <2>3. PlanBlocks \in Nat
        <3>1. /\ job.nodes \in Seq(Node) /\ (job.shared /\ job.compact) \in BOOLEAN
              /\ job.reserve \in Nat
            BY JobFacts DEF IInv, Nodes
        <3>2. PICK groups \in Nat \ {0} : PlanBlocks = groups * BlocksPerGroup
            BY <3>1, PlanIsGroups DEF PlanBlocks
        <3> QED BY <3>2, GeometryAssumption
    <2>4. total \in Nat /\ BlocksPerGroup \in Nat
        BY GeometryAssumption DEF IInv, TypeOK
    <2>5. PlanBlocks <= total + BlocksPerGroup
        BY <2>2, <2>3, <2>4
    <2> QED BY <2>1, <2>2, <2>5 DEF RoomInv, Working
<1>14. CASE UNCHANGED vars
    <2>1. UNCHANGED <<job, pc, reason, total, next, used, extents>>
        BY <1>14 DEF vars
    <2>2. CASE Working
        <3>1. Working'
            BY <2>1, <2>2 DEF Working
        <3> QED BY <2>1, <2>2, <3>1, RoomWithoutBlocks
    <2>3. CASE ~Working
        <3>1. ~Working' /\ PlanBlocks' = PlanBlocks
            BY <2>1, <2>3 DEF Working, PlanBlocks
        <3> QED BY <2>1, <3>1 DEF RoomInv
    <2> QED BY <2>2, <2>3
<1> QED BY <1>1, <1>2, <1>3, <1>4, <1>5, <1>6, <1>7, <1>8, <1>9, <1>10, <1>11, <1>12,
           <1>13, <1>14 DEF Next, Finished

THEOREM RoomInvariant == Spec => [](IInv /\ RoomInv)
<1>1. IInv /\ RoomInv /\ [Next]_vars => RoomInv'
    BY RoomStep
<1> QED BY <1>1, RoomInit, BuildInvariant, PTL DEF Spec

(* What --reserve-mb asks for is free in a finished image that is as its   *)
(* plan foresaw, whatever the allocator made of the files.                 *)
THEOREM ReserveStaysFree ==
    ASSUME \A j \in Jobs : HasMargin(j)
    PROVE  Spec => []ReserveIsFree
<1>1. IInv /\ RoomInv => ReserveIsFree
    <2> SUFFICES ASSUME IInv, RoomInv, pc = "done", ~(job.shared /\ job.compact), Foreseen
                 PROVE  total - Cardinality(used) >= Margin(job.reserve)
        BY DEF ReserveIsFree
    <2>1. Working /\ Roomy /\ PlanBlocks <= total
        BY DEF Working, RoomInv
    <2>2. HasMargin(job)
        BY DEF IInv
    <2> QED BY <2>1, <2>2, MarginIsLeft
<1> QED BY <1>1, RoomInvariant, PTL

(* A round that runs out of blocks is not one that the plan foresaw.       *)
LEMMA PlanHolds ==
    ASSUME \A j \in Jobs : HasMargin(j), BlocksPerGroup >= 4,
           IInv, RoomInv, PlanSuffices, [Next]_vars
    PROVE  PlanSuffices'
<1>1. ASSUME Working, Free = {}, Foreseen
      PROVE  job.shared /\ job.compact
    <2> SUFFICES ASSUME ~(job.shared /\ job.compact) PROVE FALSE
        OBVIOUS
    <2>1. Roomy /\ PlanBlocks <= total /\ HasMargin(job) /\ total \in Nat
        BY <1>1 DEF RoomInv, IInv, TypeOK
    <2> DEFINE U == Cardinality(used)
               room == Margin(job.reserve)
    <2>2. total - U >= room /\ U \in Nat
        BY <1>1, <2>1, MarginIsLeft
    <2>3. room \in Nat \ {0}
        <3>1. BlocksPerGroup \div 4 \in Nat \ {0}
            BY GeometryAssumption
        <3>2. job.reserve \in Nat
            BY JobFacts DEF IInv
        <3> QED BY <3>1, <3>2 DEF Margin, AtLeast
    <2> HIDE DEF U, room
    <2>4. U < total
        BY <2>1, <2>2, <2>3
    <2>5. Cardinality(used) < total
        BY <2>4 DEF U
    <2> QED BY <1>1, <2>1, <2>5, FreeUnlessFull
<1>2. ASSUME NEW why, Fail(why), why = "no_free" => Working /\ Free = {}
      PROVE  PlanSuffices'
    <2>1. reason' = why /\ UNCHANGED <<job, total, trees>>
        BY <1>2 DEF Fail
    <2>2. Foreseen' <=> Foreseen
        BY <2>1 DEF Foreseen, PlanBlocks, Groups, TreeBlocks, Nodes
    <2> QED BY <1>1, <1>2, <2>1, <2>2 DEF PlanSuffices
<1>3. ASSUME Working, reason' = reason
      PROVE  PlanSuffices'
    BY <1>3 DEF PlanSuffices, RoomInv, Working
<1>4. CASE LayoutGroups
    <2>1. CASE Fail("no_room")
        BY <1>2, <2>1
    <2>2. CASE ~Fail("no_room")
        BY <1>4, <2>2 DEF LayoutGroups, PlanSuffices, RoomInv
    <2> QED BY <2>1, <2>2
<1>5. CASE SkipHole \/ ShareBlock \/ PlaceNext \/ PlaceDone \/ TreeNext \/ TreeDone
           \/ WriteNode \/ WriteDone
    BY <1>3, <1>5 DEF SkipHole, ShareBlock, Placing, Advance, PlaceNext, PlaceDone,
                      TreeNext, TreeDone, WriteNode, WriteDone, Working
<1>6. CASE PlaceShared
    <2>1. Working
        BY <1>6 DEF PlaceShared, Placing, Working
    <2>2. CASE Free = {}
        BY <1>2, <1>6, <2>1, <2>2 DEF PlaceShared
    <2>3. CASE Free # {}
        BY <1>3, <1>6, <2>1, <2>3 DEF PlaceShared, Advance
    <2> QED BY <2>2, <2>3
<1>7. CASE PlaceRun
    <2>1. Working
        BY <1>7 DEF PlaceRun, Placing, Working
    <2>2. CASE Free = {}
        BY <1>2, <1>7, <2>1, <2>2 DEF PlaceRun
    <2>3. CASE Free # {}
        BY <1>3, <1>7, <2>1, <2>3 DEF PlaceRun, Advance
    <2> QED BY <2>2, <2>3
<1>8. CASE GrowTree
    <2>1. Working
        BY <1>8 DEF GrowTree, Working
    <2>2. CASE Len(extents[node]) > MaxExtents
        <3>1. CASE Fail("too_deep")
            BY <1>2, <3>1
        <3>2. CASE ~Fail("too_deep")
            <4>1. Len(extents[node]) \in Nat /\ MaxExtents \in Nat
                <5>1. node \in DOMAIN Nodes
                    BY <1>8, JobFacts DEF GrowTree, IInv, TypeOK
                <5>2. extents[node] \in Seq(Extent)
                    BY <2>1, <5>1, WorkingFacts DEF InOrder
                <5> QED BY <5>2, FanoutAssumption DEF MaxExtents
            <4>2. ~(Len(extents[node]) <= MaxExtents)
                BY <2>2, <4>1
            <4> QED BY <1>8, <2>2, <3>2, <4>2 DEF GrowTree
        <3> QED BY <3>1, <3>2
    <2>3. CASE ~(Len(extents[node]) > MaxExtents) /\ Free = {}
        <3>1. CASE Fail("no_free")
            BY <1>2, <2>1, <2>3, <3>1
        <3>2. CASE ~Fail("no_free")
            BY <1>3, <1>8, <2>1, <2>3, <3>2 DEF GrowTree
        <3> QED BY <3>1, <3>2
    <2>4. CASE ~(Len(extents[node]) > MaxExtents) /\ Free # {}
        BY <1>3, <1>8, <2>1, <2>4 DEF GrowTree
    <2> QED BY <2>2, <2>3, <2>4
<1>9. CASE Grow
    BY <1>9 DEF Grow, PlanSuffices
<1>10. CASE UNCHANGED vars
    <2>1. UNCHANGED <<job, total, trees, reason>>
        BY <1>10 DEF vars
    <2>2. Foreseen' <=> Foreseen
        BY <2>1 DEF Foreseen, PlanBlocks, Groups, TreeBlocks, Nodes
    <2> QED BY <2>1, <2>2 DEF PlanSuffices
<1> QED BY <1>4, <1>5, <1>6, <1>7, <1>8, <1>9, <1>10 DEF Next, Finished

(* The plan is enough: without hashes no round runs out of blocks, unless  *)
(* the image has more descriptors than the plan or more tree blocks than   *)
(* nodes.                                                                  *)
THEOREM PlanIsEnough ==
    ASSUME \A j \in Jobs : HasMargin(j), BlocksPerGroup >= 4
    PROVE  Spec => []PlanSuffices
<1>1. Init => PlanSuffices
    BY DEF Init, PlanSuffices
<1>2. IInv /\ RoomInv /\ PlanSuffices /\ [Next]_vars => PlanSuffices'
    BY PlanHolds
<1> QED BY <1>1, <1>2, RoomInvariant, PTL DEF Spec

=============================================================================

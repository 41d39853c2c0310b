---------------------------- MODULE ClusterProofs ----------------------------
(***************************************************************************)
(* Proofs about ClusterStream, for files of any size and number, any batch *)
(* and whatever the codec makes of every cluster: the indexes stay in the  *)
(* space that inode_slots reserved for them, for any block size; and with  *)
(* blocks of 4 KiB every anchor leads to its block and every reader gets   *)
(* every file back.                                                        *)
(***************************************************************************)
EXTENDS ClusterPromises, ErofsGeometryProofs, OrderFacts

File == [size : Nat, ctx : BOOLEAN]

-----------------------------------------------------------------------------
(* How long an index is.                                                   *)

Pclusters == {p \in [head : BOOLEAN, n : Nat, lcn : Int] : ~p.head => p.n = 1}

LEMMA Concatenation ==
    ASSUME NEW S, NEW a \in Seq(S), NEW b \in Seq(S)
    PROVE  /\ a \o b \in Seq(S) /\ Len(a) \in Nat /\ Len(b) \in Nat /\ Len(a \o b) = Len(a) + Len(b)
           /\ \A i \in 1..Len(a) : (a \o b)[i] = a[i]
           /\ \A i \in 1..Len(b) : (a \o b)[Len(a) + i] = b[i]
OBVIOUS

Entries == [kind : {PLAIN, HEAD1, NONHEAD}, value : Nat, block : Nat]

(* One more pcluster has its entries behind the others, as many as it has  *)
(* clusters.                                                               *)
LEMMA EntriesAppend ==
    ASSUME NEW pclusters \in Seq(Pclusters), NEW p \in Pclusters, NEW first \in Nat
    PROVE  /\ IndexEntries(pclusters, first) \in Seq(Entries)
           /\ EntriesOf(p, first + Len(pclusters)) \in Seq(Entries)
           /\ IndexEntries(Append(pclusters, p), first)
                  = IndexEntries(pclusters, first) \o EntriesOf(p, first + Len(pclusters))
           /\ Len(IndexEntries(pclusters, first)) \in Nat
           /\ Len(IndexEntries(Append(pclusters, p), first)) = Len(IndexEntries(pclusters, first)) + p.n
<1> DEFINE parts == [i \in DOMAIN pclusters |-> EntriesOf(pclusters[i], first + i - 1)]
           part == EntriesOf(p, first + Len(pclusters))
           more == Append(pclusters, p)
<1>1. \A q \in Pclusters, b \in Nat : EntriesOf(q, b) \in Seq(Entries) /\ Len(EntriesOf(q, b)) = q.n
    <2> TAKE q \in Pclusters, b \in Nat
    <2> DEFINE e == EntriesOf(q, b)
               value(i) == IF q.head THEN IF i = 1 THEN Entry(HEAD1, 0, b)
                                          ELSE Entry(NONHEAD, i - 1, b)
                           ELSE Entry(PLAIN, 0, b)
    <2>1. e = [i \in 1..q.n |-> value(i)] /\ q.n \in Nat
        <3> HIDE DEF Entry
        <3>1. CASE q.head
            BY <3>1 DEF EntriesOf, Pclusters
        <3>2. CASE ~q.head
            BY <3>2 DEF EntriesOf, Pclusters
        <3> QED BY <3>1, <3>2
    <2>2. \A i \in 1..q.n : value(i) \in Entries
        BY <2>1 DEF Entry, Entries
    <2> HIDE DEF e, value, Entries
    <2>3. e \in Seq(Entries) /\ Len(e) = q.n
        BY <2>1, <2>2
    <2> QED BY <2>3 DEF e
<1>2. Len(pclusters) \in Nat /\ DOMAIN pclusters = 1..Len(pclusters)
      /\ \A i \in 1..Len(pclusters) : pclusters[i] \in Pclusters
    OBVIOUS
<1> HIDE DEF Entries
<1>3. parts \in Seq(Seq(Entries)) /\ Len(parts) = Len(pclusters)
    <2>1. \A i \in DOMAIN pclusters : parts[i] \in Seq(Entries)
        <3> TAKE i \in DOMAIN pclusters
        <3>1. first + i - 1 \in Nat /\ pclusters[i] \in Pclusters
            BY <1>2
        <3> QED BY <1>1, <3>1
    <2> QED BY <1>2, <2>1
<1>4. part \in Seq(Entries) /\ Len(part) = p.n
    <2>1. first + Len(pclusters) \in Nat
        BY <1>2
    <2> QED BY <1>1, <2>1
<1>5. [i \in DOMAIN more |-> EntriesOf(more[i], first + i - 1)] = Append(parts, part)
    <2>1. /\ Len(more) = Len(pclusters) + 1 /\ more[Len(pclusters) + 1] = p
          /\ DOMAIN more = 1..(Len(pclusters) + 1)
          /\ \A i \in 1..Len(pclusters) : more[i] = pclusters[i]
        BY <1>2
    <2>2. first + (Len(pclusters) + 1) - 1 = first + Len(pclusters)
        BY <1>2
    <2> HIDE DEF more, part
    <2>3. \A i \in 1..(Len(pclusters) + 1) :
              EntriesOf(more[i], first + i - 1) = Append(parts, part)[i]
        <3> TAKE i \in 1..(Len(pclusters) + 1)
        <3>1. CASE i = Len(pclusters) + 1
            BY <1>2, <1>3, <2>1, <2>2, <3>1 DEF part
        <3>2. CASE i \in 1..Len(pclusters)
            BY <1>2, <1>3, <2>1, <3>2
        <3> QED BY <1>2, <3>1, <3>2
    <2>4. DOMAIN Append(parts, part) = 1..(Len(pclusters) + 1) /\ Append(parts, part) \in Seq(Seq(Entries))
        BY <1>2, <1>3, <1>4
    <2> DEFINE mine == [i \in DOMAIN more |-> EntriesOf(more[i], first + i - 1)]
    <2>5. DOMAIN mine = 1..(Len(pclusters) + 1)
          /\ \A i \in 1..(Len(pclusters) + 1) : mine[i] = Append(parts, part)[i]
        BY <2>1, <2>3
    <2>6. mine = [i \in DOMAIN mine |-> mine[i]]
        OBVIOUS
    <2>7. Append(parts, part) = [i \in DOMAIN Append(parts, part) |-> Append(parts, part)[i]]
        BY <2>4
    <2> HIDE DEF mine, parts
    <2>8. mine = Append(parts, part)
        BY <2>4, <2>5, <2>6, <2>7, Zenon
    <2> QED BY <2>8 DEF mine
<1>6. /\ FlattenSeq(parts) \in Seq(Entries)
      /\ FlattenSeq(Append(parts, part)) = FlattenSeq(parts) \o part
    BY <1>3, <1>4, FlattenAppend
<1>7. IndexEntries(pclusters, first) = FlattenSeq(parts)
    BY DEF IndexEntries
<1>8. IndexEntries(more, first) = FlattenSeq(parts) \o part
    BY <1>5, <1>6 DEF IndexEntries
<1>9. EntriesOf(p, first + Len(pclusters)) = part
    OBVIOUS
<1> HIDE DEF parts, part
<1>10. Len(FlattenSeq(parts) \o part) = Len(FlattenSeq(parts)) + Len(part) /\ Len(FlattenSeq(parts)) \in Nat
    BY <1>4, <1>6, Concatenation
<1> QED BY <1>4, <1>6, <1>7, <1>8, <1>9, <1>10

(* Pairing by halves.                                                      *)
LEMMA PairsCover ==
    ASSUME NEW n \in Nat
    PROVE  /\ Pairs(n) \in Nat /\ 2 * Pairs(n) \in n..(n + 1)
           /\ IndexLen(n) \div 8 = Pairs(n)
<1>1. (n + 1) = 2 * ((n + 1) \div 2) + ((n + 1) % 2) /\ (n + 1) % 2 \in 0..1 /\ (n + 1) \div 2 \in Nat
    OBVIOUS
<1>2. n + 2 - 1 = n + 1
    OBVIOUS
<1>3. Pairs(n) = (n + 1) \div 2 /\ CeilDiv(n, 2) = (n + 1) \div 2
    BY <1>2 DEF Pairs, PairSize, CeilDiv
<1>4. \A k \in Nat : (k * 8) \div 8 = k
    OBVIOUS
<1> QED BY <1>1, <1>3, <1>4 DEF IndexLen

HeadKind(head) == IF head THEN HEAD1 ELSE PLAIN

(* The pclusters a pair of k clusters from lcn `at` becomes, and its       *)
(* entries when they go to blocks `b` on.                                  *)
APair(pair, tail, at, k, b) ==
    \/ /\ k = 2 /\ pair = <<Pcluster(TRUE, 2, at)>>
       /\ tail = <<Entry(HEAD1, 0, b), Entry(NONHEAD, 1, b)>>
    \/ /\ k = 2
       /\ \E x, y \in BOOLEAN :
             /\ pair = <<Pcluster(x, 1, at), Pcluster(y, 1, at + 1)>>
             /\ tail = <<Entry(HeadKind(x), 0, b), Entry(HeadKind(y), 0, b + 1)>>
    \/ /\ k = 1
       /\ \E x \in BOOLEAN :
             /\ pair = <<Pcluster(x, 1, at)>>
             /\ tail = <<Entry(HeadKind(x), 0, b)>>

(* Behind the pclusters `before`, whose blocks begin with `first`, a pair   *)
(* adds its own entries.                                                   *)
AddsAPair(pair, at, k, before, first) ==
    \E tail \in Seq(Entries) :
        /\ APair(pair, tail, at, k, first + Len(before))
        /\ Len(tail) = k
        /\ IndexEntries(before \o pair, first) = IndexEntries(before, first) \o tail

(* A pair adds as many entries as it has clusters, however it is packed.   *)
LEMMA PairEntries ==
    ASSUME NEW outcome \in Outcomes, NEW l \in Int, NEW k \in 1..2,
           NEW before \in Seq(Pclusters), NEW first \in Nat
    PROVE  /\ PackPair(outcome, l, k) \in Seq(Pclusters)
           /\ before \o PackPair(outcome, l, k) \in Seq(Pclusters)
           /\ IndexEntries(before, first) \in Seq(Entries)
           /\ AddsAPair(PackPair(outcome, l, k), l, k, before, first)
<1> DEFINE pair == PackPair(outcome, l, k)
           b == first + Len(before)
           Es(ps) == IndexEntries(ps, first)
<1>0. b \in Nat /\ Len(before) \in Nat /\ k \in 1..2 /\ (k = 1 \/ k = 2)
    OBVIOUS
<1>1. ASSUME NEW ps \in Seq(Pclusters), NEW p \in Pclusters
      PROVE  /\ Append(ps, p) \in Seq(Pclusters) /\ Len(ps) \in Nat /\ Len(Append(ps, p)) = Len(ps) + 1
             /\ Es(ps) \in Seq(Entries) /\ EntriesOf(p, first + Len(ps)) \in Seq(Entries)
             /\ Es(Append(ps, p)) = Es(ps) \o EntriesOf(p, first + Len(ps))
    <2>1. first \in Nat
        OBVIOUS
    <2>2. Append(ps, p) \in Seq(Pclusters) /\ Len(ps) \in Nat /\ Len(Append(ps, p)) = Len(ps) + 1
        OBVIOUS
    <2> QED BY <2>1, <2>2, EntriesAppend
<1> HIDE DEF Es
<1>2. \A x \in BOOLEAN, at \in Int, c \in Nat :
          EntriesOf(Pcluster(x, 1, at), c) = <<Entry(HeadKind(x), 0, c)>>
    <2> TAKE x \in BOOLEAN, at \in Int, c \in Nat
    <2> HIDE DEF Entry
    <2> QED BY DEF EntriesOf, Pcluster, HeadKind
<1>3. ASSUME NEW p \in Pclusters, NEW tail, pair = <<p>>, EntriesOf(p, b) = tail, Len(tail) = k,
             APair(pair, tail, l, k, b)
      PROVE  /\ pair \in Seq(Pclusters) /\ before \o pair \in Seq(Pclusters)
             /\ tail \in Seq(Entries) /\ Es(before) \in Seq(Entries) /\ Es(before \o pair) = Es(before) \o tail
    <2>1. before \o pair = Append(before, p) /\ pair \in Seq(Pclusters)
        BY <1>3
    <2> QED BY <1>1, <1>3, <2>1
<1>4. CASE outcome.joint
    <2> DEFINE p == Pcluster(TRUE, k, l)
               tail == EntriesOf(p, b)
    <2>1. p \in Pclusters /\ p.n = k
        BY DEF Pcluster, Pclusters
    <2>2. pair = <<p>>
        BY <1>4 DEF PackPair
    <2>3. tail = [i \in 1..k |-> IF i = 1 THEN Entry(HEAD1, 0, b) ELSE Entry(NONHEAD, i - 1, b)]
        BY DEF EntriesOf, Pcluster
    <2> HIDE DEF tail, p, pair, b, Entry
    <2>4. CASE k = 1
        <3>1. tail = <<Entry(HeadKind(TRUE), 0, b)>> /\ Len(tail) = 1 /\ p = Pcluster(TRUE, 1, l)
            BY <2>3, <2>4 DEF HeadKind, p
        <3>2. APair(pair, tail, l, k, b)
            BY <2>2, <2>4, <3>1 DEF APair
        <3> QED BY <1>3, <2>1, <2>2, <2>4, <3>1, <3>2 DEF tail, pair, b, Es, AddsAPair
    <2>5. CASE k = 2
        <3>1. tail = <<Entry(HEAD1, 0, b), Entry(NONHEAD, 1, b)>> /\ Len(tail) = 2 /\ p = Pcluster(TRUE, 2, l)
            BY <2>3, <2>5 DEF p
        <3>2. APair(pair, tail, l, k, b)
            BY <2>2, <2>5, <3>1 DEF APair
        <3> QED BY <1>3, <2>1, <2>2, <2>5, <3>1, <3>2 DEF tail, pair, b, Es, AddsAPair
    <2> QED BY <1>0, <2>4, <2>5
<1>5. CASE ~outcome.joint
    <2> DEFINE p(i) == Pcluster(i \in outcome.alone, 1, l + i - 1)
    <2>1. \A i \in 1..2 : p(i) \in Pclusters /\ p(i).n = 1
        BY DEF Pcluster, Pclusters
    <2>2. pair = [i \in 1..k |-> p(i)]
        BY <1>5 DEF PackPair
    <2>3. PICK x \in BOOLEAN, y \in BOOLEAN : p(1) = Pcluster(x, 1, l) /\ p(2) = Pcluster(y, 1, l + 1)
        <3>1. l + 1 - 1 = l /\ l + 2 - 1 = l + 1
            OBVIOUS
        <3>2. (1 \in outcome.alone) \in BOOLEAN /\ (2 \in outcome.alone) \in BOOLEAN
            OBVIOUS
        <3>3. /\ p(1) = Pcluster(1 \in outcome.alone, 1, l)
              /\ p(2) = Pcluster(2 \in outcome.alone, 1, l + 1)
            BY <3>1
        <3> HIDE DEF p
        <3> QED BY <3>2, <3>3, Zenon
    <2> HIDE DEF p, pair
    <2>4. CASE k = 1
        <3> DEFINE tail == <<Entry(HeadKind(x), 0, b)>>
        <3>1. pair = <<p(1)>> /\ 1 \in 1..2
            BY <2>2, <2>4
        <3>2. EntriesOf(p(1), b) = tail /\ Len(tail) = 1
            BY <1>0, <1>2, <2>3
        <3>3. APair(pair, tail, l, k, b)
            BY <2>3, <2>4, <3>1 DEF APair
        <3> QED BY <1>3, <2>1, <2>4, <3>1, <3>2, <3>3 DEF pair, Es, AddsAPair
    <2>5. CASE k = 2
        <3> DEFINE tail == <<Entry(HeadKind(x), 0, b), Entry(HeadKind(y), 0, b + 1)>>
        <3>1. pair = <<p(1), p(2)>> /\ 1 \in 1..2 /\ 2 \in 1..2
            BY <2>2, <2>5
        <3>2. before \o pair = Append(Append(before, p(1)), p(2)) /\ pair \in Seq(Pclusters)
            BY <2>1, <3>1
        <3> DEFINE u == Entry(HeadKind(x), 0, b)
                   v == Entry(HeadKind(y), 0, b + 1)
        <3>3. /\ Append(before, p(1)) \in Seq(Pclusters) /\ Len(Append(before, p(1))) = Len(before) + 1
              /\ Es(before) \in Seq(Entries) /\ <<u>> \in Seq(Entries)
              /\ Es(Append(before, p(1))) = Es(before) \o <<u>>
            <4>1. EntriesOf(p(1), first + Len(before)) = <<u>>
                BY <1>0, <1>2, <2>3
            <4> HIDE DEF u
            <4> QED BY <1>1, <2>1, <3>1, <4>1
        <3>4. first + (Len(before) + 1) = b + 1 /\ b + 1 \in Nat /\ l + 1 \in Int
            BY <1>0
        <3>5. /\ before \o pair \in Seq(Pclusters) /\ <<v>> \in Seq(Entries)
              /\ Es(before \o pair) = Es(Append(before, p(1))) \o <<v>>
            <4>1. EntriesOf(p(2), b + 1) = <<v>>
                BY <1>2, <2>3, <3>4
            <4>2. EntriesOf(p(2), first + Len(Append(before, p(1)))) = <<v>>
                BY <3>3, <3>4, <4>1
            <4> HIDE DEF v
            <4> QED BY <1>1, <2>1, <3>1, <3>2, <3>3, <4>2
        <3>6. (Es(before) \o <<u>>) \o <<v>> = Es(before) \o <<u, v>> /\ <<u, v>> \in Seq(Entries) /\ Len(<<u, v>>) = 2
            <4> DEFINE e == Es(before)
            <4>1. e \in Seq(Entries) /\ u \in Entries /\ v \in Entries
                <5> HIDE DEF u, v, Entries
                <5>1. \A z : <<z>> \in Seq(Entries) => z \in Entries
                    OBVIOUS
                <5> QED BY <3>3, <3>5, <5>1
            <4> HIDE DEF e, u, v, Entries
            <4>2. e \o <<u>> = Append(e, u)
                BY <4>1
            <4>3. Append(e, u) \o <<v>> = Append(Append(e, u), v)
                BY <4>1
            <4>4. Append(Append(e, u), v) = e \o <<u, v>>
                BY <4>1
            <4>5. <<u, v>> \in Seq(Entries) /\ Len(<<u, v>>) = 2
                BY <4>1
            <4> QED BY <4>2, <4>3, <4>4, <4>5, Zenon DEF e
        <3>7. APair(pair, tail, l, k, b)
            BY <2>3, <2>5, <3>1 DEF APair
        <3> QED BY <2>5, <3>2, <3>3, <3>5, <3>6, <3>7 DEF pair, Es, AddsAPair
    <2> QED BY <1>0, <2>4, <2>5
<1> QED BY <1>4, <1>5 DEF Outcomes

LEMMA AppendStays ==
    ASSUME NEW S, NEW s \in Seq(S), NEW x \in S
    PROVE  Append(s, x) \in Seq(S)
OBVIOUS

(* Pcluster number b - first + 1 holds n clusters from `at`.               *)
Holds(pclusters, first, b, head, at, n) ==
    /\ b - first + 1 \in 1..Len(pclusters)
    /\ pclusters[b - first + 1] = Pcluster(head, n, at)

(* The entries of pair p of n clusters from l: one head for both clusters, *)
(* or each for itself, or one that is left.                                *)
EntryPair(entries, pclusters, first, l, n, p) ==
    LET b == entries[2 * p - 1].block
        at == l + 2 * (p - 1)
    IN  \/ /\ 2 * p <= n
           /\ entries[2 * p - 1] = Entry(HEAD1, 0, b) /\ entries[2 * p] = Entry(NONHEAD, 1, b)
           /\ Holds(pclusters, first, b, TRUE, at, 2)
        \/ /\ 2 * p <= n
           /\ \E x, y \in BOOLEAN :
                 /\ entries[2 * p - 1] = Entry(HeadKind(x), 0, b)
                 /\ entries[2 * p] = Entry(HeadKind(y), 0, b + 1)
                 /\ Holds(pclusters, first, b, x, at, 1) /\ Holds(pclusters, first, b + 1, y, at + 1, 1)
        \/ /\ 2 * p = n + 1
           /\ \E x \in BOOLEAN :
                 /\ entries[2 * p - 1] = Entry(HeadKind(x), 0, b)
                 /\ Holds(pclusters, first, b, x, at, 1)

EntryBlocks(entries, n, p) == IF 2 * p <= n /\ entries[2 * p].kind # NONHEAD THEN 2 ELSE 1

(* The first m pairs: their blocks follow each other from `first` on.      *)
Paired(entries, pclusters, first, l, n, m) ==
    /\ \A p \in 1..m : EntryPair(entries, pclusters, first, l, n, p)
    /\ \A p \in 1..m : entries[2 * p - 1].block + EntryBlocks(entries, n, p)
                           = IF p = m THEN first + Len(pclusters) ELSE entries[2 * p + 1].block
    /\ IF m = 0 THEN Len(pclusters) = 0 ELSE entries[1].block = first

LEMMA PairsJoin ==
    ASSUME NEW entries \in Seq(Entries), NEW pclusters \in Seq(Pclusters), NEW first \in Nat,
           NEW l \in Nat, NEW n \in Nat, NEW m \in Nat, 2 * m < n, Len(entries) = 2 * m,
           Paired(entries, pclusters, first, l, n, m),
           NEW pair \in Seq(Pclusters), NEW tail \in Seq(Entries),
           APair(pair, tail, l + 2 * m, AtMost(2, n - 2 * m), first + Len(pclusters))
    PROVE  Paired(entries \o tail, pclusters \o pair, first, l, n, m + 1)
<1> DEFINE es == entries \o tail
           ps == pclusters \o pair
           k == AtMost(2, n - 2 * m)
           b == first + Len(pclusters)
           at == l + 2 * m
<1>1. /\ Len(pclusters) \in Nat /\ b \in Nat /\ at \in Nat /\ k \in 1..2 /\ b - first + 1 = Len(pclusters) + 1
      /\ (b + 1) - first + 1 = Len(pclusters) + 2
      /\ k = 1 <=> 2 * (m + 1) = n + 1
      /\ k = 2 <=> 2 * (m + 1) <= n
    BY DEF AtMost
<1>2. /\ Len(ps) = Len(pclusters) + Len(pair) /\ Len(pair) \in Nat
      /\ \A i \in 1..Len(pclusters) : ps[i] = pclusters[i]
      /\ Len(pair) >= 1 => ps[Len(pclusters) + 1] = pair[1]
      /\ Len(pair) >= 2 => ps[Len(pclusters) + 2] = pair[2]
    <2>1. /\ Len(ps) = Len(pclusters) + Len(pair) /\ Len(pair) \in Nat
          /\ \A i \in 1..Len(pclusters) : ps[i] = pclusters[i]
          /\ \A i \in 1..Len(pair) : ps[Len(pclusters) + i] = pair[i]
        BY Concatenation
    <2>2. (Len(pair) >= 1 => 1 \in 1..Len(pair)) /\ (Len(pair) >= 2 => 2 \in 1..Len(pair))
        BY <2>1
    <2> HIDE DEF ps
    <2> QED BY <2>1, <2>2
<1>3. /\ Len(es) = 2 * m + Len(tail) /\ Len(tail) \in Nat
      /\ \A i \in 1..(2 * m) : es[i] = entries[i]
      /\ Len(tail) >= 1 => es[2 * m + 1] = tail[1]
      /\ Len(tail) >= 2 => es[2 * m + 2] = tail[2]
    <2>1. /\ Len(es) = Len(entries) + Len(tail) /\ Len(tail) \in Nat
          /\ \A i \in 1..Len(entries) : es[i] = entries[i]
          /\ \A i \in 1..Len(tail) : es[Len(entries) + i] = tail[i]
        <3>1. entries \in Seq(Entries) /\ tail \in Seq(Entries)
            OBVIOUS
        <3> QED BY ONLY <3>1, Concatenation DEF es
    <2>2. (Len(tail) >= 1 => 1 \in 1..Len(tail)) /\ (Len(tail) >= 2 => 2 \in 1..Len(tail))
        BY <2>1
    <2> HIDE DEF es
    <2> QED BY <2>1, <2>2
<1>4. /\ 2 * (m + 1) - 1 = 2 * m + 1 /\ 2 * (m + 1) = 2 * m + 2 /\ l + 2 * ((m + 1) - 1) = at
    OBVIOUS
<1> HIDE DEF es, ps, k, b, at
<1>5. /\ es[2 * m + 1].block = b
      /\ EntryPair(es, ps, first, l, n, m + 1)
      /\ b + EntryBlocks(es, n, m + 1) = first + Len(ps)
    <2>1. APair(pair, tail, at, k, b)
        BY DEF at, k, b
    <2>2. CASE /\ k = 2 /\ pair = <<Pcluster(TRUE, 2, at)>>
               /\ tail = <<Entry(HEAD1, 0, b), Entry(NONHEAD, 1, b)>>
        <3>1. Len(pair) = 1 /\ Len(tail) = 2 /\ pair[1] = Pcluster(TRUE, 2, at)
              /\ tail[1] = Entry(HEAD1, 0, b) /\ tail[2] = Entry(NONHEAD, 1, b)
            BY <2>2
        <3>2. /\ es[2 * m + 1] = Entry(HEAD1, 0, b) /\ es[2 * m + 2] = Entry(NONHEAD, 1, b)
              /\ ps[Len(pclusters) + 1] = Pcluster(TRUE, 2, at)
            <4>1. 1 <= Len(pair) /\ 1 <= Len(tail) /\ 2 <= Len(tail)
                BY ONLY <3>1
            <4> HIDE DEF Pcluster, Entry
            <4> QED BY ONLY <1>2, <1>3, <3>1, <4>1
        <3>3. es[2 * m + 1].block = b /\ es[2 * m + 2].kind = NONHEAD
            BY <3>2 DEF Entry
        <3>4. Holds(ps, first, b, TRUE, at, 2)
            <4>1. Len(pclusters) + 1 \in 1..Len(ps)
                BY <1>1, <1>2, <3>1
            <4> QED BY <1>1, <3>2, <4>1 DEF Holds
        <3>5. EntryBlocks(es, n, m + 1) = 1
            BY <1>4, <3>3 DEF EntryBlocks
        <3>6. b + 1 = first + Len(ps)
            BY <1>1, <1>2, <3>1 DEF b
        <3>7. EntryPair(es, ps, first, l, n, m + 1)
            BY <1>1, <1>4, <2>2, <3>2, <3>3, <3>4 DEF EntryPair
        <3> QED BY <3>3, <3>5, <3>6, <3>7
    <2>3. ASSUME NEW x \in BOOLEAN, NEW y \in BOOLEAN, k = 2,
                 pair = <<Pcluster(x, 1, at), Pcluster(y, 1, at + 1)>>,
                 tail = <<Entry(HeadKind(x), 0, b), Entry(HeadKind(y), 0, b + 1)>>
          PROVE  /\ es[2 * m + 1].block = b
                 /\ EntryPair(es, ps, first, l, n, m + 1)
                 /\ b + EntryBlocks(es, n, m + 1) = first + Len(ps)
        <3>1. Len(pair) = 2 /\ Len(tail) = 2 /\ pair[1] = Pcluster(x, 1, at) /\ pair[2] = Pcluster(y, 1, at + 1)
              /\ tail[1] = Entry(HeadKind(x), 0, b) /\ tail[2] = Entry(HeadKind(y), 0, b + 1)
            BY <2>3
        <3>2. /\ es[2 * m + 1] = Entry(HeadKind(x), 0, b) /\ es[2 * m + 2] = Entry(HeadKind(y), 0, b + 1)
              /\ ps[Len(pclusters) + 1] = Pcluster(x, 1, at) /\ ps[Len(pclusters) + 2] = Pcluster(y, 1, at + 1)
            BY <1>2, <1>3, <3>1
        <3>3. es[2 * m + 1].block = b /\ es[2 * m + 2].kind # NONHEAD
            BY <3>2 DEF Entry, HeadKind, NONHEAD, HEAD1, PLAIN
        <3>4. Holds(ps, first, b, x, at, 1) /\ Holds(ps, first, b + 1, y, at + 1, 1)
            <4>1. Len(pclusters) + 1 \in 1..Len(ps) /\ Len(pclusters) + 2 \in 1..Len(ps)
                BY <1>1, <1>2, <3>1
            <4> QED BY <1>1, <3>2, <4>1 DEF Holds
        <3>5. EntryBlocks(es, n, m + 1) = 2
            BY <1>1, <1>4, <2>3, <3>3 DEF EntryBlocks
        <3>6. b + 2 = first + Len(ps)
            BY <1>1, <1>2, <3>1 DEF b
        <3>7. EntryPair(es, ps, first, l, n, m + 1)
            <4>1. 2 * (m + 1) <= n
                BY <1>1, <2>3
            <4> QED BY <1>4, <3>2, <3>3, <3>4, <4>1 DEF EntryPair
        <3> QED BY <3>3, <3>5, <3>6, <3>7
    <2>4. ASSUME NEW x \in BOOLEAN, k = 1, pair = <<Pcluster(x, 1, at)>>, tail = <<Entry(HeadKind(x), 0, b)>>
          PROVE  /\ es[2 * m + 1].block = b
                 /\ EntryPair(es, ps, first, l, n, m + 1)
                 /\ b + EntryBlocks(es, n, m + 1) = first + Len(ps)
        <3>1. Len(pair) = 1 /\ Len(tail) = 1 /\ pair[1] = Pcluster(x, 1, at) /\ tail[1] = Entry(HeadKind(x), 0, b)
            BY <2>4
        <3>2. es[2 * m + 1] = Entry(HeadKind(x), 0, b) /\ ps[Len(pclusters) + 1] = Pcluster(x, 1, at)
            BY <1>2, <1>3, <3>1
        <3>3. es[2 * m + 1].block = b
            BY <3>2 DEF Entry
        <3>4. Holds(ps, first, b, x, at, 1)
            <4>1. Len(pclusters) + 1 \in 1..Len(ps)
                BY ONLY <1>1, <1>2, <3>1
            <4> QED BY ONLY <1>1, <3>2, <4>1 DEF Holds
        <3>5. EntryBlocks(es, n, m + 1) = 1
            BY <1>1, <1>4, <2>4 DEF EntryBlocks
        <3>6. b + 1 = first + Len(ps)
            BY <1>1, <1>2, <3>1 DEF b
        <3>7. EntryPair(es, ps, first, l, n, m + 1)
            <4>1. 2 * (m + 1) = n + 1
                BY <1>1, <2>4
            <4> QED BY <1>4, <3>2, <3>3, <3>4, <4>1 DEF EntryPair
        <3> QED BY <3>3, <3>5, <3>6, <3>7
    <2> QED BY <2>1, <2>2, <2>3, <2>4 DEF APair
<1>6. ASSUME NEW p \in 1..m
      PROVE  /\ EntryPair(es, ps, first, l, n, p)
             /\ es[2 * p - 1].block + EntryBlocks(es, n, p) = es[2 * p + 1].block
    <2>1. es[2 * p - 1] = entries[2 * p - 1] /\ es[2 * p] = entries[2 * p] /\ p \in Nat
        <3>1. 2 * p - 1 \in 1..(2 * m) /\ 2 * p \in 1..(2 * m)
            OBVIOUS
        <3>2. p \in Nat
            OBVIOUS
        <3> QED BY ONLY <1>3, <3>1, <3>2, Zenon
    <2>2. \A c, head, a, w : Holds(pclusters, first, c, head, a, w) => Holds(ps, first, c, head, a, w)
        <3>1. Len(pclusters) \in Nat /\ Len(pair) \in Nat /\ Len(ps) = Len(pclusters) + Len(pair)
            BY ONLY <1>1, <1>2
        <3>2. \A i \in 1..Len(pclusters) : i \in 1..Len(ps) /\ ps[i] = pclusters[i]
            BY ONLY <1>2, <3>1
        <3> QED BY ONLY <3>2, Zenon DEF Holds
    <2>3. EntryPair(entries, pclusters, first, l, n, p)
        BY DEF Paired
    <2>4. EntryPair(es, ps, first, l, n, p)
        BY <2>1, <2>2, <2>3, Zenon DEF EntryPair
    <2>5. EntryBlocks(es, n, p) = EntryBlocks(entries, n, p)
        BY <2>1 DEF EntryBlocks
    <2>6. entries[2 * p - 1].block + EntryBlocks(entries, n, p)
              = IF p = m THEN first + Len(pclusters) ELSE entries[2 * p + 1].block
        BY DEF Paired
    <2>7. CASE p = m
        BY <1>5, <2>1, <2>4, <2>5, <2>6, <2>7 DEF b
    <2>8. CASE p # m
        <3>1. 2 * p + 1 \in 1..(2 * m)
            BY <2>8
        <3> QED BY <1>3, <2>1, <2>4, <2>5, <2>6, <2>8, <3>1
    <2> QED BY <2>4, <2>7, <2>8
<1>7. es[1].block = first
    <2>1. CASE m = 0
        <3>1. Len(pclusters) = 0 /\ 2 * m + 1 = 1
            BY <2>1 DEF Paired
        <3>2. b = first
            BY ONLY <3>1, first \in Nat DEF b
        <3> QED BY ONLY <1>5, <3>1, <3>2
    <2>2. CASE m # 0
        <3>1. 1 \in 1..(2 * m) /\ entries[1].block = first
            BY <2>2 DEF Paired
        <3> QED BY ONLY <1>3, <3>1
    <2> QED BY <2>1, <2>2
<1>8. Paired(es, ps, first, l, n, m + 1)
    <2>1. \A p \in 1..(m + 1) : p \in 1..m \/ p = m + 1
        OBVIOUS
    <2>2. \A p \in 1..m : p # m + 1
        OBVIOUS
    <2>3. m + 1 # 0
        OBVIOUS
    <2> QED BY <1>4, <1>5, <1>6, <1>7, <2>1, <2>2, <2>3 DEF Paired
<1> QED BY <1>8 DEF es, ps

ArePacked(pclusters, first, l, n) ==
    /\ pclusters \in Seq(Pclusters)
    /\ IndexEntries(pclusters, first) \in Seq(Entries) /\ Len(IndexEntries(pclusters, first)) = n
    /\ Paired(IndexEntries(pclusters, first), pclusters, first, l, n, Pairs(n))

(* However n clusters are packed, they have n entries, pair by pair.       *)
LEMMA PackingsKeepClusters ==
    ASSUME NEW l \in Nat, NEW n \in Nat \ {0}, NEW pclusters \in Packings(l, n), NEW first \in Nat
    PROVE  ArePacked(pclusters, first, l, n)
<1>1. PICK outcomes \in [1..Pairs(n) -> Outcomes] : pclusters = PackClusters(outcomes, l, n)
    BY DEF Packings
<1> DEFINE width(p) == AtMost(PairSize, n - PairSize * (p - 1))
           pair(p) == PackPair(outcomes[p], l + PairSize * (p - 1), width(p))
           parts(m) == [p \in 1..m |-> pair(p)]
           Kept(m) == /\ parts(m) \in Seq(Seq(Pclusters))
                      /\ FlattenSeq(parts(m)) \in Seq(Pclusters)
                      /\ IndexEntries(FlattenSeq(parts(m)), first) \in Seq(Entries)
                      /\ Len(IndexEntries(FlattenSeq(parts(m)), first)) = AtMost(2 * m, n)
                      /\ Paired(IndexEntries(FlattenSeq(parts(m)), first), FlattenSeq(parts(m)), first, l, n, m)
           Odd == {m \in 0..Pairs(n) : ~Kept(m)}
<1>2. Pairs(n) \in Nat /\ 2 * Pairs(n) \in n..(n + 1)
    BY PairsCover
<1>3. ASSUME NEW m \in 0..(Pairs(n) - 1), Kept(m) PROVE Kept(m + 1)
    <2>1. m \in Nat /\ m + 1 \in 1..Pairs(n) /\ 2 * m < n
        BY <1>2
    <2>2. outcomes[m + 1] \in Outcomes
        BY <1>1, <2>1
    <2>3. width(m + 1) \in 1..2 /\ AtMost(2 * m, n) + width(m + 1) = AtMost(2 * (m + 1), n)
        BY <2>1 DEF AtMost, PairSize
    <2>4. l + PairSize * ((m + 1) - 1) \in Int
        BY <2>1 DEF PairSize
    <2>5. parts(m) \in Seq(Seq(Pclusters)) /\ Len(parts(m)) = m /\ FlattenSeq(parts(m)) \in Seq(Pclusters)
        BY <1>3, <2>1
    <2>6. /\ pair(m + 1) \in Seq(Pclusters)
          /\ FlattenSeq(parts(m)) \o pair(m + 1) \in Seq(Pclusters)
          /\ IndexEntries(FlattenSeq(parts(m)) \o pair(m + 1), first) \in Seq(Entries)
          /\ Len(IndexEntries(FlattenSeq(parts(m)) \o pair(m + 1), first))
                 = AtMost(2 * m, n) + width(m + 1)
          /\ Paired(IndexEntries(FlattenSeq(parts(m)) \o pair(m + 1), first),
                    FlattenSeq(parts(m)) \o pair(m + 1), first, l, n, m + 1)
        <3> DEFINE at == l + PairSize * ((m + 1) - 1)
                   o == outcomes[m + 1]
                   k == width(m + 1)
                   sofar == FlattenSeq(parts(m))
                   more == PackPair(o, at, k)
                   entries == IndexEntries(sofar, first)
        <3>1. /\ o \in Outcomes /\ at \in Int /\ k \in 1..2 /\ sofar \in Seq(Pclusters)
              /\ entries \in Seq(Entries) /\ Len(entries) = AtMost(2 * m, n)
              /\ Paired(entries, sofar, first, l, n, m)
            BY <1>3, <2>2, <2>3, <2>4, <2>5
        <3>2. pair(m + 1) = more
            OBVIOUS
        <3>3. at = l + 2 * m /\ k = AtMost(2, n - 2 * m) /\ AtMost(2 * m, n) = 2 * m
            <4>1. PairSize * ((m + 1) - 1) = 2 * m
                BY <2>1 DEF PairSize
            <4>2. AtMost(2 * m, n) = 2 * m
                BY <2>1 DEF AtMost
            <4> QED BY <4>1, <4>2 DEF PairSize
        <3> HIDE DEF at, o, k, sofar, width, parts, pair, entries
        <3>4. /\ more \in Seq(Pclusters) /\ sofar \o more \in Seq(Pclusters)
              /\ AddsAPair(more, at, k, sofar, first)
            <4>1. o \in Outcomes
                BY <3>1
            <4>2. at \in Int
                BY <3>1
            <4>3. k \in 1..2
                BY <3>1
            <4>4. sofar \in Seq(Pclusters)
                BY <3>1
            <4>5. first \in Nat
                OBVIOUS
            <4> QED BY ONLY <4>1, <4>2, <4>3, <4>4, <4>5, PairEntries, Zenon DEF more
        <3>5. PICK tail \in Seq(Entries) :
                    /\ APair(more, tail, at, k, first + Len(sofar))
                    /\ Len(tail) = k
                    /\ IndexEntries(sofar \o more, first) = entries \o tail
            BY <3>4 DEF AddsAPair, entries
        <3> HIDE DEF more
        <3>6. /\ entries \o tail \in Seq(Entries)
              /\ Len(entries \o tail) = AtMost(2 * m, n) + k
            <4>1. entries \in Seq(Entries) /\ tail \in Seq(Entries)
                BY <3>1
            <4>2. entries \o tail \in Seq(Entries) /\ Len(entries \o tail) = Len(entries) + Len(tail)
                BY ONLY <4>1, Concatenation
            <4> QED BY <3>1, <3>5, <4>2
        <3>7. Paired(entries \o tail, sofar \o more, first, l, n, m + 1)
            <4>1. entries \in Seq(Entries)
                BY <3>1
            <4>2. sofar \in Seq(Pclusters)
                BY <3>1
            <4>3. n \in Nat /\ m \in Nat /\ 2 * m < n /\ Len(entries) = 2 * m
                BY <2>1, <3>1, <3>3
            <4>4. Paired(entries, sofar, first, l, n, m)
                BY <3>1
            <4>5. APair(more, tail, l + 2 * m, AtMost(2, n - 2 * m), first + Len(sofar))
                BY <3>3, <3>5, Zenon
            <4>6. more \in Seq(Pclusters)
                BY <3>4
            <4>7. first \in Nat /\ l \in Nat /\ tail \in Seq(Entries)
                OBVIOUS
            <4> QED BY ONLY <4>1, <4>2, <4>3, <4>4, <4>5, <4>6, <4>7, PairsJoin, Zenon
        <3> QED BY <3>2, <3>4, <3>5, <3>6, <3>7, Zenon DEF k, sofar
    <2> HIDE DEF pair, width
    <2>7. parts(m + 1) = Append(parts(m), pair(m + 1))
        BY <2>1
    <2> HIDE DEF parts
    <2>8. FlattenSeq(parts(m + 1)) = FlattenSeq(parts(m)) \o pair(m + 1)
        BY <2>5, <2>6, <2>7, FlattenAppend
    <2>9. parts(m + 1) \in Seq(Seq(Pclusters))
        BY <2>5, <2>6, <2>7, AppendStays
    <2> QED BY <2>3, <2>6, <2>8, <2>9
<1>4. Kept(0)
    <2>1. parts(0) = <<>>
        OBVIOUS
    <2>2. Len(<<>>) = 0 /\ <<>> \in Seq(Pclusters) /\ <<>> \in Seq(Seq(Pclusters))
        OBVIOUS
    <2> HIDE DEF parts
    <2>3. FlattenSeq(parts(0)) = <<>>
        BY <2>1, <2>2 DEF FlattenSeq
    <2>4. IndexEntries(<<>>, first) = <<>>
        <3>1. [i \in DOMAIN <<>> |-> EntriesOf(<<>>[i], first + i - 1)] = <<>>
            OBVIOUS
        <3> QED BY <2>2, <3>1 DEF IndexEntries, FlattenSeq
    <2>5. AtMost(2 * 0, n) = 0 /\ <<>> \in Seq(Entries)
        BY DEF AtMost
    <2>6. Paired(<<>>, <<>>, first, l, n, 0)
        BY DEF Paired
    <2> QED BY <2>1, <2>2, <2>3, <2>4, <2>5, <2>6
<1> HIDE DEF Kept
<1>5. Odd = {}
    <2> SUFFICES ASSUME Odd # {} PROVE FALSE
        OBVIOUS
    <2>1. Odd \subseteq Nat
        BY <1>2
    <2> HIDE DEF Odd
    <2>2. PICK m \in Odd : \A x \in Odd : m <= x
        BY <2>1, LeastElement
    <2>3. m \in 0..Pairs(n) /\ m \in Nat /\ ~Kept(m)
        BY <2>1, <2>2 DEF Odd
    <2>4. CASE m = 0
        BY <1>4, <2>3, <2>4
    <2>5. CASE m # 0
        <3>1. m - 1 \in 0..(Pairs(n) - 1) /\ ~(m <= m - 1) /\ (m - 1) + 1 = m /\ m - 1 \in 0..Pairs(n)
            BY <1>2, <2>3, <2>5
        <3>2. Kept(m - 1)
            BY <2>2, <3>1 DEF Odd
        <3>3. Kept((m - 1) + 1)
            BY <1>3, <3>1, <3>2
        <3> QED BY <2>3, <3>1, <3>3
    <2> QED BY <2>4, <2>5
<1>6. Kept(Pairs(n))
    BY <1>2, <1>5
<1>7. pclusters = FlattenSeq(parts(Pairs(n)))
    BY <1>1 DEF PackClusters
<1>8. AtMost(2 * Pairs(n), n) = n
    BY <1>2 DEF AtMost
<1> HIDE DEF parts
<1> QED BY <1>6, <1>7, <1>8 DEF Kept, ArePacked

-----------------------------------------------------------------------------
(* Where the inodes lie.                                                   *)

LEMMA BlocksAreWhole == BlockSize \in Nat \ {0} /\ \A f \in File : ClustersOf(f) \in Nat /\ (f.size > 0 <=> ClustersOf(f) > 0)
<1>1. BlockSize \in Nat \ {0}
    BY StreamAssumption, GeometryAssumption DEF SlotBytes
<1>2. ASSUME NEW f \in File PROVE ClustersOf(f) \in Nat /\ (f.size > 0 <=> ClustersOf(f) > 0)
    <2>1. f.size \in Nat
        BY DEF File
    <2> DEFINE c == f.size + BlockSize - 1
    <2>2. c \in Nat /\ (f.size = 0 => c < BlockSize) /\ (f.size > 0 => c >= BlockSize)
        BY <1>1, <2>1
    <2> HIDE DEF c
    <2>3. c = BlockSize * (c \div BlockSize) + (c % BlockSize) /\ c % BlockSize \in 0..(BlockSize - 1)
          /\ c \div BlockSize \in Nat
        BY <1>1, <2>2
    <2>4. c < BlockSize => c \div BlockSize = 0
        BY <1>1, <2>2, <2>3
    <2>5. c >= BlockSize => c \div BlockSize > 0
        BY <1>1, <2>2, <2>3
    <2>6. ClustersOf(f) = c \div BlockSize
        BY DEF ClustersOf, Clusters, c
    <2> QED BY <2>1, <2>2, <2>3, <2>4, <2>5, <2>6
<1> QED BY <1>1, <1>2

SlotsOf(f) == InodeSlots(f.ctx, ClustersOf(f))

(* Every inode begins behind the slots of the one before it.               *)
LEMMA NidsFollow ==
    ASSUME NEW fs \in Seq(File)
    PROVE  /\ DOMAIN NidsOf(fs) = DOMAIN fs
           /\ \A i \in DOMAIN fs : NidsOf(fs)[i] \in Nat
           /\ \A i \in DOMAIN fs, j \in DOMAIN fs :
                  j = i + 1 => NidsOf(fs)[i] + SlotsOf(fs[i]) <= NidsOf(fs)[j]
<1> DEFINE N == Len(fs)
           before(i) == IF i = 1 THEN 1 ELSE SlotsOf(fs[i - 1])
           Turn(i, x) == SkipSuperblock(x + before(i), SlotsOf(fs[i]))
           step == [i \in 1..N |-> [x \in Nat |-> Turn(i, x)]]
           Rounds(g) == g = [i \in 0..N |-> IF i = 0 THEN SkipSuperblock(1, 1) ELSE Turn(i, g[i - 1])]
           h == CHOOSE g : Rounds(g)
<1>1. N \in Nat /\ DOMAIN fs = 1..N /\ \A i \in 1..N : fs[i] \in File
    OBVIOUS
<1>2. \A i \in 1..N : SlotsOf(fs[i]) \in Nat \ {0}
    <2> TAKE i \in 1..N
    <2>1. ClustersOf(fs[i]) \in Nat /\ fs[i].ctx \in BOOLEAN
        BY <1>1, BlocksAreWhole DEF File
    <2> QED BY <2>1, InodeSlotsPositive DEF SlotsOf
<1>3. \A i \in 1..N : before(i) \in Nat
    <2> TAKE i \in 1..N
    <2>1. CASE i = 1
        BY <2>1
    <2>2. CASE i # 1
        <3>1. i - 1 \in 1..N
            BY <1>1, <2>2
        <3> QED BY <1>2, <2>2, <3>1
    <2> QED BY <2>1, <2>2
<1> HIDE DEF before, N
<1>4. \A i \in 1..N, x \in Nat : Turn(i, x) \in Nat /\ x + before(i) <= Turn(i, x)
    <2> TAKE i \in 1..N, x \in Nat
    <2>1. x + before(i) \in Nat /\ SlotsOf(fs[i]) \in Nat
        BY <1>2, <1>3
    <2> QED BY <2>1, SkipGoesForward
<1> HIDE DEF Turn
<1>5. step \in [1..N -> [Nat -> Nat]] /\ \A i \in 1..N, x \in Nat : step[i][x] = Turn(i, x)
    BY <1>4
<1> HIDE DEF step
<1>6. SkipSuperblock(1, 1) \in Nat
    BY SkipGoesForward
<1>7. PICK f \in [0..N -> Nat] : IsLoop(f, N, SkipSuperblock(1, 1), step)
    BY <1>1, <1>5, <1>6, LoopHasValues DEF N
<1>8. Rounds(f)
    <2>1. \A i \in 0..N : f[i] = IF i = 0 THEN SkipSuperblock(1, 1) ELSE Turn(i, f[i - 1])
        <3> TAKE i \in 0..N
        <3>1. CASE i = 0
            BY <1>7, <3>1 DEF IsLoop
        <3>2. CASE i # 0
            <4>1. i \in 1..N /\ i - 1 \in 0..N
                BY <1>1, <3>2 DEF N
            <4>2. f[i - 1] \in Nat
                BY <1>7, <4>1
            <4> QED BY <1>5, <1>7, <3>2, <4>1, <4>2 DEF IsLoop
        <3> QED BY <3>1, <3>2
    <2>2. f = [i \in 0..N |-> f[i]]
        BY <1>7
    <2> QED BY <2>1, <2>2
<1>9. Rounds(h)
    BY <1>8
<1>10. NidsOf(fs) = [i \in 1..N |-> h[i]]
    BY <1>1 DEF NidsOf, h, Turn, SlotsOf, before, N
<1> HIDE DEF h
<1>11. h[0] \in Nat /\ \A i \in 1..N : h[i] = Turn(i, h[i - 1])
    BY <1>1, <1>6, <1>9 DEF N
<1>12. \A i \in 0..N : h[i] \in Nat
    <2> DEFINE Odd == {i \in 0..N : h[i] \notin Nat}
    <2> SUFFICES ASSUME Odd # {} PROVE FALSE
        OBVIOUS
    <2>1. Odd \subseteq Nat
        OBVIOUS
    <2> HIDE DEF Odd
    <2>2. PICK i \in Odd : \A x \in Odd : i <= x
        BY <2>1, LeastElement
    <2>3. i \in 0..N /\ i \in Nat /\ h[i] \notin Nat /\ i # 0
        BY <1>11, <2>1, <2>2 DEF Odd
    <2>4. i \in 1..N /\ i - 1 \in 0..N /\ ~(i <= i - 1)
        BY <1>1, <2>3 DEF N
    <2>5. h[i - 1] \in Nat
        BY <2>2, <2>4 DEF Odd
    <2> QED BY <1>4, <1>11, <2>3, <2>4, <2>5
<1>13. \A i \in 1..N, j \in 1..N : j = i + 1 => h[i] + SlotsOf(fs[i]) <= h[j]
    <2> SUFFICES ASSUME NEW i \in 1..N, NEW j \in 1..N, j = i + 1
                 PROVE  h[i] + SlotsOf(fs[i]) <= h[j]
        OBVIOUS
    <2>1. i \in 0..N /\ j - 1 = i /\ j # 1
        BY <1>1 DEF N
    <2>2. h[i] + before(j) <= h[j]
        BY <1>4, <1>11, <1>12, <2>1
    <2> QED BY <2>1, <2>2 DEF before
<1>14. \A i \in 1..N : i \in 0..N
    BY <1>1 DEF N
<1> QED BY <1>1, <1>10, <1>12, <1>13, <1>14 DEF N

(* What is laid out before anything is streamed, and never changes.        *)
Laid == files \in Jobs /\ nids = NidsOf(files)

(* The first unit of an inode.                                             *)
FirstUnit(i) == Body(i) \div 8

LEMMA FilesAreListed ==
    ASSUME Laid
    PROVE  /\ files \in Seq(File) /\ files # <<>> /\ Len(files) \in Nat /\ DOMAIN files = 1..Len(files)
           /\ \A i \in DOMAIN files : files[i] \in File /\ nids[i] \in Nat
<1>1. files \in Seq(File) /\ files # <<>>
    BY StreamAssumption DEF Laid, File
<1>2. DOMAIN files = 1..Len(files) /\ Len(files) \in Nat /\ \A i \in DOMAIN files : files[i] \in File
    BY <1>1
<1>3. \A i \in DOMAIN files : nids[i] \in Nat
    BY <1>1, NidsFollow DEF Laid
<1> QED BY <1>1, <1>2, <1>3

LEMMA FileFacts ==
    ASSUME Laid, NEW i \in DOMAIN files
    PROVE  /\ nids[i] \in Nat /\ files[i].ctx \in BOOLEAN /\ files[i].size \in Nat
           /\ ClustersOf(files[i]) \in Nat /\ (files[i].size > 0 <=> ClustersOf(files[i]) > 0)
<1>1. files[i] \in File /\ nids[i] \in Nat
    BY FilesAreListed
<1> QED BY <1>1, BlocksAreWhole DEF File

(* The units of one inode: its body and xattr area, the map header at      *)
(* DataOff and the reserved packs; all of it within its slots.             *)
LEMMA UnitsOfAnInode ==
    ASSUME Laid, NEW i \in DOMAIN files
    PROVE  /\ FirstUnit(i) \in Nat /\ DataOff(i) \in Nat /\ FirstUnit(i) < DataOff(i)
           /\ BodyUnits(i) = FirstUnit(i)..(DataOff(i) - 1)
           /\ Reserved(i) = DataOff(i) + 1 + Pairs(ClustersOf(files[i]))
           /\ DataOff(i) <= FirstUnit(i) + 4 * SlotsOf(files[i])
           /\ files[i].size > 0 => Reserved(i) <= FirstUnit(i) + 4 * SlotsOf(files[i])
           /\ SlotsOf(files[i]) \in Nat
<1> DEFINE slot == SlotOf(nids[i])
           area == AreaLen(files[i].ctx)
           clusters == ClustersOf(files[i])
           pairs == Pairs(clusters)
           slots == SlotsOf(files[i])
<1>1. /\ nids[i] \in Nat /\ files[i].ctx \in BOOLEAN /\ clusters \in Nat
      /\ files[i].size > 0 => clusters # 0
    <2>1. /\ nids[i] \in Nat /\ files[i].ctx \in BOOLEAN
          /\ clusters \in Nat /\ (files[i].size > 0 <=> clusters > 0)
        BY FileFacts
    <2> HIDE DEF clusters
    <2> QED BY <2>1
<1>2. slot \in Nat
    BY <1>1, GeometryAssumption DEF SlotOf
<1>3. area \in {0, 16}
    BY <1>1 DEF AreaLen
<1>4. Body(i) = 32 * slot
    BY <1>2 DEF Body, SlotBytes
<1>5. pairs \in Nat /\ IndexLen(clusters) \div 8 = pairs /\ IndexLen(clusters) = 8 * pairs
    <2>1. pairs \in Nat /\ IndexLen(clusters) \div 8 = pairs
        BY <1>1, PairsCover
    <2>2. CeilDiv(clusters, 2) = pairs
        BY DEF CeilDiv, Pairs, PairSize
    <2> QED BY <2>1, <2>2 DEF IndexLen
<1>6. /\ WriteEnd(nids[i], files[i].ctx, clusters) <= (slot + slots) * 32
      /\ slots \in Nat
    BY <1>1, FootprintCoversWrites, InodeSlotsPositive DEF SlotsOf, SlotBytes
<1>7. /\ clusters = 0 => WriteEnd(nids[i], files[i].ctx, clusters) = 32 * slot + 32 + area
      /\ clusters # 0 => WriteEnd(nids[i], files[i].ctx, clusters)
                            = CeilDiv(32 * slot + 32 + area, 8) * 8 + 8 + 8 * pairs
    BY <1>2, <1>5 DEF WriteEnd, SlotBytes
<1>8. DataOff(i) = CeilDiv(32 * slot + 32 + area, 8)
    BY <1>4 DEF DataOff, SlotBytes
<1>9. BodyUnits(i) = ((32 * slot) \div 8)..((32 * slot + 32 + area) \div 8 - 1)
    BY <1>4 DEF BodyUnits, SlotBytes
<1>10. FirstUnit(i) = (32 * slot) \div 8
    BY <1>4 DEF FirstUnit
<1>11. Reserved(i) = DataOff(i) + 1 + pairs
    BY <1>5 DEF Reserved
<1> HIDE DEF slot, area, clusters, pairs, slots
<1>12. (32 * slot) \div 8 = 4 * slot
    BY <1>2
<1>13. PICK behind \in {4, 6} : /\ (32 * slot + 32 + area) \div 8 = 4 * slot + behind
                                /\ CeilDiv(32 * slot + 32 + area, 8) = 4 * slot + behind
                                /\ 32 + area = 8 * behind
    <2>1. CASE area = 0
        <3>1. /\ (32 * slot + 32 + area) \div 8 = 4 * slot + 4
              /\ CeilDiv(32 * slot + 32 + area, 8) = 4 * slot + 4
            BY <1>2, <2>1 DEF CeilDiv
        <3>2. 4 \in {4, 6} /\ 32 + area = 8 * 4
            BY <2>1
        <3> QED BY <3>1, <3>2
    <2>2. CASE area = 16
        <3>1. /\ (32 * slot + 32 + area) \div 8 = 4 * slot + 6
              /\ CeilDiv(32 * slot + 32 + area, 8) = 4 * slot + 6
            BY <1>2, <2>2 DEF CeilDiv
        <3>2. 6 \in {4, 6} /\ 32 + area = 8 * 6
            BY <2>2
        <3> QED BY <3>1, <3>2
    <2> QED BY <1>3, <2>1, <2>2
<1>14. /\ FirstUnit(i) = 4 * slot /\ DataOff(i) = 4 * slot + behind
       /\ BodyUnits(i) = FirstUnit(i)..(DataOff(i) - 1)
    <2>1. FirstUnit(i) = 4 * slot /\ DataOff(i) = 4 * slot + behind
        BY <1>8, <1>10, <1>12, <1>13
    <2> QED BY <1>9, <1>12, <1>13, <2>1
<1>15. DataOff(i) <= FirstUnit(i) + 4 * slots
    <2>1. CASE clusters = 0
        BY <1>2, <1>3, <1>6, <1>7, <1>13, <1>14, <2>1
    <2>2. CASE clusters # 0
        BY <1>2, <1>5, <1>6, <1>7, <1>13, <1>14, <2>2
    <2> QED BY <2>1, <2>2
<1>16. clusters # 0 => DataOff(i) + 1 + pairs <= FirstUnit(i) + 4 * slots
    BY <1>2, <1>5, <1>6, <1>7, <1>13, <1>14
<1>17. FirstUnit(i) \in Nat /\ DataOff(i) \in Nat /\ FirstUnit(i) < DataOff(i)
    BY <1>2, <1>13, <1>14
<1> QED BY <1>1, <1>6, <1>11, <1>14, <1>15, <1>16, <1>17 DEF slots, clusters, pairs

(* So what belongs to one inode ends where the next one begins, at most.   *)
LEMMA InodesApart ==
    ASSUME Laid, NEW i \in DOMAIN files, NEW j \in DOMAIN files, i < j
    PROVE  /\ DataOff(i) <= FirstUnit(j)
           /\ files[i].size > 0 => Reserved(i) <= FirstUnit(j)
<1>1. \A k \in DOMAIN files : FirstUnit(k) = 4 * (MetaBlock * SlotsPerBlock) + 4 * nids[k]
    <2> TAKE k \in DOMAIN files
    <2>1. nids[k] \in Nat
        BY FilesAreListed
    <2> DEFINE base == MetaBlock * SlotsPerBlock
    <2>2. base \in Nat
        BY GeometryAssumption
    <2>3. FirstUnit(k) = ((base + nids[k]) * 32) \div 8
        BY DEF FirstUnit, Body, SlotOf, SlotBytes
    <2> HIDE DEF base
    <2>4. ((base + nids[k]) * 32) \div 8 = 4 * base + 4 * nids[k]
        BY <2>1, <2>2
    <2> QED BY <2>3, <2>4 DEF base
<1>2. MetaBlock * SlotsPerBlock \in Nat
    BY GeometryAssumption
<1>3. /\ Len(files) \in Nat /\ DOMAIN files = 1..Len(files) /\ files \in Seq(File)
      /\ \A k \in DOMAIN files : nids[k] \in Nat /\ SlotsOf(files[k]) \in Nat
    BY FilesAreListed, UnitsOfAnInode
<1>4. \A k \in DOMAIN files, m \in DOMAIN files : m = k + 1 => nids[k] + SlotsOf(files[k]) <= nids[m]
    BY <1>3, NidsFollow DEF Laid
<1>5. nids[i] + SlotsOf(files[i]) <= nids[j]
    <2> DEFINE Odd == {m \in 1..Len(files) : i < m /\ ~(nids[i] + SlotsOf(files[i]) <= nids[m])}
    <2> SUFFICES ASSUME Odd # {} PROVE FALSE
        BY <1>3
    <2>1. Odd \subseteq Nat
        BY <1>3
    <2> HIDE DEF Odd
    <2>2. PICK m \in Odd : \A x \in Odd : m <= x
        BY <2>1, LeastElement
    <2>3. m \in 1..Len(files) /\ m \in Nat /\ i < m /\ ~(nids[i] + SlotsOf(files[i]) <= nids[m])
        BY <2>1, <2>2 DEF Odd
    <2>4. m - 1 \in 1..Len(files) /\ ~(m <= m - 1) /\ m = (m - 1) + 1 /\ i \in 1..Len(files) /\ i <= m - 1
        BY <1>3, <2>3
    <2>5. nids[m - 1] + SlotsOf(files[m - 1]) <= nids[m]
        BY <1>3, <1>4, <2>3, <2>4
    <2>6. CASE i = m - 1
        BY <2>3, <2>5, <2>6
    <2>7. CASE i # m - 1
        <3>1. m - 1 \notin Odd /\ i < m - 1
            BY <2>2, <2>4, <2>7
        <3>2. nids[i] + SlotsOf(files[i]) <= nids[m - 1]
            BY <2>4, <3>1 DEF Odd
        <3>3. /\ nids[i] \in Nat /\ SlotsOf(files[i]) \in Nat /\ nids[m - 1] \in Nat
              /\ SlotsOf(files[m - 1]) \in Nat /\ nids[m] \in Nat
            BY <1>3, <2>3, <2>4
        <3> QED BY <2>3, <2>5, <3>2, <3>3
    <2> QED BY <2>6, <2>7
<1>6. FirstUnit(i) + 4 * SlotsOf(files[i]) <= FirstUnit(j)
    <2>1. /\ FirstUnit(i) = 4 * (MetaBlock * SlotsPerBlock) + 4 * nids[i]
          /\ FirstUnit(j) = 4 * (MetaBlock * SlotsPerBlock) + 4 * nids[j]
        BY <1>1
    <2>2. SlotsOf(files[i]) \in Nat /\ nids[i] \in Nat /\ nids[j] \in Nat
        BY <1>2, <1>3
    <2>3. 4 * nids[i] + 4 * SlotsOf(files[i]) <= 4 * nids[j]
        BY ONLY <1>5, <2>2
    <2> QED BY ONLY <1>2, <2>1, <2>2, <2>3
<1>7. /\ DataOff(i) \in Nat /\ FirstUnit(i) \in Nat /\ FirstUnit(j) \in Nat /\ SlotsOf(files[i]) \in Nat
      /\ Reserved(i) \in Nat
      /\ DataOff(i) <= FirstUnit(i) + 4 * SlotsOf(files[i])
      /\ files[i].size > 0 => Reserved(i) <= FirstUnit(i) + 4 * SlotsOf(files[i])
    <2>1. Pairs(ClustersOf(files[i])) \in Nat
        BY FileFacts, PairsCover
    <2> QED BY <2>1, UnitsOfAnInode
<1> QED BY <1>6, <1>7

-----------------------------------------------------------------------------
(* The inductive invariant.  That bodies and headers are whole is kept by  *)
(* knowing where the next pack goes: as many packs behind the map header   *)
(* as there are pairs of clusters before the next one.  That holds because *)
(* every batch but a file's last is of whole pairs, so that nothing is     *)
(* ever carried over.                                                      *)
Place ==
    /\ Laid /\ cursor \in Nat
    /\ pc \in {"file", "stream", "check", "done"}
    /\ file \in 1..(Len(files) + 1) /\ Len(ends) = file - 1 /\ ends \in Seq(Nat)
    /\ pc \notin {"file", "stream"} => file = Len(files) + 1
    /\ ~carry

Streaming ==
    pc = "stream" =>
        /\ file <= Len(files) /\ files[file].size > 0
        /\ lcn \in 0..Total /\ (lcn % 2 = 0 \/ lcn = Total)
        /\ index = DataOff(file) + 1 + Pairs(lcn)

IndexesEnd == \A i \in 1..(file - 1) : files[i].size > 0 => ends[i] = Reserved(i)

BodiesStand == \A i \in DOMAIN files : \A u \in BodyUnits(i) : u \in DOMAIN meta /\ meta[u].what = "inode"

Begun(i) == files[i].size > 0 /\ (i < file \/ (i = file /\ pc = "stream"))
HeadersStand ==
    \A i \in DOMAIN files : Begun(i) => DataOff(i) \in DOMAIN meta /\ meta[DataOff(i)].what = "header"

IInv == Place /\ Streaming /\ IndexesEnd /\ BodiesStand /\ HeadersStand

(* What is written over keeps the rest.                                    *)
Overwrites(put, map, at, cells) ==
    /\ DOMAIN put = DOMAIN map \cup (at..(at + Len(cells) - 1))
    /\ \A u \in DOMAIN map : u \notin at..(at + Len(cells) - 1) => put[u] = map[u]
    /\ \A u \in at..(at + Len(cells) - 1) : put[u] = cells[u - at + 1]

LEMMA PutKeepsTheRest ==
    ASSUME NEW map, NEW at \in Nat, NEW cells, Len(cells) \in Nat
    PROVE  Overwrites(Put(map, at, cells), map, at, cells)
BY DEF Put, Overwrites

(* The header and the packs of a file are no body's and no other header's. *)
LEMMA IndexesApart ==
    ASSUME Laid, NEW i \in DOMAIN files, files[i].size > 0, NEW j \in DOMAIN files,
           NEW u \in DataOff(i)..(Reserved(i) - 1)
    PROVE  /\ u \notin BodyUnits(j)
           /\ u = DataOff(j) => u = DataOff(i)
<1>1. /\ DataOff(i) \in Nat /\ FirstUnit(i) \in Nat /\ FirstUnit(i) < DataOff(i) /\ Reserved(i) \in Nat
      /\ DataOff(j) \in Nat /\ FirstUnit(j) \in Nat /\ FirstUnit(j) < DataOff(j)
      /\ BodyUnits(j) = FirstUnit(j)..(DataOff(j) - 1)
    <2>1. Pairs(ClustersOf(files[i])) \in Nat
        BY FileFacts, PairsCover
    <2>2. /\ DataOff(i) \in Nat /\ FirstUnit(i) \in Nat /\ FirstUnit(i) < DataOff(i)
          /\ Reserved(i) = DataOff(i) + 1 + Pairs(ClustersOf(files[i]))
        BY UnitsOfAnInode
    <2>3. /\ DataOff(j) \in Nat /\ FirstUnit(j) \in Nat /\ FirstUnit(j) < DataOff(j)
          /\ BodyUnits(j) = FirstUnit(j)..(DataOff(j) - 1)
        BY UnitsOfAnInode
    <2> QED BY ONLY <2>1, <2>2, <2>3
<1>2. i \in Nat /\ j \in Nat
    BY FilesAreListed
<1>3. CASE j < i
    <2>1. DataOff(j) <= FirstUnit(i)
        BY <1>3, InodesApart
    <2> QED BY <1>1, <2>1
<1>4. CASE j = i
    BY <1>1, <1>4
<1>5. CASE i < j
    <2>1. Reserved(i) <= FirstUnit(j)
        BY <1>5, InodesApart
    <2> QED BY <1>1, <2>1
<1> QED BY <1>2, <1>3, <1>4, <1>5

(* The batches: every one but the last is of whole pairs.                  *)
LEMMA BatchesAreWhole ==
    ASSUME IInv, pc = "stream"
    PROVE  /\ ~CarriesOver /\ Batch \in Nat /\ lcn \in Nat /\ Total \in Nat
           /\ lcn + Batch \in 0..Total
           /\ (lcn + Batch) % 2 = 0 \/ lcn + Batch = Total
           /\ Batch = 0 => lcn = Total
           /\ lcn < Total => Pairs(lcn + Batch) = Pairs(lcn) + Pairs(Batch)
<1> DEFINE fit == BatchBytes \div BlockSize
           pairs == IF fit < 1 THEN 1 ELSE IF fit > BatchLimit THEN BatchLimit ELSE fit
<1>1. fit \in Nat
    BY BlocksAreWhole, StreamAssumption
<1> HIDE DEF fit
<1>2. pairs \in Nat \ {0} /\ BatchClusters = 2 * pairs
    BY <1>1, StreamAssumption DEF BatchClusters, PairSize, fit
<1> HIDE DEF pairs
<1>3. /\ file \in DOMAIN files /\ ~carry
      /\ lcn \in 0..Total /\ (lcn % 2 = 0 \/ lcn = Total)
    BY FilesAreListed DEF IInv, Place, Streaming
<1>4. Total \in Nat
    BY <1>3, FileFacts DEF Total, IInv, Place
<1>5. Taken = IF Total - lcn < 2 * pairs THEN Total - lcn ELSE 2 * pairs
    BY <1>2, <1>3, <1>4 DEF Taken
<1>6. Taken \in Nat /\ lcn + Taken \in 0..Total /\ (Taken = 2 * pairs \/ lcn + Taken = Total)
      /\ (Taken = 0 => lcn = Total)
    BY <1>2, <1>3, <1>4, <1>5
<1>7. (2 * pairs) % 2 = 0
    BY <1>2
<1>8. ~CarriesOver
    BY <1>3, <1>4, <1>6, <1>7 DEF CarriesOver
<1>9. Batch = Taken
    BY <1>8 DEF Batch
<1>10. (lcn + Batch) % 2 = 0 \/ lcn + Batch = Total
    BY <1>2, <1>3, <1>4, <1>6, <1>9
<1>11. lcn < Total => Pairs(lcn + Batch) = Pairs(lcn) + Pairs(Batch)
    <2> SUFFICES ASSUME lcn < Total PROVE Pairs(lcn + Batch) = Pairs(lcn) + Pairs(Batch)
        OBVIOUS
    <2>1. PICK k \in Nat : lcn = 2 * k
        <3>1. lcn % 2 = 0 /\ lcn \in Nat
            BY <1>3, <1>4
        <3> QED BY <3>1
    <2>2. Batch \in Nat
        BY <1>6, <1>9
    <2>3. Pairs(2 * k + Batch) = k + Pairs(Batch)
        BY <2>2 DEF Pairs, PairSize
    <2>4. Pairs(2 * k) = k
        BY DEF Pairs, PairSize
    <2> QED BY <2>1, <2>3, <2>4
<1> QED BY <1>3, <1>4, <1>6, <1>8, <1>9, <1>10, <1>11

-----------------------------------------------------------------------------
(* The steps.                                                              *)

LEMMA InitIInv == Init => IInv
<1> SUFFICES ASSUME Init PROVE IInv
    OBVIOUS
<1>1. Laid
    BY DEF Init, Laid
<1>2. Len(files) \in Nat \ {0} /\ DOMAIN files = 1..Len(files) /\ Len(files) \in DOMAIN files
    BY <1>1, FilesAreListed
<1>3. cursor \in Nat
    <2> DEFINE next == nids[Len(files)] + InodeSlots(files[Len(files)].ctx, ClustersOf(files[Len(files)]))
    <2>1. next \in Nat
        BY <1>1, <1>2, FileFacts, UnitsOfAnInode DEF SlotsOf
    <2> HIDE DEF next
    <2>2. CeilDiv(next, SlotsPerBlock) \in Nat /\ MetaBlock \in Nat
        BY <2>1, CeilDivBounds, GeometryAssumption
    <2>3. cursor = MetaBlock + CeilDiv(next, SlotsPerBlock) + 1
        BY DEF Init, FirstPayload, next
    <2> QED BY <2>2, <2>3
<1>4. Place
    BY <1>1, <1>2, <1>3 DEF Init, Place
<1>5. Streaming /\ IndexesEnd
    BY DEF Init, Streaming, IndexesEnd
<1>6. BodiesStand
    BY DEF Init, BodiesStand
<1>7. HeadersStand
    BY <1>2 DEF Init, HeadersStand, Begun
<1> QED BY <1>4, <1>5, <1>6, <1>7 DEF IInv

(* The files do not change, nor does where they lie.                       *)
Settled == files' = files /\ nids' = nids

LEMMA SettledStays ==
    ASSUME IInv, Settled
    PROVE  /\ Laid' /\ DOMAIN files' = DOMAIN files
           /\ \A i : /\ DataOff(i)' = DataOff(i) /\ Reserved(i)' = Reserved(i)
                     /\ BodyUnits(i)' = BodyUnits(i)
<1>1. Laid'
    BY DEF IInv, Place, Laid, Settled
<1> QED BY <1>1 DEF Settled, DataOff, Body, Reserved, BodyUnits

LEMMA StartFileKeeps ==
    ASSUME IInv, StartFile
    PROVE  IInv'
<1>1. Settled /\ pc = "file" /\ file <= Len(files)
    BY DEF StartFile, Settled
<1>2. /\ Laid' /\ DOMAIN files' = DOMAIN files
      /\ \A i : DataOff(i)' = DataOff(i) /\ Reserved(i)' = Reserved(i) /\ BodyUnits(i)' = BodyUnits(i)
    BY <1>1, SettledStays
<1>3. /\ Laid /\ file \in DOMAIN files /\ file \in Nat /\ Len(files) \in Nat /\ DOMAIN files = 1..Len(files)
      /\ files' = files /\ Len(files') = Len(files) /\ cursor \in Nat /\ ~carry
      /\ Len(ends) = file - 1 /\ ends \in Seq(Nat)
    BY <1>1, FilesAreListed DEF IInv, Place, Settled
<1>4. files[file].size \in Nat /\ ClustersOf(files[file]) \in Nat /\ DataOff(file) \in Nat
    BY <1>3, FileFacts, UnitsOfAnInode
<1>5. CASE files[file].size = 0
    <2>1. /\ file' = file + 1 /\ ends' = Append(ends, 0) /\ pc' = pc /\ carry' = carry /\ meta' = meta
          /\ cursor' = cursor
        BY <1>5 DEF StartFile
    <2>2. Place'
        <3>1. ends' \in Seq(Nat) /\ Len(ends') = file
            BY <1>3, <2>1
        <3> QED BY <1>1, <1>2, <1>3, <2>1, <3>1 DEF Place
    <2>3. Streaming'
        BY <1>1, <2>1 DEF Streaming
    <2>4. IndexesEnd'
        <3> SUFFICES ASSUME NEW i \in 1..((file + 1) - 1), files[i].size > 0
                     PROVE  ends'[i] = Reserved(i)
            BY <1>2, <1>3, <2>1 DEF IndexesEnd
        <3>1. i # file /\ i \in 1..(file - 1)
            BY <1>3, <1>5
        <3>2. ends'[i] = ends[i]
            BY <1>3, <2>1, <3>1
        <3> QED BY <3>1, <3>2 DEF IInv, IndexesEnd
    <2>5. BodiesStand'
        BY <1>2, <2>1 DEF IInv, BodiesStand
    <2>6. HeadersStand'
        <3> SUFFICES ASSUME NEW i \in DOMAIN files, Begun(i)'
                     PROVE  DataOff(i) \in DOMAIN meta /\ meta[DataOff(i)].what = "header"
            BY <1>2, <2>1 DEF HeadersStand
        <3>1. Begun(i)
            BY <1>1, <1>3, <1>5, <2>1 DEF Begun
        <3> QED BY <3>1 DEF IInv, HeadersStand
    <2> QED BY <2>2, <2>3, <2>4, <2>5, <2>6 DEF IInv
<1>6. CASE files[file].size # 0
    <2> DEFINE header == <<[what |-> "header"]>>
    <2>1. /\ meta' = Put(meta, DataOff(file), header) /\ index' = DataOff(file) + 1
          /\ lcn' = 0 /\ carry' = FALSE /\ pc' = "stream" /\ file' = file /\ ends' = ends /\ cursor' = cursor
        BY <1>6 DEF StartFile
    <2>2. Len(header) = 1 /\ header[1].what = "header" /\ Len(header) \in Nat
        OBVIOUS
    <2> HIDE DEF header
    <2>3. /\ DOMAIN meta' = DOMAIN meta \cup {DataOff(file)}
          /\ \A u \in DOMAIN meta : u # DataOff(file) => meta'[u] = meta[u]
          /\ meta'[DataOff(file)].what = "header"
        <3>1. DataOff(file)..(DataOff(file) + Len(header) - 1) = {DataOff(file)}
              /\ DataOff(file) - DataOff(file) + 1 = 1
            BY <1>4, <2>2
        <3> DEFINE at == DataOff(file)
                   put == Put(meta, at, header)
        <3>2. at \in Nat /\ meta' = put
            BY <1>4, <2>1
        <3> HIDE DEF at, put
        <3>3. Overwrites(put, meta, at, header)
            BY <2>2, <3>2, PutKeepsTheRest DEF put
        <3>4. put[at].what = "header"
            BY <2>2, <3>2, <3>3 DEF Overwrites
        <3> QED BY <3>1, <3>2, <3>3, <3>4 DEF at, Overwrites
    <2>4. DataOff(file) \in DataOff(file)..(Reserved(file) - 1)
        <3>1. Pairs(ClustersOf(files[file])) \in Nat
            BY <1>4, PairsCover
        <3>2. Reserved(file) = DataOff(file) + 1 + Pairs(ClustersOf(files[file]))
            BY <1>3, UnitsOfAnInode
        <3> QED BY <1>4, <3>1, <3>2
    <2>5. Place'
        BY <1>1, <1>2, <1>3, <2>1 DEF Place
    <2>6. Streaming'
        <3>1. Total' = ClustersOf(files[file]) /\ Pairs(0) = 0
            BY <1>3, <2>1 DEF Total, Pairs, PairSize
        <3>2. DataOff(file)' = DataOff(file)
            BY <1>1, <2>1 DEF DataOff, Body, Settled
        <3> QED BY <1>3, <1>4, <1>6, <2>1, <3>1, <3>2 DEF Streaming
    <2>7. IndexesEnd'
        BY <1>2, <1>3, <2>1 DEF IInv, IndexesEnd
    <2>8. BodiesStand'
        <3> SUFFICES ASSUME NEW i \in DOMAIN files, NEW u \in BodyUnits(i)
                     PROVE  u \in DOMAIN meta' /\ meta'[u].what = "inode"
            BY <1>2 DEF BodiesStand
        <3>1. u \in DOMAIN meta /\ meta[u].what = "inode"
            BY DEF IInv, BodiesStand
        <3>2. files[file].size > 0
            BY <1>4, <1>6
        <3>3. u # DataOff(file)
            BY <1>3, <2>4, <3>2, IndexesApart
        <3> QED BY <2>3, <3>1, <3>3
    <2>9. HeadersStand'
        <3> SUFFICES ASSUME NEW i \in DOMAIN files, Begun(i)'
                     PROVE  DataOff(i) \in DOMAIN meta' /\ meta'[DataOff(i)].what = "header"
            BY <1>2 DEF HeadersStand
        <3>1. CASE i = file
            BY <2>3, <3>1
        <3>2. CASE i # file
            <4>1. Begun(i)
                BY <1>3, <2>1, <3>2 DEF Begun
            <4>2. DataOff(i) \in DOMAIN meta /\ meta[DataOff(i)].what = "header"
                BY <4>1 DEF IInv, HeadersStand
            <4> QED BY <2>3, <4>2
        <3> QED BY <3>1, <3>2
    <2> QED BY <2>5, <2>6, <2>7, <2>8, <2>9 DEF IInv
<1> QED BY <1>5, <1>6

LEMMA PairsGrow ==
    ASSUME NEW a \in Nat, NEW b \in Nat, a <= b
    PROVE  Pairs(a) <= Pairs(b)
BY PairsCover DEF Pairs, PairSize

LEMMA WriteBatchKeeps ==
    ASSUME IInv, WriteBatch
    PROVE  IInv'
<1>1. /\ Settled /\ pc = "stream" /\ pc' = pc /\ file' = file /\ ends' = ends
      /\ lcn' = lcn + Batch /\ carry' = CarriesOver /\ Batch > 0
      /\ carry \/ lcn < Total
    BY DEF WriteBatch, Settled
<1>2. /\ Laid' /\ DOMAIN files' = DOMAIN files
      /\ \A i : DataOff(i)' = DataOff(i) /\ Reserved(i)' = Reserved(i) /\ BodyUnits(i)' = BodyUnits(i)
    BY <1>1, SettledStays
<1>3. /\ Laid /\ file <= Len(files) /\ file \in Nat \ {0} /\ Len(files) \in Nat /\ DOMAIN files = 1..Len(files)
      /\ files' = files /\ Len(files') = Len(files) /\ cursor \in Nat /\ ~carry
      /\ Len(ends) = file - 1 /\ ends \in Seq(Nat)
      /\ files[file].size > 0 /\ index = DataOff(file) + 1 + Pairs(lcn)
    BY <1>1, FilesAreListed DEF IInv, Place, Streaming, Settled
<1>4. file \in DOMAIN files
    BY <1>3
<1>5. /\ ~CarriesOver /\ Batch \in Nat \ {0} /\ lcn \in Nat /\ Total \in Nat /\ lcn < Total
      /\ lcn + Batch \in 0..Total /\ ((lcn + Batch) % 2 = 0 \/ lcn + Batch = Total)
      /\ Pairs(lcn + Batch) = Pairs(lcn) + Pairs(Batch)
    BY <1>1, <1>3, BatchesAreWhole
<1>6. /\ DataOff(file) \in Nat /\ Reserved(file) = DataOff(file) + 1 + Pairs(Total)
      /\ Pairs(lcn) \in Nat /\ Pairs(Batch) \in Nat /\ Pairs(Total) \in Nat /\ Pairs(lcn + Batch) <= Pairs(Total)
    <2>1. /\ DataOff(file) \in Nat /\ Reserved(file) = DataOff(file) + 1 + Pairs(Total)
        BY <1>3, <1>4, UnitsOfAnInode DEF Total
    <2>2. lcn + Batch \in Nat /\ lcn + Batch <= Total
        BY <1>5
    <2> QED BY <1>5, <2>1, <2>2, PairsCover, PairsGrow
<1>7. PICK pclusters \in Packings(lcn, Batch) :
          LET packs == EncodePclusters(pclusters, cursor)
          IN  /\ meta' = Put(meta, index, [p \in DOMAIN packs |-> [what |-> "pack", pack |-> packs[p]]])
              /\ index' = index + Len(packs)
              /\ cursor' = cursor + Len(pclusters)
    BY DEF WriteBatch
<1> DEFINE packs == EncodePclusters(pclusters, cursor)
           cells == [p \in DOMAIN packs |-> [what |-> "pack", pack |-> packs[p]]]
<1>8. pclusters \in Seq(Pclusters) /\ Len(IndexEntries(pclusters, cursor)) = Batch
    <2>1. cursor \in Nat
        BY <1>3
    <2>2. lcn \in Nat
        BY <1>5
    <2>3. Batch \in Nat \ {0}
        BY <1>5
    <2>4. pclusters \in Packings(lcn, Batch)
        BY <1>7
    <2>5. ArePacked(pclusters, cursor, lcn, Batch)
        BY ONLY <2>1, <2>2, <2>3, <2>4, PackingsKeepClusters, Zenon
    <2> QED BY <2>5 DEF ArePacked
<1>9. DOMAIN packs = 1..Pairs(Batch) /\ Len(packs) = Pairs(Batch) /\ Len(cells) = Pairs(Batch)
    <2>1. packs = [p \in 1..Pairs(Batch) |-> Pack(IndexEntries(pclusters, cursor), p)]
        BY <1>8 DEF EncodePclusters
    <2> HIDE DEF packs
    <2>2. DOMAIN packs = 1..Pairs(Batch) /\ Len(packs) = Pairs(Batch)
        BY <1>6, <2>1
    <2>3. DOMAIN cells = 1..Pairs(Batch) /\ cells = [p \in 1..Pairs(Batch) |-> [what |-> "pack", pack |-> packs[p]]]
        BY <2>2
    <2>4. Len(cells) = Pairs(Batch)
        BY <1>6, <2>3
    <2> QED BY <2>2, <2>4
<1>10. meta' = Put(meta, index, cells) /\ index' = index + Pairs(Batch) /\ cursor' \in Nat
    <2>1. Len(pclusters) \in Nat
        BY <1>8
    <2> HIDE DEF Pclusters
    <2> QED BY <1>3, <1>7, <1>9, <2>1
<1> HIDE DEF packs, cells
<1>11. Overwrites(meta', meta, index, cells)
    <2>1. index \in Nat /\ Len(cells) \in Nat
        BY <1>3, <1>6, <1>9
    <2> QED BY <1>10, <2>1, PutKeepsTheRest
<1>12. \A u \in DOMAIN meta :
          u \notin (DataOff(file) + 1)..(Reserved(file) - 1) => u \in DOMAIN meta' /\ meta'[u] = meta[u]
    <2> SUFFICES ASSUME NEW u \in DOMAIN meta, u \notin (DataOff(file) + 1)..(Reserved(file) - 1)
                 PROVE  u \in DOMAIN meta' /\ meta'[u] = meta[u]
        OBVIOUS
    <2>1. u \notin index..(index + Len(cells) - 1)
        <3>1. index = DataOff(file) + 1 + Pairs(lcn) /\ Pairs(lcn) + Pairs(Batch) <= Pairs(Total)
            BY ONLY <1>3, <1>5, <1>6
        <3>2. \A w \in index..(index + Pairs(Batch) - 1) : w \in (DataOff(file) + 1)..(Reserved(file) - 1)
            BY ONLY <1>6, <3>1
        <3> QED BY <1>9, <3>2
    <2> QED BY <1>11, <2>1 DEF Overwrites
<1>13. \A u \in (DataOff(file) + 1)..(Reserved(file) - 1) : u \in DataOff(file)..(Reserved(file) - 1) /\ u # DataOff(file)
    BY <1>6
<1>14. Place'
    BY <1>1, <1>2, <1>3, <1>5, <1>10 DEF Place
<1>15. Streaming'
    <2>1. Total' = Total /\ DataOff(file)' = DataOff(file)
        BY <1>1 DEF Total, DataOff, Body, Settled
    <2>2. index' = DataOff(file) + 1 + Pairs(lcn + Batch)
        <3>1. index = DataOff(file) + 1 + Pairs(lcn) /\ Pairs(lcn + Batch) = Pairs(lcn) + Pairs(Batch)
            BY ONLY <1>3, <1>5
        <3> QED BY ONLY <1>6, <1>10, <3>1
    <2> QED BY <1>1, <1>3, <1>5, <2>1, <2>2 DEF Streaming
<1>16. IndexesEnd'
    BY <1>1, <1>2, <1>3 DEF IInv, IndexesEnd
<1>17. BodiesStand'
    <2> SUFFICES ASSUME NEW i \in DOMAIN files, NEW u \in BodyUnits(i)
                 PROVE  u \in DOMAIN meta' /\ meta'[u].what = "inode"
        BY <1>2 DEF BodiesStand
    <2>1. u \in DOMAIN meta /\ meta[u].what = "inode"
        BY DEF IInv, BodiesStand
    <2>2. u \notin (DataOff(file) + 1)..(Reserved(file) - 1)
        BY <1>3, <1>4, <1>13, IndexesApart
    <2> QED BY <1>12, <2>1, <2>2
<1>18. HeadersStand'
    <2> SUFFICES ASSUME NEW i \in DOMAIN files, Begun(i)'
                 PROVE  DataOff(i) \in DOMAIN meta' /\ meta'[DataOff(i)].what = "header"
        BY <1>2 DEF HeadersStand
    <2>1. Begun(i)
        BY <1>1, <1>3 DEF Begun
    <2>2. DataOff(i) \in DOMAIN meta /\ meta[DataOff(i)].what = "header"
        BY <2>1 DEF IInv, HeadersStand
    <2>3. DataOff(i) \notin (DataOff(file) + 1)..(Reserved(file) - 1)
        BY <1>3, <1>4, <1>13, IndexesApart
    <2> QED BY <1>12, <2>2, <2>3
<1> QED BY <1>14, <1>15, <1>16, <1>17, <1>18 DEF IInv

(* At the end of a file its index fills what was reserved for it.          *)
LEMMA EndFileKeeps ==
    ASSUME IInv, EndFile
    PROVE  IInv'
<1>1. /\ Settled /\ pc = "stream" /\ pc' = "file" /\ file' = file + 1 /\ ends' = Append(ends, index)
      /\ UNCHANGED <<lcn, carry, cursor, index, meta>> /\ ((~carry /\ lcn >= Total) \/ Batch = 0)
    BY DEF EndFile, Settled
<1>2. /\ Laid' /\ DOMAIN files' = DOMAIN files
      /\ \A i : DataOff(i)' = DataOff(i) /\ Reserved(i)' = Reserved(i) /\ BodyUnits(i)' = BodyUnits(i)
    BY <1>1, SettledStays
<1>3. /\ Laid /\ file <= Len(files) /\ file \in Nat \ {0} /\ Len(files) \in Nat /\ DOMAIN files = 1..Len(files)
      /\ files' = files /\ Len(files') = Len(files) /\ cursor \in Nat /\ ~carry
      /\ Len(ends) = file - 1 /\ ends \in Seq(Nat)
      /\ files[file].size > 0 /\ index = DataOff(file) + 1 + Pairs(lcn)
    BY <1>1, FilesAreListed DEF IInv, Place, Streaming, Settled
<1>4. file \in DOMAIN files
    BY <1>3
<1>5. lcn = Total
    BY <1>1, <1>3, BatchesAreWhole
<1>6. index = Reserved(file) /\ index \in Nat
    <2>1. /\ DataOff(file) \in Nat /\ Reserved(file) = DataOff(file) + 1 + Pairs(Total)
        BY <1>3, <1>4, UnitsOfAnInode DEF Total
    <2>2. Pairs(Total) \in Nat
        BY <1>3, <1>4, FileFacts, PairsCover DEF Total
    <2> QED BY <1>3, <1>5, <2>1, <2>2
<1>7. Place'
    <2>1. ends' \in Seq(Nat) /\ Len(ends') = file
        BY <1>1, <1>3, <1>6
    <2> QED BY <1>1, <1>2, <1>3, <2>1 DEF Place
<1>8. Streaming'
    BY <1>1 DEF Streaming
<1>9. IndexesEnd'
    <2> SUFFICES ASSUME NEW i \in 1..((file + 1) - 1), files[i].size > 0
                 PROVE  ends'[i] = Reserved(i)
        BY <1>1, <1>2, <1>3 DEF IndexesEnd
    <2>1. CASE i = file
        <3>1. ends'[i] = index
            BY <1>1, <1>3, <2>1
        <3> QED BY <1>6, <2>1, <3>1
    <2>2. CASE i # file
        <3>1. i \in 1..(file - 1)
            BY <1>3, <2>2
        <3>2. ends'[i] = ends[i]
            BY <1>1, <1>3, <3>1
        <3> QED BY <3>1, <3>2 DEF IInv, IndexesEnd
    <2> QED BY <2>1, <2>2
<1>10. BodiesStand'
    BY <1>1, <1>2 DEF IInv, BodiesStand
<1>11. HeadersStand'
    <2> SUFFICES ASSUME NEW i \in DOMAIN files, Begun(i)'
                 PROVE  DataOff(i) \in DOMAIN meta /\ meta[DataOff(i)].what = "header"
        BY <1>1, <1>2 DEF HeadersStand
    <2>1. Begun(i)
        BY <1>1, <1>3 DEF Begun
    <2> QED BY <2>1 DEF IInv, HeadersStand
<1> QED BY <1>7, <1>8, <1>9, <1>10, <1>11 DEF IInv

(* The check at the end finds every index within its space.                *)
LEMMA EndingKeeps ==
    ASSUME IInv, StreamsEnd \/ CheckReservations
    PROVE  IInv'
<1>1. /\ Settled /\ pc \in {"file", "check"} /\ UNCHANGED <<file, lcn, carry, cursor, index, ends, meta>>
      /\ pc = "file" => file > Len(files)
    BY DEF StreamsEnd, CheckReservations, Settled
<1>2. /\ Laid' /\ DOMAIN files' = DOMAIN files
      /\ \A i : DataOff(i)' = DataOff(i) /\ Reserved(i)' = Reserved(i) /\ BodyUnits(i)' = BodyUnits(i)
    BY <1>1, SettledStays
<1>3. /\ file \in 1..(Len(files) + 1) /\ Len(files) \in Nat /\ DOMAIN files = 1..Len(files)
      /\ files' = files /\ Len(files') = Len(files)
      /\ file = Len(files) + 1
    <2>1. Len(files) \in Nat /\ DOMAIN files = 1..Len(files)
        BY FilesAreListed DEF IInv, Place
    <2> QED BY <1>1, <2>1 DEF IInv, Place, Settled
<1>4. pc' \in {"check", "done"}
    <2>1. CASE StreamsEnd
        BY <2>1 DEF StreamsEnd
    <2>2. CASE CheckReservations
        <3>1. \A i \in DOMAIN files : files[i].size > 0 => ends[i] = Reserved(i) /\ Reserved(i) \in Nat
            <4> SUFFICES ASSUME NEW i \in DOMAIN files, files[i].size > 0
                         PROVE  ends[i] = Reserved(i) /\ Reserved(i) \in Nat
                OBVIOUS
            <4>1. ends[i] = Reserved(i)
                BY <1>3 DEF IInv, IndexesEnd
            <4>2. Pairs(ClustersOf(files[i])) \in Nat /\ Laid
                BY FileFacts, PairsCover DEF IInv, Place
            <4>3. Reserved(i) \in Nat
                BY <4>2, UnitsOfAnInode
            <4> QED BY <4>1, <4>3
        <3>2. \A i \in DOMAIN files : files[i].size > 0 => ~(ends[i] > Reserved(i))
            BY <3>1
        <3> QED BY <2>2, <3>2 DEF CheckReservations
    <2> QED BY <2>1, <2>2
<1>5. Place'
    BY <1>1, <1>2, <1>3, <1>4 DEF IInv, Place
<1>6. Streaming' /\ IndexesEnd' /\ BodiesStand'
    BY <1>1, <1>2, <1>3, <1>4 DEF IInv, Streaming, IndexesEnd, BodiesStand
<1>7. HeadersStand'
    <2> SUFFICES ASSUME NEW i \in DOMAIN files, Begun(i)'
                 PROVE  DataOff(i) \in DOMAIN meta /\ meta[DataOff(i)].what = "header"
        BY <1>1, <1>2 DEF HeadersStand
    <2>1. Begun(i)
        BY <1>1, <1>3, <1>4 DEF Begun
    <2> QED BY <2>1 DEF IInv, HeadersStand
<1> QED BY <1>5, <1>6, <1>7 DEF IInv

LEMMA StandingStillKeeps ==
    ASSUME IInv, UNCHANGED vars
    PROVE  IInv'
<1>1. /\ Settled /\ UNCHANGED <<pc, file, lcn, carry, cursor, index, ends, meta>>
    BY DEF vars, Settled
<1>2. /\ Laid' /\ DOMAIN files' = DOMAIN files
      /\ \A i : DataOff(i)' = DataOff(i) /\ Reserved(i)' = Reserved(i) /\ BodyUnits(i)' = BodyUnits(i)
    BY <1>1, SettledStays
<1>3. Place'
    BY <1>1, <1>2 DEF IInv, Place, Settled
<1>4. Total' = Total /\ DataOff(file)' = DataOff(file)
    BY <1>1 DEF Total, DataOff, Body, Settled
<1>5. Streaming'
    BY <1>1, <1>4 DEF IInv, Streaming, Settled
<1>6. IndexesEnd' /\ BodiesStand'
    BY <1>1, <1>2 DEF IInv, IndexesEnd, BodiesStand, Settled
<1>7. HeadersStand'
    BY <1>1, <1>2 DEF IInv, HeadersStand, Begun, Settled
<1> QED BY <1>3, <1>5, <1>6, <1>7 DEF IInv

-----------------------------------------------------------------------------
(* What the index of a file says, pack by pack, while it is streamed.      *)

(* Block b holds n clusters of file i from cluster `at`, and is written.   *)
LiesIn(i, b, head, at, n) ==
    /\ b \in Int /\ b \in DOMAIN disk /\ b < cursor
    /\ disk[b] = [file |-> i, head |-> head, from |-> at * BlockSize,
                  to |-> AtMost((at + n) * BlockSize, files[i].size)]

PackAt(i, p) == meta[DataOff(i) + p].pack

HeadWord(head) == IF head THEN 4096 ELSE 0
FillerWord == 8193          \* NONHEAD, one cluster behind its head

(* Pack p of file i leads to the blocks of its clusters: one head for both *)
(* of them, or each for itself, or one that is left.                       *)
PackStands(i, p) ==
    LET pack == PackAt(i, p)
        b == pack.anchor + 1
        at == 2 * (p - 1)
        total == ClustersOf(files[i])
    IN  /\ DataOff(i) + p \in DOMAIN meta /\ meta[DataOff(i) + p].what = "pack"
        /\ pack.anchor \in Int
        /\ \/ /\ 2 * p <= total /\ pack.lo = HeadWord(TRUE) /\ pack.hi = FillerWord
              /\ LiesIn(i, b, TRUE, at, 2)
           \/ /\ 2 * p <= total
              /\ \E x, y \in BOOLEAN :
                    /\ pack.lo = HeadWord(x) /\ pack.hi = HeadWord(y)
                    /\ LiesIn(i, b, x, at, 1) /\ LiesIn(i, b + 1, y, at + 1, 1)
           \/ /\ 2 * p = total + 1
              /\ \E x \in BOOLEAN :
                    /\ pack.lo = HeadWord(x) /\ pack.hi = 0
                    /\ LiesIn(i, b, x, at, 1)

PackBlocks(i, p) == IF 2 * p <= ClustersOf(files[i]) /\ PackAt(i, p).hi # FillerWord THEN 2 ELSE 1

(* The packs of file i that are written.                                   *)
PacksWritten(i) ==
    IF i < file THEN Pairs(ClustersOf(files[i]))
    ELSE IF i = file /\ pc = "stream" THEN Pairs(lcn)
    ELSE 0

PacksStand == \A i \in DOMAIN files : \A p \in 1..PacksWritten(i) : PackStands(i, p)

(* The blocks of a pack follow those of the pack before, and those of the  *)
(* last one end at the cursor.                                             *)
PacksFollow ==
    \A i \in DOMAIN files : \A p \in 1..(PacksWritten(i) - 1) :
        PackAt(i, p).anchor + PackBlocks(i, p) = PackAt(i, p + 1).anchor

LastPackEnds ==
    pc = "stream" /\ lcn > 0 =>
        PackAt(file, Pairs(lcn)).anchor + PackBlocks(file, Pairs(lcn)) + 1 = cursor

IndexInv == PacksStand /\ PacksFollow /\ LastPackEnds

(* The same of a pack before it is written.                                *)
PackHolds(pack, pclusters, first, l, n, p) ==
    LET b == pack.anchor + 1
        at == l + 2 * (p - 1)
    IN  /\ pack.anchor \in Int
        /\ \/ /\ 2 * p <= n /\ pack.lo = HeadWord(TRUE) /\ pack.hi = FillerWord
              /\ Holds(pclusters, first, b, TRUE, at, 2)
           \/ /\ 2 * p <= n
              /\ \E x, y \in BOOLEAN :
                    /\ pack.lo = HeadWord(x) /\ pack.hi = HeadWord(y)
                    /\ Holds(pclusters, first, b, x, at, 1) /\ Holds(pclusters, first, b + 1, y, at + 1, 1)
           \/ /\ 2 * p = n + 1
              /\ \E x \in BOOLEAN :
                    /\ pack.lo = HeadWord(x) /\ pack.hi = 0
                    /\ Holds(pclusters, first, b, x, at, 1)

LEMMA WordsOfEntries ==
    /\ \A x \in BOOLEAN : \A b : Word(Entry(HeadKind(x), 0, b)) = HeadWord(x) /\ Entry(HeadKind(x), 0, b).kind # NONHEAD
    /\ \A b : Word(Entry(HEAD1, 0, b)) = HeadWord(TRUE)
    /\ \A b : Word(Entry(NONHEAD, 1, b)) = FillerWord /\ Entry(NONHEAD, 1, b).kind = NONHEAD
    /\ \A x \in BOOLEAN : HeadWord(x) # FillerWord
BY DEF Word, Entry, HeadKind, HeadWord, FillerWord, NONHEAD, HEAD1, PLAIN

FitsThePair(pack, entries, pclusters, first, l, n, p) ==
    /\ PackHolds(pack, pclusters, first, l, n, p)
    /\ pack.anchor + 1 = entries[2 * p - 1].block
    /\ EntryBlocks(entries, n, p) = IF 2 * p <= n /\ pack.hi # FillerWord THEN 2 ELSE 1

LEMMA PackOfAPair ==
    ASSUME NEW entries \in Seq(Entries), NEW pclusters, NEW first \in Nat, NEW l \in Nat,
           NEW n \in Nat, NEW p \in 1..Pairs(n), Len(entries) = n,
           EntryPair(entries, pclusters, first, l, n, p)
    PROVE  FitsThePair(Pack(entries, p), entries, pclusters, first, l, n, p)
<1> DEFINE b == entries[2 * p - 1].block
           at == l + 2 * (p - 1)
           pack == Pack(entries, p)
<1>1. p \in Nat /\ 2 * p - 1 \in 1..n
    <2>1. Pairs(n) \in Nat /\ 2 * Pairs(n) <= n + 1
        BY PairsCover
    <2> QED BY <2>1
<1>2. entries[2 * p - 1] \in Entries
    BY <1>1
<1>3. b \in Nat
    BY <1>2 DEF Entries
<1>4. pack.anchor = b - 1 /\ pack.anchor + 1 = b /\ pack.anchor \in Int
    BY <1>3 DEF Pack, AnchorOf
<1>5. pack.lo = Word(entries[2 * p - 1]) /\ pack.hi = IF 2 * p <= n THEN Word(entries[2 * p]) ELSE 0
    BY DEF Pack
<1> HIDE DEF b, at, pack
<1>6. CASE /\ 2 * p <= n
           /\ entries[2 * p - 1] = Entry(HEAD1, 0, b) /\ entries[2 * p] = Entry(NONHEAD, 1, b)
           /\ Holds(pclusters, first, b, TRUE, at, 2)
    <2>1. pack.lo = HeadWord(TRUE) /\ pack.hi = FillerWord /\ entries[2 * p].kind = NONHEAD
        BY <1>5, <1>6, WordsOfEntries
    <2>2. PackHolds(pack, pclusters, first, l, n, p)
        BY <1>4, <1>6, <2>1 DEF PackHolds, at
    <2>3. EntryBlocks(entries, n, p) = 1
        BY <2>1 DEF EntryBlocks
    <2> QED BY <1>4, <2>1, <2>2, <2>3 DEF b, pack, FitsThePair
<1>7. ASSUME NEW x \in BOOLEAN, NEW y \in BOOLEAN, 2 * p <= n,
             entries[2 * p - 1] = Entry(HeadKind(x), 0, b), entries[2 * p] = Entry(HeadKind(y), 0, b + 1),
             Holds(pclusters, first, b, x, at, 1), Holds(pclusters, first, b + 1, y, at + 1, 1)
      PROVE  FitsThePair(pack, entries, pclusters, first, l, n, p)
    <2>1. pack.lo = HeadWord(x) /\ pack.hi = HeadWord(y) /\ entries[2 * p].kind # NONHEAD /\ pack.hi # FillerWord
        BY <1>5, <1>7, WordsOfEntries
    <2>2. PackHolds(pack, pclusters, first, l, n, p)
        BY <1>4, <1>7, <2>1 DEF PackHolds, at
    <2>3. EntryBlocks(entries, n, p) = 2
        BY <1>7, <2>1 DEF EntryBlocks
    <2> QED BY <1>4, <1>7, <2>1, <2>2, <2>3 DEF b, FitsThePair
<1>8. ASSUME NEW x \in BOOLEAN, 2 * p = n + 1, entries[2 * p - 1] = Entry(HeadKind(x), 0, b),
             Holds(pclusters, first, b, x, at, 1)
      PROVE  FitsThePair(pack, entries, pclusters, first, l, n, p)
    <2>1. pack.lo = HeadWord(x)
        BY <1>5, <1>8, WordsOfEntries
    <2>2. ~(2 * p <= n) /\ pack.hi = 0
        BY <1>1, <1>5, <1>8
    <2>3. PackHolds(pack, pclusters, first, l, n, p)
        BY <1>4, <1>8, <2>1, <2>2 DEF PackHolds, at
    <2>4. EntryBlocks(entries, n, p) = 1
        BY <2>2 DEF EntryBlocks
    <2> QED BY <1>4, <2>2, <2>3, <2>4 DEF b, FitsThePair
<1>9. \/ /\ 2 * p <= n
         /\ entries[2 * p - 1] = Entry(HEAD1, 0, b) /\ entries[2 * p] = Entry(NONHEAD, 1, b)
         /\ Holds(pclusters, first, b, TRUE, at, 2)
      \/ /\ 2 * p <= n
         /\ \E x, y \in BOOLEAN :
               /\ entries[2 * p - 1] = Entry(HeadKind(x), 0, b)
               /\ entries[2 * p] = Entry(HeadKind(y), 0, b + 1)
               /\ Holds(pclusters, first, b, x, at, 1) /\ Holds(pclusters, first, b + 1, y, at + 1, 1)
      \/ /\ 2 * p = n + 1
         /\ \E x \in BOOLEAN :
               /\ entries[2 * p - 1] = Entry(HeadKind(x), 0, b)
               /\ Holds(pclusters, first, b, x, at, 1)
    BY DEF EntryPair, b, at
<1> QED BY <1>6, <1>7, <1>8, <1>9 DEF pack

(* The packs of earlier files lie before those of the file that is         *)
(* streamed.                                                               *)
LEMMA EarlierPacksApart ==
    ASSUME Laid, NEW i \in DOMAIN files, file \in DOMAIN files, i < file,
           NEW p \in 1..Pairs(ClustersOf(files[i]))
    PROVE  DataOff(i) + p \in Nat /\ DataOff(i) + p < DataOff(file) /\ DataOff(file) \in Nat
<1>1. /\ ClustersOf(files[i]) \in Nat /\ files[i].size \in Nat
      /\ (files[i].size > 0 <=> ClustersOf(files[i]) > 0)
    BY FileFacts
<1>2. Pairs(ClustersOf(files[i])) \in Nat /\ 2 * Pairs(ClustersOf(files[i])) <= ClustersOf(files[i]) + 1
    BY <1>1, PairsCover
<1>3. files[i].size > 0
    BY <1>1, <1>2
<1>4. /\ DataOff(i) \in Nat /\ Reserved(i) = DataOff(i) + 1 + Pairs(ClustersOf(files[i]))
      /\ FirstUnit(file) \in Nat /\ DataOff(file) \in Nat /\ FirstUnit(file) < DataOff(file)
    BY UnitsOfAnInode
<1>5. Reserved(i) <= FirstUnit(file)
    BY <1>3, InodesApart
<1> QED BY <1>2, <1>4, <1>5

(* What is written stays as long as its units and blocks do.               *)
BlocksStay == cursor <= cursor' /\ \A b \in DOMAIN disk : b < cursor => b \in DOMAIN disk' /\ disk'[b] = disk[b]

LEMMA PackStays ==
    ASSUME IInv, Settled, BlocksStay, cursor' \in Nat, NEW i \in DOMAIN files, NEW p \in Nat, PackStands(i, p),
           DataOff(i) + p \in DOMAIN meta', meta'[DataOff(i) + p] = meta[DataOff(i) + p]
    PROVE  /\ PackStands(i, p)'
           /\ PackAt(i, p)' = PackAt(i, p) /\ PackBlocks(i, p)' = PackBlocks(i, p)
<1>1. /\ files' = files /\ cursor \in Nat
      /\ DataOff(i)' = DataOff(i)
    BY SettledStays DEF Settled, IInv, Place
<1>2. PackAt(i, p)' = PackAt(i, p)
    BY <1>1 DEF PackAt
<1>3. PackBlocks(i, p)' = PackBlocks(i, p)
    BY <1>1, <1>2 DEF PackBlocks, ClustersOf
<1>4. \A b, head, at, n : LiesIn(i, b, head, at, n) => LiesIn(i, b, head, at, n)'
    BY <1>1 DEF LiesIn, BlocksStay
<1>5. ClustersOf(files[i])' = ClustersOf(files[i])
    BY <1>1 DEF ClustersOf
<1>6. PackStands(i, p)'
    BY <1>1, <1>2, <1>4, <1>5, Zenon DEF PackStands
<1> QED BY <1>2, <1>3, <1>6

LEMMA WrittenPacks ==
    ASSUME IInv, NEW i \in DOMAIN files
    PROVE  /\ PacksWritten(i) \in Nat
           /\ i < file => PacksWritten(i) = Pairs(ClustersOf(files[i]))
           /\ i = file /\ pc = "stream" => PacksWritten(i) = Pairs(lcn)
           /\ i = file /\ pc # "stream" => PacksWritten(i) = 0
           /\ i > file => PacksWritten(i) = 0
           /\ i \in Nat /\ file \in Nat
<1>1. /\ Laid /\ file \in 1..(Len(files) + 1)
    BY DEF IInv, Place
<1>2. i \in Nat /\ Len(files) \in Nat /\ ClustersOf(files[i]) \in Nat
    BY <1>1, FilesAreListed, FileFacts
<1>3. pc = "stream" => lcn \in Nat
    <2>1. pc = "stream" => file \in DOMAIN files
        BY <1>1, FilesAreListed DEF IInv, Streaming
    <2>2. pc = "stream" => Total \in Nat
        BY <1>1, <2>1, FileFacts DEF Total
    <2> QED BY <2>2 DEF IInv, Streaming
<1>4. Pairs(ClustersOf(files[i])) \in Nat /\ (pc = "stream" => Pairs(lcn) \in Nat)
    BY <1>2, <1>3, PairsCover
<1>5. i \in Nat /\ file \in Nat
    BY <1>1, <1>2
<1> QED BY <1>4, <1>5 DEF PacksWritten

(* A step that writes no block and no pack.                                *)
LEMMA PacksStay ==
    ASSUME IInv, IInv', IndexInv, Settled, cursor' = cursor, disk' = disk,
           \A i \in DOMAIN files : PacksWritten(i)' = PacksWritten(i),
           \A i \in DOMAIN files : \A p \in 1..PacksWritten(i) :
               DataOff(i) + p \in DOMAIN meta' /\ meta'[DataOff(i) + p] = meta[DataOff(i) + p]
    PROVE  PacksStand' /\ PacksFollow'
<1>1. DOMAIN files' = DOMAIN files /\ cursor \in Nat
    BY SettledStays DEF IInv, Place
<1>2. BlocksStay /\ cursor' \in Nat
    BY <1>1 DEF BlocksStay
<1>3. ASSUME NEW i \in DOMAIN files, NEW p \in 1..PacksWritten(i)
      PROVE  /\ PackStands(i, p)'
             /\ PackAt(i, p)' = PackAt(i, p) /\ PackBlocks(i, p)' = PackBlocks(i, p)
    <2>1. p \in Nat
        BY WrittenPacks
    <2>2. PackStands(i, p)
        BY DEF IndexInv, PacksStand
    <2> QED BY <1>2, <2>1, <2>2, PackStays
<1>4. PacksStand'
    BY <1>1, <1>3 DEF PacksStand
<1>5. PacksFollow'
    <2> SUFFICES ASSUME NEW i \in DOMAIN files, NEW p \in 1..(PacksWritten(i) - 1)
                 PROVE  PackAt(i, p).anchor' + PackBlocks(i, p)' = PackAt(i, p + 1).anchor'
        BY <1>1 DEF PacksFollow
    <2>1. p \in 1..PacksWritten(i) /\ p + 1 \in 1..PacksWritten(i)
        BY WrittenPacks
    <2>2. PackAt(i, p).anchor + PackBlocks(i, p) = PackAt(i, p + 1).anchor
        BY DEF IndexInv, PacksFollow
    <2> QED BY <1>3, <2>1, <2>2
<1> QED BY <1>4, <1>5

LEMMA StartFileKeepsIndexes ==
    ASSUME IInv, IInv', IndexInv, StartFile
    PROVE  IndexInv'
<1>1. /\ Settled /\ pc = "file" /\ file <= Len(files) /\ UNCHANGED <<cursor, disk>>
      /\ Laid /\ file \in DOMAIN files
    BY FilesAreListed DEF StartFile, Settled, IInv, Place
<1>2. \A i \in DOMAIN files : i \in DOMAIN files'
    BY <1>1 DEF Settled
<1>3. ClustersOf(files[file])' = ClustersOf(files'[file']) /\ \A i : ClustersOf(files[i])' = ClustersOf(files[i])
    BY <1>1 DEF ClustersOf, Settled
<1>4. CASE files[file].size = 0
    <2>1. file' = file + 1 /\ pc' = pc /\ meta' = meta
        BY <1>4 DEF StartFile
    <2>2. ClustersOf(files[file]) = 0 /\ Pairs(0) = 0
        BY <1>1, <1>4, FileFacts DEF Pairs, PairSize
    <2>3. \A i \in DOMAIN files : PacksWritten(i)' = PacksWritten(i)
        BY <1>1, <1>3, <2>1, <2>2, WrittenPacks DEF PacksWritten
    <2>4. \A i \in DOMAIN files : \A p \in 1..PacksWritten(i) : DataOff(i) + p \in DOMAIN meta
        BY DEF IndexInv, PacksStand, PackStands
    <2>5. PacksStand' /\ PacksFollow'
        BY <1>1, <2>1, <2>3, <2>4, PacksStay
    <2> QED BY <1>1, <2>1, <2>5 DEF IndexInv, LastPackEnds
<1>5. CASE files[file].size # 0
    <2>1. /\ file' = file /\ pc' = "stream" /\ lcn' = 0
          /\ meta' = Put(meta, DataOff(file), <<[what |-> "header"]>>)
        BY <1>5 DEF StartFile
    <2>2. Pairs(0) = 0
        BY DEF Pairs, PairSize
    <2>3. \A i \in DOMAIN files : PacksWritten(i)' = PacksWritten(i)
        BY <1>1, <1>3, <2>1, <2>2, WrittenPacks DEF PacksWritten
    <2>4. ASSUME NEW i \in DOMAIN files, NEW p \in 1..PacksWritten(i)
          PROVE  DataOff(i) + p \in DOMAIN meta' /\ meta'[DataOff(i) + p] = meta[DataOff(i) + p]
        <3>1. i < file /\ p \in 1..Pairs(ClustersOf(files[i]))
            BY <1>1, WrittenPacks
        <3>2. DataOff(i) + p \in Nat /\ DataOff(i) + p < DataOff(file) /\ DataOff(file) \in Nat
            BY <1>1, <3>1, EarlierPacksApart
        <3>3. DataOff(i) + p \in DOMAIN meta
            BY DEF IndexInv, PacksStand, PackStands
        <3> DEFINE header == <<[what |-> "header"]>>
        <3>4. Len(header) = 1
            OBVIOUS
        <3> HIDE DEF header
        <3>5. Overwrites(meta', meta, DataOff(file), header)
            BY <2>1, <3>2, <3>4, PutKeepsTheRest DEF header
        <3>6. DataOff(i) + p \notin DataOff(file)..(DataOff(file) + Len(header) - 1)
            BY <3>2
        <3> QED BY <3>3, <3>5, <3>6 DEF Overwrites
    <2>5. PacksStand' /\ PacksFollow'
        BY <1>1, <2>3, <2>4, PacksStay
    <2> QED BY <2>1, <2>5 DEF IndexInv, LastPackEnds
<1> QED BY <1>4, <1>5

LEMMA EndFileKeepsIndexes ==
    ASSUME IInv, IInv', IndexInv, EndFile
    PROVE  IndexInv'
<1>1. /\ Settled /\ pc = "stream" /\ pc' = "file" /\ file' = file + 1
      /\ UNCHANGED <<lcn, carry, cursor, index, meta, disk>> /\ ((~carry /\ lcn >= Total) \/ Batch = 0)
    BY DEF EndFile, Settled
<1>2. lcn = Total /\ ~carry
    BY <1>1, BatchesAreWhole DEF IInv, Place, Streaming
<1>3. \A i : ClustersOf(files[i])' = ClustersOf(files[i])
    BY <1>1 DEF ClustersOf, Settled
<1>4. \A i \in DOMAIN files : PacksWritten(i)' = PacksWritten(i)
    <2> TAKE i \in DOMAIN files
    <2>1. i \in Nat /\ file \in Nat
        BY WrittenPacks
    <2>2. CASE i < file + 1
        <3>1. PacksWritten(i)' = Pairs(ClustersOf(files[i]))
            BY <1>1, <1>3, <2>2 DEF PacksWritten
        <3> QED BY <1>1, <1>2, <2>1, <2>2, <3>1 DEF PacksWritten, Total
    <2>3. CASE ~(i < file + 1)
        BY <1>1, <2>1, <2>3 DEF PacksWritten
    <2> QED BY <2>2, <2>3
<1>5. \A i \in DOMAIN files : \A p \in 1..PacksWritten(i) : DataOff(i) + p \in DOMAIN meta
    BY DEF IndexInv, PacksStand, PackStands
<1>6. PacksStand' /\ PacksFollow'
    BY <1>1, <1>4, <1>5, PacksStay
<1> QED BY <1>1, <1>6 DEF IndexInv, LastPackEnds

LEMMA EndingKeepsIndexes ==
    ASSUME IInv, IInv', IndexInv, StreamsEnd \/ CheckReservations \/ UNCHANGED vars
    PROVE  IndexInv'
<1>1. /\ Settled /\ UNCHANGED <<file, lcn, cursor, meta, disk>>
      /\ (pc # "stream" /\ pc' # "stream") \/ pc' = pc
    BY DEF StreamsEnd, CheckReservations, vars, Settled
<1>2. \A i : ClustersOf(files[i])' = ClustersOf(files[i])
    BY <1>1 DEF ClustersOf, Settled
<1>3. \A i \in DOMAIN files : PacksWritten(i)' = PacksWritten(i)
    BY <1>1, <1>2 DEF PacksWritten
<1>4. \A i \in DOMAIN files : \A p \in 1..PacksWritten(i) : DataOff(i) + p \in DOMAIN meta
    BY DEF IndexInv, PacksStand, PackStands
<1>5. PacksStand' /\ PacksFollow'
    BY <1>1, <1>3, <1>4, PacksStay
<1>6. LastPackEnds'
    <2>1. CASE pc # "stream" /\ pc' # "stream"
        BY <2>1 DEF LastPackEnds
    <2>2. CASE pc' = pc
        <3>1. PackAt(file, Pairs(lcn))' = PackAt(file, Pairs(lcn))
              /\ PackBlocks(file, Pairs(lcn))' = PackBlocks(file, Pairs(lcn))
            BY <1>1 DEF PackAt, PackBlocks, ClustersOf, DataOff, Body, Settled
        <3> QED BY <1>1, <2>2, <3>1 DEF IndexInv, LastPackEnds
    <2> QED BY <1>1, <2>1, <2>2
<1> QED BY <1>5, <1>6 DEF IndexInv

LEMMA WriteBatchKeepsIndexes ==
    ASSUME IInv, IInv', IndexInv, WriteBatch
    PROVE  IndexInv'
<1>1. /\ Settled /\ pc = "stream" /\ pc' = pc /\ file' = file
      /\ lcn' = lcn + Batch /\ Batch > 0 /\ (carry \/ lcn < Total)
    BY DEF WriteBatch, Settled
<1>2. /\ Laid /\ file <= Len(files) /\ file \in Nat \ {0} /\ Len(files) \in Nat /\ DOMAIN files = 1..Len(files)
      /\ files' = files /\ cursor \in Nat /\ ~carry
      /\ files[file].size > 0 /\ index = DataOff(file) + 1 + Pairs(lcn) /\ (lcn % 2 = 0 \/ lcn = Total)
    BY <1>1, FilesAreListed DEF IInv, Place, Streaming, Settled
<1>3. file \in DOMAIN files
    BY <1>2
<1>4. /\ Batch \in Nat \ {0} /\ lcn \in Nat /\ Total \in Nat /\ lcn < Total /\ lcn % 2 = 0
      /\ lcn + Batch \in 0..Total /\ ((lcn + Batch) % 2 = 0 \/ lcn + Batch = Total)
      /\ Pairs(lcn + Batch) = Pairs(lcn) + Pairs(Batch)
    BY <1>1, <1>2, BatchesAreWhole DEF IInv, Streaming
<1>5. PICK m, before : m = Pairs(Batch) /\ before = Pairs(lcn)
    OBVIOUS
<1>6. /\ m \in Nat \ {0} /\ 2 * m \in Batch..(Batch + 1) /\ before \in Nat /\ 2 * before = lcn
      /\ DataOff(file) \in Nat /\ Pairs(Total) \in Nat
    <2>1. m \in Nat /\ 2 * m \in Batch..(Batch + 1) /\ before \in Nat /\ 2 * before \in lcn..(lcn + 1)
        BY <1>4, <1>5, PairsCover
    <2>2. 2 * before = lcn
        BY <1>4, <2>1
    <2>3. DataOff(file) \in Nat
        BY <1>2, <1>3, UnitsOfAnInode
    <2>4. Pairs(Total) \in Nat
        BY <1>4, PairsCover
    <2> QED BY <1>4, <2>1, <2>2, <2>3, <2>4
<1>7. PICK pclusters \in Packings(lcn, Batch) :
          LET packs == EncodePclusters(pclusters, cursor)
          IN  /\ meta' = Put(meta, index, [p \in DOMAIN packs |-> [what |-> "pack", pack |-> packs[p]]])
              /\ disk' = Put(disk, cursor, [i \in DOMAIN pclusters |-> SpanOf(pclusters[i])])
              /\ cursor' = cursor + Len(pclusters)
    BY DEF WriteBatch
<1>8. PICK entries : entries = IndexEntries(pclusters, cursor)
    OBVIOUS
<1> DEFINE packs == EncodePclusters(pclusters, cursor)
           cells == [p \in DOMAIN packs |-> [what |-> "pack", pack |-> packs[p]]]
           spans == [i \in DOMAIN pclusters |-> SpanOf(pclusters[i])]
           total == ClustersOf(files[file])
<1>9. /\ pclusters \in Seq(Pclusters) /\ entries \in Seq(Entries) /\ Len(entries) = Batch
      /\ Paired(entries, pclusters, cursor, lcn, Batch, m)
    <2>1. cursor \in Nat
        BY <1>2
    <2>2. lcn \in Nat
        BY <1>4
    <2>3. Batch \in Nat \ {0}
        BY <1>4
    <2>4. pclusters \in Packings(lcn, Batch)
        BY <1>7
    <2>5. ArePacked(pclusters, cursor, lcn, Batch)
        BY ONLY <2>1, <2>2, <2>3, <2>4, PackingsKeepClusters, Zenon
    <2> QED BY <1>5, <1>8, <2>5 DEF ArePacked
<1>10. packs = [p \in 1..m |-> Pack(entries, p)]
    BY <1>9, <1>5, <1>8 DEF EncodePclusters
<1>11. /\ DOMAIN cells = 1..m /\ Len(cells) = m
      /\ \A p \in 1..m : cells[p].what = "pack" /\ cells[p].pack = Pack(entries, p)
    <2> HIDE DEF packs
    <2>1. DOMAIN packs = 1..m /\ \A p \in 1..m : packs[p] = Pack(entries, p)
        BY <1>10
    <2>2. cells = [p \in 1..m |-> [what |-> "pack", pack |-> packs[p]]]
        BY <2>1
    <2> HIDE DEF cells
    <2>3. DOMAIN cells = 1..m /\ Len(cells) = m
        BY <1>6, <2>2
    <2> QED BY <2>1, <2>2, <2>3
<1>12. /\ Len(pclusters) \in Nat /\ DOMAIN pclusters = 1..Len(pclusters) /\ Len(spans) = Len(pclusters)
       /\ \A i \in 1..Len(pclusters) : spans[i] = SpanOf(pclusters[i])
    <2>1. Len(pclusters) \in Nat /\ DOMAIN pclusters = 1..Len(pclusters)
        BY <1>9
    <2>2. spans = [i \in 1..Len(pclusters) |-> SpanOf(pclusters[i])]
        BY <2>1
    <2> HIDE DEF spans
    <2> QED BY <2>1, <2>2
<1>13. meta' = Put(meta, index, cells) /\ disk' = Put(disk, cursor, spans) /\ cursor' = cursor + Len(pclusters)
    BY <1>7
<1> HIDE DEF packs, cells, spans, total
<1>14. index \in Nat /\ index = DataOff(file) + 1 + before
    BY <1>2, <1>6, <1>5
<1>15. Overwrites(meta', meta, index, cells) /\ Overwrites(disk', disk, cursor, spans)
    BY <1>2, <1>6, <1>11, <1>12, <1>13, <1>14, PutKeepsTheRest
<1>16. BlocksStay /\ cursor' \in Nat
    <2>1. cursor' \in Nat /\ cursor <= cursor'
        BY <1>2, <1>12, <1>13
    <2>2. ASSUME NEW b \in DOMAIN disk, b < cursor
          PROVE  b \in DOMAIN disk' /\ disk'[b] = disk[b]
        <3>1. b \notin cursor..(cursor + Len(spans) - 1)
            BY <1>2, <1>12, <2>2
        <3> QED BY <1>15, <3>1 DEF Overwrites
    <2> QED BY <2>1, <2>2 DEF BlocksStay
(* The blocks of the batch hold what its pclusters say.                    *)
<1>17. ASSUME NEW b \in Int, NEW head \in BOOLEAN, NEW at \in Int, NEW n \in 1..2, Holds(pclusters, cursor, b, head, at, n)
       PROVE  LiesIn(file, b, head, at, n)'
    <2> DEFINE k == b - cursor + 1
    <2>1. k \in 1..Len(pclusters) /\ pclusters[k] = Pcluster(head, n, at)
        BY <1>17 DEF Holds
    <2>2. b \in cursor..(cursor + Len(spans) - 1) /\ b < cursor'
        BY <1>2, <1>12, <1>13, <2>1
    <2>3. b \in DOMAIN disk' /\ disk'[b] = SpanOf(Pcluster(head, n, at))
        BY <1>12, <1>15, <2>1, <2>2 DEF Overwrites
    <2>4. SpanOf(Pcluster(head, n, at)) = [file |-> file, head |-> head, from |-> at * BlockSize,
                                           to |-> AtMost((at + n) * BlockSize, files[file].size)]
        BY DEF SpanOf, Pcluster, AtMost
    <2> QED BY <1>1, <1>2, <2>2, <2>3, <2>4 DEF LiesIn
(* The packs of the batch.                                                 *)
<1>18. ASSUME NEW p \in 1..m
       PROVE  /\ PackStands(file, before + p)'
              /\ PackAt(file, before + p)'.anchor + 1 = entries[2 * p - 1].block
              /\ PackBlocks(file, before + p)' = EntryBlocks(entries, Batch, p)
    <2> DEFINE q == before + p
               pack == Pack(entries, p)
               unit == DataOff(file) + q
    <2>1. /\ p \in Nat /\ q \in Nat /\ 2 * q = lcn + 2 * p /\ lcn + 2 * (p - 1) = 2 * (q - 1)
        BY <1>6
    <2>2. /\ unit \in DOMAIN meta' /\ meta'[unit].what = "pack" /\ meta'[unit].pack = pack
        <3>1. unit \in index..(index + Len(cells) - 1) /\ unit - index + 1 = p
            BY <1>6, <1>11, <1>14
        <3>2. unit \in DOMAIN meta' /\ meta'[unit] = cells[p]
            BY <1>15, <3>1 DEF Overwrites
        <3> QED BY <1>11, <3>2
    <2>3. /\ PackHolds(pack, pclusters, cursor, lcn, Batch, p)
          /\ pack.anchor + 1 = entries[2 * p - 1].block
          /\ EntryBlocks(entries, Batch, p) = IF 2 * p <= Batch /\ pack.hi # FillerWord THEN 2 ELSE 1
        <3>1. EntryPair(entries, pclusters, cursor, lcn, Batch, p)
            BY <1>9 DEF Paired
        <3>2. cursor \in Nat /\ lcn \in Nat /\ Batch \in Nat /\ p \in 1..Pairs(Batch) /\ Len(entries) = Batch
              /\ entries \in Seq(Entries)
            BY <1>2, <1>4, <1>9, <1>5
        <3>3. FitsThePair(pack, entries, pclusters, cursor, lcn, Batch, p)
            BY ONLY <3>1, <3>2, PackOfAPair, Zenon
        <3> QED BY <3>3 DEF FitsThePair
    <2>4. /\ 2 * p <= Batch <=> 2 * q <= total
          /\ 2 * p = Batch + 1 => 2 * q = total + 1
        BY <1>4, <1>6, <2>1 DEF total, Total
    <2>5. DataOff(file)' = DataOff(file) /\ file' = file /\ ClustersOf(files[file])' = total
        BY <1>1, SettledStays DEF ClustersOf, Settled, total
    <2>6. PackAt(file, q)' = pack
        BY <2>2, <2>5 DEF PackAt
    <2>7. PackBlocks(file, q)' = EntryBlocks(entries, Batch, p)
        BY <2>3, <2>4, <2>5, <2>6 DEF PackBlocks
    <2>8. PackStands(file, q)'
        <3> DEFINE b == pack.anchor + 1
                   at == 2 * (q - 1)
        <3>1. b \in Int /\ b + 1 \in Int /\ at \in Int /\ at + 1 \in Int /\ pack.anchor \in Int
            BY <2>1, <2>3 DEF PackHolds
        <3> HIDE DEF b, at, q, pack, unit
        <3>2. CASE /\ 2 * p <= Batch /\ pack.lo = HeadWord(TRUE) /\ pack.hi = FillerWord
                   /\ Holds(pclusters, cursor, b, TRUE, at, 2)
            <4>1. LiesIn(file, b, TRUE, at, 2)'
                <5>1. 2 \in 1..2 /\ TRUE \in BOOLEAN
                    OBVIOUS
                <5> QED BY <1>17, <3>1, <3>2, <5>1
            <4> QED BY <2>2, <2>4, <2>5, <2>6, <3>1, <3>2, <4>1 DEF PackStands, b, at, unit
        <3>3. ASSUME NEW x \in BOOLEAN, NEW y \in BOOLEAN, 2 * p <= Batch,
                     pack.lo = HeadWord(x), pack.hi = HeadWord(y),
                     Holds(pclusters, cursor, b, x, at, 1), Holds(pclusters, cursor, b + 1, y, at + 1, 1)
              PROVE  PackStands(file, q)'
            <4>1. LiesIn(file, b, x, at, 1)' /\ LiesIn(file, b + 1, y, at + 1, 1)'
                BY <1>17, <3>1, <3>3
            <4> QED BY <2>2, <2>4, <2>5, <2>6, <3>1, <3>3, <4>1 DEF PackStands, b, at, unit
        <3>4. ASSUME NEW x \in BOOLEAN, 2 * p = Batch + 1, pack.lo = HeadWord(x), pack.hi = 0,
                     Holds(pclusters, cursor, b, x, at, 1)
              PROVE  PackStands(file, q)'
            <4>1. LiesIn(file, b, x, at, 1)'
                BY <1>17, <3>1, <3>4
            <4> QED BY <2>2, <2>4, <2>5, <2>6, <3>1, <3>4, <4>1 DEF PackStands, b, at, unit
        <3> QED BY <2>1, <2>3, <3>2, <3>3, <3>4 DEF PackHolds, b, at, q
    <2> QED BY <2>3, <2>6, <2>7, <2>8
(* The packs that were there.                                              *)
<1>19. ASSUME NEW i \in DOMAIN files, NEW p \in 1..PacksWritten(i)
       PROVE  /\ PackStands(i, p)'
              /\ PackAt(i, p)' = PackAt(i, p) /\ PackBlocks(i, p)' = PackBlocks(i, p)
    <2>1. PackStands(i, p) /\ p \in Nat
        BY WrittenPacks DEF IndexInv, PacksStand
    <2>2. DataOff(i) + p \in DOMAIN meta
        BY <2>1 DEF PackStands
    <2>3. DataOff(i) + p \in Nat /\ DataOff(i) + p < index
        <3>1. CASE i = file
            <4>1. p \in 1..before
                BY <1>1, <1>5, <3>1, WrittenPacks
            <4> QED BY <1>6, <1>14, <3>1, <4>1
        <3>2. CASE i # file
            <4>1. i < file /\ p \in 1..Pairs(ClustersOf(files[i]))
                BY <3>2, WrittenPacks
            <4> QED BY <1>2, <1>3, <1>6, <1>14, <4>1, EarlierPacksApart
        <3> QED BY <3>1, <3>2
    <2>4. DataOff(i) + p \notin index..(index + Len(cells) - 1)
        BY <1>14, <2>3
    <2>5. DataOff(i) + p \in DOMAIN meta' /\ meta'[DataOff(i) + p] = meta[DataOff(i) + p]
        BY <1>15, <2>2, <2>4 DEF Overwrites
    <2> QED BY <1>1, <1>16, <2>1, <2>5, PackStays
<1>20. /\ \A i \in DOMAIN files : i # file => PacksWritten(i)' = PacksWritten(i)
       /\ PacksWritten(file) = before /\ PacksWritten(file)' = before + m
    <2>1. \A i : ClustersOf(files[i])' = ClustersOf(files[i])
        BY <1>1 DEF ClustersOf, Settled
    <2> QED BY <1>1, <1>2, <1>4, <1>5, <2>1 DEF PacksWritten
<1>21. PacksStand'
    <2> SUFFICES ASSUME NEW i \in DOMAIN files, NEW p \in 1..PacksWritten(i)'
                 PROVE  PackStands(i, p)'
        BY <1>2 DEF PacksStand
    <2>1. CASE p \in 1..PacksWritten(i)
        BY <1>19, <2>1
    <2>2. CASE p \notin 1..PacksWritten(i)
        <3>1. PacksWritten(i)' \in Int /\ PacksWritten(i)' # PacksWritten(i)
            BY <1>1, <1>6, <1>20, <2>2, WrittenPacks
        <3>2. i = file /\ p - before \in 1..m /\ before + (p - before) = p
            BY <1>1, <1>6, <1>20, <2>2, <3>1
        <3>3. PackStands(file, before + (p - before))'
            BY <1>18, <3>2
        <3> QED BY <1>1, <3>2, <3>3
    <2> QED BY <2>1, <2>2
<1>22. before > 0 => PackAt(file, before)'.anchor + PackBlocks(file, before)' + 1 = cursor
    <2> SUFFICES ASSUME before > 0 PROVE PackAt(file, before)'.anchor + PackBlocks(file, before)' + 1 = cursor
        OBVIOUS
    <2>1. before \in 1..PacksWritten(file) /\ lcn > 0
        BY <1>6, <1>20
    <2> QED BY <1>1, <1>3, <1>19, <1>5, <2>1 DEF IndexInv, LastPackEnds
<1>23. PacksFollow'
    <2> SUFFICES ASSUME NEW i \in DOMAIN files, NEW p \in 1..(PacksWritten(i)' - 1)
                 PROVE  PackAt(i, p)'.anchor + PackBlocks(i, p)' = PackAt(i, p + 1)'.anchor
        BY <1>2 DEF PacksFollow
    <2>1. CASE p \in 1..(PacksWritten(i) - 1)
        <3>1. p \in 1..PacksWritten(i) /\ p + 1 \in 1..PacksWritten(i)
            BY <2>1, WrittenPacks
        <3>2. PackAt(i, p).anchor + PackBlocks(i, p) = PackAt(i, p + 1).anchor
            BY <2>1 DEF IndexInv, PacksFollow
        <3> QED BY <1>19, <3>1, <3>2
    <2>2. CASE p \notin 1..(PacksWritten(i) - 1)
        <3>1. i = file /\ p \in before..(before + m - 1) /\ p > 0
            <4>1. i = file
                BY <1>20, <2>2
            <4> QED BY <1>1, <1>6, <1>20, <2>2, <4>1
        <3> DEFINE k == p - before
        <3>2. k \in 0..(m - 1) /\ p = before + k /\ p + 1 = before + (k + 1) /\ k + 1 \in 1..m
            BY <1>6, <3>1
        <3>3. PackAt(file, before + (k + 1))'.anchor + 1 = entries[2 * (k + 1) - 1].block
            BY <1>18, <3>2
        <3>4. PackAt(file, p + 1)' = PackAt(file, before + (k + 1))'
            BY <3>2
        <3> HIDE DEF k
        <3>5. PackAt(file, before + (k + 1))'.anchor \in Int
            <4>1. PackStands(file, before + (k + 1))'
                BY <1>18, <3>2
            <4> QED BY <1>1, <4>1 DEF PackStands
        <3>6. CASE k = 0
            <4>1. entries[1].block = cursor /\ 2 * (k + 1) - 1 = 1 /\ p = before
                BY <1>6, <1>9, <3>2, <3>6 DEF Paired
            <4>2. PackAt(file, before)'.anchor \in Int /\ PackBlocks(file, before)' \in Int
                <5>1. PackStands(file, before)'
                    <6>1. before \in 1..PacksWritten(file)
                        BY <1>6, <1>20, <3>1, <4>1
                    <6> QED BY <1>1, <1>3, <1>19, <6>1
                <5> QED BY <1>1, <5>1 DEF PackStands, PackBlocks
            <4>3. PackAt(file, before)'.anchor + PackBlocks(file, before)' + 1 = cursor
                BY <1>22, <3>1, <4>1
            <4> QED BY <1>1, <3>1, <3>3, <3>4, <3>5, <4>1, <4>2, <4>3
        <3>7. CASE k # 0
            <4>1. k \in 1..m /\ k # m /\ 2 * (k + 1) - 1 = 2 * k + 1
                BY <1>6, <3>2, <3>7
            <4>2. entries[2 * k - 1].block + EntryBlocks(entries, Batch, k) = entries[2 * k + 1].block
                BY <1>9, <4>1 DEF Paired
            <4>3. /\ PackAt(file, before + k)'.anchor + 1 = entries[2 * k - 1].block
                  /\ PackBlocks(file, before + k)' = EntryBlocks(entries, Batch, k)
                  /\ PackStands(file, before + k)'
                BY <1>18, <4>1
            <4>4. PackAt(file, before + k)'.anchor \in Int /\ EntryBlocks(entries, Batch, k) \in Int
                BY <1>1, <4>3 DEF PackStands, EntryBlocks
            <4>5. PackAt(file, p)' = PackAt(file, before + k)' /\ PackBlocks(file, p)' = PackBlocks(file, before + k)'
                BY <3>2
            <4> QED BY <1>1, <3>1, <3>3, <3>4, <3>5, <4>1, <4>2, <4>3, <4>4, <4>5
        <3> QED BY <3>6, <3>7
    <2> QED BY <2>1, <2>2
<1>24. LastPackEnds'
    <2>1. Pairs(lcn') = before + m /\ m \in 1..m
        BY <1>1, <1>4, <1>6, <1>5
    <2>2. entries[2 * m - 1].block + EntryBlocks(entries, Batch, m) = cursor + Len(pclusters)
        BY <1>9, <2>1 DEF Paired
    <2>3. /\ PackAt(file, before + m)'.anchor + 1 = entries[2 * m - 1].block
          /\ PackBlocks(file, before + m)' = EntryBlocks(entries, Batch, m)
          /\ PackStands(file, before + m)'
        BY <1>18, <2>1
    <2>4. PackAt(file, before + m)'.anchor \in Int /\ EntryBlocks(entries, Batch, m) \in Int
        BY <1>1, <2>3 DEF PackStands, EntryBlocks
    <2>5. PackAt(file, before + m)'.anchor + PackBlocks(file, before + m)' + 1 = cursor'
        BY <1>13, <2>2, <2>3, <2>4
    <2>6. /\ PackAt(file, Pairs(lcn))' = PackAt(file, before + m)'
          /\ PackBlocks(file, Pairs(lcn))' = PackBlocks(file, before + m)'
        BY <1>1, <2>1
    <2> QED BY <2>5, <2>6 DEF LastPackEnds
<1> QED BY <1>21, <1>23, <1>24 DEF IndexInv

LEMMA InitIndexInv == Init => IndexInv
<1> SUFFICES ASSUME Init PROVE IndexInv
    OBVIOUS
<1>1. IInv /\ pc = "file" /\ file = 1
    BY InitIInv DEF Init
<1>2. \A i \in DOMAIN files : i >= 1 /\ PacksWritten(i) = 0
    <2> TAKE i \in DOMAIN files
    <2>1. i \in 1..Len(files)
        BY <1>1, FilesAreListed DEF IInv, Place
    <2> QED BY <1>1, <2>1 DEF PacksWritten
<1> QED BY <1>1, <1>2 DEF IndexInv, PacksStand, PacksFollow, LastPackEnds

-----------------------------------------------------------------------------
(* How readers decode what was encoded, with blocks of 4 KiB: the writer   *)
(* puts the kind of an entry at bit 12, the readers take it from bit       *)
(* log2(block size).                                                       *)

LEMMA BlocksOf4K ==
    ASSUME BlockBits = 12
    PROVE  BlockSize = 4096 /\ 2 ^ LowBits = 4096
<1>1. 2 ^ 12 = 4096
    OBVIOUS
<1>2. LowBits = 12
    BY DEF LowBits, AtLeast
<1> QED BY <1>1, <1>2 DEF BlockSize

LEMMA DecodedWords ==
    ASSUME BlockBits = 12, NEW pack, NEW lo \in {0, 4096}, NEW hi \in {0, 4096, 8193}, NEW anchor \in Int,
           pack.lo = lo, pack.hi = hi, pack.anchor = anchor
    PROVE  /\ KindOf(pack, 0) = IF lo = 4096 THEN HEAD1 ELSE PLAIN
           /\ KindOf(pack, 1) = IF hi = 8193 THEN NONHEAD ELSE IF hi = 4096 THEN HEAD1 ELSE PLAIN
           /\ ValueOf(pack, 0) = 0
           /\ ValueOf(pack, 1) = IF hi = 8193 THEN 1 ELSE 0
           /\ AnchoredBlock(pack, 0) = anchor + 1
           /\ hi # 8193 => AnchoredBlock(pack, 1) = anchor + 2
<1> DEFINE rest == anchor % 65536
<1>1. rest \in Nat
    OBVIOUS
<1>2. 2 ^ LowBits = 4096
    BY BlocksOf4K
<1>3. Raw(pack, 0) = lo + 65536 * hi /\ Raw(pack, 1) = hi + 65536 * rest
    BY DEF Raw
<1> HIDE DEF rest
<1>4. \A h \in Nat : /\ ((0 + 65536 * h) \div 4096) % 4 = 0 /\ (0 + 65536 * h) % 4096 = 0
                     /\ ((4096 + 65536 * h) \div 4096) % 4 = 1 /\ (4096 + 65536 * h) % 4096 = 0
                     /\ ((8193 + 65536 * h) \div 4096) % 4 = 2 /\ (8193 + 65536 * h) % 4096 = 1
    OBVIOUS
<1>5. rest \in Nat /\ hi \in Nat
    BY <1>1
<1>6. /\ KindOf(pack, 0) = (Raw(pack, 0) \div 4096) % 4 /\ ValueOf(pack, 0) = Raw(pack, 0) % 4096
      /\ KindOf(pack, 1) = (Raw(pack, 1) \div 4096) % 4 /\ ValueOf(pack, 1) = Raw(pack, 1) % 4096
    BY <1>2 DEF KindOf, ValueOf
<1>7. /\ KindOf(pack, 0) = IF lo = 4096 THEN 1 ELSE 0
      /\ ValueOf(pack, 0) = 0
    <2>1. CASE lo = 0
        BY <1>3, <1>4, <1>5, <1>6, <2>1
    <2>2. CASE lo = 4096
        BY <1>3, <1>4, <1>5, <1>6, <2>2
    <2> QED BY <2>1, <2>2
<1>8. /\ KindOf(pack, 1) = IF hi = 8193 THEN 2 ELSE IF hi = 4096 THEN 1 ELSE 0
      /\ ValueOf(pack, 1) = IF hi = 8193 THEN 1 ELSE 0
    <2>1. CASE hi = 0
        BY <1>3, <1>4, <1>5, <1>6, <2>1
    <2>2. CASE hi = 4096
        BY <1>3, <1>4, <1>5, <1>6, <2>2
    <2>3. CASE hi = 8193
        BY <1>3, <1>4, <1>5, <1>6, <2>3
    <2> QED BY <2>1, <2>2, <2>3
<1>9. /\ AnchoredBlock(pack, 0) = anchor + 1
      /\ hi # 8193 => AnchoredBlock(pack, 1) = anchor + 2
    BY <1>7, <1>8 DEF AnchoredBlock, NONHEAD
<1> QED BY <1>7, <1>8, <1>9 DEF HEAD1, PLAIN, NONHEAD

(* The pair of clusters a reader finds in a pack.                          *)
DecodesTo(e, i, p) ==
    LET b == PackAt(i, p).anchor + 1
        n == ClustersOf(files[i])
        first == e[2 * p - 1]
        second == e[2 * p]
    IN  /\ 2 * p - 1 \in 1..n /\ PackAt(i, p).anchor \in Int
        /\ first.lcn = 2 * (p - 1) /\ first.value = 0 /\ first.kind \in {PLAIN, HEAD1} /\ first.pblk = b
        /\ 2 * p <= n => second.lcn = 2 * (p - 1) + 1
        /\ \/ /\ 2 * p <= n /\ PackBlocks(i, p) = 1
              /\ second.kind = NONHEAD /\ second.value = 1 /\ first.kind = HEAD1
              /\ LiesIn(i, b, first.kind # PLAIN, 2 * (p - 1), 2)
           \/ /\ 2 * p <= n /\ PackBlocks(i, p) = 2
              /\ second.kind \in {PLAIN, HEAD1} /\ second.value = 0 /\ second.pblk = b + 1
              /\ LiesIn(i, b, first.kind # PLAIN, 2 * (p - 1), 1)
              /\ LiesIn(i, b + 1, second.kind # PLAIN, 2 * (p - 1) + 1, 1)
           \/ /\ 2 * p = n + 1 /\ PackBlocks(i, p) = 1
              /\ LiesIn(i, b, first.kind # PLAIN, 2 * (p - 1), 1)

LEMMA PairsDecode ==
    ASSUME BlockBits = 12, Laid, NEW i \in DOMAIN files, NEW p \in 1..Pairs(ClustersOf(files[i])),
           PackStands(i, p)
    PROVE  DecodesTo(EntriesIn(i), i, p)
<1> DEFINE n == ClustersOf(files[i])
           pack == PackAt(i, p)
           b == pack.anchor + 1
           at == 2 * (p - 1)
           packs == PacksOf(i)
           e == EntriesIn(i)
<1>1. n \in Nat /\ Pairs(n) \in Nat /\ 2 * Pairs(n) \in n..(n + 1)
    BY FileFacts, PairsCover
<1>2. p \in Nat /\ 2 * p - 1 \in 1..n /\ (2 * p <= n => 2 * p \in 1..n) /\ (2 * p <= n \/ 2 * p = n + 1)
    BY <1>1
<1>3. packs[p] = pack
    BY DEF PacksOf, PackStands, PackAt
<1>4. /\ ((2 * p - 1) - 1) \div 2 + 1 = p /\ ((2 * p - 1) - 1) % 2 = 0
      /\ (2 * p - 1) \div 2 + 1 = p /\ (2 * p - 1) % 2 = 1
      /\ (2 * p - 1) - 1 = at /\ 2 * p - 1 = at + 1
    BY <1>2
<1>5. e = [c \in 1..n |->
              LET its == packs[(c - 1) \div 2 + 1]
                  k == (c - 1) % 2
              IN  [lcn |-> c - 1, kind |-> KindOf(its, k), value |-> ValueOf(its, k),
                   pblk |-> AnchoredBlock(its, k)]]
    BY DEF EntriesIn, CompactEntries, ClustersOf
<1> HIDE DEF n, packs, e, pack
<1>6. e[2 * p - 1] = [lcn |-> at, kind |-> KindOf(pack, 0), value |-> ValueOf(pack, 0),
                      pblk |-> AnchoredBlock(pack, 0)]
    BY <1>2, <1>3, <1>4, <1>5
<1>7. 2 * p <= n => e[2 * p] = [lcn |-> at + 1, kind |-> KindOf(pack, 1), value |-> ValueOf(pack, 1),
                                pblk |-> AnchoredBlock(pack, 1)]
    BY <1>2, <1>3, <1>4, <1>5
<1>8. pack.anchor \in Int /\ b \in Int
    BY DEF PackStands, pack
<1>9. PackBlocks(i, p) = IF 2 * p <= n /\ pack.hi # FillerWord THEN 2 ELSE 1
    BY DEF PackBlocks, n, pack
<1>10. HeadWord(TRUE) = 4096 /\ HeadWord(FALSE) = 0 /\ FillerWord = 8193
       /\ \A x \in BOOLEAN : HeadWord(x) \in {0, 4096} /\ (HeadWord(x) = 4096 <=> x)
    BY DEF HeadWord, FillerWord
<1> DEFINE kind(x) == IF x THEN HEAD1 ELSE PLAIN
<1>11. \A x \in BOOLEAN : kind(x) \in {PLAIN, HEAD1} /\ (kind(x) # PLAIN) = x /\ kind(x) # NONHEAD
    BY DEF HEAD1, PLAIN, NONHEAD
<1> HIDE DEF b, at, kind
<1>12. CASE /\ 2 * p <= n /\ pack.lo = HeadWord(TRUE) /\ pack.hi = FillerWord
            /\ LiesIn(i, b, TRUE, at, 2)
    <2>1. /\ KindOf(pack, 0) = HEAD1 /\ ValueOf(pack, 0) = 0 /\ AnchoredBlock(pack, 0) = b
          /\ KindOf(pack, 1) = NONHEAD /\ ValueOf(pack, 1) = 1
        <3>1. pack.lo = 4096 /\ pack.hi = 8193
            <4>1. pack.lo = HeadWord(TRUE) /\ pack.hi = FillerWord
                BY <1>12
            <4> QED BY ONLY <4>1 DEF HeadWord, FillerWord
        <3>2. /\ KindOf(pack, 0) = HEAD1 /\ KindOf(pack, 1) = NONHEAD
              /\ ValueOf(pack, 0) = 0 /\ ValueOf(pack, 1) = 1
              /\ AnchoredBlock(pack, 0) = pack.anchor + 1
            <4> HIDE DEF HEAD1, NONHEAD
            <4> QED BY <1>8, <3>1, DecodedWords
        <3> QED BY <3>2 DEF b
    <2>2. /\ e[2 * p - 1].lcn = at /\ e[2 * p - 1].kind = HEAD1 /\ e[2 * p - 1].value = 0 /\ e[2 * p - 1].pblk = b
          /\ e[2 * p].lcn = at + 1 /\ e[2 * p].kind = NONHEAD /\ e[2 * p].value = 1
        BY <1>6, <1>7, <1>12, <2>1
    <2>3. LiesIn(i, b, e[2 * p - 1].kind # PLAIN, at, 2)
        <3>1. (e[2 * p - 1].kind # PLAIN) = TRUE
            BY <2>2 DEF HEAD1, PLAIN
        <3> QED BY <1>12, <3>1, Zenon
    <2>4. PackBlocks(i, p) = 1
        BY <1>9, <1>12
    <2> QED BY <1>2, <1>8, <1>12, <2>2, <2>3, <2>4 DEF DecodesTo, n, pack, b, at, e
<1>13. ASSUME NEW x \in BOOLEAN, NEW y \in BOOLEAN, 2 * p <= n, pack.lo = HeadWord(x), pack.hi = HeadWord(y),
              LiesIn(i, b, x, at, 1), LiesIn(i, b + 1, y, at + 1, 1)
       PROVE  DecodesTo(e, i, p)
    <2>0. pack.hi # FillerWord
        BY <1>10, <1>13
    <2>1. /\ KindOf(pack, 0) = kind(x) /\ ValueOf(pack, 0) = 0 /\ AnchoredBlock(pack, 0) = b
          /\ KindOf(pack, 1) = kind(y) /\ ValueOf(pack, 1) = 0 /\ AnchoredBlock(pack, 1) = b + 1
        BY <1>8, <1>10, <1>13, <2>0, DecodedWords DEF b, kind
    <2>2. /\ e[2 * p - 1].lcn = at /\ e[2 * p - 1].kind = kind(x) /\ e[2 * p - 1].value = 0 /\ e[2 * p - 1].pblk = b
          /\ e[2 * p].lcn = at + 1 /\ e[2 * p].kind = kind(y) /\ e[2 * p].value = 0 /\ e[2 * p].pblk = b + 1
        BY <1>6, <1>7, <1>13, <2>1
    <2>3. LiesIn(i, b, e[2 * p - 1].kind # PLAIN, at, 1) /\ LiesIn(i, b + 1, e[2 * p].kind # PLAIN, at + 1, 1)
        BY <1>11, <1>13, <2>2
    <2>4. PackBlocks(i, p) = 2
        BY <1>9, <1>13, <2>0
    <2> QED BY <1>2, <1>8, <1>11, <1>13, <2>2, <2>3, <2>4 DEF DecodesTo, n, pack, b, at
<1>14. ASSUME NEW x \in BOOLEAN, 2 * p = n + 1, pack.lo = HeadWord(x), pack.hi = 0, LiesIn(i, b, x, at, 1)
       PROVE  DecodesTo(e, i, p)
    <2>1. KindOf(pack, 0) = kind(x) /\ ValueOf(pack, 0) = 0 /\ AnchoredBlock(pack, 0) = b
        BY <1>8, <1>10, <1>14, DecodedWords DEF b, kind
    <2>2. e[2 * p - 1].lcn = at /\ e[2 * p - 1].kind = kind(x) /\ e[2 * p - 1].value = 0 /\ e[2 * p - 1].pblk = b
        BY <1>6, <2>1
    <2>3. LiesIn(i, b, e[2 * p - 1].kind # PLAIN, at, 1)
        BY <1>11, <1>14, <2>2
    <2>4. ~(2 * p <= n) /\ PackBlocks(i, p) = 1
        BY <1>1, <1>2, <1>9, <1>14
    <2> QED BY <1>2, <1>8, <1>11, <1>14, <2>2, <2>3, <2>4 DEF DecodesTo, n, pack, b, at
<1>15. \/ /\ 2 * p <= n /\ pack.lo = HeadWord(TRUE) /\ pack.hi = FillerWord
          /\ LiesIn(i, b, TRUE, at, 2)
       \/ /\ 2 * p <= n
          /\ \E x, y \in BOOLEAN :
                /\ pack.lo = HeadWord(x) /\ pack.hi = HeadWord(y)
                /\ LiesIn(i, b, x, at, 1) /\ LiesIn(i, b + 1, y, at + 1, 1)
       \/ /\ 2 * p = n + 1
          /\ \E x \in BOOLEAN :
                /\ pack.lo = HeadWord(x) /\ pack.hi = 0
                /\ LiesIn(i, b, x, at, 1)
    BY DEF PackStands, n, pack, b, at
<1> QED BY <1>12, <1>13, <1>14, <1>15 DEF e

(* What entries of a file say together: each is a head or a plain cluster  *)
(* that leads to its block, or the second cluster of the head before it;   *)
(* and blocks follow each other as segments() takes them.                  *)
Width(e, n, c) == IF c < n /\ e[c + 1].kind = NONHEAD THEN 2 ELSE 1

Leads(e, n, c) ==
    /\ e[c].lcn = c - 1
    /\ \/ e[c].kind \in {PLAIN, HEAD1} /\ e[c].value = 0 /\ e[c].pblk \in Int
       \/ e[c].kind = NONHEAD /\ e[c].value = 1 /\ c > 1 /\ e[c - 1].kind = HEAD1
    /\ c < n /\ e[c].kind # NONHEAD /\ e[c + 1].kind # NONHEAD => e[c + 1].pblk = e[c].pblk + 1
    /\ c < n /\ e[c].kind = NONHEAD => e[c + 1].pblk = e[c - 1].pblk + 1

EntryStands(e, i, c) ==
    LET n == ClustersOf(files[i])
    IN  /\ Leads(e, n, c)
        /\ e[c].kind # NONHEAD => LiesIn(i, e[c].pblk, e[c].kind # PLAIN, c - 1, Width(e, n, c))

LEMMA FirstOfAPair ==
    ASSUME NEW e, NEW i \in DOMAIN files, NEW p \in Nat, DecodesTo(e, i, p), ClustersOf(files[i]) \in Nat
    PROVE  EntryStands(e, i, 2 * p - 1)
<1> DEFINE n == ClustersOf(files[i])
           c == 2 * p - 1
           b == PackAt(i, p).anchor + 1
<1>1. /\ c \in 1..n /\ b \in Int /\ c + 1 = 2 * p /\ c - 1 = 2 * (p - 1) /\ c \in Nat /\ n \in Nat
      /\ c < n <=> 2 * p <= n
      /\ e[c].lcn = c - 1 /\ e[c].value = 0 /\ e[c].kind \in {PLAIN, HEAD1} /\ e[c].pblk = b
    BY DEF DecodesTo
<1>2. \/ /\ 2 * p <= n
         /\ e[2 * p].kind = NONHEAD /\ e[2 * p].value = 1 /\ e[c].kind = HEAD1
         /\ LiesIn(i, b, e[c].kind # PLAIN, 2 * (p - 1), 2)
      \/ /\ 2 * p <= n
         /\ e[2 * p].kind \in {PLAIN, HEAD1} /\ e[2 * p].pblk = b + 1
         /\ LiesIn(i, b, e[c].kind # PLAIN, 2 * (p - 1), 1)
      \/ /\ 2 * p = n + 1
         /\ LiesIn(i, b, e[c].kind # PLAIN, 2 * (p - 1), 1)
    BY DEF DecodesTo
<1>3. NONHEAD \notin {PLAIN, HEAD1}
    BY DEF NONHEAD, PLAIN, HEAD1
<1> HIDE DEF n, c, b
<1>4. Leads(e, n, c)
    BY <1>1, <1>2, <1>3 DEF Leads
<1>5. LiesIn(i, b, e[c].kind # PLAIN, c - 1, Width(e, n, c))
    <2>1. CASE /\ 2 * p <= n
               /\ e[2 * p].kind = NONHEAD
               /\ LiesIn(i, b, e[c].kind # PLAIN, 2 * (p - 1), 2)
        <3>1. Width(e, n, c) = 2
            BY <1>1, <2>1 DEF Width
        <3> QED BY <1>1, <2>1, <3>1
    <2>2. CASE /\ 2 * p = n + 1 \/ e[2 * p].kind # NONHEAD
               /\ LiesIn(i, b, e[c].kind # PLAIN, 2 * (p - 1), 1)
        <3>1. Width(e, n, c) = 1
            BY <1>1, <2>2 DEF Width
        <3> QED BY <1>1, <2>2, <3>1
    <2> QED BY <1>2, <1>3, <2>1, <2>2
<1> QED BY <1>1, <1>4, <1>5 DEF EntryStands, n, c

LEMMA SecondOfAPair ==
    ASSUME NEW e, NEW i \in DOMAIN files, NEW p \in Nat, DecodesTo(e, i, p), ClustersOf(files[i]) \in Nat,
           2 * p <= ClustersOf(files[i]),
           2 * p < ClustersOf(files[i]) =>
               DecodesTo(e, i, p + 1) /\ PackAt(i, p).anchor + PackBlocks(i, p) = PackAt(i, p + 1).anchor
    PROVE  EntryStands(e, i, 2 * p)
<1> DEFINE n == ClustersOf(files[i])
           c == 2 * p
           b == PackAt(i, p).anchor + 1
           after == PackAt(i, p + 1).anchor
<1>1. /\ c \in 1..n /\ b \in Int /\ c - 1 = 2 * p - 1 /\ c - 1 = 2 * (p - 1) + 1 /\ c \in Nat /\ n \in Nat
      /\ c > 1
      /\ e[c - 1].kind \in {PLAIN, HEAD1} /\ e[c - 1].pblk = b
      /\ e[c].lcn = c - 1
    BY DEF DecodesTo
<1>2. \/ /\ PackBlocks(i, p) = 1
         /\ e[c].kind = NONHEAD /\ e[c].value = 1 /\ e[c - 1].kind = HEAD1
      \/ /\ PackBlocks(i, p) = 2
         /\ e[c].kind \in {PLAIN, HEAD1} /\ e[c].value = 0 /\ e[c].pblk = b + 1
         /\ LiesIn(i, b + 1, e[c].kind # PLAIN, c - 1, 1)
    BY <1>1 DEF DecodesTo
<1>3. NONHEAD \notin {PLAIN, HEAD1}
    BY DEF NONHEAD, PLAIN, HEAD1
<1>4. c < n => /\ e[c + 1].kind \in {PLAIN, HEAD1} /\ e[c + 1].pblk = after + 1
               /\ after = b + PackBlocks(i, p) - 1
    <2> SUFFICES ASSUME c < n PROVE /\ e[c + 1].kind \in {PLAIN, HEAD1} /\ e[c + 1].pblk = after + 1
                                    /\ after = b + PackBlocks(i, p) - 1
        OBVIOUS
    <2>1. DecodesTo(e, i, p + 1) /\ PackAt(i, p).anchor + PackBlocks(i, p) = after
        OBVIOUS
    <2>2. 2 * (p + 1) - 1 = c + 1
        OBVIOUS
    <2>3. PackAt(i, p).anchor = b - 1
        BY <1>1 DEF DecodesTo
    <2>4. e[2 * (p + 1) - 1].kind \in {PLAIN, HEAD1} /\ e[2 * (p + 1) - 1].pblk = after + 1
        BY <2>1 DEF DecodesTo
    <2>5. PackBlocks(i, p) \in Int
        BY <1>2
    <2> QED BY <1>1, <2>1, <2>2, <2>3, <2>4, <2>5
<1> HIDE DEF n, c, b, after
<1>5. Leads(e, n, c)
    <2>1. CASE e[c].kind = NONHEAD /\ e[c].value = 1 /\ e[c - 1].kind = HEAD1 /\ PackBlocks(i, p) = 1
        <3>1. c < n => e[c + 1].pblk = b + 1
            BY <1>1, <1>4, <2>1
        <3> QED BY <1>1, <2>1, <3>1 DEF Leads
    <2>2. CASE e[c].kind \in {PLAIN, HEAD1} /\ e[c].value = 0 /\ e[c].pblk = b + 1 /\ PackBlocks(i, p) = 2
        <3>1. c < n => e[c + 1].pblk = b + 2
            BY <1>1, <1>4, <2>2
        <3> QED BY <1>1, <1>3, <2>2, <3>1 DEF Leads
    <2> QED BY <1>2, <2>1, <2>2
<1>6. e[c].kind # NONHEAD => LiesIn(i, e[c].pblk, e[c].kind # PLAIN, c - 1, Width(e, n, c))
    <2> SUFFICES ASSUME e[c].kind # NONHEAD PROVE LiesIn(i, e[c].pblk, e[c].kind # PLAIN, c - 1, Width(e, n, c))
        OBVIOUS
    <2>1. Width(e, n, c) = 1
        BY <1>3, <1>4 DEF Width
    <2> QED BY <1>2, <2>1
<1> QED BY <1>5, <1>6 DEF EntryStands, n, c

(* Once everything is written, every entry stands.                         *)
LEMMA EntriesStand ==
    ASSUME BlockBits = 12, IInv, IndexInv, pc = "done", NEW i \in DOMAIN files,
           NEW c \in 1..ClustersOf(files[i])
    PROVE  EntryStands(EntriesIn(i), i, c)
<1> DEFINE n == ClustersOf(files[i])
           e == EntriesIn(i)
<1>1. /\ Laid /\ i \in 1..Len(files) /\ file = Len(files) + 1 /\ Len(files) \in Nat
      /\ n \in Nat /\ Pairs(n) \in Nat /\ 2 * Pairs(n) \in n..(n + 1)
    <2>1. Laid /\ file = Len(files) + 1
        BY DEF IInv, Place
    <2>2. i \in 1..Len(files) /\ Len(files) \in Nat /\ n \in Nat
        BY <2>1, FilesAreListed, FileFacts
    <2> QED BY <2>1, <2>2, PairsCover
<1>2. PacksWritten(i) = Pairs(n)
    BY <1>1, WrittenPacks
<1> HIDE DEF n, e
<1>3. \A p \in 1..Pairs(n) : DecodesTo(e, i, p)
    <2> TAKE p \in 1..Pairs(n)
    <2>1. PackStands(i, p)
        BY <1>2 DEF IndexInv, PacksStand
    <2> QED BY <1>1, <2>1, PairsDecode DEF n, e
<1>4. PICK p \in 1..Pairs(n) : p \in Nat /\ (c = 2 * p - 1 \/ c = 2 * p)
    <2> DEFINE p == (c + 1) \div 2
    <2>1. c \in Nat /\ c >= 1 /\ c <= n
        BY <1>1 DEF n
    <2>2. c + 1 = 2 * p + ((c + 1) % 2) /\ (c + 1) % 2 \in {0, 1} /\ p \in Nat
        BY <2>1
    <2> HIDE DEF p
    <2>3. c = 2 * p - 1 \/ c = 2 * p
        BY <2>1, <2>2
    <2>4. p >= 1 /\ p <= Pairs(n)
        BY <1>1, <2>1, <2>2, <2>3
    <2> QED BY <1>1, <2>2, <2>3, <2>4
<1>5. CASE c = 2 * p - 1
    BY <1>1, <1>3, <1>4, <1>5, FirstOfAPair DEF n, e
<1>6. CASE c = 2 * p
    <2>1. 2 * p <= n
        BY <1>6 DEF n
    <2>2. 2 * p < n => p + 1 \in 1..Pairs(n) /\ p \in 1..(Pairs(n) - 1)
        BY <1>1, <1>4
    <2>3. 2 * p < n =>
              DecodesTo(e, i, p + 1) /\ PackAt(i, p).anchor + PackBlocks(i, p) = PackAt(i, p + 1).anchor
        BY <1>2, <1>3, <2>2 DEF IndexInv, PacksFollow
    <2>4. DecodesTo(e, i, p)
        BY <1>3
    <2>5. EntryStands(e, i, 2 * p)
        BY <1>1, <1>4, <2>1, <2>3, <2>4, SecondOfAPair DEF n
    <2> QED BY <1>6, <2>5 DEF e
<1> QED BY <1>4, <1>5, <1>6

(* Each anchor leads to the block of its entry.                            *)
LEMMA AnchorsAreRight ==
    ASSUME BlockBits = 12, IInv, IndexInv
    PROVE  AnchorsLead
<1> SUFFICES ASSUME pc = "done", NEW i \in Compressed, NEW c \in DOMAIN EntriesIn(i), EntriesIn(i)[c].kind # NONHEAD
             PROVE  LET entry == EntriesIn(i)[c]
                    IN  /\ entry.pblk \in DOMAIN disk
                        /\ disk[entry.pblk].file = i
                        /\ disk[entry.pblk].from = Start(entry)
                        /\ disk[entry.pblk].head = (entry.kind # PLAIN)
    BY DEF AnchorsLead
<1> DEFINE n == ClustersOf(files[i])
           e == EntriesIn(i)
<1>1. i \in DOMAIN files /\ DOMAIN e = 1..n
    BY DEF Compressed, EntriesIn, CompactEntries, ClustersOf
<1> HIDE DEF n, e
<1>2. EntryStands(e, i, c)
    BY <1>1, EntriesStand DEF n, e
<1>3. /\ LiesIn(i, e[c].pblk, e[c].kind # PLAIN, c - 1, Width(e, n, c))
      /\ e[c].lcn = c - 1 /\ e[c].value = 0
    BY <1>2 DEF EntryStands, Leads, e, n
<1>4. c \in Int
    <2>1. n \in Nat
        BY <1>1, FileFacts DEF IInv, Place, n
    <2> QED BY <1>1, <2>1 DEF e
<1>5. Start(e[c]) = (c - 1) * BlockSize
    BY <1>3, <1>4, BlocksAreWhole DEF Start
<1>6. disk[e[c].pblk] = [file |-> i, head |-> (e[c].kind # PLAIN), from |-> (c - 1) * BlockSize,
                         to |-> AtMost((c - 1 + Width(e, n, c)) * BlockSize, files[i].size)]
    BY <1>3 DEF LiesIn
<1>7. e[c].pblk \in DOMAIN disk
    BY <1>3 DEF LiesIn
<1> QED BY <1>5, <1>6, <1>7 DEF e

-----------------------------------------------------------------------------
(* The segments a reader makes of such entries.                            *)

Heads(e, n) == {c \in 1..n : e[c].kind # NONHEAD}
Chained(e, n) == n \in Nat /\ DOMAIN e = 1..n /\ Len(e) = n /\ \A c \in 1..n : Leads(e, n, c)

(* Where the segment of a head ends, and the block it lies in.             *)
Until(e, n, size, c) == AtMost((c - 1 + Width(e, n, c)) * 4096, size)
BlockOf(e, c) == IF e[c].kind = NONHEAD THEN e[c - 1].pblk ELSE e[c].pblk

LEMMA LastCluster ==
    ASSUME BlockBits = 12, NEW size \in Nat
    PROVE  /\ Clusters(size) \in Nat /\ Clusters(size) * 4096 >= size
           /\ \A c \in 1..Clusters(size) : (c - 1) * 4096 < size
<1>1. Clusters(size) = (size + 4095) \div 4096
    BY BlocksOf4K DEF Clusters
<1> DEFINE n == (size + 4095) \div 4096
<1>2. n \in Nat /\ n * 4096 >= size /\ (n - 1) * 4096 < size
    OBVIOUS
<1> HIDE DEF n
<1>3. \A c \in 1..n : (c - 1) * 4096 < size
    BY <1>2
<1> QED BY <1>1, <1>2, <1>3 DEF n

(* The neighbours of a cluster.                                            *)
LEMMA HeadsFollow ==
    ASSUME NEW e, NEW n, Chained(e, n)
    PROVE  /\ \A c \in 1..n : c \notin Heads(e, n) => c > 1 /\ c - 1 \in Heads(e, n)
           /\ \A c \in Heads(e, n) : /\ c \in Nat /\ c \in 1..n /\ Width(e, n, c) \in {1, 2}
                                     /\ c - 1 + Width(e, n, c) <= n
                                     /\ Width(e, n, c) = 2 => c + 1 \in 1..n /\ c + 1 \notin Heads(e, n)
                                     /\ c + Width(e, n, c) <= n => c + Width(e, n, c) \in Heads(e, n)
                                     /\ e[c].kind = PLAIN => Width(e, n, c) = 1
                                     /\ e[c].kind \in {PLAIN, HEAD1} /\ e[c].value = 0 /\ e[c].lcn = c - 1
<1>0. n \in Nat /\ PLAIN # HEAD1 /\ HEAD1 # NONHEAD /\ PLAIN # NONHEAD
    BY DEF Chained, PLAIN, HEAD1, NONHEAD
<1>1. \A c \in 1..n : /\ e[c].kind = NONHEAD => c > 1 /\ e[c - 1].kind = HEAD1
                      /\ e[c].kind # NONHEAD => e[c].kind \in {PLAIN, HEAD1} /\ e[c].value = 0 /\ e[c].lcn = c - 1
    BY <1>0 DEF Chained, Leads
<1>2. \A c \in 1..n : c \notin Heads(e, n) => c > 1 /\ c - 1 \in Heads(e, n)
    BY <1>0, <1>1 DEF Heads
<1>3. ASSUME NEW c \in Heads(e, n)
      PROVE  /\ c \in Nat /\ c \in 1..n /\ Width(e, n, c) \in {1, 2}
             /\ c - 1 + Width(e, n, c) <= n
             /\ Width(e, n, c) = 2 => c + 1 \in 1..n /\ c + 1 \notin Heads(e, n)
             /\ c + Width(e, n, c) <= n => c + Width(e, n, c) \in Heads(e, n)
             /\ e[c].kind = PLAIN => Width(e, n, c) = 1
             /\ e[c].kind \in {PLAIN, HEAD1} /\ e[c].value = 0 /\ e[c].lcn = c - 1
    <2>1. c \in Nat /\ c \in 1..n /\ e[c].kind # NONHEAD
        BY <1>0 DEF Heads
    <2>2. CASE c < n /\ e[c + 1].kind = NONHEAD
        <3>1. c + 1 \in 1..n /\ Width(e, n, c) = 2 /\ e[c].kind = HEAD1
            <4>1. c + 1 \in 1..n /\ (c + 1) - 1 = c
                BY <1>0, <2>1, <2>2
            <4> QED BY <1>1, <2>2, <4>1 DEF Width
        <3>2. c + 2 <= n => c + 2 \in 1..n /\ (c + 2) - 1 = c + 1
            BY <1>0, <2>1
        <3>3. c + 2 <= n => c + 2 \in Heads(e, n)
            BY <1>0, <1>1, <2>2, <3>2 DEF Heads
        <3> QED BY <1>0, <1>1, <2>1, <2>2, <3>1, <3>3 DEF Heads
    <2>3. CASE ~(c < n /\ e[c + 1].kind = NONHEAD)
        <3>1. Width(e, n, c) = 1
            BY <2>3 DEF Width
        <3>2. c + 1 <= n => c + 1 \in 1..n /\ c + 1 \in Heads(e, n)
            BY <1>0, <2>1, <2>3 DEF Heads
        <3> QED BY <1>0, <1>1, <2>1, <3>1, <3>2
    <2> QED BY <2>2, <2>3
<1> QED BY <1>2, <1>3

LEMMA EndsOfSegments ==
    ASSUME BlockBits = 12, NEW e, NEW size \in Nat, NEW n, n = Clusters(size), Chained(e, n),
           NEW c \in Heads(e, n)
    PROVE  /\ EndOf(e, c, size) = Until(e, n, size, c)
           /\ Start(e[c]) = (c - 1) * 4096 /\ Starts(e, size, c)
           /\ Until(e, n, size, c) \in Nat /\ Until(e, n, size, c) > (c - 1) * 4096 /\ Until(e, n, size, c) <= size
           /\ AdvanceOf(e, c) = 1
<1> DEFINE w == Width(e, n, c)
           later == {j \in (c + 1)..Len(e) : e[c].kind = PLAIN \/ e[j].kind # NONHEAD}
<1>1. /\ c \in Nat /\ c \in 1..n /\ w \in {1, 2} /\ c - 1 + w <= n /\ n \in Nat /\ Len(e) = n
      /\ w = 2 => c + 1 \in 1..n /\ c + 1 \notin Heads(e, n)
      /\ c + w <= n => c + w \in Heads(e, n)
      /\ e[c].kind = PLAIN => w = 1
      /\ e[c].kind \in {PLAIN, HEAD1} /\ e[c].value = 0 /\ e[c].lcn = c - 1
    BY HeadsFollow DEF Chained
<1>2. n * 4096 >= size /\ \A k \in 1..n : (k - 1) * 4096 < size
    BY LastCluster
<1>3. \A k \in Heads(e, n) : Start(e[k]) = (k - 1) * 4096
    <2> TAKE k \in Heads(e, n)
    <2>1. k \in Nat /\ e[k].value = 0 /\ e[k].lcn = k - 1
        BY HeadsFollow
    <2> QED BY <2>1, BlocksOf4K DEF Start
<1>4. /\ (c - 1) * 4096 < size
      /\ Until(e, n, size, c) = IF (c - 1 + w) * 4096 < size THEN (c - 1 + w) * 4096 ELSE size
    BY <1>1, <1>2 DEF Until, AtMost
<1> HIDE DEF w, later
<1>5. Until(e, n, size, c) \in Nat /\ Until(e, n, size, c) > (c - 1) * 4096 /\ Until(e, n, size, c) <= size
    BY <1>1, <1>4
<1>6. EndOf(e, c, size) = Until(e, n, size, c)
    <2>1. EndOf(e, c, size) = IF later = {} THEN size
                              ELSE IF e[c].kind = PLAIN THEN AtMost(Start(e[Min(later)]), size)
                                                       ELSE Start(e[Min(later)])
        BY DEF EndOf, later
    <2>2. CASE c + w <= n
        <3>1. c + w \in later
            BY <1>1, <2>2 DEF later, Heads
        <3>2. \A j \in later : j \in Int /\ c + w <= j
            <4> TAKE j \in later
            <4>1. j \in Int /\ c + 1 <= j /\ (e[c].kind = PLAIN \/ e[j].kind # NONHEAD)
                BY <1>1 DEF later
            <4>2. w = 2 => j # c + 1
                BY <1>1, <4>1 DEF Heads, PLAIN, HEAD1
            <4> QED BY <1>1, <4>1, <4>2
        <3>3. Min(later) = c + w
            <4>1. \E x \in later : \A y \in later : x <= y
                BY <3>1, <3>2
            <4>2. Min(later) \in later /\ \A y \in later : Min(later) <= y
                BY <4>1 DEF Min
            <4> QED BY <1>1, <3>1, <3>2, <4>2
        <3>4. Start(e[Min(later)]) = (c + w - 1) * 4096 /\ (c + w - 1) * 4096 < size
            BY <1>1, <1>2, <1>3, <2>2, <3>3 DEF Heads
        <3> QED BY <1>1, <1>4, <2>1, <3>1, <3>4 DEF AtMost
    <2>3. CASE ~(c + w <= n)
        <3>1. later = {}
            <4> SUFFICES ASSUME NEW j \in later PROVE FALSE
                OBVIOUS
            <4>1. j \in c + 1..n /\ (e[c].kind = PLAIN \/ e[j].kind # NONHEAD)
                BY <1>1 DEF later
            <4>2. w = 2 /\ j = c + 1
                BY <1>1, <2>3, <4>1
            <4> QED BY <1>1, <4>1, <4>2 DEF Heads, PLAIN, HEAD1
        <3>2. c - 1 + w = n
            BY <1>1, <2>3
        <3> QED BY <1>1, <1>2, <1>4, <2>1, <3>1, <3>2
    <2> QED BY <2>2, <2>3
<1>7. Starts(e, size, c)
    BY <1>3, <1>4 DEF Starts, Heads
<1>8. AdvanceOf(e, c) = 1
    <2>1. CASE e[c].kind = PLAIN
        BY <2>1 DEF AdvanceOf
    <2>2. CASE e[c].kind # PLAIN
        <3> DEFINE next == {j \in (c + 1)..Len(e) : e[j].kind # NONHEAD}
                   fillers == (c + 1)..(IF next = {} THEN Len(e) ELSE Min(next) - 1)
                   sized == {j \in fillers : (e[j].value \div 2048) % 2 = 1}
        <3>1. \A j \in fillers : j \in 1..n /\ e[j].kind = NONHEAD
            <4> TAKE j \in fillers
            <4>1. j \in Int /\ j >= c + 1
                BY <1>1
            <4>2. CASE next = {}
                BY <1>1, <4>1, <4>2
            <4>3. CASE next # {}
                <5>1. next \subseteq Nat
                    BY <1>1
                <5>2. \E x \in next : \A y \in next : x <= y
                    <6> HIDE DEF next
                    <6> QED BY <4>3, <5>1, LeastElement
                <5>3. Min(next) \in next /\ \A y \in next : Min(next) <= y
                    BY <5>2 DEF Min
                <5>4. Min(next) \in 1..n /\ j < Min(next)
                    <6>1. j <= Min(next) - 1
                        BY <4>3
                    <6>2. Min(next) \in 1..n
                        BY <1>1, <5>3
                    <6> HIDE DEF next, fillers, sized
                    <6> QED BY <1>1, <4>1, <6>1, <6>2
                <5>5. j \notin next
                    <6> HIDE DEF next, fillers, sized
                    <6> QED BY <4>1, <5>3, <5>4
                <5>6. j \in c + 1..n
                    <6> HIDE DEF next, fillers, sized
                    <6> QED BY <1>1, <4>1, <5>4
                <5> QED BY <1>1, <5>5, <5>6
            <4> QED BY <4>2, <4>3
        <3>2. \A j \in fillers : e[j].value = 1
            <4> TAKE j \in fillers
            <4>1. j \in 1..n /\ e[j].kind = NONHEAD
                BY <3>1
            <4>2. Leads(e, n, j)
                BY <4>1 DEF Chained
            <4> HIDE DEF fillers, next, sized
            <4> QED BY <4>1, <4>2 DEF Leads, NONHEAD, HEAD1, PLAIN
        <3>3. sized = {}
            <4>1. (1 \div 2048) % 2 = 0
                OBVIOUS
            <4> HIDE DEF fillers
            <4> QED BY <3>2, <4>1
        <3>4. BlocksOf(e, c) = IF sized = {} THEN 1 ELSE AtLeast(e[Min(sized)].value - 2048, 1)
            BY DEF BlocksOf
        <3> HIDE DEF sized
        <3> QED BY <2>2, <3>3, <3>4 DEF AdvanceOf
    <2> QED BY <2>1, <2>2
<1> QED BY <1>1, <1>3, <1>5, <1>6, <1>7, <1>8

SegmentOf(e, n, size, c) ==
    [head |-> e[c].kind # PLAIN, start |-> (c - 1) * 4096,
     end |-> Until(e, n, size, c), physical |-> e[c].pblk]

(* segments(): one from every head, in the blocks their anchors lead to    *)
(* although only the first one is looked up.                               *)
SegmentsAre(found, e, n, size) ==
    found.bad = FALSE /\ found.segs = [c \in Heads(e, n) |-> SegmentOf(e, n, size, c)]

LEMMA SegmentsStand ==
    ASSUME BlockBits = 12, NEW e, NEW size \in Nat, NEW n, n = Clusters(size), Chained(e, n)
    PROVE  SegmentsAre(Segments(e, size), e, n, size)
<1> DEFINE Physical(at, i) == IF at = NoCursor THEN e[i].pblk ELSE at
           Turn(i, at) == IF Starts(e, size, i) THEN Physical(at, i) + AdvanceOf(e, i) ELSE at
           Rounds(f) == f = [i \in 0..Len(e) |-> IF i = 0 THEN NoCursor ELSE Turn(i, f[i - 1])]
           h == CHOOSE f : Rounds(f)
           live == {i \in DOMAIN e : Starts(e, size, i)}
           seg == [i \in live |->
                      [head |-> e[i].kind # PLAIN, start |-> Start(e[i]),
                       end |-> EndOf(e, i, size), physical |-> Physical(h[i - 1], i)]]
           g == [i \in 0..n |-> IF i = 0 THEN NoCursor ELSE BlockOf(e, i) + 1]
<1>1. /\ n \in Nat /\ Len(e) = n /\ DOMAIN e = 1..n
      /\ \A c \in 1..n : Leads(e, n, c)
    BY DEF Chained
<1>2. live = Heads(e, n)
    <2>1. \A c \in 1..n : Starts(e, size, c) <=> c \in Heads(e, n)
        <3> TAKE c \in 1..n
        <3>1. c \in Heads(e, n) => Starts(e, size, c)
            BY EndsOfSegments
        <3>2. Starts(e, size, c) => c \in Heads(e, n)
            BY DEF Starts, Heads
        <3> QED BY <3>1, <3>2
    <2> QED BY <1>1, <2>1 DEF Heads
<1>3. \A c \in 1..n : Starts(e, size, c) <=> e[c].kind # NONHEAD
    BY <1>1, <1>2 DEF Heads
<1>4. Segments(e, size) = [bad |-> \E i \in live : seg[i].head /\ (seg[i].end <= seg[i].start \/ seg[i].end > size),
                           segs |-> [i \in {k \in live : seg[k].end > seg[k].start} |-> seg[i]]]
    BY DEF Segments
<1> HIDE DEF live, Physical
(* The chain of blocks: each segment is where the one before it ends.      *)
<1>5. \A c \in 1..n : e[c].kind # NONHEAD /\ c > 1 => e[c].pblk = BlockOf(e, c - 1) + 1
    <2> SUFFICES ASSUME NEW c \in 1..n, e[c].kind # NONHEAD, c > 1 PROVE e[c].pblk = BlockOf(e, c - 1) + 1
        OBVIOUS
    <2>1. c - 1 \in 1..n /\ (c - 1) + 1 = c /\ c - 1 < n
        BY <1>1
    <2>2. Leads(e, n, c - 1)
        BY <1>1, <2>1
    <2> QED BY <2>1, <2>2 DEF Leads, BlockOf
<1>6. \A c \in 1..n : e[c].kind = NONHEAD => c > 1 /\ BlockOf(e, c) = BlockOf(e, c - 1)
    <2> SUFFICES ASSUME NEW c \in 1..n, e[c].kind = NONHEAD PROVE c > 1 /\ BlockOf(e, c) = BlockOf(e, c - 1)
        OBVIOUS
    <2>1. Leads(e, n, c)
        BY <1>1
    <2>2. c > 1 /\ e[c - 1].kind = HEAD1
        BY <2>1 DEF Leads, NONHEAD, PLAIN, HEAD1
    <2> QED BY <2>2 DEF BlockOf, NONHEAD, HEAD1
<1>7. \A c \in 1..n : Turn(c, g[c - 1]) = g[c] /\ (e[c].kind # NONHEAD => Physical(g[c - 1], c) = e[c].pblk)
    <2> TAKE c \in 1..n
    <2>1. c \in Nat /\ c \in 0..n /\ c - 1 \in 0..n
        BY <1>1
    <2>2. g[c] = BlockOf(e, c) + 1 /\ g[c - 1] = IF c = 1 THEN NoCursor ELSE BlockOf(e, c - 1) + 1
        BY <2>1
    <2> HIDE DEF g
    <2>3. CASE e[c].kind # NONHEAD
        <3>1. AdvanceOf(e, c) = 1
            BY <2>3, EndsOfSegments DEF Heads
        <3>2. Physical(g[c - 1], c) = e[c].pblk
            BY <1>5, <2>1, <2>2, <2>3 DEF Physical
        <3> QED BY <1>3, <2>2, <2>3, <3>1, <3>2 DEF BlockOf
    <2>4. CASE e[c].kind = NONHEAD
        BY <1>3, <1>6, <2>2, <2>4
    <2> QED BY <2>3, <2>4
<1>8. Rounds(g)
    <2>1. \A i \in 0..n : g[i] = IF i = 0 THEN NoCursor ELSE Turn(i, g[i - 1])
        <3> TAKE i \in 0..n
        <3>1. i = 0 \/ i \in 1..n
            BY <1>1
        <3>2. i = 0 => g[i] = NoCursor
            OBVIOUS
        <3> HIDE DEF g, Turn
        <3> QED BY <1>7, <3>1, <3>2
    <2> HIDE DEF Turn
    <2>2. g = [i \in 0..n |-> g[i]]
        OBVIOUS
    <2> HIDE DEF g
    <2> QED BY <1>1, <2>1, <2>2
<1> HIDE DEF Turn
<1>9. Rounds(h)
    <2> HIDE DEF g
    <2> QED BY <1>8
<1>10. g[0] = NoCursor
    BY <1>1
<1> HIDE DEF h, g
<1>11. \A c \in 0..n : h[c] = g[c]
    <2> DEFINE Odd == {c \in 0..n : h[c] # g[c]}
    <2> SUFFICES ASSUME Odd # {} PROVE FALSE
        OBVIOUS
    <2>1. Odd \subseteq Nat
        BY <1>1
    <2> HIDE DEF Odd
    <2>2. PICK c \in Odd : \A x \in Odd : c <= x
        BY <2>1, LeastElement
    <2>3. c \in 0..n /\ h[c] # g[c] /\ c \in Nat
        BY <2>1, <2>2 DEF Odd
    <2>4. \A k \in 0..n : h[k] = IF k = 0 THEN NoCursor ELSE Turn(k, h[k - 1])
        BY <1>1, <1>9
    <2>5. c # 0
        BY <1>10, <2>3, <2>4
    <2>6. c \in 1..n /\ c - 1 \in 0..n /\ ~(c <= c - 1)
        BY <1>1, <2>3, <2>5
    <2>7. h[c - 1] = g[c - 1]
        BY <2>2, <2>6 DEF Odd
    <2> QED BY <1>7, <2>3, <2>4, <2>5, <2>6, <2>7
<1>12. \A c \in Heads(e, n) :
          /\ seg[c] = SegmentOf(e, n, size, c)
          /\ seg[c].end = Until(e, n, size, c) /\ seg[c].start = (c - 1) * 4096
          /\ seg[c].end > seg[c].start /\ seg[c].end <= size
    <2> TAKE c \in Heads(e, n)
    <2>1. c \in 1..n /\ e[c].kind # NONHEAD /\ c - 1 \in 0..n
        BY <1>1 DEF Heads
    <2>2. Physical(h[c - 1], c) = e[c].pblk
        BY <1>7, <1>11, <2>1
    <2>3. /\ EndOf(e, c, size) = Until(e, n, size, c) /\ Start(e[c]) = (c - 1) * 4096
          /\ Until(e, n, size, c) > (c - 1) * 4096 /\ Until(e, n, size, c) <= size
        BY EndsOfSegments
    <2>4. seg[c] = [head |-> e[c].kind # PLAIN, start |-> Start(e[c]),
                    end |-> EndOf(e, c, size), physical |-> Physical(h[c - 1], c)]
        BY <1>2
    <2> HIDE DEF seg
    <2>5. seg[c] = SegmentOf(e, n, size, c)
        BY <2>2, <2>3, <2>4 DEF SegmentOf
    <2>6. seg[c].end = Until(e, n, size, c) /\ seg[c].start = (c - 1) * 4096
        BY <2>5 DEF SegmentOf
    <2> QED BY <2>3, <2>5, <2>6
<1>13. \A c \in Heads(e, n) : seg[c].end \in Nat /\ seg[c].start \in Nat
    <2> TAKE c \in Heads(e, n)
    <2>1. Until(e, n, size, c) \in Nat /\ c \in Nat /\ c >= 1
        BY <1>1, EndsOfSegments DEF Heads
    <2> HIDE DEF seg
    <2>2. seg[c].end = Until(e, n, size, c) /\ seg[c].start = (c - 1) * 4096
        BY <1>12
    <2>3. (c - 1) * 4096 \in Nat
        BY <2>1
    <2> QED BY <2>1, <2>2, <2>3
<1> HIDE DEF seg
<1>14. ~\E i \in live : seg[i].head /\ (seg[i].end <= seg[i].start \/ seg[i].end > size)
    BY <1>2, <1>12, <1>13
<1>15. {k \in live : seg[k].end > seg[k].start} = Heads(e, n)
    BY <1>2, <1>12
<1>16. [i \in {k \in live : seg[k].end > seg[k].start} |-> seg[i]] = [c \in Heads(e, n) |-> SegmentOf(e, n, size, c)]
    BY <1>12, <1>15
<1> QED BY <1>4, <1>14, <1>16 DEF SegmentsAre

(* What a reader gets of bytes within one segment.                         *)
Piece(i, from, to) == [file |-> i, from |-> from, to |-> to]

LEMMA SegmentsRead ==
    ASSUME BlockBits = 12, NEW e, NEW i \in DOMAIN files, NEW n, n = ClustersOf(files[i]), Chained(e, n),
           files[i].size \in Nat, NEW c \in Heads(e, n), EntryStands(e, i, c),
           NEW from \in Nat, NEW to \in Nat,
           (c - 1) * 4096 <= from, from <= to, to <= Until(e, n, files[i].size, c)
    PROVE  ReadSegment(SegmentOf(e, n, files[i].size, c), from, to) = Piece(i, from, to)
<1> DEFINE seg == SegmentOf(e, n, files[i].size, c)
           held == disk[seg.physical]
           start == (c - 1) * 4096
           end == Until(e, n, files[i].size, c)
           head == (e[c].kind # PLAIN)
<1>1. c \in Nat /\ e[c].kind # NONHEAD /\ start \in Nat
    <2>1. c \in Nat /\ c \in 1..n /\ e[c].kind # NONHEAD
        BY HeadsFollow DEF Heads
    <2> QED BY <2>1
<1>2. end \in Nat
    BY EndsOfSegments DEF ClustersOf
<1>3. seg.physical = e[c].pblk /\ seg.head = head /\ seg.start = start /\ seg.end = end
    BY DEF SegmentOf
<1>4. LiesIn(i, e[c].pblk, head, c - 1, Width(e, n, c))
    BY <1>1 DEF EntryStands
<1>5. e[c].pblk \in DOMAIN disk /\ held.file = i /\ held.head = head /\ held.from = start /\ held.to = end
    BY <1>3, <1>4, BlocksOf4K DEF LiesIn, Until
<1> HIDE DEF seg, held, start, end, head
<1>6. held.from + from - seg.start = from /\ from + to - from = to
    BY <1>1, <1>3, <1>5
<1>7. /\ seg.physical \in DOMAIN disk /\ held.head = seg.head /\ held.to - held.from = seg.end - seg.start
      /\ ~(to > held.to)
    BY <1>2, <1>3, <1>5 DEF end
<1>8. ReadSegment(seg, from, to) = [file |-> held.file, from |-> from, to |-> to]
    BY <1>6, <1>7 DEF ReadSegment, held
<1> QED BY <1>5, <1>8 DEF Piece, seg

(* Segments side by side yield any part of the file.                       *)
Overlapping(e, n, size, from, to) == {c \in Heads(e, n) : Until(e, n, size, c) > from /\ (c - 1) * 4096 < to}

LEMMA PiecesYield ==
    ASSUME BlockBits = 12, NEW e, NEW size \in Nat, NEW n, n = Clusters(size), Chained(e, n),
           NEW i, NEW from \in Nat, NEW to \in Nat, from < to, to <= size,
           NEW pieces, DOMAIN pieces = Overlapping(e, n, size, from, to),
           \A c \in Overlapping(e, n, size, from, to) :
               pieces[c] = Piece(i, IF (c - 1) * 4096 < from THEN from ELSE (c - 1) * 4096,
                                    IF Until(e, n, size, c) < to THEN Until(e, n, size, c) ELSE to)
    PROVE  Yields(pieces, i, from, to)
<1> DEFINE D == Overlapping(e, n, size, from, to)
           start(c) == (c - 1) * 4096
           end(c) == Until(e, n, size, c)
           w(c) == Width(e, n, c)
<1>1. /\ n \in Nat /\ n * 4096 >= size /\ \A k \in 1..n : (k - 1) * 4096 < size
    BY LastCluster
<1>2. \A c \in Heads(e, n) :
          /\ c \in Nat /\ c \in 1..n /\ w(c) \in {1, 2} /\ c - 1 + w(c) <= n
          /\ w(c) = 2 => c + 1 \notin Heads(e, n)
          /\ c + w(c) <= n => c + w(c) \in Heads(e, n)
          /\ end(c) \in Nat /\ end(c) > start(c) /\ end(c) <= size
          /\ end(c) = IF (c - 1 + w(c)) * 4096 < size THEN (c - 1 + w(c)) * 4096 ELSE size
    <2> TAKE c \in Heads(e, n)
    <2>1. end(c) \in Nat /\ end(c) > start(c) /\ end(c) <= size
        BY EndsOfSegments
    <2> QED BY <2>1, HeadsFollow DEF Until, AtMost
<1>3. \A c \in 1..n : c \notin Heads(e, n) => c > 1 /\ c - 1 \in Heads(e, n)
    BY HeadsFollow
<1>4. D = {c \in Heads(e, n) : end(c) > from /\ start(c) < to} /\ DOMAIN pieces = D
    BY DEF Overlapping
<1>5. \A c \in D : /\ pieces[c].file = i
                   /\ pieces[c].from = IF start(c) < from THEN from ELSE start(c)
                   /\ pieces[c].to = IF end(c) < to THEN end(c) ELSE to
    BY DEF Piece
<1> HIDE DEF D, end, w
(* Every byte lies in a segment.                                           *)
<1>6. ASSUME NEW x \in Nat, x < size PROVE \E c \in Heads(e, n) : start(c) <= x /\ x < end(c)
    <2>1. PICK k \in 1..n : (k - 1) * 4096 <= x /\ x < k * 4096
        <3> DEFINE q == x \div 4096
        <3>1. q \in Nat /\ q * 4096 <= x /\ x < (q + 1) * 4096
            OBVIOUS
        <3> HIDE DEF q
        <3>2. q + 1 \in 1..n /\ (q + 1) - 1 = q
            BY <1>1, <1>6, <3>1
        <3> QED BY <3>1, <3>2
    <2>2. CASE k \in Heads(e, n)
        <3>1. end(k) > x
            BY <1>2, <1>6, <2>1, <2>2
        <3> QED BY <2>1, <2>2, <3>1
    <2>3. CASE k \notin Heads(e, n)
        <3>1. k - 1 \in Heads(e, n) /\ k \in Nat
            BY <1>3, <2>3
        <3>2. w(k - 1) = 2
            <4>1. k - 1 + 1 <= n /\ k - 1 + 1 = k
                BY <1>1, <3>1
            <4> QED BY <1>2, <2>3, <3>1, <4>1
        <3>3. start(k - 1) <= x /\ x < end(k - 1)
            BY <1>2, <1>6, <2>1, <3>1, <3>2
        <3> QED BY <3>1, <3>3
    <2> QED BY <2>2, <2>3
(* Segments do not overlap, and the next head is where one ends.           *)
<1>7. \A c, d \in Heads(e, n) : c < d => c + w(c) <= d /\ end(c) <= start(d) /\ c + w(c) \in Heads(e, n)
                                         /\ end(c) = start(c + w(c))
    <2> SUFFICES ASSUME NEW c \in Heads(e, n), NEW d \in Heads(e, n), c < d
                 PROVE  c + w(c) <= d /\ end(c) <= start(d) /\ c + w(c) \in Heads(e, n)
                        /\ end(c) = start(c + w(c))
        OBVIOUS
    <2>1. c + w(c) <= d
        BY <1>2
    <2>2. c + w(c) <= n /\ c + w(c) \in Heads(e, n)
        BY <1>1, <1>2, <2>1
    <2>3. start(c + w(c)) < size /\ start(c + w(c)) = (c - 1 + w(c)) * 4096
        BY <1>1, <1>2, <2>2
    <2> QED BY <1>2, <2>1, <2>2, <2>3
<1>8. \E p \in D : (\A q \in D : p <= q) /\ pieces[p].from = from
    <2>1. PICK p \in Heads(e, n) : start(p) <= from /\ from < end(p)
        BY <1>6
    <2>2. p \in D
        BY <1>2, <1>4, <2>1
    <2>3. \A q \in D : p <= q
        <3> TAKE q \in D
        <3>1. q \in Heads(e, n) /\ end(q) > from
            BY <1>4
        <3>2. ~(q < p)
            BY <1>2, <1>7, <2>1, <3>1
        <3> QED BY <1>2, <2>1, <3>1, <3>2
    <2>4. pieces[p].from = from
        BY <1>2, <1>5, <2>1, <2>2
    <2> QED BY <2>2, <2>3, <2>4
<1>9. \E p \in D : (\A q \in D : q <= p) /\ pieces[p].to = to
    <2>1. PICK p \in Heads(e, n) : start(p) <= to - 1 /\ to - 1 < end(p)
        BY <1>6
    <2>2. p \in D
        BY <1>2, <1>4, <2>1
    <2>3. \A q \in D : q <= p
        <3> TAKE q \in D
        <3>1. q \in Heads(e, n) /\ start(q) < to
            BY <1>4
        <3>2. ~(p < q)
            BY <1>2, <1>7, <2>1, <3>1
        <3> QED BY <1>2, <2>1, <3>1, <3>2
    <2>4. pieces[p].to = to
        BY <1>2, <1>5, <2>1, <2>2
    <2> QED BY <2>2, <2>3, <2>4
<1>10. ASSUME NEW p \in D, NEW q \in D, p < q, \A r \in D : ~(p < r /\ r < q)
       PROVE  pieces[p].to = pieces[q].from
    <2> DEFINE r == p + w(p)
    <2>1. /\ p \in Heads(e, n) /\ q \in Heads(e, n) /\ p \in Nat /\ q \in Nat
          /\ end(p) > from /\ start(q) < to
        BY <1>2, <1>4
    <2>2. r <= q /\ r \in Heads(e, n) /\ r \in Nat /\ p < r
        BY <1>2, <1>7, <1>10, <2>1
    <2>3. end(p) = start(r)
        BY <1>7, <1>10, <2>1
    <2> HIDE DEF r
    <2>4. r \in D
        <3>1. start(r) < to
            BY <2>1, <2>2
        <3>2. end(r) > from
            BY <1>2, <2>1, <2>2, <2>3
        <3> QED BY <1>4, <2>2, <3>1, <3>2
    <2>5. r = q
        BY <1>10, <2>1, <2>2, <2>4
    <2>6. end(p) \in Nat /\ start(q) \in Nat
        BY <1>2, <2>1, <2>3, <2>5
    <2> HIDE DEF start
    <2> QED BY <1>5, <2>1, <2>3, <2>5, <2>6
<1> QED BY <1>4, <1>5, <1>8, <1>9, <1>10 DEF Yields

(* Every reader gets every file back.                                      *)
LEMMA ReadersGetFiles ==
    ASSUME BlockBits = 12, IInv, IndexInv
    PROVE  FilesReadBack
<1> SUFFICES ASSUME pc = "done", NEW i \in Compressed
             PROVE  /\ ~SegmentsOf(i).bad
                    /\ Yields(ReadStreaming(i), i, 0, files[i].size)
                    /\ \A o \in Offsets(i), m \in Lengths :
                           Yields(ReadRange(i, o, m), i, o,
                                  IF o + m < files[i].size THEN o + m ELSE files[i].size)
                    /\ \A read \in ReadWhole(i) : read.piece.file = i /\ read.piece.from = read.at
    BY DEF FilesReadBack
<1> DEFINE size == files[i].size
           n == ClustersOf(files[i])
           e == EntriesIn(i)
           segs == SegmentsOf(i).segs
           start(c) == (c - 1) * 4096
           end(c) == Until(e, n, size, c)
<1>1. /\ i \in DOMAIN files /\ size \in Nat /\ size > 0 /\ n \in Nat /\ n = Clusters(size)
      /\ e = [c \in 1..n |-> e[c]]
    <2>1. i \in DOMAIN files /\ size > 0
        BY DEF Compressed
    <2>2. size \in Nat /\ n \in Nat
        BY <2>1, FileFacts DEF IInv, Place
    <2> QED BY <2>1, <2>2 DEF EntriesIn, CompactEntries, ClustersOf
<1> HIDE DEF n, e, size
<1>2. \A c \in 1..n : EntryStands(e, i, c)
    BY <1>1, EntriesStand DEF n, e
<1>3. Chained(e, n)
    <2>1. \A c \in 1..n : Leads(e, n, c)
        BY <1>2 DEF EntryStands, n
    <2>2. DOMAIN e = 1..n /\ Len(e) = n
        BY <1>1
    <2> QED BY <1>1, <2>1, <2>2 DEF Chained
<1>4. SegmentsOf(i) = Segments(e, size)
    BY DEF SegmentsOf, e, size
<1>5. ~SegmentsOf(i).bad /\ segs = [c \in Heads(e, n) |-> SegmentOf(e, n, size, c)]
    <2>1. SegmentsAre(Segments(e, size), e, n, size)
        <3>1. size \in Nat /\ n = Clusters(size)
            BY <1>1
        <3> QED BY <1>3, <3>1, SegmentsStand
    <2> QED BY <1>4, <2>1 DEF SegmentsAre
<1> HIDE DEF segs
<1>6. /\ DOMAIN segs = Heads(e, n)
      /\ \A c \in Heads(e, n) : /\ segs[c] = SegmentOf(e, n, size, c)
                                /\ segs[c].start = start(c) /\ segs[c].end = end(c)
                                /\ start(c) \in Nat /\ end(c) \in Nat /\ start(c) < end(c) /\ end(c) <= size
    <2>1. ASSUME NEW c \in Heads(e, n)
          PROVE  /\ segs[c] = SegmentOf(e, n, size, c)
                 /\ start(c) \in Nat /\ end(c) \in Nat /\ start(c) < end(c) /\ end(c) <= size
        <3>1. c \in Nat /\ c \in 1..n
            BY <1>3, HeadsFollow
        <3>2. end(c) \in Nat /\ end(c) > start(c) /\ end(c) <= size
            BY <1>1, <1>3, EndsOfSegments
        <3>3. segs[c] = SegmentOf(e, n, size, c)
            BY <1>5
        <3> QED BY <3>1, <3>2, <3>3
    <2>2. \A c : SegmentOf(e, n, size, c).start = start(c) /\ SegmentOf(e, n, size, c).end = end(c)
        BY DEF SegmentOf
    <2> QED BY <1>5, <2>1, <2>2
<1> HIDE DEF end
<1>7. ASSUME NEW c \in Heads(e, n), NEW from \in Nat, NEW to \in Nat, start(c) <= from, from <= to, to <= end(c)
      PROVE  ReadSegment(segs[c], from, to) = Piece(i, from, to)
    <2>1. EntryStands(e, i, c) /\ to <= Until(e, n, files[i].size, c) /\ segs[c] = SegmentOf(e, n, files[i].size, c)
        BY <1>2, <1>6, <1>7 DEF Heads, end, size
    <2>2. n = ClustersOf(files[i]) /\ files[i].size \in Nat
        BY <1>1 DEF n, size
    <2> QED BY <1>1, <1>3, <1>7, <2>1, <2>2, SegmentsRead
<1>8. Yields(ReadStreaming(i), i, 0, size)
    <2> DEFINE pieces == ReadStreaming(i)
    <2>1. pieces = [c \in Heads(e, n) |-> ReadSegment(segs[c], segs[c].start, segs[c].end)]
        BY <1>6 DEF ReadStreaming, segs
    <2>2. Overlapping(e, n, size, 0, size) = Heads(e, n)
        BY <1>1, <1>6 DEF Overlapping, end
    <2> HIDE DEF pieces
    <2>3. \A c \in Heads(e, n) :
              pieces[c] = Piece(i, IF (c - 1) * 4096 < 0 THEN 0 ELSE (c - 1) * 4096,
                                   IF Until(e, n, size, c) < size THEN Until(e, n, size, c) ELSE size)
        <3> TAKE c \in Heads(e, n)
        <3>1. pieces[c] = ReadSegment(segs[c], start(c), end(c))
            BY <1>6, <2>1
        <3>2. pieces[c] = Piece(i, start(c), end(c))
            BY <1>6, <1>7, <3>1
        <3>3. /\ (IF (c - 1) * 4096 < 0 THEN 0 ELSE (c - 1) * 4096) = start(c)
              /\ (IF Until(e, n, size, c) < size THEN Until(e, n, size, c) ELSE size) = end(c)
            BY <1>1, <1>6 DEF end
        <3> QED BY <3>2, <3>3
    <2>4. DOMAIN pieces = Heads(e, n)
        BY <2>1
    <2>5. Yields(pieces, i, 0, size)
        BY <1>1, <1>3, <2>2, <2>3, <2>4, PiecesYield
    <2> QED BY <2>5 DEF pieces
<1>9. ASSUME NEW o \in Nat, NEW m \in Nat, o < size, m > 0
      PROVE  Yields(ReadRange(i, o, m), i, o, IF o + m < size THEN o + m ELSE size)
    <2> DEFINE to == IF o + m < size THEN o + m ELSE size
               pieces == ReadRange(i, o, m)
    <2>1. to \in Nat /\ o < to /\ to <= size /\ (IF size - o < m THEN size ELSE o + m) = to
        BY <1>1, <1>9
    <2> HIDE DEF to
    <2>2. pieces = [c \in {k \in DOMAIN segs : segs[k].end > o /\ segs[k].start < to} |->
                      ReadSegment(segs[c], IF segs[c].start < o THEN o ELSE segs[c].start,
                                           IF segs[c].end < to THEN segs[c].end ELSE to)]
        BY <2>1 DEF ReadRange, segs, size
    <2>3. {k \in DOMAIN segs : segs[k].end > o /\ segs[k].start < to} = Overlapping(e, n, size, o, to)
        BY <1>6 DEF Overlapping, end
    <2> HIDE DEF pieces
    <2>4. \A c \in Overlapping(e, n, size, o, to) :
              pieces[c] = Piece(i, IF (c - 1) * 4096 < o THEN o ELSE (c - 1) * 4096,
                                   IF Until(e, n, size, c) < to THEN Until(e, n, size, c) ELSE to)
        <3> TAKE c \in Overlapping(e, n, size, o, to)
        <3> DEFINE a == IF start(c) < o THEN o ELSE start(c)
                   z == IF end(c) < to THEN end(c) ELSE to
        <3>1. c \in Heads(e, n) /\ end(c) > o /\ start(c) < to
            BY DEF Overlapping, end
        <3>2. pieces[c] = ReadSegment(segs[c], a, z)
            BY <1>6, <2>2, <2>3, <3>1
        <3>3. a \in Nat /\ z \in Nat /\ start(c) <= a /\ a <= z /\ z <= end(c)
            BY <1>6, <2>1, <3>1
        <3> HIDE DEF a, z
        <3>4. pieces[c] = Piece(i, a, z)
            BY <1>7, <3>1, <3>2, <3>3
        <3> QED BY <3>4 DEF a, z, end
    <2>5. DOMAIN pieces = Overlapping(e, n, size, o, to)
        BY <2>2, <2>3
    <2>6. Yields(pieces, i, o, to)
        BY <1>1, <1>3, <2>1, <2>4, <2>5, PiecesYield
    <2> QED BY <2>6 DEF pieces, to
<1>10. \A o \in Offsets(i), m \in Lengths : Yields(ReadRange(i, o, m), i, o, IF o + m < size THEN o + m ELSE size)
    <2> TAKE o \in Offsets(i), m \in Lengths
    <2>1. o \in Nat /\ o < size
        BY <1>1, BlocksOf4K DEF Offsets, size
    <2>2. m \in Nat /\ m > 0
        BY BlocksOf4K DEF Lengths
    <2> QED BY <1>9, <2>1, <2>2
<1>11. \A read \in ReadWhole(i) : read.piece.file = i /\ read.piece.from = read.at
    <2> TAKE read \in ReadWhole(i)
    <2>1. PICK c \in Heads(e, n) :
              read = [at |-> segs[c].start, piece |-> ReadSegment(segs[c], segs[c].start, segs[c].end)]
        BY <1>6 DEF ReadWhole, segs
    <2>2. ReadSegment(segs[c], start(c), end(c)) = Piece(i, start(c), end(c))
        BY <1>6, <1>7
    <2>3. read.at = start(c) /\ read.piece = Piece(i, start(c), end(c))
        BY <1>6, <2>1, <2>2
    <2> QED BY <2>3 DEF Piece
<1> QED BY <1>5, <1>8, <1>10, <1>11 DEF size

-----------------------------------------------------------------------------
(* What holds of every image that is streamed.                             *)

(* The invariant above, whatever the files, the batches and the codec.     *)
THEOREM StreamInvariant == Spec => []IInv
<1>1. ASSUME IInv, [Next]_vars PROVE IInv'
    <2>1. CASE StartFile
        BY <1>1, <2>1, StartFileKeeps
    <2>2. CASE WriteBatch
        BY <1>1, <2>2, WriteBatchKeeps
    <2>3. CASE EndFile
        BY <1>1, <2>3, EndFileKeeps
    <2>4. CASE StreamsEnd \/ CheckReservations
        BY <1>1, <2>4, EndingKeeps
    <2>5. CASE Finished \/ UNCHANGED vars
        BY <1>1, <2>5, StandingStillKeeps DEF Finished
    <2> QED BY <1>1, <2>1, <2>2, <2>3, <2>4, <2>5 DEF Next
<1> QED BY <1>1, InitIInv, PTL DEF Spec

(* Every pack that is written leads to the blocks of its clusters, and     *)
(* what is written later changes neither: whatever the files, the batches  *)
(* and the codec.                                                          *)
THEOREM IndexInvariant == Spec => [](IInv /\ IndexInv)
<1>1. ASSUME IInv, IInv', IndexInv, [Next]_vars PROVE IndexInv'
    <2>1. CASE StartFile
        BY <1>1, <2>1, StartFileKeepsIndexes
    <2>2. CASE WriteBatch
        BY <1>1, <2>2, WriteBatchKeepsIndexes
    <2>3. CASE EndFile
        BY <1>1, <2>3, EndFileKeepsIndexes
    <2>4. CASE StreamsEnd \/ CheckReservations \/ UNCHANGED vars
        BY <1>1, <2>4, EndingKeepsIndexes
    <2>5. CASE Finished
        BY <1>1, <2>5, EndingKeepsIndexes DEF Finished
    <2> QED BY <1>1, <2>1, <2>2, <2>3, <2>4, <2>5 DEF Next
<1> QED BY <1>1, InitIndexInv, StreamInvariant, PTL DEF Spec

(* With blocks of 4 KiB, which is what the tool writes, every anchor leads *)
(* to the block of its entry, so that no reader depends on the chain of    *)
(* segments before it.                                                     *)
THEOREM AnchorsAlwaysLead ==
    ASSUME BlockBits = 12
    PROVE  Spec => []AnchorsLead
<1>1. IInv /\ IndexInv => AnchorsLead
    BY AnchorsAreRight
<1> QED BY <1>1, IndexInvariant, PTL

(* And every reader gets every file back: whatever its size, the batches   *)
(* and the codec.                                                          *)
THEOREM FilesAlwaysReadBack ==
    ASSUME BlockBits = 12
    PROVE  Spec => []FilesReadBack
<1>1. IInv /\ IndexInv => FilesReadBack
    BY ReadersGetFiles
<1> QED BY <1>1, IndexInvariant, PTL

(* Packs stay in the space that inode_slots reserved: no inode and no map  *)
(* header is overwritten, and the check at the end never fails.            *)
THEOREM ReservationsAlwaysHold == Spec => []ReservationsHold
<1>1. IInv => ReservationsHold
    <2> SUFFICES ASSUME IInv PROVE ReservationsHold
        OBVIOUS
    <2>1. pc # "overrun"
        BY DEF IInv, Place
    <2>2. \A i \in DOMAIN files : \A u \in BodyUnits(i) : meta[u].what = "inode"
        BY DEF IInv, BodiesStand
    <2>3. \A i \in Compressed : i < file => meta[DataOff(i)].what = "header"
        BY DEF IInv, HeadersStand, Begun, Compressed
    <2> QED BY <2>1, <2>2, <2>3 DEF ReservationsHold
<1> QED BY <1>1, StreamInvariant, PTL

(* The carry of stream_compressed_file is never needed: only the last      *)
(* batch of a file can be odd.                                             *)
THEOREM NothingIsCarriedOver == Spec => []~carry
<1>1. IInv => ~carry
    BY DEF IInv, Place
<1> QED BY <1>1, StreamInvariant, PTL

=============================================================================

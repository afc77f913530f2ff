------------------------ MODULE QuaternaryHeapProofs ------------------------
(* Theorems about QuaternaryHeap, for every set of IDs and times and every *)
(* length of the array: it stays in order, and it implements DueQueue.     *)
(*                                                                         *)
(* What a loop or a traversal computes is shown by induction, which rests  *)
(* on LeastNumber: a claim that fails for some number has a least one.     *)
EXTENDS QuaternaryHeap, WellFoundedInduction, TLAPS

\* A set of numbers has a least one; so a property is shown for all numbers from
\* its least counterexample.
LEMMA LeastNumber ==
    ASSUME NEW T, T \subseteq Nat, T # {}
    PROVE  \E x \in T : \A y \in T : x <= y
    <1>1. IsWellFoundedOn(OpToRel(<, Nat), Nat) BY NatLessThanWellFounded, Zenon
    <1>2. PICK x \in T : \A y \in T : ~ (<<y, x>> \in OpToRel(<, Nat)) BY <1>1, WFMin, Zenon
    <1>3. \A y \in T : ~ (y < x) BY <1>2, Zenon DEF OpToRel
    <1> QED BY <1>3

LEMMA Induction ==
    ASSUME NEW T, T \subseteq Nat, 0 \in T, \A n \in T : n + 1 \in T
    PROVE  T = Nat
    <1> SUFFICES ASSUME Nat \ T # {} PROVE FALSE OBVIOUS
    <1>1. PICK x \in Nat \ T : \A y \in Nat \ T : x <= y BY LeastNumber
    <1>2. x # 0 /\ x - 1 \in Nat BY <1>1
    <1>3. x - 1 \in T BY <1>1, <1>2
    <1> QED BY <1>1, <1>2, <1>3

\* Of a and F, which stays in S: a, F[a], F[F[a]] and so on.
Stays(F, S) == F \in [S -> S]

Iterates(g, F, a, S) ==
    g \in [Nat -> S] /\ g[0] = a /\ \A n \in Nat : g[n + 1] = F[g[n]]

LEMMA Turns ==
    ASSUME NEW S, NEW F, Stays(F, S), NEW a \in S
    PROVE  \E g : Iterates(g, F, a, S)
    <1>0. F \in [S -> S] BY DEF Stays
    <1> DEFINE Upto(n) == {g \in [0..n -> S] : g[0] = a /\ \A k \in 0..n : k < n => g[k + 1] = F[g[k]]}
    <1>1. \A n \in Nat : Upto(n) # {}
        <2> DEFINE T == {n \in Nat : Upto(n) # {}}
        <2>1. 0 \in T
            <3> DEFINE g == [k \in 0..0 |-> a]
            <3>1. g \in Upto(0) OBVIOUS
            <3> QED BY <3>1
        <2>2. \A n \in T : n + 1 \in T
            <3> SUFFICES ASSUME NEW n \in Nat, NEW g \in Upto(n) PROVE Upto(n + 1) # {}
                OBVIOUS
            <3> DEFINE f == [k \in 0..n + 1 |-> IF k = n + 1 THEN F[g[n]] ELSE g[k]]
            <3>1. g \in [0..n -> S] /\ g[0] = a /\ \A k \in 0..n : k < n => g[k + 1] = F[g[k]]
                OBVIOUS
            <3> HIDE DEF Upto
            <3>2. f \in [0..n + 1 -> S] /\ f[0] = a
                BY <3>1, <1>0
            <3>3. \A k \in 0..n + 1 : k < n + 1 => f[k + 1] = F[f[k]]
                <4> SUFFICES ASSUME NEW k \in 0..n + 1, k < n + 1
                             PROVE  f[k + 1] = F[f[k]]
                    OBVIOUS
                <4>1. CASE k = n BY <4>1
                <4>2. CASE k < n BY <3>1, <4>2
                <4> QED BY <4>1, <4>2
            <3>4. f \in Upto(n + 1) BY <3>2, <3>3 DEF Upto
            <3> QED BY <3>4
        <2> HIDE DEF T
        <2>3. T \subseteq Nat BY DEF T
        <2>4. T = Nat BY <2>1, <2>2, <2>3, Induction
        <2> QED BY <2>4 DEF T
    <1>2. \A n \in Nat : \A g \in Upto(n), f \in Upto(n + 1) : g[n] = f[n]
        <2> SUFFICES ASSUME NEW n \in Nat, NEW g \in Upto(n), NEW f \in Upto(n + 1)
                     PROVE  g[n] = f[n]
            OBVIOUS
        <2> DEFINE T == {k \in Nat : k <= n => g[k] = f[k]}
        <2>1. 0 \in T OBVIOUS
        <2>2. \A k \in T : k + 1 \in T
            <3> SUFFICES ASSUME NEW k \in Nat, k + 1 <= n, g[k] = f[k]
                         PROVE  g[k + 1] = f[k + 1]
                OBVIOUS
            <3>1. k \in 0..n /\ k < n /\ k \in 0..n + 1 /\ k < n + 1 OBVIOUS
            <3> QED BY <3>1
        <2> HIDE DEF T
        <2>3. T \subseteq Nat BY DEF T
        <2>4. T = Nat BY <2>1, <2>2, <2>3, Induction
        <2> QED BY <2>4 DEF T
    <1> DEFINE p == [n \in Nat |-> CHOOSE g \in Upto(n) : TRUE]
    <1> DEFINE r == [n \in Nat |-> p[n][n]]
    <1>3. \A n \in Nat : p[n] \in Upto(n) BY <1>1
    <1>4. \A n \in Nat : p[n] \in [0..n -> S] /\ p[n][0] = a
                /\ \A k \in 0..n : k < n => p[n][k + 1] = F[p[n][k]]
        BY <1>3
    <1>5. \A n \in Nat : p[n][n] = p[n + 1][n]
        <2> SUFFICES ASSUME NEW n \in Nat PROVE p[n][n] = p[n + 1][n] OBVIOUS
        <2>1. n + 1 \in Nat OBVIOUS
        <2>2. p[n] \in Upto(n) /\ p[n + 1] \in Upto(n + 1) BY <1>3, <2>1
        <2> HIDE DEF Upto, p
        <2> QED BY <1>2, <2>2
    <1> HIDE DEF Upto, p
    <1>6. r \in [Nat -> S] BY <1>4
    <1>7. r[0] = a BY <1>4
    <1>8. \A n \in Nat : r[n + 1] = F[r[n]]
        <2> SUFFICES ASSUME NEW n \in Nat PROVE p[n + 1][n + 1] = F[p[n][n]] OBVIOUS
        <2>1. n + 1 \in Nat /\ n \in 0..n + 1 /\ n < n + 1 OBVIOUS
        <2>2. p[n + 1][n + 1] = F[p[n + 1][n]] BY <1>4, <2>1
        <2> QED BY <1>5, <2>2
    <1> QED BY <1>6, <1>7, <1>8 DEF Iterates
-----------------------------------------------------------------------------
Heaps == [items : Seq(Entry), indexMap : [Id -> Nat \cup {Nothing}]]

Places(h) == 0..Size(h) - 1

\* The index says where every entry is and knows no other.
Indexed(h) ==
    /\ \A p \in Places(h) : h.indexMap[Item(h, p).id] = p
    /\ \A i \in Id : h.indexMap[i] # Nothing =>
            h.indexMap[i] \in Places(h) /\ Item(h, h.indexMap[i]).id = i

\* No entry comes before its parent.
Ordered(h) == \A i \in Places(h) : i > 0 => ~Less(h, i, parentIndex(i))

\* ... but the one at p may, and its children do not come before its parent.
OrderedAbove(h, p) ==
    p > 0 => \A i \in Places(h) : i > 0 /\ parentIndex(i) = p => ~Less(h, i, parentIndex(p))

RisesAt(h, p) ==
    /\ \A i \in Places(h) : i > 0 /\ i # p => ~Less(h, i, parentIndex(i))
    /\ OrderedAbove(h, p)

\* ... but those below p may come before it.
SinksAt(h, p) ==
    /\ \A i \in Places(h) : i > 0 /\ parentIndex(i) # p => ~Less(h, i, parentIndex(i))
    /\ OrderedAbove(h, p)

Entries(h) == {h.items[k] : k \in 1..Len(h.items)}

LEMMA ParentIs ==
    /\ \A i \in Nat : i > 0 => parentIndex(i) \in Nat /\ parentIndex(i) < i
    /\ \A i, p \in Nat : i > 0 =>
            (parentIndex(i) = p <=> i \in (branchFactor * p + 1)..(branchFactor * p + branchFactor))
    BY DEF parentIndex, branchFactor

LEMMA HeapsAre ==
    ASSUME NEW h \in Heaps
    PROVE  /\ Size(h) \in Nat /\ h.items \in Seq(Entry)
           /\ h.indexMap \in [Id -> Nat \cup {Nothing}]
           /\ \A p \in Places(h) : /\ p \in Nat /\ p + 1 \in 1..Len(h.items)
                                    /\ Item(h, p) \in Entry /\ Item(h, p).id \in Id
                                    /\ Item(h, p).at \in Int /\ Item(h, p) \in Entries(h)
           /\ \A e \in Entries(h) : \E p \in Places(h) : e = Item(h, p)
    <1>1. h.items \in Seq(Entry) /\ h.indexMap \in [Id -> Nat \cup {Nothing}] BY DEF Heaps
    <1>2. Size(h) \in Nat BY <1>1 DEF Size
    <1>3. \A p \in Places(h) : p \in Nat /\ p + 1 \in 1..Len(h.items)
        BY <1>2 DEF Places, Size
    <1>4. \A p \in Places(h) : Item(h, p) \in Entry /\ Item(h, p) \in Entries(h)
        BY <1>1, <1>3 DEF Item, Entries
    <1>5. \A e \in Entry : e.id \in Id /\ e.at \in Int BY HeapAssumption DEF Entry
    <1>6. \A e \in Entries(h) : \E p \in Places(h) : e = Item(h, p)
        <2> SUFFICES ASSUME NEW k \in 1..Len(h.items)
                     PROVE  \E p \in Places(h) : h.items[k] = Item(h, p)
            BY DEF Entries
        <2>1. k - 1 \in Places(h) /\ (k - 1) + 1 = k BY <1>2 DEF Places, Size
        <2> QED BY <2>1 DEF Item
    <1> QED BY <1>1, <1>2, <1>3, <1>4, <1>5, <1>6

\* What Swap leaves.
LEMMA SwapIs ==
    ASSUME NEW h \in Heaps, Indexed(h), NEW i \in Places(h), NEW j \in Places(h), i # j
    PROVE  LET g == Swap(h, i, j) IN
           /\ g \in Heaps /\ Indexed(g) /\ Size(g) = Size(h) /\ Entries(g) = Entries(h)
           /\ Item(g, i) = Item(h, j) /\ Item(g, j) = Item(h, i)
           /\ \A p \in Places(h) : p # i /\ p # j => Item(g, p) = Item(h, p)
    <1> DEFINE g == Swap(h, i, j)
    <1>1. /\ h.items \in Seq(Entry) /\ Size(h) \in Nat
          /\ h.indexMap \in [Id -> Nat \cup {Nothing}]
          /\ i \in Nat /\ j \in Nat /\ i + 1 \in 1..Len(h.items) /\ j + 1 \in 1..Len(h.items)
          /\ Item(h, i) \in Entry /\ Item(h, j) \in Entry
          /\ Item(h, i).id \in Id /\ Item(h, j).id \in Id
        BY HeapsAre
    <1>2. /\ g.items = [h.items EXCEPT ![i + 1] = Item(h, j), ![j + 1] = Item(h, i)]
          /\ g.indexMap = [h.indexMap EXCEPT ![Item(h, j).id] = i, ![Item(h, i).id] = j]
          /\ g = [items |-> g.items, indexMap |-> g.indexMap]
        BY DEF Swap
    <1> HIDE DEF g
    <1>3. /\ g.items \in Seq(Entry) /\ Len(g.items) = Len(h.items)
          /\ g.items[i + 1] = Item(h, j) /\ g.items[j + 1] = Item(h, i)
          /\ \A k \in 1..Len(h.items) : k # i + 1 /\ k # j + 1 => g.items[k] = h.items[k]
        BY <1>1, <1>2
    <1>4. g.indexMap \in [Id -> Nat \cup {Nothing}] BY <1>1, <1>2
    <1>5. g \in Heaps /\ Size(g) = Size(h) /\ Places(g) = Places(h)
        BY <1>2, <1>3, <1>4 DEF Heaps, Size, Places
    <1>6. /\ Item(g, i) = Item(h, j) /\ Item(g, j) = Item(h, i)
          /\ \A p \in Places(h) : p # i /\ p # j => Item(g, p) = Item(h, p)
        BY <1>1, <1>3, HeapsAre DEF Item
    <1>7. Entries(g) = Entries(h)
        <2>1. Entries(g) \subseteq Entries(h)
            BY <1>3, <1>1 DEF Entries, Item
        <2>2. \A k \in 1..Len(h.items) : \E l \in 1..Len(h.items) : g.items[l] = h.items[k]
            <3> SUFFICES ASSUME NEW k \in 1..Len(h.items)
                         PROVE  \E l \in 1..Len(h.items) : g.items[l] = h.items[k]
                OBVIOUS
            <3>1. CASE k = i + 1 BY <1>1, <1>3, <3>1 DEF Item
            <3>2. CASE k = j + 1 BY <1>1, <1>3, <3>2 DEF Item
            <3>3. CASE k # i + 1 /\ k # j + 1 BY <1>3, <3>3
            <3> QED BY <3>1, <3>2, <3>3
        <2>3. Entries(h) \subseteq Entries(g) BY <1>3, <2>2 DEF Entries
        <2> QED BY <2>1, <2>3
    <1>8. Item(h, i).id # Item(h, j).id BY DEF Indexed
    <1>9. /\ g.indexMap[Item(h, j).id] = i /\ g.indexMap[Item(h, i).id] = j
          /\ \A x \in Id : x # Item(h, i).id /\ x # Item(h, j).id =>
                g.indexMap[x] = h.indexMap[x]
        BY <1>1, <1>2, <1>8
    <1>10. Indexed(g)
        <2>1. \A p \in Places(g) : g.indexMap[Item(g, p).id] = p
            <3> SUFFICES ASSUME NEW p \in Places(h) PROVE g.indexMap[Item(g, p).id] = p
                BY <1>5
            <3>1. CASE p = i \/ p = j BY <1>6, <1>9, <3>1
            <3>2. CASE p # i /\ p # j
                <4>1. h.indexMap[Item(h, p).id] = p /\ h.indexMap[Item(h, i).id] = i
                        /\ h.indexMap[Item(h, j).id] = j
                    BY DEF Indexed
                <4>2. Item(h, p).id # Item(h, i).id /\ Item(h, p).id # Item(h, j).id
                        /\ Item(h, p).id \in Id
                    BY <3>2, <4>1, HeapsAre
                <4> QED BY <1>6, <1>9, <3>2, <4>1, <4>2
            <3> QED BY <3>1, <3>2
        <2>2. \A x \in Id : g.indexMap[x] # Nothing =>
                g.indexMap[x] \in Places(g) /\ Item(g, g.indexMap[x]).id = x
            <3> SUFFICES ASSUME NEW x \in Id, g.indexMap[x] # Nothing
                         PROVE  g.indexMap[x] \in Places(h) /\ Item(g, g.indexMap[x]).id = x
                BY <1>5
            <3>1. CASE x = Item(h, i).id \/ x = Item(h, j).id BY <1>6, <1>9, <3>1
            <3>2. CASE x # Item(h, i).id /\ x # Item(h, j).id
                <4>1. h.indexMap[x] \in Places(h) /\ Item(h, h.indexMap[x]).id = x
                    BY <1>9, <3>2 DEF Indexed
                <4>2. h.indexMap[x] # i /\ h.indexMap[x] # j BY <3>2, <4>1
                <4> QED BY <1>6, <1>9, <3>2, <4>1, <4>2
            <3> QED BY <3>1, <3>2
        <2> QED BY <2>1, <2>2 DEF Indexed
    <1> QED BY <1>5, <1>6, <1>7, <1>10 DEF g

\* Of any places one has the earliest time, and the first of those is unique.
LEMMA EarliestPlace ==
    ASSUME NEW h \in Heaps, NEW S, S \subseteq Places(h), S # {}
    PROVE  \E c \in S : \A d \in S : Item(h, c).at <= Item(h, d).at
    <1> DEFINE Has(R) == \E c \in R : \A d \in R : Item(h, c).at <= Item(h, d).at
    <1> DEFINE T == {n \in Nat : \A R \in SUBSET Places(h) : R # {} /\ R \subseteq 0..n => Has(R)}
    <1>0. Size(h) \in Nat /\ \A p \in Places(h) : p \in Nat /\ Item(h, p).at \in Int
        BY HeapsAre
    <1>1. 0 \in T
        <2> SUFFICES ASSUME NEW R \in SUBSET Places(h), R # {}, R \subseteq 0..0 PROVE Has(R)
            OBVIOUS
        <2>1. \A x \in R : x = 0 OBVIOUS
        <2>2. 0 \in R BY <2>1
        <2> QED BY <2>1, <2>2, <1>0
    <1>2. \A n \in T : n + 1 \in T
        <2> SUFFICES ASSUME NEW n \in Nat, NEW R \in SUBSET Places(h), R # {}, R \subseteq 0..n + 1,
                            \A Q \in SUBSET Places(h) : Q # {} /\ Q \subseteq 0..n => Has(Q)
                     PROVE  Has(R)
            <3> HIDE DEF Has
            <3> QED OBVIOUS
        <2>1. R \ {n + 1} \subseteq 0..n OBVIOUS
        <2>2. CASE R \ {n + 1} = {}
            <3>1. R = {n + 1} /\ n + 1 \in Places(h) BY <2>2
            <3> QED BY <3>1, <1>0
        <2>3. CASE R \ {n + 1} # {}
            <3>1. PICK c \in R \ {n + 1} : \A d \in R \ {n + 1} : Item(h, c).at <= Item(h, d).at
                BY <2>1, <2>3
            <3>2. CASE n + 1 \notin R BY <3>1, <3>2
            <3>3. CASE n + 1 \in R /\ Item(h, c).at <= Item(h, n + 1).at BY <3>1, <3>3
            <3>4. CASE n + 1 \in R /\ ~(Item(h, c).at <= Item(h, n + 1).at)
                <4>1. \A d \in R : Item(h, n + 1).at <= Item(h, d).at
                    <5> SUFFICES ASSUME NEW d \in R PROVE Item(h, n + 1).at <= Item(h, d).at
                        OBVIOUS
                    <5>1. Item(h, c).at \in Int /\ Item(h, d).at \in Int /\ Item(h, n + 1).at \in Int
                        BY <1>0, <3>1, <3>4
                    <5>2. CASE d = n + 1 BY <5>1, <5>2
                    <5>3. CASE d # n + 1 BY <5>1, <5>3, <3>1, <3>4
                    <5> QED BY <5>2, <5>3
                <4> QED BY <4>1, <3>4
            <3> QED BY <3>2, <3>3, <3>4
        <2> QED BY <2>2, <2>3
    <1> HIDE DEF T
    <1>3. T \subseteq Nat BY DEF T
    <1>4. T = Nat BY <1>1, <1>2, <1>3, Induction
    <1>5. S \subseteq 0..Size(h) BY <1>0 DEF Places
    <1>6. Has(S) BY <1>0, <1>4, <1>5 DEF T
    <1> QED BY <1>6

LEMMA FirstEarliest ==
    ASSUME NEW h \in Heaps, NEW S, S \subseteq Places(h), S # {}
    PROVE  \E c \in S : \A d \in S : ~Less(h, d, c) /\ (d < c => Less(h, c, d))
    <1>1. PICK b \in S : \A d \in S : Item(h, b).at <= Item(h, d).at BY EarliestPlace
    <1> DEFINE B == {d \in S : Item(h, d).at = Item(h, b).at}
    <1>2. \A p \in Places(h) : p \in Nat /\ Item(h, p).at \in Int BY HeapsAre
    <1>3. B \subseteq Nat /\ B # {} BY <1>1, <1>2
    <1>4. PICK c \in B : \A d \in B : c <= d BY <1>3, LeastNumber
    <1>5. \A d \in S : ~Less(h, d, c) /\ (d < c => Less(h, c, d))
        <2> SUFFICES ASSUME NEW d \in S PROVE ~Less(h, d, c) /\ (d < c => Less(h, c, d))
            OBVIOUS
        <2>1. /\ Item(h, c).at = Item(h, b).at /\ Item(h, b).at <= Item(h, d).at
              /\ Item(h, b).at \in Int /\ Item(h, d).at \in Int /\ c \in Nat /\ d \in Nat
            BY <1>1, <1>2, <1>4
        <2>2. d < c => Item(h, d).at # Item(h, b).at BY <1>4, <2>1
        <2> QED BY <2>1, <2>2 DEF Less
    <1> QED BY <1>4, <1>5

LEMMA SmallestChildIs ==
    ASSUME NEW h \in Heaps, NEW i \in Places(h)
    PROVE  LET c == SmallestChild(h, i) IN
           /\ c \in {i} \cup Children(h, i) /\ c \in Places(h)
           /\ \A d \in {i} \cup Children(h, i) : ~Less(h, d, c) /\ (d < c => Less(h, c, d))
    <1>1. {i} \cup Children(h, i) \subseteq Places(h) BY DEF Children, Places
    <1>2. \E c \in {i} \cup Children(h, i) : \A d \in {i} \cup Children(h, i) :
              ~Less(h, d, c) /\ (d < c => Less(h, c, d))
        BY <1>1, FirstEarliest
    <1> QED BY <1>1, <1>2 DEF SmallestChild

LEMMA ChildrenAre ==
    ASSUME NEW h \in Heaps, NEW p \in Places(h)
    PROVE  \A i \in Places(h) : i \in Children(h, p) <=> i > 0 /\ parentIndex(i) = p
    BY HeapsAre, ParentIs DEF Children, Places, branchFactor

-----------------------------------------------------------------------------
\* What every turn of a sift that set out from h keeps.
Sifting(s, h) ==
    /\ s = [heap |-> s.heap, at |-> s.at]
    /\ s.heap \in Heaps /\ Indexed(s.heap)
    /\ Size(s.heap) = Size(h) /\ Entries(s.heap) = Entries(h)
    /\ s.at \in Places(h)

\* A turn of siftUp brings the entry higher, or finds the heap in order.
LEMMA RisenIs ==
    ASSUME NEW h \in Heaps, NEW s, Sifting(s, h), RisesAt(s.heap, s.at)
    PROVE  /\ Sifting(Risen(s), h) /\ RisesAt(Risen(s).heap, Risen(s).at)
           /\ Risen(s).at < s.at \/ (Risen(s) = s /\ Ordered(s.heap))
    <1> DEFINE g == s.heap  p == s.at  q == parentIndex(s.at)  r == Swap(g, p, q)
    <1>1. /\ g \in Heaps /\ Indexed(g) /\ Size(g) = Size(h) /\ Entries(g) = Entries(h)
          /\ p \in Places(g) /\ Places(g) = Places(h) /\ Size(h) \in Nat
          /\ \A i \in Places(g) : i \in Nat /\ Item(g, i).at \in Int
        BY HeapsAre DEF Sifting, Places
    <1>2. CASE p > 0 /\ Less(g, p, q)
        <2>1. q \in Nat /\ q < p /\ q \in Places(g)
            BY <1>1, <1>2, ParentIs DEF Places
        <2>2. Risen(s) = [heap |-> r, at |-> q] BY <1>2 DEF Risen
        <2>3. /\ r \in Heaps /\ Indexed(r) /\ Size(r) = Size(g) /\ Entries(r) = Entries(g)
              /\ Item(r, p) = Item(g, q) /\ Item(r, q) = Item(g, p)
              /\ \A i \in Places(g) : i # p /\ i # q => Item(r, i) = Item(g, i)
            BY <1>1, <2>1, SwapIs
        <2>4. Places(r) = Places(g) BY <2>3 DEF Places
        <2> HIDE DEF g, p, q, r
        <2>5. \A i \in Places(r) : i > 0 /\ i # q => ~Less(r, i, parentIndex(i))
            <3> SUFFICES ASSUME NEW i \in Places(g), i > 0, i # q
                         PROVE  ~Less(r, i, parentIndex(i))
                BY <2>4
            <3>1. parentIndex(i) \in Nat /\ parentIndex(i) < i /\ parentIndex(i) \in Places(g)
                BY <1>1, ParentIs DEF Places
            <3>2. CASE i = p
                <4>1. parentIndex(i) = q BY <3>2 DEF p, q
                <4> QED BY <1>1, <1>2, <2>1, <2>3, <3>2, <4>1 DEF Less
            <3>3. CASE i # p /\ parentIndex(i) = p
                <4>1. ~Less(g, i, q) BY <1>1, <3>3, <1>2 DEF RisesAt, OrderedAbove, g, p, q
                <4> QED BY <2>3, <3>3, <4>1 DEF Less
            <3>4. CASE i # p /\ parentIndex(i) = q
                <4>1. ~Less(g, i, q) BY <1>1, <3>4 DEF RisesAt, g, p
                <4>2. Item(r, i) = Item(g, i) /\ Item(r, q) = Item(g, p) BY <2>3, <3>4
                <4>3. Item(g, i).at \in Int /\ Item(g, p).at \in Int /\ Item(g, q).at \in Int
                    BY <1>1, <2>1
                <4> QED BY <1>2, <3>4, <4>1, <4>2, <4>3 DEF Less
            <3>5. CASE i # p /\ parentIndex(i) # p /\ parentIndex(i) # q
                <4>1. ~Less(g, i, parentIndex(i)) BY <1>1, <3>5 DEF RisesAt, g, p
                <4> QED BY <2>3, <3>1, <3>5, <4>1 DEF Less
            <3> QED BY <3>2, <3>3, <3>4, <3>5
        <2>6. OrderedAbove(r, q)
            <3> SUFFICES ASSUME q > 0, NEW i \in Places(g), i > 0, parentIndex(i) = q
                         PROVE  ~Less(r, i, parentIndex(q))
                BY <2>4 DEF OrderedAbove
            <3> DEFINE u == parentIndex(q)
            <3>1. u \in Nat /\ u < q /\ u \in Places(g) /\ u # p /\ u # q /\ i > q
                BY <1>1, <2>1, ParentIs DEF Places
            <3>2. ~Less(g, q, u) BY <1>1, <2>1 DEF RisesAt, g, p
            <3>3. Item(r, u) = Item(g, u) BY <2>3, <3>1
            <3>4. Item(g, u).at \in Int /\ Item(g, q).at \in Int /\ Item(g, i).at \in Int
                BY <1>1, <2>1, <3>1
            <3> HIDE DEF u
            <3>5. CASE i = p BY <2>3, <3>2, <3>3, <3>5 DEF Less, u
            <3>6. CASE i # p
                <4>1. ~Less(g, i, q) BY <3>6 DEF RisesAt, g, p
                <4>2. Item(r, i) = Item(g, i) BY <2>3, <3>1, <3>6, <1>1, <2>1
                <4>3. ~Less(r, i, u) BY <3>2, <3>3, <3>4, <4>1, <4>2 DEF Less
                <4> QED BY <4>3 DEF u
            <3> QED BY <3>5, <3>6
        <2>7. RisesAt(r, q) BY <2>5, <2>6 DEF RisesAt
        <2>8. Sifting(Risen(s), h) BY <1>1, <2>1, <2>2, <2>3 DEF Sifting
        <2> QED BY <2>1, <2>2, <2>7, <2>8 DEF p
    <1>3. CASE ~(p > 0 /\ Less(g, p, q))
        <2>1. Risen(s) = s BY <1>3 DEF Risen
        <2>2. Ordered(g)
            <3> SUFFICES ASSUME NEW i \in Places(g), i > 0 PROVE ~Less(g, i, parentIndex(i))
                BY DEF Ordered
            <3>1. CASE i = p BY <1>3, <3>1
            <3>2. CASE i # p BY <3>2 DEF RisesAt
            <3> QED BY <3>1, <3>2
        <2> QED BY <2>1, <2>2
    <1> QED BY <1>2, <1>3

\* A turn of siftDown brings the entry lower, or finds the heap in order.
LEMMA SunkIs ==
    ASSUME NEW h \in Heaps, NEW s, Sifting(s, h), SinksAt(s.heap, s.at)
    PROVE  /\ Sifting(Sunk(s), h) /\ SinksAt(Sunk(s).heap, Sunk(s).at)
           /\ s.at < Sunk(s).at \/ (Sunk(s) = s /\ Ordered(s.heap))
    <1> DEFINE g == s.heap  p == s.at  c == SmallestChild(g, p)  r == Swap(g, p, c)
    <1>1. /\ g \in Heaps /\ Indexed(g) /\ Size(g) = Size(h) /\ Entries(g) = Entries(h)
          /\ p \in Places(g) /\ Places(g) = Places(h) /\ Size(h) \in Nat
          /\ \A i \in Places(g) : i \in Nat /\ Item(g, i).at \in Int
        BY HeapsAre DEF Sifting, Places
    <1>2. /\ c \in Places(g) /\ (c = p \/ c \in Children(g, p))
          /\ \A d \in {p} \cup Children(g, p) : ~Less(g, d, c)
        BY <1>1, SmallestChildIs
    <1>3. \A i \in Places(g) : i \in Children(g, p) <=> i > 0 /\ parentIndex(i) = p
        BY <1>1, ChildrenAre
    <1>4. CASE c # p
        <2>1. c > 0 /\ parentIndex(c) = p /\ p < c /\ c \in Nat /\ p \in Nat
            BY <1>1, <1>2, <1>3, <1>4, ParentIs
        <2>2. Sunk(s) = [heap |-> r, at |-> c] BY <1>4 DEF Sunk
        <2>3. /\ r \in Heaps /\ Indexed(r) /\ Size(r) = Size(g) /\ Entries(r) = Entries(g)
              /\ Item(r, p) = Item(g, c) /\ Item(r, c) = Item(g, p)
              /\ \A i \in Places(g) : i # p /\ i # c => Item(r, i) = Item(g, i)
            BY <1>1, <1>2, <1>4, SwapIs
        <2>4. Places(r) = Places(g) BY <2>3 DEF Places
        <2> HIDE DEF g, p, c, r
        <2>5. \A i \in Places(r) : i > 0 /\ parentIndex(i) # c => ~Less(r, i, parentIndex(i))
            <3> SUFFICES ASSUME NEW i \in Places(g), i > 0, parentIndex(i) # c
                         PROVE  ~Less(r, i, parentIndex(i))
                BY <2>4
            <3>1. parentIndex(i) \in Nat /\ parentIndex(i) < i /\ parentIndex(i) \in Places(g)
                BY <1>1, ParentIs DEF Places
            <3>2. CASE i = c
                <4>1. ~Less(g, p, c) BY <1>2
                <4> QED BY <2>1, <2>3, <3>2, <4>1 DEF Less
            <3>3. CASE i = p
                <4>1. ~Less(g, c, parentIndex(p))
                    BY <1>2, <2>1, <3>3 DEF SinksAt, OrderedAbove, g, p
                <4>2. Item(r, parentIndex(i)) = Item(g, parentIndex(i)) BY <2>3, <3>1, <3>3
                <4> QED BY <2>3, <3>3, <4>1, <4>2 DEF Less
            <3>4. CASE i # p /\ i # c /\ parentIndex(i) = p
                <4>1. ~Less(g, i, c) BY <1>2, <1>3, <3>4
                <4> QED BY <2>3, <3>4, <4>1 DEF Less
            <3>5. CASE i # p /\ i # c /\ parentIndex(i) # p
                <4>1. ~Less(g, i, parentIndex(i)) BY <3>5 DEF SinksAt, g, p
                <4> QED BY <2>3, <3>1, <3>5, <4>1 DEF Less
            <3> QED BY <3>2, <3>3, <3>4, <3>5
        <2>6. OrderedAbove(r, c)
            <3> SUFFICES ASSUME NEW i \in Places(g), i > 0, parentIndex(i) = c
                         PROVE  ~Less(r, i, p)
                BY <2>1, <2>4 DEF OrderedAbove
            <3>1. i # p /\ i # c BY <1>1, <2>1, ParentIs
            <3>2. ~Less(g, i, c) BY <1>4, <2>1 DEF SinksAt, g, p
            <3> QED BY <2>3, <3>1, <3>2 DEF Less
        <2>7. SinksAt(r, c) BY <2>5, <2>6 DEF SinksAt
        <2>8. Sifting(Sunk(s), h) BY <1>1, <1>2, <2>2, <2>3 DEF Sifting
        <2> QED BY <2>1, <2>2, <2>7, <2>8 DEF p
    <1>5. CASE c = p
        <2>1. Sunk(s) = s BY <1>5 DEF Sunk
        <2>2. Ordered(g)
            <3> SUFFICES ASSUME NEW i \in Places(g), i > 0 PROVE ~Less(g, i, parentIndex(i))
                BY DEF Ordered
            <3>1. CASE parentIndex(i) = p BY <1>2, <1>3, <1>5, <3>1
            <3>2. CASE parentIndex(i) # p BY <3>2 DEF SinksAt
            <3> QED BY <3>1, <3>2
        <2> QED BY <2>1, <2>2
    <1> QED BY <1>4, <1>5
-----------------------------------------------------------------------------
\* What a sift that sets out from place i of h arrives at.
Settled(g, h) ==
    g \in Heaps /\ Indexed(g) /\ Size(g) = Size(h) /\ Entries(g) = Entries(h) /\ Ordered(g)

LEMMA SiftUpIs ==
    ASSUME NEW h \in Heaps, Indexed(h), NEW i \in Places(h), RisesAt(h, i)
    PROVE  Settled(SiftUp(h, i), h)
    <1> DEFINE S == {s \in [heap : Heaps, at : Nat] : Sifting(s, h) /\ RisesAt(s.heap, s.at)}
               a == [heap |-> h, at |-> i]
               F == [s \in S |-> Risen(s)]
               t == CHOOSE t : t = [n \in Nat |-> IF n = 0 THEN a ELSE Risen(t[n - 1])]
    <1>0. i \in Nat /\ Size(h) \in Nat BY HeapsAre
    <1>1. a \in S BY <1>0 DEF Sifting
    <1>2. \A s \in S : Risen(s) \in S
        <2> SUFFICES ASSUME NEW s \in S PROVE Risen(s) \in S OBVIOUS
        <2>1. Sifting(Risen(s), h) /\ RisesAt(Risen(s).heap, Risen(s).at) BY RisenIs
        <2>2. Risen(s).at \in Nat BY <2>1, HeapsAre DEF Sifting
        <2> QED BY <2>1, <2>2 DEF Sifting
    <1> HIDE DEF S
    <1>3. Stays(F, S) BY <1>2 DEF Stays
    <1>4. PICK g : Iterates(g, F, a, S)
        <2> HIDE DEF F, a, t
        <2> QED BY <1>1, <1>3, Turns
    <1>5. g = [n \in Nat |-> IF n = 0 THEN a ELSE Risen(g[n - 1])]
        <2> SUFFICES ASSUME NEW n \in Nat
                     PROVE  g[n] = IF n = 0 THEN a ELSE Risen(g[n - 1])
            BY <1>4 DEF Iterates
        <2>1. CASE n = 0 BY <1>4, <2>1 DEF Iterates
        <2>2. CASE n # 0
            <3>1. n - 1 \in Nat /\ (n - 1) + 1 = n BY <2>2
            <3>2. g[n] = F[g[n - 1]] /\ g[n - 1] \in S BY <1>4, <3>1 DEF Iterates
            <3> QED BY <2>2, <3>2
        <2> QED BY <2>1, <2>2
    <1>6. t = [n \in Nat |-> IF n = 0 THEN a ELSE Risen(t[n - 1])] BY <1>5
    <1>7. SiftUp(h, i) = t[Size(h)].heap BY DEF SiftUp
    <1> HIDE DEF t
    <1>8. t[0] = a /\ \A n \in Nat : t[n + 1] = Risen(t[n])
        <2>1. t[0] = a BY <1>6
        <2>2. \A n \in Nat : t[n + 1] = Risen(t[n])
            <3> SUFFICES ASSUME NEW n \in Nat PROVE t[n + 1] = Risen(t[n]) OBVIOUS
            <3>1. n + 1 \in Nat /\ n + 1 # 0 /\ (n + 1) - 1 = n OBVIOUS
            <3>2. t[n + 1] = Risen(t[(n + 1) - 1]) BY <1>6, <3>1
            <3> QED BY <3>1, <3>2
        <2> QED BY <2>1, <2>2
    <1> DEFINE N == {n \in Nat : /\ t[n] \in S
                                 /\ Ordered(t[n].heap) \/ t[n].at + n <= i}
    <1>9. 0 \in N BY <1>0, <1>1, <1>8
    <1>10. \A n \in N : n + 1 \in N
        <2> SUFFICES ASSUME NEW n \in Nat, n \in N PROVE n + 1 \in N OBVIOUS
        <2>1. /\ t[n] \in S /\ t[n + 1] = Risen(t[n]) /\ t[n + 1] \in S
              /\ Ordered(t[n].heap) \/ t[n].at + n <= i
            BY <1>2, <1>8
        <2>2. t[n].at \in Nat /\ t[n + 1].at \in Nat BY <2>1 DEF S
        <2>3. t[n + 1].at < t[n].at \/ (t[n + 1] = t[n] /\ Ordered(t[n].heap))
            BY <2>1, RisenIs DEF S
        <2>4. CASE Ordered(t[n].heap)
            <3>1. t[n + 1] = t[n]
                <4>1. t[n].at > 0 => ~Less(t[n].heap, t[n].at, parentIndex(t[n].at))
                    BY <2>1, <2>4, HeapsAre DEF Ordered, S, Sifting, Places
                <4> QED BY <2>1, <4>1 DEF Risen
            <3> QED BY <2>1, <2>4, <3>1
        <2>5. CASE ~Ordered(t[n].heap)
            <3>1. t[n + 1].at + (n + 1) <= i BY <1>0, <2>1, <2>2, <2>3, <2>5
            <3> QED BY <2>1, <3>1
        <2> QED BY <2>4, <2>5
    <1>11. Size(h) \in N
        <2> HIDE DEF N
        <2>1. N \subseteq Nat BY DEF N
        <2>2. N = Nat BY <1>9, <1>10, <2>1, Induction
        <2> QED BY <1>0, <2>2
    <1>12. t[Size(h)].at \in Nat /\ i < Size(h) /\ Sifting(t[Size(h)], h)
        BY <1>0, <1>11 DEF S, Places
    <1>13. Ordered(t[Size(h)].heap) BY <1>0, <1>11, <1>12
    <1> QED BY <1>7, <1>12, <1>13 DEF Settled, Sifting

LEMMA SiftDownIs ==
    ASSUME NEW h \in Heaps, Indexed(h), NEW i \in Places(h), SinksAt(h, i)
    PROVE  Settled(SiftDown(h, i), h)
    <1> DEFINE S == {s \in [heap : Heaps, at : Nat] : Sifting(s, h) /\ SinksAt(s.heap, s.at)}
               a == [heap |-> h, at |-> i]
               F == [s \in S |-> Sunk(s)]
               t == CHOOSE t : t = [n \in Nat |-> IF n = 0 THEN a ELSE Sunk(t[n - 1])]
    <1>0. i \in Nat /\ Size(h) \in Nat BY HeapsAre
    <1>1. a \in S BY <1>0 DEF Sifting
    <1>2. \A s \in S : Sunk(s) \in S
        <2> SUFFICES ASSUME NEW s \in S PROVE Sunk(s) \in S OBVIOUS
        <2>1. Sifting(Sunk(s), h) /\ SinksAt(Sunk(s).heap, Sunk(s).at) BY SunkIs
        <2>2. Sunk(s).at \in Nat BY <2>1, HeapsAre DEF Sifting
        <2> QED BY <2>1, <2>2 DEF Sifting
    <1> HIDE DEF S
    <1>3. Stays(F, S) BY <1>2 DEF Stays
    <1>4. PICK g : Iterates(g, F, a, S)
        <2> HIDE DEF F, a, t
        <2> QED BY <1>1, <1>3, Turns
    <1>5. g = [n \in Nat |-> IF n = 0 THEN a ELSE Sunk(g[n - 1])]
        <2> SUFFICES ASSUME NEW n \in Nat
                     PROVE  g[n] = IF n = 0 THEN a ELSE Sunk(g[n - 1])
            BY <1>4 DEF Iterates
        <2>1. CASE n = 0 BY <1>4, <2>1 DEF Iterates
        <2>2. CASE n # 0
            <3>1. n - 1 \in Nat /\ (n - 1) + 1 = n BY <2>2
            <3>2. g[n] = F[g[n - 1]] /\ g[n - 1] \in S BY <1>4, <3>1 DEF Iterates
            <3> QED BY <2>2, <3>2
        <2> QED BY <2>1, <2>2
    <1>6. t = [n \in Nat |-> IF n = 0 THEN a ELSE Sunk(t[n - 1])] BY <1>5
    <1>7. SiftDown(h, i) = t[Size(h)].heap BY DEF SiftDown
    <1> HIDE DEF t
    <1>8. t[0] = a /\ \A n \in Nat : t[n + 1] = Sunk(t[n])
        <2>1. t[0] = a BY <1>6
        <2>2. \A n \in Nat : t[n + 1] = Sunk(t[n])
            <3> SUFFICES ASSUME NEW n \in Nat PROVE t[n + 1] = Sunk(t[n]) OBVIOUS
            <3>1. n + 1 \in Nat /\ n + 1 # 0 /\ (n + 1) - 1 = n OBVIOUS
            <3>2. t[n + 1] = Sunk(t[(n + 1) - 1]) BY <1>6, <3>1
            <3> QED BY <3>1, <3>2
        <2> QED BY <2>1, <2>2
    <1> DEFINE N == {n \in Nat : /\ t[n] \in S
                                 /\ Ordered(t[n].heap) \/ i + n <= t[n].at}
    <1>9. 0 \in N BY <1>0, <1>1, <1>8
    <1>10. \A n \in N : n + 1 \in N
        <2> SUFFICES ASSUME NEW n \in Nat, n \in N PROVE n + 1 \in N OBVIOUS
        <2>1. /\ t[n] \in S /\ t[n + 1] = Sunk(t[n]) /\ t[n + 1] \in S
              /\ Ordered(t[n].heap) \/ i + n <= t[n].at
            BY <1>2, <1>8
        <2>2. t[n].at \in Nat /\ t[n + 1].at \in Nat BY <2>1 DEF S
        <2>3. t[n].at < t[n + 1].at \/ (t[n + 1] = t[n] /\ Ordered(t[n].heap))
            BY <2>1, SunkIs DEF S
        <2>4. CASE Ordered(t[n].heap)
            <3> DEFINE w == t[n].heap  p == t[n].at  c == SmallestChild(w, p)
            <3>1. w \in Heaps /\ p \in Places(w) BY <2>1 DEF S, Sifting, Places
            <3>2. /\ c \in {p} \cup Children(w, p)
                  /\ p < c => Less(w, c, p)
                BY <3>1, SmallestChildIs
            <3>3. c \in Children(w, p) => c \in Places(w) /\ c > 0 /\ parentIndex(c) = p /\ p < c
                <4> SUFFICES ASSUME c \in Children(w, p)
                             PROVE  c \in Places(w) /\ c > 0 /\ parentIndex(c) = p /\ p < c
                    OBVIOUS
                <4>1. c \in Places(w) BY DEF Children, Places
                <4>2. c \in Nat /\ c > 0 /\ parentIndex(c) = p BY <3>1, <4>1, ChildrenAre, HeapsAre
                <4>3. parentIndex(c) < c BY <4>2, ParentIs
                <4> QED BY <4>1, <4>2, <4>3
            <3>4. c = p BY <2>4, <3>2, <3>3 DEF Ordered
            <3>5. t[n + 1] = t[n] BY <2>1, <3>4 DEF Sunk
            <3> QED BY <2>1, <2>4, <3>5
        <2>5. CASE ~Ordered(t[n].heap)
            <3>1. i + (n + 1) <= t[n + 1].at BY <1>0, <2>1, <2>2, <2>3, <2>5
            <3> QED BY <2>1, <3>1
        <2> QED BY <2>4, <2>5
    <1>11. Size(h) \in N
        <2> HIDE DEF N
        <2>1. N \subseteq Nat BY DEF N
        <2>2. N = Nat BY <1>9, <1>10, <2>1, Induction
        <2> QED BY <1>0, <2>2
    <1>12. t[Size(h)].at \in Nat /\ i < Size(h) /\ Sifting(t[Size(h)], h)
        BY <1>0, <1>11 DEF S, Places
    <1>13. t[Size(h)].at < Size(h)
        <2> DEFINE at == t[Size(h)].at
        <2>1. at \in Places(h) BY <1>12 DEF Sifting
        <2> HIDE DEF at
        <2>2. at < Size(h) BY <1>0, <2>1 DEF Places
        <2> QED BY <2>2 DEF at
    <1>14. Ordered(t[Size(h)].heap) BY <1>0, <1>11, <1>12, <1>13
    <1> QED BY <1>7, <1>12, <1>14 DEF Settled, Sifting

\* In order but for the entry at p: it may belong higher or lower.
LooseAt(h, p) ==
    /\ \A i \in Places(h) : i > 0 /\ i # p /\ parentIndex(i) # p => ~Less(h, i, parentIndex(i))
    /\ OrderedAbove(h, p)

LEMMA SiftRangeIs ==
    ASSUME NEW h \in Heaps, Indexed(h), NEW i \in Places(h), LooseAt(h, i)
    PROVE  Settled(SiftRange(h, i), h)
    <1>0. \A p \in Places(h) : p \in Nat /\ Item(h, p).at \in Int BY HeapsAre
    <1>1. CASE i > 0 /\ Less(h, i, parentIndex(i))
        <2>1. SiftRange(h, i) = SiftUp(h, i) BY <1>1 DEF SiftRange
        <2>2. \A k \in Places(h) : k > 0 /\ k # i => ~Less(h, k, parentIndex(k))
            <3> SUFFICES ASSUME NEW k \in Places(h), k > 0, k # i, parentIndex(k) = i
                         PROVE  ~Less(h, k, i)
                BY DEF LooseAt
            <3>1. ~Less(h, k, parentIndex(i)) BY <1>1 DEF LooseAt, OrderedAbove
            <3>2. parentIndex(i) \in Places(h)
                <4>1. Size(h) \in Nat /\ i \in Nat BY HeapsAre
                <4>2. parentIndex(i) \in Nat /\ parentIndex(i) < i BY <1>1, <4>1, ParentIs
                <4> QED BY <4>1, <4>2 DEF Places
            <3> QED BY <1>0, <1>1, <3>1, <3>2 DEF Less
        <2>3. RisesAt(h, i) BY <2>2 DEF RisesAt, LooseAt
        <2> QED BY <2>1, <2>3, SiftUpIs
    <1>2. CASE ~(i > 0 /\ Less(h, i, parentIndex(i)))
        <2>1. SiftRange(h, i) = SiftDown(h, i) BY <1>2 DEF SiftRange
        <2>2. SinksAt(h, i) BY <1>2 DEF SinksAt, LooseAt
        <2> QED BY <2>1, <2>2, SiftDownIs
    <1> QED BY <1>1, <1>2

LEMMA RootIsEarliest ==
    ASSUME NEW h \in Heaps, Ordered(h)
    PROVE  \A i \in Places(h) : 0 \in Places(h) /\ ~Less(h, i, 0)
    <1> DEFINE C == {i \in Places(h) : Less(h, i, 0)}
    <1>0. /\ Size(h) \in Nat /\ \A i \in Places(h) : i \in Nat /\ Item(h, i).at \in Int
          /\ \A i \in Places(h) : 0 \in Places(h)
        <2>1. Size(h) \in Nat /\ \A i \in Places(h) : i \in Nat /\ Item(h, i).at \in Int
            BY HeapsAre
        <2> QED BY <2>1 DEF Places
    <1> SUFFICES ASSUME C # {} PROVE FALSE BY <1>0
    <1>1. C \subseteq Nat BY <1>0
    <1>2. PICK i \in C : \A k \in C : i <= k BY <1>1, LeastNumber
    <1>3. i \in Places(h) /\ 0 \in Places(h) /\ i # 0 /\ i > 0 /\ Less(h, i, 0)
        BY <1>0, <1>2 DEF Less
    <1>4. parentIndex(i) \in Nat /\ parentIndex(i) < i BY <1>0, <1>3, ParentIs
    <1>5. parentIndex(i) \in Places(h) BY <1>0, <1>3, <1>4 DEF Places
    <1>6. ~Less(h, i, parentIndex(i)) BY <1>3 DEF Ordered
    <1>7. parentIndex(i) \in C BY <1>0, <1>3, <1>5, <1>6 DEF Less
    <1> QED BY <1>0, <1>2, <1>4, <1>7

\* eachDue skips what lies below an entry that is not due, and misses none.
LEMMA EachDueIs ==
    ASSUME NEW h \in Heaps, Ordered(h), NEW now \in Int
    PROVE  EachDue(h, now) = {i \in Places(h) : Item(h, i).at <= now}
    <1> DEFINE D(i) == Item(h, i).at <= now
               v == CHOOSE v : v = [i \in 0..Size(h) - 1 |->
                                       Item(h, i).at <= now /\ (i = 0 \/ v[parentIndex(i)])]
               w == [i \in 0..Size(h) - 1 |-> D(i)]
    <1>0. /\ Size(h) \in Nat /\ Places(h) = 0..Size(h) - 1
          /\ \A i \in Places(h) : i \in Nat /\ Item(h, i).at \in Int
        BY HeapsAre DEF Places
    <1>1. \A i \in Places(h) : i # 0 =>
            /\ parentIndex(i) \in Places(h) /\ parentIndex(i) < i
            /\ D(i) => D(parentIndex(i))
        <2> SUFFICES ASSUME NEW i \in Places(h), i # 0
                     PROVE  /\ parentIndex(i) \in Places(h) /\ parentIndex(i) < i
                            /\ D(i) => D(parentIndex(i))
            OBVIOUS
        <2>1. i \in Nat /\ i > 0 BY <1>0
        <2>2. parentIndex(i) \in Nat /\ parentIndex(i) < i BY <2>1, ParentIs
        <2>3. parentIndex(i) \in Places(h) BY <1>0, <2>1, <2>2
        <2>4. ~Less(h, i, parentIndex(i)) BY <2>1 DEF Ordered
        <2> QED BY <1>0, <2>2, <2>3, <2>4 DEF Less
    <1>2. \A i \in 0..Size(h) - 1 : w[i] = (D(i) /\ (i = 0 \/ w[parentIndex(i)]))
        <2> SUFFICES ASSUME NEW i \in Places(h) PROVE w[i] = (D(i) /\ (i = 0 \/ w[parentIndex(i)]))
            BY <1>0
        <2>1. w[i] = D(i) BY <1>0
        <2>2. CASE i = 0 BY <2>1, <2>2
        <2>3. CASE i # 0
            <3>1. w[parentIndex(i)] = D(parentIndex(i)) BY <1>0, <1>1, <2>3
            <3>2. D(i) => D(parentIndex(i)) BY <1>1, <2>3
            <3>3. D(i) = (D(i) /\ (i = 0 \/ D(parentIndex(i)))) BY <3>2
            <3> HIDE DEF w, D
            <3> QED BY <2>1, <3>1, <3>3
        <2> QED BY <2>2, <2>3
    <1>3. w = [i \in 0..Size(h) - 1 |-> Item(h, i).at <= now /\ (i = 0 \/ w[parentIndex(i)])]
        BY <1>2
    <1>4. v = [i \in 0..Size(h) - 1 |-> Item(h, i).at <= now /\ (i = 0 \/ v[parentIndex(i)])]
        <2> HIDE DEF w
        <2> QED BY <1>3
    <1>5. EachDue(h, now) = {i \in 0..Size(h) - 1 : v[i]} BY DEF EachDue
    <1> HIDE DEF v
    <1>6. \A i \in Places(h) : v[i] <=> (D(i) /\ (i = 0 \/ v[parentIndex(i)]))
        BY <1>0, <1>4
    <1> HIDE DEF D
    <1> DEFINE C == {i \in Places(h) : ~(v[i] <=> D(i))}
    <1>7. C = {}
        <2> SUFFICES ASSUME C # {} PROVE FALSE OBVIOUS
        <2>1. C \subseteq Nat BY <1>0
        <2>2. PICK m \in C : \A k \in C : m <= k BY <2>1, LeastNumber
        <2>3. m \in Places(h) /\ ~(v[m] <=> D(m)) BY <2>2
        <2>4. CASE m = 0 BY <1>6, <2>3, <2>4
        <2>5. CASE m # 0
            <3>1. parentIndex(m) \in Places(h) /\ parentIndex(m) < m BY <1>1, <2>3, <2>5
            <3>2. parentIndex(m) \notin C BY <1>0, <2>2, <2>3, <3>1
            <3> QED BY <1>1, <1>6, <2>3, <2>5, <3>1, <3>2
        <2> QED BY <2>4, <2>5
    <1>8. \A i \in Places(h) : v[i] <=> D(i) BY <1>7
    <1> QED BY <1>0, <1>5, <1>8 DEF D
-----------------------------------------------------------------------------
LEMMA DropLastIs ==
    ASSUME NEW h \in Heaps, Indexed(h), NEW z \in Places(h), z = Size(h) - 1
    PROVE  LET g == DropLast(h) IN
           /\ g \in Heaps /\ Indexed(g) /\ Size(g) = z
           /\ \A p \in Places(g) : p \in Places(h) /\ p # z /\ Item(g, p) = Item(h, p)
           /\ Entries(g) = Entries(h) \ {Item(h, z)}
    <1> DEFINE g == DropLast(h)
    <1>1. /\ h.items \in Seq(Entry) /\ Size(h) \in Nat /\ z \in Nat
          /\ h.indexMap \in [Id -> Nat \cup {Nothing}]
          /\ Item(h, z) \in Entry /\ Item(h, z).id \in Id
        BY HeapsAre
    <1>2. /\ g.items = SubSeq(h.items, 1, z)
          /\ g.indexMap = [h.indexMap EXCEPT ![Item(h, z).id] = Nothing]
          /\ g = [items |-> g.items, indexMap |-> g.indexMap]
        BY DEF DropLast
    <1> HIDE DEF g
    <1>3. /\ g.items \in Seq(Entry) /\ Len(g.items) = z
          /\ \A k \in 1..z : g.items[k] = h.items[k]
        BY <1>1, <1>2 DEF Size
    <1>4. g.indexMap \in [Id -> Nat \cup {Nothing}] BY <1>1, <1>2
    <1>5. g \in Heaps /\ Size(g) = z BY <1>2, <1>3, <1>4 DEF Heaps, Size
    <1>6. Places(g) = 0..z - 1 /\ Places(h) = 0..z BY <1>1, <1>5 DEF Places
    <1>7. \A p \in Places(g) : p \in Places(h) /\ p # z /\ Item(g, p) = Item(h, p)
        <2> SUFFICES ASSUME NEW p \in 0..z - 1
                     PROVE  p \in 0..z /\ p # z /\ Item(g, p) = Item(h, p)
            BY <1>6
        <2>1. p + 1 \in 1..z /\ p \in 0..z /\ p # z BY <1>1
        <2> QED BY <1>3, <2>1 DEF Item
    <1>8. \A p \in Places(h) : p # z => p \in Places(g) /\ Item(h, p).id # Item(h, z).id
        BY <1>1, <1>6 DEF Indexed
    <1>9. Indexed(g)
        <2>1. \A p \in Places(g) : g.indexMap[Item(g, p).id] = p
            <3> SUFFICES ASSUME NEW p \in Places(g) PROVE g.indexMap[Item(g, p).id] = p
                OBVIOUS
            <3>1. /\ p \in Places(h) /\ p # z /\ Item(g, p) = Item(h, p)
                  /\ Item(h, p).id \in Id /\ Item(h, p).id # Item(h, z).id
                BY <1>7, <1>8, HeapsAre
            <3>2. h.indexMap[Item(h, p).id] = p BY <3>1 DEF Indexed
            <3> QED BY <1>1, <1>2, <3>1, <3>2
        <2>2. \A x \in Id : g.indexMap[x] # Nothing =>
                g.indexMap[x] \in Places(g) /\ Item(g, g.indexMap[x]).id = x
            <3> SUFFICES ASSUME NEW x \in Id, g.indexMap[x] # Nothing
                         PROVE  g.indexMap[x] \in Places(g) /\ Item(g, g.indexMap[x]).id = x
                OBVIOUS
            <3>1. x # Item(h, z).id /\ g.indexMap[x] = h.indexMap[x] BY <1>1, <1>2
            <3>2. h.indexMap[x] \in Places(h) /\ Item(h, h.indexMap[x]).id = x
                BY <3>1 DEF Indexed
            <3>3. h.indexMap[x] # z BY <3>1, <3>2
            <3> QED BY <1>7, <1>8, <3>1, <3>2, <3>3
        <2> QED BY <2>1, <2>2 DEF Indexed
    <1>10. Entries(g) \subseteq Entries(h) \ {Item(h, z)}
        <2> SUFFICES ASSUME NEW e \in Entries(g) PROVE e \in Entries(h) /\ e # Item(h, z)
            OBVIOUS
        <2>1. PICK p \in Places(g) : e = Item(g, p) BY <1>5, HeapsAre
        <2>2. p \in Places(h) /\ p # z /\ e = Item(h, p) BY <1>7, <2>1
        <2> QED BY <1>8, <2>2, HeapsAre
    <1>11. Entries(h) \ {Item(h, z)} \subseteq Entries(g)
        <2> SUFFICES ASSUME NEW e \in Entries(h), e # Item(h, z) PROVE e \in Entries(g)
            OBVIOUS
        <2>1. PICK p \in Places(h) : e = Item(h, p) BY HeapsAre
        <2>2. p \in Places(g) /\ e = Item(g, p) BY <1>7, <1>8, <2>1
        <2> QED BY <1>5, <2>2, HeapsAre
    <1> QED BY <1>5, <1>7, <1>9, <1>10, <1>11 DEF g

\* What is taken out leaves the others, in order.
LEMMA RemoveAtIs ==
    ASSUME NEW h \in Heaps, Indexed(h), Ordered(h), NEW i \in Places(h)
    PROVE  LET g == RemoveAt(h, i) IN
           g \in Heaps /\ Indexed(g) /\ Ordered(g) /\ Entries(g) = Entries(h) \ {Item(h, i)}
    <1> DEFINE z == Size(h) - 1
    <1>1. /\ Size(h) \in Nat /\ i \in Nat /\ z \in Places(h) /\ z \in Nat /\ Places(h) = 0..z
          /\ \A p \in Places(h) : p \in Nat /\ Item(h, p).at \in Int
        BY HeapsAre DEF Places
    <1>2. CASE i = z
        <2> DEFINE g == DropLast(h)
        <2>1. RemoveAt(h, i) = g BY <1>2 DEF RemoveAt
        <2>2. /\ g \in Heaps /\ Indexed(g) /\ Size(g) = z
              /\ \A p \in Places(g) : p \in Places(h) /\ p # z /\ Item(g, p) = Item(h, p)
              /\ Entries(g) = Entries(h) \ {Item(h, z)}
            BY <1>1, DropLastIs
        <2> HIDE DEF g
        <2>3. Ordered(g)
            <3> SUFFICES ASSUME NEW k \in Places(g), k > 0 PROVE ~Less(g, k, parentIndex(k))
                BY DEF Ordered
            <3>1. k \in Nat /\ k \in Places(h) BY <1>1, <2>2
            <3>2. parentIndex(k) \in Nat /\ parentIndex(k) < k BY <3>1, ParentIs
            <3>3. parentIndex(k) \in Places(g) BY <2>2, <3>1, <3>2, <1>1 DEF Places
            <3> QED BY <2>2, <3>1, <3>3 DEF Less, Ordered
        <2> QED BY <1>2, <2>1, <2>2, <2>3
    <1>3. CASE i # z
        <2> DEFINE w == Swap(h, i, z)  g == DropLast(w)
        <2>1. RemoveAt(h, i) = SiftRange(g, i) BY <1>3 DEF RemoveAt
        <2>2. /\ w \in Heaps /\ Indexed(w) /\ Size(w) = Size(h) /\ Entries(w) = Entries(h)
              /\ Item(w, i) = Item(h, z) /\ Item(w, z) = Item(h, i)
              /\ \A p \in Places(h) : p # i /\ p # z => Item(w, p) = Item(h, p)
            BY <1>1, <1>3, SwapIs
        <2>3. Places(w) = Places(h) BY <2>2 DEF Places
        <2> HIDE DEF w
        <2>4. /\ g \in Heaps /\ Indexed(g) /\ Size(g) = z
              /\ \A p \in Places(g) : p \in Places(w) /\ p # z /\ Item(g, p) = Item(w, p)
              /\ Entries(g) = Entries(w) \ {Item(w, z)}
            BY <1>1, <2>2, <2>3, DropLastIs
        <2> HIDE DEF g
        <2>5. Places(g) = 0..z - 1 BY <2>4 DEF Places
        <2>6. i \in Places(g) BY <1>1, <1>3, <2>5
        <2>7. \A p \in Places(g) : p \in Places(h) /\ (p # i => Item(g, p) = Item(h, p))
            BY <2>2, <2>3, <2>4
        <2>8. \A p \in Places(g) : p > 0 =>
                parentIndex(p) \in Nat /\ parentIndex(p) < p /\ parentIndex(p) \in Places(g)
            <3> SUFFICES ASSUME NEW p \in Places(g), p > 0
                         PROVE  parentIndex(p) \in Nat /\ parentIndex(p) < p
                                /\ parentIndex(p) \in Places(g)
                OBVIOUS
            <3>1. p \in Nat BY <2>5, <1>1
            <3>2. parentIndex(p) \in Nat /\ parentIndex(p) < p BY <3>1, ParentIs
            <3> QED BY <1>1, <2>5, <3>1, <3>2
        <2>9. \A k \in Places(g) : k > 0 /\ k # i /\ parentIndex(k) # i => ~Less(g, k, parentIndex(k))
            BY <2>7, <2>8 DEF Less, Ordered
        <2>10. OrderedAbove(g, i)
            <3> SUFFICES ASSUME i > 0, NEW k \in Places(g), k > 0, parentIndex(k) = i
                         PROVE  ~Less(g, k, parentIndex(i))
                BY DEF OrderedAbove
            <3> DEFINE u == parentIndex(i)
            <3>1. u \in Places(g) /\ u # i /\ k # i BY <1>1, <2>6, <2>8
            <3>2. k \in Places(h) /\ u \in Places(h) /\ ~Less(h, k, i) /\ ~Less(h, i, u)
                BY <2>7, <3>1 DEF Ordered
            <3>3. Item(g, k) = Item(h, k) /\ Item(g, u) = Item(h, u) BY <2>7, <3>1
            <3> HIDE DEF u
            <3>4. ~Less(g, k, u) BY <1>1, <3>2, <3>3 DEF Less
            <3> QED BY <3>4 DEF u
        <2>11. Settled(SiftRange(g, i), g)
            BY <2>4, <2>6, <2>9, <2>10, SiftRangeIs DEF LooseAt
        <2> QED BY <2>1, <2>2, <2>4, <2>11 DEF Settled
    <1> QED BY <1>2, <1>3
-----------------------------------------------------------------------------
InOrder(h) == h \in Heaps /\ Indexed(h) /\ Ordered(h)

HeapInv == InOrder(heap)

LEMMA HeapIs ==
    /\ heap.items = items /\ heap.indexMap = indexMap /\ Size(heap) = Len(items)
    /\ \A i : Item(heap, i) = items[i + 1]
    /\ Entries(heap) = {items[k] : k \in 1..Len(items)}
    BY DEF heap, Size, Item, Entries

\* After a call the heap is what the call computed.
LEMMA BecomesIs ==
    ASSUME NEW h \in Heaps, NEW a, Becomes(h, a)
    PROVE  /\ heap' = h /\ answer' = a
           /\ {items'[k] : k \in 1..Len(items')} = Entries(h)
    <1>1. h = [items |-> h.items, indexMap |-> h.indexMap] BY DEF Heaps
    <1>2. items' = h.items /\ indexMap' = h.indexMap /\ answer' = a BY DEF Becomes
    <1>3. heap' = [items |-> items', indexMap |-> indexMap'] BY DEF heap
    <1> QED BY <1>1, <1>2, <1>3 DEF Entries

\* The index knows the IDs the queue holds.
LEMMA IndexIs ==
    ASSUME HeapInv, NEW i \in Id
    PROVE  /\ indexMap[i] = Nothing <=> i \notin Queue!Ids
           /\ indexMap[i] # Nothing =>
                /\ indexMap[i] \in Places(heap) /\ Item(heap, indexMap[i]).id = i
                /\ Item(heap, indexMap[i]) \in Entries(heap)
    <1>1. heap \in Heaps /\ Indexed(heap) BY DEF HeapInv, InOrder
    <1>2. /\ \A p \in Places(heap) : p \in Nat /\ Item(heap, p) \in Entries(heap)
          /\ \A e \in Entries(heap) : \E p \in Places(heap) : e = Item(heap, p)
        BY <1>1, HeapsAre
    <1>3. Queue!Ids = {e.id : e \in Entries(heap)} BY HeapIs DEF Queue!Ids
    <1>4. indexMap[i] # Nothing =>
                /\ indexMap[i] \in Places(heap) /\ Item(heap, indexMap[i]).id = i
                /\ Item(heap, indexMap[i]) \in Entries(heap)
        BY <1>1, <1>2, HeapIs DEF Indexed
    <1>5. ASSUME i \in Queue!Ids PROVE indexMap[i] # Nothing
        <2>1. PICK p \in Places(heap) : Item(heap, p).id = i BY <1>2, <1>3, <1>5
        <2>2. indexMap[i] = p BY <1>1, <2>1, HeapIs DEF Indexed
        <2> QED BY <1>2, <2>2, HeapAssumption
    <1> QED BY <1>3, <1>4, <1>5

LEMMA InitOk == Init => HeapInv /\ Queue!Init
    <1> SUFFICES ASSUME Init PROVE HeapInv /\ Queue!Init OBVIOUS
    <1>1. heap = [items |-> <<>>, indexMap |-> [i \in Id |-> Nothing]] BY DEF Init, heap
    <1>2. heap \in Heaps /\ Places(heap) = {} BY <1>1 DEF Heaps, Places, Size
    <1>3. Indexed(heap) BY <1>1, <1>2 DEF Indexed
    <1>4. Ordered(heap) BY <1>2 DEF Ordered
    <1>5. {items[k] : k \in 1..Len(items)} = {} BY DEF Init
    <1> QED BY <1>2, <1>3, <1>4, <1>5 DEF HeapInv, InOrder, Queue!Init, Init

LEMMA PushOk ==
    ASSUME HeapInv, NEW e \in Entry, PushItem(e)
    PROVE  HeapInv' /\ Queue!PushItem(e)
    <1> DEFINE n == Len(items)
               h == [items |-> Append(items, e), indexMap |-> [indexMap EXCEPT ![e.id] = n]]
               g == SiftUp(h, n)
    <1>1. /\ heap \in Heaps /\ Indexed(heap) /\ Ordered(heap) /\ items \in Seq(Entry)
          /\ indexMap \in [Id -> Nat \cup {Nothing}] /\ n \in Nat /\ e.id \in Id
          /\ Places(heap) = 0..n - 1
          /\ \A p \in Places(heap) : Item(heap, p).id \in Id
        BY HeapIs, HeapsAre DEF HeapInv, InOrder, Entry, Places
    <1>2. /\ \A k \in 1..Len(items) : items[k].id # e.id
          /\ Becomes(g, Nothing)
        BY DEF PushItem
    <1>3. /\ h.items \in Seq(Entry) /\ Len(h.items) = n + 1 /\ h.items[n + 1] = e
          /\ \A k \in 1..n : h.items[k] = items[k]
          /\ h.indexMap \in [Id -> Nat \cup {Nothing}]
          /\ h.indexMap = [indexMap EXCEPT ![e.id] = n]
        BY <1>1
    <1>4. h \in Heaps BY <1>3 DEF Heaps
    <1> HIDE DEF h, n
    <1>5. Places(h) = 0..n /\ Size(h) = n + 1 BY <1>1, <1>3 DEF Places, Size
    <1>6. \A p \in Places(heap) : /\ p \in Places(h) /\ p # n /\ Item(h, p) = Item(heap, p)
                                  /\ Item(h, p).id # e.id
        <2> SUFFICES ASSUME NEW p \in 0..n - 1
                     PROVE  p \in 0..n /\ p # n /\ Item(h, p) = Item(heap, p) /\ Item(h, p).id # e.id
            BY <1>1, <1>5
        <2>1. p + 1 \in 1..n /\ p \in 0..n /\ p # n BY <1>1
        <2>2. h.items[p + 1] = items[p + 1] /\ items[p + 1].id # e.id
            BY <1>2, <1>3, <2>1 DEF n
        <2> QED BY <2>1, <2>2, HeapIs DEF Item
    <1>7. Item(h, n) = e /\ n \in Places(h) BY <1>1, <1>3, <1>5 DEF Item
    <1>8. \A p \in Places(h) : p = n \/ p \in Places(heap) BY <1>1, <1>5
    <1>9. Indexed(h)
        <2>1. \A p \in Places(h) : h.indexMap[Item(h, p).id] = p
            <3> SUFFICES ASSUME NEW p \in Places(h) PROVE h.indexMap[Item(h, p).id] = p OBVIOUS
            <3>1. CASE p = n BY <1>1, <1>3, <1>7, <3>1
            <3>2. CASE p \in Places(heap)
                <4>1. indexMap[Item(heap, p).id] = p BY <1>1, <3>2, HeapIs DEF Indexed
                <4> QED BY <1>1, <1>3, <1>6, <3>2, <4>1
            <3> QED BY <1>8, <3>1, <3>2
        <2>2. \A x \in Id : h.indexMap[x] # Nothing =>
                h.indexMap[x] \in Places(h) /\ Item(h, h.indexMap[x]).id = x
            <3> SUFFICES ASSUME NEW x \in Id, h.indexMap[x] # Nothing
                         PROVE  h.indexMap[x] \in Places(h) /\ Item(h, h.indexMap[x]).id = x
                OBVIOUS
            <3>1. CASE x = e.id BY <1>1, <1>3, <1>7, <3>1
            <3>2. CASE x # e.id
                <4>1. h.indexMap[x] = indexMap[x] BY <1>1, <1>3, <3>2
                <4>2. indexMap[x] \in Places(heap) /\ Item(heap, indexMap[x]).id = x
                    BY <1>1, <4>1, HeapIs DEF Indexed
                <4> QED BY <1>6, <4>1, <4>2
            <3> QED BY <3>1, <3>2
        <2> QED BY <2>1, <2>2 DEF Indexed
    <1>10. RisesAt(h, n)
        <2>1. \A k \in Places(h) : k > 0 =>
                k \in Nat /\ parentIndex(k) \in Places(heap) /\ parentIndex(k) # n
            <3> SUFFICES ASSUME NEW k \in 0..n, k > 0
                         PROVE  k \in Nat /\ parentIndex(k) \in 0..n - 1 /\ parentIndex(k) # n
                BY <1>1, <1>5
            <3>1. k \in Nat BY <1>1
            <3>2. parentIndex(k) \in Nat /\ parentIndex(k) < k BY <3>1, ParentIs
            <3> QED BY <1>1, <3>1, <3>2
        <2>2. \A k \in Places(h) : k > 0 /\ k # n => ~Less(h, k, parentIndex(k))
            BY <1>1, <1>6, <1>8, <2>1 DEF Less, Ordered
        <2> QED BY <2>1, <2>2 DEF RisesAt, OrderedAbove
    <1>11. Settled(g, h) BY <1>4, <1>7, <1>9, <1>10, SiftUpIs
    <1>12. Entries(h) = Entries(heap) \cup {e}
        <2>1. Entries(h) \subseteq Entries(heap) \cup {e}
            BY <1>4, <1>1, <1>6, <1>7, <1>8, HeapsAre
        <2>2. Entries(heap) \subseteq Entries(h)
            BY <1>4, <1>1, <1>6, HeapsAre
        <2>3. e \in Entries(h) BY <1>4, <1>7, HeapsAre
        <2> QED BY <2>1, <2>2, <2>3
    <1> HIDE DEF g
    <1>13. HeapInv' BY <1>2, <1>11, BecomesIs DEF Settled, HeapInv, InOrder
    <1>14. Queue!PushItem(e)
        <2>1. e.id \notin Queue!Ids
            BY <1>2 DEF Queue!Ids
        <2> QED BY <1>2, <1>11, <1>12, <2>1, BecomesIs, HeapIs DEF Settled, Queue!PushItem
    <1> QED BY <1>13, <1>14

\* Taking out the entry at place i.
LEMMA TakeOutOk ==
    ASSUME HeapInv, NEW i \in Places(heap), Becomes(RemoveAt(heap, i), Item(heap, i))
    PROVE  HeapInv' /\ Item(heap, i) \in Entries(heap) /\ Queue!TakeOut(Item(heap, i))
    <1> DEFINE g == RemoveAt(heap, i)
    <1>1. heap \in Heaps /\ Indexed(heap) /\ Ordered(heap) BY DEF HeapInv, InOrder
    <1>2. g \in Heaps /\ Indexed(g) /\ Ordered(g) /\ Entries(g) = Entries(heap) \ {Item(heap, i)}
        BY <1>1, RemoveAtIs
    <1> HIDE DEF g
    <1>3. heap' = g /\ answer' = Item(heap, i) /\ {items'[k] : k \in 1..Len(items')} = Entries(g)
        BY <1>2, BecomesIs DEF g
    <1>4. HeapInv' BY <1>2, <1>3 DEF HeapInv, InOrder
    <1> QED BY <1>1, <1>2, <1>3, <1>4, HeapIs, HeapsAre DEF Queue!TakeOut

\* A call that only answers.
LEMMA AnswersOk ==
    ASSUME HeapInv, NEW a, Becomes(heap, a)
    PROVE  HeapInv' /\ Queue!Answers(a)
    <1>1. heap \in Heaps BY DEF HeapInv, InOrder
    <1>2. heap' = heap /\ answer' = a /\ {items'[k] : k \in 1..Len(items')} = Entries(heap)
        BY <1>1, BecomesIs
    <1> QED BY <1>2, HeapIs DEF HeapInv, InOrder, Queue!Answers

LEMMA GetOk ==
    ASSUME HeapInv, NEW i \in Id, Get(i)
    PROVE  HeapInv' /\ Queue!Get(i)
    <1>1. CASE indexMap[i] = Nothing
        <2>1. Becomes(heap, Nothing) BY <1>1 DEF Get
        <2> QED BY <1>1, <2>1, AnswersOk, IndexIs DEF Queue!Get
    <1>2. CASE indexMap[i] # Nothing
        <2>1. Becomes(heap, Item(heap, indexMap[i])) BY <1>2 DEF Get
        <2>2. HeapInv' /\ Queue!Answers(Item(heap, indexMap[i])) BY <2>1, AnswersOk
        <2>3. Item(heap, indexMap[i]) \in Entries(heap) /\ Item(heap, indexMap[i]).id = i
            BY <1>2, IndexIs
        <2> QED BY <2>2, <2>3, HeapIs DEF Queue!Get
    <1> QED BY <1>1, <1>2

LEMMA RemoveOk ==
    ASSUME HeapInv, NEW i \in Id, Remove(i)
    PROVE  HeapInv' /\ Queue!Remove(i)
    <1>1. CASE indexMap[i] = Nothing
        <2>1. Becomes(heap, Nothing) BY <1>1 DEF Remove
        <2> QED BY <1>1, <2>1, AnswersOk, IndexIs DEF Queue!Remove
    <1>2. CASE indexMap[i] # Nothing
        <2>2. PICK p \in Places(heap) : p = indexMap[i] /\ Item(heap, p).id = i
            BY <1>2, IndexIs
        <2>1. Becomes(RemoveAt(heap, p), Item(heap, p)) BY <1>2, <2>2 DEF Remove
        <2>3. HeapInv' /\ Item(heap, p) \in Entries(heap) /\ Queue!TakeOut(Item(heap, p))
            BY <2>1, <2>2, TakeOutOk DEF Becomes, Queue!TakeOut
        <2> QED BY <2>2, <2>3, HeapIs DEF Queue!Remove, Queue!TakeOut
    <1> QED BY <1>1, <1>2

LEMMA UpdateOk ==
    ASSUME HeapInv, NEW e \in Entry, Update(e)
    PROVE  HeapInv' /\ Queue!Update(e)
    <1>0. e.id \in Id BY DEF Entry
    <1>1. CASE indexMap[e.id] = Nothing
        <2>1. Becomes(heap, Nothing) BY <1>1 DEF Update
        <2> QED BY <1>0, <1>1, <2>1, AnswersOk, IndexIs DEF Queue!Update
    <1>2. CASE indexMap[e.id] # Nothing
        <2> DEFINE p == indexMap[e.id]
                   f == Item(heap, p)
                   h == [heap EXCEPT !.items[p + 1] = e]
                   g == SiftRange(h, p)
        <2>1. Becomes(g, Yes) BY <1>2 DEF Update
        <2>2. p \in Places(heap) /\ f.id = e.id /\ f \in Entries(heap)
            BY <1>0, <1>2, IndexIs
        <2>3. /\ heap \in Heaps /\ Indexed(heap) /\ Ordered(heap) /\ items \in Seq(Entry)
              /\ indexMap \in [Id -> Nat \cup {Nothing}] /\ Len(items) \in Nat
              /\ p \in Nat /\ p + 1 \in 1..Len(items)
              /\ Places(heap) = 0..Len(items) - 1
            BY <2>2, HeapIs, HeapsAre DEF HeapInv, InOrder, Places
        <2>4. /\ h.items = [items EXCEPT ![p + 1] = e] /\ h.indexMap = indexMap
              /\ h = [items |-> h.items, indexMap |-> h.indexMap]
            BY DEF heap
        <2> HIDE DEF h, p
        <2>5. /\ h.items \in Seq(Entry) /\ Len(h.items) = Len(items) /\ h.items[p + 1] = e
              /\ \A k \in 1..Len(items) : k # p + 1 => h.items[k] = items[k]
            BY <2>3, <2>4
        <2>6. h \in Heaps /\ Places(h) = Places(heap) /\ Size(h) = Len(items)
            BY <2>3, <2>4, <2>5, HeapIs DEF Heaps, Places, Size
        <2>7. /\ Item(h, p) = e
              /\ \A k \in Places(heap) : k # p => Item(h, k) = Item(heap, k)
            <3>1. ASSUME NEW k \in 0..Len(items) - 1, k # p
                  PROVE  Item(h, k) = Item(heap, k)
                <4>1. k + 1 \in 1..Len(items) /\ k + 1 # p + 1 BY <2>3, <3>1
                <4> QED BY <2>5, <4>1, HeapIs DEF Item
            <3>2. Item(h, p) = e BY <2>5 DEF Item
            <3> QED BY <2>3, <3>1, <3>2
        <2>8. \A k \in Places(heap) : Item(h, k).id = Item(heap, k).id BY <2>2, <2>7
        <2>9. Indexed(h)
            <3>1. h.indexMap = heap.indexMap BY <2>4, HeapIs
            <3> QED BY <2>3, <2>6, <2>8, <3>1 DEF Indexed
        <2>10. LooseAt(h, p)
            <3>1. \A k \in Places(heap) : k > 0 =>
                    k \in Nat /\ parentIndex(k) \in Places(heap) /\ parentIndex(k) # k
                <4> SUFFICES ASSUME NEW k \in 0..Len(items) - 1, k > 0
                             PROVE  k \in Nat /\ parentIndex(k) \in 0..Len(items) - 1 /\ parentIndex(k) # k
                    BY <2>3
                <4>1. k \in Nat BY <2>3
                <4>2. parentIndex(k) \in Nat /\ parentIndex(k) < k BY <4>1, ParentIs
                <4> QED BY <2>3, <4>1, <4>2
            <3>2. \A k \in Places(h) : k > 0 /\ k # p /\ parentIndex(k) # p => ~Less(h, k, parentIndex(k))
                BY <2>3, <2>6, <2>7, <3>1 DEF Less, Ordered
            <3>3. OrderedAbove(h, p)
                <4> SUFFICES ASSUME p > 0, NEW k \in Places(heap), k > 0, parentIndex(k) = p
                             PROVE  ~Less(h, k, parentIndex(p))
                    BY <2>6 DEF OrderedAbove
                <4>1. ~Less(heap, k, p) /\ ~Less(heap, p, parentIndex(p)) BY <2>2, <2>3 DEF Ordered
                <4>2. /\ k # p /\ parentIndex(p) # p /\ parentIndex(p) \in Places(heap)
                    BY <2>2, <3>1
                <4>3. /\ Item(heap, k).at \in Int /\ Item(heap, p).at \in Int
                      /\ Item(heap, parentIndex(p)).at \in Int
                    BY <2>2, <2>3, <4>2, HeapsAre
                <4> QED BY <2>7, <4>1, <4>2, <4>3 DEF Less
            <3> QED BY <3>2, <3>3 DEF LooseAt
        <2>11. Settled(g, h) BY <2>2, <2>6, <2>9, <2>10, SiftRangeIs
        <2>12. Entries(h) = (Entries(heap) \ {f}) \cup {e}
            <3>1. \A k \in Places(heap) : k # p => Item(heap, k) # f
                BY <2>2, <2>3 DEF Indexed
            <3>2. Entries(h) \subseteq (Entries(heap) \ {f}) \cup {e}
                <4> SUFFICES ASSUME NEW x \in Entries(h)
                             PROVE  x \in (Entries(heap) \ {f}) \cup {e}
                    OBVIOUS
                <4>1. PICK k \in Places(heap) : x = Item(h, k) BY <2>6, HeapsAre
                <4>2. CASE k = p BY <2>7, <4>1, <4>2
                <4>3. CASE k # p BY <2>3, <2>7, <3>1, <4>1, <4>3, HeapsAre
                <4> QED BY <4>2, <4>3
            <3>3. (Entries(heap) \ {f}) \cup {e} \subseteq Entries(h)
                <4>1. e \in Entries(h) BY <2>2, <2>6, <2>7, HeapsAre
                <4>2. ASSUME NEW x \in Entries(heap), x # f PROVE x \in Entries(h)
                    <5>1. PICK k \in Places(heap) : x = Item(heap, k) BY <2>3, HeapsAre
                    <5>2. k # p BY <4>2, <5>1
                    <5>3. x = Item(h, k) /\ k \in Places(h) BY <2>6, <2>7, <5>1, <5>2
                    <5> QED BY <2>6, <5>3, HeapsAre
                <4> QED BY <4>1, <4>2
            <3> QED BY <3>2, <3>3
        <2> HIDE DEF g, f
        <2>13. /\ heap' = g /\ answer' = Yes
               /\ {items'[k] : k \in 1..Len(items')} = Entries(g)
            BY <2>1, <2>11, BecomesIs DEF Settled
        <2>14. HeapInv' BY <2>11, <2>13 DEF Settled, HeapInv, InOrder
        <2>15. Queue!Update(e)
            BY <2>2, <2>11, <2>12, <2>13, HeapIs DEF Settled, Queue!Update
        <2> QED BY <2>14, <2>15
    <1> QED BY <1>1, <1>2

\* The entries eachDue finds are the queue's due ones.
LEMMA DueIs ==
    ASSUME HeapInv, NEW now \in Time
    PROVE  /\ EachDue(heap, now) = {i \in Places(heap) : Item(heap, i).at <= now}
           /\ \A i \in EachDue(heap, now) : Item(heap, i) \in Queue!Due(now)
           /\ \A e \in Queue!Due(now) : \E i \in EachDue(heap, now) : e = Item(heap, i)
    <1>1. heap \in Heaps /\ Ordered(heap) /\ now \in Int BY HeapAssumption DEF HeapInv, InOrder
    <1>2. EachDue(heap, now) = {i \in Places(heap) : Item(heap, i).at <= now} BY <1>1, EachDueIs
    <1>3. Queue!Due(now) = {e \in Entries(heap) : e.at <= now} BY HeapIs DEF Queue!Due
    <1> QED BY <1>1, <1>2, <1>3, HeapsAre

LEMMA HasDueOk ==
    ASSUME HeapInv, NEW now \in Time, HasDue(now)
    PROVE  HeapInv' /\ Queue!HasDue(now)
    <1>1. EachDue(heap, now) # {} <=> Queue!Due(now) # {} BY DueIs
    <1>2. Becomes(heap, IF Queue!Due(now) # {} THEN Yes ELSE Nothing) BY <1>1 DEF HasDue
    <1> QED BY <1>2, AnswersOk DEF Queue!HasDue

LEMMA PeekOk ==
    ASSUME HeapInv, Peek
    PROVE  HeapInv' /\ Queue!Peek
    <1>1. heap \in Heaps /\ Ordered(heap) BY DEF HeapInv, InOrder
    <1>2. CASE items = <<>>
        <2>1. Becomes(heap, Nothing) BY <1>2 DEF Peek
        <2>2. {items[k] : k \in 1..Len(items)} = {} BY <1>2
        <2> QED BY <2>1, <2>2, AnswersOk DEF Queue!Peek
    <1>3. CASE items # <<>>
        <2>1. Becomes(heap, items[1]) BY <1>3 DEF Peek
        <2>2. 0 \in Places(heap) BY <1>1, <1>3, HeapIs, HeapsAre DEF Places
        <2>3. items[1] = Item(heap, 0) BY HeapIs
        <2>4. items[1] \in Queue!Earliest(Entries(heap))
            <3> SUFFICES ASSUME NEW e \in Entries(heap) PROVE items[1].at <= e.at
                BY <1>1, <2>2, <2>3, HeapsAre DEF Queue!Earliest
            <3>1. PICK i \in Places(heap) : e = Item(heap, i) BY <1>1, HeapsAre
            <3>2. ~Less(heap, i, 0) BY <1>1, RootIsEarliest
            <3> QED BY <1>1, <2>2, <2>3, <3>1, <3>2, HeapsAre DEF Less
        <2>5. HeapInv' /\ Queue!Answers(items[1]) BY <2>1, AnswersOk
        <2> QED BY <2>4, <2>5, HeapIs DEF Queue!Peek
    <1> QED BY <1>2, <1>3

LEMMA PopOk ==
    ASSUME HeapInv, NEW now \in Time, NEW allowed \in Wanted, PopIfDueWhere(now, allowed)
    PROVE  HeapInv' /\ Queue!PopIfDueWhere(now, allowed)
    <1> DEFINE wanted == {i \in EachDue(heap, now) : Item(heap, i).id \in allowed}
               ready == {e \in Queue!Due(now) : e.id \in allowed}
    <1>1. heap \in Heaps /\ Ordered(heap) /\ now \in Int BY HeapAssumption DEF HeapInv, InOrder
    <1>2. /\ wanted \subseteq Places(heap)
          /\ \A i \in wanted : Item(heap, i) \in ready
          /\ \A e \in ready : \E i \in wanted : e = Item(heap, i)
        BY DueIs
    <1>3. Best(now, allowed) = {i \in wanted : \A k \in wanted : ~Less(heap, k, i)} BY DEF Best
    <1>4. \A i \in Places(heap) : Item(heap, i).at \in Int BY <1>1, HeapsAre
    <1>5. Queue!PopIfDueWhere(now, allowed) <=>
            (ready = {} /\ Queue!Answers(Nothing)) \/ \E e \in Queue!Earliest(ready) : Queue!TakeOut(e)
        BY DEF Queue!PopIfDueWhere
    <1> HIDE DEF wanted, ready
    <1>6. \A i \in Best(now, allowed) : Item(heap, i) \in Queue!Earliest(ready)
        <2> SUFFICES ASSUME NEW i \in wanted, \A k \in wanted : ~Less(heap, k, i), NEW e \in ready
                     PROVE  Item(heap, i).at <= e.at
            BY <1>2, <1>3 DEF Queue!Earliest
        <2>1. PICK k \in wanted : e = Item(heap, k) BY <1>2
        <2> QED BY <1>2, <1>4, <2>1 DEF Less
    <1>7. ASSUME NEW i \in Best(now, allowed), Becomes(RemoveAt(heap, i), Item(heap, i))
          PROVE  HeapInv' /\ Queue!PopIfDueWhere(now, allowed)
        <2>1. i \in Places(heap) BY <1>2, <1>3
        <2>2. HeapInv' /\ Queue!TakeOut(Item(heap, i)) BY <1>7, <2>1, TakeOutOk
        <2>3. Item(heap, i) \in Queue!Earliest(ready) BY <1>6
        <2>4. \E e \in Queue!Earliest(ready) : Queue!TakeOut(e)
            BY <2>2, <2>3 DEF Queue!TakeOut
        <2> QED BY <1>5, <2>2, <2>4
    <1>8. CASE RootDue(now) /\ items[1].id \in allowed /\ Becomes(RemoveAt(heap, 0), items[1])
        <2>1. items # <<>> /\ items[1].at <= now BY <1>8 DEF RootDue
        <2>2. 0 \in Places(heap) BY <1>1, <2>1, HeapIs, HeapsAre DEF Places
        <2>3. items[1] = Item(heap, 0) BY HeapIs
        <2>4. 0 \in wanted BY <1>8, <2>1, <2>2, <2>3, DueIs DEF wanted
        <2>5. 0 \in Best(now, allowed) BY <1>1, <1>2, <1>3, <2>4, RootIsEarliest
        <2> QED BY <1>7, <1>8, <2>3, <2>5
    <1>9. CASE \E i \in Best(now, allowed) : Becomes(RemoveAt(heap, i), Item(heap, i))
        BY <1>7, <1>9
    <1>10. CASE (~RootDue(now) \/ Best(now, allowed) = {}) /\ Becomes(heap, Nothing)
        <2>1. HeapInv' /\ Queue!Answers(Nothing) BY <1>10, AnswersOk
        <2>2. CASE ~RootDue(now)
            <3>1. wanted = {}
                <4> SUFFICES ASSUME NEW i \in wanted PROVE FALSE OBVIOUS
                <4>1. i \in Places(heap) /\ Item(heap, i).at <= now BY DueIs DEF wanted
                <4>2. 0 \in Places(heap) /\ ~Less(heap, i, 0) BY <1>1, <4>1, RootIsEarliest
                <4>3. Item(heap, 0).at <= now BY <1>1, <1>4, <4>1, <4>2 DEF Less
                <4>4. items # <<>> BY <1>1, <4>2, HeapIs, HeapsAre DEF Places
                <4> QED BY <2>2, <4>3, <4>4, HeapIs DEF RootDue
            <3> QED BY <1>2, <1>5, <2>1, <3>1
        <2>3. CASE Best(now, allowed) = {}
            <3>1. wanted = {}
                <4> SUFFICES ASSUME wanted # {} PROVE FALSE OBVIOUS
                <4>1. PICK c \in wanted : \A d \in wanted : Item(heap, c).at <= Item(heap, d).at
                    BY <1>1, <1>2, EarliestPlace
                <4>2. c \in Best(now, allowed) BY <1>2, <1>3, <1>4, <4>1 DEF Less
                <4> QED BY <2>3, <4>2
            <3> QED BY <1>2, <1>5, <2>1, <3>1
        <2> QED BY <1>10, <2>2, <2>3
    <1> QED BY <1>8, <1>9, <1>10 DEF PopIfDueWhere
-----------------------------------------------------------------------------
LEMMA StepOk ==
    ASSUME HeapInv, [Next]_vars
    PROVE  HeapInv'
    <1>1. CASE UNCHANGED vars
        <2>1. heap' = heap BY <1>1 DEF vars, heap
        <2> QED BY <2>1 DEF HeapInv, InOrder
    <1>2. CASE Next
        BY <1>2, PushOk, UpdateOk, HasDueOk, PopOk, PeekOk, GetOk, RemoveOk DEF Next
    <1> QED BY <1>1, <1>2

\* In every state the items form a heap of distinct jobs, ordered by their times,
\* and the index says where each job is (siftUp, siftDown and swap of heap.go).
THEOREM HeapHolds == Spec => []HeapInv
    <1>1. Init => HeapInv BY InitOk
    <1>2. HeapInv /\ [Next]_vars => HeapInv' BY StepOk
    <1> QED BY <1>1, <1>2, PTL DEF Spec

\* After any calls no entry comes before its parent, and the index says where
\* every entry is and knows no other: a removal by ID never takes another job.
THEOREM HeapIsWellFormed == Spec => []WellFormed
    <1>1. HeapInv => WellFormed
        <2> SUFFICES ASSUME HeapInv PROVE WellFormed OBVIOUS
        <2>1. heap \in Heaps /\ Indexed(heap) /\ Ordered(heap) BY DEF HeapInv, InOrder
        <2>2. Len(items) \in Nat /\ Places(heap) = 0..Len(items) - 1
            BY <2>1, HeapIs, HeapsAre DEF Places
        <2>3. \A i \in 1..Len(items) - 1 : ~Less(heap, i, parentIndex(i))
            BY <2>1, <2>2 DEF Ordered
        <2>4. ASSUME NEW i \in Id
              PROVE  LET places == {p \in 0..Len(items) - 1 : Item(heap, p).id = i} IN
                     IF indexMap[i] = Nothing THEN places = {} ELSE places = {indexMap[i]}
            <3> DEFINE places == {p \in Places(heap) : Item(heap, p).id = i}
            <3>1. \A p \in places : indexMap[i] = p /\ p \in Nat
                BY <2>1, HeapIs, HeapsAre DEF Indexed
            <3>2. CASE indexMap[i] = Nothing
                BY <2>2, <3>1, <3>2, HeapAssumption
            <3>3. CASE indexMap[i] # Nothing
                BY <2>1, <2>2, <3>1, <3>3, HeapIs DEF Indexed
            <3> QED BY <3>2, <3>3
        <2> QED BY <2>3, <2>4 DEF WellFormed
    <1> QED BY <1>1, HeapHolds, PTL

\* Whatever the shape of the array, each call does and returns what DueQueue
\* says of it: the earliest due entry that is wanted, wherever it lies.
THEOREM HeapIsAQueue == Spec => ImplementsDueQueue
    <1> DEFINE Calls ==
          /\ \A e \in Entry : /\ PushItem(e) => Queue!PushItem(e)
                              /\ Update(e) => Queue!Update(e)
          /\ \A now \in Time :
                /\ HasDue(now) => Queue!HasDue(now)
                /\ \A allowed \in Wanted :
                      PopIfDueWhere(now, allowed) => Queue!PopIfDueWhere(now, allowed)
          /\ Peek => Queue!Peek
          /\ \A i \in Id : /\ Get(i) => Queue!Get(i)
                           /\ Remove(i) => Queue!Remove(i)
    <1>1. HeapInv => Calls BY PushOk, UpdateOk, HasDueOk, PopOk, PeekOk, GetOk, RemoveOk
    <1>2. Init => Queue!Init BY InitOk
    <1>3. ImplementsDueQueue <=> Queue!Init /\ [][Calls]_vars BY DEF ImplementsDueQueue
    <1> HIDE DEF Calls
    <1>4. HeapInv => [Calls]_vars BY <1>1
    <1> QED BY <1>2, <1>3, <1>4, HeapHolds, PTL DEF Spec

\* The heap of heap.go is a queue that gives out the earliest job first: every
\* behaviour of it is one of DueQueue.
THEOREM HeapRefinesDueQueue == Spec => Queue!Spec
    <1>1. Init => Queue!Init BY InitOk
    <1>2. HeapInv /\ [Next]_vars => [Queue!Next]_(Queue!vars)
        <2> SUFFICES ASSUME HeapInv, [Next]_vars PROVE [Queue!Next]_(Queue!vars) OBVIOUS
        <2>1. CASE UNCHANGED vars BY <2>1 DEF vars, Queue!vars
        <2>2. CASE Next
            <3>1. CASE \E e \in Entry : PushItem(e) \/ Update(e)
                BY <3>1, PushOk, UpdateOk DEF Queue!Next, Entry, Queue!Entry
            <3>2. CASE \E now \in Time : HasDue(now) \/ \E allowed \in Wanted : PopIfDueWhere(now, allowed)
                BY <3>2, HasDueOk, PopOk DEF Queue!Next
            <3>3. CASE Peek BY <3>3, PeekOk DEF Queue!Next
            <3>4. CASE \E i \in Id : Get(i) \/ Remove(i)
                BY <3>4, GetOk, RemoveOk DEF Queue!Next
            <3> QED BY <2>2, <3>1, <3>2, <3>3, <3>4 DEF Next
        <2> QED BY <2>1, <2>2
    <1> QED BY <1>1, <1>2, HeapHolds, PTL DEF Spec, Queue!Spec
=============================================================================

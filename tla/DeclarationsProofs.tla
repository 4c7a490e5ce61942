--------------------------- MODULE DeclarationsProofs ---------------------------
(***************************************************************************)
(* What putSymbol keeps, for every set of identifiers, hash function and   *)
(* number of buckets: the ring of nodes, and each symbol once in its own   *)
(* bucket; and which symbol of a bucket getSymbol chooses.  From there,    *)
(* proofs about the declarations of a program of any length, with any      *)
(* number of levels and code sets.                                         *)
(***************************************************************************)
EXTENDS Declarations, Recursion, TLAPS

-----------------------------------------------------------------------------
(* The table.                                                              *)

\* putSymbol as its two cases of a symbol that is stored: one for a bucket
\* that has no node, one for a bucket that has.
Stores(s) == ~Refused(s) /\ putSymbol(s)

LEMMA TableInitType == TableInit => TableTypeOK /\ RingIntact /\ StoredOnce
<1> SUFFICES ASSUME TableInit PROVE TableTypeOK /\ RingIntact /\ StoredOnce OBVIOUS
<1>1. NumBuckets \in Nat BY TableAssumption
<1>2. TableTypeOK
  <2>1. Buckets \in [Bucket -> Seq(Symbol)] BY DEF TableInit
  <2>2. order \in Seq(Bucket) /\ numsTable \in 0 .. NumBuckets /\ totalNodes \in Nat
    BY <1>1 DEF TableInit
  <2> QED BY <2>1, <2>2 DEF TableTypeOK, TableInit
<1>3. Len(order) = 0 /\ \A h \in Bucket : Len(Buckets[h]) = 0 /\ Buckets[h] = << >>
  BY DEF TableInit
<1>4. RingIntact BY <1>3 DEF RingIntact, OrderIsUsed, RingLinked, TableInit
<1>5. StoredOnce BY <1>3 DEF StoredOnce
<1> QED BY <1>2, <1>4, <1>5

\* The bucket of a symbol is one of the table's.
LEMMA HashType == ASSUME NEW s \in Symbol PROVE Hash[s.name] \in Bucket
  BY TableAssumption DEF Symbol

LEMMA AppendType == ASSUME NEW S, NEW q \in Seq(S), NEW e \in S
                    PROVE  Append(q, e) \in Seq(S) /\ Append(q, e) # << >>
<1>1. Append(q, e) \in Seq(S) OBVIOUS
<1>2. Len(Append(q, e)) = Len(q) + 1 /\ Len(q) \in Nat /\ Len(<< >>) = 0 OBVIOUS
<1>3. Len(Append(q, e)) # Len(<< >>) BY <1>2
<1> QED BY <1>1, <1>3

\* Storing a symbol appends it to the bucket of its name and touches no other.
LEMMA StoresInBucket ==
  ASSUME TableTypeOK, NEW s \in Symbol, Stores(s)
  PROVE  LET h == Hash[s.name]
         IN  /\ Buckets' \in [Bucket -> Seq(Symbol)]
             /\ Buckets'[h] = Append(Buckets[h], s) /\ Buckets'[h] # << >>
             /\ \A g \in Bucket : g # h => Buckets'[g] = Buckets[g]
             /\ totalNodes' \in Nat /\ numsTable < NumBuckets
<1> DEFINE h == Hash[s.name]
<1>1. h \in Bucket BY HashType
<1>2. Buckets' = [Buckets EXCEPT ![h] = Append(Buckets[h], s)]
      /\ totalNodes' = totalNodes + Len(Buckets[h]) + 1
  BY DEF Stores, putSymbol
<1>3. Buckets[h] \in Seq(Symbol) /\ Append(Buckets[h], s) \in Seq(Symbol)
      /\ Append(Buckets[h], s) # << >>
  <2>1. Buckets[h] \in Seq(Symbol) BY <1>1 DEF TableTypeOK
  <2> QED BY <2>1, AppendType
<1>4. numsTable < NumBuckets BY TableAssumption DEF Stores, Refused, TableTypeOK
<1> HIDE DEF h
<1>5. Buckets' \in [Bucket -> Seq(Symbol)] BY <1>1, <1>2, <1>3 DEF TableTypeOK
<1>6. Buckets'[h] = Append(Buckets[h], s) BY <1>1, <1>2 DEF TableTypeOK
<1>7. \A g \in Bucket : g # h => Buckets'[g] = Buckets[g] BY <1>2 DEF TableTypeOK
<1>8. totalNodes' \in Nat BY <1>2, <1>3 DEF TableTypeOK
<1> QED BY <1>3, <1>4, <1>5, <1>6, <1>7, <1>8 DEF h

\* A new node closes the ring between tail and head.
LEMMA AddNodeKeepsRing ==
  ASSUME TableTypeOK, RingIntact, NEW s \in Symbol, Stores(s),
         Buckets[Hash[s.name]] = << >>
  PROVE  RingIntact' /\ TableTypeOK'
<1> DEFINE h == Hash[s.name]
           n == Len(order)
<1>1. h \in Bucket BY HashType
<1>2. AddNode(h) BY DEF Stores, putSymbol
<1>3. /\ Buckets' \in [Bucket -> Seq(Symbol)] /\ Buckets'[h] # << >>
      /\ \A g \in Bucket : g # h => Buckets'[g] = Buckets[g]
      /\ totalNodes' \in Nat /\ numsTable < NumBuckets
  BY StoresInBucket
<1>4. order \in Seq(Bucket) /\ n \in Nat /\ numsTable = n /\ NumBuckets \in Nat
  BY TableAssumption DEF TableTypeOK, RingIntact, OrderIsUsed
<1>5. \A i \in 1 .. n : order[i] \in Bucket /\ order[i] # h
  BY <1>1, <1>4 DEF RingIntact, OrderIsUsed
<1> HIDE DEF h
<1>6. /\ order' = Append(order, h) /\ numsTable' = n + 1 /\ tail' = h
      /\ Len(order') = n + 1
      /\ \A i \in 1 .. n : order'[i] = order[i]
      /\ order'[n + 1] = h
  BY <1>1, <1>2, <1>4 DEF AddNode
<1> HIDE DEF n
<1>7. head' = order'[1]
  <2>1. CASE n = 0 BY <1>2, <1>4, <1>6, <2>1 DEF AddNode
  <2>2. CASE n > 0
    <3>1. head = order[1] BY <1>4, <2>2 DEF RingIntact, RingLinked
    <3> QED BY <1>2, <1>4, <1>6, <2>2, <3>1 DEF AddNode
  <2> QED BY <1>4, <2>1, <2>2
<1>8. OrderIsUsed'
  <2>1. ASSUME NEW g \in Bucket
        PROVE  Buckets'[g] # << >> <=> \E i \in 1 .. n + 1 : order'[i] = g
    <3>1. CASE g = h BY <1>3, <1>4, <1>6, <3>1
    <3>2. CASE g # h
      <4>1. Buckets[g] # << >> <=> \E i \in 1 .. n : order[i] = g
        BY DEF RingIntact, OrderIsUsed, n
      <4>2. Buckets'[g] = Buckets[g] BY <1>3, <3>2
      <4>3. \A i \in 1 .. n + 1 : i \in 1 .. n \/ i = n + 1 BY <1>4
      <4>4. \A i \in 1 .. n : i \in 1 .. n + 1 /\ order'[i] = order[i] BY <1>4, <1>6
      <4>5. order'[n + 1] # g BY <1>6, <3>2
      <4> QED BY <4>1, <4>2, <4>3, <4>4, <4>5
    <3> QED BY <3>1, <3>2
  <2>2. ASSUME NEW i \in 1 .. n + 1, NEW j \in 1 .. n + 1, order'[i] = order'[j]
        PROVE  i = j
    <3>1. \A k, l \in 1 .. n : order[k] = order[l] => k = l
      BY DEF RingIntact, OrderIsUsed, n
    <3> QED BY <1>4, <1>5, <1>6, <2>2, <3>1
  <2> QED BY <1>6, <2>1, <2>2 DEF OrderIsUsed
<1>9. ASSUME NEW i \in 1 .. n + 1
      PROVE  /\ NextNode'[order'[i]] = order'[After(i, n + 1)]
             /\ PreNode'[order'[i]] = order'[Before(i, n + 1)]
  <2>1. NextNode' = RingWith(h).next /\ PreNode' = RingWith(h).pre
    BY <1>2 DEF AddNode
  <2>2. NextNode \in [Bucket -> Bucket \cup {Null}]
        /\ PreNode \in [Bucket -> Bucket \cup {Null}]
    BY DEF TableTypeOK
  <2>3. CASE n = 0
    <3>1. NextNode' = [NextNode EXCEPT ![h] = h] /\ PreNode' = [PreNode EXCEPT ![h] = h]
      BY <1>4, <2>1, <2>3 DEF RingWith
    <3>2. i = 1 /\ After(i, n + 1) = 1 /\ Before(i, n + 1) = 1
      BY <2>3 DEF After, Before
    <3> QED BY <1>1, <1>6, <2>2, <2>3, <3>1, <3>2
  <2>4. CASE n > 0
    <3>1. NextNode' = [NextNode EXCEPT ![tail] = h, ![h] = head]
          /\ PreNode' = [PreNode EXCEPT ![head] = h, ![h] = tail]
      BY <1>4, <2>1, <2>4 DEF RingWith
    <3>2. head = order[1] /\ tail = order[n] /\ 1 \in 1 .. n /\ n \in 1 .. n
      BY <1>4, <2>4 DEF RingIntact, RingLinked, n
    <3>3. \A k, l \in 1 .. n : order[k] = order[l] => k = l
      BY DEF RingIntact, OrderIsUsed, n
    <3>4. ASSUME NEW k \in 1 .. n
          PROVE  NextNode[order[k]] = order[After(k, n)]
                 /\ PreNode[order[k]] = order[Before(k, n)]
      BY DEF RingIntact, RingLinked, n
    <3>5. NextNode'[h] = order[1] /\ PreNode'[h] = order[n]
      BY <1>1, <1>5, <2>2, <3>1, <3>2
    <3>6. NextNode'[order[n]] = h /\ PreNode'[order[1]] = h
      BY <1>1, <1>5, <2>2, <3>1, <3>2
    <3>7. ASSUME NEW k \in 1 .. n, k # n PROVE NextNode'[order[k]] = order[k + 1]
      <4>1. order[k] # order[n] /\ order[k] # h /\ order[k] \in Bucket
        BY <1>5, <3>2, <3>3, <3>7
      <4>2. After(k, n) = k + 1 BY <3>7 DEF After
      <4> QED BY <2>2, <3>1, <3>2, <3>4, <4>1, <4>2
    <3>8. ASSUME NEW k \in 1 .. n, k # 1 PROVE PreNode'[order[k]] = order[k - 1]
      <4>1. order[k] # order[1] /\ order[k] # h /\ order[k] \in Bucket
        BY <1>5, <3>2, <3>3, <3>8
      <4>2. Before(k, n) = k - 1 BY <3>8 DEF Before
      <4> QED BY <2>2, <3>1, <3>2, <3>4, <4>1, <4>2
    <3>9. NextNode'[order'[i]] = order'[After(i, n + 1)]
      <4>1. CASE i = n + 1 BY <1>6, <3>2, <3>5, <4>1 DEF After
      <4>2. CASE i = n BY <1>4, <1>6, <3>2, <3>6, <4>2 DEF After
      <4>3. CASE i \in 1 .. n /\ i # n
        BY <1>4, <1>6, <3>7, <4>3 DEF After
      <4> QED BY <1>4, <4>1, <4>2, <4>3
    <3>10. PreNode'[order'[i]] = order'[Before(i, n + 1)]
      <4>1. CASE i = 1 BY <1>4, <1>6, <3>2, <3>6, <4>1 DEF Before
      <4>2. CASE i = n + 1 BY <1>4, <1>6, <2>4, <3>2, <3>5, <4>2 DEF Before
      <4>3. CASE i \in 1 .. n /\ i # 1
        BY <1>4, <1>6, <3>8, <4>3 DEF Before
      <4> QED BY <1>4, <4>1, <4>2, <4>3
    <3> QED BY <3>9, <3>10
  <2> QED BY <1>4, <2>3, <2>4
<1>10. RingLinked'
  <2>1. numsTable' > 0 /\ numsTable' # 0 /\ tail' = order'[Len(order')]
    BY <1>4, <1>6
  <2>2. (\A i \in 1 .. Len(order) :
           /\ NextNode[order[i]] = order[After(i, Len(order))]
           /\ PreNode[order[i]] = order[Before(i, Len(order))])'
    BY <1>6, <1>9 DEF After, Before
  <2> QED BY <1>7, <2>1, <2>2 DEF RingLinked
<1>11. TableTypeOK'
  <2>1. numsTable' \in 0 .. NumBuckets /\ order' \in Seq(Bucket)
    BY <1>1, <1>3, <1>4, <1>6
  <2>2. head' \in Bucket /\ tail' \in Bucket BY <1>1, <1>4, <1>5, <1>6, <1>7
  <2>3. NextNode' \in [Bucket -> Bucket \cup {Null}]
        /\ PreNode' \in [Bucket -> Bucket \cup {Null}]
    BY <1>1, <1>2 DEF AddNode, RingWith, TableTypeOK
  <2> QED BY <1>3, <2>1, <2>2, <2>3 DEF TableTypeOK
<1> QED BY <1>8, <1>10, <1>11 DEF RingIntact
\* putSymbol keeps the table's type and its ring, whatever it does.
LEMMA PutKeepsRing ==
  ASSUME TableTypeOK, RingIntact, NEW s \in Symbol, putSymbol(s)
  PROVE  TableTypeOK' /\ RingIntact'
<1>1. CASE Refused(s)
  <2>1. UNCHANGED tableVars BY <1>1 DEF putSymbol
  <2> QED BY <2>1 DEF tableVars, TableTypeOK, RingIntact, OrderIsUsed, RingLinked
<1>2. CASE ~Refused(s) /\ Buckets[Hash[s.name]] = << >>
  BY <1>2, AddNodeKeepsRing DEF Stores
<1>3. CASE ~Refused(s) /\ Buckets[Hash[s.name]] # << >>
  <2>1. UNCHANGED <<head, tail, NextNode, PreNode, numsTable, order>>
    BY <1>3 DEF putSymbol
  <2>2. /\ Buckets' \in [Bucket -> Seq(Symbol)] /\ Buckets'[Hash[s.name]] # << >>
        /\ \A g \in Bucket : g # Hash[s.name] => Buckets'[g] = Buckets[g]
        /\ totalNodes' \in Nat
    BY <1>3, StoresInBucket DEF Stores
  <2>3. \A g \in Bucket : Buckets'[g] # << >> <=> Buckets[g] # << >>
    BY <1>3, <2>2
  <2> QED BY <2>1, <2>2, <2>3 DEF TableTypeOK, RingIntact, OrderIsUsed, RingLinked
<1> QED BY <1>1, <1>2, <1>3

\* Equality of declarations does not depend on the side.
LEMMA SameSymbolSymmetric ==
  ASSUME NEW s, NEW t, SameSymbol(s, t) PROVE SameSymbol(t, s)
  BY DEF SameSymbol

\* putSymbol stores no declaration twice, and none in another name's bucket.
LEMMA PutStoresOnce ==
  ASSUME TableTypeOK, StoredOnce, NEW s \in Symbol, putSymbol(s)
  PROVE  StoredOnce'
<1>1. CASE Refused(s)
  <2>1. UNCHANGED tableVars BY <1>1 DEF putSymbol
  <2> QED BY <2>1 DEF tableVars, StoredOnce
<1>2. CASE ~Refused(s)
  <2> DEFINE h == Hash[s.name]
             n == Len(Buckets[h])
  <2>1. /\ Buckets'[h] = Append(Buckets[h], s)
        /\ \A g \in Bucket : g # h => Buckets'[g] = Buckets[g]
    BY <1>2, StoresInBucket DEF Stores
  <2>2. h \in Bucket BY HashType
  <2>3. Buckets[h] \in Seq(Symbol) BY <2>2 DEF TableTypeOK
  <2>4. \A i \in 1 .. n : ~SameSymbol(Buckets[h][i], s)
    BY <1>2 DEF Refused, Contains
  <2>5. h = Hash[s.name] OBVIOUS
  <2> HIDE DEF h
  <2>6. /\ n \in Nat /\ Len(Buckets'[h]) = n + 1 /\ Buckets'[h][n + 1] = s
        /\ \A i \in 1 .. n : Buckets'[h][i] = Buckets[h][i]
    BY <2>1, <2>3
  <2>7. ASSUME NEW i \in 1 .. n, NEW j \in 1 .. n
        PROVE  /\ Hash[Buckets[h][i].name] = h
               /\ SameSymbol(Buckets[h][i], Buckets[h][j]) => i = j
    BY <2>2 DEF StoredOnce
  <2> HIDE DEF n
  <2>8. ASSUME NEW i \in 1 .. n + 1, NEW j \in 1 .. n + 1
        PROVE  /\ Hash[Buckets'[h][i].name] = h
               /\ SameSymbol(Buckets'[h][i], Buckets'[h][j]) => i = j
    <3>1. Hash[Buckets'[h][i].name] = h
      <4>1. CASE i \in 1 .. n BY <2>6, <2>7, <4>1
      <4>2. CASE i = n + 1 BY <2>5, <2>6, <4>2
      <4> QED BY <2>6, <4>1, <4>2
    <3>2. ASSUME SameSymbol(Buckets'[h][i], Buckets'[h][j]) PROVE i = j
      <4>1. CASE i \in 1 .. n /\ j \in 1 .. n BY <2>6, <2>7, <3>2, <4>1
      <4>2. CASE i \in 1 .. n /\ j = n + 1 BY <2>4, <2>6, <3>2, <4>2
      <4>3. CASE i = n + 1 /\ j \in 1 .. n
        BY <2>4, <2>6, <3>2, <4>3, SameSymbolSymmetric
      <4>4. CASE i = n + 1 /\ j = n + 1 BY <4>4
      <4> QED BY <2>6, <4>1, <4>2, <4>3, <4>4
    <3> QED BY <3>1, <3>2
  <2>9. ASSUME NEW g \in Bucket, NEW i \in 1 .. Len(Buckets'[g]),
               NEW j \in 1 .. Len(Buckets'[g])
        PROVE  /\ Hash[Buckets'[g][i].name] = g
               /\ SameSymbol(Buckets'[g][i], Buckets'[g][j]) => i = j
    <3>1. CASE g = h BY <2>6, <2>8, <3>1
    <3>2. CASE g # h
      <4>1. Buckets'[g] = Buckets[g] BY <2>1, <3>2
      <4> QED BY <4>1 DEF StoredOnce
    <3> QED BY <3>1, <3>2
  <2> QED BY <2>9 DEF StoredOnce
<1> QED BY <1>1, <1>2
-----------------------------------------------------------------------------
(* getSymbol's choice.                                                     *)

\* A function that does what the loop of getSymbol does exists, so Choice is
\* its value for the whole list.
LEMMA ChoiceUnfolds ==
  ASSUME NEW list, NEW currentLevel
  PROVE  \E best : /\ Choice(list, currentLevel) = best[Len(list)]
                   /\ \A i \in Nat :
                        best[i] = IF i <= 1 THEN list[1]
                                  ELSE IF /\ list[i].level <= currentLevel
                                          /\ list[i].level > best[i - 1].level
                                       THEN list[i] ELSE best[i - 1]
<1> DEFINE Loop(g) == [i \in Nat |->
                         IF i <= 1 THEN list[1]
                         ELSE IF /\ list[i].level <= currentLevel
                                 /\ list[i].level > g[i - 1].level
                              THEN list[i] ELSE g[i - 1]]
           best == CHOOSE g : g = Loop(g)
<1>1. \E g : g = Loop(g)
  <2> DEFINE S == {list[i] : i \in Nat}
             step == [p \in Nat \X S |->
                        IF p[1] = 0 THEN list[1]
                        ELSE IF /\ list[p[1] + 1].level <= currentLevel
                                /\ list[p[1] + 1].level > p[2].level
                             THEN list[p[1] + 1] ELSE p[2]]
  <2>1. ASSUME NEW i \in Nat, NEW v \in S
        PROVE  step[<<i, v>>] = IF i = 0 THEN list[1]
                                ELSE IF /\ list[i + 1].level <= currentLevel
                                        /\ list[i + 1].level > v.level
                                     THEN list[i + 1] ELSE v
    OBVIOUS
  <2>2. \A i \in Nat : list[i] \in S OBVIOUS
  <2> HIDE DEF S, step
  <2>3. \A i \in Nat, v \in S : step[<<i, v>>] \in S
    <3> TAKE i \in Nat, v \in S
    <3>1. list[1] \in S /\ list[i + 1] \in S BY <2>2
    <3> QED BY <2>1, <3>1
  <2>4. list[1] \in S BY <2>2
  <2>5. PICK f : Follows(f, S, list[1], step) BY <2>3, <2>4, RecursiveFunction
  <2>6. ASSUME NEW i \in Nat PROVE f[i] = Loop(f)[i]
    <3>1. CASE i = 0 BY <2>5, <3>1 DEF Follows
    <3>2. CASE i # 0
      <4>1. i - 1 \in Nat /\ i - 1 + 1 = i /\ f[i - 1] \in S
        BY <2>5, <3>2 DEF Follows
      <4>2. f[i] = step[<<i - 1, f[i - 1]>>] BY <2>5, <4>1 DEF Follows
      <4>3. step[<<i - 1, f[i - 1]>>]
              = IF i - 1 = 0 THEN list[1]
                ELSE IF /\ list[i].level <= currentLevel
                        /\ list[i].level > f[i - 1].level
                     THEN list[i] ELSE f[i - 1]
        BY <2>1, <4>1
      <4>4. i - 1 = 0 <=> i <= 1 BY <3>2
      <4> QED BY <4>2, <4>3, <4>4
    <3> QED BY <3>1, <3>2
  <2>7. f = Loop(f)
    <3>1. DOMAIN f = Nat /\ f = [i \in Nat |-> f[i]] BY <2>5 DEF Follows
    <3> QED BY <2>6, <3>1
  <2> QED BY <2>7
<1>2. best = Loop(best) BY <1>1
<1>3. Choice(list, currentLevel) = best[Len(list)] BY DEF Choice
<1>4. PICK b : b = best OBVIOUS
<1> HIDE DEF best
<1>5. b = Loop(b) BY <1>2, <1>4
<1>6. \A i \in Nat : b[i] = Loop(b)[i] BY <1>5
<1>7. \A i \in Nat :
        b[i] = IF i <= 1 THEN list[1]
               ELSE IF /\ list[i].level <= currentLevel
                       /\ list[i].level > b[i - 1].level
                    THEN list[i] ELSE b[i - 1]
  BY <1>6
<1> QED BY <1>3, <1>4, <1>7

\* The choice is a symbol of the list, and none of the others that getSymbol
\* may choose, the first and those visible at the current level, is deeper.
LEMMA ChoiceIsDeepest ==
  ASSUME NEW list \in Seq(Symbol), list # << >>, NEW currentLevel \in Nat
  PROVE  \E k \in 1 .. Len(list) :
           /\ Choice(list, currentLevel) = list[k]
           /\ \A i \in 1 .. Len(list) :
                i = 1 \/ list[i].level <= currentLevel => list[i].level <= list[k].level
<1>1. PICK best : /\ Choice(list, currentLevel) = best[Len(list)]
                  /\ \A i \in Nat :
                       best[i] = IF i <= 1 THEN list[1]
                                 ELSE IF /\ list[i].level <= currentLevel
                                         /\ list[i].level > best[i - 1].level
                                      THEN list[i] ELSE best[i - 1]
  BY ChoiceUnfolds
<1>2. Len(list) \in Nat \ {0}
  <2>1. list \in Seq(Symbol) /\ list # << >> OBVIOUS
  <2> QED BY <2>1
<1>3. \A i \in 1 .. Len(list) : list[i].level \in Nat
  <2>1. \A i \in 1 .. Len(list) : list[i] \in Symbol OBVIOUS
  <2> QED BY <2>1 DEF Symbol
<1> DEFINE Deepest(n) ==
             \E k \in 1 .. n :
               /\ best[n] = list[k]
               /\ \A i \in 1 .. n :
                    i = 1 \/ list[i].level <= currentLevel => list[i].level <= list[k].level
           T == {n \in Nat : n + 1 <= Len(list) => Deepest(n + 1)}
<1>4. Deepest(1)
  <2>1. best[1] = list[1] BY <1>1
  <2>2. list[1].level \in Nat BY <1>2, <1>3
  <2>3. \A i \in 1 .. 1 : i = 1 OBVIOUS
  <2>4. 1 \in 1 .. 1 OBVIOUS
  <2> QED BY <2>1, <2>2, <2>3, <2>4
<1>5. ASSUME NEW n \in Nat, n # 0, n + 1 <= Len(list), Deepest(n) PROVE Deepest(n + 1)
  <2>1. PICK k \in 1 .. n :
          /\ best[n] = list[k]
          /\ \A i \in 1 .. n :
               i = 1 \/ list[i].level <= currentLevel => list[i].level <= list[k].level
    BY <1>5
  <2>2. /\ n + 1 \in 1 .. n + 1 /\ k \in 1 .. n + 1 /\ k \in 1 .. Len(list)
        /\ n + 1 \in 1 .. Len(list) /\ n + 1 - 1 = n /\ ~(n + 1 <= 1)
        /\ n + 1 # 1 /\ 1 \in 1 .. n
        /\ \A i \in 1 .. n + 1 : i \in 1 .. Len(list) /\ (i = n + 1 \/ i \in 1 .. n)
    BY <1>2, <1>5
  <2>3. best[n + 1] = IF /\ list[n + 1].level <= currentLevel
                         /\ list[n + 1].level > list[k].level
                      THEN list[n + 1] ELSE list[k]
    BY <1>1, <1>5, <2>1, <2>2
  <2>4. list[n + 1].level \in Nat /\ list[k].level \in Nat BY <1>3, <2>2
  <2>5. CASE list[n + 1].level <= currentLevel /\ list[n + 1].level > list[k].level
    <3>1. ASSUME NEW i \in 1 .. n + 1, i = 1 \/ list[i].level <= currentLevel
          PROVE  list[i].level <= list[n + 1].level
      <4>1. list[i].level \in Nat BY <1>3, <2>2
      <4>2. CASE i = n + 1 BY <2>4, <4>2
      <4>3. CASE i \in 1 .. n
        <5>1. list[i].level <= list[k].level BY <2>1, <3>1, <4>3
        <5> QED BY <2>4, <2>5, <4>1, <5>1
      <4> QED BY <2>2, <4>2, <4>3
    <3>2. best[n + 1] = list[n + 1] BY <2>3, <2>5
    <3> QED BY <2>2, <3>1, <3>2
  <2>6. CASE ~(list[n + 1].level <= currentLevel /\ list[n + 1].level > list[k].level)
    <3>1. ASSUME NEW i \in 1 .. n + 1, i = 1 \/ list[i].level <= currentLevel
          PROVE  list[i].level <= list[k].level
      <4>1. CASE i = n + 1 BY <2>2, <2>4, <2>6, <3>1, <4>1
      <4>2. CASE i \in 1 .. n BY <2>1, <3>1, <4>2
      <4> QED BY <2>2, <4>1, <4>2
    <3>2. best[n + 1] = list[k] BY <2>3, <2>6
    <3> QED BY <2>2, <3>1, <3>2
  <2> QED BY <2>5, <2>6
<1> HIDE DEF Deepest
<1>6. 0 \in T BY <1>4
<1>7. ASSUME NEW n \in T PROVE n + 1 \in T
  <2>1. n \in Nat /\ n + 1 \in Nat /\ n + 1 # 0 OBVIOUS
  <2>2. CASE n + 1 + 1 <= Len(list)
    <3>1. n + 1 <= Len(list) BY <1>2, <2>1, <2>2
    <3>2. Deepest(n + 1) BY <1>7, <3>1
    <3>3. Deepest(n + 1 + 1) BY <1>5, <2>1, <2>2, <3>2
    <3> QED BY <2>1, <3>3
  <2> QED BY <2>1, <2>2
<1>8. T \in SUBSET Nat OBVIOUS
<1> HIDE DEF T
<1>9. T = Nat BY <1>6, <1>7, <1>8, Induction
<1>10. Len(list) - 1 \in T /\ Len(list) - 1 + 1 = Len(list) BY <1>2, <1>9
<1>11. Deepest(Len(list)) BY <1>2, <1>10 DEF T
<1> QED BY <1>1, <1>11 DEF Deepest

-----------------------------------------------------------------------------
(* The declarations.                                                       *)

\* Code sets are taken in the order of their numbers, one for each procedure;
\* an open block keeps the set it began with, shares it with no other open
\* block, and waits for the procedure it is reading; a set not taken is empty.
BlocksInv ==
  /\ inUse = {s \in Sets : s <= procedureCount}
  /\ \A b \in 1 .. Len(blocks) : /\ blocks[b].old = blocks[b].set
                                 /\ blocks[b].set \in inUse \cup {FINAL_CODE}
  /\ \A b, c \in 1 .. Len(blocks) :
       b # c => blocks[b].set # blocks[c].set \/ blocks[b].set = FINAL_CODE
  /\ \A b \in 1 .. Len(blocks) - 1 : blocks[b].phase = "proc"
  /\ \A s \in Sets \ inUse : spaces[s] = << >>

\* Every procedure made was a declaration read.
Inv == /\ TypeOK /\ procedureCount <= made
       /\ RingIntact /\ StoredOnce
       /\ BlocksInv /\ CodeSetsMatch

\* What the table does not depend on.
TableKept == TableTypeOK' /\ RingIntact' /\ StoredOnce'

\* A declaration that is a Symbol keeps the table.
LEMMA PutKeepsTable == ASSUME Inv, NEW s \in Symbol, putSymbol(s) PROVE TableKept
  BY PutKeepsRing, PutStoresOnce DEF Inv, TypeOK, TableKept

LEMMA SameTable == ASSUME Inv, UNCHANGED tableVars PROVE TableKept
  BY DEF Inv, TypeOK, TableKept, tableVars, TableTypeOK, RingIntact, OrderIsUsed,
         RingLinked, StoredOnce

\* The innermost block of a program whose declarations are being read.
LEMMA TopType ==
  ASSUME Inv, NEW phases, Declaring(phases)
  PROVE  /\ Len(blocks) \in Nat \ {0} /\ blocks \in Seq(Block)
         /\ Top \in Block /\ globalLevel = Len(blocks) - 1 /\ ~crashed
<1>1. blocks \in Seq(Block) /\ blocks # << >> BY DEF Inv, TypeOK, Declaring
<1>2. Len(blocks) \in Nat \ {0} BY <1>1
<1>3. Top \in Block BY <1>1, <1>2 DEF Top
<1> QED BY <1>1, <1>2, <1>3 DEF Inv, TypeOK, Declaring

\* Replacing the innermost block keeps their number.
LEMMA ReplaceTop ==
  ASSUME blocks \in Seq(Block), Len(blocks) \in Nat \ {0}, NEW b \in Block
  PROVE  /\ [blocks EXCEPT ![Len(blocks)] = b] \in Seq(Block)
         /\ Len([blocks EXCEPT ![Len(blocks)] = b]) = Len(blocks)
         /\ [blocks EXCEPT ![Len(blocks)] = b][Len(blocks)] = b
         /\ \A i \in 1 .. Len(blocks) - 1 :
              [blocks EXCEPT ![Len(blocks)] = b][i] = blocks[i]
  OBVIOUS

\* A fresh block, and a block with one declaration more.
LEMMA NewBlockType == ASSUME NEW set \in CodeSet PROVE NewBlock(set) \in Block
  BY DEF NewBlock, Block

\* Counting a declaration changes neither the code set nor the one to go back
\* to.
LEMMA CountedType ==
  ASSUME NEW b \in Block,
         NEW c, \/ c = [b EXCEPT !.consts = b.consts + 1]
                \/ c = [b EXCEPT !.vars = b.vars + 1]
                \/ c = [b EXCEPT !.procs = b.procs + 1]
  PROVE  c \in Block /\ c.old = b.old /\ c.set = b.set
<1>1. b.consts + 1 \in Nat /\ b.vars + 1 \in Nat /\ b.procs + 1 \in Nat
  BY DEF Block
<1>2. ASSUME NEW n \in Nat
      PROVE  /\ [b EXCEPT !.consts = n] \in Block /\ [b EXCEPT !.vars = n] \in Block
             /\ [b EXCEPT !.procs = n] \in Block
  BY DEF Block
<1>3. c \in Block BY <1>1, <1>2
<1>4. c.old = b.old /\ c.set = b.set BY DEF Block
<1> QED BY <1>3, <1>4

\* new is the blocks with the innermost one turned into counted, in phase, with
\* the further declaration s.
DeclaredAs(new, s, phase, counted) ==
  /\ new \in Seq(Block) /\ Len(new) = Len(blocks)
  /\ \A b \in 1 .. Len(blocks) - 1 : new[b] = blocks[b]
  /\ new[Len(blocks)].phase = phase /\ new[Len(blocks)].old = counted.old
  /\ new[Len(blocks)].set = counted.set
  /\ new[Len(blocks)].declared = Append(counted.declared, s)

LEMMA DeclaredType ==
  ASSUME blocks \in Seq(Block), Len(blocks) \in Nat \ {0}, NEW counted \in Block,
         NEW s \in Symbol, NEW phase \in {"const", "var", "proc"}
  PROVE  DeclaredAs(Declared(s, phase, counted), s, phase, counted)
<1> DEFINE new == [counted EXCEPT !.phase = phase, !.linked = TRUE,
                                  !.declared = Append(@, s)]
<1>1. Append(counted.declared, s) \in Seq(Symbol) BY DEF Block
<1>2. new \in Block BY <1>1 DEF Block
<1>3. /\ new.phase = phase /\ new.old = counted.old /\ new.set = counted.set
      /\ new.declared = Append(counted.declared, s)
  BY DEF Block
<1> HIDE DEF new
<1>4. Declared(s, phase, counted) = [blocks EXCEPT ![Len(blocks)] = new]
  BY DEF Declared, new
<1> QED BY <1>2, <1>3, <1>4, ReplaceTop DEF DeclaredAs
-----------------------------------------------------------------------------
(* Code sets.                                                              *)

\* getFreeSet finds the set whose number is that of the procedure being made,
\* or none.
LEMMA FreeSetIs ==
  ASSUME Inv
  PROVE  /\ FreeSet \in CodeSet
         /\ FreeSet = IF procedureCount + 1 < MaxSets THEN procedureCount + 1
                      ELSE FINAL_CODE
<1>1. procedureCount \in Nat /\ MaxSets \in Nat
  BY ParserAssumption DEF Inv, TypeOK
<1>2. FreeSets = {s \in Sets : s > procedureCount}
  BY <1>1 DEF Inv, BlocksInv, FreeSets, Sets
<1>3. CASE procedureCount + 1 < MaxSets
  <2>1. procedureCount + 1 \in FreeSets /\ \A t \in FreeSets : procedureCount + 1 <= t
    BY <1>1, <1>2, <1>3 DEF Sets
  <2>2. LeastSet \in FreeSets /\ \A t \in FreeSets : LeastSet <= t
    BY <2>1 DEF LeastSet
  <2>3. LeastSet = procedureCount + 1 BY <1>1, <1>2, <2>1, <2>2 DEF Sets
  <2> QED BY <1>3, <2>1, <2>2, <2>3 DEF FreeSet, CodeSet, FreeSets
<1>4. CASE ~(procedureCount + 1 < MaxSets)
  <2>1. FreeSets = {} BY <1>1, <1>2, <1>4 DEF Sets
  <2> QED BY <1>4, <2>1 DEF FreeSet, CodeSet
<1> QED BY <1>3, <1>4

\* A step that changes no more of the blocks than the innermost one, which
\* keeps its code set, keeps what is known of the code sets.
LEMMA SameSets ==
  ASSUME Inv, Len(blocks) \in Nat \ {0},
         UNCHANGED <<inUse, procedureCount, spaces>>,
         Len(blocks') = Len(blocks),
         \A b \in 1 .. Len(blocks) - 1 : blocks'[b] = blocks[b],
         blocks'[Len(blocks)].set = Top.set, blocks'[Len(blocks)].old = Top.old,
         blocks'[Len(blocks)].phase = "statement" => currentProcedure' = Top.set
  PROVE  BlocksInv' /\ CodeSetsMatch'
<1> DEFINE n == Len(blocks)
<1>1. \A b \in 1 .. n : blocks'[b].set = blocks[b].set /\ blocks'[b].old = blocks[b].old
  BY DEF Top
<1>2. BlocksInv'
  <2>1. \A b \in 1 .. n : /\ blocks'[b].old = blocks'[b].set
                          /\ blocks'[b].set \in inUse \cup {FINAL_CODE}
    BY <1>1 DEF Inv, BlocksInv
  <2>2. \A b, c \in 1 .. n :
          b # c => blocks'[b].set # blocks'[c].set \/ blocks'[b].set = FINAL_CODE
    BY <1>1 DEF Inv, BlocksInv
  <2>3. \A b \in 1 .. n - 1 : blocks'[b].phase = "proc" BY DEF Inv, BlocksInv
  <2> QED BY <2>1, <2>2, <2>3 DEF Inv, BlocksInv
<1>3. CodeSetsMatch'
  <2>1. ASSUME NEW b \in 2 .. n
        PROVE  LET caller == blocks'[b - 1].declared
                   addr == caller[Len(caller)].addr
               IN  addr < MaxSets => blocks'[b].set = addr
    <3>1. blocks'[b - 1] = blocks[b - 1] /\ blocks'[b].set = blocks[b].set BY <1>1
    <3> QED BY <3>1 DEF Inv, CodeSetsMatch
  <2>2. (blocks # << >> /\ Top.phase = "statement" => currentProcedure = Top.set)'
    BY <1>1 DEF Top
  <2>3. ASSUME NEW s \in inUse
        PROVE  Len(spaces[s]) = IF \E b \in 1 .. n : blocks'[b].set = s THEN 0 ELSE 1
    BY <1>1 DEF Inv, CodeSetsMatch
  <2> QED BY <2>1, <2>2, <2>3 DEF CodeSetsMatch
<1> QED BY <1>2, <1>3
-----------------------------------------------------------------------------
(* The steps.                                                              *)

LEMMA InitDeclarations == Init => Inv
<1> SUFFICES ASSUME Init PROVE Inv OBVIOUS
<1>1. TableTypeOK /\ RingIntact /\ StoredOnce BY TableInitType DEF Init
<1>2. MaxLexi \in Nat /\ MaxSets \in Nat /\ MaxSymbols \in Nat BY ParserAssumption
<1>3. currentProcedure \in CodeSet /\ currentProcedure \in inUse \cup {FINAL_CODE}
  BY <1>2 DEF Init, CodeSet, Sets
<1>4. NewBlock(currentProcedure) \in Block BY <1>3, NewBlockType
<1>5. /\ blocks \in Seq(Block) /\ Len(blocks) = 1 /\ blocks # << >>
      /\ blocks[1] = NewBlock(currentProcedure)
  BY <1>4 DEF Init
<1>6. inUse = {s \in Sets : s <= procedureCount} /\ inUse \subseteq Sets
  BY <1>2 DEF Init, Sets
<1>7. spaces \in [CodeSet -> Seq(Nat)] /\ \A s \in Sets : spaces[s] = << >>
  BY DEF Init, CodeSet
<1>8. TypeOK
  <2>1. offsetArray \in [0 .. MaxLexi - 1 -> Nat] BY DEF Init
  <2>2. globalLevel = 0 /\ procedureCount \in 0 .. MaxSymbols /\ made \in 0 .. MaxSymbols
    BY <1>2 DEF Init
  <2>3. crashed \in BOOLEAN BY DEF Init
  <2> QED BY <1>1, <1>3, <1>5, <1>6, <1>7, <2>1, <2>2, <2>3 DEF TypeOK
<1>9. blocks[1].old = currentProcedure /\ blocks[1].set = currentProcedure
      /\ blocks[1].phase = "const"
  BY <1>5 DEF NewBlock
<1>10. BlocksInv BY <1>3, <1>5, <1>6, <1>7, <1>9 DEF BlocksInv
<1>11. CodeSetsMatch
  <2>1. \A s \in inUse : s = 0 /\ currentProcedure = 0 /\ spaces[s] = << >>
    BY <1>2, <1>6, <1>7 DEF Init, Sets
  <2> QED BY <1>5, <1>9, <2>1 DEF CodeSetsMatch, Top
<1>12. procedureCount <= made BY DEF Init
<1> QED BY <1>1, <1>8, <1>10, <1>11, <1>12 DEF Inv

\* The end of the table's part, of the types and of the blocks is Inv.
LEMMA InvParts ==
  ASSUME TypeOK', TableKept, BlocksInv', CodeSetsMatch', (procedureCount <= made)'
  PROVE  Inv'
  BY DEF Inv, TableKept

LEMMA ConstKeeps ==
  ASSUME Inv, NEW name \in Names, NEW val \in Vals, DeclareConst(name, val)
  PROVE  Inv'
<1> DEFINE s == [name |-> name, kind |-> "const", level |-> globalLevel,
                 addr |-> 0, val |-> val]
<1>1. s \in Symbol BY DEF Inv, TypeOK, Symbol, Kinds
<1>2. putSymbol(s) /\ blocks' = Declared(s, "const", [Top EXCEPT !.consts = @ + 1])
  BY DEF DeclareConst
<1> HIDE DEF s
<1>3. TableKept BY <1>1, <1>2, PutKeepsTable
<1>4. /\ Len(blocks) \in Nat \ {0} /\ blocks \in Seq(Block) /\ Top \in Block
      /\ globalLevel = Len(blocks) - 1
  BY TopType DEF DeclareConst
<1> DEFINE counted == [Top EXCEPT !.consts = @ + 1]
<1>5. counted \in Block /\ counted.old = Top.old /\ counted.set = Top.set
  BY <1>4, CountedType
<1> DEFINE longer == Declared(s, "const", counted)
<1>6a. blocks' = longer BY <1>2
<1> HIDE DEF counted
<1>6b. /\ longer \in Seq(Block) /\ Len(longer) = Len(blocks)
       /\ \A b \in 1 .. Len(blocks) - 1 : longer[b] = blocks[b]
       /\ longer[Len(blocks)].phase = "const"
       /\ longer[Len(blocks)].old = counted.old
       /\ longer[Len(blocks)].set = counted.set
  <2>1. DeclaredAs(longer, s, "const", counted) BY <1>1, <1>4, <1>5, DeclaredType
  <2> HIDE DEF longer
  <2> QED BY <2>1 DEF DeclaredAs
<1> HIDE DEF longer
<1>6. /\ blocks' \in Seq(Block) /\ Len(blocks') = Len(blocks)
      /\ \A b \in 1 .. Len(blocks) - 1 : blocks'[b] = blocks[b]
      /\ blocks'[Len(blocks)].phase = "const"
      /\ blocks'[Len(blocks)].old = Top.old /\ blocks'[Len(blocks)].set = Top.set
  BY <1>5, <1>6a, <1>6b
<1>7. UNCHANGED <<globalLevel, offsetArray, procedureCount, currentProcedure,
                  inUse, spaces, crashed>>
      /\ made' \in 0 .. MaxSymbols /\ made' = made + 1
  BY ParserAssumption DEF DeclareConst, DeclarationsLeft, Inv, TypeOK
<1>8. BlocksInv' /\ CodeSetsMatch' BY <1>4, <1>6, <1>7, SameSets
<1>9. TypeOK' BY <1>3, <1>4, <1>6, <1>7 DEF Inv, TypeOK, TableKept
<1>10. (procedureCount <= made)' BY <1>7 DEF Inv, TypeOK
<1> QED BY <1>3, <1>8, <1>9, <1>10, InvParts

LEMMA VarKeeps ==
  ASSUME Inv, NEW name \in Names, DeclareVar(name)
  PROVE  Inv'
<1> DEFINE s == [name |-> name, kind |-> "var", level |-> globalLevel,
                 addr |-> offsetArray[globalLevel], val |-> 0]
<1>1. globalLevel \in 0 .. MaxLexi - 1 /\ offsetArray[globalLevel] \in Nat
  BY ParserAssumption DEF DeclareVar, Inv, TypeOK
<1>2. s \in Symbol BY <1>1, ParserAssumption DEF Inv, TypeOK, Symbol, Kinds
<1>3. putSymbol(s) /\ blocks' = Declared(s, "var", [Top EXCEPT !.vars = @ + 1])
  BY DEF DeclareVar
<1> HIDE DEF s
<1>4. TableKept BY <1>2, <1>3, PutKeepsTable
<1>5. /\ Len(blocks) \in Nat \ {0} /\ blocks \in Seq(Block) /\ Top \in Block
      /\ globalLevel = Len(blocks) - 1
  BY TopType DEF DeclareVar
<1> DEFINE counted == [Top EXCEPT !.vars = @ + 1]
<1>6. counted \in Block /\ counted.old = Top.old /\ counted.set = Top.set
  BY <1>5, CountedType
<1> DEFINE longer == Declared(s, "var", counted)
<1>7a. blocks' = longer BY <1>3
<1> HIDE DEF counted
<1>7b. /\ longer \in Seq(Block) /\ Len(longer) = Len(blocks)
       /\ \A b \in 1 .. Len(blocks) - 1 : longer[b] = blocks[b]
       /\ longer[Len(blocks)].phase = "var"
       /\ longer[Len(blocks)].old = counted.old
       /\ longer[Len(blocks)].set = counted.set
  <2>1. DeclaredAs(longer, s, "var", counted) BY <1>2, <1>5, <1>6, DeclaredType
  <2> HIDE DEF longer
  <2> QED BY <2>1 DEF DeclaredAs
<1> HIDE DEF longer
<1>7. /\ blocks' \in Seq(Block) /\ Len(blocks') = Len(blocks)
      /\ \A b \in 1 .. Len(blocks) - 1 : blocks'[b] = blocks[b]
      /\ blocks'[Len(blocks)].phase = "var"
      /\ blocks'[Len(blocks)].old = Top.old /\ blocks'[Len(blocks)].set = Top.set
  BY <1>6, <1>7a, <1>7b
<1>8. UNCHANGED <<globalLevel, procedureCount, currentProcedure, inUse, spaces, crashed>>
      /\ made' \in 0 .. MaxSymbols /\ made' = made + 1
  <2>1. UNCHANGED <<globalLevel, procedureCount, currentProcedure, inUse, spaces, crashed>>
        /\ made' = made + 1 /\ made < MaxSymbols
    BY DEF DeclareVar, DeclarationsLeft
  <2>2. made \in 0 .. MaxSymbols /\ MaxSymbols \in Nat BY ParserAssumption DEF Inv, TypeOK
  <2> QED BY <2>1, <2>2
<1>9. offsetArray' \in [0 .. MaxLexi - 1 -> Nat]
  BY <1>1 DEF DeclareVar, Inv, TypeOK
<1>10. BlocksInv' /\ CodeSetsMatch' BY <1>5, <1>7, <1>8, SameSets
<1>11. TypeOK' BY <1>4, <1>5, <1>7, <1>8, <1>9 DEF Inv, TypeOK, TableKept
<1>12. (procedureCount <= made)' BY <1>8 DEF Inv, TypeOK
<1> QED BY <1>4, <1>10, <1>11, <1>12, InvParts

\* The end of the declarations: the procedure's own set is the current one.
LEMMA EndKeeps == ASSUME Inv, EndDeclarations PROVE Inv'
<1>1. PICK phase \in {"const", "statement"} :
        blocks' = [blocks EXCEPT ![Len(blocks)] =
                     [Top EXCEPT !.phase = phase, !.linked = FALSE]]
  BY DEF EndDeclarations
<1>2. UNCHANGED <<tableVars, globalLevel, offsetArray, procedureCount, inUse,
                  spaces, made, crashed>>
      /\ currentProcedure' = Top.old
  BY DEF EndDeclarations, Restored
<1>3. /\ Len(blocks) \in Nat \ {0} /\ blocks \in Seq(Block) /\ Top \in Block
      /\ globalLevel = Len(blocks) - 1
  BY TopType DEF EndDeclarations
<1> DEFINE new == [Top EXCEPT !.phase = phase, !.linked = FALSE]
<1>4. new \in Block /\ new.old = Top.old /\ new.set = Top.set BY <1>3 DEF Block
<1> HIDE DEF new
<1>5. blocks' = [blocks EXCEPT ![Len(blocks)] = new] BY <1>1 DEF new
<1>6. /\ blocks' \in Seq(Block) /\ Len(blocks') = Len(blocks)
      /\ \A b \in 1 .. Len(blocks) - 1 : blocks'[b] = blocks[b]
      /\ blocks'[Len(blocks)] = new
  BY <1>3, <1>4, <1>5, ReplaceTop
<1>7. Top.old = Top.set BY <1>3 DEF Inv, BlocksInv, Top
<1>8. BlocksInv' /\ CodeSetsMatch' BY <1>2, <1>3, <1>4, <1>6, <1>7, SameSets
<1>9. TableKept BY <1>2, SameTable
<1>10. currentProcedure' \in CodeSet BY <1>2, <1>3 DEF Block
<1>11. TypeOK' BY <1>2, <1>3, <1>6, <1>9, <1>10 DEF Inv, TypeOK, TableKept
<1>12. (procedureCount <= made)' BY <1>2 DEF Inv
<1> QED BY <1>8, <1>9, <1>11, <1>12, InvParts
\* A new procedure takes the next code set, and its symbol names that set.
LEMMA OpenKeeps ==
  ASSUME Inv, NEW name \in Names, OpenProcedure(name)
  PROVE  Inv'
<1> DEFINE n == Len(blocks)
           s == [name |-> name, kind |-> "proc", level |-> globalLevel,
                 addr |-> procedureCount + 1, val |-> 0]
           counted == [Top EXCEPT !.procs = @ + 1]
           below == Declared(s, "proc", counted)
<1>1. procedureCount \in Nat /\ MaxSets \in Nat /\ globalLevel \in Nat
  BY ParserAssumption DEF Inv, TypeOK
<1>2. s \in Symbol /\ s.addr = procedureCount + 1
  BY <1>1, ParserAssumption DEF Symbol, Kinds
<1>3. putSymbol(s) /\ blocks' = Append(below, NewBlock(FreeSet)) BY DEF OpenProcedure
<1> HIDE DEF s
<1>4. TableKept BY <1>2, <1>3, PutKeepsTable
<1>5. /\ n \in Nat \ {0} /\ blocks \in Seq(Block) /\ Top \in Block
      /\ globalLevel = n - 1
  BY TopType DEF OpenProcedure
<1>6. counted \in Block /\ counted.old = Top.old /\ counted.set = Top.set
  BY <1>5, CountedType
<1> HIDE DEF counted
<1>7. /\ below \in Seq(Block) /\ Len(below) = n
      /\ \A b \in 1 .. n - 1 : below[b] = blocks[b]
      /\ below[n].phase = "proc" /\ below[n].old = Top.old /\ below[n].set = Top.set
      /\ below[n].declared = Append(counted.declared, s)
  <2>1. blocks \in Seq(Block) /\ Len(blocks) \in Nat \ {0} BY <1>5
  <2>2. /\ below \in Seq(Block) /\ Len(below) = Len(blocks)
        /\ \A b \in 1 .. Len(blocks) - 1 : below[b] = blocks[b]
        /\ below[Len(blocks)].phase = "proc" /\ below[Len(blocks)].old = counted.old
        /\ below[Len(blocks)].set = counted.set
        /\ below[Len(blocks)].declared = Append(counted.declared, s)
    <3>1. DeclaredAs(below, s, "proc", counted) BY <1>2, <1>6, <2>1, DeclaredType
    <3> HIDE DEF below
    <3> QED BY <3>1 DEF DeclaredAs
  <2> HIDE DEF below
  <2> QED BY <1>6, <2>2
<1> HIDE DEF below
<1>8. /\ FreeSet \in CodeSet
      /\ FreeSet = IF procedureCount + 1 < MaxSets THEN procedureCount + 1
                   ELSE FINAL_CODE
  BY FreeSetIs
<1> DEFINE set == FreeSet
<1>9. NewBlock(set) \in Block /\ NewBlock(set).old = set /\ NewBlock(set).set = set
      /\ NewBlock(set).phase = "const"
  BY <1>8, NewBlockType DEF NewBlock
<1> HIDE DEF set
<1>10. /\ blocks' \in Seq(Block) /\ Len(blocks') = n + 1
       /\ \A b \in 1 .. n : blocks'[b] = below[b]
       /\ blocks'[n + 1] = NewBlock(set)
  BY <1>3, <1>5, <1>7, <1>9 DEF set
<1>11. /\ UNCHANGED <<offsetArray, spaces, crashed>> /\ globalLevel' = globalLevel + 1
       /\ procedureCount' = procedureCount + 1 /\ made' = made + 1
       /\ currentProcedure' = set /\ inUse' = inUse \cup ({set} \ {FINAL_CODE})
       /\ made < MaxSymbols
  BY DEF OpenProcedure, DeclarationsLeft, set
<1>12. /\ inUse = {t \in Sets : t <= procedureCount} /\ inUse \subseteq Sets
       /\ set = IF procedureCount + 1 < MaxSets THEN procedureCount + 1 ELSE FINAL_CODE
  BY <1>8 DEF Inv, BlocksInv, TypeOK, set
<1>13. inUse' = {t \in Sets : t <= procedureCount'} /\ inUse' \subseteq Sets
       /\ set \notin inUse
  BY <1>1, <1>11, <1>12 DEF Sets, FINAL_CODE
<1>14. \A b \in 1 .. n : /\ blocks'[b].old = blocks[b].old
                         /\ blocks'[b].set = blocks[b].set
  BY <1>5, <1>7, <1>10 DEF Top
<1>15. \A b \in 1 .. n : /\ blocks[b].old = blocks[b].set
                         /\ blocks[b].set \in inUse \cup {FINAL_CODE}
  BY DEF Inv, BlocksInv
<1>16. BlocksInv'
  <2>1. \A b \in 1 .. n + 1 : /\ blocks'[b].old = blocks'[b].set
                              /\ blocks'[b].set \in inUse' \cup {FINAL_CODE}
    BY <1>5, <1>9, <1>10, <1>11, <1>14, <1>15
  <2>2. ASSUME NEW b \in 1 .. n + 1, NEW c \in 1 .. n + 1, b # c
        PROVE  blocks'[b].set # blocks'[c].set \/ blocks'[b].set = FINAL_CODE
    <3>1. CASE b \in 1 .. n /\ c \in 1 .. n
      BY <1>14, <2>2, <3>1 DEF Inv, BlocksInv
    <3>2. CASE b \in 1 .. n /\ c = n + 1
      BY <1>9, <1>10, <1>13, <1>14, <1>15, <3>2
    <3>3. CASE b = n + 1 /\ c \in 1 .. n
      BY <1>9, <1>10, <1>13, <1>14, <1>15, <3>3
    <3> QED BY <1>5, <2>2, <3>1, <3>2, <3>3
  <2>3. \A b \in 1 .. n : blocks'[b].phase = "proc"
    BY <1>5, <1>7, <1>10 DEF Inv, BlocksInv
  <2>4. \A t \in Sets \ inUse' : spaces'[t] = << >>
    BY <1>11 DEF Inv, BlocksInv
  <2>5. Len(blocks') - 1 = n BY <1>5, <1>10
  <2> QED BY <1>10, <1>13, <2>1, <2>2, <2>3, <2>4, <2>5 DEF BlocksInv
<1>17. CodeSetsMatch'
  <2>1. ASSUME NEW b \in 2 .. n + 1
        PROVE  LET caller == blocks'[b - 1].declared
                   addr == caller[Len(caller)].addr
               IN  addr < MaxSets => blocks'[b].set = addr
    <3>1. CASE b \in 2 .. n
      <4>1. blocks'[b - 1] = blocks[b - 1] /\ blocks'[b].set = blocks[b].set
        BY <1>7, <1>10, <1>14, <3>1
      <4> QED BY <3>1, <4>1 DEF Inv, CodeSetsMatch
    <3>2. CASE b = n + 1
      <4>1. blocks'[b - 1].declared = Append(counted.declared, s)
        BY <1>5, <1>7, <1>10, <3>2
      <4>2. counted.declared \in Seq(Symbol) BY <1>6 DEF Block
      <4>3. Append(counted.declared, s)[Len(Append(counted.declared, s))] = s
        BY <1>2, <4>2
      <4>4. blocks'[b].set = set BY <1>9, <1>10, <3>2
      <4> QED BY <1>2, <1>12, <4>1, <4>3, <4>4
    <3> QED BY <1>5, <3>1, <3>2
  <2>2. (blocks # << >> /\ Top.phase = "statement" => currentProcedure = Top.set)'
    BY <1>9, <1>10 DEF Top
  <2>3. ASSUME NEW t \in inUse'
        PROVE  Len(spaces'[t]) = IF \E b \in 1 .. n + 1 : blocks'[b].set = t THEN 0 ELSE 1
    <3>1. CASE t \in inUse
      <4>1. t # set BY <1>13, <3>1
      <4>2. (\E b \in 1 .. n + 1 : blocks'[b].set = t) <=> \E b \in 1 .. n : blocks[b].set = t
        BY <1>5, <1>9, <1>10, <1>14, <4>1
      <4> QED BY <1>11, <3>1, <4>2 DEF Inv, CodeSetsMatch
    <3>2. CASE t \notin inUse
      <4>1. t = set /\ t \in Sets BY <1>11, <1>13, <3>2
      <4>2. spaces'[t] = << >> BY <1>11, <3>2, <4>1 DEF Inv, BlocksInv
      <4>3. blocks'[n + 1].set = t /\ n + 1 \in 1 .. n + 1 BY <1>5, <1>9, <1>10, <4>1
      <4> QED BY <4>2, <4>3
    <3> QED BY <3>1, <3>2
  <2> QED BY <1>10, <2>1, <2>2, <2>3 DEF CodeSetsMatch
<1>18. procedureCount' <= made' BY <1>1, <1>11 DEF Inv, TypeOK
<1>19. TypeOK'
  <2>1. made' \in 0 .. MaxSymbols /\ procedureCount' \in 0 .. MaxSymbols
    BY <1>1, <1>11, <1>18, ParserAssumption DEF Inv, TypeOK
  <2>2. globalLevel' \in Nat /\ globalLevel' = Len(blocks') - 1 /\ blocks' \in Seq(Block)
    BY <1>5, <1>10, <1>11
  <2>3. currentProcedure' \in CodeSet BY <1>8, <1>11 DEF set
  <2> QED BY <1>4, <1>11, <1>13, <2>1, <2>2, <2>3 DEF Inv, TypeOK, TableKept
<1> QED BY <1>4, <1>16, <1>17, <1>18, <1>19, InvParts

\* A block ends with one INC in front of its own code set.
LEMMA CloseKeeps == ASSUME Inv, CloseBlock PROVE Inv'
<1> DEFINE n == Len(blocks)
<1>1. /\ n \in Nat \ {0} /\ blocks \in Seq(Block) /\ Top \in Block
      /\ globalLevel = n - 1
  BY TopType DEF CloseBlock
<1>2. /\ UNCHANGED <<offsetArray, procedureCount, currentProcedure, inUse, made, crashed>>
      /\ UNCHANGED tableVars
      /\ blocks' = SubSeq(blocks, 1, n - 1)
      /\ spaces' = [spaces EXCEPT ![currentProcedure] = <<Top.vars + 4>> \o @]
      /\ globalLevel' = IF n = 1 THEN globalLevel ELSE globalLevel - 1
      /\ blocks # << >> /\ Top.phase = "statement"
  BY DEF CloseBlock, Reserve, Declaring
<1>3. TableKept BY <1>2, SameTable
<1>4. /\ blocks' \in Seq(Block) /\ Len(blocks') = n - 1
      /\ \A b \in 1 .. n - 1 : blocks'[b] = blocks[b]
  BY <1>1, <1>2
<1>5. currentProcedure = blocks[n].set /\ currentProcedure \in CodeSet
  BY <1>2 DEF Inv, CodeSetsMatch, TypeOK, Top
<1>6. spaces \in [CodeSet -> Seq(Nat)] /\ Top.vars + 4 \in Nat
  <2>1. Top.vars \in Nat BY <1>1 DEF Block
  <2>2. spaces \in [CodeSet -> Seq(Nat)] BY DEF Inv, TypeOK
  <2> QED BY <2>1, <2>2
<1>7. /\ spaces'[currentProcedure] = <<Top.vars + 4>> \o spaces[currentProcedure]
      /\ \A t \in CodeSet : t # currentProcedure => spaces'[t] = spaces[t]
      /\ spaces' \in [CodeSet -> Seq(Nat)]
  BY <1>2, <1>5, <1>6
<1>8. currentProcedure \in inUse \cup {FINAL_CODE}
  BY <1>1, <1>5 DEF Inv, BlocksInv
<1>9. BlocksInv'
  <2>1. \A t \in Sets \ inUse' : spaces'[t] = << >>
    <3>1. \A t \in Sets : t # FINAL_CODE BY ParserAssumption DEF Sets, FINAL_CODE
    <3> QED BY <1>2, <1>7, <1>8, <3>1 DEF Inv, BlocksInv, CodeSet
  <2>2. \A b \in 1 .. n - 2 : blocks'[b].phase = "proc"
    BY <1>1, <1>4 DEF Inv, BlocksInv
  <2>3. \A b \in 1 .. n - 1 : /\ blocks'[b].old = blocks'[b].set
                              /\ blocks'[b].set \in inUse' \cup {FINAL_CODE}
    BY <1>1, <1>2, <1>4 DEF Inv, BlocksInv
  <2>4. \A b, c \in 1 .. n - 1 :
          b # c => blocks'[b].set # blocks'[c].set \/ blocks'[b].set = FINAL_CODE
    BY <1>1, <1>4 DEF Inv, BlocksInv
  <2>5. inUse' = {t \in Sets : t <= procedureCount'} BY <1>2 DEF Inv, BlocksInv
  <2>6. Len(blocks') - 1 = n - 2 BY <1>1, <1>4
  <2> QED BY <1>4, <2>1, <2>2, <2>3, <2>4, <2>5, <2>6 DEF BlocksInv
<1>10. CodeSetsMatch'
  <2>1. ASSUME NEW b \in 2 .. n - 1
        PROVE  LET caller == blocks'[b - 1].declared
                   addr == caller[Len(caller)].addr
               IN  addr < MaxSets => blocks'[b].set = addr
    <3>1. blocks'[b - 1] = blocks[b - 1] /\ blocks'[b] = blocks[b] /\ b \in 2 .. n
      BY <1>1, <1>4
    <3> QED BY <3>1 DEF Inv, CodeSetsMatch
  <2>2. (blocks # << >> /\ Top.phase = "statement" => currentProcedure = Top.set)'
    <3>1. CASE n = 1 BY <1>1, <1>4, <3>1
    <3>2. CASE n > 1
      <4>1. Top' = blocks[n - 1] BY <1>1, <1>4, <3>2 DEF Top
      <4>2. blocks[n - 1].phase = "proc" BY <1>1, <3>2 DEF Inv, BlocksInv
      <4> QED BY <4>1, <4>2
    <3> QED BY <1>1, <3>1, <3>2
  <2>3. ASSUME NEW t \in inUse
        PROVE  Len(spaces'[t]) = IF \E b \in 1 .. n - 1 : blocks'[b].set = t THEN 0 ELSE 1
    <3>1. t \in Sets /\ t \in CodeSet /\ t # FINAL_CODE
      BY ParserAssumption DEF Inv, TypeOK, CodeSet, Sets, FINAL_CODE
    <3>2. Len(spaces[t]) = IF \E b \in 1 .. n : blocks[b].set = t THEN 0 ELSE 1
      BY DEF Inv, CodeSetsMatch
    <3>3. CASE t = currentProcedure
      <4>1. Len(spaces[t]) = 0 /\ spaces[t] \in Seq(Nat)
        BY <1>1, <1>5, <1>6, <3>1, <3>2, <3>3
      <4>2. Len(spaces'[t]) = 1 BY <1>6, <1>7, <3>3, <4>1
      <4>3. \A b \in 1 .. n - 1 : blocks'[b].set # t
        BY <1>1, <1>4, <1>5, <3>1, <3>3 DEF Inv, BlocksInv
      <4> QED BY <4>2, <4>3
    <3>4. CASE t # currentProcedure
      <4>1. spaces'[t] = spaces[t] BY <1>7, <3>1, <3>4
      <4>2. (\E b \in 1 .. n - 1 : blocks'[b].set = t) <=> \E b \in 1 .. n : blocks[b].set = t
        BY <1>1, <1>4, <1>5, <3>4
      <4> QED BY <3>2, <4>1, <4>2
    <3> QED BY <3>3, <3>4
  <2>4. inUse' = inUse BY <1>2
  <2> QED BY <1>4, <2>1, <2>2, <2>3, <2>4 DEF CodeSetsMatch
<1>11. TypeOK'
  <2>1. globalLevel' \in Nat /\ (blocks' # << >> => globalLevel' = Len(blocks') - 1)
    <3>1. CASE n = 1
      <4>1. blocks' = << >> BY <1>4, <3>1
      <4> QED BY <1>1, <1>2, <3>1, <4>1
    <3>2. CASE n > 1
      <4>1. n \in Nat /\ globalLevel = n - 1 BY <1>1
      <4>2. globalLevel' = globalLevel - 1 /\ Len(blocks') = n - 1 BY <1>2, <1>4, <3>2
      <4> QED BY <3>2, <4>1, <4>2
    <3> QED BY <1>1, <3>1, <3>2
  <2> QED BY <1>2, <1>3, <1>4, <1>7, <2>1 DEF Inv, TypeOK, TableKept
<1>12. (procedureCount <= made)' BY <1>2 DEF Inv
<1> QED BY <1>3, <1>9, <1>10, <1>11, <1>12, InvParts

\* A crash of the parser, and no step, change nothing Inv speaks of.
LEMMA CrashKeeps ==
  ASSUME Inv,
         UNCHANGED <<tableVars, globalLevel, offsetArray, procedureCount,
                     currentProcedure, inUse, blocks, spaces, made>>,
         crashed' \in BOOLEAN
  PROVE  Inv'
<1>1. TableKept BY SameTable
<1>2. TypeOK' BY <1>1 DEF Inv, TypeOK, TableKept
<1>3. BlocksInv' BY DEF Inv, BlocksInv
<1>4. CodeSetsMatch' BY DEF Inv, CodeSetsMatch, Top
<1> QED BY <1>1, <1>2, <1>3, <1>4, InvParts DEF Inv

LEMMA NextDeclarations == Inv /\ [Next]_vars => Inv'
<1> SUFFICES ASSUME Inv, [Next]_vars PROVE Inv' OBVIOUS
<1>1. CASE \E name \in Names : \/ \E val \in Vals : DeclareConst(name, val)
                               \/ DeclareVar(name)
                               \/ OpenProcedure(name)
  BY <1>1, ConstKeeps, VarKeeps, OpenKeeps
<1>2. ASSUME NEW phases, NEW phase, NEW count, Crash(phases, phase, count) PROVE Inv'
  BY <1>2, CrashKeeps DEF Crash
<1>3. CASE LevelTooDeep BY <1>3, CrashKeeps DEF LevelTooDeep
<1>4. CASE EndDeclarations BY <1>4, EndKeeps
<1>5. CASE CloseBlock BY <1>5, CloseKeeps
<1>6. CASE UNCHANGED vars
  <2>1. crashed \in BOOLEAN BY DEF Inv, TypeOK
  <2> QED BY <1>6, <2>1, CrashKeeps DEF vars, parserVars
<1> QED BY <1>1, <1>2, <1>3, <1>4, <1>5, <1>6 DEF Next

\* The parser's counters, levels and block stack keep their type in programs of
\* any length (blockParse, makeSymbol), until it crashes.
THEOREM DeclarationsType == Spec => []TypeOK
<1>1. Inv => TypeOK BY DEF Inv
<1> QED BY <1>1, InitDeclarations, NextDeclarations, PTL DEF Spec

\* However many nodes putSymbol adds, the ring from head is one cycle through
\* the buckets in use, oldest first, with back links that match.
THEOREM RingStaysIntact == Spec => []RingIntact
<1>1. Inv => RingIntact BY DEF Inv
<1> QED BY <1>1, InitDeclarations, NextDeclarations, PTL DEF Spec

\* putSymbol stores every declaration at most once, and in the bucket in which
\* getSymbol will search its name.
THEOREM NothingStoredTwice == Spec => []StoredOnce
<1>1. Inv => StoredOnce BY DEF Inv
<1> QED BY <1>1, InitDeclarations, NextDeclarations, PTL DEF Spec

\* The number a call is compiled to (makeSymbol) is the number of the code set
\* the procedure's code goes to (getFreeSet), while sets last; every block's
\* statement goes to its own set whatever procedures were read before it, and
\* every finished procedure has exactly one INC.
THEOREM CodeSetsStayMatched == Spec => []CodeSetsMatch
<1>1. Inv => CodeSetsMatch BY DEF Inv
<1> QED BY <1>1, InitDeclarations, NextDeclarations, PTL DEF Spec
-----------------------------------------------------------------------------
(* What a step declares: one symbol, in the innermost block, or nothing.   *)

OneMore(s) ==
  \A b \in 1 .. Len(blocks') : \A i \in 1 .. Len(blocks'[b].declared) :
    \/ b = Len(blocks) /\ blocks'[b].declared[i] = s
    \/ /\ b \in 1 .. Len(blocks) /\ i \in 1 .. Len(blocks[b].declared)
       /\ blocks'[b].declared[i] = blocks[b].declared[i]
NoneMore ==
  \A b \in 1 .. Len(blocks') :
    b \in 1 .. Len(blocks) /\ blocks'[b].declared = blocks[b].declared
Declares == \/ \E s \in Symbol : /\ putSymbol(s) /\ OneMore(s)
                                 /\ s.level = globalLevel
                                 /\ s.kind # "const" => s.val = 0
            \/ UNCHANGED tableVars /\ NoneMore

\* new is the blocks after one more declaration, of s, in the innermost one.
DeclaresOne(new, s) ==
  /\ Len(new) = Len(blocks) /\ new \in Seq(Block)
  /\ \A b \in 1 .. Len(new) : \A i \in 1 .. Len(new[b].declared) :
       \/ b = Len(blocks) /\ new[b].declared[i] = s
       \/ /\ b \in 1 .. Len(blocks) /\ i \in 1 .. Len(blocks[b].declared)
          /\ new[b].declared[i] = blocks[b].declared[i]

LEMMA DeclaredOne ==
  ASSUME Inv, NEW phases, Declaring(phases), NEW s \in Symbol,
         NEW phase \in {"const", "var", "proc"},
         NEW counted \in Block, counted.declared = Top.declared
  PROVE  DeclaresOne(Declared(s, phase, counted), s)
<1> DEFINE n == Len(blocks)
           new == Declared(s, phase, counted)
<1>1. n \in Nat \ {0} /\ blocks \in Seq(Block) /\ Top \in Block BY TopType
<1>4. /\ new \in Seq(Block) /\ Len(new) = n
      /\ \A b \in 1 .. n - 1 : new[b] = blocks[b]
      /\ new[n].declared = Append(Top.declared, s)
  <2>1. DeclaredAs(new, s, phase, counted) BY <1>1, DeclaredType
  <2> HIDE DEF new
  <2> QED BY <2>1 DEF DeclaredAs
<1>5. /\ Top.declared \in Seq(Symbol) /\ Top = blocks[n] BY <1>1 DEF Block, Top
<1> HIDE DEF new
<1>6. ASSUME NEW b \in 1 .. n, NEW i \in 1 .. Len(new[b].declared)
      PROVE  \/ b = n /\ new[b].declared[i] = s
             \/ /\ i \in 1 .. Len(blocks[b].declared)
                /\ new[b].declared[i] = blocks[b].declared[i]
  <2>1. CASE b # n
    <3>1. new[b] = blocks[b] BY <1>1, <1>4, <2>1
    <3> QED BY <1>6, <3>1
  <2>2. CASE b = n
    <3>1. /\ Len(new[n].declared) = Len(Top.declared) + 1 /\ Len(Top.declared) \in Nat
          /\ new[n].declared[Len(Top.declared) + 1] = s
          /\ \A j \in 1 .. Len(Top.declared) : new[n].declared[j] = Top.declared[j]
      BY <1>4, <1>5
    <3>2. i \in 1 .. Len(Top.declared) \/ i = Len(Top.declared) + 1 BY <2>2, <3>1
    <3> QED BY <1>5, <2>2, <3>1, <3>2
  <2> QED BY <2>1, <2>2
<1>7. \A b \in 1 .. Len(new) : b \in 1 .. n BY <1>4
<1>8. DeclaresOne(new, s) BY <1>4, <1>6, <1>7 DEF DeclaresOne
<1> QED BY <1>8 DEF new

\* The innermost block after one more declaration in it.
LEMMA DeclaredMore ==
  ASSUME Inv, NEW phases, Declaring(phases), NEW s \in Symbol,
         NEW phase \in {"const", "var", "proc"},
         NEW counted, \/ counted = [Top EXCEPT !.consts = @ + 1]
                      \/ counted = [Top EXCEPT !.vars = @ + 1]
                      \/ counted = [Top EXCEPT !.procs = @ + 1]
  PROVE  DeclaresOne(Declared(s, phase, counted), s)
<1>1. Top \in Block BY TopType
<1>2. counted \in Block BY <1>1, CountedType
<1>3. counted.declared = Top.declared BY <1>1 DEF Block
<1> QED BY <1>2, <1>3, DeclaredOne

LEMMA WhatStepsDeclare ==
  ASSUME Inv, [Next]_vars
  PROVE  Declares
<1>1. ASSUME NEW name \in Names, NEW val \in Vals, DeclareConst(name, val) PROVE Declares
  <2> DEFINE s == [name |-> name, kind |-> "const", level |-> globalLevel,
                   addr |-> 0, val |-> val]
             counted == [Top EXCEPT !.consts = @ + 1]
  <2>1. s \in Symbol /\ s.kind = "const" /\ s.level = globalLevel
    BY DEF Inv, TypeOK, Symbol, Kinds
  <2>2. putSymbol(s) /\ blocks' = Declared(s, "const", counted) BY <1>1 DEF DeclareConst
  <2>3. Declaring({"const"}) BY <1>1 DEF DeclareConst
  <2> HIDE DEF s
  <2>4. OneMore(s) BY <2>1, <2>2, <2>3, DeclaredMore DEF OneMore, DeclaresOne
  <2> QED BY <2>1, <2>2, <2>4 DEF Declares
<1>2. ASSUME NEW name \in Names, DeclareVar(name) PROVE Declares
  <2> DEFINE s == [name |-> name, kind |-> "var", level |-> globalLevel,
                   addr |-> offsetArray[globalLevel], val |-> 0]
             counted == [Top EXCEPT !.vars = @ + 1]
  <2>1. s \in Symbol /\ s.val = 0 /\ s.level = globalLevel
    <3>1. globalLevel \in 0 .. MaxLexi - 1 /\ offsetArray[globalLevel] \in Nat
      BY <1>2, ParserAssumption DEF DeclareVar, Inv, TypeOK
    <3> QED BY <3>1, ParserAssumption DEF Inv, TypeOK, Symbol, Kinds
  <2>2. putSymbol(s) /\ blocks' = Declared(s, "var", counted) BY <1>2 DEF DeclareVar
  <2>3. Declaring({"const", "var"}) BY <1>2 DEF DeclareVar
  <2> HIDE DEF s
  <2>4. OneMore(s) BY <2>1, <2>2, <2>3, DeclaredMore DEF OneMore, DeclaresOne
  <2> QED BY <2>1, <2>2, <2>4 DEF Declares
<1>3. ASSUME NEW name \in Names, OpenProcedure(name) PROVE Declares
  <2> DEFINE s == [name |-> name, kind |-> "proc", level |-> globalLevel,
                   addr |-> procedureCount + 1, val |-> 0]
             counted == [Top EXCEPT !.procs = @ + 1]
             longer == Declared(s, "proc", counted)
             new == NewBlock(FreeSet)
  <2>1. s \in Symbol /\ s.val = 0 /\ s.level = globalLevel
    <3>1. procedureCount + 1 \in Nat BY DEF Inv, TypeOK
    <3> QED BY <3>1, ParserAssumption DEF Inv, TypeOK, Symbol, Kinds
  <2>2. putSymbol(s) /\ blocks' = Append(longer, new) BY <1>3 DEF OpenProcedure
  <2>3. Declaring({"const", "var", "proc"}) BY <1>3 DEF OpenProcedure
  <2> HIDE DEF s
  <2>4. /\ Len(longer) = Len(blocks) /\ longer \in Seq(Block)
        /\ \A b \in 1 .. Len(longer) : \A i \in 1 .. Len(longer[b].declared) :
             \/ b = Len(blocks) /\ longer[b].declared[i] = s
             \/ /\ b \in 1 .. Len(blocks) /\ i \in 1 .. Len(blocks[b].declared)
                /\ longer[b].declared[i] = blocks[b].declared[i]
    BY <2>1, <2>3, DeclaredMore DEF DeclaresOne
  <2>5. new \in Block /\ Len(new.declared) = 0
    BY FreeSetIs, NewBlockType DEF NewBlock
  <2> HIDE DEF longer, new
  <2>6. ASSUME NEW b \in 1 .. Len(blocks'), NEW i \in 1 .. Len(blocks'[b].declared)
        PROVE  \/ b = Len(blocks) /\ blocks'[b].declared[i] = s
               \/ /\ b \in 1 .. Len(blocks) /\ i \in 1 .. Len(blocks[b].declared)
                  /\ blocks'[b].declared[i] = blocks[b].declared[i]
    <3>1. /\ Len(blocks') = Len(longer) + 1 /\ Len(longer) \in Nat
          /\ blocks'[Len(longer) + 1] = new
          /\ \A c \in 1 .. Len(longer) : blocks'[c] = longer[c]
      <4>1. blocks' = Append(longer, new) /\ longer \in Seq(Block) /\ new \in Block
        BY <2>2, <2>4, <2>5
      <4> QED BY <4>1
    <3>2. b \in 1 .. Len(longer) BY <2>5, <2>6, <3>1
    <3>3. blocks'[b] = longer[b] BY <3>1, <3>2
    <3> QED BY <2>4, <2>6, <3>2, <3>3
  <2>7. OneMore(s) BY <2>6 DEF OneMore
  <2> QED BY <2>1, <2>2, <2>7 DEF Declares
<1>4. CASE EndDeclarations
  <2>1. PICK phase \in {"const", "statement"} :
          blocks' = [blocks EXCEPT ![Len(blocks)] =
                       [Top EXCEPT !.phase = phase, !.linked = FALSE]]
    BY <1>4 DEF EndDeclarations
  <2>2. /\ Len(blocks) \in Nat \ {0} /\ blocks \in Seq(Block) /\ Top \in Block
        /\ UNCHANGED tableVars
    BY <1>4, TopType DEF EndDeclarations
  <2>3. Top.declared = [Top EXCEPT !.phase = phase, !.linked = FALSE].declared
    BY <2>2 DEF Block
  <2>4. NoneMore BY <2>1, <2>2, <2>3 DEF Top, NoneMore
  <2> QED BY <2>2, <2>4 DEF Declares
<1>5. CASE CloseBlock
  <2>1. /\ Len(blocks) \in Nat \ {0} /\ blocks \in Seq(Block)
        /\ UNCHANGED tableVars /\ blocks' = SubSeq(blocks, 1, Len(blocks) - 1)
    BY <1>5, TopType DEF CloseBlock
  <2>2. NoneMore BY <2>1 DEF NoneMore
  <2> QED BY <2>1, <2>2 DEF Declares
<1>6. CASE UNCHANGED <<tableVars, blocks>> BY <1>6 DEF Declares, NoneMore
<1>7. ASSUME NEW phases, NEW phase, NEW count, Crash(phases, phase, count) PROVE Declares
  BY <1>6, <1>7 DEF Crash
<1>8. CASE LevelTooDeep BY <1>6, <1>8 DEF LevelTooDeep
<1>9. CASE UNCHANGED vars BY <1>6, <1>9 DEF vars, parserVars
<1> QED BY <1>1, <1>2, <1>3, <1>4, <1>5, <1>7, <1>8, <1>9 DEF Next
-----------------------------------------------------------------------------
(* What the table keeps of the declarations.                               *)

\* What makeSymbol makes without a value has the value 0, so that a symbol
\* compareDataType takes for the same is the same.
ZeroValued == \A h \in Bucket : \A i \in 1 .. Len(Buckets[h]) :
                Buckets[h][i].kind # "const" => Buckets[h][i].val = 0

Kept(s) == s.kind = "const" \/ Stored(s) \/ numsTable = NumBuckets
KeptInv == DeclaredKept /\ ZeroValued

\* putSymbol loses none of the symbols that are kept, and keeps a new one.
LEMMA PutKeepsSymbols ==
  ASSUME Inv, Inv', ZeroValued, NEW s \in Symbol, putSymbol(s),
         s.kind # "const" => s.val = 0
  PROVE  /\ ZeroValued' /\ Kept(s)'
         /\ \A t \in Symbol : Kept(t) => Kept(t)'
<1> DEFINE h == Hash[s.name]
<1>1. /\ h \in Bucket /\ Buckets \in [Bucket -> Seq(Symbol)]
      /\ numsTable \in 0 .. NumBuckets /\ numsTable' \in 0 .. NumBuckets /\ NumBuckets \in Nat
  BY HashType, TableAssumption DEF Inv, TypeOK, TableTypeOK
<1>2. CASE Refused(s)
  <2>1. UNCHANGED tableVars BY <1>2 DEF putSymbol
  <2>2. \A t : Kept(t)' <=> Kept(t) BY <2>1 DEF tableVars, Kept, Stored
  <2>3. Kept(s)
    <3>1. CASE numsTable >= NumBuckets BY <1>1, <3>1 DEF Kept
    <3>2. CASE Contains(s) /\ s.kind # "const"
      <4>1. PICK i \in 1 .. Len(Buckets[h]) : SameSymbol(Buckets[h][i], s)
        BY <3>2 DEF Contains
      <4>2. Buckets[h][i] \in Symbol BY <1>1
      <4>3. Buckets[h][i].val = 0 /\ s.val = 0
        BY <1>1, <3>2, <4>1 DEF ZeroValued, SameSymbol
      <4>4. Buckets[h][i] = s BY <4>1, <4>2, <4>3 DEF SameSymbol, Symbol
      <4> QED BY <4>4 DEF Kept, Stored
    <3> QED BY <1>2, <3>1, <3>2 DEF Refused, Kept
  <2> QED BY <2>1, <2>2, <2>3 DEF tableVars, ZeroValued
<1>3. CASE ~Refused(s)
  <2>1. /\ Buckets'[h] = Append(Buckets[h], s)
        /\ \A g \in Bucket : g # h => Buckets'[g] = Buckets[g]
        /\ numsTable < NumBuckets
    BY <1>3, StoresInBucket DEF Stores, Inv, TypeOK
  <2>2. /\ Len(Buckets'[h]) = Len(Buckets[h]) + 1 /\ Len(Buckets[h]) \in Nat
        /\ Buckets'[h][Len(Buckets[h]) + 1] = s
        /\ \A i \in 1 .. Len(Buckets[h]) : Buckets'[h][i] = Buckets[h][i]
    BY <1>1, <2>1
  <2>3. ZeroValued'
    <3> SUFFICES ASSUME NEW g \in Bucket, NEW i \in 1 .. Len(Buckets'[g]),
                        Buckets'[g][i].kind # "const"
                 PROVE  Buckets'[g][i].val = 0
      BY DEF ZeroValued
    <3>1. CASE g # h BY <2>1, <3>1 DEF ZeroValued
    <3>2. CASE g = h /\ i = Len(Buckets[h]) + 1 BY <2>2, <3>2
    <3>3. CASE g = h /\ i # Len(Buckets[h]) + 1
      <4>1. i \in 1 .. Len(Buckets[h]) BY <2>2, <3>3
      <4> QED BY <1>1, <2>2, <3>3, <4>1 DEF ZeroValued
    <3> QED BY <3>1, <3>2, <3>3
  <2>4. Kept(s)'
    <3>1. Len(Buckets[h]) + 1 \in 1 .. Len(Buckets'[h]) BY <2>2
    <3> QED BY <2>2, <3>1 DEF Kept, Stored
  <2>5. ASSUME NEW t \in Symbol, Kept(t) PROVE Kept(t)'
    <3>1. Hash[t.name] \in Bucket BY HashType
    <3>2. CASE t.kind = "const" BY <3>2 DEF Kept
    <3>3. CASE Stored(t)
      <4>1. PICK i \in 1 .. Len(Buckets[Hash[t.name]]) : Buckets[Hash[t.name]][i] = t
        BY <3>3 DEF Stored
      <4>2. i \in 1 .. Len(Buckets'[Hash[t.name]]) /\ Buckets'[Hash[t.name]][i] = t
        <5>1. CASE Hash[t.name] = h
          <6>1. i \in 1 .. Len(Buckets[h]) /\ Buckets[h][i] = t BY <4>1, <5>1
          <6>2. i \in 1 .. Len(Buckets'[h]) /\ Buckets'[h][i] = t BY <2>2, <6>1
          <6> QED BY <5>1, <6>2
        <5>2. CASE Hash[t.name] # h
          <6>1. Buckets'[Hash[t.name]] = Buckets[Hash[t.name]] BY <2>1, <3>1, <5>2
          <6> QED BY <4>1, <6>1
        <5> QED BY <5>1, <5>2
      <4> QED BY <4>2 DEF Kept, Stored
    <3>4. CASE numsTable = NumBuckets BY <1>1, <2>1, <3>4
    <3> QED BY <2>5, <3>2, <3>3, <3>4 DEF Kept
  <2> QED BY <2>3, <2>4, <2>5
<1> QED BY <1>2, <1>3

\* The declarations of a block after one more.
LEMMA DeclareKeepsKept ==
  ASSUME Inv, Inv', KeptInv, NEW s \in Symbol, putSymbol(s),
         s.kind # "const" => s.val = 0,
         OneMore(s)
  PROVE  KeptInv'
<1>1. ZeroValued' /\ Kept(s)' /\ \A t \in Symbol : Kept(t) => Kept(t)'
  BY PutKeepsSymbols DEF KeptInv
<1>2. ASSUME NEW b \in 1 .. Len(blocks'), NEW i \in 1 .. Len(blocks'[b].declared),
             NEW t, t = blocks'[b].declared[i]
      PROVE  Kept(t)'
  <2>1. CASE t = s BY <1>1, <2>1
  <2>2. CASE /\ b \in 1 .. Len(blocks) /\ i \in 1 .. Len(blocks[b].declared)
             /\ t = blocks[b].declared[i]
    <3>1. blocks \in Seq(Block) /\ b \in 1 .. Len(blocks) BY <2>2 DEF Inv, TypeOK
    <3>2. blocks[b] \in Block BY <3>1
    <3>3. blocks[b].declared \in Seq(Symbol) BY <3>2 DEF Block
    <3>4. t \in Symbol BY <2>2, <3>3
    <3>5. Kept(t) BY <2>2 DEF KeptInv, DeclaredKept, Kept
    <3> QED BY <1>1, <3>4, <3>5
  <2> QED BY <1>2, <2>1, <2>2 DEF OneMore
<1>3. DeclaredKept'
  <2> SUFFICES ASSUME NEW b \in 1 .. Len(blocks'),
                      NEW i \in 1 .. Len(blocks'[b].declared)
               PROVE  LET t == blocks'[b].declared[i]
                      IN  \/ t.kind = "const"
                          \/ \E k \in 1 .. Len(Buckets'[Hash[t.name]]) :
                               Buckets'[Hash[t.name]][k] = t
                          \/ numsTable' = NumBuckets
    BY DEF DeclaredKept, Stored
  <2>1. PICK t : t = blocks'[b].declared[i] OBVIOUS
  <2>2. Kept(t)' BY <1>2, <2>1
  <2> QED BY <2>1, <2>2 DEF Kept, Stored
<1> QED BY <1>1, <1>3 DEF KeptInv

\* Without a new declaration, what the open blocks declared is kept.
LEMMA SameKeepsKept ==
  ASSUME Inv, KeptInv, UNCHANGED tableVars, NoneMore
  PROVE  KeptInv'
<1>1. \A t : Kept(t)' <=> Kept(t) BY DEF tableVars, Kept, Stored
<1>2. DeclaredKept' BY <1>1 DEF KeptInv, DeclaredKept, Kept, NoneMore
<1> QED BY <1>2 DEF KeptInv, ZeroValued, tableVars

LEMMA NextKept == Inv /\ Inv' /\ KeptInv /\ [Next]_vars => KeptInv'
<1> SUFFICES ASSUME Inv, Inv', KeptInv, [Next]_vars PROVE KeptInv' OBVIOUS
<1>1. Declares BY WhatStepsDeclare
<1>2. CASE UNCHANGED tableVars /\ NoneMore BY <1>2, SameKeepsKept
<1>3. CASE ~(UNCHANGED tableVars /\ NoneMore)
  <2>1. PICK s \in Symbol : putSymbol(s) /\ OneMore(s) /\ (s.kind # "const" => s.val = 0)
    BY <1>1, <1>3 DEF Declares
  <2> QED BY <2>1, DeclareKeepsKept
<1> QED BY <1>2, <1>3

\* putSymbol may refuse a symbol, and makeSymbol ignores it; but as long as a
\* bucket is free, what the table holds in its place is the same symbol for
\* every variable and procedure of an open block.
THEOREM DeclarationsKept == Spec => []DeclaredKept
<1>1. Init => KeptInv
  <2> SUFFICES ASSUME Init PROVE KeptInv OBVIOUS
  <2>1. Len(blocks) = 1 /\ Len(blocks[1].declared) = 0 BY DEF Init, NewBlock
  <2>2. \A h \in Bucket : Len(Buckets[h]) = 0 BY DEF Init, TableInit
  <2> QED BY <2>1, <2>2 DEF KeptInv, DeclaredKept, ZeroValued
<1>2. KeptInv => DeclaredKept BY DEF KeptInv
<1> QED BY <1>1, <1>2, InitDeclarations, NextDeclarations, NextKept, PTL DEF Spec
-----------------------------------------------------------------------------
(* What an identifier means.                                               *)

\* A symbol has the level of the block it was made for.
LevelsInv == \A b \in 1 .. Len(blocks) : \A i \in 1 .. Len(blocks[b].declared) :
               blocks[b].declared[i].level = b - 1

LEMMA NextLevels == Inv /\ LevelsInv /\ [Next]_vars => LevelsInv'
<1> SUFFICES ASSUME Inv, LevelsInv, [Next]_vars PROVE LevelsInv' OBVIOUS
<1>1. Declares BY WhatStepsDeclare
<1>2. CASE NoneMore BY <1>2 DEF NoneMore, LevelsInv
<1>3. CASE ~NoneMore
  <2>1. PICK s \in Symbol : OneMore(s) /\ s.level = globalLevel
    BY <1>1, <1>3 DEF Declares
  <2>2. ASSUME NEW b \in 1 .. Len(blocks'), NEW i \in 1 .. Len(blocks'[b].declared)
        PROVE  blocks'[b].declared[i].level = b - 1
    <3>1. CASE b = Len(blocks) /\ blocks'[b].declared[i] = s
      <4>1. blocks \in Seq(Block) /\ (blocks # << >> => globalLevel = Len(blocks) - 1)
        BY DEF Inv, TypeOK
      <4>2. b \in Nat \ {0} /\ b = Len(blocks)
        BY <2>2, <3>1
      <4>3. globalLevel = b - 1 BY <4>1, <4>2
      <4> QED BY <2>1, <3>1, <4>3
    <3>2. CASE /\ b \in 1 .. Len(blocks) /\ i \in 1 .. Len(blocks[b].declared)
               /\ blocks'[b].declared[i] = blocks[b].declared[i]
      BY <3>2 DEF LevelsInv
    <3> QED BY <2>1, <2>2, <3>1, <3>2 DEF OneMore
  <2> QED BY <2>2 DEF LevelsInv
<1> QED BY <1>2, <1>3

\* The declarations of a name in an open block are symbols of that name, at
\* the level of the block.
LEMMA DeclarationsAre ==
  ASSUME Inv, LevelsInv, NEW name, NEW b \in 1 .. Len(blocks),
         NEW s \in DeclarationsOf(name, b)
  PROVE  s \in Symbol /\ s.name = name /\ s.level = b - 1
<1>1. PICK i \in 1 .. Len(blocks[b].declared) : s = blocks[b].declared[i] /\ s.name = name
  BY DEF DeclarationsOf
<1>2. blocks[b] \in Block BY DEF Inv, TypeOK
<1>3. blocks[b].declared \in Seq(Symbol) BY <1>2 DEF Block
<1>4. s \in Symbol BY <1>1, <1>3
<1> QED BY <1>1, <1>4 DEF LevelsInv

\* A name that an open block declares has an innermost one.
LEMMA InnermostIs ==
  ASSUME Inv, NEW name, Visible(name) # {}
  PROVE  /\ Innermost(name) \in Visible(name)
         /\ \A c \in Visible(name) : c <= Innermost(name)
<1>1. Len(blocks) \in Nat /\ Visible(name) \subseteq 1 .. Len(blocks)
  <2>1. blocks \in Seq(Block) BY DEF Inv, TypeOK
  <2> QED BY <2>1 DEF Visible
<1> DEFINE T == {n \in Nat : Len(blocks) - n \in Visible(name)}
<1>2. PICK c \in Visible(name) : TRUE OBVIOUS
<1>3. Len(blocks) - c \in T
  <2>1. c \in 1 .. Len(blocks) BY <1>1, <1>2
  <2>2. Len(blocks) - c \in Nat /\ Len(blocks) - (Len(blocks) - c) = c BY <1>1, <2>1
  <2> QED BY <1>2, <2>2
<1>4. PICK n \in T : \A m \in T : n <= m
  <2>1. T \in SUBSET Nat /\ T # {} BY <1>3
  <2> HIDE DEF T
  <2> QED BY <2>1, LeastNumber
<1>5. n \in Nat /\ Len(blocks) - n \in Visible(name) OBVIOUS
<1>6. ASSUME NEW d \in Visible(name) PROVE d <= Len(blocks) - n
  <2>1. d \in 1 .. Len(blocks) BY <1>1, <1>6
  <2>2. Len(blocks) - d \in Nat /\ Len(blocks) - (Len(blocks) - d) = d BY <1>1, <2>1
  <2>3. Len(blocks) - d \in T BY <1>6, <2>2
  <2>4. n <= Len(blocks) - d BY <1>4, <2>3
  <2> QED BY <1>1, <1>5, <2>1, <2>4
<1> QED BY <1>5, <1>6 DEF Innermost

LEMMA CurrentResolves ==
  ASSUME Inv, LevelsInv, InStatement, NEW name \in Names, BucketIsCurrent(name),
         \A s \in Meaning(name) \ {Null} : Stored(s)
  PROVE  getSymbol(name, globalLevel) \in Meaning(name)
<1>1. PICK list : list = Buckets[Hash[name]] OBVIOUS
<1>2. list \in Seq(Symbol)
  <2>1. Hash[name] \in Bucket /\ Buckets \in [Bucket -> Seq(Symbol)]
    BY TableAssumption DEF Inv, TypeOK, TableTypeOK
  <2> QED BY <1>1, <2>1
<1>3. \A i \in 1 .. Len(list) :
        \E b \in 1 .. Len(blocks) : DeclarationsOf(name, b) = {list[i]}
  BY <1>1 DEF BucketIsCurrent
<1>4. Len(blocks) \in Nat \ {0} /\ globalLevel = Len(blocks) - 1
  BY TopType DEF InStatement
<1>5. getSymbol(name, globalLevel)
        = IF list = << >> THEN Null ELSE Choice(list, globalLevel)
  BY <1>1 DEF getSymbol
<1>6. \A s \in Meaning(name) \ {Null} :
        Visible(name) # {} /\ s \in DeclarationsOf(name, Innermost(name))
  BY DEF Meaning
<1>7. \A i \in 1 .. Len(list) : Visible(name) # {} BY <1>3 DEF Visible
<1>8. CASE Visible(name) = {}
  <2>1. list = << >>
    <3>1. Len(list) \in Nat /\ (list # << >> => Len(list) # 0) BY <1>2
    <3>2. list # << >> => 1 \in 1 .. Len(list) BY <3>1
    <3> QED BY <1>7, <1>8, <3>2
  <2> QED BY <1>5, <1>8, <2>1 DEF Meaning
<1>9. CASE Visible(name) # {}
  <2>1. PICK n : n = Innermost(name) OBVIOUS
  <2>2. n \in Visible(name) /\ \A c \in Visible(name) : c <= n
    BY <1>9, <2>1, InnermostIs
  <2>3. /\ n \in 1 .. Len(blocks) /\ DeclarationsOf(name, n) # {}
        /\ Meaning(name) = DeclarationsOf(name, n)
    BY <1>9, <2>1, <2>2 DEF Visible, Meaning
  <2>4. PICK m \in DeclarationsOf(name, n) : TRUE BY <2>3
  <2>5. m \in Symbol /\ m.name = name /\ m.level = n - 1
    BY <2>3, <2>4, DeclarationsAre
  <2>6. PICK j \in 1 .. Len(list) : list[j] = m
    <3>1. m \in Meaning(name) \ {Null} BY <2>3, <2>4, <2>5, TableAssumption
    <3>2. Stored(m) BY <3>1
    <3> QED BY <1>1, <2>5, <3>2 DEF Stored
  <2>7. list # << >> /\ globalLevel \in Nat
    <3>1. Len(list) # 0 BY <1>2, <2>6
    <3> QED BY <1>4, <3>1
  <2>8. PICK k \in 1 .. Len(list) :
          /\ Choice(list, globalLevel) = list[k]
          /\ \A i \in 1 .. Len(list) :
               i = 1 \/ list[i].level <= globalLevel => list[i].level <= list[k].level
    BY <1>2, <2>7, ChoiceIsDeepest
  <2>9. list[j].level <= list[k].level
    <3>1. list[j].level <= globalLevel BY <1>4, <2>3, <2>5, <2>6
    <3> QED BY <2>6, <2>8, <3>1
  <2>10. PICK b \in 1 .. Len(blocks) : DeclarationsOf(name, b) = {list[k]}
    BY <1>3, <2>8
  <2>11. b \in Visible(name) /\ list[k] \in DeclarationsOf(name, b)
    BY <2>10 DEF Visible
  <2>12. list[k].level = b - 1 BY <2>11, DeclarationsAre
  <2>13. b <= n BY <2>2, <2>11
  <2>14. b = n BY <1>4, <2>3, <2>5, <2>6, <2>9, <2>10, <2>12, <2>13
  <2>15. list[k] \in Meaning(name) BY <2>3, <2>11, <2>14
  <2> QED BY <1>5, <2>7, <2>8, <2>15
<1> QED BY <1>8, <1>9

\* Where an identifier's bucket holds symbols of open blocks only, each the
\* one declaration of that name in its block, getSymbol finds the innermost
\* declaration: the loop's comparison of levels is right, and what goes wrong
\* with stale or colliding buckets is their doing alone.
THEOREM LookupsResolve == Spec => []ResolvesWhenCurrent
<1>1. Init => LevelsInv
  <2> SUFFICES ASSUME Init PROVE LevelsInv OBVIOUS
  <2>1. Len(blocks) = 1 /\ Len(blocks[1].declared) = 0 BY DEF Init, NewBlock
  <2> QED BY <2>1 DEF LevelsInv
<1>2. Inv /\ LevelsInv => ResolvesWhenCurrent
  BY CurrentResolves DEF ResolvesWhenCurrent
<1> QED BY <1>1, <1>2, InitDeclarations, NextDeclarations, NextLevels, PTL DEF Spec
=============================================================================

------------------------------ MODULE SymbolTable ------------------------------
(***************************************************************************)
(* The symbol table of src/symbolTable/symbolTable.c.  A bucket holds at   *)
(* most one SymTableNode, whatever the number of keys that hash to it, and *)
(* the node holds the symbols of all those keys, oldest first.  The nodes  *)
(* are threaded on a doubly linked ring through head and tail.             *)
(*                                                                         *)
(* A node is named by its bucket, and a symbol by its value: the table     *)
(* holds no two symbols that agree in name, kind, level and addr.          *)
(***************************************************************************)
EXTENDS Integers, Sequences, FiniteSets

CONSTANTS Names,       \* the identifiers
          NumBuckets,  \* numsBucket
          Hash,        \* getHashValue, as a function of the name
          Vals,        \* the values of constants
          Null         \* the null pointer

Bucket == 0 .. NumBuckets - 1
Kinds == {"const", "var", "proc"}
Symbol == [name : Names, kind : Kinds, level : Nat, addr : Nat, val : Vals]

ASSUME TableAssumption == /\ NumBuckets \in Nat
                          /\ \A name \in Names : Hash[name] \in Bucket
                          /\ Null \notin Bucket /\ Null \notin Symbol

VARIABLES Buckets,            \* the symbols of each bucket's node
          head, tail,         \* the ends of the ring
          NextNode, PreNode,  \* the ring
          numsTable,          \* how many buckets have a node
          totalNodes,
          order               \* history: the nodes in the order of creation

tableVars == <<Buckets, head, tail, NextNode, PreNode, numsTable, totalNodes, order>>

TableInit == /\ Buckets = [h \in Bucket |-> << >>]
             /\ head = Null /\ tail = Null
             /\ NextNode = [h \in Bucket |-> Null]
             /\ PreNode = [h \in Bucket |-> Null]
             /\ numsTable = 0 /\ totalNodes = 0
             /\ order = << >>

\* Mutant of SameSymbol: the address not compared.
SameScope(s, t) == s.name = t.name /\ s.kind = t.kind /\ s.level = t.level

\* compareDataType: the value of a constant is not compared.
SameSymbol(s, t) == s.name = t.name /\ s.kind = t.kind
                    /\ s.level = t.level /\ s.addr = t.addr

Contains(s) == \E i \in 1 .. Len(Buckets[Hash[s.name]]) :
                  SameSymbol(Buckets[Hash[s.name]][i], s)

-----------------------------------------------------------------------------
(* putSymbol.                                                              *)

\* Mutant of RingWith: the old head keeps its back link.
RingOneWay(h) ==
  IF numsTable = 0
  THEN [next |-> [NextNode EXCEPT ![h] = h], pre |-> [PreNode EXCEPT ![h] = h]]
  ELSE [next |-> [NextNode EXCEPT ![tail] = h, ![h] = head],
        pre  |-> [PreNode EXCEPT ![h] = tail]]

\* A new node goes between tail and head; the first one is its own ring.
RingWith(h) ==
  IF numsTable = 0
  THEN [next |-> [NextNode EXCEPT ![h] = h], pre |-> [PreNode EXCEPT ![h] = h]]
  ELSE [next |-> [NextNode EXCEPT ![tail] = h, ![h] = head],
        pre  |-> [PreNode EXCEPT ![head] = h, ![h] = tail]]

AddNode(h) == /\ NextNode' = RingWith(h).next
              /\ PreNode' = RingWith(h).pre
              /\ head' = IF numsTable = 0 THEN h ELSE head
              /\ tail' = h
              /\ numsTable' = numsTable + 1
              /\ order' = Append(order, h)

\* Mutant of Refused: the duplicate check left out.
RefusedWhenFull(s) == numsTable >= NumBuckets

\* No room for another node refuses every symbol, also one whose bucket has a
\* node already.
Refused(s) == numsTable >= NumBuckets \/ Contains(s)

putSymbol(s) ==
  LET h == Hash[s.name]
  IN  IF Refused(s) THEN UNCHANGED tableVars
      ELSE /\ Buckets' = [Buckets EXCEPT ![h] = Append(@, s)]
           /\ totalNodes' = totalNodes + Len(Buckets[h]) + 1
           /\ IF Buckets[h] = << >>
              THEN AddNode(h)
              ELSE UNCHANGED <<head, tail, NextNode, PreNode, numsTable, order>>

-----------------------------------------------------------------------------
(* getSymbol: the first symbol of the bucket, then every later one that is *)
(* visible at the current level and deeper than the choice so far.  The    *)
(* key takes part in the choice of the bucket only.                        *)

\* Mutant of Choice: the choice with the lowest level.
OutermostChoice(list, currentLevel) ==
  LET best[i \in Nat] ==
        IF i <= 1 THEN list[1]
        ELSE IF list[i].level <= currentLevel /\ list[i].level < best[i - 1].level
             THEN list[i] ELSE best[i - 1]
  IN  best[Len(list)]

Choice(list, currentLevel) ==
  LET best[i \in Nat] ==
        IF i <= 1 THEN list[1]
        ELSE IF list[i].level <= currentLevel /\ list[i].level > best[i - 1].level
             THEN list[i] ELSE best[i - 1]
  IN  best[Len(list)]

getSymbol(name, currentLevel) ==
  LET list == Buckets[Hash[name]]
  IN  IF list = << >> THEN Null ELSE Choice(list, currentLevel)

-----------------------------------------------------------------------------
(* Properties.                                                             *)

TableTypeOK == /\ Buckets \in [Bucket -> Seq(Symbol)]
               /\ head \in Bucket \cup {Null} /\ tail \in Bucket \cup {Null}
               /\ NextNode \in [Bucket -> Bucket \cup {Null}]
               /\ PreNode \in [Bucket -> Bucket \cup {Null}]
               /\ numsTable \in 0 .. NumBuckets
               /\ totalNodes \in Nat
               /\ order \in Seq(Bucket)

\* The position after i, and before i, on the ring of n nodes.
After(i, n) == IF i = n THEN 1 ELSE i + 1
Before(i, n) == IF i = 1 THEN n ELSE i - 1

\* The ring that SymTable_print walks from head is one cycle through exactly
\* the buckets in use, oldest first, and its back links are the inverse of
\* its forward links.
OrderIsUsed == /\ numsTable = Len(order)
               /\ \A h \in Bucket :
                    Buckets[h] # << >> <=> \E i \in 1 .. Len(order) : order[i] = h
               /\ \A i, j \in 1 .. Len(order) : order[i] = order[j] => i = j
RingLinked == /\ numsTable = 0 => head = Null /\ tail = Null
              /\ numsTable > 0 => head = order[1] /\ tail = order[Len(order)]
              /\ \A i \in 1 .. Len(order) :
                   /\ NextNode[order[i]] = order[After(i, Len(order))]
                   /\ PreNode[order[i]] = order[Before(i, Len(order))]
RingIntact == OrderIsUsed /\ RingLinked

\* Every symbol is in the bucket of its own name, where a lookup will search
\* it, and no declaration is stored twice.
StoredOnce == \A h \in Bucket : \A i, j \in 1 .. Len(Buckets[h]) :
                /\ Hash[Buckets[h][i].name] = h
                /\ SameSymbol(Buckets[h][i], Buckets[h][j]) => i = j
=============================================================================

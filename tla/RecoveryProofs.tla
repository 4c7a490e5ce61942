------------------------------ MODULE RecoveryProofs ------------------------------
(***************************************************************************)
(* Proofs about the symbol sets of parse_common.c and the recovery that    *)
(* uses them: createset and uniteset keep their lists in the order inset   *)
(* relies on; every call is given what its caller goes on to look for and  *)
(* all that the caller was given, and so test skips nothing that any open  *)
(* call goes on to look for.                                               *)
(***************************************************************************)
EXTENDS ParserProofs, Recursion

LOCAL INSTANCE SequencesExt


-----------------------------------------------------------------------------
(* Symbol sets.                                                            *)

Types == ToSet(Token_t)

\* A list that setinsert and uniteset may be given.
IsSymset(s) == /\ s \in Seq(Types)
               /\ \A i, j \in 1 .. Len(s) : i < j => Number[s[i]] <= Number[s[j]]

\* The numbers of the types are what their order is.
LEMMA TypeNumbers ==
  /\ \A t \in Types : Number[t] \in Nat
  /\ \A t, u \in Types : Number[t] = Number[u] => t = u
<1>1. DOMAIN Token_t = 1 .. Len(Token_t) BY DEF Token_t
<1>2. PICK s : s = Token_t OBVIOUS
<1>3. ASSUME NEW t \in Types PROVE Number[t] \in 1 .. Len(s) /\ s[Number[t]] = t
  <2>1. \E n \in 1 .. Len(s) : s[n] = t BY <1>1, <1>2 DEF Types, ToSet
  <2>2. Number[t] = CHOOSE n \in 1 .. Len(s) : s[n] = t BY <1>2 DEF Number, Types
  <2> QED BY <2>1, <2>2
<1>4. \A n \in 1 .. Len(s) : n \in Nat BY DEF Token_t
<1>5. \A t \in Types : Number[t] \in Nat BY <1>3, <1>4
<1>6. ASSUME NEW t \in Types, NEW u \in Types, Number[t] = Number[u] PROVE t = u
  BY <1>3, <1>6
<1> QED BY <1>5, <1>6

\* The types that the parser looks for.
LEMMA TypeNames ==
  /\ {"nulsym", "identsym", "numbersym", "multsym", "slashsym", "lparentsym", "rparentsym",
      "semicolonsym", "periodsym"} \subseteq Types
  /\ {"eqlsym", "neqsym", "lessym", "leqsym", "gtrsym", "geqsym"} \subseteq Types
  /\ {"beginsym", "endsym", "ifsym", "thensym", "whilesym", "dosym", "callsym", "constsym",
      "varsym", "procsym", "writesym", "readsym"} \subseteq Types
<1>1. PICK s : s = Token_t OBVIOUS
<1>2. DOMAIN s = 1 .. 34 BY <1>1 DEF Token_t
<1>3. \A n \in 1 .. 34 : s[n] \in Types BY <1>1, <1>2 DEF Types, ToSet
<1>4. /\ s[1] = "nulsym" /\ s[2] = "identsym" /\ s[3] = "numbersym" /\ s[6] = "multsym"
      /\ s[7] = "slashsym" /\ s[9] = "eqlsym" /\ s[10] = "neqsym" /\ s[11] = "lessym"
      /\ s[12] = "leqsym" /\ s[13] = "gtrsym" /\ s[14] = "geqsym" /\ s[15] = "lparentsym"
      /\ s[16] = "rparentsym" /\ s[18] = "semicolonsym" /\ s[19] = "periodsym"
      /\ s[21] = "beginsym" /\ s[22] = "endsym" /\ s[23] = "ifsym" /\ s[24] = "thensym"
      /\ s[25] = "whilesym" /\ s[26] = "dosym" /\ s[27] = "callsym" /\ s[28] = "constsym"
      /\ s[29] = "varsym" /\ s[30] = "procsym" /\ s[31] = "writesym" /\ s[32] = "readsym"
  BY <1>1 DEF Token_t
<1> QED BY <1>3, <1>4

LEMMA SetElements ==
  ASSUME NEW s \in Seq(Types)
  PROVE  /\ Len(s) \in Nat /\ ToSet(s) = {s[i] : i \in 1 .. Len(s)}
         /\ \A i \in 1 .. Len(s) : s[i] \in Types /\ Number[s[i]] \in Nat
         /\ \A t : t \in ToSet(s) <=> \E i \in 1 .. Len(s) : s[i] = t
<1>1. \A i \in 1 .. Len(s) : s[i] \in Types OBVIOUS
<1>2. DOMAIN s = 1 .. Len(s) /\ Len(s) \in Nat OBVIOUS
<1>3. ToSet(s) = {s[i] : i \in 1 .. Len(s)} BY <1>2 DEF ToSet
<1> QED BY <1>1, <1>2, <1>3, TypeNumbers

\* Where the search for elem stops.
LEMMA PassedIs ==
  ASSUME NEW s \in Seq(Types), NEW elem \in Types
  PROVE  /\ Passed(elem, s) \in 0 .. Len(s)
         /\ \A i \in 1 .. Passed(elem, s) : Number[s[i]] < Number[elem]
         /\ Passed(elem, s) < Len(s) => Number[s[Passed(elem, s) + 1]] >= Number[elem]
<1> DEFINE Stops(n) == n < Len(s) => Number[s[n + 1]] >= Number[elem]
           T == {n \in Nat : n <= Len(s) /\ Stops(n)}
<1>1. Len(s) \in Nat /\ \A i \in 1 .. Len(s) : Number[s[i]] \in Nat BY SetElements
<1>2. Number[elem] \in Nat BY TypeNumbers
<1>3. Len(s) \in T BY <1>1
<1>4. PICK n \in T : \A m \in T : n <= m
  <2>1. T \in SUBSET Nat /\ T # {} BY <1>3
  <2> HIDE DEF T
  <2> QED BY <2>1, LeastNumber
<1>5. n \in Nat /\ n <= Len(s) /\ Stops(n) OBVIOUS
<1> HIDE DEF T
<1>6. ASSUME NEW i \in 1 .. n PROVE Number[s[i]] < Number[elem]
  <2>1. i - 1 \in Nat /\ i - 1 < n /\ i - 1 < Len(s) /\ i - 1 + 1 = i /\ i \in 1 .. Len(s)
    BY <1>1, <1>5
  <2>2. ~(n <= i - 1) BY <1>5, <2>1
  <2>3. i - 1 \notin T BY <1>4, <2>2
  <2>4. ~Stops(i - 1) BY <1>1, <2>1, <2>3 DEF T
  <2>5. ~(Number[s[i]] >= Number[elem]) BY <2>1, <2>4
  <2> QED BY <1>1, <1>2, <2>1, <2>5
<1>7. n \in 0 .. Len(s) BY <1>1, <1>5
<1>8. \E k \in 0 .. Len(s) :
         /\ \A i \in 1 .. k : Number[s[i]] < Number[elem]
         /\ k < Len(s) => Number[s[k + 1]] >= Number[elem]
  BY <1>5, <1>6, <1>7
<1> QED BY <1>8 DEF Passed

\* inset finds an element that is there, although it gives up at the first
\* larger one.
LEMMA InsetIs ==
  ASSUME NEW s, IsSymset(s), NEW elem \in Types
  PROVE  inset(elem, s) <=> elem \in ToSet(s)
<1>1. s \in Seq(Types) BY DEF IsSymset
<1>2. PICK n : n = Passed(elem, s) OBVIOUS
<1>3. /\ n \in 0 .. Len(s) /\ \A i \in 1 .. n : Number[s[i]] < Number[elem]
      /\ n < Len(s) => Number[s[n + 1]] >= Number[elem]
  BY <1>1, <1>2, PassedIs
<1>4. /\ Len(s) \in Nat /\ \A i \in 1 .. Len(s) : s[i] \in Types /\ Number[s[i]] \in Nat
      /\ elem \in ToSet(s) <=> \E i \in 1 .. Len(s) : s[i] = elem
  BY <1>1, SetElements
<1>5. inset(elem, s) <=> n < Len(s) /\ s[n + 1] = elem BY <1>2 DEF inset
<1>6. ASSUME n < Len(s), s[n + 1] = elem PROVE elem \in ToSet(s)
  <2>1. n + 1 \in 1 .. Len(s) BY <1>3, <1>4, <1>6
  <2> QED BY <1>4, <1>6, <2>1
<1>7. ASSUME NEW k \in 1 .. Len(s), s[k] = elem PROVE n < Len(s) /\ s[n + 1] = elem
  <2>1. Number[elem] \in Nat BY TypeNumbers
  <2>2. ~(k \in 1 .. n) BY <1>3, <1>7, <2>1
  <2>3. n < k /\ n < Len(s) /\ n + 1 \in 1 .. Len(s) /\ (n + 1 = k \/ n + 1 < k)
    BY <1>3, <1>4, <2>2
  <2>4. Number[s[n + 1]] <= Number[s[k]] BY <1>4, <2>3 DEF IsSymset
  <2>5. Number[s[n + 1]] = Number[elem] BY <1>3, <1>4, <1>7, <2>1, <2>3, <2>4
  <2>6. s[n + 1] = elem BY <1>4, <2>3, <2>5, TypeNumbers
  <2> QED BY <2>3, <2>6
<1> QED BY <1>4, <1>5, <1>6, <1>7

\* Two lists with an element between them.
LEMMA Between ==
  ASSUME NEW S, NEW a \in Seq(S), NEW e \in S, NEW b \in Seq(S)
  PROVE  LET t == (a \o <<e>>) \o b
         IN  /\ t \in Seq(S) /\ Len(t) = Len(a) + 1 + Len(b)
             /\ \A i \in 1 .. Len(a) : t[i] = a[i]
             /\ t[Len(a) + 1] = e
             /\ \A i \in 1 .. Len(b) : t[Len(a) + 1 + i] = b[i]
<1>1. PICK u : u = <<e>> OBVIOUS
<1>2. u \in Seq(S) /\ Len(u) = 1 /\ u[1] = e BY <1>1
<1>3. PICK c : c = a \o u OBVIOUS
<1>4. /\ c \in Seq(S) /\ Len(c) = Len(a) + Len(u)
      /\ \A i \in 1 .. Len(a) + Len(u) : c[i] = IF i <= Len(a) THEN a[i] ELSE u[i - Len(a)]
  BY <1>2, <1>3, ConcatProperties
<1>5. Len(a) \in Nat /\ Len(b) \in Nat OBVIOUS
<1>6. Len(c) = Len(a) + 1 /\ c[Len(a) + 1] = e /\ \A i \in 1 .. Len(a) : c[i] = a[i]
  BY <1>2, <1>4, <1>5
<1>7. PICK t : t = c \o b OBVIOUS
<1>7a. c \in Seq(S) BY <1>4
<1>8. /\ t \in Seq(S) /\ Len(t) = Len(c) + Len(b)
      /\ \A i \in 1 .. Len(c) + Len(b) : t[i] = IF i <= Len(c) THEN c[i] ELSE b[i - Len(c)]
  BY <1>7, <1>7a, ConcatProperties
<1>9. Len(t) = Len(a) + 1 + Len(b) BY <1>6, <1>8
<1>10. \A i \in 1 .. Len(a) + 1 : t[i] = c[i] BY <1>5, <1>6, <1>8
<1>11. ASSUME NEW i \in 1 .. Len(b) PROVE t[Len(a) + 1 + i] = b[i]
  <2>1. /\ Len(a) + 1 + i \in 1 .. Len(c) + Len(b) /\ ~(Len(a) + 1 + i <= Len(c))
        /\ Len(a) + 1 + i - Len(c) = i
    BY <1>5, <1>6
  <2> QED BY <1>8, <2>1
<1>12. t = (a \o <<e>>) \o b BY <1>1, <1>3, <1>7
<1> QED BY <1>5, <1>6, <1>8, <1>9, <1>10, <1>11, <1>12

\* What setinsert makes of a list.
LEMMA Inserted ==
  ASSUME NEW s \in Seq(Types), NEW elem \in Types
  PROVE  LET n == Passed(elem, s)
             t == setinsert(s, elem)
         IN  /\ t \in Seq(Types) /\ Len(t) = Len(s) + 1 /\ n \in 0 .. Len(s)
             /\ \A i \in 1 .. n : t[i] = s[i]
             /\ t[n + 1] = elem
             /\ \A i \in n + 1 .. Len(s) : t[i + 1] = s[i]
<1>1. PICK n : n = Passed(elem, s) OBVIOUS
<1>2. n \in 0 .. Len(s) /\ Len(s) \in Nat BY <1>1, PassedIs, SetElements
<1>3. setinsert(s, elem) = (SubSeq(s, 1, n) \o <<elem>>) \o SubSeq(s, n + 1, Len(s))
  <2>1. PICK m : m = n + 1 OBVIOUS
  <2>2. m - 1 = n BY <1>2, <2>1
  <2>3. InsertAt(s, m, elem) = (SubSeq(s, 1, m - 1) \o <<elem>>) \o SubSeq(s, m, Len(s))
    BY DEF InsertAt
  <2>4. setinsert(s, elem) = InsertAt(s, m, elem) BY <1>1, <2>1 DEF setinsert
  <2> QED BY <2>1, <2>2, <2>3, <2>4
<1>4. PICK a : a = SubSeq(s, 1, n) OBVIOUS
<1>5. PICK b : b = SubSeq(s, n + 1, Len(s)) OBVIOUS
<1>6. a \in Seq(Types) /\ Len(a) = n /\ \A i \in 1 .. n : a[i] = s[i]
  <2>1. \A i \in 1 .. n : s[i] \in Types BY <1>2, SetElements
  <2>2. /\ SubSeq(s, 1, n) \in Seq(Types)
        /\ Len(SubSeq(s, 1, n)) = IF 1 <= n THEN n - 1 + 1 ELSE 0
        /\ \A i \in 1 .. n - 1 + 1 : SubSeq(s, 1, n)[i] = s[1 + i - 1]
    BY <1>2, <2>1, SubSeqProperties
  <2>3. \A i \in 1 .. n : i \in 1 .. n - 1 + 1 /\ 1 + i - 1 = i BY <1>2
  <2>4. (IF 1 <= n THEN n - 1 + 1 ELSE 0) = n BY <1>2
  <2>5. \A i \in 1 .. n : SubSeq(s, 1, n)[i] = s[i] BY <2>2, <2>3
  <2> QED BY <1>4, <2>2, <2>4, <2>5
<1>7. b \in Seq(Types) /\ Len(b) = Len(s) - n /\ \A i \in 1 .. Len(s) - n : b[i] = s[n + i]
  <2>1. \A i \in n + 1 .. Len(s) : s[i] \in Types BY <1>2, SetElements
  <2>2. n + 1 \in Int /\ Len(s) \in Int BY <1>2
  <2>3. /\ SubSeq(s, n + 1, Len(s)) \in Seq(Types)
        /\ Len(SubSeq(s, n + 1, Len(s)))
             = IF n + 1 <= Len(s) THEN Len(s) - (n + 1) + 1 ELSE 0
        /\ \A i \in 1 .. Len(s) - (n + 1) + 1 :
              SubSeq(s, n + 1, Len(s))[i] = s[n + 1 + i - 1]
    BY <2>1, <2>2, SubSeqProperties
  <2>4. (IF n + 1 <= Len(s) THEN Len(s) - (n + 1) + 1 ELSE 0) = Len(s) - n BY <1>2
  <2>5. \A i \in 1 .. Len(s) - n : i \in 1 .. Len(s) - (n + 1) + 1 /\ n + 1 + i - 1 = n + i
    BY <1>2
  <2>6. \A i \in 1 .. Len(s) - n : SubSeq(s, n + 1, Len(s))[i] = s[n + i] BY <2>3, <2>5
  <2> QED BY <1>5, <2>3, <2>4, <2>6
<1>8. PICK t : t = (a \o <<elem>>) \o b OBVIOUS
<1>9. /\ t \in Seq(Types) /\ Len(t) = n + 1 + (Len(s) - n)
      /\ \A i \in 1 .. n : t[i] = a[i]
      /\ t[n + 1] = elem
      /\ \A i \in 1 .. Len(s) - n : t[n + 1 + i] = b[i]
  <2>1. a \in Seq(Types) /\ b \in Seq(Types) BY <1>6, <1>7
  <2>2. /\ t \in Seq(Types) /\ Len(t) = Len(a) + 1 + Len(b)
        /\ \A i \in 1 .. Len(a) : t[i] = a[i]
        /\ t[Len(a) + 1] = elem
        /\ \A i \in 1 .. Len(b) : t[Len(a) + 1 + i] = b[i]
    BY <1>8, <2>1, Between
  <2> QED BY <1>6, <1>7, <2>2
<1>10. n + 1 + (Len(s) - n) = Len(s) + 1 BY <1>2
<1>11. ASSUME NEW i \in n + 1 .. Len(s) PROVE t[i + 1] = s[i]
  <2>1. i - n \in 1 .. Len(s) - n /\ n + 1 + (i - n) = i + 1 /\ n + (i - n) = i BY <1>2
  <2> QED BY <1>7, <1>9, <2>1
<1>12. t = setinsert(s, elem) BY <1>3, <1>4, <1>5, <1>8
<1> QED BY <1>1, <1>2, <1>6, <1>9, <1>10, <1>11, <1>12

\* setinsert adds an element, and keeps the list sorted.
LEMMA InsertIs ==
  ASSUME NEW s, IsSymset(s), NEW elem \in Types
  PROVE  IsSymset(setinsert(s, elem)) /\ ToSet(setinsert(s, elem)) = ToSet(s) \cup {elem}
<1>1. s \in Seq(Types) BY DEF IsSymset
<1>2. PICK n : n = Passed(elem, s) OBVIOUS
<1>3. PICK t : t = setinsert(s, elem) OBVIOUS
<1>4. /\ t \in Seq(Types) /\ Len(t) = Len(s) + 1 /\ n \in 0 .. Len(s)
      /\ \A i \in 1 .. n : t[i] = s[i]
      /\ t[n + 1] = elem
      /\ \A i \in n + 1 .. Len(s) : t[i + 1] = s[i]
  BY <1>1, <1>2, <1>3, Inserted
<1>5. /\ \A i \in 1 .. n : Number[s[i]] < Number[elem]
      /\ n < Len(s) => Number[s[n + 1]] >= Number[elem]
  BY <1>1, <1>2, PassedIs
<1>6. /\ Len(s) \in Nat /\ \A i \in 1 .. Len(s) : s[i] \in Types /\ Number[s[i]] \in Nat
      /\ \A e : e \in ToSet(s) <=> \E i \in 1 .. Len(s) : s[i] = e
  BY <1>1, SetElements
<1>7. \A e : e \in ToSet(t) <=> \E i \in 1 .. Len(t) : t[i] = e BY <1>4, SetElements
<1>8. Number[elem] \in Nat BY TypeNumbers
\* What an element of t is.
<1>9. ASSUME NEW i \in 1 .. Len(t)
      PROVE  \/ i \in 1 .. n /\ i \in 1 .. Len(s) /\ t[i] = s[i]
             \/ i = n + 1 /\ t[i] = elem
             \/ i - 1 \in n + 1 .. Len(s) /\ i - 1 \in 1 .. Len(s) /\ t[i] = s[i - 1]
  <2>1. CASE i \in 1 .. n
    <3>1. i \in 1 .. Len(s) BY <1>4, <1>6, <2>1
    <3> QED BY <1>4, <2>1, <3>1
  <2>2. CASE i = n + 1 BY <1>4, <2>2
  <2>3. CASE i > n + 1
    <3>1. i - 1 \in n + 1 .. Len(s) /\ i - 1 \in 1 .. Len(s) /\ i - 1 + 1 = i
      BY <1>4, <1>6, <2>3
    <3> QED BY <1>4, <3>1
  <2>4. i \in 1 .. n \/ i = n + 1 \/ i > n + 1 BY <1>4, <1>6
  <2> QED BY <2>1, <2>2, <2>3, <2>4
<1>10. ASSUME NEW k \in n + 1 .. Len(s) PROVE Number[elem] <= Number[s[k]]
  <2>1. k \in 1 .. Len(s) /\ n + 1 \in 1 .. Len(s) /\ n < Len(s) /\ (n + 1 = k \/ n + 1 < k)
    BY <1>4, <1>6
  <2>2. Number[s[n + 1]] <= Number[s[k]] BY <1>6, <2>1 DEF IsSymset
  <2> QED BY <1>5, <1>6, <1>8, <2>1, <2>2
<1>11. ASSUME NEW i \in 1 .. Len(t), NEW j \in 1 .. Len(t), i < j
       PROVE  Number[t[i]] <= Number[t[j]]
  <2>1. CASE i \in 1 .. n /\ i \in 1 .. Len(s) /\ t[i] = s[i]
    <3>1. CASE j \in 1 .. n /\ j \in 1 .. Len(s) /\ t[j] = s[j]
      BY <1>11, <2>1, <3>1 DEF IsSymset
    <3>2. CASE j = n + 1 /\ t[j] = elem BY <1>5, <1>6, <1>8, <2>1, <3>2
    <3>3. CASE j - 1 \in n + 1 .. Len(s) /\ j - 1 \in 1 .. Len(s) /\ t[j] = s[j - 1]
      <4>1. i < j - 1 BY <1>4, <2>1, <3>3
      <4> QED BY <2>1, <3>3, <4>1 DEF IsSymset
    <3> QED BY <1>9, <3>1, <3>2, <3>3
  <2>2. CASE i = n + 1 /\ t[i] = elem
    <3>1. ~(j \in 1 .. n) /\ j # n + 1 BY <1>4, <1>11, <2>2
    <3>2. j - 1 \in n + 1 .. Len(s) /\ t[j] = s[j - 1] BY <1>9, <3>1
    <3> QED BY <1>10, <2>2, <3>2
  <2>3. CASE i - 1 \in n + 1 .. Len(s) /\ i - 1 \in 1 .. Len(s) /\ t[i] = s[i - 1]
    <3>1. ~(j \in 1 .. n) /\ j # n + 1 /\ i - 1 < j - 1 BY <1>4, <1>6, <1>11, <2>3
    <3>2. j - 1 \in 1 .. Len(s) /\ t[j] = s[j - 1] BY <1>9, <3>1
    <3> QED BY <2>3, <3>1, <3>2 DEF IsSymset
  <2> QED BY <1>9, <2>1, <2>2, <2>3
<1>12. IsSymset(t) BY <1>4, <1>11 DEF IsSymset
<1>13. ToSet(t) = ToSet(s) \cup {elem}
  <2>1. ASSUME NEW e, e \in ToSet(t) PROVE e \in ToSet(s) \cup {elem}
    <3>1. PICK i \in 1 .. Len(t) : t[i] = e BY <1>7, <2>1
    <3> QED BY <1>6, <1>9, <3>1
  <2>2. elem \in ToSet(t)
    <3>1. n + 1 \in 1 .. Len(t) BY <1>4, <1>6
    <3> QED BY <1>4, <1>7, <3>1
  <2>3. ASSUME NEW e, e \in ToSet(s) PROVE e \in ToSet(t)
    <3>1. PICK i \in 1 .. Len(s) : s[i] = e BY <1>6, <2>3
    <3>2. i \in 1 .. n \/ i \in n + 1 .. Len(s) BY <1>4, <1>6
    <3>3. i \in 1 .. Len(t) /\ i + 1 \in 1 .. Len(t) BY <1>4, <1>6
    <3> QED BY <1>4, <1>7, <3>1, <3>2, <3>3
  <2> QED BY <2>1, <2>2, <2>3
<1> QED BY <1>3, <1>12, <1>13

\* createset is a recursion of as many steps as there are elements.
Creates(set, elems) ==
  /\ createset(elems) = set[Len(elems)]
  /\ set[0] = << >>
  /\ \A n \in 1 .. Len(elems) : set[n] = setinsert(set[n - 1], elems[n])

LEMMA CreateUnfolds ==
  ASSUME NEW elems \in Seq(Types)
  PROVE  \E set : Creates(set, elems)
<1> DEFINE N == Len(elems)
           F(g) == [n \in 0 .. N |-> IF n = 0 THEN << >> ELSE setinsert(g[n - 1], elems[n])]
           set == CHOOSE g : g = F(g)
<1>1. N \in Nat /\ \A n \in 1 .. N : elems[n] \in Types OBVIOUS
<1>2. \E g : g = F(g)
  <2> DEFINE S == Seq(Types)
             upon == [p \in Nat \X S |-> IF p[1] < N THEN setinsert(p[2], elems[p[1] + 1])
                                         ELSE p[2]]
  <2>1. ASSUME NEW n \in Nat, NEW v \in S
        PROVE  upon[<<n, v>>] = IF n < N THEN setinsert(v, elems[n + 1]) ELSE v
    OBVIOUS
  <2>2. << >> \in S OBVIOUS
  <2> HIDE DEF upon
  <2>3. ASSUME NEW n \in Nat, NEW v \in S PROVE upon[<<n, v>>] \in S
    <3>1. CASE n < N
      <4>1. n + 1 \in 1 .. N BY <1>1, <3>1
      <4>2. setinsert(v, elems[n + 1]) \in S BY <1>1, <4>1, Inserted
      <4> QED BY <2>1, <3>1, <4>2
    <3>2. CASE ~(n < N) BY <2>1, <3>2
    <3> QED BY <3>1, <3>2
  <2> HIDE DEF S
  <2>4. PICK g : UpTo(N, g, S, << >>, upon) BY <1>1, <2>2, <2>3, UpToExists
  <2>5. g = [n \in 0 .. N |-> g[n]] BY <2>4 DEF UpTo
  <2>6. ASSUME NEW n \in 0 .. N
        PROVE  g[n] = IF n = 0 THEN << >> ELSE setinsert(g[n - 1], elems[n])
    <3>1. CASE n = 0 BY <2>4, <3>1 DEF UpTo
    <3>2. CASE n # 0
      <4>1. n - 1 \in 0 .. N - 1 /\ n - 1 + 1 = n /\ n - 1 \in 0 .. N /\ n - 1 < N
            /\ n - 1 \in Nat
        BY <1>1, <3>2
      <4>2. g[n] = upon[<<n - 1, g[n - 1]>>] /\ g[n - 1] \in S
        BY <2>4, <4>1 DEF UpTo
      <4>3. upon[<<n - 1, g[n - 1]>>] = setinsert(g[n - 1], elems[n])
        BY <2>1, <4>1, <4>2
      <4> QED BY <3>2, <4>2, <4>3
    <3> QED BY <3>1, <3>2
  <2>7. g = F(g) BY <2>5, <2>6
  <2> QED BY <2>7
<1>3. set = F(set) BY <1>2
<1>4. createset(elems) = set[N] BY DEF createset
<1>5. PICK g : g = set OBVIOUS
<1> HIDE DEF set
<1>6. g = F(g) BY <1>3, <1>5
<1>7. \A n \in 0 .. N : g[n] = F(g)[n] BY <1>6
<1>8. \A n \in 0 .. N : g[n] = IF n = 0 THEN << >> ELSE setinsert(g[n - 1], elems[n])
  BY <1>7
<1>9. g[0] = << >> BY <1>1, <1>8
<1>10. \A n \in 1 .. N : g[n] = setinsert(g[n - 1], elems[n]) BY <1>1, <1>8
<1>11. Creates(g, elems) BY <1>4, <1>5, <1>9, <1>10 DEF Creates
<1> QED BY <1>11

\* createset makes a sorted list of its arguments.
LEMMA CreateIs ==
  ASSUME NEW elems \in Seq(Types)
  PROVE  IsSymset(createset(elems)) /\ ToSet(createset(elems)) = ToSet(elems)
<1>1. PICK set : /\ createset(elems) = set[Len(elems)]
                 /\ set[0] = << >>
                 /\ \A n \in 1 .. Len(elems) : set[n] = setinsert(set[n - 1], elems[n])
  BY CreateUnfolds DEF Creates
<1>2. Len(elems) \in Nat /\ \A n \in 1 .. Len(elems) : elems[n] \in Types OBVIOUS
<1> DEFINE First(n) == {elems[i] : i \in 1 .. n}
           T == {n \in Nat : n <= Len(elems) => IsSymset(set[n]) /\ ToSet(set[n]) = First(n)}
<1>3. 0 \in T
  <2>1. << >> \in Seq(Types) /\ Len(<< >>) = 0 OBVIOUS
  <2>2. PICK s \in Seq(Types) : s = << >> BY <2>1
  <2>3. Len(s) = 0 BY <2>1, <2>2
  <2>4. ToSet(s) = {}
    <3>1. \A e : e \in ToSet(s) <=> \E i \in 1 .. Len(s) : s[i] = e BY SetElements
    <3> QED BY <2>3, <3>1
  <2>5. IsSymset(s) BY <2>3 DEF IsSymset
  <2>6. First(0) = {} OBVIOUS
  <2> QED BY <1>1, <2>2, <2>4, <2>5, <2>6
<1>4. ASSUME NEW n \in T PROVE n + 1 \in T
  <2>1. n \in Nat OBVIOUS
  <2> SUFFICES ASSUME n + 1 <= Len(elems)
               PROVE  IsSymset(set[n + 1]) /\ ToSet(set[n + 1]) = First(n + 1)
    BY <2>1
  <2>2. n <= Len(elems) /\ n + 1 \in 1 .. Len(elems) /\ n + 1 - 1 = n BY <1>2, <2>1
  <2>3. IsSymset(set[n]) /\ ToSet(set[n]) = First(n) BY <2>2
  <2>4. set[n + 1] = setinsert(set[n], elems[n + 1]) BY <1>1, <2>2
  <2>5. elems[n + 1] \in Types BY <1>2, <2>2
  <2>6. First(n + 1) = First(n) \cup {elems[n + 1]}
    <3>1. 1 .. n + 1 = (1 .. n) \cup {n + 1} BY <2>1
    <3> QED BY <3>1
  <2> HIDE DEF First, T
  <2> QED BY <2>3, <2>4, <2>5, <2>6, InsertIs
<1>5. T \in SUBSET Nat OBVIOUS
<1> HIDE DEF T
<1>6. T = Nat BY <1>3, <1>4, <1>5, Induction
<1>7. Len(elems) \in T BY <1>2, <1>6
<1>8. IsSymset(set[Len(elems)]) /\ ToSet(set[Len(elems)]) = First(Len(elems))
  BY <1>2, <1>7 DEF T
<1>9. ToSet(elems) = First(Len(elems)) BY SetElements
<1> QED BY <1>1, <1>8, <1>9

\* The empty list is a symbol set.
LEMMA EmptyIs == IsSymset(<< >>) /\ ToSet(<< >>) = {}
<1>1. << >> \in Seq(Types) /\ Len(<< >>) = 0 OBVIOUS
<1>2. PICK s \in Seq(Types) : s = << >> BY <1>1
<1>3. Len(s) = 0 BY <1>1, <1>2
<1>4. \A e : e \in ToSet(s) <=> \E i \in 1 .. Len(s) : s[i] = e BY SetElements
<1>5. ToSet(s) = {} BY <1>3, <1>4
<1>6. IsSymset(s) BY <1>3 DEF IsSymset
<1> QED BY <1>2, <1>5, <1>6

\* A sorted list with an element behind it that is no smaller than any in it.
LEMMA SortedAppend ==
  ASSUME NEW s, IsSymset(s), NEW e \in Types,
         \A k \in 1 .. Len(s) : Number[s[k]] <= Number[e]
  PROVE  /\ IsSymset(Append(s, e)) /\ ToSet(Append(s, e)) = ToSet(s) \cup {e}
         /\ Len(Append(s, e)) = Len(s) + 1
         /\ \A k \in 1 .. Len(s) : Append(s, e)[k] = s[k]
         /\ Append(s, e)[Len(s) + 1] = e
<1> DEFINE t == Append(s, e)
<1>1. s \in Seq(Types) /\ Len(s) \in Nat BY DEF IsSymset
<1>2. /\ t \in Seq(Types) /\ Len(t) = Len(s) + 1 /\ t[Len(s) + 1] = e
      /\ \A k \in 1 .. Len(s) : t[k] = s[k]
  BY <1>1
<1> HIDE DEF t
<1>3. \A k \in 1 .. Len(t) : k \in 1 .. Len(s) \/ k = Len(s) + 1 BY <1>1, <1>2
<1>4. ASSUME NEW i \in 1 .. Len(t), NEW j \in 1 .. Len(t), i < j
      PROVE  Number[t[i]] <= Number[t[j]]
  <2>1. i \in 1 .. Len(s) BY <1>1, <1>2, <1>4
  <2>2. CASE j \in 1 .. Len(s) BY <1>2, <1>4, <2>1, <2>2 DEF IsSymset
  <2>3. CASE j = Len(s) + 1 BY <1>2, <2>1, <2>3
  <2> QED BY <1>3, <2>2, <2>3
<1>5. IsSymset(t) BY <1>2, <1>4 DEF IsSymset
<1>6. ToSet(t) = ToSet(s) \cup {e}
  <2>1. ToSet(t) = {t[i] : i \in 1 .. Len(t)} BY <1>2, SetElements
  <2>2. ToSet(s) = {s[i] : i \in 1 .. Len(s)} BY <1>1, SetElements
  <2>3. \A k \in 1 .. Len(s) : k \in 1 .. Len(t) BY <1>1, <1>2
  <2>4. Len(s) + 1 \in 1 .. Len(t) BY <1>1, <1>2
  <2> QED BY <1>2, <1>3, <2>1, <2>2, <2>3, <2>4
<1> QED BY <1>2, <1>5, <1>6 DEF t

\* No element of a is larger than one of b.
NoneAbove(a, b) == \A t \in ToSet(a), u \in ToSet(b) : Number[t] <= Number[u]

\* A sorted list is its head and a sorted tail with nothing smaller in it.
LEMMA SortedTail ==
  ASSUME NEW s, IsSymset(s), s # << >>
  PROVE  /\ IsSymset(Tail(s)) /\ Head(s) \in Types /\ Len(Tail(s)) = Len(s) - 1
         /\ ToSet(s) = ToSet(Tail(s)) \cup {Head(s)}
         /\ \A u \in ToSet(Tail(s)) : Number[Head(s)] <= Number[u]
<1>1. s \in Seq(Types) /\ Len(s) \in Nat \ {0} BY DEF IsSymset
<1>2. PICK t : t = Tail(s) OBVIOUS
<1>3. PICK h : h = Head(s) OBVIOUS
<1>4. /\ t \in Seq(Types) /\ Len(t) = Len(s) - 1 /\ h = s[1]
      /\ \A i \in 1 .. Len(t) : t[i] = s[i + 1]
  BY <1>1, <1>2, <1>3
<1>5. 1 \in 1 .. Len(s) /\ h \in Types BY <1>1, <1>4
<1>6. \A i \in 1 .. Len(t) : i + 1 \in 1 .. Len(s) /\ 1 < i + 1 BY <1>1, <1>4
<1>7. IsSymset(t)
  <2>1. ASSUME NEW i \in 1 .. Len(t), NEW j \in 1 .. Len(t), i < j
        PROVE  Number[t[i]] <= Number[t[j]]
    <3>1. i + 1 \in 1 .. Len(s) /\ j + 1 \in 1 .. Len(s) /\ i + 1 < j + 1 BY <1>6, <2>1
    <3> QED BY <1>4, <3>1 DEF IsSymset
  <2> QED BY <1>4, <2>1 DEF IsSymset
<1>8. /\ \A e : e \in ToSet(s) <=> \E i \in 1 .. Len(s) : s[i] = e
      /\ \A e : e \in ToSet(t) <=> \E i \in 1 .. Len(t) : t[i] = e
  BY <1>1, <1>4, SetElements
<1>9. ASSUME NEW e \in ToSet(s) PROVE e \in ToSet(t) \/ e = h
  <2>1. PICK i \in 1 .. Len(s) : s[i] = e BY <1>8
  <2>2. CASE i = 1 BY <1>4, <2>1, <2>2
  <2>3. CASE i # 1
    <3>1. i - 1 \in 1 .. Len(t) /\ i - 1 + 1 = i BY <1>1, <1>4, <2>3
    <3> QED BY <1>4, <1>8, <2>1, <3>1
  <2> QED BY <2>2, <2>3
<1>10. ASSUME NEW e \in ToSet(t) PROVE e \in ToSet(s) /\ Number[h] <= Number[e]
  <2>1. PICK i \in 1 .. Len(t) : t[i] = e BY <1>8
  <2>2. i + 1 \in 1 .. Len(s) /\ 1 < i + 1 /\ s[i + 1] = e BY <1>4, <1>6, <2>1
  <2> QED BY <1>4, <1>5, <1>8, <2>2 DEF IsSymset
<1>11. h \in ToSet(s) BY <1>4, <1>5, <1>8
<1>12. ToSet(s) = ToSet(t) \cup {h} BY <1>9, <1>10, <1>11
<1> QED BY <1>2, <1>3, <1>4, <1>5, <1>7, <1>10, <1>12

\* A sorted list behind another whose elements are no larger.
LEMMA SortedConcat ==
  ASSUME NEW a, IsSymset(a), NEW b, IsSymset(b), NoneAbove(a, b)
  PROVE  IsSymset(a \o b) /\ ToSet(a \o b) = ToSet(a) \cup ToSet(b)
<1>1. a \in Seq(Types) /\ b \in Seq(Types) /\ Len(a) \in Nat /\ Len(b) \in Nat
  BY DEF IsSymset
<1>2. PICK t : t = a \o b OBVIOUS
<1>3. /\ t \in Seq(Types) /\ Len(t) = Len(a) + Len(b)
      /\ \A i \in 1 .. Len(a) + Len(b) : t[i] = IF i <= Len(a) THEN a[i] ELSE b[i - Len(a)]
  BY <1>1, <1>2, ConcatProperties
<1>4. /\ \A e : e \in ToSet(a) <=> \E i \in 1 .. Len(a) : a[i] = e
      /\ \A e : e \in ToSet(b) <=> \E i \in 1 .. Len(b) : b[i] = e
      /\ \A e : e \in ToSet(t) <=> \E i \in 1 .. Len(t) : t[i] = e
  BY <1>1, <1>3, SetElements
<1>5. \A i \in 1 .. Len(a) : i \in 1 .. Len(t) /\ t[i] = a[i] BY <1>1, <1>3
<1>6. ASSUME NEW i \in 1 .. Len(b)
      PROVE  Len(a) + i \in 1 .. Len(t) /\ t[Len(a) + i] = b[i]
  <2>1. Len(a) + i \in 1 .. Len(a) + Len(b) /\ ~(Len(a) + i <= Len(a))
        /\ Len(a) + i - Len(a) = i
    BY <1>1
  <2> QED BY <1>3, <2>1
<1>7. ASSUME NEW k \in 1 .. Len(t)
      PROVE  \/ k \in 1 .. Len(a) /\ t[k] = a[k]
             \/ k - Len(a) \in 1 .. Len(b) /\ t[k] = b[k - Len(a)]
  <2>1. CASE k <= Len(a) BY <1>1, <1>3, <2>1
  <2>2. CASE ~(k <= Len(a)) BY <1>1, <1>3, <2>2
  <2> QED BY <2>1, <2>2
<1>8. ASSUME NEW i \in 1 .. Len(t), NEW j \in 1 .. Len(t), i < j
      PROVE  Number[t[i]] <= Number[t[j]]
  <2>1. CASE j \in 1 .. Len(a)
    <3>1. i \in 1 .. Len(a) BY <1>1, <1>8, <2>1
    <3> QED BY <1>5, <1>8, <2>1, <3>1 DEF IsSymset
  <2>2. CASE i - Len(a) \in 1 .. Len(b) /\ j - Len(a) \in 1 .. Len(b)
    <3>1. PICK l : l = i - Len(a) OBVIOUS
    <3>2. PICK m : m = j - Len(a) OBVIOUS
    <3>3. l \in 1 .. Len(b) /\ m \in 1 .. Len(b) /\ l < m BY <1>1, <1>8, <2>2, <3>1, <3>2
    <3>4. Len(a) + l = i /\ Len(a) + m = j BY <1>1, <3>1, <3>2
    <3>5. t[i] = b[l] /\ t[j] = b[m] BY <1>6, <3>3, <3>4
    <3> QED BY <3>3, <3>5 DEF IsSymset
  <2>3. CASE i \in 1 .. Len(a) /\ j - Len(a) \in 1 .. Len(b)
    <3>1. t[i] \in ToSet(a) BY <1>4, <1>5, <2>3
    <3>2. PICK m : m = j - Len(a) OBVIOUS
    <3>3. m \in 1 .. Len(b) /\ Len(a) + m = j BY <1>1, <2>3, <3>2
    <3>4. t[j] = b[m] BY <1>6, <3>3
    <3>5. t[j] \in ToSet(b) BY <1>4, <3>3, <3>4
    <3> QED BY <3>1, <3>5 DEF NoneAbove
  <2> QED BY <1>7, <2>1, <2>2, <2>3
<1>9. IsSymset(t) BY <1>3, <1>8 DEF IsSymset
<1>10. ToSet(t) = ToSet(a) \cup ToSet(b)
  <2>1. \A e : e \in ToSet(t) => e \in ToSet(a) \cup ToSet(b) BY <1>4, <1>7
  <2>2. \A e : e \in ToSet(a) \cup ToSet(b) => e \in ToSet(t) BY <1>4, <1>5, <1>6
  <2> QED BY <2>1, <2>2
<1> QED BY <1>2, <1>9, <1>10

\* The stages of a merge.
Stages == [done : Lists, s1 : Lists, s2 : Lists]

Left(m) == Len(m.s1) + Len(m.s2)

LEMMA StageIs ==
  ASSUME NEW m \in Stages
  PROVE  /\ m.done \in Seq(Types) /\ m.s1 \in Seq(Types) /\ m.s2 \in Seq(Types)
         /\ Len(m.s1) \in Nat /\ Len(m.s2) \in Nat /\ Left(m) \in Nat
  BY DEF Stages, Lists, Types, Left

LEMMA MergedStage ==
  ASSUME NEW m \in Stages
  PROVE  Merged[m] \in Stages
<1>1. PICK d \in Seq(Types) : d = m.done BY StageIs
<1>2. PICK a \in Seq(Types) : a = m.s1 BY StageIs
<1>3. PICK b \in Seq(Types) : b = m.s2 BY StageIs
<1>4. ASSUME NEW x \in Seq(Types), NEW y \in Seq(Types), NEW z \in Seq(Types)
      PROVE  [done |-> x, s1 |-> y, s2 |-> z] \in Stages
  BY DEF Stages, Lists, Types
<1>5. << >> \in Seq(Types) OBVIOUS
<1>6. CASE a = << >> \/ b = << >>
  <2>1. Merged[m] = [done |-> d \o (IF b # << >> THEN b ELSE a), s1 |-> << >>, s2 |-> << >>]
    BY <1>1, <1>2, <1>3, <1>6 DEF Merged, Stages
  <2>2. PICK c \in Seq(Types) : c = IF b # << >> THEN b ELSE a OBVIOUS
  <2>3. d \o c \in Seq(Types) BY ConcatProperties
  <2> QED BY <1>4, <1>5, <2>1, <2>2, <2>3
<1>7. CASE a # << >> /\ b # << >> /\ Number[Head(a)] < Number[Head(b)]
  <2>1. Merged[m] = [done |-> Append(d, Head(a)), s1 |-> Tail(a), s2 |-> b]
    BY <1>1, <1>2, <1>3, <1>7 DEF Merged, Stages
  <2>2. Append(d, Head(a)) \in Seq(Types) /\ Tail(a) \in Seq(Types) BY <1>7
  <2> QED BY <1>4, <2>1, <2>2
<1>8. CASE a # << >> /\ b # << >> /\ ~(Number[Head(a)] < Number[Head(b)])
  <2>1. Merged[m] = [done |-> Append(d, Head(b)), s1 |-> a, s2 |-> Tail(b)]
    BY <1>1, <1>2, <1>3, <1>8 DEF Merged, Stages
  <2>2. Append(d, Head(b)) \in Seq(Types) /\ Tail(b) \in Seq(Types) BY <1>8
  <2> QED BY <1>4, <2>1, <2>2
<1> QED BY <1>6, <1>7, <1>8

\* uniteset is a recursion: one stage after the other, from the two lists on.
Merges(merge, s1, s2) ==
  /\ uniteset(s1, s2) = merge[Len(s1) + Len(s2)].done
  /\ merge[0] = [done |-> << >>, s1 |-> s1, s2 |-> s2]
  /\ \A n \in Nat : merge[n] \in Stages /\ merge[n + 1] = Merged[merge[n]]

LEMMA UniteUnfolds ==
  ASSUME NEW s1 \in Seq(Types), NEW s2 \in Seq(Types)
  PROVE  \E merge : Merges(merge, s1, s2)
<1> DEFINE first == [done |-> << >>, s1 |-> s1, s2 |-> s2]
           F(g) == [n \in Nat |-> IF n = 0 THEN first ELSE Merged[g[n - 1]]]
           merge == CHOOSE g : g = F(g)
<1>1. first \in Stages
  <2>1. << >> \in Seq(Types) OBVIOUS
  <2> QED BY <2>1 DEF Stages, Lists, Types
<1> HIDE DEF first
<1>2. \E g : g = F(g)
  <2> DEFINE upon == [p \in Nat \X Stages |-> Merged[p[2]]]
  <2>1. \A n \in Nat, v \in Stages : upon[<<n, v>>] = Merged[v] OBVIOUS
  <2> HIDE DEF upon
  <2>2. \A n \in Nat, v \in Stages : upon[<<n, v>>] \in Stages BY <2>1, MergedStage
  <2>3. PICK g : Follows(g, Stages, first, upon) BY <1>1, <2>2, RecursiveFunction
  <2>4. g = [n \in Nat |-> g[n]] BY <2>3 DEF Follows
  <2>5. ASSUME NEW n \in Nat
        PROVE  g[n] = IF n = 0 THEN first ELSE Merged[g[n - 1]]
    <3>1. CASE n = 0 BY <2>3, <3>1 DEF Follows
    <3>2. CASE n # 0
      <4>1. n - 1 \in Nat /\ n - 1 + 1 = n BY <3>2
      <4>2. g[n] = upon[<<n - 1, g[n - 1]>>] /\ g[n - 1] \in Stages
        BY <2>3, <4>1 DEF Follows
      <4>3. upon[<<n - 1, g[n - 1]>>] = Merged[g[n - 1]] BY <2>1, <4>1, <4>2
      <4> QED BY <3>2, <4>2, <4>3
    <3> QED BY <3>1, <3>2
  <2>6. g = F(g) BY <2>4, <2>5
  <2> QED BY <2>6
<1>3. merge = F(merge) BY <1>2
<1>4. uniteset(s1, s2) = merge[Len(s1) + Len(s2)].done BY DEF uniteset, first
<1>5. PICK g : g = merge OBVIOUS
<1> HIDE DEF merge
<1>6. g = F(g) BY <1>3, <1>5
<1>7. \A n \in Nat : g[n] = F(g)[n] BY <1>6
<1>8. \A n \in Nat : g[n] = IF n = 0 THEN first ELSE Merged[g[n - 1]] BY <1>7
<1>9. g[0] = first BY <1>8
<1>10. ASSUME NEW n \in Nat PROVE g[n + 1] = Merged[g[n]]
  <2>1. n + 1 \in Nat /\ n + 1 # 0 /\ n + 1 - 1 = n OBVIOUS
  <2> QED BY <1>8, <2>1
<1> DEFINE T == {n \in Nat : g[n] \in Stages}
<1>11. 0 \in T BY <1>1, <1>9
<1>12. ASSUME NEW n \in T PROVE n + 1 \in T
  <2>1. n \in Nat /\ n + 1 \in Nat /\ g[n] \in Stages OBVIOUS
  <2>2. g[n + 1] \in Stages BY <1>10, <2>1, MergedStage
  <2> QED BY <2>1, <2>2
<1>13. T = Nat
  <2>1. T \in SUBSET Nat OBVIOUS
  <2> HIDE DEF T
  <2> QED BY <1>11, <1>12, <2>1, Induction
<1>14. \A n \in Nat : g[n] \in Stages BY <1>13
<1>15. Merges(g, s1, s2) BY <1>4, <1>5, <1>9, <1>10, <1>14 DEF Merges, first
<1> QED BY <1>15

\* What holds of every stage: the three lists are sorted, nothing done is
\* larger than what is left, and no element is lost.
Merging(s1, s2, m) ==
  /\ IsSymset(m.done) /\ IsSymset(m.s1) /\ IsSymset(m.s2)
  /\ NoneAbove(m.done, m.s1) /\ NoneAbove(m.done, m.s2)
  /\ ToSet(m.done) \cup ToSet(m.s1) \cup ToSet(m.s2) = ToSet(s1) \cup ToSet(s2)

\* The head of a sorted list that is no smaller than h is no smaller in any of
\* its elements.
LEMMA HeadIsLeast ==
  ASSUME NEW s, IsSymset(s), s # << >>, NEW h \in Types, Number[h] <= Number[Head(s)]
  PROVE  \A u \in ToSet(s) : Number[h] <= Number[u]
<1>1. PICK e : e = Head(s) OBVIOUS
<1>2. /\ e \in Types /\ IsSymset(Tail(s)) /\ ToSet(s) = ToSet(Tail(s)) \cup {e}
      /\ \A u \in ToSet(Tail(s)) : Number[e] <= Number[u]
  BY <1>1, SortedTail
<1>3. s \in Seq(Types) BY DEF IsSymset
<1>4. \A u \in ToSet(s) : u \in Types BY <1>3, SetElements
<1>5. \A u \in ToSet(s) : Number[e] <= Number[u] BY <1>2, TypeNumbers
<1>6. Number[h] <= Number[e] BY <1>1
<1> QED BY <1>2, <1>4, <1>5, <1>6, TypeNumbers

LEMMA AppendedIs ==
  ASSUME NEW s, IsSymset(s), NEW e \in Types, \A u \in ToSet(s) : Number[u] <= Number[e]
  PROVE  IsSymset(Append(s, e)) /\ ToSet(Append(s, e)) = ToSet(s) \cup {e}
<1>1. s \in Seq(Types) BY DEF IsSymset
<1>2. \A k \in 1 .. Len(s) : Number[s[k]] <= Number[e] BY <1>1, SetElements
<1> QED BY <1>2, SortedAppend

LEMMA MergedKeeps ==
  ASSUME NEW s1, NEW s2, NEW m \in Stages, Merging(s1, s2, m)
  PROVE  /\ Merging(s1, s2, Merged[m])
         /\ Left(Merged[m]) = 0 \/ Left(Merged[m]) = Left(m) - 1
<1>1. PICK d : d = m.done OBVIOUS
<1>2. PICK a : a = m.s1 OBVIOUS
<1>3. PICK b : b = m.s2 OBVIOUS
<1>4. PICK r : r = Merged[m] OBVIOUS
<1>5. PICK all : all = ToSet(s1) \cup ToSet(s2) OBVIOUS
<1>6. /\ IsSymset(d) /\ IsSymset(a) /\ IsSymset(b) /\ NoneAbove(d, a) /\ NoneAbove(d, b)
      /\ ToSet(d) \cup ToSet(a) \cup ToSet(b) = all
  BY <1>1, <1>2, <1>3, <1>5 DEF Merging
<1>7. ASSUME NEW x, NEW y, NEW z, r = [done |-> x, s1 |-> y, s2 |-> z],
             IsSymset(x), IsSymset(y), IsSymset(z), NoneAbove(x, y), NoneAbove(x, z),
             ToSet(x) \cup ToSet(y) \cup ToSet(z) = all
      PROVE  Merging(s1, s2, r) /\ Left(r) = Len(y) + Len(z)
  <2>1. r.done = x /\ r.s1 = y /\ r.s2 = z BY <1>7
  <2> QED BY <1>5, <1>7, <2>1 DEF Merging, Left
<1>8. Len(a) \in Nat /\ Len(b) \in Nat /\ Left(m) = Len(a) + Len(b)
  BY <1>2, <1>3, StageIs DEF Left
<1>9. CASE a = << >> \/ b = << >>
  <2>1. PICK c : c = IF b # << >> THEN b ELSE a OBVIOUS
  <2>2. r = [done |-> d \o c, s1 |-> << >>, s2 |-> << >>]
    BY <1>1, <1>2, <1>3, <1>4, <1>9, <2>1 DEF Merged, Stages
  <2>3. IsSymset(c) /\ NoneAbove(d, c) BY <1>6, <2>1
  <2>4. ToSet(a) \cup ToSet(b) = ToSet(c) BY <1>9, <2>1, EmptyIs
  <2>5. IsSymset(d \o c) /\ ToSet(d \o c) = ToSet(d) \cup ToSet(c)
    BY <1>6, <2>3, SortedConcat
  <2>6. PICK e : e = << >> OBVIOUS
  <2>7. IsSymset(e) /\ ToSet(e) = {} /\ Len(e) = 0 BY <2>6, EmptyIs
  <2>8. NoneAbove(d \o c, e) BY <2>7 DEF NoneAbove
  <2>9. ToSet(d \o c) \cup ToSet(e) \cup ToSet(e) = all BY <1>6, <2>4, <2>5, <2>7
  <2>10. Merging(s1, s2, r) /\ Left(r) = Len(e) + Len(e)
    BY <1>7, <2>2, <2>5, <2>6, <2>7, <2>8, <2>9
  <2> QED BY <1>4, <2>7, <2>10
<1>10. CASE a # << >> /\ b # << >> /\ Number[Head(a)] < Number[Head(b)]
  <2>1. PICK h : h = Head(a) OBVIOUS
  <2>2. PICK t : t = Tail(a) OBVIOUS
  <2>3. r = [done |-> Append(d, h), s1 |-> t, s2 |-> b]
    BY <1>1, <1>2, <1>3, <1>4, <1>10, <2>1, <2>2 DEF Merged, Stages
  <2>4. /\ IsSymset(t) /\ h \in Types /\ Len(t) = Len(a) - 1
        /\ ToSet(a) = ToSet(t) \cup {h} /\ \A u \in ToSet(t) : Number[h] <= Number[u]
    BY <1>6, <1>10, <2>1, <2>2, SortedTail
  <2>5. \A u \in ToSet(b) : Number[h] <= Number[u]
    <3>1. Head(b) \in Types BY <1>6, <1>10, SortedTail
    <3>2. Number[h] <= Number[Head(b)] BY <1>10, <2>1, <2>4, <3>1, TypeNumbers
    <3> QED BY <1>6, <1>10, <2>4, <3>2, HeadIsLeast
  <2>6. \A u \in ToSet(d) : Number[u] <= Number[h] BY <1>6, <2>4 DEF NoneAbove
  <2>7. IsSymset(Append(d, h)) /\ ToSet(Append(d, h)) = ToSet(d) \cup {h}
    BY <1>6, <2>4, <2>6, AppendedIs
  <2>8. NoneAbove(Append(d, h), t) /\ NoneAbove(Append(d, h), b)
    BY <1>6, <2>4, <2>5, <2>7 DEF NoneAbove
  <2>9. ToSet(Append(d, h)) \cup ToSet(t) \cup ToSet(b) = all BY <1>6, <2>4, <2>7
  <2>10. Merging(s1, s2, r) /\ Left(r) = Len(t) + Len(b)
    BY <1>6, <1>7, <2>3, <2>4, <2>7, <2>8, <2>9
  <2> QED BY <1>4, <1>8, <2>4, <2>10
<1>11. CASE a # << >> /\ b # << >> /\ ~(Number[Head(a)] < Number[Head(b)])
  <2>1. PICK h : h = Head(b) OBVIOUS
  <2>2. PICK t : t = Tail(b) OBVIOUS
  <2>3. r = [done |-> Append(d, h), s1 |-> a, s2 |-> t]
    BY <1>1, <1>2, <1>3, <1>4, <1>11, <2>1, <2>2 DEF Merged, Stages
  <2>4. /\ IsSymset(t) /\ h \in Types /\ Len(t) = Len(b) - 1
        /\ ToSet(b) = ToSet(t) \cup {h} /\ \A u \in ToSet(t) : Number[h] <= Number[u]
    BY <1>6, <1>11, <2>1, <2>2, SortedTail
  <2>5. \A u \in ToSet(a) : Number[h] <= Number[u]
    <3>1. Head(a) \in Types BY <1>6, <1>11, SortedTail
    <3>2. Number[h] <= Number[Head(a)] BY <1>11, <2>1, <2>4, <3>1, TypeNumbers
    <3> QED BY <1>6, <1>11, <2>4, <3>2, HeadIsLeast
  <2>6. \A u \in ToSet(d) : Number[u] <= Number[h] BY <1>6, <2>4 DEF NoneAbove
  <2>7. IsSymset(Append(d, h)) /\ ToSet(Append(d, h)) = ToSet(d) \cup {h}
    BY <1>6, <2>4, <2>6, AppendedIs
  <2>8. NoneAbove(Append(d, h), a) /\ NoneAbove(Append(d, h), t)
    BY <1>6, <2>4, <2>5, <2>7 DEF NoneAbove
  <2>9. ToSet(Append(d, h)) \cup ToSet(a) \cup ToSet(t) = all BY <1>6, <2>4, <2>7
  <2>10. Merging(s1, s2, r) /\ Left(r) = Len(a) + Len(t)
    BY <1>6, <1>7, <2>3, <2>4, <2>7, <2>8, <2>9
  <2> QED BY <1>4, <1>8, <2>4, <2>10
<1> QED BY <1>9, <1>10, <1>11

\* uniteset makes a sorted list of the elements of both.
LEMMA UniteIs ==
  ASSUME NEW s1, IsSymset(s1), NEW s2, IsSymset(s2)
  PROVE  IsSymset(uniteset(s1, s2)) /\ ToSet(uniteset(s1, s2)) = ToSet(s1) \cup ToSet(s2)
<1>1. s1 \in Seq(Types) /\ s2 \in Seq(Types) /\ Len(s1) \in Nat /\ Len(s2) \in Nat
  BY DEF IsSymset
<1>2. PICK N : N = Len(s1) + Len(s2) OBVIOUS
<1>3. PICK merge : /\ uniteset(s1, s2) = merge[N].done
                   /\ merge[0] = [done |-> << >>, s1 |-> s1, s2 |-> s2]
                   /\ \A n \in Nat : merge[n] \in Stages /\ merge[n + 1] = Merged[merge[n]]
  <2>1. PICK merge : Merges(merge, s1, s2) BY <1>1, UniteUnfolds
  <2> QED BY <1>2, <2>1 DEF Merges
<1>7. N \in Nat BY <1>1, <1>2
<1> DEFINE T == {n \in Nat : /\ Merging(s1, s2, merge[n])
                             /\ Left(merge[n]) = 0 \/ Left(merge[n]) = N - n}
<1>4. 0 \in T
  <2>1. PICK m : m = merge[0] OBVIOUS
  <2>2. m.done = << >> /\ m.s1 = s1 /\ m.s2 = s2 BY <1>3, <2>1
  <2>3. IsSymset(m.done) /\ ToSet(m.done) = {} BY <2>2, EmptyIs
  <2>4. Merging(s1, s2, m) BY <2>2, <2>3 DEF Merging, NoneAbove
  <2>5. Left(m) = N - 0 BY <1>1, <1>2, <2>2 DEF Left
  <2> QED BY <2>1, <2>4, <2>5
<1>5. ASSUME NEW n \in T PROVE n + 1 \in T
  <2>1. PICK m : m = merge[n] OBVIOUS
  <2>2. /\ n \in Nat /\ n + 1 \in Nat /\ Merging(s1, s2, m)
        /\ Left(m) = 0 \/ Left(m) = N - n
    BY <2>1
  <2>3. m \in Stages /\ merge[n + 1] = Merged[m] BY <1>3, <2>1, <2>2
  <2>4. PICK r : r = Merged[m] OBVIOUS
  <2>5. /\ Merging(s1, s2, r)
        /\ Left(r) = 0 \/ Left(r) = Left(m) - 1
    BY <2>2, <2>3, <2>4, MergedKeeps
  <2>6. Left(m) \in Nat BY <2>3, StageIs
  <2>7. Left(r) = 0 \/ Left(r) = N - (n + 1)
    <3>1. r \in Stages
      <4>1. m \in Stages BY <2>3
      <4> QED BY <2>4, <4>1, MergedStage
    <3>2. Left(r) \in Nat BY <3>1, StageIs
    <3> QED BY <2>2, <2>5, <2>6, <3>2, <1>7
  <2> QED BY <2>2, <2>3, <2>4, <2>5, <2>7
<1>6. T = Nat
  <2>1. T \in SUBSET Nat OBVIOUS
  <2> HIDE DEF T
  <2> QED BY <1>4, <1>5, <2>1, Induction
<1>8. PICK m : m = merge[N] OBVIOUS
<1>9. Merging(s1, s2, m) /\ Left(m) = 0 /\ m \in Stages
  <2>1. N \in T BY <1>6, <1>7
  <2>2. Merging(s1, s2, m) BY <1>8, <2>1
  <2>3. Left(merge[N]) = 0 \/ Left(merge[N]) = N - N BY <2>1
  <2>4. Left(m) = 0 BY <1>7, <1>8, <2>3
  <2>5. merge[N] \in Stages BY <1>3, <1>7
  <2>6. m \in Stages BY <1>8, <2>5
  <2> QED BY <2>2, <2>4, <2>6
<1>10. Len(m.s1) = 0 /\ Len(m.s2) = 0
  <2>1. Len(m.s1) \in Nat /\ Len(m.s2) \in Nat BY <1>9, StageIs
  <2>2. PICK i \in Nat : i = Len(m.s1) BY <2>1
  <2>3. PICK j \in Nat : j = Len(m.s2) BY <2>1
  <2>4. i + j = 0 BY <1>9, <2>2, <2>3 DEF Left
  <2>5. i = 0 /\ j = 0 BY <2>4
  <2> QED BY <2>2, <2>3, <2>5
<1>11. m.s1 = << >> /\ m.s2 = << >> BY <1>9, <1>10, StageIs
<1>12. ToSet(m.s1) = {} /\ ToSet(m.s2) = {} BY <1>11, EmptyIs
<1> QED BY <1>3, <1>8, <1>9, <1>12 DEF Merging

-----------------------------------------------------------------------------
(* The sets of firstAndFollowSet.                                          *)

LEMMA OneIs ==
  ASSUME NEW a \in Types
  PROVE  IsSymset(createset(<<a>>)) /\ ToSet(createset(<<a>>)) = {a}
<1>a. <<a>> \in Seq(Types) OBVIOUS
<1>1. PICK s \in Seq(Types) : s = <<a>> BY <1>a
<1>2. ToSet(s) = {a} BY <1>1 DEF ToSet
<1> QED BY <1>1, <1>2, CreateIs

LEMMA TwoAre ==
  ASSUME NEW a \in Types, NEW b \in Types
  PROVE  IsSymset(createset(<<a, b>>)) /\ ToSet(createset(<<a, b>>)) = {a, b}
<1>a. <<a, b>> \in Seq(Types) OBVIOUS
<1>1. PICK s \in Seq(Types) : s = <<a, b>> BY <1>a
<1>2. ToSet(s) = {a, b} BY <1>1 DEF ToSet
<1> QED BY <1>1, <1>2, CreateIs

LEMMA SetsAre ==
  /\ IsSymset(phi)
  /\ IsSymset(relset)
  /\ ToSet(relset) = {"eqlsym", "neqsym", "lessym", "leqsym", "gtrsym", "geqsym"}
  /\ IsSymset(facbegsys) /\ ToSet(facbegsys) = {"identsym", "numbersym", "lparentsym"}
  /\ IsSymset(declbegsys) /\ ToSet(declbegsys) = {"constsym", "varsym", "procsym"}
  /\ IsSymset(statbegsys)
  /\ ToSet(statbegsys) = {"identsym", "callsym", "beginsym", "ifsym", "whilesym",
                          "readsym", "writesym"}
<1>1. IsSymset(phi)
  <2>a. << >> \in Seq(Types) OBVIOUS
  <2>1. PICK s \in Seq(Types) : s = << >> BY <2>a
  <2> QED BY <2>1, CreateIs DEF phi
<1>2. IsSymset(relset)
      /\ ToSet(relset) = {"eqlsym", "neqsym", "lessym", "leqsym", "gtrsym", "geqsym"}
  <2>a. <<"eqlsym", "neqsym", "lessym", "leqsym", "gtrsym", "geqsym">> \in Seq(Types) BY TypeNames
  <2>1. PICK s \in Seq(Types) : s = <<"eqlsym", "neqsym", "lessym", "leqsym", "gtrsym", "geqsym">> BY <2>a
  <2>2. ToSet(s) = {"eqlsym", "neqsym", "lessym", "leqsym", "gtrsym", "geqsym"}
    BY <2>1 DEF ToSet
  <2> QED BY <2>1, <2>2, CreateIs DEF relset
<1>3. IsSymset(facbegsys) /\ ToSet(facbegsys) = {"identsym", "numbersym", "lparentsym"}
  <2>a. <<"identsym", "numbersym", "lparentsym">> \in Seq(Types) BY TypeNames
  <2>1. PICK s \in Seq(Types) : s = <<"identsym", "numbersym", "lparentsym">> BY <2>a
  <2>2. ToSet(s) = {"identsym", "numbersym", "lparentsym"} BY <2>1 DEF ToSet
  <2> QED BY <2>1, <2>2, CreateIs DEF facbegsys
<1>4. IsSymset(declbegsys) /\ ToSet(declbegsys) = {"constsym", "varsym", "procsym"}
  <2>a. <<"constsym", "varsym", "procsym">> \in Seq(Types) BY TypeNames
  <2>1. PICK s \in Seq(Types) : s = <<"constsym", "varsym", "procsym">> BY <2>a
  <2>2. ToSet(s) = {"constsym", "varsym", "procsym"} BY <2>1 DEF ToSet
  <2> QED BY <2>1, <2>2, CreateIs DEF declbegsys
<1>5. IsSymset(statbegsys)
      /\ ToSet(statbegsys) = {"identsym", "callsym", "beginsym", "ifsym", "whilesym",
                              "readsym", "writesym"}
  <2>a. <<"identsym", "callsym", "beginsym", "ifsym", "whilesym",
                                      "readsym", "writesym">> \in Seq(Types) BY TypeNames
  <2>1. PICK s \in Seq(Types) : s = <<"identsym", "callsym", "beginsym", "ifsym", "whilesym",
                                      "readsym", "writesym">> BY <2>a
  <2>2. ToSet(s) = {"identsym", "callsym", "beginsym", "ifsym", "whilesym", "readsym",
                    "writesym"}
    BY <2>1 DEF ToSet
  <2> QED BY <2>1, <2>2, CreateIs DEF statbegsys
<1> QED BY <1>1, <1>2, <1>3, <1>4, <1>5

\* What may begin a statement begins no declaration.
LEMMA SetsApart ==
  ASSUME NEW type \in Types, inset(type, uniteset(statbegsys, createset(<<"identsym">>)))
  PROVE  ~inset(type, declbegsys)
<1> DEFINE s == createset(<<"identsym">>)
<1>1. IsSymset(s) /\ ToSet(s) = {"identsym"} BY OneIs, TypeNames
<1> HIDE DEF s
<1>2. IsSymset(uniteset(statbegsys, s))
      /\ ToSet(uniteset(statbegsys, s)) = ToSet(statbegsys) \cup ToSet(s)
  BY <1>1, SetsAre, UniteIs
<1>3. type \in ToSet(statbegsys) \cup {"identsym"} BY <1>1, <1>2, InsetIs DEF s
<1> QED BY <1>3, SetsAre, InsetIs

-----------------------------------------------------------------------------
(* What holds whether or not there were errors.                            *)

\* The numbers of the errors.
Errors == 0 .. 30

\* The token is one of the file's and no comment, and no more tokens were given
\* to the parser than the file has up to here.
TokensInv == /\ tokenFile \in TokenFiles /\ pos \in 0 .. Len(tokenFile)
             /\ cur.type \in ToSet(Token_t) \ {"commentsym"}
             /\ IsSequence(read) /\ Len(read) <= pos

\* An error is never taken back, tokens have types, and levels are numbers.
Sane == errors \in Seq(Errors) /\ TokensInv /\ globalLevel \in Int

LEMMA FoundAhead ==
  ASSUME tokenFile \in TokenFiles, NEW n \in 0 .. Len(tokenFile), NEW next \in Ahead(n)
  PROVE  /\ Len(tokenFile) \in Nat /\ next.pos \in n .. Len(tokenFile)
         /\ next.token.type \in ToSet(Token_t) \ {"commentsym"}
         /\ next.token.type # "nulsym" => next.pos > n
<1>2. /\ Len(tokenFile) \in Nat /\ "nulsym" \in ToSet(Token_t)
      /\ \A p \in 1 .. Len(tokenFile) : \A t \in tokenFile[p] : t.type \in ToSet(Token_t)
  BY TokensAssumption, TypeNames DEF Types
<1>3. CASE \E p \in n + 1 .. Len(tokenFile) : \E t \in tokenFile[p] :
             next = [token |-> t, pos |-> p] /\ t.type # "commentsym"
  <2>1. PICK p \in n + 1 .. Len(tokenFile) : \E t \in tokenFile[p] :
             next = [token |-> t, pos |-> p] /\ t.type # "commentsym"
    BY <1>3
  <2>2. p \in 1 .. Len(tokenFile) /\ p \in n .. Len(tokenFile) /\ p > n BY <1>2
  <2> QED BY <1>2, <2>1, <2>2
<1>4. CASE next = [token |-> Plain("nulsym"), pos |-> Len(tokenFile)]
  BY <1>2, <1>4 DEF Plain, Token
<1>5. \/ \E p \in n + 1 .. Len(tokenFile) : \E t \in tokenFile[p] :
              next = [token |-> t, pos |-> p] /\ t.type # "commentsym"
      \/ next = [token |-> Plain("nulsym"), pos |-> Len(tokenFile)]
  <2> DEFINE Skipped(p) == \A q \in n + 1 .. p - 1 : Plain("commentsym") \in tokenFile[q]
             Found(p) == {[token |-> t, pos |-> p] :
                            t \in {u \in tokenFile[p] : u.type # "commentsym"}}
             Spots == {q \in n + 1 .. Len(tokenFile) : Skipped(q)}
             Ends == {[token |-> Plain("nulsym"), pos |-> p] :
                       p \in {q \in {Len(tokenFile)} : Skipped(q + 1)}}
  <2>1. next \in (UNION {Found(p) : p \in Spots}) \cup Ends BY DEF Ahead
  <2> HIDE DEF Skipped
  <2>2. CASE next \in Ends BY <2>2
  <2>3. CASE \E p \in Spots : next \in Found(p) BY <2>3
  <2>4. next \in Ends \/ next \in UNION {Found(p) : p \in Spots} BY <2>1
  <2>5. next \in UNION {Found(p) : p \in Spots} => \E p \in Spots : next \in Found(p)
    OBVIOUS
  <2> HIDE DEF Found, Spots, Ends
  <2> QED BY <2>2, <2>3, <2>4, <2>5
<1> QED BY <1>2, <1>3, <1>4, <1>5

LEMMA TokenRead ==
  ASSUME TokensInv, getToken
  PROVE  TokensInv'
<1>1. PICK next \in Ahead(pos) : cur' = next.token /\ pos' = next.pos /\ tokenFile' = tokenFile
  BY DEF getToken
<1>2. /\ Len(tokenFile) \in Nat /\ pos' \in pos .. Len(tokenFile) /\ pos \in Nat
      /\ cur'.type \in ToSet(Token_t) \ {"commentsym"}
      /\ cur'.type # "nulsym" => pos' > pos
  BY <1>1, FoundAhead DEF TokensInv
<1>3. /\ IsSequence(read') /\ Len(read) \in Nat
      /\ Len(read') = Len(read) \/ (Len(read') = Len(read) + 1 /\ cur'.type # "nulsym")
  <2>1. IsSequence(read) BY DEF TokensInv
  <2>2. /\ IsSequence(Append(read, cur')) /\ Len(Append(read, cur')) = Len(read) + 1
        /\ Len(read) \in Nat
    BY <2>1, Grows
  <2>3. read' = read \/ (read' = Append(read, cur') /\ cur'.type # "nulsym") BY DEF getToken
  <2> QED BY <2>1, <2>2, <2>3
<1>4. Len(read') <= pos' BY <1>2, <1>3 DEF TokensInv
<1>5. pos' \in 0 .. Len(tokenFile) BY <1>2
<1> QED BY <1>1, <1>2, <1>3, <1>4, <1>5 DEF TokensInv

LEMMA TokensSame ==
  ASSUME Sane, \/ \E new : Reads(new)
               \/ UNCHANGED tokenVars
  PROVE  TokensInv'
<1>1. CASE \E new : Reads(new) BY <1>1, TokenRead DEF Sane, Reads
<1>2. CASE UNCHANGED tokenVars BY <1>2 DEF Sane, TokensInv, tokenVars
<1> QED BY <1>1, <1>2

LEMMA RefusalIs == Refusal \in Errors
<1>1. BlockRefusal \in Errors BY DEF BlockRefusal, Errors
<1>2. StatementRefusal \in Errors BY DEF StatementRefusal, Errors
<1>3. FactorRefusal \in Errors BY DEF FactorRefusal, Errors
<1> QED BY <1>1, <1>2, <1>3 DEF Refusal, Errors

\* What an action appends to the errors.
LEMMA ErrorsGrow ==
  ASSUME errors \in Seq(Errors), NEW t \in Seq(Errors), errors' = errors \o t
  PROVE  errors' \in Seq(Errors) /\ (errors' = << >> => errors = << >> /\ t = << >>)
<1>1. Len(errors') = Len(errors) + Len(t) /\ Len(errors) \in Nat /\ Len(t) \in Nat
      /\ errors' \in Seq(Errors)
  OBVIOUS
<1>2. \A s \in Seq(Errors) : s = << >> <=> Len(s) = 0 OBVIOUS
<1> QED BY <1>1, <1>2

LEMMA ErrorMore ==
  ASSUME errors \in Seq(Errors), NEW e \in Errors, errors' = Append(errors, e)
  PROVE  errors' \in Seq(Errors) /\ errors' # << >>
<1>1. errors' \in Seq(Errors) /\ Len(errors') = Len(errors) + 1 /\ Len(errors) \in Nat OBVIOUS
<1> QED BY <1>1

\* What an assignment reports.
LEMMA AssignReports == AssignErrors \in Seq(Errors)
<1>1. 11 \in Errors /\ 12 \in Errors BY DEF Errors
<1>2. AssignErrors \in {<<11>>, <<12>>, << >>} BY DEF AssignErrors, KindErrors
<1> HIDE DEF Errors
<1>3. <<11>> \in Seq(Errors) /\ <<12>> \in Seq(Errors) /\ << >> \in Seq(Errors) BY <1>1
<1> QED BY <1>2, <1>3

\* test reports what it does not find.
LEMMA TestClean ==
  ASSUME Sane, NEW s1, NEW s2, NEW e \in Errors, NEW at, Test(s1, s2, e, at)
  PROVE  /\ errors' \in Seq(Errors)
         /\ errors' = << >> => /\ errors = << >> /\ inset(cur.type, s1)
                               /\ acts' = Goto(at) /\ UNCHANGED tokenVars
         /\ UNCHANGED <<codeVars, tree, step, declVars, tokenVars>>
  BY ErrorMore DEF Test, Stays, Silent, Reports, Sane

\* What the actions of each kind leave as it is.
LEMMA BlocksSane ==
  ASSUME Sane, Blocks
  PROVE  Sane' /\ (errors' = << >> => errors = << >>)
<1>1. CASE Const \/ Var \/ Procedure
  <2>1. \/ \E new : Reads(new)
        \/ UNCHANGED tokenVars
    BY <1>1 DEF Const, Var, Procedure, Declaration
  <2>2. errors' = errors /\ globalLevel' = globalLevel
    BY <1>1 DEF Const, Var, Procedure, Declaration, D!Crash, Silent, declVars
  <2> QED BY <2>1, <2>2, TokensSame DEF Sane
<1>2. CASE ConstName \/ ConstEq \/ EndSection \/ ProcBody \/ ProcEnd \/ EndBlock
  <2>1. \/ \E new : Reads(new)
        \/ UNCHANGED tokenVars
    BY <1>2 DEF ConstName, ConstEq, EndSection, ProcBody, ProcEnd, EndBlock, Stays
  <2>2. errors' = errors /\ globalLevel' = globalLevel
    BY <1>2 DEF ConstName, ConstEq, EndSection, ProcBody, ProcEnd, EndBlock, Silent, declVars
  <2> QED BY <2>1, <2>2, TokensSame DEF Sane
<1>3. CASE ConstVal \/ VarName \/ ProcName \/ Declared \/ ProcSpace
  <2>1. \/ \E new : Reads(new)
        \/ UNCHANGED tokenVars
    BY <1>3 DEF ConstVal, VarName, ProcName, Declared, ProcSpace, Stays
  <2>2. errors' = errors
    BY <1>3 DEF ConstVal, VarName, ProcName, Declared, ProcSpace, Declares
  <2>3. globalLevel' \in {globalLevel, globalLevel + 1, globalLevel - 1}
    BY <1>3 DEF ConstVal, VarName, ProcName, Declared, ProcSpace, D!DeclareConst, D!DeclareVar,
                D!LevelTooDeep, D!OpenProcedure, D!EndDeclarations, D!CloseBlock
  <2> QED BY <2>1, <2>2, <2>3, TokensSame DEF Sane
<1>4. CASE ProcTest \/ EndDeclarations \/ BlockTail
  <2>1. \E s1, s2, at : \E e \in Errors : Test(s1, s2, e, at)
    BY <1>4 DEF ProcTest, EndDeclarations, BlockTail, Errors
  <2>2. UNCHANGED <<declVars, tokenVars>> /\ errors' \in Seq(Errors) /\ (errors' = << >> => errors = << >>)
    BY <2>1, TestClean
  <2> QED BY <2>2, TokensSame DEF Sane, declVars
<1>5. CASE EndProgram
  <2>1. UNCHANGED tokenVars BY <1>5 DEF EndProgram
  <2>2. errors' = errors \/ errors' = Append(errors, 0) BY <1>5 DEF EndProgram
  <2>3. globalLevel' \in {globalLevel, globalLevel - 1} BY <1>5 DEF EndProgram, D!CloseBlock
  <2>4. errors' \in Seq(Errors) /\ (errors' = << >> => errors = << >>)
    BY <2>2, ErrorMore DEF Sane, Errors
  <2> QED BY <2>1, <2>3, <2>4, TokensSame DEF Sane
<1> QED BY <1>1, <1>2, <1>3, <1>4, <1>5 DEF Blocks

LEMMA StatementsSane ==
  ASSUME Sane, Statements
  PROVE  Sane' /\ (errors' = << >> => errors = << >>)
<1>1. \/ \E new : Reads(new)
      \/ UNCHANGED tokenVars
  BY DEF Statements, Assign, AssignBecomes, Store, Named, CallIdent, ReadIdent, WriteIdent,
         Begin, ListStatement, End, If, Body, Else, EndIf, While, EndWhile, Empty, EndEmpty,
         Stays, Test
<1>2. globalLevel' = globalLevel
  BY DEF Statements, Assign, AssignBecomes, Store, Named, CallIdent, ReadIdent, WriteIdent,
         Begin, ListStatement, End, If, Body, Else, EndIf, While, EndWhile, Empty, EndEmpty,
         Silent, Reports, Emits, Rewrites, Test, declVars
<1>3. CASE Assign
  <2>1. errors' = errors \o AssignErrors BY <1>3 DEF Assign
  <2>2. AssignErrors \in Seq(Errors) BY AssignReports
  <2> QED BY <1>1, <1>2, <2>1, <2>2, TokensSame, ErrorsGrow DEF Sane
<1>4. CASE Empty
  <2>1. errors' \in Seq(Errors) /\ (errors' = << >> => errors = << >>)
    BY <1>4, TestClean DEF Empty, Errors
  <2> QED BY <1>1, <1>2, <2>1, TokensSame DEF Sane
<1>5. CASE ~Assign /\ ~Empty
  <2>1. errors' = errors \/ \E e \in Errors : errors' = Append(errors, e)
    BY <1>5 DEF Statements, AssignBecomes, Store, Named, CallIdent, ReadIdent, WriteIdent,
         Begin, ListStatement, End, If, Body, Else, EndIf, While, EndWhile, EndEmpty,
         Silent, Reports, Emits, Rewrites, Errors
  <2>2. errors' \in Seq(Errors) /\ (errors' = << >> => errors = << >>)
    BY <2>1, ErrorMore DEF Sane
  <2> QED BY <1>1, <1>2, <2>2, TokensSame DEF Sane
<1> QED BY <1>3, <1>4, <1>5

LEMMA ExpressionsSane ==
  ASSUME Sane, Expressions
  PROVE  Sane' /\ (errors' = << >> => errors = << >>)
<1>1. \/ \E new : Reads(new)
      \/ UNCHANGED tokenVars
  BY DEF Expressions, Condition, Odd, Relation, Compare, Expression, Operator, Operate,
         EndList, Term, FirstFactor, Factor, FactorIdent, FactorNumber, FactorOpen,
         FactorClose, EndFactor, FactorNone, Operand, Stays, Test
<1>2. globalLevel' = globalLevel
  BY DEF Expressions, Condition, Odd, Relation, Compare, Expression, Operator, Operate,
         EndList, Term, FirstFactor, Factor, FactorIdent, FactorNumber, FactorOpen,
         FactorClose, EndFactor, FactorNone, Operand, Silent, Reports, Emits, Rewrites, Test,
         declVars
<1>3. CASE Factor \/ FactorNone \/ (FactorClose /\ ~Is("rparentsym"))
  <2>1. \E s1, s2, at : \E e \in Errors : Test(s1, s2, e, at)
    BY <1>3 DEF Factor, FactorNone, FactorClose, Errors
  <2>2. errors' \in Seq(Errors) /\ (errors' = << >> => errors = << >>) BY <2>1, TestClean
  <2> QED BY <1>1, <1>2, <2>2, TokensSame DEF Sane
<1>4. CASE ~Factor /\ ~FactorNone /\ ~(FactorClose /\ ~Is("rparentsym"))
  <2>1. errors' = errors
    BY <1>4 DEF Expressions, Condition, Odd, Relation, Compare, Expression, Operator, Operate,
         EndList, Term, FirstFactor, FactorIdent, FactorNumber, FactorOpen,
         FactorClose, EndFactor, Operand, Silent, Emits, Rewrites
  <2> QED BY <1>1, <1>2, <2>1, TokensSame DEF Sane
<1> QED BY <1>3, <1>4

LEMMA SaneNext ==
  ASSUME Sane, [Next]_vars
  PROVE  Sane' /\ (errors' = << >> => errors = << >>)
<1>1. CASE UNCHANGED vars BY <1>1 DEF vars, tokenVars, declVars, Sane, TokensInv
<1>2. CASE Skip \/ EndTest
  <2>1. errors' = errors /\ globalLevel' = globalLevel
    BY <1>2 DEF Skip, EndTest, Silent, declVars
  <2>2. \/ \E new : Reads(new)
        \/ UNCHANGED tokenVars
    BY <1>2 DEF Skip, EndTest, Stays
  <2> QED BY <2>1, <2>2, TokensSame DEF Sane
<1>3. CASE Fail
  <2>1. errors' = Append(errors, Refusal) /\ globalLevel' = 0 /\ UNCHANGED tokenVars
    BY <1>3 DEF Fail
  <2> QED BY <2>1, RefusalIs, ErrorMore, TokensSame DEF Sane
<1> QED BY <1>1, <1>2, <1>3, BlocksSane, StatementsSane, ExpressionsSane DEF Next

LEMMA InitSane ==
  ASSUME Init
  PROVE  Sane
<1>1. PICK file \in TokenFiles : InitOn(file) BY DEF Init
<1>2. errors = << >> /\ globalLevel = 0 /\ tokenFile = file
  BY <1>1 DEF InitOn, D!Init
<1>3. PICK next \in Ahead(0) : cur = next.token /\ pos = next.pos BY <1>1 DEF InitOn
<1>4. 0 \in 0 .. Len(tokenFile) BY <1>2, TokensAssumption
<1>5. /\ pos \in 0 .. Len(tokenFile) /\ cur.type \in ToSet(Token_t) \ {"commentsym"}
      /\ cur.type # "nulsym" => pos > 0
  BY <1>1, <1>2, <1>3, <1>4, FoundAhead
<1>6. IsSequence(read) /\ Len(read) <= pos
  <2>1. read = << >> \/ (read = <<cur>> /\ pos > 0) BY <1>1, <1>5 DEF InitOn
  <2>2. IsSequence(<< >>) /\ IsSequence(<<cur>>) BY DEF IsSequence, Elements
  <2>3. CASE read = << >>
    <3>1. Len(read) = 0 BY <2>3
    <3> QED BY <1>5, <2>2, <2>3, <3>1
  <2>4. CASE read = <<cur>> /\ pos > 0
    <3>1. Len(read) = 1 BY <2>4
    <3> QED BY <1>5, <2>2, <2>4, <3>1
  <2> QED BY <2>1, <2>3, <2>4
<1> QED BY <1>1, <1>2, <1>5, <1>6 DEF Sane, TokensInv

-----------------------------------------------------------------------------
(* What the calls are given.                                               *)

\* The test after the declarations of a block is not given the symbols of the
\* block.
Excused(j) == acts[j].fn = "test" /\ acts[j - 1].at = "declared"

\* What a call of fn that stands at a place goes on to look for, as far as it
\* is handed on.
Keeps(fn, at) == Awaits([fn |-> fn, at |-> at]) \ LeftOut

\* Every call has a symbol set, with the symbols of all its callers in it, and
\* those that begin a statement, and what its caller goes on to look for.
SetsInv ==
  /\ \A i \in 1 .. Len(acts) : IsSymset(acts[i].fsys)
  /\ \A j \in 1 .. Len(acts) : acts[j].fn = "test" => j = Len(acts)
  /\ \A i, j \in 1 .. Len(acts) :
       i < j => ToSet(acts[i].fsys) \subseteq ToSet(acts[j].fsys) \/ Excused(j)
  /\ \A j \in 1 .. Len(acts) :
       acts[j].fn # "program" => ToSet(statbegsys) \subseteq ToSet(acts[j].fsys)
  /\ \A i \in 1 .. Len(acts) - 1 :
       Keeps(acts[i].fn, acts[i].at) \subseteq ToSet(acts[i + 1].fsys)

\* A set that a function gives to the ones it calls: its own and some more, ...
Wider(fsys) == IsSymset(fsys) /\ ToSet(Top.fsys) \subseteq ToSet(fsys)

\* ... with what it goes on to look for at the place.
Serves(at, fsys) == Keeps(Top.fn, at) \subseteq ToSet(fsys)

LEMMA TopHas ==
  ASSUME ActsInv, SetsInv
  PROVE  /\ IsSymset(Top.fsys) /\ Wider(Top.fsys)
         /\ \A s : IsSymset(s) => Wider(uniteset(s, Top.fsys)) /\ Wider(uniteset(Top.fsys, s))
<1>1. IsSymset(Top.fsys)
  <2>1. Len(acts) \in 1 .. Len(acts) /\ Top = acts[Len(acts)] BY TopIs
  <2> QED BY <2>1 DEF SetsInv
<1>2. ASSUME NEW s, IsSymset(s)
      PROVE  Wider(uniteset(s, Top.fsys)) /\ Wider(uniteset(Top.fsys, s))
  <2>1. /\ IsSymset(uniteset(s, Top.fsys)) /\ IsSymset(uniteset(Top.fsys, s))
        /\ ToSet(uniteset(s, Top.fsys)) = ToSet(s) \cup ToSet(Top.fsys)
        /\ ToSet(uniteset(Top.fsys, s)) = ToSet(Top.fsys) \cup ToSet(s)
    BY <1>1, <1>2, UniteIs
  <2> QED BY <2>1 DEF Wider
<1> QED BY <1>1, <1>2 DEF Wider

\* The innermost call goes on.
LEMMA SetsMove ==
  ASSUME ActsInv, SetsInv, Top.fn # "test", NEW b, b.fn = Top.fn, b.fsys = Top.fsys,
         acts' = Becomes(b)
  PROVE  SetsInv'
<1>1. PICK n : n = Len(acts) OBVIOUS
<1>2. n \in Nat \ {0} /\ Top = acts[n] BY <1>1, TopIs
<1>3. Len(acts') = n /\ acts'[n] = b /\ \A i \in 1 .. n - 1 : acts'[i] = acts[i]
  BY <1>1, BecomesIs
<1>4. \A i \in 1 .. n : acts'[i].fn = acts[i].fn /\ acts'[i].fsys = acts[i].fsys
  BY <1>2, <1>3
<1>5. \A j \in 1 .. n : Excused(j) => Excused(j)'
  <2> TAKE j \in 1 .. n
  <2>1. CASE acts[j].fn = "test"
    <3>1. j = n BY <1>1, <2>1 DEF SetsInv
    <3> QED BY <1>2, <2>1, <3>1
  <2> QED BY <2>1 DEF Excused
<1>6. \A j \in 1 .. n :
        acts'[j].fn # "program" => ToSet(statbegsys) \subseteq ToSet(acts'[j].fsys)
  BY <1>1, <1>4 DEF SetsInv
<1>7. ASSUME NEW i \in 1 .. n - 1
      PROVE  Keeps(acts'[i].fn, acts'[i].at) \subseteq ToSet(acts'[i + 1].fsys)
  <2>1. i + 1 \in 1 .. n BY <1>2
  <2> QED BY <1>1, <1>3, <1>4, <2>1 DEF SetsInv
<1>8. /\ \A i \in 1 .. n : IsSymset(acts'[i].fsys)
      /\ \A j \in 1 .. n : acts'[j].fn = "test" => j = n
      /\ \A i, j \in 1 .. n :
           i < j => ToSet(acts'[i].fsys) \subseteq ToSet(acts'[j].fsys) \/ Excused(j)'
  BY <1>1, <1>4, <1>5 DEF SetsInv
<1> QED BY <1>3, <1>6, <1>7, <1>8 DEF SetsInv

\* The innermost call calls another function.
LEMMA SetsCall ==
  ASSUME ActsInv, SetsInv, Top.fn # "test", NEW b, b.fn = Top.fn, b.fsys = Top.fsys,
         NEW new, Len(acts') = Len(acts) + 1,
         acts'[Len(acts)] = b, acts'[Len(acts) + 1] = new,
         \A i \in 1 .. Len(acts) - 1 : acts'[i] = acts[i],
         IsSymset(new.fsys), ToSet(statbegsys) \subseteq ToSet(new.fsys),
         Keeps(b.fn, b.at) \subseteq ToSet(new.fsys),
         Wider(new.fsys) \/ (new.fn = "test" /\ b.at = "declared")
  PROVE  SetsInv'
<1>1. PICK n : n = Len(acts) OBVIOUS
<1>2. n \in Nat \ {0} /\ Top = acts[n] /\ n \in 1 .. n BY <1>1, TopIs
<1>3. \A i \in 1 .. n : acts'[i].fn = acts[i].fn /\ acts'[i].fsys = acts[i].fsys
  BY <1>1, <1>2
<1>4. \A i \in 1 .. n : acts[i].fn # "test" /\ acts'[i].fn # "test"
  BY <1>1, <1>2, <1>3 DEF SetsInv
<1>5. \A i, j \in 1 .. n : i < j => ToSet(acts'[i].fsys) \subseteq ToSet(acts'[j].fsys)
  <2>1. \A j \in 1 .. n : ~Excused(j) BY <1>4 DEF Excused
  <2>2. \A i, j \in 1 .. n : i < j => ToSet(acts[i].fsys) \subseteq ToSet(acts[j].fsys)
    BY <1>1, <2>1 DEF SetsInv
  <2> QED BY <1>3, <2>2
<1>6. ASSUME NEW i \in 1 .. n
      PROVE  ToSet(acts'[i].fsys) \subseteq ToSet(new.fsys) \/ Excused(n + 1)'
  <2>1. CASE new.fn = "test" /\ b.at = "declared"
    <3>1. n + 1 - 1 = n BY <1>2
    <3> QED BY <1>1, <2>1, <3>1 DEF Excused
  <2>2. CASE Wider(new.fsys)
    <3>1. ToSet(acts'[n].fsys) \subseteq ToSet(new.fsys) BY <1>2, <1>3, <2>2 DEF Wider
    <3>2. i = n \/ i < n BY <1>2
    <3> QED BY <1>2, <1>5, <3>1, <3>2
  <2> QED BY <2>1, <2>2
<1>7. \A i \in 1 .. n + 1 : i \in 1 .. n \/ i = n + 1 BY <1>2
<1>8. Len(acts') = n + 1 /\ acts'[n + 1] = new BY <1>1
<1>9. \A i \in 1 .. n + 1 : IsSymset(acts'[i].fsys) BY <1>1, <1>3, <1>7, <1>8 DEF SetsInv
<1>10. \A i \in 1 .. n + 1 : acts'[i].fn = "test" => i = n + 1 BY <1>4, <1>7
<1>11. ASSUME NEW i \in 1 .. n + 1, NEW j \in 1 .. n + 1, i < j
       PROVE  ToSet(acts'[i].fsys) \subseteq ToSet(acts'[j].fsys) \/ Excused(j)'
  <2>1. CASE j = n + 1
    <3>1. i \in 1 .. n BY <1>2, <1>11, <2>1
    <3> QED BY <1>6, <1>8, <2>1, <3>1
  <2>2. CASE j \in 1 .. n
    <3>1. i \in 1 .. n BY <1>2, <1>11, <2>2
    <3> QED BY <1>5, <1>11, <2>2, <3>1
  <2> QED BY <1>7, <2>1, <2>2
<1>12. \A j \in 1 .. n + 1 :
         acts'[j].fn # "program" => ToSet(statbegsys) \subseteq ToSet(acts'[j].fsys)
  BY <1>1, <1>3, <1>7, <1>8 DEF SetsInv
<1>13. ASSUME NEW i \in 1 .. n
       PROVE  Keeps(acts'[i].fn, acts'[i].at) \subseteq ToSet(acts'[i + 1].fsys)
  <2>1. CASE i = n BY <1>1, <1>8, <2>1
  <2>2. CASE i # n
    <3>1. i \in 1 .. n - 1 /\ i + 1 \in 1 .. n BY <1>2, <2>2
    <3>2. acts'[i] = acts[i] /\ acts'[i + 1].fsys = acts[i + 1].fsys BY <1>1, <1>3, <3>1
    <3> QED BY <1>1, <3>1, <3>2 DEF SetsInv
  <2> QED BY <2>1, <2>2
<1>14. \A i \in 1 .. Len(acts') - 1 :
         Keeps(acts'[i].fn, acts'[i].at) \subseteq ToSet(acts'[i + 1].fsys)
  <2>1. Len(acts') - 1 = n BY <1>2, <1>8
  <2> QED BY <1>13, <2>1
<1>15. /\ \A i \in 1 .. Len(acts') : IsSymset(acts'[i].fsys)
       /\ \A j \in 1 .. Len(acts') : acts'[j].fn = "test" => j = Len(acts')
       /\ \A i, j \in 1 .. Len(acts') :
            i < j => ToSet(acts'[i].fsys) \subseteq ToSet(acts'[j].fsys) \/ Excused(j)'
       /\ \A j \in 1 .. Len(acts') :
            acts'[j].fn # "program" => ToSet(statbegsys) \subseteq ToSet(acts'[j].fsys)
  BY <1>8, <1>9, <1>10, <1>11, <1>12
<1> QED BY <1>14, <1>15 DEF SetsInv

\* The innermost call is over, and its caller keeps its set.
LEMMA SetsReturn ==
  ASSUME ActsInv, SetsInv, Top.fn # "program", Len(acts') = Len(acts) - 1,
         acts'[Len(acts) - 1].fn = acts[Len(acts) - 1].fn,
         acts'[Len(acts) - 1].fsys = acts[Len(acts) - 1].fsys,
         \A i \in 1 .. Len(acts) - 2 : acts'[i] = acts[i]
  PROVE  SetsInv'
<1>1. PICK n : n = Len(acts) OBVIOUS
<1>2. n \in Nat \ {0, 1} BY <1>1, TopIs DEF ActsInv
<1>3. \A i \in 1 .. n - 1 : i \in 1 .. n /\ i # n /\ (i = n - 1 \/ i \in 1 .. n - 2)
  BY <1>2
<1>4. \A i \in 1 .. n - 1 : acts'[i].fn = acts[i].fn /\ acts'[i].fsys = acts[i].fsys
  BY <1>1, <1>3
<1>5. \A i \in 1 .. n - 1 : acts[i].fn # "test" /\ ~Excused(i)
  BY <1>1, <1>3 DEF SetsInv, Excused
<1>6. \A j \in 1 .. n - 1 :
        acts'[j].fn # "program" => ToSet(statbegsys) \subseteq ToSet(acts'[j].fsys)
  BY <1>1, <1>3, <1>4 DEF SetsInv
<1>7. ASSUME NEW i \in 1 .. n - 1 - 1
      PROVE  Keeps(acts'[i].fn, acts'[i].at) \subseteq ToSet(acts'[i + 1].fsys)
  <2>1. i \in 1 .. n - 2 /\ i \in 1 .. n - 1 /\ i + 1 \in 1 .. n - 1 BY <1>2
  <2>2. acts'[i] = acts[i] /\ acts'[i + 1].fsys = acts[i + 1].fsys BY <1>1, <1>4, <2>1
  <2> QED BY <1>1, <2>1, <2>2 DEF SetsInv
<1>8. /\ \A i \in 1 .. n - 1 : IsSymset(acts'[i].fsys)
      /\ \A j \in 1 .. n - 1 : acts'[j].fn # "test"
      /\ \A i, j \in 1 .. n - 1 : i < j => ToSet(acts'[i].fsys) \subseteq ToSet(acts'[j].fsys)
  BY <1>1, <1>3, <1>4, <1>5 DEF SetsInv
<1> QED BY <1>1, <1>6, <1>7, <1>8 DEF SetsInv

-----------------------------------------------------------------------------
(* Each action.                                                            *)

SetsKept == step = "parse" => SetsInv

LEMMA MoveSets ==
  ASSUME ActsInv, SetsInv, Top.fn # "test", NEW at, NEW b, MovesOn(Top, at, b),
         acts' = Becomes(b)
  PROVE  SetsInv'
  BY SetsMove DEF MovesOn

LEMMA CallSets ==
  ASSUME ActsInv, SetsInv, Top.fn # "test", NEW a, Act(a), a.fn = Top.fn, a.fsys = Top.fsys,
         NEW at, NEW fn, NEW fsys, acts' = Calls(a, at, fn, fsys), IsSymset(fsys),
         ToSet(statbegsys) \subseteq ToSet(fsys), Serves(at, fsys),
         Wider(fsys) \/ (fn = "test" /\ at = "declared")
  PROVE  SetsInv'
<1>1. PICK b : b = Placed(a, at) OBVIOUS
<1>2. PICK new : new = Activation(fn, fsys) OBVIOUS
<1>3. b.fn = Top.fn /\ b.fsys = Top.fsys /\ b.at = at BY <1>1, AtChanged DEF Placed
<1>4. new.fn = fn /\ new.fsys = fsys BY <1>2, ActNew
<1>5. /\ Len(acts') = Len(acts) + 1 /\ acts'[Len(acts)] = b /\ acts'[Len(acts) + 1] = new
      /\ \A i \in 1 .. Len(acts) - 1 : acts'[i] = acts[i]
  BY <1>1, <1>2, CallsIs
<1>6. Keeps(b.fn, b.at) \subseteq ToSet(new.fsys) BY <1>3, <1>4 DEF Serves
<1> QED BY <1>3, <1>4, <1>5, <1>6, SetsCall

\* What begins a statement is in every wider set.
LEMMA WiderBegins ==
  ASSUME ActsInv, SetsInv, Top.fn # "program", NEW fsys, Wider(fsys)
  PROVE  ToSet(statbegsys) \subseteq ToSet(fsys)
<1>1. Len(acts) \in 1 .. Len(acts) /\ Top = acts[Len(acts)] BY TopIs
<1>2. ToSet(statbegsys) \subseteq ToSet(Top.fsys) BY <1>1 DEF SetsInv
<1> QED BY <1>2 DEF Wider

\* A call that is given a wider set, with what its caller goes on to look for.
LEMMA CallOnSets ==
  ASSUME ActsInv, SetsInv, Top.fn # "test", Top.fn # "program",
         NEW a, Act(a), a.fn = Top.fn, a.fsys = Top.fsys,
         NEW at, NEW fn, NEW fsys, acts' = Calls(a, at, fn, fsys), Wider(fsys),
         Serves(at, fsys)
  PROVE  SetsInv'
<1>1. IsSymset(fsys) BY DEF Wider
<1> QED BY <1>1, CallSets, WiderBegins

LEMMA ReturnSets ==
  ASSUME ActsInv, SetsInv, Top.fn # "program", NEW node, acts' = Returns(node)
  PROVE  SetsInv'
<1>1. /\ Len(acts') = Len(acts) - 1
      /\ acts'[Len(acts) - 1].fn = acts[Len(acts) - 1].fn
      /\ acts'[Len(acts) - 1].fsys = acts[Len(acts) - 1].fsys
      /\ \A i \in 1 .. Len(acts) - 2 : acts'[i] = acts[i]
  BY ReturnsIs
<1> QED BY <1>1, SetsReturn

LEMMA TestSets ==
  ASSUME ActsInv, SetsInv, Top.fn # "test", NEW s1, NEW s2, NEW error, NEW at,
         Test(s1, s2, error, at), IsSymset(uniteset(s1, s2)),
         ToSet(statbegsys) \subseteq ToSet(uniteset(s1, s2)), Serves(at, uniteset(s1, s2)),
         Wider(uniteset(s1, s2)) \/ at = "declared"
  PROVE  SetsInv'
<1>1. Act(Top) BY TopIs
<1>2. CASE acts' = Goto(at)
  <2>1. MovesOn(Top, at, [Top EXCEPT !.at = at]) BY <1>1, ActMoved
  <2> QED BY <1>2, <2>1, MoveSets DEF Goto
<1>3. CASE acts' = Calls(Top, at, "test", uniteset(s1, s2)) BY <1>1, <1>3, CallSets
<1> QED BY <1>2, <1>3 DEF Test, Stays

LEMMA WiderTest ==
  ASSUME ActsInv, SetsInv, Top.fn # "test", Top.fn # "program",
         NEW s1, NEW s2, NEW error, NEW at,
         Test(s1, s2, error, at), Wider(uniteset(s1, s2)), Serves(at, uniteset(s1, s2))
  PROVE  SetsInv'
<1>1. IsSymset(uniteset(s1, s2)) BY DEF Wider
<1> QED BY <1>1, TestSets, WiderBegins

\* The sets that parse.c writes out.
LEMMA Written ==
  /\ \A a, b \in {"semicolonsym", "endsym", "thensym", "dosym", "multsym", "slashsym",
                  "identsym", "procsym"} : IsSymset(createset(<<a, b>>))
  /\ \A a \in {"semicolonsym", "periodsym", "dosym", "rparentsym", "lparentsym",
               "identsym"} : IsSymset(createset(<<a>>))
<1>1. ASSUME NEW a \in {"semicolonsym", "endsym", "thensym", "dosym", "multsym", "slashsym",
                  "identsym", "procsym"},
             NEW b \in {"semicolonsym", "endsym", "thensym", "dosym", "multsym", "slashsym",
                  "identsym", "procsym"}
      PROVE  IsSymset(createset(<<a, b>>))
  <2>1. a \in Types /\ b \in Types BY TypeNames
  <2> QED BY <2>1, TwoAre
<1>2. ASSUME NEW a \in {"semicolonsym", "periodsym", "dosym", "rparentsym", "lparentsym",
               "identsym"}
      PROVE  IsSymset(createset(<<a>>))
  <2>1. a \in Types BY TypeNames
  <2> QED BY <2>1, OneIs
<1> QED BY <1>1, <1>2

\* The sets that the functions give away.
LEMMA Given ==
  ASSUME ActsInv, SetsInv
  PROVE  /\ Wider(Top.fsys) /\ Wider(ListSet) /\ Wider(FactorSet)
         /\ Wider(uniteset(createset(<<"semicolonsym">>), Top.fsys))
         /\ Wider(uniteset(createset(<<"semicolonsym", "endsym">>), Top.fsys))
         /\ Wider(uniteset(createset(<<"thensym", "dosym">>), Top.fsys))
         /\ Wider(uniteset(createset(<<"dosym">>), Top.fsys))
         /\ Wider(uniteset(createset(<<"rparentsym">>), Top.fsys))
         /\ Wider(uniteset(relset, Top.fsys))
         /\ Wider(uniteset(facbegsys, Top.fsys))
         /\ Wider(uniteset(Top.fsys, phi))
         /\ Wider(uniteset(Top.fsys, createset(<<"lparentsym">>)))
         /\ Wider(uniteset(uniteset(statbegsys, createset(<<"identsym", "procsym">>)), Top.fsys))
         /\ IsSymset(uniteset(uniteset(statbegsys, createset(<<"identsym">>)), declbegsys))
<1>1. \A s : IsSymset(s) => Wider(uniteset(s, Top.fsys)) /\ Wider(uniteset(Top.fsys, s))
  BY TopHas
<1>2. /\ IsSymset(uniteset(statbegsys, createset(<<"identsym", "procsym">>)))
      /\ IsSymset(uniteset(statbegsys, createset(<<"identsym">>)))
  BY Written, SetsAre, UniteIs
<1>3. IsSymset(uniteset(uniteset(statbegsys, createset(<<"identsym">>)), declbegsys))
  BY <1>2, SetsAre, UniteIs
<1>4. Wider(ListSet) BY <1>1, Written DEF ListSet
<1>5. Wider(FactorSet) BY <1>1, Written DEF FactorSet
<1> QED BY <1>1, <1>2, <1>3, <1>4, <1>5, Written, SetsAre, TopHas

\* Places behind which nothing is looked for that is not left out.
Content == {"tail", "store", "else", "endif", "loop", "odd", "right", "done", "none"}

\* What a function goes on to look for is in the set it gives away.
LEMMA Serving ==
  ASSUME ActsInv, SetsInv, Top.fn # "program"
  PROVE  /\ \A fsys : \A at \in Content : Serves(at, fsys)
         /\ Serves("procEnd", uniteset(createset(<<"semicolonsym">>), Top.fsys))
         /\ Serves("procSpace", uniteset(uniteset(statbegsys,
                                               createset(<<"identsym", "procsym">>)), Top.fsys))
         /\ Serves("declared", uniteset(uniteset(statbegsys, createset(<<"identsym">>)),
                                        declbegsys))
         /\ Serves("list", ListSet)
         /\ Serves("then", uniteset(createset(<<"thensym", "dosym">>), Top.fsys))
         /\ Serves("do", uniteset(createset(<<"dosym">>), Top.fsys))
         /\ Serves("relop", uniteset(relset, Top.fsys))
         /\ Serves("factor", uniteset(facbegsys, Top.fsys))
         /\ Serves("close", uniteset(createset(<<"rparentsym">>), Top.fsys))
         /\ Serves("first", FactorSet) /\ Serves("operate", FactorSet)
         /\ Top.fn = "expression" => Serves("more", FactorSet)
<1> DEFINE F == ToSet(Top.fsys)
           sem == createset(<<"semicolonsym">>)
           semEnd == createset(<<"semicolonsym", "endsym">>)
           ident == createset(<<"identsym">>)
           identProc == createset(<<"identsym", "procsym">>)
           thenDo == createset(<<"thensym", "dosym">>)
           do == createset(<<"dosym">>)
           paren == createset(<<"rparentsym">>)
           ops == createset(<<"multsym", "slashsym">>)
<1>1. IsSymset(Top.fsys) /\ ToSet(statbegsys) \subseteq F
  <2>1. Wider(Top.fsys) /\ IsSymset(Top.fsys) BY TopHas
  <2> QED BY <2>1, WiderBegins
<1>2. /\ IsSymset(sem) /\ ToSet(sem) = {"semicolonsym"}
      /\ IsSymset(ident) /\ ToSet(ident) = {"identsym"}
      /\ IsSymset(do) /\ ToSet(do) = {"dosym"}
      /\ IsSymset(paren) /\ ToSet(paren) = {"rparentsym"}
  BY OneIs, TypeNames
<1>3. /\ IsSymset(semEnd) /\ ToSet(semEnd) = {"semicolonsym", "endsym"}
      /\ IsSymset(identProc) /\ ToSet(identProc) = {"identsym", "procsym"}
      /\ IsSymset(thenDo) /\ ToSet(thenDo) = {"thensym", "dosym"}
      /\ IsSymset(ops) /\ ToSet(ops) = {"multsym", "slashsym"}
  BY TwoAre, TypeNames
<1> HIDE DEF F, sem, semEnd, ident, identProc, thenDo, do, paren, ops
<1>4. \A s : IsSymset(s) => /\ ToSet(uniteset(s, Top.fsys)) = ToSet(s) \cup F
                            /\ ToSet(uniteset(Top.fsys, s)) = F \cup ToSet(s)
  BY <1>1, UniteIs DEF F
<1>5. /\ IsSymset(uniteset(statbegsys, ident)) /\ IsSymset(uniteset(statbegsys, identProc))
      /\ ToSet(uniteset(statbegsys, ident)) = ToSet(statbegsys) \cup {"identsym"}
      /\ ToSet(uniteset(statbegsys, identProc)) = ToSet(statbegsys) \cup {"identsym", "procsym"}
  BY <1>2, <1>3, SetsAre, UniteIs
<1>6. ToSet(uniteset(uniteset(statbegsys, ident), declbegsys))
        = ToSet(statbegsys) \cup {"identsym"} \cup ToSet(declbegsys)
  BY <1>5, SetsAre, UniteIs
<1>7. ASSUME NEW at \in Content, NEW fsys PROVE Serves(at, fsys)
  BY DEF Content, Serves, Keeps, Awaits, LeftOut
<1>8. Serves("procEnd", uniteset(sem, Top.fsys))
  BY <1>2, <1>4 DEF Serves, Keeps, Awaits
<1>9. Serves("procSpace", uniteset(uniteset(statbegsys, identProc), Top.fsys))
  BY <1>4, <1>5 DEF Serves, Keeps, Awaits
<1>10. Serves("declared", uniteset(uniteset(statbegsys, ident), declbegsys))
  BY <1>6 DEF Serves, Keeps, Awaits
<1>11. Serves("list", ListSet)
  BY <1>1, <1>3, <1>4 DEF Serves, Keeps, Awaits, ListSet, semEnd
<1>12. Serves("then", uniteset(thenDo, Top.fsys)) BY <1>3, <1>4 DEF Serves, Keeps, Awaits
<1>13. Serves("do", uniteset(do, Top.fsys)) BY <1>2, <1>4 DEF Serves, Keeps, Awaits
<1>14. Serves("relop", uniteset(relset, Top.fsys))
  BY <1>4, SetsAre DEF Serves, Keeps, Awaits
<1>15. Serves("factor", uniteset(facbegsys, Top.fsys))
  BY <1>4, SetsAre DEF Serves, Keeps, Awaits
<1>16. Serves("close", uniteset(paren, Top.fsys)) BY <1>2, <1>4 DEF Serves, Keeps, Awaits
<1>17. ToSet(FactorSet) = F \cup FactorTypes BY <1>3, <1>4 DEF FactorSet, FactorTypes, ops
<1>18. Serves("first", FactorSet) BY <1>17 DEF Serves, Keeps, Awaits
<1>19. Serves("operate", FactorSet) BY <1>17 DEF Serves, Keeps, Awaits, LeftOut
<1>20. Top.fn = "expression" => Serves("more", FactorSet) BY DEF Serves, Keeps, Awaits, LeftOut
<1> QED
  BY <1>7, <1>8, <1>9, <1>10, <1>11, <1>12, <1>13, <1>14, <1>15, <1>16, <1>18, <1>19, <1>20
  DEF sem, ident, identProc, thenDo, do, paren

LEMMA BlocksSets ==
  ASSUME ActsInv, SetsInv, Blocks
  PROVE  SetsKept'
<1>a. Act(Top) BY TopIs
<1>b. EndProgram \/ Top.fn = "block"
  BY DEF Blocks, Const, ConstName, ConstEq, ConstVal, Var, VarName, EndSection, Procedure,
         ProcName, ProcBody, ProcEnd, ProcTest, ProcSpace, EndDeclarations, Declared,
         BlockTail, EndBlock, At, Waits
<1>1. CASE EndProgram BY <1>1 DEF EndProgram, SetsKept
<1>2. CASE Const \/ Var \/ Procedure
  <2>1. Top.fn = "block"
    BY <1>2 DEF Const, Var, Procedure, At, Waits
  <2>2. step' = "crashed" \/ \E at : acts' = Becomes([Top EXCEPT !.at = at])
    BY <1>2 DEF Const, Var, Procedure, Declaration, Reads, Goto
  <2>3. ASSUME NEW at, acts' = Becomes([Top EXCEPT !.at = at]) PROVE SetsInv'
    <3>1. MovesOn(Top, at, [Top EXCEPT !.at = at]) BY <1>a, ActMoved
    <3> QED BY <2>1, <2>3, <3>1, MoveSets
  <2> QED BY <2>2, <2>3 DEF SetsKept
<1>3. CASE VarName /\ ~(globalLevel < MaxLexi) BY <1>3 DEF VarName, SetsKept
<1>4. CASE \/ ConstName \/ ConstEq \/ ConstVal \/ EndSection \/ ProcName \/ ProcEnd
           \/ ProcSpace \/ (VarName /\ globalLevel < MaxLexi)
  <2>1. Top.fn = "block"
    BY <1>4 DEF ConstName, ConstEq, ConstVal, EndSection, ProcName, ProcEnd, ProcSpace,
                VarName, At, Waits
  <2>2. \E at, v : \E a \in {[Top EXCEPT !.at = at], Renamed(Top, at, v),
                              Gathered(Top, at, v)} : acts' = Becomes(a)
    <3>1. CASE ConstName BY <3>1 DEF ConstName, Reads, Renamed
    <3>2. CASE ConstEq BY <3>2 DEF ConstEq, Reads, Goto
    <3>3. CASE ConstVal BY <3>3 DEF ConstVal, Reads, Gathered
    <3>4. CASE EndSection BY <3>4 DEF EndSection, Reads, Goto
    <3>5. CASE ProcName BY <3>5 DEF ProcName, Reads, Renamed
    <3>6. CASE ProcEnd BY <3>6 DEF ProcEnd, Reads, Gathered
    <3>7. CASE ProcSpace BY <3>7 DEF ProcSpace, Stays, Goto
    <3>8. CASE VarName /\ globalLevel < MaxLexi BY <3>8 DEF VarName, Reads, Gathered
    <3> QED BY <1>4, <3>1, <3>2, <3>3, <3>4, <3>5, <3>6, <3>7, <3>8
  <2>3. PICK at, a : MovesOn(Top, at, a) /\ acts' = Becomes(a) BY <1>a, <2>2, ActMoved
  <2>4. SetsInv' BY <2>1, <2>3, MoveSets
  <2> QED BY <2>4 DEF SetsKept
<1>5. CASE ProcBody
  <2>1. acts' = Calls(Top, "procEnd", "block",
                      uniteset(createset(<<"semicolonsym">>), Top.fsys)) /\ Top.fn = "block"
    BY <1>5 DEF ProcBody, Reads, At, Waits
  <2>2. SetsInv' BY <1>a, <2>1, Given, Serving, CallOnSets
  <2> QED BY <2>2 DEF SetsKept
<1>6. CASE ProcTest \/ BlockTail
  <2>1. /\ Top.fn = "block"
        /\ \/ Test(uniteset(statbegsys, createset(<<"identsym", "procsym">>)), Top.fsys, 6,
                   "procSpace")
           \/ Test(Top.fsys, phi, 8, "done")
    BY <1>6 DEF ProcTest, BlockTail, At, Waits
  <2>2. \A fsys : Serves("done", fsys) BY <2>1, Serving DEF Content
  <2>3. SetsInv' BY <2>1, <2>2, Given, Serving, WiderTest
  <2> QED BY <2>3 DEF SetsKept
<1>7. CASE EndDeclarations
  <2>1. Top.fn = "block" BY <1>7 DEF EndDeclarations, At, Waits
  <2>2. Test(uniteset(statbegsys, createset(<<"identsym">>)), declbegsys, 7, "declared")
    BY <1>7 DEF EndDeclarations
  <2>3. ToSet(statbegsys)
          \subseteq ToSet(uniteset(uniteset(statbegsys, createset(<<"identsym">>)), declbegsys))
    <3>1. IsSymset(createset(<<"identsym">>)) BY Written
    <3> QED BY <3>1, SetsAre, UniteIs
  <2>4. Serves("declared", uniteset(uniteset(statbegsys, createset(<<"identsym">>)),
                                    declbegsys))
    BY <2>1, Serving
  <2>5. SetsInv' BY <2>1, <2>2, <2>3, <2>4, Given, TestSets
  <2> QED BY <2>5 DEF SetsKept
<1>8. CASE Declared
  <2>1. /\ Top.fn = "block"
        /\ \/ acts' = Becomes([Top EXCEPT !.at = "start"])
           \/ acts' = Calls(Top, "tail", "statement",
                            uniteset(createset(<<"semicolonsym", "endsym">>), Top.fsys))
    BY <1>8 DEF Declared, Stays, Goto, At, Waits
  <2>2. MovesOn(Top, "start", [Top EXCEPT !.at = "start"]) BY <1>a, ActMoved
  <2>3. CASE acts' = Becomes([Top EXCEPT !.at = "start"])
    <3>1. SetsInv' BY <2>1, <2>2, <2>3, MoveSets
    <3> QED BY <3>1 DEF SetsKept
  <2>4. CASE acts' = Calls(Top, "tail", "statement",
                            uniteset(createset(<<"semicolonsym", "endsym">>), Top.fsys))
    <3>1. \A fsys : Serves("tail", fsys) BY <2>1, Serving DEF Content
    <3>2. SetsInv' BY <1>a, <2>1, <2>4, <3>1, Given, CallOnSets
    <3> QED BY <3>2 DEF SetsKept
  <2> QED BY <2>1, <2>3, <2>4
<1>9. CASE EndBlock
  <2>1. acts' = Returns(BlockNode) /\ Top.fn = "block"
    BY <1>9 DEF EndBlock, Stays, At, Waits
  <2>2. SetsInv' BY <2>1, ReturnSets
  <2> QED BY <2>2 DEF SetsKept
<1> QED BY <1>1, <1>2, <1>3, <1>4, <1>5, <1>6, <1>7, <1>8, <1>9 DEF Blocks

LEMMA StatementsSets ==
  ASSUME ActsInv, SetsInv, Statements
  PROVE  SetsKept'
<1>a. Top.fn = "statement" /\ Top.fn # "test" /\ Top.fn # "program"
  BY DEF Statements, Assign, AssignBecomes, Store, Named, CallIdent, ReadIdent, WriteIdent,
         Begin, ListStatement, End, If, Body, Else, EndIf, While, EndWhile, Empty, EndEmpty,
         Starts, At, Waits
<1>b. Act(Top) BY TopIs
<1>c. \A v : /\ Alike(Top, [Top EXCEPT !.j1 = v]) /\ Alike(Top, [Top EXCEPT !.c = v])
  BY <1>b, ActChanged
<1>d. \A fsys : \A at \in Content : Serves(at, fsys) BY <1>a, Serving
<1>1. CASE Assign
  <2>1. acts' = Becomes(Naming(Top, "becomes", cur.val, sym)) BY <1>1 DEF Assign, Reads, Naming
  <2>2. MovesOn(Top, "becomes", Naming(Top, "becomes", cur.val, sym)) BY <1>b, ActNamed
  <2>3. SetsInv' BY <1>a, <2>1, <2>2, MoveSets
  <2> QED BY <2>3 DEF SetsKept
<1>2. CASE \E place, type : Named(type, place)
  <2>1. PICK place : acts' = Becomes([Top EXCEPT !.at = place]) BY <1>2 DEF Named, Reads, Goto
  <2>2. MovesOn(Top, place, [Top EXCEPT !.at = place]) BY <1>b, ActMoved
  <2>3. SetsInv' BY <1>a, <2>1, <2>2, MoveSets
  <2> QED BY <2>3 DEF SetsKept
<1>3. CASE AssignBecomes \/ Begin \/ ListStatement
  <2>1. \/ acts' = Calls(Top, "store", "expression", Top.fsys)
        \/ acts' = Calls(Top, "list", "statement", ListSet)
    BY <1>3 DEF AssignBecomes, Begin, ListStatement, Reads, Stays
  <2>2. Serves("store", Top.fsys) /\ Serves("list", ListSet)
    BY <1>a, <1>d, Serving DEF Content
  <2>3. SetsInv' BY <1>a, <1>b, <2>1, <2>2, Given, CallOnSets
  <2> QED BY <2>3 DEF SetsKept
<1>4. CASE If
  <2>1. acts' = Calls(Top, "then", "condition",
                      uniteset(createset(<<"thensym", "dosym">>), Top.fsys))
    BY <1>4 DEF If, Reads
  <2>2. SetsInv' BY <1>a, <1>b, <2>1, Given, Serving, CallOnSets
  <2> QED BY <2>2 DEF SetsKept
<1>5. CASE While
  <2>1. acts' = Calls([Top EXCEPT !.c = Here], "do", "condition",
                      uniteset(createset(<<"dosym">>), Top.fsys))
    BY <1>5 DEF While, Reads
  <2>2. PICK a : a = [Top EXCEPT !.c = Here] OBVIOUS
  <2>3. Alike(Top, a) BY <1>c, <2>2
  <2>4. SetsInv' BY <1>a, <2>1, <2>2, <2>3, Given, Serving, CallOnSets DEF Alike
  <2> QED BY <2>4 DEF SetsKept
<1>6. CASE Body("then", "else") \/ Body("do", "loop")
  <2>1. PICK at \in Content :
          acts' = Calls([Top EXCEPT !.j1 = Here], at, "statement", Top.fsys)
    BY <1>6 DEF Body, Reads, Content
  <2>2. PICK a : a = [Top EXCEPT !.j1 = Here] OBVIOUS
  <2>3. Alike(Top, a) BY <1>c, <2>2
  <2>4. SetsInv' BY <1>a, <1>d, <2>1, <2>2, <2>3, Given, CallOnSets DEF Alike
  <2> QED BY <2>4 DEF SetsKept
<1>7. CASE Else
  <2>1. PICK a : a = Jumped(Top, Here, "endif") OBVIOUS
  <2>2. MovesOn(Top, "endif", a) BY <1>b, <2>1, ActMoved
  <2>3. acts' = Calls(a, "endif", "statement", Top.fsys) \/ acts' = Becomes(a)
    BY <1>7, <2>1 DEF Else, Reads, Stays, Jumped
  <2>4. CASE acts' = Becomes(a)
    <3>1. SetsInv' BY <1>a, <2>2, <2>4, MoveSets
    <3> QED BY <3>1 DEF SetsKept
  <2>5. CASE acts' = Calls(a, "endif", "statement", Top.fsys)
    <3>1. Serves("endif", Top.fsys) BY <1>d DEF Content
    <3>2. SetsInv' BY <1>a, <2>2, <2>5, <3>1, Given, CallOnSets DEF MovesOn
    <3> QED BY <3>2 DEF SetsKept
  <2> QED BY <2>3, <2>4, <2>5
<1>8. CASE \/ CallIdent \/ ReadIdent \/ WriteIdent \/ End \/ EndIf \/ EndWhile \/ EndEmpty
           \/ (Store /\ Top.sym # Null)
  <2>1. \E node : acts' = Returns(node)
    BY <1>8 DEF CallIdent, ReadIdent, WriteIdent, End, EndIf, EndWhile, EndEmpty, Store,
                Reads, Stays
  <2>2. SetsInv' BY <1>a, <2>1, ReturnSets
  <2> QED BY <2>2 DEF SetsKept
<1>9. CASE Store /\ Top.sym = Null BY <1>9 DEF Store, SetsKept
<1>10. CASE Empty
  <2>1. Test(Top.fsys, phi, 19, "done") BY <1>10 DEF Empty
  <2>2. Serves("done", uniteset(Top.fsys, phi)) BY <1>d DEF Content
  <2>3. SetsInv' BY <1>a, <2>1, <2>2, Given, WiderTest
  <2> QED BY <2>3 DEF SetsKept
<1> QED BY <1>1, <1>2, <1>3, <1>4, <1>5, <1>6, <1>7, <1>8, <1>9, <1>10 DEF Statements

\* expressionParse hands its sign to the term it calls.
LEMMA ExpressionSets ==
  ASSUME ActsInv, SetsInv, Expression
  PROVE  SetsInv'
<1>1. PICK sign : acts' = [Calls([Top EXCEPT !.ops = <<sign>>], "more", "term", FactorSet)
                             EXCEPT ![Len(Calls([Top EXCEPT !.ops = <<sign>>], "more", "term",
                                                FactorSet))].ident = sign]
  BY DEF Expression, Reads, Stays
<1>2. PICK n : n = Len(acts) OBVIOUS
<1>3. PICK a : a = [Top EXCEPT !.ops = <<sign>>] OBVIOUS
<1>4. PICK b : b = Placed(a, "more") OBVIOUS
<1>5. PICK term : term = Activation("term", FactorSet) OBVIOUS
<1>6. PICK new : new = Calls(a, "more", "term", FactorSet) OBVIOUS
<1>7. PICK signed : signed = [term EXCEPT !.ident = sign] OBVIOUS
<1>8. Top.fn = "expression" /\ Act(Top) /\ n \in Nat \ {0} BY <1>2, TopIs DEF Expression, At, Waits
<1>9. Act(a) /\ a.fn = Top.fn /\ a.fsys = Top.fsys BY <1>3, <1>8, OpsChanged
<1>10. b.fn = Top.fn /\ b.fsys = Top.fsys BY <1>4, <1>9, AtChanged DEF Placed
<1>11. Act(term) /\ term.fsys = FactorSet BY <1>5, ActNew
<1>12. Alike(term, signed) BY <1>7, <1>11, ActChanged
<1>13. signed.fsys = FactorSet BY <1>11, <1>12 DEF Alike
<1>14. /\ IsSequence(new) /\ Len(new) = n + 1 /\ new[n] = b /\ new[n + 1] = term
       /\ \A i \in 1 .. n - 1 : new[i] = acts[i]
  BY <1>2, <1>4, <1>5, <1>6, CallsIs
<1>15. acts' = [new EXCEPT ![n + 1] = signed]
  <2>1. acts' = [new EXCEPT ![n + 1].ident = sign] BY <1>1, <1>3, <1>6, <1>14
  <2> QED BY <1>7, <1>14, <2>1
<1>16. new \in Seq(Elements(new)) BY <1>14 DEF IsSequence
<1>17. Len(acts') = n + 1 /\ acts'[n + 1] = signed /\ \A i \in 1 .. n : acts'[i] = new[i]
  BY <1>8, <1>14, <1>15, <1>16
<1>18. acts'[n] = b /\ \A i \in 1 .. n - 1 : acts'[i] = acts[i] BY <1>8, <1>14, <1>17
<1>19. Wider(signed.fsys) /\ IsSymset(signed.fsys) BY <1>13, Given DEF Wider
<1>20. ToSet(statbegsys) \subseteq ToSet(signed.fsys) BY <1>8, <1>19, WiderBegins
<1>21. Keeps(b.fn, b.at) \subseteq ToSet(signed.fsys)
  <2>1. b.at = "more" BY <1>4, <1>9, AtChanged DEF Placed
  <2>2. Serves("more", FactorSet) BY <1>8, Serving
  <2> QED BY <1>10, <1>13, <2>1, <2>2 DEF Serves
<1> QED BY <1>2, <1>8, <1>10, <1>17, <1>18, <1>19, <1>20, <1>21, SetsCall

LEMMA ExpressionsSets ==
  ASSUME ActsInv, SetsInv, Expressions
  PROVE  SetsKept'
<1>a. Top.fn # "test" /\ Top.fn # "program"
  BY DEF Expressions, Condition, Odd, Relation, Compare, Expression, Operator, Operate,
         EndList, Term, FirstFactor, Factor, FactorIdent, FactorNumber, FactorOpen,
         FactorClose, EndFactor, FactorNone, At, Waits
<1>b. Act(Top) BY TopIs
<1>c. \A v : /\ Act([Top EXCEPT !.ops = v]) /\ [Top EXCEPT !.ops = v].fn = Top.fn
             /\ [Top EXCEPT !.ops = v].fsys = Top.fsys
  BY <1>b, OpsChanged
<1>d. \A fsys : \A at \in Content : Serves(at, fsys) BY <1>a, Serving
<1> SUFFICES SetsInv' BY DEF SetsKept
<1>1. CASE Condition \/ FactorOpen
  <2>1. \/ acts' = Calls(Top, "odd", "expression", Top.fsys)
        \/ acts' = Calls(Top, "relop", "expression", uniteset(relset, Top.fsys))
        \/ acts' = Calls(Top, "close", "expression",
                         uniteset(createset(<<"rparentsym">>), Top.fsys))
    BY <1>1 DEF Condition, FactorOpen, Reads, Stays
  <2>2. Serves("odd", Top.fsys) BY <1>d DEF Content
  <2> QED BY <1>a, <1>b, <2>1, <2>2, Given, Serving, CallOnSets
<1>2. CASE \/ Relation \/ Term \/ Operator("expression", "term", SignTypes)
           \/ Operator("term", "factor", FactorTypes)
  <2>1. \E fn, ops : \/ acts' = Calls([Top EXCEPT !.ops = ops], "right", fn, Top.fsys)
                     \/ \E at \in {"first", "operate"} :
                          acts' = Calls([Top EXCEPT !.ops = ops], at, fn, FactorSet)
    BY <1>2 DEF Relation, Term, Operator, Reads, Stays
  <2>a. Serves("right", Top.fsys) BY <1>d DEF Content
  <2>b. \A at \in {"first", "operate"} : Serves(at, FactorSet) BY <1>a, Serving
  <2>2. PICK at, fn, ops, fsys : /\ acts' = Calls([Top EXCEPT !.ops = ops], at, fn, fsys)
                                 /\ Wider(fsys) /\ Serves(at, fsys)
    BY <2>1, <2>a, <2>b, Given
  <2>3. PICK a : a = [Top EXCEPT !.ops = ops] OBVIOUS
  <2>4. Act(a) /\ a.fn = Top.fn /\ a.fsys = Top.fsys BY <1>c, <2>3
  <2> QED BY <1>a, <2>2, <2>3, <2>4, CallOnSets
<1>3. CASE Expression BY <1>3, ExpressionSets
<1>4. CASE \/ FirstFactor \/ Operate("expression") \/ Operate("term")
           \/ (FactorClose /\ Is("rparentsym"))
  <2>1. \E at : acts' = Becomes([Top EXCEPT !.at = at])
    BY <1>4 DEF FirstFactor, Operate, FactorClose, Reads, Stays, Goto
  <2>2. \A at : MovesOn(Top, at, [Top EXCEPT !.at = at]) BY <1>b, ActMoved
  <2> QED BY <1>a, <2>1, <2>2, MoveSets
<1>5. CASE \/ Odd \/ Compare \/ EndList("expression", SignTypes) \/ EndList("term", FactorTypes)
           \/ FactorIdent \/ FactorNumber \/ EndFactor
  <2>1. \E node : acts' = Returns(node)
    BY <1>5 DEF Odd, Compare, EndList, FactorIdent, FactorNumber, EndFactor, Operand, Reads,
                Stays
  <2> QED BY <1>a, <2>1, ReturnSets
<1>6. CASE Factor \/ FactorNone \/ (FactorClose /\ ~Is("rparentsym"))
  <2>1. \E error : \/ Test(facbegsys, Top.fsys, error, "factor")
                   \/ \E at \in {"done", "none"} :
                        Test(Top.fsys, createset(<<"lparentsym">>), error, at)
    BY <1>6 DEF Factor, FactorNone, FactorClose
  <2>2. \A fsys : \A at \in {"done", "none"} : Serves(at, fsys) BY <1>d DEF Content
  <2> QED BY <1>a, <2>1, <2>2, Given, Serving, WiderTest
<1> QED BY <1>1, <1>2, <1>3, <1>4, <1>5, <1>6 DEF Expressions

LEMMA EndTestSets ==
  ASSUME ActsInv, SetsInv, EndTest
  PROVE  SetsInv'
<1>1. acts' = Front(acts) /\ Top.fn # "program" BY DEF EndTest, Parsing, Stays
<1>2. Len(acts') = Len(acts) - 1 /\ \A i \in 1 .. Len(acts) - 1 : acts'[i] = acts[i]
  BY <1>1, Shrinks DEF ActsInv
<1>3. /\ Len(acts) - 1 \in 1 .. Len(acts) - 1
      /\ \A i \in 1 .. Len(acts) - 2 : i \in 1 .. Len(acts) - 1
  BY <1>1, TopIs DEF ActsInv
<1> QED BY <1>1, <1>2, <1>3, SetsReturn

\* The inductive invariant of the recovery.
RecoveryInv == Inv /\ Sane /\ SetsKept

LEMMA NextSets ==
  ASSUME RecoveryInv, [Next]_vars
  PROVE  RecoveryInv'
<1>1. Inv' BY NextKept DEF RecoveryInv
<1>2. Sane' BY SaneNext DEF RecoveryInv
<1>3. SetsKept'
  <2>1. CASE UNCHANGED vars BY <2>1 DEF vars, RecoveryInv, SetsKept, SetsInv, Excused
  <2>2. CASE step # "parse"
    BY <2>1, <2>2 DEF Next, Blocks, Statements, Expressions, Const, ConstName, ConstEq,
       ConstVal, Var, VarName, EndSection, Procedure, ProcName, ProcBody, ProcEnd, ProcTest,
       ProcSpace, EndDeclarations, Declared, BlockTail, EndBlock, EndProgram, Assign,
       AssignBecomes, Store, Named, CallIdent, ReadIdent, WriteIdent, Begin, ListStatement,
       End, If, Body, Else, EndIf, While, EndWhile, Empty, EndEmpty, Starts, Condition, Odd,
       Relation, Compare, Expression, Operator, Operate, EndList, Term, FirstFactor, Factor,
       FactorIdent, FactorNumber, FactorOpen, FactorClose, EndFactor, FactorNone, At, Skip,
       EndTest, Fail, Parsing, RecoveryInv, SetsKept, SetsInv, Excused, vars
  <2>3. CASE step = "parse" /\ Next
    <3>1. ActsInv /\ SetsInv BY <2>3 DEF RecoveryInv, Inv, Kept, SetsKept
    <3>2. CASE Skip
      <4>1. acts' = acts BY <3>2 DEF Skip, Reads
      <4> QED BY <3>1, <4>1 DEF SetsKept, SetsInv, Excused
    <3>3. CASE EndTest BY <3>1, <3>3, EndTestSets DEF SetsKept
    <3>4. CASE Fail BY <3>4 DEF Fail, SetsKept
    <3> QED
      BY <2>3, <3>1, <3>2, <3>3, <3>4, BlocksSets, StatementsSets, ExpressionsSets DEF Next
  <2> QED BY <2>1, <2>2, <2>3
<1> QED BY <1>1, <1>2, <1>3 DEF RecoveryInv

LEMMA InitSets ==
  ASSUME Init
  PROVE  RecoveryInv
<1>1. PICK s : s = uniteset(createset(<<"periodsym">>), uniteset(declbegsys, statbegsys))
  OBVIOUS
<1>2. PICK a : a = [Activation("program", phi) EXCEPT !.at = "period"] OBVIOUS
<1>3. PICK b : b = Activation("block", s) OBVIOUS
<1>4. acts = <<a, b>> BY <1>1, <1>2, <1>3 DEF Init, InitOn
<1>5. a.fn = "program" /\ a.fsys = phi /\ a.at = "period" /\ b.fn = "block" /\ b.fsys = s
  <2>1. PICK c : c = Activation("program", phi) OBVIOUS
  <2>2. Act(c) /\ c.fn = "program" /\ c.fsys = phi BY <2>1, ActNew
  <2>3. a.fn = c.fn /\ a.fsys = c.fsys /\ a.at = "period" BY <1>2, <2>1, <2>2, AtChanged
  <2> QED BY <1>3, <2>2, <2>3, ActNew
<1>6. IsSymset(s) /\ ToSet(s) = {"periodsym"} \cup ToSet(declbegsys) \cup ToSet(statbegsys)
  <2>1. /\ IsSymset(uniteset(declbegsys, statbegsys))
        /\ ToSet(uniteset(declbegsys, statbegsys)) = ToSet(declbegsys) \cup ToSet(statbegsys)
    BY SetsAre, UniteIs
  <2>2. PICK one : one = createset(<<"periodsym">>) OBVIOUS
  <2>3. IsSymset(one) /\ ToSet(one) = {"periodsym"} BY <2>2, OneIs, TypeNames
  <2> QED BY <1>1, <2>1, <2>2, <2>3, UniteIs
<1>7. IsSymset(phi) /\ ToSet(phi) = {}
  <2>1. << >> \in Seq(Types) OBVIOUS
  <2> QED BY <2>1, CreateIs, EmptyIs DEF phi
<1>8. Len(acts) = 2 /\ acts[1] = a /\ acts[2] = b BY <1>4
<1>9. \A i \in 1 .. 2 : i = 1 \/ i = 2 OBVIOUS
<1>10. SetsInv
  <2>1. \A i \in 1 .. 2 : IsSymset(acts[i].fsys) /\ acts[i].fn # "test"
    BY <1>5, <1>6, <1>7, <1>8, <1>9
  <2>2. ASSUME NEW i \in 1 .. 2, NEW j \in 1 .. 2, i < j
        PROVE  ToSet(acts[i].fsys) \subseteq ToSet(acts[j].fsys)
    <3>1. i = 1 BY <2>2
    <3> QED BY <1>5, <1>7, <1>8, <3>1
  <2>3. \A j \in 1 .. 2 :
          acts[j].fn # "program" => ToSet(statbegsys) \subseteq ToSet(acts[j].fsys)
    BY <1>5, <1>6, <1>8, <1>9
  <2>4. ASSUME NEW i \in 1 .. 2 - 1
        PROVE  Keeps(acts[i].fn, acts[i].at) \subseteq ToSet(acts[i + 1].fsys)
    <3>1. i = 1 /\ i + 1 = 2 OBVIOUS
    <3>2. Keeps("program", "period") \subseteq {"periodsym"} BY DEF Keeps, Awaits
    <3> QED BY <1>5, <1>6, <1>8, <3>1, <3>2
  <2> QED BY <1>8, <2>1, <2>2, <2>3, <2>4 DEF SetsInv
<1> QED BY <1>10, InitKept, InitSane DEF RecoveryInv, SetsKept

\* test does not skip what an open call goes on to look for.
LEMMA SkipsNoneAwaited ==
  ASSUME RecoveryInv, Skip
  PROVE  \A i \in Served : cur.type \notin Awaits(acts[i]) \ LeftOut
<1>1. PICK n : n = Len(acts) OBVIOUS
<1>2. step = "parse" /\ Top.fn = "test" /\ ~inset(cur.type, Top.fsys)
  BY DEF Skip, Parsing, AtStop
<1>3. ActsInv /\ SetsInv /\ cur.type \in Types
  BY <1>2 DEF RecoveryInv, Inv, Kept, SetsKept, Sane, TokensInv, Types
<1>4. n \in Nat \ {0, 1} /\ Top = acts[n] BY <1>1, <1>2, <1>3, TopIs DEF ActsInv
<1>5. cur.type \notin ToSet(acts[n].fsys) BY <1>2, <1>3, <1>4, TopHas, InsetIs
<1>6. ASSUME NEW i \in Served PROVE cur.type \notin Awaits(acts[i]) \ LeftOut
  <2>1. i \in 1 .. n - 1 /\ (i # n - 1 => acts[n - 1].at # "declared")
    BY <1>1, <1>4 DEF Served
  <2>2. Awaits(acts[i]) \ LeftOut = Keeps(acts[i].fn, acts[i].at) BY DEF Keeps, Awaits
  <2>3. Keeps(acts[i].fn, acts[i].at) \subseteq ToSet(acts[i + 1].fsys)
    BY <1>1, <1>3, <2>1 DEF SetsInv
  <2>4. CASE i = n - 1
    <3>1. i + 1 = n BY <1>4, <2>4
    <3> QED BY <1>5, <2>2, <2>3, <3>1
  <2>5. CASE i # n - 1
    <3>1. i + 1 \in 1 .. n /\ n \in 1 .. n /\ i + 1 < n BY <1>4, <2>1, <2>5
    <3>2. ~Excused(n) BY <2>1, <2>5 DEF Excused
    <3>3. ToSet(acts[i + 1].fsys) \subseteq ToSet(acts[n].fsys)
      BY <1>1, <1>3, <3>1, <3>2 DEF SetsInv
    <3> QED BY <1>5, <2>2, <2>3, <3>3
  <2> QED BY <2>4, <2>5
<1> QED BY <1>6

\* Whatever the token file and wherever the error in it: what the recovery of
\* parse.c skips is nothing that an open call goes on to look for, but for an
\* "else", a sign, and the test behind the declarations of a block.
THEOREM RecoverySkipsNoneAwaited == Spec => RecoveryRespectsCallers
<1>1. Init => RecoveryInv BY InitSets
<1>2. RecoveryInv /\ [Next]_vars => RecoveryInv' BY NextSets
<1>3. RecoveryInv /\ [Next]_vars
        => [Skip => \A i \in Served : cur.type \notin Awaits(acts[i]) \ LeftOut]_vars
  BY SkipsNoneAwaited
<1> QED BY <1>1, <1>2, <1>3, PTL DEF Spec, RecoveryRespectsCallers
=============================================================================

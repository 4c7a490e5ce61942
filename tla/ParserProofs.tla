------------------------------ MODULE ParserProofs ------------------------------
(***************************************************************************)
(* Proofs about the recursive descent: for every token file, the registers *)
(* are balanced at every point of every call, also on the paths through    *)
(* the recovery.                                                           *)
(***************************************************************************)
EXTENDS FiniteSets, Parser, FiniteSetTheorems, SequenceTheorems, TLAPS

-----------------------------------------------------------------------------
(* Registers: what the calls hold, below a place of the stack.             *)

Held(s, m) == {i \in 1 .. m : Holds(s[i]) = 1}
Count(s, m) == Cardinality(Held(s, m))

LEMMA CountNext ==
  ASSUME NEW s, NEW m \in Nat
  PROVE  Count(s, m) \in Nat /\ Count(s, m + 1) = Count(s, m) + Holds(s[m + 1])
<1>1. IsFiniteSet(Held(s, m))
  <2>1. IsFiniteSet(1 .. m) BY FS_Interval
  <2>2. Held(s, m) \subseteq 1 .. m BY DEF Held
  <2> QED BY <2>1, <2>2, FS_Subset
<1>2. Count(s, m) \in Nat BY <1>1, FS_CardinalityType DEF Count
<1>3. m + 1 \notin Held(s, m) BY DEF Held
<1>4. CASE Holds(s[m + 1]) = 1
  <2>1. Held(s, m + 1) = Held(s, m) \cup {m + 1} BY <1>4 DEF Held
  <2> QED BY <1>1, <1>2, <1>3, <1>4, <2>1, FS_AddElement DEF Count
<1>5. CASE Holds(s[m + 1]) # 1
  <2>1. Held(s, m + 1) = Held(s, m) BY <1>5 DEF Held
  <2>2. Holds(s[m + 1]) = 0 BY <1>5 DEF Holds
  <2> QED BY <1>2, <2>1, <2>2 DEF Count
<1> QED BY <1>2, <1>4, <1>5

LEMMA CountSame ==
  ASSUME NEW s, NEW t, NEW m, \A i \in 1 .. m : Holds(s[i]) = Holds(t[i])
  PROVE  Count(s, m) = Count(t, m)
  BY DEF Count, Held

LOCAL INSTANCE SequencesExt

-----------------------------------------------------------------------------
(* The stack of calls.                                                     *)

\* What a call holds: its symbol set, nodes, operators and locals may be
\* anything.
Act(a) ==
  a = [fn |-> a.fn, at |-> a.at, fsys |-> a.fsys, kids |-> a.kids, ops |-> a.ops,
       ident |-> a.ident, sym |-> a.sym, j1 |-> a.j1, j2 |-> a.j2, c |-> a.c]

Elements(s) == {s[i] : i \in 1 .. Len(s)}
IsSequence(s) == s \in Seq(Elements(s))

\* The functions that leave their result in a register.
Valued == {"condition", "expression", "term", "factor"}

\* programParse is at the bottom and nowhere else; a call of a function that
\* leaves a value goes on where a value is awaited, and every other elsewhere.
ActsInv ==
  /\ IsSequence(acts) /\ acts # << >>
  /\ \A i \in 1 .. Len(acts) : Act(acts[i])
  /\ \A i \in 1 .. Len(acts) : acts[i].fn = "program" <=> i = 1
  /\ \A i \in 1 .. Len(acts) : acts[i].fn = "test" => acts[i].at = "start"
  /\ \A i \in 1 .. Len(acts) - 1 : acts[i + 1].fn \in Valued <=> Completed(acts[i]) = 1

\* Any sequence, and one element more.
LEMMA Grows ==
  ASSUME NEW s, IsSequence(s), NEW e
  PROVE  /\ IsSequence(Append(s, e)) /\ Append(s, e) # << >>
         /\ Len(Append(s, e)) = Len(s) + 1 /\ Len(s) \in Nat
         /\ Append(s, e)[Len(s) + 1] = e
         /\ \A i \in 1 .. Len(s) : Append(s, e)[i] = s[i]
<1> DEFINE S == Elements(s) \cup {e}
           t == Append(s, e)
<1>1. s \in Seq(S) BY DEF IsSequence, Elements
<1>2. t \in Seq(S) /\ Len(t) = Len(s) + 1 /\ Len(s) \in Nat /\ t[Len(s) + 1] = e
      /\ \A i \in 1 .. Len(s) : t[i] = s[i]
  BY <1>1
<1> HIDE DEF t, S
<1>3. t \in Seq(Elements(t)) BY <1>2 DEF Elements
<1>4. t # << >> BY <1>2
<1> QED BY <1>2, <1>3, <1>4 DEF IsSequence, t

\* Any sequence but its last element.
LEMMA Shrinks ==
  ASSUME NEW s, IsSequence(s), s # << >>
  PROVE  /\ IsSequence(Front(s)) /\ Len(Front(s)) = Len(s) - 1 /\ Len(s) \in Nat \ {0}
         /\ \A i \in 1 .. Len(s) - 1 : Front(s)[i] = s[i]
         /\ Last(s) = s[Len(s)] /\ Front(s) = SubSeq(s, 1, Len(s) - 1)
<1> DEFINE t == SubSeq(s, 1, Len(s) - 1)
           S == Elements(s)
<1>1. s \in Seq(S) BY DEF IsSequence
<1>2. Len(s) \in Nat \ {0} BY <1>1
<1> HIDE DEF S
<1>3. t \in Seq(S) /\ Len(t) = Len(s) - 1 /\ \A i \in 1 .. Len(s) - 1 : t[i] = s[i]
  <2>1. 1 \in Int /\ Len(s) - 1 \in Int /\ \A i \in 1 .. Len(s) - 1 : i \in 1 .. Len(s)
    BY <1>2
  <2> DEFINE n == Len(s) - 1
  <2>2. n \in Nat /\ \A i \in 1 .. n : s[i] \in S BY <1>1, <1>2, <2>1
  <2> HIDE DEF n
  <2>3. /\ SubSeq(s, 1, n) \in Seq(S) /\ Len(SubSeq(s, 1, n)) = IF 1 <= n THEN n - 1 + 1 ELSE 0
        /\ \A i \in 1 .. n - 1 + 1 : SubSeq(s, 1, n)[i] = s[1 + i - 1]
    BY <2>2, SubSeqProperties
  <2>4. t = SubSeq(s, 1, n) BY DEF n
  <2> HIDE DEF t
  <2>5. t \in Seq(S) /\ Len(t) = n /\ \A i \in 1 .. n : t[i] = s[i] BY <2>2, <2>3, <2>4
  <2> QED BY <2>5 DEF n
<1>4. Front(s) = t /\ Last(s) = s[Len(s)] BY DEF Front, Last
<1> HIDE DEF t
<1>5. t \in Seq(Elements(t)) BY <1>3 DEF Elements
<1> QED BY <1>2, <1>3, <1>4, <1>5 DEF IsSequence

\* b is a with other nodes or locals.
Alike(a, b) ==
  Act(b) /\ b.fn = a.fn /\ b.at = a.at /\ b.sym = a.sym /\ b.fsys = a.fsys

\* Changing a field leaves the function, the place, the symbol and the symbol
\* set as they are.
LEMMA AtChanged ==
  ASSUME NEW a, Act(a), NEW v
  PROVE  /\ Act([a EXCEPT !.at = v]) /\ [a EXCEPT !.at = v].fn = a.fn
         /\ [a EXCEPT !.at = v].at = v /\ [a EXCEPT !.at = v].sym = a.sym
         /\ [a EXCEPT !.at = v].fsys = a.fsys
  BY DEF Act

LEMMA SymChanged ==
  ASSUME NEW a, Act(a), NEW v
  PROVE  /\ Act([a EXCEPT !.sym = v]) /\ [a EXCEPT !.sym = v].fn = a.fn
         /\ [a EXCEPT !.sym = v].at = a.at /\ [a EXCEPT !.sym = v].sym = v
         /\ [a EXCEPT !.sym = v].fsys = a.fsys
  BY DEF Act

LEMMA OpsChanged ==
  ASSUME NEW a, Act(a), NEW v
  PROVE  /\ Act([a EXCEPT !.ops = v]) /\ [a EXCEPT !.ops = v].fn = a.fn
         /\ [a EXCEPT !.ops = v].fsys = a.fsys
  BY DEF Act

LEMMA ActChanged ==
  ASSUME NEW a, Act(a), NEW v
  PROVE  /\ Alike(a, [a EXCEPT !.kids = v]) /\ Alike(a, [a EXCEPT !.ops = v])
         /\ Alike(a, [a EXCEPT !.ident = v]) /\ Alike(a, [a EXCEPT !.c = v])
         /\ Alike(a, [a EXCEPT !.j1 = v]) /\ Alike(a, [a EXCEPT !.j2 = v])
  BY DEF Act, Alike

LEMMA ActNew ==
  ASSUME NEW fn, NEW fsys
  PROVE  /\ Act(Activation(fn, fsys)) /\ Activation(fn, fsys).fn = fn
         /\ Activation(fn, fsys).at = "start" /\ Activation(fn, fsys).fsys = fsys
  BY DEF Activation, Act

LEMMA TopIs ==
  ASSUME ActsInv
  PROVE  /\ Len(acts) \in Nat \ {0} /\ Top = acts[Len(acts)] /\ Act(Top)
         /\ \A i \in 1 .. Len(acts) : i \in Nat /\ i <= Len(acts)
<1>1. Len(acts) \in Nat \ {0} /\ Top = acts[Len(acts)] BY Shrinks DEF ActsInv, Top
<1>2. Len(acts) \in 1 .. Len(acts) BY <1>1
<1> QED BY <1>1, <1>2 DEF ActsInv

\* The stacks a step may leave.
LEMMA BecomesIs ==
  ASSUME ActsInv, NEW a
  PROVE  LET new == Becomes(a)
         IN  /\ IsSequence(new) /\ Len(new) = Len(acts) /\ new[Len(acts)] = a
             /\ \A i \in 1 .. Len(acts) - 1 : new[i] = acts[i]
<1>1. /\ IsSequence(Front(acts)) /\ Len(Front(acts)) = Len(acts) - 1
      /\ Len(acts) \in Nat \ {0} /\ \A i \in 1 .. Len(acts) - 1 : Front(acts)[i] = acts[i]
  BY Shrinks DEF ActsInv
<1>2. Len(acts) - 1 + 1 = Len(acts) BY <1>1
<1> QED BY <1>1, <1>2, Grows DEF Becomes

\* A call, at another place.
Placed(a, at) == [a EXCEPT !.at = at]

LEMMA CallsIs ==
  ASSUME ActsInv, NEW a, NEW at, NEW fn, NEW fsys
  PROVE  LET new == Calls(a, at, fn, fsys)
         IN  /\ IsSequence(new) /\ Len(new) = Len(acts) + 1
             /\ new[Len(acts)] = Placed(a, at)
             /\ new[Len(acts) + 1] = Activation(fn, fsys)
             /\ \A i \in 1 .. Len(acts) - 1 : new[i] = acts[i]
<1> DEFINE b == Placed(a, at)
           s == Becomes(b)
<1> HIDE DEF b
<1>1. /\ IsSequence(s) /\ Len(s) = Len(acts) /\ s[Len(acts)] = b
      /\ \A i \in 1 .. Len(acts) - 1 : s[i] = acts[i]
  BY BecomesIs
<1>2. Len(acts) \in Nat \ {0} /\ Len(acts) \in 1 .. Len(acts) BY TopIs
<1> HIDE DEF s
<1>3. PICK e : e = Activation(fn, fsys) OBVIOUS
<1>4. PICK new : new = Append(s, e) OBVIOUS
<1>5. Calls(a, at, fn, fsys) = new BY <1>3, <1>4 DEF Calls, Placed, b, s
<1>6. /\ IsSequence(new) /\ Len(new) = Len(s) + 1 /\ new[Len(s) + 1] = e
      /\ \A i \in 1 .. Len(s) : new[i] = s[i]
  BY <1>1, <1>4, Grows
<1>7. \A i \in 1 .. Len(acts) - 1 : i \in 1 .. Len(acts) BY <1>2
<1>8. new[Len(acts)] = b /\ \A i \in 1 .. Len(acts) - 1 : new[i] = acts[i]
  BY <1>1, <1>2, <1>6, <1>7
<1> QED BY <1>1, <1>3, <1>5, <1>6, <1>8 DEF b

LEMMA ReturnsIs ==
  ASSUME ActsInv, Top.fn # "program", NEW node
  PROVE  LET new == Returns(node)
         IN  /\ Len(acts) - 1 \in 1 .. Len(acts)
             /\ IsSequence(new) /\ Len(new) = Len(acts) - 1
             /\ Act(new[Len(acts) - 1]) /\ new[Len(acts) - 1].fn = acts[Len(acts) - 1].fn
             /\ new[Len(acts) - 1].at = acts[Len(acts) - 1].at
             /\ new[Len(acts) - 1].sym = acts[Len(acts) - 1].sym
             /\ new[Len(acts) - 1].fsys = acts[Len(acts) - 1].fsys
             /\ new[Len(acts) - 1].kids = Append(acts[Len(acts) - 1].kids, node)
             /\ \A i \in 1 .. Len(acts) - 2 : new[i] = acts[i]
<1> DEFINE n == Len(acts)
           caller == acts[n - 1]
           b == [caller EXCEPT !.kids = Append(@, node)]
           s == Front(Front(acts))
<1>1. n \in Nat \ {0, 1} /\ n - 1 \in 1 .. n BY TopIs DEF ActsInv
<1>2. /\ Act(b) /\ b.fn = caller.fn /\ b.at = caller.at /\ b.sym = caller.sym
      /\ b.fsys = caller.fsys /\ b.kids = Append(caller.kids, node)
  <2>1. Act(caller) BY <1>1 DEF ActsInv
  <2> DEFINE v == Append(caller.kids, node)
  <2> HIDE DEF v, caller
  <2>2. b = [caller EXCEPT !.kids = v] BY DEF v
  <2> HIDE DEF b
  <2>3. Alike(caller, b) BY <2>1, <2>2, ActChanged
  <2>4. b.kids = v BY <2>1, <2>2 DEF Act
  <2> QED BY <2>3, <2>4 DEF Alike, v
<1>3. /\ IsSequence(Front(acts)) /\ Len(Front(acts)) = n - 1
      /\ \A i \in 1 .. n - 1 : Front(acts)[i] = acts[i]
  BY Shrinks DEF ActsInv
<1>4. Front(acts) # << >> BY <1>1, <1>3
<1>5. /\ IsSequence(s) /\ Len(s) = n - 1 - 1 /\ \A i \in 1 .. n - 1 - 1 : s[i] = Front(acts)[i]
  BY <1>3, <1>4, Shrinks
<1>6. \A i \in 1 .. n - 2 : i \in 1 .. n - 1 /\ i \in 1 .. n - 1 - 1 BY <1>1
<1>7. n - 1 - 1 = n - 2 /\ n - 2 + 1 = n - 1 BY <1>1
<1> HIDE DEF b, s
<1>8. Returns(node) = Append(s, b) BY DEF Returns, b, s
<1>9. /\ IsSequence(Append(s, b)) /\ Len(Append(s, b)) = n - 1 /\ Append(s, b)[n - 1] = b
      /\ \A i \in 1 .. n - 2 : Append(s, b)[i] = s[i]
  BY <1>5, <1>7, Grows
<1> QED BY <1>1, <1>2, <1>3, <1>5, <1>6, <1>8, <1>9

-----------------------------------------------------------------------------
(* Registers, call by call.                                                *)

\* The registers in terms of the calls below the innermost one.
Below == Count(acts, Len(acts) - 1)

LEMMA RegistersAre ==
  ASSUME ActsInv, RegistersBalanced, step = "parse"
  PROVE  /\ register_ptr = Below + Holds(Top) + Completed(Top) /\ Below \in Nat
         /\ Holds(Top) \in {0, 1} /\ Completed(Top) \in {0, 1}
<1>1. Len(acts) - 1 \in Nat /\ Top = acts[Len(acts)] /\ Len(acts) - 1 + 1 = Len(acts)
  BY TopIs
<1>2. Below \in Nat /\ Count(acts, Len(acts)) = Below + Holds(Top)
  BY <1>1, CountNext DEF Below
<1>3. register_ptr = Count(acts, Len(acts)) + Completed(Top)
  BY DEF RegistersBalanced, Count, Held
<1> QED BY <1>2, <1>3 DEF Holds, Completed

LEMMA BalancedThen ==
  ASSUME ActsInv', register_ptr' = Count(acts', Len(acts')) + Completed(Top')
  PROVE  RegistersBalanced'
  BY DEF RegistersBalanced, Count, Held

\* The innermost call goes on.
LEMMA Moves ==
  ASSUME ActsInv, RegistersBalanced, step = "parse",
         NEW a, Act(a), a.fn = Top.fn, a.fn # "test", acts' = Becomes(a),
         register_ptr' = register_ptr + Holds(a) + Completed(a) - Holds(Top) - Completed(Top)
  PROVE  ActsInv' /\ RegistersBalanced'
<1> DEFINE n == Len(acts)
<1>1. n \in Nat \ {0} /\ Top = acts[n] BY TopIs
<1>2. /\ IsSequence(acts') /\ Len(acts') = n /\ acts'[n] = a
      /\ \A i \in 1 .. n - 1 : acts'[i] = acts[i]
  BY BecomesIs
<1> HIDE DEF n
<1>3. ActsInv'
  <2>1. acts' # << >> BY <1>1, <1>2
  <2>2. \A i \in 1 .. n : Act(acts'[i]) /\ acts'[i].fn = acts[i].fn
    BY <1>1, <1>2 DEF ActsInv, n
  <2>3. \A i \in 1 .. n : acts'[i].fn = "program" <=> i = 1 BY <2>2 DEF ActsInv, n
  <2>4. \A i \in 1 .. n : acts'[i].fn = "test" => acts'[i].at = "start"
    BY <1>1, <1>2 DEF ActsInv, n
  <2>5. \A i \in 1 .. n - 1 : acts'[i + 1].fn \in Valued <=> Completed(acts'[i]) = 1
    <3>1. \A i \in 1 .. n - 1 : i + 1 \in 1 .. n BY <1>1
    <3> QED BY <1>2, <2>2, <3>1 DEF ActsInv, n
  <2> QED BY <1>2, <2>1, <2>2, <2>3, <2>4, <2>5 DEF ActsInv
<1>4. Top' = a
  <2>1. Last(acts') = acts'[Len(acts')] BY <1>3, Shrinks DEF ActsInv
  <2> QED BY <1>2, <2>1 DEF Top
<1>5. Count(acts', n) = Below + Holds(a)
  <2>1. Count(acts', n - 1) = Count(acts, n - 1) BY <1>2, CountSame
  <2>2. n - 1 \in Nat /\ n - 1 + 1 = n BY <1>1
  <2>3. Count(acts', n) = Count(acts', n - 1) + Holds(acts'[n]) BY <2>2, CountNext
  <2> QED BY <1>2, <2>1, <2>3 DEF Below, n
<1>6. register_ptr' = Count(acts', Len(acts')) + Completed(Top')
  <2>1. Holds(a) \in {0, 1} /\ Completed(a) \in {0, 1} BY DEF Holds, Completed
  <2> QED BY <1>2, <1>4, <1>5, <2>1, RegistersAre
<1> QED BY <1>3, <1>6, BalancedThen

\* The innermost call calls another function.
LEMMA Enters ==
  ASSUME ActsInv, RegistersBalanced, step = "parse",
         NEW b, Act(b), b.fn = Top.fn, b.fn # "test",
         NEW new, Act(new), new.fn # "program", new.at = "start",
         IsSequence(acts'), Len(acts') = Len(acts) + 1,
         acts'[Len(acts)] = b, acts'[Len(acts) + 1] = new,
         \A i \in 1 .. Len(acts) - 1 : acts'[i] = acts[i],
         new.fn \in Valued <=> Completed(b) = 1,
         register_ptr' = register_ptr + Holds(b) - Holds(Top) - Completed(Top)
  PROVE  ActsInv' /\ RegistersBalanced'
<1> DEFINE n == Len(acts)
<1>1. n \in Nat \ {0} /\ Top = acts[n] /\ n + 1 - 1 = n /\ n - 1 \in Nat /\ n - 1 + 1 = n
  BY TopIs
<1>2. /\ IsSequence(acts') /\ Len(acts') = n + 1 /\ acts'[n] = b /\ acts'[n + 1] = new
      /\ \A i \in 1 .. n - 1 : acts'[i] = acts[i]
  OBVIOUS
<1> HIDE DEF n
<1>3. ActsInv'
  <2>1. acts' # << >> BY <1>1, <1>2
  <2>2. \A i \in 1 .. n : Act(acts'[i]) /\ acts'[i].fn = acts[i].fn
    <3>1. \A i \in 1 .. n : i = n \/ i \in 1 .. n - 1 BY <1>1
    <3>2. \A i \in 1 .. n : Act(acts[i]) BY DEF ActsInv, n
    <3>3. Act(acts'[n]) /\ acts'[n].fn = acts[n].fn BY <1>1, <1>2
    <3> QED BY <1>2, <3>1, <3>2, <3>3
  <2>a. \A i \in 1 .. n + 1 : i \in 1 .. n \/ i = n + 1 BY <1>1
  <2>3. \A i \in 1 .. n + 1 : acts'[i].fn = "program" <=> i = 1
    BY <1>1, <1>2, <2>2, <2>a DEF ActsInv, n
  <2>4. \A i \in 1 .. n + 1 : acts'[i].fn = "test" => acts'[i].at = "start"
    <3>1. \A i \in 1 .. n - 1 : i \in 1 .. n BY <1>1
    <3>2. \A i \in 1 .. n + 1 : i \in 1 .. n - 1 \/ i = n \/ i = n + 1 BY <1>1
    <3>3. \A i \in 1 .. n - 1 : acts[i].fn = "test" => acts[i].at = "start"
      BY <3>1 DEF ActsInv, n
    <3>4. acts'[n].fn # "test" BY <1>2
    <3>5. acts'[n + 1].at = "start" BY <1>2
    <3> QED BY <1>2, <3>2, <3>3, <3>4, <3>5
  <2>5. \A i \in 1 .. n : acts'[i + 1].fn \in Valued <=> Completed(acts'[i]) = 1
    <3>1. \A i \in 1 .. n : i = n \/ (i \in 1 .. n - 1 /\ i + 1 \in 1 .. n) BY <1>1
    <3> QED BY <1>2, <2>2, <3>1 DEF ActsInv, n
  <2>6. \A i \in 1 .. n + 1 : Act(acts'[i]) BY <1>2, <2>2, <2>a
  <2> QED BY <1>1, <1>2, <2>1, <2>3, <2>4, <2>5, <2>6 DEF ActsInv
<1>4. Top' = new
  <2>1. Last(acts') = acts'[Len(acts')] BY <1>3, Shrinks DEF ActsInv
  <2> QED BY <1>2, <2>1 DEF Top
<1>5. Count(acts', n + 1) = Below + Holds(b) + Holds(new)
  <2>a. \A i \in 1 .. n - 1 : Holds(acts'[i]) = Holds(acts[i]) BY <1>2
  <2>1. Count(acts', n - 1) = Count(acts, n - 1) BY <2>a, CountSame
  <2>2. n - 1 \in Nat /\ n - 1 + 1 = n /\ n \in Nat BY ONLY <1>1
  <2>3. Count(acts', n) = Count(acts', n - 1) + Holds(acts'[n]) BY <2>2, CountNext
  <2>4. Count(acts', n + 1) = Count(acts', n) + Holds(acts'[n + 1]) BY <2>2, CountNext
  <2> QED BY <1>2, <2>1, <2>3, <2>4 DEF Below, n
<1>6. Holds(new) = 0 /\ Completed(new) = 0 BY DEF Holds, Completed
<1>7. register_ptr' = Count(acts', Len(acts')) + Completed(Top')
  <2>1. Holds(b) \in {0, 1} BY DEF Holds
  <2> QED BY <1>2, <1>4, <1>5, <1>6, <2>1, RegistersAre
<1> QED BY <1>3, <1>7, BalancedThen

LEMMA Called ==
  ASSUME ActsInv, RegistersBalanced, step = "parse",
         NEW a, NEW at, NEW fn, NEW fsys, NEW b, b = Placed(a, at),
         Act(a), a.fn = Top.fn, a.fn # "test", fn # "program",
         acts' = Calls(a, at, fn, fsys),
         fn \in Valued <=> Completed(b) = 1,
         register_ptr' = register_ptr + Holds(b) - Holds(Top) - Completed(Top)
  PROVE  ActsInv' /\ RegistersBalanced'
<1>1. Act(b) /\ b.fn = a.fn BY AtChanged DEF Placed
<1> DEFINE new == Activation(fn, fsys)
<1>2. Act(new) /\ new.fn = fn /\ new.at = "start" BY ActNew
<1>3. /\ IsSequence(acts') /\ Len(acts') = Len(acts) + 1
      /\ acts'[Len(acts)] = b /\ acts'[Len(acts) + 1] = new
      /\ \A i \in 1 .. Len(acts) - 1 : acts'[i] = acts[i]
  BY CallsIs
<1> HIDE DEF new
<1> QED BY <1>1, <1>2, <1>3, Enters

\* The innermost call is over, and its caller goes on as it was, except for
\* what only Act speaks of.
LEMMA Over ==
  ASSUME ActsInv, RegistersBalanced, step = "parse", Top.fn # "program",
         IsSequence(acts'), Len(acts') = Len(acts) - 1, Act(acts'[Len(acts) - 1]),
         acts'[Len(acts) - 1].fn = acts[Len(acts) - 1].fn,
         acts'[Len(acts) - 1].at = acts[Len(acts) - 1].at,
         \A i \in 1 .. Len(acts) - 2 : acts'[i] = acts[i],
         register_ptr' = register_ptr + (IF Top.fn \in Valued THEN 1 ELSE 0)
                           - Holds(Top) - Completed(Top)
  PROVE  ActsInv' /\ RegistersBalanced'
<1> DEFINE n == Len(acts)
<1>1. n \in Nat \ {0, 1} /\ Top = acts[n] /\ n - 1 + 1 = n /\ n - 1 \in 1 .. n
  BY TopIs DEF ActsInv
<1>2. \A i \in 1 .. n - 1 : /\ Act(acts'[i]) /\ i \in 1 .. n
                            /\ acts'[i].fn = acts[i].fn /\ acts'[i].at = acts[i].at
  <2>1. \A i \in 1 .. n - 1 : i \in 1 .. n /\ (i = n - 1 \/ i \in 1 .. n - 2) BY <1>1
  <2> QED BY <1>1, <2>1 DEF ActsInv
<1> HIDE DEF n
<1>3. ActsInv'
  <2>1. acts' # << >> /\ Len(acts') = n - 1 BY <1>1 DEF n
  <2>3. \A i \in 1 .. n - 1 : acts'[i].fn = "program" <=> i = 1
    BY <1>2 DEF ActsInv, n
  <2>4. \A i \in 1 .. n - 1 : acts'[i].fn = "test" => acts'[i].at = "start"
    BY <1>2 DEF ActsInv, n
  <2>5. \A i \in 1 .. n - 1 - 1 : acts'[i + 1].fn \in Valued <=> Completed(acts'[i]) = 1
    <3>1. \A i \in 1 .. n - 1 - 1 : i \in 1 .. n - 1 /\ i + 1 \in 1 .. n - 1 BY <1>1
    <3>2. \A i \in 1 .. n - 1 : Completed(acts'[i]) = Completed(acts[i])
      BY <1>2 DEF Completed
    <3> QED BY <1>2, <3>1, <3>2 DEF ActsInv, n
  <2> QED BY <1>2, <2>1, <2>3, <2>4, <2>5 DEF ActsInv, n
<1>4. Top' = acts'[n - 1]
  <2>1. Last(acts') = acts'[Len(acts')] BY <1>3, Shrinks DEF ActsInv
  <2> QED BY <2>1 DEF Top, n
<1>5. Count(acts', n - 1) = Below
  <2>1. \A i \in 1 .. n - 1 : Holds(acts'[i]) = Holds(acts[i]) BY <1>2 DEF Holds
  <2> QED BY <2>1, CountSame DEF Below, n
<1>6. Completed(Top') = IF Top.fn \in Valued THEN 1 ELSE 0
  <2>1. n - 1 \in 1 .. n - 1 BY <1>1
  <2>2. Completed(acts[n - 1]) = Completed(acts'[n - 1]) BY <1>2, <2>1 DEF Completed
  <2>3. Top.fn \in Valued <=> Completed(acts[n - 1]) = 1 BY <1>1, <2>1 DEF ActsInv, n
  <2> QED BY <1>4, <2>2, <2>3 DEF Completed
<1>7. register_ptr' = Count(acts', Len(acts')) + Completed(Top')
  BY <1>5, <1>6, RegistersAre DEF n
<1> QED BY <1>3, <1>7, BalancedThen

LEMMA Returned ==
  ASSUME ActsInv, RegistersBalanced, step = "parse", Top.fn # "program",
         NEW node, acts' = Returns(node),
         register_ptr' = register_ptr + (IF Top.fn \in Valued THEN 1 ELSE 0)
                           - Holds(Top) - Completed(Top)
  PROVE  ActsInv' /\ RegistersBalanced'
  BY ReturnsIs, Over

-----------------------------------------------------------------------------
(* Each action.                                                            *)

Kept == ActsInv /\ RegistersBalanced
Inv == step = "parse" => Kept

\* What a call at a place of a function that is neither programParse nor test
\* holds, and has completed.
Weight(a) == Holds(a) + Completed(a)

LEMMA TopWeight ==
  ASSUME Kept, step = "parse"
  PROVE  /\ Act(Top) /\ register_ptr \in Int
         /\ \A a : Holds(a) \in {0, 1} /\ Completed(a) \in {0, 1} /\ Weight(a) \in Int
<1>1. \A a : Holds(a) \in {0, 1} /\ Completed(a) \in {0, 1} BY DEF Holds, Completed
<1>2. register_ptr \in Int BY <1>1, RegistersAre DEF Kept
<1> QED BY <1>1, <1>2, TopIs DEF Weight, Kept

LEMMA Move ==
  ASSUME Kept, step = "parse", NEW a, Act(a), a.fn = Top.fn, a.fn # "test",
         acts' = Becomes(a), register_ptr' = register_ptr + Weight(a) - Weight(Top)
  PROVE  Kept'
<1>1. register_ptr' = register_ptr + Holds(a) + Completed(a) - Holds(Top) - Completed(Top)
  BY TopWeight DEF Weight
<1> QED BY <1>1, Moves DEF Kept

LEMMA Call ==
  ASSUME Kept, step = "parse", NEW a, NEW at, NEW fn, NEW fsys,
         Act(a), a.fn = Top.fn, a.fn # "test", fn # "program",
         acts' = Calls(a, at, fn, fsys),
         fn \in Valued <=> Completed([a EXCEPT !.at = at]) = 1,
         register_ptr' = register_ptr + Holds([a EXCEPT !.at = at]) - Weight(Top)
  PROVE  Kept'
<1>1. register_ptr' = register_ptr + Holds([a EXCEPT !.at = at]) - Holds(Top) - Completed(Top)
  BY TopWeight DEF Weight
<1> DEFINE b == Placed(a, at)
<1>2. /\ fn \in Valued <=> Completed(b) = 1
      /\ register_ptr' = register_ptr + Holds(b) - Holds(Top) - Completed(Top)
  BY <1>1 DEF Placed
<1>3. ActsInv /\ RegistersBalanced BY DEF Kept
<1> QED BY <1>2, <1>3, Called DEF Kept

LEMMA Return ==
  ASSUME Kept, step = "parse", Top.fn # "program", NEW node, acts' = Returns(node),
         register_ptr' = register_ptr + (IF Top.fn \in Valued THEN 1 ELSE 0) - Weight(Top)
  PROVE  Kept'
<1>1. register_ptr' = register_ptr + (IF Top.fn \in Valued THEN 1 ELSE 0)
                        - Holds(Top) - Completed(Top)
  BY TopWeight DEF Weight
<1> QED BY <1>1, Returned DEF Kept

LEMMA TestStep ==
  ASSUME Kept, step = "parse", NEW s1, NEW s2, NEW error, NEW at, Test(s1, s2, error, at),
         Top.fn # "test", Weight([Top EXCEPT !.at = at]) = Weight(Top),
         Completed([Top EXCEPT !.at = at]) = 0
  PROVE  Kept'
<1> DEFINE b == [Top EXCEPT !.at = at]
<1>1. register_ptr' = register_ptr BY DEF Test, Silent, Reports, codeVars
<1>2. Act(Top) /\ Act(b) /\ b.fn = Top.fn BY TopWeight, AtChanged
<1>3. Weight(Top) \in Int /\ Holds(b) \in Int /\ register_ptr \in Int BY TopWeight
<1>4. CASE acts' = Goto(at)
  <2>1. acts' = Becomes(b) BY <1>4 DEF Goto
  <2> HIDE DEF b
  <2>2. register_ptr' = register_ptr + Weight(b) - Weight(Top) BY <1>1, <1>3 DEF b
  <2> QED BY <1>2, <2>1, <2>2, Move
<1>5. CASE acts' = Calls(Top, at, "test", uniteset(s1, s2))
  <2>1. register_ptr' = register_ptr + Holds(b) - Weight(Top) BY <1>1, <1>3 DEF Weight
  <2>2. "test" \in Valued <=> Completed(b) = 1 BY DEF Valued
  <2> QED BY <1>2, <1>5, <2>1, <2>2, Call
<1> QED BY <1>4, <1>5 DEF Test, Stays

LEMMA DeclarationStep ==
  ASSUME Kept, step = "parse", Top.fn = "block", NEW phases, NEW p, NEW count, NEW name,
         Declaration(phases, p, count, name), Weight(Top) = 0,
         name \in {"constName", "varName", "procName"}
  PROVE  Inv'
<1>1. CASE step' = "crashed" BY <1>1 DEF Inv
<1>2. CASE Reads(Goto(name)) /\ Silent
  <2> DEFINE b == [Top EXCEPT !.at = name]
  <2>1. Act(b) /\ b.fn = Top.fn /\ b.at = name BY TopWeight, AtChanged
  <2>2. acts' = Becomes(b) /\ register_ptr' = register_ptr
    BY <1>2 DEF Reads, Goto, Silent, codeVars
  <2> HIDE DEF b
  <2>3. Weight(b) = 0 BY <2>1 DEF Weight, Holds, Completed
  <2>4. register_ptr' = register_ptr + Weight(b) - Weight(Top) BY <2>2, <2>3, TopWeight
  <2> QED BY <2>1, <2>2, <2>4, Move DEF Inv
<1> QED BY <1>1, <1>2 DEF Declaration

\* a goes on at another place, with another name, another symbol, other nodes
\* or another jump.
MovesOn(a, at, b) == Act(b) /\ b.fn = a.fn /\ b.at = at /\ b.fsys = a.fsys
Renamed(a, at, ident) == [a EXCEPT !.at = at, !.ident = ident]
Gathered(a, at, kids) == [a EXCEPT !.at = at, !.kids = kids]
Jumped(a, j2, at) == [a EXCEPT !.j2 = j2, !.at = at]
Naming(a, at, ident, s) == [a EXCEPT !.at = at, !.ident = ident, !.sym = s]

LEMMA ActMoved ==
  ASSUME NEW a, Act(a), NEW at, NEW v
  PROVE  /\ MovesOn(a, at, [a EXCEPT !.at = at]) /\ MovesOn(a, at, Renamed(a, at, v))
         /\ MovesOn(a, at, Gathered(a, at, v)) /\ MovesOn(a, at, Jumped(a, v, at))
<1> DEFINE b == [a EXCEPT !.at = at]
           c == [a EXCEPT !.j2 = v]
<1>1. Act(b) /\ b.fn = a.fn /\ b.at = at /\ b.fsys = a.fsys BY AtChanged
<1>2. Act(c) /\ c.fn = a.fn /\ c.fsys = a.fsys BY ActChanged DEF Alike
<1>3. Renamed(a, at, v) = [b EXCEPT !.ident = v] BY DEF Renamed
<1>4. Gathered(a, at, v) = [b EXCEPT !.kids = v] BY DEF Gathered
<1>5. Jumped(a, v, at) = [c EXCEPT !.at = at] BY DEF Jumped
<1>6. MovesOn(a, at, b) BY <1>1 DEF MovesOn
<1> HIDE DEF b, c
<1>7. Alike(b, [b EXCEPT !.ident = v]) /\ Alike(b, [b EXCEPT !.kids = v])
  BY <1>1, ActChanged
<1>8. /\ Act([c EXCEPT !.at = at]) /\ [c EXCEPT !.at = at].fn = c.fn
      /\ [c EXCEPT !.at = at].at = at /\ [c EXCEPT !.at = at].fsys = c.fsys
  BY <1>2, AtChanged
<1>9. b = [a EXCEPT !.at = at] BY DEF b
<1> QED BY <1>1, <1>2, <1>3, <1>4, <1>5, <1>6, <1>7, <1>8, <1>9 DEF Alike, MovesOn

LEMMA ActNamed ==
  ASSUME NEW a, Act(a), NEW at, NEW v, NEW s
  PROVE  MovesOn(a, at, Naming(a, at, v, s)) /\ Naming(a, at, v, s).sym = s
<1> DEFINE b == Renamed(a, at, v)
<1>1. Naming(a, at, v, s) = [b EXCEPT !.sym = s] BY DEF Naming, Renamed
<1>2. MovesOn(a, at, b) BY ActMoved
<1> HIDE DEF b
<1>3. Act(b) /\ b.fn = a.fn /\ b.at = at /\ b.fsys = a.fsys BY <1>2 DEF MovesOn
<1>4. /\ Act([b EXCEPT !.sym = s]) /\ [b EXCEPT !.sym = s].fn = b.fn
      /\ [b EXCEPT !.sym = s].fsys = b.fsys
      /\ [b EXCEPT !.sym = s].at = b.at /\ [b EXCEPT !.sym = s].sym = s
  BY <1>3, SymChanged
<1> QED BY <1>1, <1>3, <1>4 DEF MovesOn

\* The declarations and the body of a block, and the end of the program.
LEMMA BlocksKept ==
  ASSUME Kept, Blocks
  PROVE  Inv'
<1>a. step = "parse" BY DEF Blocks, Const, ConstName, ConstEq, ConstVal, Var, VarName,
        EndSection, Procedure, ProcName, ProcBody, ProcEnd, ProcTest, ProcSpace,
        EndDeclarations, Declared, BlockTail, EndBlock, EndProgram, At
<1>b. Act(Top) /\ register_ptr \in Int BY <1>a, TopWeight
<1>1. CASE Const
  <2>1. Top.fn = "block" /\ Weight(Top) = 0
    BY <1>1 DEF Const, At, Waits, Weight, Holds, Completed
  <2> QED BY <1>a, <1>1, <2>1, DeclarationStep DEF Const
<1>2. CASE Var
  <2>1. Top.fn = "block" /\ Weight(Top) = 0
    BY <1>2 DEF Var, At, Waits, Weight, Holds, Completed
  <2> QED BY <1>a, <1>2, <2>1, DeclarationStep DEF Var
<1>3. CASE Procedure
  <2>1. Top.fn = "block" /\ Weight(Top) = 0
    BY <1>3 DEF Procedure, At, Waits, Weight, Holds, Completed
  <2> QED BY <1>a, <1>3, <2>1, DeclarationStep DEF Procedure
<1>4. CASE \/ ConstName \/ ConstEq \/ ConstVal \/ EndSection \/ ProcName \/ ProcEnd
           \/ ProcSpace \/ (VarName /\ globalLevel < MaxLexi)
  <2>1. Top.fn = "block" /\ Weight(Top) = 0 /\ register_ptr' = register_ptr
    BY <1>4 DEF ConstName, ConstEq, ConstVal, EndSection, ProcName, ProcEnd, ProcSpace,
                VarName, At, Waits, Weight, Holds, Completed, Silent, Declares, codeVars
  <2>2. \E a : Act(a) /\ a.fn = "block" /\ acts' = Becomes(a) /\ Weight(a) = 0
    <3> DEFINE P == {"constEq", "constVal", "constNext", "varNext", "vars", "procs",
                     "procSemi", "procTest"}
    <3>1. ASSUME NEW at \in P, NEW a, MovesOn(Top, at, a)
          PROVE  Act(a) /\ a.fn = "block" /\ Weight(a) = 0
      BY <2>1, <3>1 DEF MovesOn, Weight, Holds, Completed
    <3>2. \E at \in P : \E v : \E a \in {[Top EXCEPT !.at = at], Renamed(Top, at, v),
                                       Gathered(Top, at, v)} : acts' = Becomes(a)
      <4>1. CASE ConstName BY <4>1 DEF ConstName, Reads, Renamed
      <4>2. CASE ConstEq BY <4>2 DEF ConstEq, Reads, Goto
      <4>3. CASE ConstVal BY <4>3 DEF ConstVal, Reads, Gathered
      <4>4. CASE EndSection BY <4>4 DEF EndSection, Reads, Goto
      <4>5. CASE ProcName BY <4>5 DEF ProcName, Reads, Renamed
      <4>6. CASE ProcEnd BY <4>6 DEF ProcEnd, Reads, Gathered
      <4>7. CASE ProcSpace BY <4>7 DEF ProcSpace, Stays, Goto
      <4>8. CASE VarName /\ globalLevel < MaxLexi BY <4>8 DEF VarName, Reads, Gathered
      <4> QED BY <1>4, <4>1, <4>2, <4>3, <4>4, <4>5, <4>6, <4>7, <4>8
    <3> HIDE DEF P
    <3> QED BY <1>b, <3>1, <3>2, ActMoved
  <2> QED BY <1>a, <1>b, <2>1, <2>2, Move DEF Inv
<1>5. CASE VarName /\ ~(globalLevel < MaxLexi) BY <1>5 DEF VarName, Inv
<1>6. CASE ProcBody
  <2>1. /\ Top.fn = "block" /\ Weight(Top) = 0 /\ register_ptr' = register_ptr
        /\ \E fsys : acts' = Calls(Top, "procEnd", "block", fsys)
    BY <1>6 DEF ProcBody, At, Waits, Weight, Holds, Completed, Silent, codeVars, Reads
  <2>2. [Top EXCEPT !.at = "procEnd"].fn = "block" /\ [Top EXCEPT !.at = "procEnd"].at = "procEnd"
    BY <1>b, <2>1, AtChanged
  <2>3. Holds([Top EXCEPT !.at = "procEnd"]) = 0 /\ Completed([Top EXCEPT !.at = "procEnd"]) = 0
    BY <2>2 DEF Holds, Completed
  <2> QED BY <1>a, <1>b, <2>1, <2>3, Call DEF Inv, Valued
<1>7. CASE ProcTest \/ EndDeclarations \/ BlockTail
  <2>1. /\ Top.fn = "block" /\ Weight(Top) = 0
        /\ \E s1, s2, error : \E at \in {"procSpace", "declared", "done"} :
             Test(s1, s2, error, at)
    BY <1>7 DEF ProcTest, EndDeclarations, BlockTail, At, Waits, Weight, Holds, Completed
  <2>2. ASSUME NEW at \in {"procSpace", "declared", "done"}
        PROVE  Weight([Top EXCEPT !.at = at]) = 0 /\ Completed([Top EXCEPT !.at = at]) = 0
    BY <1>b, <2>1, AtChanged DEF Weight, Holds, Completed
  <2> QED BY <1>a, <2>1, <2>2, TestStep DEF Inv
<1>8. CASE Declared
  <2>1. Top.fn = "block" /\ Top.at = "declared" /\ register_ptr' = register_ptr
    BY <1>8 DEF Declared, At, Waits, Declares, codeVars
  <2>2. Weight(Top) = 0 BY <2>1 DEF Weight, Holds, Completed
  <2>3. CASE acts' = Goto("start")
    <3>1. Act([Top EXCEPT !.at = "start"]) /\ [Top EXCEPT !.at = "start"].fn = "block"
          /\ [Top EXCEPT !.at = "start"].at = "start"
      BY <1>b, <2>1, AtChanged
    <3>2. Weight([Top EXCEPT !.at = "start"]) = 0 BY <3>1 DEF Weight, Holds, Completed
    <3> DEFINE b == [Top EXCEPT !.at = "start"]
    <3>3. acts' = Becomes(b) BY <2>3 DEF Goto
    <3> HIDE DEF b
    <3>4. Act(b) /\ b.fn = Top.fn /\ b.fn # "test" BY <2>1, <3>1 DEF b
    <3>5. register_ptr' = register_ptr + Weight(b) - Weight(Top)
      BY <1>b, <2>1, <2>2, <3>2 DEF b
    <3> QED BY <1>a, <3>3, <3>4, <3>5, Move DEF Inv
  <2>4. CASE \E fsys : acts' = Calls(Top, "tail", "statement", fsys)
    <3>1. [Top EXCEPT !.at = "tail"].fn = "block" /\ [Top EXCEPT !.at = "tail"].at = "tail"
      BY <1>b, <2>1, AtChanged
    <3>2. Holds([Top EXCEPT !.at = "tail"]) = 0 /\ Completed([Top EXCEPT !.at = "tail"]) = 0
      BY <3>1 DEF Holds, Completed
    <3> QED BY <1>a, <1>b, <2>1, <2>2, <2>4, <3>2, Call DEF Inv, Valued
  <2> QED BY <1>8, <2>3, <2>4 DEF Declared, Stays
<1>9. CASE EndBlock
  <2>1. /\ Top.fn = "block" /\ Weight(Top) = 0 /\ register_ptr' = register_ptr
        /\ acts' = Returns(BlockNode)
    BY <1>9 DEF EndBlock, At, Waits, Weight, Holds, Completed, Silent, codeVars, Stays
  <2> HIDE DEF BlockNode
  <2> QED BY <1>a, <1>b, <2>1, Return DEF Inv, Valued
<1>10. CASE EndProgram BY <1>10 DEF EndProgram, Inv
<1> QED BY <1>1, <1>2, <1>3, <1>4, <1>5, <1>6, <1>7, <1>8, <1>9, <1>10 DEF Blocks

\* A call that gives no register back holds at its new place what it had.
LEMMA CallOn ==
  ASSUME Kept, step = "parse", NEW a, Act(a), a.fn = Top.fn, a.fn # "test",
         NEW at, NEW fn, NEW fsys, fn # "program", acts' = Calls(a, at, fn, fsys),
         register_ptr' = register_ptr,
         \A b : b.fn = Top.fn /\ b.at = at =>
                  Holds(b) = Weight(Top) /\ (fn \in Valued <=> Completed(b) = 1)
  PROVE  Inv'
<1> DEFINE b == [a EXCEPT !.at = at]
<1>1. b.fn = Top.fn /\ b.at = at BY AtChanged
<1> HIDE DEF b
<1>2. Holds(b) = Weight(Top) /\ (fn \in Valued <=> Completed(b) = 1) BY <1>1
<1>3. register_ptr' = register_ptr + Holds(b) - Weight(Top) BY <1>2, TopWeight
<1> QED BY <1>2, <1>3, Call DEF b, Inv

\* The same function goes on elsewhere.
LEMMA MoveOn ==
  ASSUME Kept, step = "parse", NEW a, NEW at, MovesOn(Top, at, a), Top.fn # "test",
         acts' = Becomes(a), NEW v \in Int, register_ptr' = register_ptr - v,
         \A b : b.fn = Top.fn /\ b.at = at => Weight(b) = Weight(Top) - v
  PROVE  Inv'
<1>1. Act(a) /\ a.fn = Top.fn /\ a.at = at BY DEF MovesOn
<1>2. Weight(a) = Weight(Top) - v BY <1>1
<1>3. register_ptr' = register_ptr + Weight(a) - Weight(Top) BY <1>2, TopWeight
<1> QED BY <1>1, <1>3, Move DEF Inv

\* Statements.
LEMMA StatementsKept ==
  ASSUME Kept, Statements
  PROVE  Inv'
<1>a. step = "parse" /\ Top.fn = "statement"
  BY DEF Statements, Assign, AssignBecomes, Store, Named, CallIdent, ReadIdent, WriteIdent,
         Begin, ListStatement, End, If, Body, Else, EndIf, While, EndWhile, Empty, EndEmpty,
         Starts, At, Waits
<1>b. Act(Top) /\ register_ptr \in Int BY <1>a, TopWeight
<1>c. \A v : /\ Act([Top EXCEPT !.j1 = v]) /\ [Top EXCEPT !.j1 = v].fn = Top.fn
             /\ Act([Top EXCEPT !.c = v]) /\ [Top EXCEPT !.c = v].fn = Top.fn
  BY <1>b, ActChanged DEF Alike
<1>1. CASE Assign
  <2>1. /\ acts' = Becomes(Naming(Top, "becomes", cur.val, sym))
        /\ register_ptr' = register_ptr - 0 /\ Top.at = "start"
    BY <1>1, <1>b DEF Assign, Starts, At, Waits, Reads, codeVars, Naming
  <2>2. MovesOn(Top, "becomes", Naming(Top, "becomes", cur.val, sym)) BY <1>b, ActNamed
  <2>3. \A b : b.fn = Top.fn /\ b.at = "becomes" => Weight(b) = Weight(Top) - 0
    BY <1>a, <2>1 DEF Weight, Holds, Completed
  <2> QED BY <1>a, <2>1, <2>2, <2>3, MoveOn
<1>2. CASE \E place \in {"callee", "target", "source"} : \E type : Named(type, place)
  <2>1. PICK place \in {"callee", "target", "source"} : \E type : Named(type, place)
    BY <1>2
  <2>2. /\ acts' = Becomes([Top EXCEPT !.at = place]) /\ Top.at = "start"
        /\ register_ptr' = register_ptr - 0
    BY <1>b, <2>1 DEF Named, Starts, At, Waits, Reads, Goto, Silent, codeVars
  <2>3. MovesOn(Top, place, [Top EXCEPT !.at = place]) BY <1>b, ActMoved
  <2>4. \A b : b.fn = Top.fn /\ b.at = place => Weight(b) = Weight(Top) - 0
    BY <1>a, <2>1, <2>2 DEF Weight, Holds, Completed
  <2> QED BY <1>a, <2>2, <2>3, <2>4, MoveOn
<1>3. CASE AssignBecomes
  <2>1. /\ acts' = Calls(Top, "store", "expression", Top.fsys) /\ Top.at = "becomes"
        /\ register_ptr' = register_ptr
    BY <1>3 DEF AssignBecomes, At, Waits, Reads, codeVars
  <2>2. \A b : b.fn = Top.fn /\ b.at = "store" =>
                 Holds(b) = Weight(Top) /\ ("expression" \in Valued <=> Completed(b) = 1)
    BY <1>a, <2>1 DEF Weight, Holds, Completed, Valued
  <2> QED BY <1>a, <1>b, <2>1, <2>2, CallOn
<1>4. CASE Begin \/ ListStatement
  <2>1. /\ acts' = Calls(Top, "list", "statement", ListSet) /\ Top.at \in {"start", "list"}
        /\ register_ptr' = register_ptr
    BY <1>4 DEF Begin, ListStatement, Starts, At, Waits, Reads, Stays, Silent, Reports, codeVars
  <2>2. \A b : b.fn = Top.fn /\ b.at = "list" =>
                 Holds(b) = Weight(Top) /\ ("statement" \in Valued <=> Completed(b) = 1)
    BY <1>a, <2>1 DEF Weight, Holds, Completed, Valued
  <2> QED BY <1>a, <1>b, <2>1, <2>2, CallOn
<1>5. CASE If \/ While
  <2>1. /\ \E fsys : \E at \in {"then", "do"} : \E a \in {Top, [Top EXCEPT !.c = Here]} :
             acts' = Calls(a, at, "condition", fsys)
        /\ Top.at = "start" /\ register_ptr' = register_ptr
    BY <1>5 DEF If, While, Starts, At, Waits, Reads, Silent, codeVars
  <2>2. PICK at \in {"then", "do"}, a \in {Top, [Top EXCEPT !.c = Here]} :
          \E fsys : acts' = Calls(a, at, "condition", fsys)
    BY <2>1
  <2>3. \A b : b.fn = Top.fn /\ b.at = at =>
                 Holds(b) = Weight(Top) /\ ("condition" \in Valued <=> Completed(b) = 1)
    BY <1>a, <2>1 DEF Weight, Holds, Completed, Valued
  <2>4. Act(a) /\ a.fn = Top.fn /\ a.fn # "test" BY <1>a, <1>b, <1>c
  <2> QED BY <1>a, <2>1, <2>2, <2>3, <2>4, CallOn
<1>6. CASE Body("then", "else") \/ Body("do", "loop")
  <2>1. /\ \E at \in {"else", "loop"} :
             acts' = Calls([Top EXCEPT !.j1 = Here], at, "statement", Top.fsys)
        /\ Top.at \in {"then", "do"} /\ register_ptr' = register_ptr
    BY <1>6 DEF Body, At, Waits, Reads, Emits, Rewrites
  <2>2. \A b : b.fn = Top.fn /\ b.at \in {"else", "loop"} =>
                 Holds(b) = Weight(Top) /\ ("statement" \in Valued <=> Completed(b) = 1)
    BY <1>a, <2>1 DEF Weight, Holds, Completed, Valued
  <2> QED BY <1>a, <1>b, <1>c, <2>1, <2>2, CallOn
<1>7. CASE Else
  <2> DEFINE a == Jumped(Top, Here, "endif")
  <2>1. /\ acts' = Calls(a, "endif", "statement", Top.fsys) \/ acts' = Becomes(a)
        /\ Top.at = "else" /\ register_ptr' = register_ptr
    BY <1>7 DEF Else, At, Waits, Reads, Stays, Rewrites, Jumped
  <2>2. MovesOn(Top, "endif", a) BY <1>b, ActMoved
  <2>3. Act(a) /\ a.fn = Top.fn BY <2>2 DEF MovesOn
  <2> HIDE DEF a
  <2>4. \A b : b.fn = Top.fn /\ b.at = "endif" =>
                 /\ Holds(b) = Weight(Top) /\ ("statement" \in Valued <=> Completed(b) = 1)
                 /\ Weight(b) = Weight(Top) - 0
    BY <1>a, <2>1 DEF Weight, Holds, Completed, Valued
  <2>5. CASE acts' = Calls(a, "endif", "statement", Top.fsys)
    BY <1>a, <2>1, <2>3, <2>4, <2>5, CallOn
  <2>6. CASE acts' = Becomes(a)
    <3>1. register_ptr' = register_ptr - 0 BY <1>b, <2>1
    <3> QED BY <1>a, <2>2, <2>4, <2>6, <3>1, MoveOn
  <2> QED BY <2>1, <2>5, <2>6
<1>8. CASE CallIdent \/ ReadIdent \/ WriteIdent \/ End \/ EndEmpty
  <2>1. /\ \E node : acts' = Returns(node)
        /\ register_ptr' = register_ptr
        /\ Top.at \in {"callee", "target", "source", "list", "done"}
    BY <1>8 DEF CallIdent, ReadIdent, WriteIdent, End, EndEmpty, At, Waits, Reads, Stays,
                Emits, Rewrites, Silent, codeVars
  <2>2. Weight(Top) = 0 BY <1>a, <2>1 DEF Weight, Holds, Completed
  <2> QED BY <1>a, <1>b, <2>1, <2>2, Return DEF Inv, Valued
<1>9. CASE (Store /\ Top.sym # Null) \/ EndIf \/ EndWhile
  <2>1. /\ \E node : acts' = Returns(node)
        /\ register_ptr' = register_ptr - 1 /\ Top.at \in {"store", "endif", "loop"}
    BY <1>9 DEF Store, EndIf, EndWhile, At, Waits, Stays, Emits, Rewrites, Released
  <2>2. Weight(Top) = 1 BY <1>a, <2>1 DEF Weight, Holds, Completed
  <2> QED BY <1>a, <1>b, <2>1, <2>2, Return DEF Inv, Valued
<1>10. CASE Store /\ Top.sym = Null BY <1>10 DEF Store, Inv
<1>11. CASE Empty
  <2>1. Test(Top.fsys, phi, 19, "done") /\ Top.at = "start" BY <1>11 DEF Empty, At, Waits
  <2>2. MovesOn(Top, "done", [Top EXCEPT !.at = "done"]) BY <1>b, ActMoved
  <2>3. Weight([Top EXCEPT !.at = "done"]) = Weight(Top)
        /\ Completed([Top EXCEPT !.at = "done"]) = 0
    BY <1>a, <2>1, <2>2 DEF MovesOn, Weight, Holds, Completed
  <2> QED BY <1>a, <2>1, <2>3, TestStep DEF Inv
<1> QED
  BY <1>1, <1>2, <1>3, <1>4, <1>5, <1>6, <1>7, <1>8, <1>9, <1>10, <1>11 DEF Statements

\* expressionParse hands its sign to the term it calls.
LEMMA ExpressionKept ==
  ASSUME Kept, step = "parse", Expression
  PROVE  Inv'
<1> DEFINE sign == IF cur.type \in SignTypes THEN cur.type ELSE "nulsym"
           a == [Top EXCEPT !.ops = <<sign>>]
           b == [a EXCEPT !.at = "more"]
           new == Calls(a, "more", "term", FactorSet)
           term == Activation("term", FactorSet)
           n == Len(acts)
<1>1. /\ Top.fn = "expression" /\ Top.at = "start" /\ register_ptr' = register_ptr
      /\ acts' = [new EXCEPT ![Len(new)].ident = sign]
  BY DEF Expression, At, Waits, Reads, Stays, Silent, codeVars
<1>2. Act(Top) /\ register_ptr \in Int /\ n \in Nat \ {0} BY TopWeight, TopIs DEF Kept
<1>3. Act(a) /\ a.fn = "expression"
  <2>1. Alike(Top, a) BY <1>2, ActChanged
  <2> QED BY <1>1, <2>1 DEF Alike
<1>4. Act(b) /\ b.fn = "expression" /\ b.at = "more"
  <2> HIDE DEF a
  <2> QED BY <1>3, AtChanged
<1>5. Act(term) /\ term.fn = "term" /\ term.at = "start" BY ActNew
<1> DEFINE signed == [term EXCEPT !.ident = sign]
<1>6. Act(signed) /\ signed.fn = "term" /\ signed.at = "start"
  <2> HIDE DEF term, sign
  <2>1. Alike(term, signed) BY <1>5, ActChanged
  <2> QED BY <1>5, <2>1 DEF Alike
<1>7. /\ IsSequence(new) /\ Len(new) = n + 1 /\ new[n] = b /\ new[n + 1] = term
      /\ \A i \in 1 .. n - 1 : new[i] = acts[i]
  <2> HIDE DEF a, b, new, term
  <2>1. new = Calls(a, "more", "term", FactorSet) BY DEF new
  <2>2. term = Activation("term", FactorSet) BY DEF term
  <2>3. b = Placed(a, "more") BY DEF b, Placed
  <2> QED BY <2>1, <2>2, <2>3, CallsIs DEF Kept
<1> HIDE DEF new, b, a, term, sign, n
<1>8. /\ IsSequence(acts') /\ Len(acts') = n + 1 /\ acts'[n] = b /\ acts'[n + 1] = signed
      /\ \A i \in 1 .. n - 1 : acts'[i] = acts[i]
  <2>1. acts' = [new EXCEPT ![n + 1] = signed] BY <1>1, <1>2, <1>7
  <2>2. new \in Seq(Elements(new)) BY <1>7 DEF IsSequence
  <2> DEFINE S == Elements(new) \cup {signed}
  <2>3. new \in Seq(S) BY <2>2
  <2> HIDE DEF S, signed
  <2>4. signed \in S BY DEF S
  <2>5. acts' \in Seq(S) /\ Len(acts') = n + 1 BY <1>2, <1>7, <2>1, <2>3, <2>4
  <2>6. acts'[n + 1] = signed /\ acts'[n] = b /\ \A i \in 1 .. n - 1 : acts'[i] = new[i]
    BY <1>2, <1>7, <2>1, <2>3
  <2>7. acts' \in Seq(Elements(acts')) BY <2>5 DEF Elements
  <2> QED BY <1>7, <2>5, <2>6, <2>7 DEF IsSequence
<1> HIDE DEF signed
<1>9. Weight(Top) = 0 /\ Completed(b) = 1 /\ Holds(b) = 0
  BY <1>1, <1>4 DEF Weight, Holds, Completed
<1>10. Holds(Top) = 0 /\ Completed(Top) = 0 BY <1>1 DEF Holds, Completed
<1>11. register_ptr' = register_ptr + Holds(b) - Holds(Top) - Completed(Top)
  BY <1>1, <1>2, <1>9, <1>10
<1>12. signed.fn \in Valued <=> Completed(b) = 1 BY <1>6, <1>9 DEF Valued
<1> QED BY <1>1, <1>4, <1>6, <1>8, <1>11, <1>12, Enters DEF n, Kept, Inv

\* Expressions.
LEMMA ExpressionsKept ==
  ASSUME Kept, Expressions
  PROVE  Inv'
<1>a. step = "parse" /\ Top.fn \in Valued
  BY DEF Expressions, Condition, Odd, Relation, Compare, Expression, Operator, Operate,
         EndList, Term, FirstFactor, Factor, FactorIdent, FactorNumber, FactorOpen,
         FactorClose, EndFactor, FactorNone, At, Waits, Valued
<1>b. Act(Top) /\ register_ptr \in Int /\ Top.fn # "test" /\ Top.fn # "program"
  BY <1>a, TopWeight DEF Valued
<1>c. \A v : Act([Top EXCEPT !.ops = v]) /\ [Top EXCEPT !.ops = v].fn = Top.fn
  BY <1>b, OpsChanged
<1>1. CASE Condition
  <2>1. /\ \E at \in {"odd", "relop"} : \E fsys : acts' = Calls(Top, at, "expression", fsys)
        /\ Top.fn = "condition" /\ Top.at = "start" /\ register_ptr' = register_ptr
    BY <1>1 DEF Condition, At, Waits, Reads, Stays, Silent, codeVars
  <2>2. PICK at \in {"odd", "relop"} : \E fsys : acts' = Calls(Top, at, "expression", fsys)
    BY <2>1
  <2>3. \A b : b.fn = Top.fn /\ b.at = at =>
                 Holds(b) = Weight(Top) /\ ("expression" \in Valued <=> Completed(b) = 1)
    BY <2>1 DEF Weight, Holds, Completed, Valued
  <2> QED BY <1>a, <1>b, <2>1, <2>2, <2>3, CallOn
<1>2. CASE Relation
  <2> DEFINE a == [Top EXCEPT !.ops = <<cur.type>>]
  <2>1. /\ acts' = Calls(a, "right", "expression", Top.fsys)
        /\ Top.fn = "condition" /\ Top.at = "relop" /\ register_ptr' = register_ptr
    BY <1>2 DEF Relation, At, Waits, Reads, Silent, codeVars
  <2>2. \A b : b.fn = Top.fn /\ b.at = "right" =>
                 Holds(b) = Weight(Top) /\ ("expression" \in Valued <=> Completed(b) = 1)
    BY <2>1 DEF Weight, Holds, Completed, Valued
  <2>3. Act(a) /\ a.fn = Top.fn /\ a.fn # "test" BY <1>b, <1>c
  <2> HIDE DEF a
  <2> QED BY <1>a, <2>1, <2>2, <2>3, CallOn
<1>3. CASE Term
  <2> DEFINE a == [Top EXCEPT !.ops = <<"nulsym">>]
  <2>1. /\ acts' = Calls(a, "first", "factor", FactorSet)
        /\ Top.fn = "term" /\ Top.at = "start" /\ register_ptr' = register_ptr
    BY <1>3 DEF Term, At, Waits, Stays, Silent, codeVars
  <2>2. \A b : b.fn = Top.fn /\ b.at = "first" =>
                 Holds(b) = Weight(Top) /\ ("factor" \in Valued <=> Completed(b) = 1)
    BY <2>1 DEF Weight, Holds, Completed, Valued
  <2>3. Act(a) /\ a.fn = Top.fn /\ a.fn # "test" BY <1>b, <1>c
  <2> HIDE DEF a
  <2> QED BY <1>a, <2>1, <2>2, <2>3, CallOn
<1>4. CASE Operator("expression", "term", SignTypes) \/ Operator("term", "factor", FactorTypes)
  <2> DEFINE a == [Top EXCEPT !.ops = Append(@, cur.type)]
  <2>1. /\ \E operand \in {"term", "factor"} : acts' = Calls(a, "operate", operand, FactorSet)
        /\ Top.fn \in {"term", "expression"} /\ Top.at = "more"
        /\ register_ptr' = register_ptr
    BY <1>4 DEF Operator, At, Waits, Reads, Silent, codeVars
  <2>2. PICK operand \in {"term", "factor"} : acts' = Calls(a, "operate", operand, FactorSet)
    BY <2>1
  <2>3. \A b : b.fn = Top.fn /\ b.at = "operate" =>
                 Holds(b) = Weight(Top) /\ (operand \in Valued <=> Completed(b) = 1)
    BY <2>1 DEF Weight, Holds, Completed, Valued
  <2>4. Act(a) /\ a.fn = Top.fn /\ a.fn # "test" BY <1>b, <1>c
  <2> HIDE DEF a
  <2> QED BY <1>a, <2>1, <2>2, <2>3, <2>4, CallOn
<1>5. CASE FactorOpen
  <2>1. /\ \E fsys : acts' = Calls(Top, "close", "expression", fsys)
        /\ Top.fn = "factor" /\ Top.at = "factor" /\ register_ptr' = register_ptr
    BY <1>5 DEF FactorOpen, At, Waits, Reads, Silent, codeVars
  <2>2. \A b : b.fn = Top.fn /\ b.at = "close" =>
                 Holds(b) = Weight(Top) /\ ("expression" \in Valued <=> Completed(b) = 1)
    BY <2>1 DEF Weight, Holds, Completed, Valued
  <2> QED BY <1>a, <1>b, <2>1, <2>2, CallOn
<1>6. CASE Expression BY <1>6, <1>a, ExpressionKept
<1>7. CASE FirstFactor
  <2>1. /\ acts' = Becomes([Top EXCEPT !.at = "more"]) /\ Top.fn = "term" /\ Top.at = "first"
        /\ register_ptr' = register_ptr - 0
    BY <1>b, <1>7 DEF FirstFactor, At, Waits, Stays, Goto, Emits, Rewrites
  <2>2. MovesOn(Top, "more", [Top EXCEPT !.at = "more"]) BY <1>b, ActMoved
  <2>3. \A b : b.fn = Top.fn /\ b.at = "more" => Weight(b) = Weight(Top) - 0
    BY <2>1 DEF Weight, Holds, Completed
  <2> QED BY <1>a, <1>b, <2>1, <2>2, <2>3, MoveOn
<1>8. CASE Operate("expression") \/ Operate("term")
  <2>1. /\ acts' = Becomes([Top EXCEPT !.at = "more"]) /\ Top.at = "operate"
        /\ Top.fn \in {"expression", "term"} /\ register_ptr' = register_ptr - 1
    BY <1>8 DEF Operate, At, Waits, Stays, Goto, Emits, Rewrites
  <2>2. MovesOn(Top, "more", [Top EXCEPT !.at = "more"]) BY <1>b, ActMoved
  <2>3. \A b : b.fn = Top.fn /\ b.at = "more" => Weight(b) = Weight(Top) - 1
    BY <2>1 DEF Weight, Holds, Completed
  <2> QED BY <1>a, <1>b, <2>1, <2>2, <2>3, MoveOn
<1>9. CASE Odd \/ EndFactor \/ EndList("expression", SignTypes) \/ EndList("term", FactorTypes)
  <2>1. /\ \E node : acts' = Returns(node)
        /\ register_ptr' = register_ptr
        /\ Top.at \in {"odd", "more"} \/ (Top.fn = "factor" /\ Top.at = "done")
    BY <1>9 DEF Odd, EndFactor, EndList, At, Waits, Stays, Emits, Rewrites, Silent, codeVars
  <2>2. Weight(Top) = 1 \/ (Top.fn = "factor" /\ Weight(Top) = 1)
    BY <2>1, <1>b DEF Weight, Holds, Completed
  <2> QED BY <1>a, <1>b, <2>1, <2>2, Return DEF Inv
<1>10. CASE Compare
  <2>1. /\ \E node : acts' = Returns(node)
        /\ register_ptr' = register_ptr - 1 /\ Top.at = "right"
    BY <1>10 DEF Compare, At, Waits, Stays, Emits, Rewrites
  <2>2. Weight(Top) = 2 BY <2>1 DEF Weight, Holds, Completed
  <2> QED BY <1>a, <1>b, <2>1, <2>2, Return DEF Inv
<1>11. CASE FactorIdent \/ FactorNumber
  <2>1. /\ \E node : acts' = Returns(node)
        /\ register_ptr' = register_ptr + 1 /\ Top.at = "factor"
    BY <1>11 DEF FactorIdent, FactorNumber, Operand, At, Waits, Reads, Emits, Rewrites
  <2>2. Weight(Top) = 0 BY <2>1 DEF Weight, Holds, Completed
  <2> QED BY <1>a, <1>b, <2>1, <2>2, Return DEF Inv
<1>12. CASE FactorClose /\ Is("rparentsym")
  <2>1. /\ acts' = Becomes([Top EXCEPT !.at = "done"]) /\ Top.at = "close"
        /\ Top.fn = "factor" /\ register_ptr' = register_ptr - 0
    BY <1>b, <1>12 DEF FactorClose, At, Waits, Reads, Goto, Silent, codeVars
  <2>2. MovesOn(Top, "done", [Top EXCEPT !.at = "done"]) BY <1>b, ActMoved
  <2>3. \A b : b.fn = Top.fn /\ b.at = "done" => Weight(b) = Weight(Top) - 0
    BY <2>1 DEF Weight, Holds, Completed
  <2> QED BY <1>a, <1>b, <2>1, <2>2, <2>3, MoveOn
<1>13. CASE Factor \/ FactorNone \/ (FactorClose /\ ~Is("rparentsym"))
  <2>1. \E s1, s2, error : \E at \in {"factor", "none", "done"} :
          /\ Test(s1, s2, error, at) /\ Top.fn = "factor"
          /\ IF at = "done" THEN Top.at = "close" ELSE Top.at \in {"start", "factor"}
    BY <1>13 DEF Factor, FactorNone, FactorClose, At, Waits
  <2>2. PICK at \in {"factor", "none", "done"} : \E s1, s2, error :
          /\ Test(s1, s2, error, at) /\ Top.fn = "factor"
          /\ IF at = "done" THEN Top.at = "close" ELSE Top.at \in {"start", "factor"}
    BY <2>1
  <2>3. MovesOn(Top, at, [Top EXCEPT !.at = at]) BY <1>b, ActMoved
  <2>4. Weight([Top EXCEPT !.at = at]) = Weight(Top) /\ Completed([Top EXCEPT !.at = at]) = 0
    BY <2>2, <2>3 DEF MovesOn, Weight, Holds, Completed
  <2> QED BY <1>a, <1>b, <2>2, <2>4, TestStep DEF Inv
<1> QED
  BY <1>1, <1>2, <1>3, <1>4, <1>5, <1>6, <1>7, <1>8, <1>9, <1>10, <1>11, <1>12, <1>13
  DEF Expressions

-----------------------------------------------------------------------------
LEMMA NextKept ==
  ASSUME Inv, [Next]_vars
  PROVE  Inv'
<1>1. CASE UNCHANGED vars
  BY <1>1 DEF vars, codeVars, Inv, Kept, ActsInv, RegistersBalanced, Top
<1>2. CASE step # "parse"
  BY <1>1, <1>2 DEF Next, Blocks, Statements, Expressions, Const, ConstName, ConstEq, ConstVal,
     Var, VarName, EndSection, Procedure, ProcName, ProcBody, ProcEnd, ProcTest, ProcSpace,
     EndDeclarations, Declared, BlockTail, EndBlock, EndProgram, Assign, AssignBecomes, Store,
     Named, CallIdent, ReadIdent, WriteIdent, Begin, ListStatement, End, If, Body, Else, EndIf,
     While, EndWhile, Empty, EndEmpty, Starts, Condition, Odd, Relation, Compare, Expression,
     Operator, Operate, EndList, Term, FirstFactor, Factor, FactorIdent, FactorNumber,
     FactorOpen, FactorClose, EndFactor, FactorNone, At, Skip, EndTest, Fail, Parsing
<1>3. CASE step = "parse" /\ Next
  <2>1. Kept BY <1>3 DEF Inv
  <2>2. CASE Skip
    <3>1. acts' = acts /\ register_ptr' = register_ptr
      BY <2>2 DEF Skip, Reads, Silent, codeVars
    <3> QED BY <1>3, <2>1, <3>1 DEF Inv, Kept, ActsInv, RegistersBalanced, Top
  <2>3. CASE EndTest
    <3>1. acts' = Front(acts) /\ register_ptr' = register_ptr /\ Top.fn = "test"
      BY <2>3 DEF EndTest, Parsing, Stays, Silent, codeVars
    <3>2. Top.at = "start" BY <2>1, <3>1, TopIs DEF Kept, ActsInv
    <3>3. Holds(Top) = 0 /\ Completed(Top) = 0 /\ register_ptr \in Int
      BY <1>3, <2>1, <3>1, <3>2, TopWeight DEF Holds, Completed
    <3>4. /\ IsSequence(acts') /\ Len(acts') = Len(acts) - 1
          /\ \A i \in 1 .. Len(acts) - 1 : acts'[i] = acts[i]
      BY <2>1, <3>1, Shrinks DEF Kept, ActsInv
    <3>5. /\ Len(acts) - 1 \in 1 .. Len(acts) - 1 /\ Len(acts) - 1 \in 1 .. Len(acts)
          /\ \A i \in 1 .. Len(acts) - 2 : i \in 1 .. Len(acts) - 1
      BY <2>1, <3>1, TopIs DEF Kept, ActsInv
    <3>6. Act(acts'[Len(acts) - 1]) BY <2>1, <3>4, <3>5 DEF Kept, ActsInv
    <3>7. register_ptr' = register_ptr + (IF Top.fn \in Valued THEN 1 ELSE 0)
                            - Holds(Top) - Completed(Top)
      BY <3>1, <3>3 DEF Valued
    <3> QED BY <1>3, <2>1, <3>1, <3>4, <3>5, <3>6, <3>7, Over DEF Kept, Inv
  <2>4. CASE Fail BY <2>4 DEF Fail, Inv
  <2> QED
    BY <1>3, <2>1, <2>2, <2>3, <2>4, BlocksKept, StatementsKept, ExpressionsKept DEF Next
<1> QED BY <1>1, <1>2, <1>3

LEMMA InitKept ==
  ASSUME Init
  PROVE  Inv
<1> DEFINE a == [Activation("program", phi) EXCEPT !.at = "period"]
<1>1. PICK fsys : acts = <<a, Activation("block", fsys)>> /\ register_ptr = 0
  BY DEF Init, InitOn
<1> DEFINE b == Activation("block", fsys)
<1>2. Act(a) /\ a.fn = "program" /\ a.at = "period"
  <2>1. Act(Activation("program", phi)) /\ Activation("program", phi).fn = "program"
    BY ActNew
  <2> QED BY <2>1, AtChanged
<1>3. Act(b) /\ b.fn = "block" /\ b.at = "start" BY ActNew
<1> HIDE DEF a, b
<1>4. acts = <<a, b>> BY <1>1 DEF b
<1>5. acts \in Seq({a, b}) /\ Len(acts) = 2 /\ acts[1] = a /\ acts[2] = b BY <1>4
<1>6. IsSequence(acts) /\ acts # << >>
  <2>1. Elements(acts) = {a, b} BY <1>5 DEF Elements
  <2> QED BY <1>5, <2>1 DEF IsSequence
<1>7. ActsInv
  <2>1. Completed(a) = 0 BY <1>2 DEF Completed
  <2>2. \A i \in 1 .. 2 : i = 1 \/ i = 2 OBVIOUS
  <2>3. \A i \in 1 .. 2 - 1 : i = 1 OBVIOUS
  <2> QED BY <1>2, <1>3, <1>5, <1>6, <2>1, <2>2, <2>3 DEF ActsInv, Valued
<1>8. RegistersBalanced
  <2>1. Top = b BY <1>5, <1>7, TopIs
  <2>2. Holds(a) # 1 /\ Holds(b) # 1 /\ Completed(b) = 0
    BY <1>2, <1>3 DEF Holds, Completed
  <2>3. {i \in 1 .. Len(acts) : Holds(acts[i]) = 1} = {}
    <3>1. \A i \in 1 .. 2 : i = 1 \/ i = 2 OBVIOUS
    <3> QED BY <1>5, <2>2, <3>1
  <2>4. Cardinality({}) = 0 BY FS_EmptySet
  <2> QED BY <1>1, <2>1, <2>2, <2>3, <2>4 DEF RegistersBalanced
<1> QED BY <1>7, <1>8 DEF Inv, Kept

\* Whatever the token file, register_ptr of parse.c is at every point of the
\* descent what the open calls hold: no path through the functions and through
\* their recovery takes a register it does not give back.
THEOREM DescentBalances == Spec => []RegistersBalanced
<1>1. Init => Inv BY InitKept
<1>2. Inv /\ [Next]_vars => Inv' BY NextKept
<1>3. Inv => RegistersBalanced BY DEF Inv, Kept, RegistersBalanced
<1> QED BY <1>1, <1>2, <1>3, PTL DEF Spec
=============================================================================

------------------------------- MODULE CrashProofs -------------------------------
(***************************************************************************)
(* Proofs that parse.c follows no null pointer in a program without        *)
(* errors: the lists of a block node are begun once each, in the order of  *)
(* their sections, and an assignment has the symbol it stores to.  And     *)
(* that calls, tree, errors and code are what their types say.             *)
(***************************************************************************)
EXTENDS RecoveryProofs

LOCAL INSTANCE SequencesExt

-----------------------------------------------------------------------------
(* What holds as long as there were no errors.                             *)

\* The list of the section that is being read can be continued.
Going(b, section) == b.phase = section /\ b.linked

Rec(b) == b = [phase |-> b.phase, linked |-> b.linked, consts |-> b.consts, vars |-> b.vars,
               procs |-> b.procs, old |-> b.old, set |-> b.set, declared |-> b.declared]

\* The places between the name of a procedure and the end of its body, where
\* the node of the procedure's block is there, but blockParse may not be.
Pending == {"procSemi", "procEnd", "procTest", "procSpace"}
ConstPlaces == {"start", "constName", "constEq", "constVal", "constNext", "vars"}
VarPlaces == {"varName", "varNext"}

\* What the block at a place has in its lists: of a section that is still to
\* come, nothing.
Matches(at, b) ==
  /\ at = "start" => b.consts = 0
  /\ at \in ConstPlaces => b.vars = 0
  /\ at \in ConstPlaces \cup VarPlaces => b.procs = 0
  /\ at = "constNext" => Going(b, "const")
  /\ at = "varNext" => Going(b, "var")
  /\ at = "procs" => b.procs = 0 \/ Going(b, "proc")
  /\ at \in Pending => Going(b, "proc")
Fresh(b) == b.consts = 0 /\ b.vars = 0 /\ b.procs = 0

\* The innermost call of blockParse, and the blocks that it has below it.
IsBlock(a) == a.fn = "block"
Inner(k) == IsBlock(acts[k]) /\ \A i \in k + 1 .. Len(acts) : ~IsBlock(acts[i])
Depth(k) == Len(blocks) = k - 1 + (IF acts[k].at \in Pending THEN 1 ELSE 0)

\* An assignment has its symbol.
Safe(a) == a.fn = "statement" /\ a.at \in {"becomes", "store"} => a.sym # Null

\* Every call of blockParse has the block node it reads, next to the one of
\* its caller, and nobody is in the recovery.
Nest ==
  /\ IsSequence(blocks) /\ \A j \in 1 .. Len(blocks) : Rec(blocks[j])
  /\ \A i \in 1 .. Len(acts) : acts[i].fn # "test" /\ Safe(acts[i])
  /\ \A i \in 1 .. Len(acts) - 1 : IsBlock(acts[i]) => acts[i].at \in {"procEnd", "tail"}
  /\ \A i \in 1 .. Len(acts) - 1 :
       IsBlock(acts[i + 1]) => i = 1 \/ (IsBlock(acts[i]) /\ acts[i].at = "procEnd")
  /\ \A i \in 1 .. Len(acts) :
       IsBlock(acts[i]) => i - 1 \in 1 .. Len(blocks) /\ Matches(acts[i].at, blocks[i - 1])
  /\ \A i \in 1 .. Len(acts) : Inner(i) => Depth(i)

\* A block whose declarations have ended is at its statement, and the body of
\* a procedure begins with a new node.
Statbeg == uniteset(statbegsys, createset(<<"identsym">>))
AtTop == /\ Waits("block", {"declared"}) => inset(cur.type, Statbeg)
         /\ Waits("block", {"procSemi"}) => Fresh(blocks[Len(blocks)])

Clean == Nest /\ AtTop

Kin(a, b) == b.fn = a.fn /\ b.at = a.at /\ b.sym = a.sym

\* A call of another function goes on, calls, or returns.
LEMMA Inside ==
  ASSUME Kept, Kept', Nest, Top.fn # "block", blocks' = blocks,
         Len(acts') \in {Len(acts) - 1, Len(acts), Len(acts) + 1},
         \A i \in 1 .. Len(acts') :
           IF i < Len(acts) THEN Kin(acts[i], acts'[i])
           ELSE acts'[i].fn \notin {"block", "test"} /\ Safe(acts'[i])
  PROVE  Clean'
<1> DEFINE n == Len(acts)
           m == Len(acts')
<1>1. n \in Nat \ {0} /\ Top = acts[n] /\ m \in Nat \ {0} /\ Top' = acts'[m]
  <2>1. n \in Nat \ {0} /\ Top = acts[n] BY TopIs DEF Kept
  <2>2. m \in Nat \ {0} /\ Last(acts') = acts'[m] BY Shrinks DEF Kept, ActsInv
  <2> QED BY <2>1, <2>2 DEF Top
<1>2. \A i \in 1 .. m : IsBlock(acts'[i]) => i \in 1 .. n - 1 /\ Kin(acts[i], acts'[i])
  BY <1>1 DEF IsBlock
<1>3. m \in {n - 1, n, n + 1}
      /\ \A i \in 1 .. m : IF i < n THEN Kin(acts[i], acts'[i])
                           ELSE acts'[i].fn \notin {"block", "test"} /\ Safe(acts'[i])
  OBVIOUS
<1>4. ~IsBlock(acts[n]) BY <1>1 DEF IsBlock
<1> HIDE DEF n, m
<1>5. IsSequence(blocks') /\ \A j \in 1 .. Len(blocks') : Rec(blocks'[j]) BY DEF Nest
<1>6. \A i \in 1 .. m : acts'[i].fn # "test" /\ Safe(acts'[i])
  <2> TAKE i \in 1 .. m
  <2>1. CASE i < n
    <3>1. i \in 1 .. n /\ Kin(acts[i], acts'[i]) BY <1>1, <1>3, <2>1
    <3> QED BY <3>1 DEF Nest, Kin, Safe, n
  <2>2. CASE ~(i < n) BY <1>3, <2>2
  <2> QED BY <2>1, <2>2
<1>7. \A i \in 1 .. m - 1 : IsBlock(acts'[i]) => acts'[i].at \in {"procEnd", "tail"}
  <2>1. \A i \in 1 .. m - 1 : i \in 1 .. m BY <1>1
  <2> QED BY <1>2, <2>1 DEF Nest, Kin, IsBlock, n
<1>8. \A i \in 1 .. m - 1 :
        IsBlock(acts'[i + 1]) => i = 1 \/ (IsBlock(acts'[i]) /\ acts'[i].at = "procEnd")
  <2> SUFFICES ASSUME NEW i \in 1 .. m - 1, IsBlock(acts'[i + 1])
               PROVE  i = 1 \/ (IsBlock(acts'[i]) /\ acts'[i].at = "procEnd")
    OBVIOUS
  <2>1. i \in 1 .. m /\ i + 1 \in 1 .. m BY <1>1
  <2>2. i + 1 \in 1 .. n - 1 /\ IsBlock(acts[i + 1]) BY <1>2, <2>1 DEF Kin, IsBlock
  <2>3. i \in 1 .. n - 1 /\ i < n BY <1>1, <2>1, <2>2
  <2>4. Kin(acts[i], acts'[i]) BY <1>3, <2>1, <2>3
  <2> QED BY <2>2, <2>3, <2>4 DEF Nest, Kin, IsBlock, n
<1>9. \A i \in 1 .. m : IsBlock(acts'[i]) =>
        i - 1 \in 1 .. Len(blocks') /\ Matches(acts'[i].at, blocks'[i - 1])
  <2>1. \A i \in 1 .. n - 1 : i \in 1 .. n BY <1>1
  <2> QED BY <1>2, <2>1 DEF Nest, Kin, IsBlock, n
<1>10. ASSUME NEW k \in 1 .. m, IsBlock(acts'[k]), \A i \in k + 1 .. m : ~IsBlock(acts'[i])
       PROVE  Len(blocks') = k - 1 + (IF acts'[k].at \in Pending THEN 1 ELSE 0)
  <2>1. k \in 1 .. n - 1 /\ k \in 1 .. n /\ Kin(acts[k], acts'[k]) BY <1>1, <1>2, <1>10
  <2>2. ASSUME NEW i \in k + 1 .. n
        PROVE  ~IsBlock(acts[i])
    <3>1. CASE i = n BY <1>4, <3>1
    <3>2. CASE i # n
      <4>1. i < n /\ i \in 1 .. m /\ i \in k + 1 .. m BY <1>1, <1>3, <2>1, <3>2
      <4> QED BY <1>3, <1>10, <4>1 DEF Kin, IsBlock
    <3> QED BY <3>1, <3>2
  <2>3. Inner(k) BY <1>10, <2>1, <2>2 DEF Inner, Kin, IsBlock, n
  <2> QED BY <2>1, <2>3 DEF Nest, Depth, Kin, n
<1>11. Nest' BY <1>5, <1>6, <1>7, <1>8, <1>9, <1>10 DEF Nest, Inner, Depth, m
<1>12. AtTop'
  <2>1. ASSUME IsBlock(acts'[m])
        PROVE  acts'[m].at \in {"procEnd", "tail"}
    <3>1. m \in 1 .. m BY <1>1
    <3> QED BY <1>2, <2>1, <3>1 DEF Nest, Kin, IsBlock, n
  <2> QED BY <1>1, <2>1 DEF AtTop, Waits, IsBlock
<1> QED BY <1>11, <1>12 DEF Clean

\* The three ways in which a call of another function leaves the stack.
InsideStep(new) ==
  \/ \E a : a.fn = Top.fn /\ Safe(a) /\ new = Becomes(a)
  \/ \E a, at, fn, fsys : /\ Act(a) /\ a.fn = Top.fn /\ Safe(Placed(a, at))
                          /\ fn \notin {"block", "test"} /\ new = Calls(a, at, fn, fsys)
  \/ \E node : new = Returns(node)

LEMMA InsideClean ==
  ASSUME Kept, Kept', Nest, Top.fn \notin {"block", "program"}, blocks' = blocks,
         InsideStep(acts')
  PROVE  Clean'
<1> DEFINE n == Len(acts)
<1>1. n \in Nat \ {0} /\ Top = acts[n] /\ n \in 1 .. n /\ ActsInv BY TopIs DEF Kept
<1>2. Top.fn # "test" BY <1>1 DEF Nest
<1>3. \A i \in 1 .. n - 1 : Kin(acts[i], acts[i]) BY DEF Kin
<1>4. CASE \E a : a.fn = Top.fn /\ Safe(a) /\ acts' = Becomes(a)
  <2>1. PICK a : a.fn = Top.fn /\ Safe(a) /\ acts' = Becomes(a) BY <1>4
  <2>2. /\ Len(acts') = n /\ acts'[n] = a /\ \A i \in 1 .. n - 1 : acts'[i] = acts[i]
    BY <1>1, <2>1, BecomesIs
  <2>3. \A i \in 1 .. n : i \in 1 .. n - 1 \/ (i = n /\ ~(i < n)) BY <1>1
  <2> HIDE DEF n
  <2>4. \A i \in 1 .. Len(acts') :
           IF i < n THEN Kin(acts[i], acts'[i])
           ELSE acts'[i].fn \notin {"block", "test"} /\ Safe(acts'[i])
    BY <1>1, <1>2, <1>3, <2>1, <2>2, <2>3
  <2> QED BY <2>2, <2>4, Inside DEF n
<1>5. CASE \E a, at, fn, fsys :
             /\ Act(a) /\ a.fn = Top.fn /\ Safe(Placed(a, at))
             /\ fn \notin {"block", "test"} /\ acts' = Calls(a, at, fn, fsys)
  <2>1. PICK a, at, fn, fsys :
             /\ Act(a) /\ a.fn = Top.fn /\ Safe(Placed(a, at))
             /\ fn \notin {"block", "test"} /\ acts' = Calls(a, at, fn, fsys)
    BY <1>5
  <2> DEFINE b == Placed(a, at)
             c == Activation(fn, fsys)
  <2>2. /\ Len(acts') = n + 1 /\ acts'[n] = b /\ acts'[n + 1] = c
        /\ \A i \in 1 .. n - 1 : acts'[i] = acts[i]
    BY <1>1, <2>1, CallsIs
  <2>3. Act(b) /\ b.fn = a.fn BY <2>1, AtChanged DEF Placed
  <2>4. c.fn = fn /\ c.at = "start" BY ActNew
  <2>5. Safe(b) BY <2>1
  <2>6. \A i \in 1 .. n + 1 : i \in 1 .. n - 1 \/ (i = n /\ ~(i < n)) \/ (i = n + 1 /\ ~(i < n))
    BY <1>1
  <2> HIDE DEF n, b, c
  <2>7. Safe(c) BY <2>4 DEF Safe
  <2>8. \A i \in 1 .. Len(acts') :
           IF i < n THEN Kin(acts[i], acts'[i])
           ELSE acts'[i].fn \notin {"block", "test"} /\ Safe(acts'[i])
    BY <1>1, <1>2, <1>3, <2>1, <2>2, <2>3, <2>4, <2>5, <2>6, <2>7
  <2> QED BY <2>2, <2>8, Inside DEF n
<1>6. CASE \E node : acts' = Returns(node)
  <2>1. /\ Len(acts') = n - 1 /\ n - 1 \in 1 .. n
        /\ Kin(acts[n - 1], acts'[n - 1]) /\ \A i \in 1 .. n - 2 : acts'[i] = acts[i]
    BY <1>1, <1>6, ReturnsIs DEF Kin
  <2>2. \A i \in 1 .. n - 1 : (i \in 1 .. n - 2 /\ i < n) \/ (i = n - 1 /\ i < n) BY <1>1
  <2> HIDE DEF n
  <2>3. \A i \in 1 .. Len(acts') :
           IF i < n THEN Kin(acts[i], acts'[i])
           ELSE acts'[i].fn \notin {"block", "test"} /\ Safe(acts'[i])
    BY <1>3, <2>1, <2>2 DEF Kin
  <2> QED BY <2>1, <2>3, Inside DEF n
<1> QED BY <1>4, <1>5, <1>6 DEF InsideStep

\* blockParse goes on, or begins its statement.
LEMMA BlockClean ==
  ASSUME Kept, Kept', Nest, IsBlock(Top), Len(acts') \in {Len(acts), Len(acts) + 1},
         \A i \in 1 .. Len(acts) - 1 : acts'[i] = acts[i],
         NEW b, acts'[Len(acts)] = b, IsBlock(b),
         Len(acts') = Len(acts) + 1 =>
           /\ b.at = "tail"
           /\ acts'[Len(acts) + 1].fn = "statement" /\ acts'[Len(acts) + 1].at = "start",
         IsSequence(blocks'), \A j \in 1 .. Len(blocks') : Rec(blocks'[j]),
         Len(blocks') = Len(acts) - 1 + (IF b.at \in Pending THEN 1 ELSE 0),
         \A j \in 1 .. Len(acts) - 2 : blocks'[j] = blocks[j],
         Matches(b.at, blocks'[Len(acts) - 1])
  PROVE  Nest'
<1> DEFINE n == Len(acts)
           m == Len(acts')
<1>1. n \in Nat \ {0, 1} /\ Top = acts[n] /\ m \in Nat /\ m >= n
  <2>1. n \in Nat \ {0} /\ Top = acts[n] /\ n \in 1 .. n /\ ActsInv BY TopIs DEF Kept
  <2>2. n # 1 BY <2>1 DEF ActsInv, IsBlock
  <2> QED BY <2>1, <2>2
<1>2. /\ \A i \in 1 .. n - 1 : acts'[i] = acts[i]
      /\ acts'[n] = b /\ m \in {n, n + 1}
      /\ m = n + 1 => /\ b.at = "tail"
                      /\ acts'[n + 1].fn = "statement" /\ acts'[n + 1].at = "start"
      /\ Len(blocks') = n - 1 + (IF b.at \in Pending THEN 1 ELSE 0)
      /\ \A j \in 1 .. n - 2 : blocks'[j] = blocks[j]
      /\ Matches(b.at, blocks'[n - 1])
  OBVIOUS
<1> HIDE DEF n, m
<1>3. \A i \in 1 .. m : \/ i \in 1 .. n - 1
                        \/ i = n
                        \/ i = n + 1 /\ m = n + 1
  BY <1>1, <1>2
<1>4. \A i \in 1 .. n - 1 : i \in 1 .. n BY <1>1
<1>5. \A i \in 1 .. m : acts'[i].fn # "test" /\ Safe(acts'[i])
  <2>1. \A i \in 1 .. n : acts[i].fn # "test" /\ Safe(acts[i]) BY DEF Nest, n
  <2>2. \A i \in 1 .. n - 1 : acts'[i].fn # "test" /\ Safe(acts'[i]) BY <1>2, <1>4, <2>1
  <2>3. b.fn # "test" /\ Safe(b) BY DEF IsBlock, Safe
  <2>4. m = n + 1 => acts'[n + 1].fn # "test" /\ Safe(acts'[n + 1]) BY <1>2 DEF Safe
  <2> QED BY <1>2, <1>3, <2>2, <2>3, <2>4
<1>6. \A i \in 1 .. m - 1 : IsBlock(acts'[i]) => acts'[i].at \in {"procEnd", "tail"}
  <2>1. \A i \in 1 .. m - 1 : i \in 1 .. n - 1 \/ (i = n /\ m = n + 1) BY <1>1, <1>2
  <2> QED BY <1>2, <2>1 DEF Nest, n
<1>7. \A i \in 1 .. m - 1 :
        IsBlock(acts'[i + 1]) => i = 1 \/ (IsBlock(acts'[i]) /\ acts'[i].at = "procEnd")
  <2>1. \A i \in 1 .. m - 1 : i \in 1 .. n - 1 \/ (i = n /\ m = n + 1) BY <1>1, <1>2
  <2>2. m = n + 1 => ~IsBlock(acts'[n + 1]) BY <1>2 DEF IsBlock
  <2>3. \A i \in 1 .. n - 1 : i + 1 \in 1 .. n - 1 \/ i + 1 = n BY <1>1
  <2>4. \A i \in 1 .. n - 1 : IsBlock(acts'[i + 1]) => IsBlock(acts[i + 1])
    BY <1>1, <1>2, <2>3
  <2> QED BY <1>2, <2>1, <2>2, <2>4 DEF Nest, n
<1>8. \A i \in 1 .. m : IsBlock(acts'[i]) =>
        i - 1 \in 1 .. Len(blocks') /\ Matches(acts'[i].at, blocks'[i - 1])
  <2>1. CASE m = n + 1 /\ IsBlock(acts'[n + 1]) BY <1>2, <2>1 DEF IsBlock
  <2>2. n - 1 \in 1 .. Len(blocks') /\ Matches(acts'[n].at, blocks'[n - 1]) BY <1>1, <1>2
  <2>3. ASSUME NEW i \in 1 .. n - 1, IsBlock(acts'[i])
        PROVE  i - 1 \in 1 .. Len(blocks') /\ Matches(acts'[i].at, blocks'[i - 1])
    <3>1. IsBlock(acts[i]) /\ acts'[i] = acts[i] /\ i \in 1 .. n BY <1>2, <1>4, <2>3
    <3>2. i - 1 \in 1 .. Len(blocks) /\ Matches(acts[i].at, blocks[i - 1])
      BY <3>1 DEF Nest, n
    <3>3. i - 1 \in 1 .. n - 2 /\ i - 1 \in 1 .. Len(blocks') BY <1>1, <1>2, <3>2
    <3> QED BY <1>2, <3>1, <3>2, <3>3
  <2> QED BY <1>3, <2>1, <2>2, <2>3
<1>9. ASSUME NEW k \in 1 .. m, IsBlock(acts'[k]), \A i \in k + 1 .. m : ~IsBlock(acts'[i])
      PROVE  Len(blocks') = k - 1 + (IF acts'[k].at \in Pending THEN 1 ELSE 0)
  <2>1. k # n + 1 BY <1>1, <1>2, <1>9 DEF IsBlock
  <2>2. k \in 1 .. n - 1 => n \in k + 1 .. m BY <1>1
  <2>3. k = n BY <1>2, <1>3, <1>9, <2>1, <2>2
  <2> QED BY <1>2, <2>3
<1> QED BY <1>5, <1>6, <1>7, <1>8, <1>9 DEF Nest, Inner, Depth, m

\* blockParse calls itself for the body of a procedure.
LEMMA BodyClean ==
  ASSUME Kept, Kept', Clean, IsBlock(Top), Top.at = "procSemi", blocks' = blocks,
         Len(acts') = Len(acts) + 1, \A i \in 1 .. Len(acts) - 1 : acts'[i] = acts[i],
         IsBlock(acts'[Len(acts)]), acts'[Len(acts)].at = "procEnd",
         IsBlock(acts'[Len(acts) + 1]), acts'[Len(acts) + 1].at = "start"
  PROVE  Clean'
<1> DEFINE n == Len(acts)
<1>1. n \in Nat \ {0, 1} /\ Top = acts[n] /\ Top' = acts'[n + 1] /\ n \in 1 .. n
  <2>1. n \in Nat \ {0} /\ Top = acts[n] /\ n \in 1 .. n /\ ActsInv BY TopIs DEF Kept
  <2>2. n # 1 BY <2>1 DEF ActsInv, IsBlock
  <2>3. Top' = acts'[n + 1] BY Shrinks DEF Kept, ActsInv, Top
  <2> QED BY <2>1, <2>2, <2>3
<1>2. Len(acts') = n + 1 /\ \A i \in 1 .. n - 1 : acts'[i] = acts[i]
  OBVIOUS
<1>3. /\ IsBlock(acts'[n]) /\ acts'[n].at = "procEnd"
      /\ IsBlock(acts'[n + 1]) /\ acts'[n + 1].at = "start"
  OBVIOUS
<1> HIDE DEF n
<1>4. \A i \in 1 .. n + 1 : i \in 1 .. n - 1 \/ i = n \/ i = n + 1 BY <1>1
<1>5. \A i \in 1 .. n - 1 : i \in 1 .. n BY <1>1
<1>6. Len(blocks) = n /\ Matches("procSemi", blocks[n - 1]) /\ Fresh(blocks[n])
  <2>1. Inner(n) BY <1>1 DEF Inner, n
  <2>2. Depth(n) BY <1>1, <2>1 DEF Clean, Nest, n
  <2> QED BY <1>1, <2>2 DEF Depth, Pending, Clean, Nest, AtTop, Waits, IsBlock, n
<1>7. \A i \in 1 .. n + 1 : acts'[i].fn # "test" /\ Safe(acts'[i])
  <2>1. \A i \in 1 .. n : acts[i].fn # "test" /\ Safe(acts[i]) BY DEF Clean, Nest, n
  <2>2. \A i \in 1 .. n - 1 : acts'[i].fn # "test" /\ Safe(acts'[i]) BY <1>2, <1>5, <2>1
  <2>3. \A a : IsBlock(a) => a.fn # "test" /\ Safe(a) BY DEF IsBlock, Safe
  <2> QED BY <1>3, <1>4, <2>2, <2>3
<1>8. \A i \in 1 .. n : IsBlock(acts'[i]) => acts'[i].at \in {"procEnd", "tail"}
  <2>1. \A i \in 1 .. n : i \in 1 .. n - 1 \/ i = n BY <1>1
  <2> QED BY <1>2, <1>3, <2>1 DEF Clean, Nest, n
<1>9. \A i \in 1 .. n :
        IsBlock(acts'[i + 1]) => i = 1 \/ (IsBlock(acts'[i]) /\ acts'[i].at = "procEnd")
  <2>1. \A i \in 1 .. n : i \in 1 .. n - 1 \/ i = n BY <1>1
  <2>2. \A i \in 1 .. n - 1 : i + 1 \in 1 .. n - 1 \/ i + 1 = n BY <1>1
  <2>3. \A i \in 1 .. n - 1 : IsBlock(acts'[i + 1]) => IsBlock(acts[i + 1])
    BY <1>1, <1>2, <2>2
  <2> QED BY <1>2, <1>3, <2>1, <2>3 DEF Clean, Nest, n
<1>10. \A i \in 1 .. n + 1 : IsBlock(acts'[i]) =>
        i - 1 \in 1 .. Len(blocks') /\ Matches(acts'[i].at, blocks'[i - 1])
  <2>1. Matches("procEnd", blocks[n - 1]) /\ Matches("start", blocks[n])
    BY <1>6 DEF Matches, Pending, ConstPlaces, VarPlaces, Fresh
  <2>2. n - 1 \in 1 .. n /\ n + 1 - 1 = n BY <1>1
  <2>3. \A i \in 1 .. n - 1 : IsBlock(acts'[i]) =>
          i - 1 \in 1 .. Len(blocks') /\ Matches(acts'[i].at, blocks'[i - 1])
    BY <1>2, <1>5 DEF Clean, Nest, n
  <2>4. Len(blocks') = n /\ blocks'[n - 1] = blocks[n - 1] /\ blocks'[n] = blocks[n]
    BY <1>6
  <2>5. n - 1 \in 1 .. Len(blocks') /\ Matches(acts'[n].at, blocks'[n - 1])
    <3>1. n - 1 \in 1 .. n BY <1>1
    <3> QED BY <1>3, <2>1, <2>4, <3>1
  <2>6. n + 1 - 1 \in 1 .. Len(blocks') /\ Matches(acts'[n + 1].at, blocks'[n + 1 - 1])
    BY <1>1, <1>3, <2>1, <2>2, <2>4
  <2> SUFFICES ASSUME NEW i \in 1 .. n + 1, IsBlock(acts'[i])
               PROVE  i - 1 \in 1 .. Len(blocks') /\ Matches(acts'[i].at, blocks'[i - 1])
    OBVIOUS
  <2>7. CASE i = n BY <2>5, <2>7
  <2>8. CASE i = n + 1 BY <1>1, <2>6, <2>8
  <2>9. CASE i \in 1 .. n - 1 BY <2>3, <2>9
  <2> QED BY <1>4, <2>7, <2>8, <2>9
<1>11. ASSUME NEW k \in 1 .. n + 1, IsBlock(acts'[k]),
              \A i \in k + 1 .. n + 1 : ~IsBlock(acts'[i])
       PROVE  Len(blocks') = k - 1 + (IF acts'[k].at \in Pending THEN 1 ELSE 0)
  <2>1. k # n + 1 => n + 1 \in k + 1 .. n + 1 BY <1>1
  <2>2. k = n + 1 BY <1>3, <1>11, <2>1
  <2>3. Len(blocks') = n BY <1>6
  <2>4. acts'[k].at \notin Pending BY <1>3, <2>2 DEF Pending
  <2> QED BY <1>1, <2>2, <2>3, <2>4
<1>12. Nest'
  <2>1. IsSequence(blocks') /\ \A j \in 1 .. Len(blocks') : Rec(blocks'[j])
    BY DEF Clean, Nest
  <2>a. Len(acts') - 1 = n BY <1>1, <1>2
  <2>2. \A i \in 1 .. Len(acts') : acts'[i].fn # "test" /\ Safe(acts'[i]) BY <1>2, <1>7
  <2>3. \A i \in 1 .. Len(acts') - 1 : IsBlock(acts'[i]) => acts'[i].at \in {"procEnd", "tail"}
    BY <2>a, <1>8
  <2>4. \A i \in 1 .. Len(acts') - 1 :
          IsBlock(acts'[i + 1]) => i = 1 \/ (IsBlock(acts'[i]) /\ acts'[i].at = "procEnd")
    BY <2>a, <1>9
  <2>5. \A i \in 1 .. Len(acts') : IsBlock(acts'[i]) =>
          i - 1 \in 1 .. Len(blocks') /\ Matches(acts'[i].at, blocks'[i - 1])
    BY <1>2, <1>10
  <2>6. ASSUME NEW k \in 1 .. Len(acts'), Inner(k)'
        PROVE  Depth(k)'
    BY <1>2, <1>11, <2>6 DEF Inner, Depth
  <2> QED BY <2>1, <2>2, <2>3, <2>4, <2>5, <2>6 DEF Nest
<1> QED BY <1>1, <1>3, <1>12 DEF Clean, AtTop, Waits

\* blockParse returns to the procedure's block, or to programParse.
LEMMA EndClean ==
  ASSUME Kept, Kept', Nest, IsBlock(Top), Top.at = "done", blocks' = blocks,
         NEW node, acts' = Returns(node)
  PROVE  Clean'
<1> DEFINE n == Len(acts)
<1>1. n \in Nat \ {0, 1} /\ Top = acts[n] /\ n \in 1 .. n /\ Top.fn # "program" /\ ActsInv
  <2>1. n \in Nat \ {0} /\ Top = acts[n] /\ n \in 1 .. n /\ ActsInv BY TopIs DEF Kept
  <2> QED BY <2>1 DEF ActsInv, IsBlock
<1>2. /\ Len(acts') = n - 1 /\ n - 1 \in 1 .. n
      /\ Kin(acts[n - 1], acts'[n - 1]) /\ \A i \in 1 .. n - 2 : acts'[i] = acts[i]
  BY <1>1, ReturnsIs DEF Kin
<1>3. Top' = acts'[n - 1] BY <1>2, Shrinks DEF Kept, ActsInv, Top
<1> HIDE DEF n
<1>4. \A i \in 1 .. n - 1 : Kin(acts[i], acts'[i]) /\ i \in 1 .. n
  <2>1. \A i \in 1 .. n - 1 : i \in 1 .. n /\ (i \in 1 .. n - 2 \/ i = n - 1) BY <1>1
  <2> QED BY <1>2, <2>1 DEF Kin
<1>5. Len(blocks) = n - 1
  <2>1. Inner(n) BY <1>1 DEF Inner, n
  <2>2. Depth(n) BY <1>1, <2>1 DEF Nest, n
  <2> QED BY <1>1, <2>2 DEF Depth, Pending
<1>6. n - 1 = 1 \/ (IsBlock(acts[n - 1]) /\ acts[n - 1].at = "procEnd")
  <2>1. n - 1 \in 1 .. n - 1 /\ n - 1 + 1 = n BY <1>1
  <2> QED BY <1>1, <2>1 DEF Nest, n
<1>7. \A i \in 1 .. n - 1 : acts'[i].fn # "test" /\ Safe(acts'[i])
  BY <1>4 DEF Nest, Kin, Safe, n
<1>8. \A i \in 1 .. n - 1 - 1 : i \in 1 .. n - 1 /\ i + 1 \in 1 .. n - 1 BY <1>1
<1>9. \A i \in 1 .. n - 1 - 1 : IsBlock(acts'[i]) => acts'[i].at \in {"procEnd", "tail"}
  BY <1>4, <1>8 DEF Nest, Kin, IsBlock, n
<1>10. \A i \in 1 .. n - 1 - 1 :
         IsBlock(acts'[i + 1]) => i = 1 \/ (IsBlock(acts'[i]) /\ acts'[i].at = "procEnd")
  BY <1>4, <1>8 DEF Nest, Kin, IsBlock, n
<1>11. \A i \in 1 .. n - 1 : IsBlock(acts'[i]) =>
         i - 1 \in 1 .. Len(blocks') /\ Matches(acts'[i].at, blocks'[i - 1])
  BY <1>4 DEF Nest, Kin, IsBlock, n
<1>12. ASSUME NEW k \in 1 .. n - 1, IsBlock(acts'[k]),
              \A i \in k + 1 .. n - 1 : ~IsBlock(acts'[i])
       PROVE  Len(blocks') = k - 1 + (IF acts'[k].at \in Pending THEN 1 ELSE 0)
  <2>1. k # 1
    <3>1. acts[1].fn = "program" BY <1>1 DEF ActsInv, n
    <3> QED BY <1>4, <1>12, <3>1 DEF Kin, IsBlock
  <2>2. n - 1 # 1 BY <1>1, <1>12, <2>1
  <2>3. IsBlock(acts'[n - 1]) /\ acts'[n - 1].at = "procEnd"
    BY <1>2, <1>6, <2>2 DEF Kin, IsBlock
  <2>4. k # n - 1 => n - 1 \in k + 1 .. n - 1 BY <1>1, <1>12
  <2>5. k = n - 1 BY <1>12, <2>3, <2>4
  <2> QED BY <1>1, <1>5, <2>3, <2>5 DEF Pending
<1>13. Nest' BY <1>2, <1>7, <1>9, <1>10, <1>11, <1>12 DEF Nest, Inner, Depth
<1>14. AtTop'
  <2>1. CASE n - 1 = 1
    <3>1. acts[1].fn = "program" BY <1>1 DEF ActsInv, n
    <3> QED BY <1>2, <1>3, <2>1, <3>1 DEF AtTop, Waits, Kin
  <2>2. CASE acts[n - 1].at = "procEnd" BY <1>2, <1>3, <2>2 DEF AtTop, Waits, Kin
  <2> QED BY <1>6, <2>1, <2>2
<1> QED BY <1>13, <1>14 DEF Clean

-----------------------------------------------------------------------------
(* The block nodes.                                                        *)

WithLast(s, e) == [s EXCEPT ![Len(s)] = e]

LEMMA Replaced ==
  ASSUME NEW s, IsSequence(s), Len(s) # 0, NEW e
  PROVE  /\ IsSequence(WithLast(s, e)) /\ Len(WithLast(s, e)) = Len(s)
         /\ WithLast(s, e)[Len(s)] = e
         /\ \A i \in 1 .. Len(s) - 1 : WithLast(s, e)[i] = s[i]
<1> DEFINE S == Elements(s) \cup {e}
           n == Len(s)
           t == [s EXCEPT ![n] = e]
<1>1. s \in Seq(S) /\ e \in S /\ n \in Nat \ {0} /\ n \in 1 .. n
  <2>1. s \in Seq(Elements(s)) BY DEF IsSequence
  <2>2. n \in Nat BY <2>1
  <2> HIDE DEF n
  <2>3. n \in Nat \ {0} /\ n \in 1 .. n BY <2>2 DEF n
  <2> QED BY <2>1, <2>3
<1> HIDE DEF S
<1>2. t \in Seq(S) /\ Len(t) = n BY <1>1
<1>3. t[n] = e /\ \A i \in 1 .. n - 1 : t[i] = s[i] BY <1>1
<1> HIDE DEF t
<1>4. t \in Seq(Elements(t)) BY <1>2 DEF Elements
<1> QED BY <1>2, <1>3, <1>4 DEF IsSequence, t, WithLast

\* What else a changed node has, of what Matches looks at.
Counts(b, c) == c.consts = b.consts /\ c.vars = b.vars /\ c.procs = b.procs

LEMMA PhaseChanged ==
  ASSUME NEW b, Rec(b), NEW v
  PROVE  /\ Rec([b EXCEPT !.phase = v]) /\ [b EXCEPT !.phase = v].phase = v
         /\ Counts(b, [b EXCEPT !.phase = v])
  BY DEF Rec, Counts

LEMMA LinkedChanged ==
  ASSUME NEW b, Rec(b), NEW v
  PROVE  /\ Rec([b EXCEPT !.linked = v]) /\ [b EXCEPT !.linked = v].phase = b.phase
         /\ [b EXCEPT !.linked = v].linked = v /\ Counts(b, [b EXCEPT !.linked = v])
  BY DEF Rec, Counts

LEMMA DeclaredChanged ==
  ASSUME NEW b, Rec(b), NEW v
  PROVE  /\ Rec([b EXCEPT !.declared = v]) /\ [b EXCEPT !.declared = v].phase = b.phase
         /\ [b EXCEPT !.declared = v].linked = b.linked /\ Counts(b, [b EXCEPT !.declared = v])
  BY DEF Rec, Counts

LEMMA CountChanged ==
  ASSUME NEW b, Rec(b), NEW v
  PROVE  /\ Rec([b EXCEPT !.consts = v]) /\ [b EXCEPT !.consts = v].vars = b.vars
         /\ [b EXCEPT !.consts = v].procs = b.procs
         /\ Rec([b EXCEPT !.vars = v]) /\ [b EXCEPT !.vars = v].procs = b.procs
         /\ Rec([b EXCEPT !.procs = v])
  BY DEF Rec

\* One declaration more: its list goes on in the section.
Added(b, phase, s) ==
  [b EXCEPT !.phase = phase, !.linked = TRUE, !.declared = Append(@, s)]

LEMMA NodeAdded ==
  ASSUME NEW b, Rec(b), NEW phase, NEW s
  PROVE  /\ Rec(Added(b, phase, s)) /\ Going(Added(b, phase, s), phase)
         /\ Counts(b, Added(b, phase, s))
<1> DEFINE c == [b EXCEPT !.phase = phase]
           d == [c EXCEPT !.linked = TRUE]
           v == Append(b.declared, s)
           e == [d EXCEPT !.declared = v]
<1>1. Rec(c) /\ c.phase = phase /\ Counts(b, c) BY PhaseChanged
<1>2. Added(b, phase, s) = e BY DEF Added
<1> HIDE DEF c
<1>3. Rec(d) /\ d.phase = c.phase /\ d.linked = TRUE /\ Counts(c, d) BY <1>1, LinkedChanged
<1> HIDE DEF d, v
<1>4. Rec(e) /\ e.phase = d.phase /\ e.linked = d.linked /\ Counts(d, e) BY <1>3, DeclaredChanged
<1> HIDE DEF e
<1> QED BY <1>1, <1>2, <1>3, <1>4 DEF Going, Counts

\* The section is over, and its list pointer is null again.
Ended(b, phase) == [b EXCEPT !.phase = phase, !.linked = FALSE]

LEMMA NodeEnded ==
  ASSUME NEW b, Rec(b), NEW phase
  PROVE  Rec(Ended(b, phase)) /\ Ended(b, phase).phase = phase
<1> DEFINE c == [b EXCEPT !.phase = phase]
<1>1. Rec(c) /\ c.phase = phase BY PhaseChanged
<1>2. Ended(b, phase) = [c EXCEPT !.linked = FALSE] BY DEF Ended
<1> HIDE DEF c
<1> QED BY <1>1, <1>2, LinkedChanged

LEMMA NewNode ==
  ASSUME NEW set
  PROVE  Rec(D!NewBlock(set)) /\ Fresh(D!NewBlock(set))
  BY DEF D!NewBlock, Rec, Fresh

\* blockParse at its own node: the last one, or the one below the node of the
\* procedure that is being read.
LEMMA BlockTop ==
  ASSUME Kept, Nest, IsBlock(Top)
  PROVE  /\ Len(acts) \in Nat \ {0, 1} /\ Act(Top)
         /\ Len(blocks) = Len(acts) - 1 + (IF Top.at \in Pending THEN 1 ELSE 0)
         /\ Len(blocks) \in Nat \ {0} /\ Len(acts) - 1 \in 1 .. Len(blocks)
         /\ Rec(blocks[Len(acts) - 1]) /\ Matches(Top.at, blocks[Len(acts) - 1])
         /\ Top.at \notin Pending => D!Top = blocks[Len(acts) - 1] /\ Len(blocks) = Len(acts) - 1
<1> DEFINE n == Len(acts)
<1>1. n \in Nat \ {0, 1} /\ Top = acts[n] /\ n \in 1 .. n /\ Act(Top)
  <2>1. n \in Nat \ {0} /\ Top = acts[n] /\ n \in 1 .. n /\ ActsInv /\ Act(Top)
    BY TopIs DEF Kept
  <2> QED BY <2>1 DEF ActsInv, IsBlock
<1> HIDE DEF n
<1>2. Len(blocks) = n - 1 + (IF Top.at \in Pending THEN 1 ELSE 0)
  <2>1. Inner(n) BY <1>1 DEF Inner, n
  <2>2. Depth(n) BY <1>1, <2>1 DEF Nest, n
  <2> QED BY <1>1, <2>2 DEF Depth
<1>3. n - 1 \in 1 .. Len(blocks) /\ Matches(Top.at, blocks[n - 1]) BY <1>1 DEF Nest, n
<1>4. Rec(blocks[n - 1]) BY <1>3 DEF Nest
<1>5. CASE Top.at \in Pending
  <2>1. Len(blocks) = n - 1 + 1 BY <1>2, <1>5
  <2> QED BY <1>1, <1>2, <1>3, <1>4, <1>5, <2>1 DEF n
<1>6. CASE Top.at \notin Pending
  <2>1. Len(blocks) = n - 1 + 0 BY <1>2, <1>6
  <2>2. Len(blocks) = n - 1 BY <1>1, <2>1
  <2> QED BY <1>1, <1>2, <1>3, <1>4, <1>6, <2>2 DEF n, D!Top
<1> QED BY <1>5, <1>6

-----------------------------------------------------------------------------
(* blockParse, action by action.                                           *)

\* blockParse goes on at another place: b is what its node is then.
LEMMA BlockMoves ==
  ASSUME Kept, Kept', Nest, IsBlock(Top), NEW at, NEW a, MovesOn(Top, at, a),
         acts' = Becomes(a),
         IsSequence(blocks'), \A j \in 1 .. Len(blocks') : Rec(blocks'[j]),
         Len(blocks') = Len(acts) - 1 + (IF at \in Pending THEN 1 ELSE 0),
         \A j \in 1 .. Len(acts) - 2 : blocks'[j] = blocks[j],
         Matches(at, blocks'[Len(acts) - 1])
  PROVE  Nest' /\ Top' = a /\ a.at = at
<1> DEFINE n == Len(acts)
<1>1. ActsInv /\ n \in Nat \ {0} /\ IsBlock(a) /\ a.at = at BY TopIs DEF Kept, MovesOn, IsBlock
<1>2. /\ Len(acts') = n /\ acts'[n] = a /\ \A i \in 1 .. n - 1 : acts'[i] = acts[i]
  BY <1>1, BecomesIs
<1>3. Top' = a
  <2>1. Top' = acts'[Len(acts')] BY Shrinks DEF Kept, ActsInv, Top
  <2> QED BY <1>2, <2>1
<1>4. Len(acts') # n + 1 BY <1>1, <1>2
<1> QED BY <1>1, <1>2, <1>3, <1>4, BlockClean

\* It goes on with the nodes as they are.
LEMMA SameNodes ==
  ASSUME Kept, Kept', Clean, IsBlock(Top), NEW at, NEW a, MovesOn(Top, at, a),
         acts' = Becomes(a), blocks' = blocks, Top.at \in Pending <=> at \in Pending,
         Matches(Top.at, blocks[Len(acts) - 1]) => Matches(at, blocks[Len(acts) - 1]),
         at = "declared" => inset(cur'.type, Statbeg), at # "procSemi"
  PROVE  Clean'
<1>1. /\ Len(blocks) = Len(acts) - 1 + (IF Top.at \in Pending THEN 1 ELSE 0)
      /\ Matches(Top.at, blocks[Len(acts) - 1]) /\ Nest
  BY BlockTop DEF Clean
<1>2. IsSequence(blocks') /\ \A j \in 1 .. Len(blocks') : Rec(blocks'[j]) BY <1>1 DEF Nest
<1>3. Len(blocks') = Len(acts) - 1 + (IF at \in Pending THEN 1 ELSE 0) BY <1>1
<1>4. Nest' /\ Top' = a /\ a.at = at BY <1>1, <1>2, <1>3, BlockMoves
<1> QED BY <1>4 DEF Clean, AtTop, Waits

\* It goes on with its node e.
LEMMA NodeMoves ==
  ASSUME Kept, Kept', Clean, IsBlock(Top), NEW at, NEW a, MovesOn(Top, at, a),
         acts' = Becomes(a), NEW e, Rec(e), blocks' = [blocks EXCEPT ![Len(blocks)] = e],
         Top.at \notin Pending, at \notin Pending \cup {"declared"}, Matches(at, e)
  PROVE  Clean'
<1>1. /\ Len(blocks) = Len(acts) - 1 /\ Len(blocks) \in Nat \ {0} /\ Nest
      /\ Len(acts) \in Nat
  BY BlockTop DEF Clean
<1>2. /\ IsSequence(blocks') /\ Len(blocks') = Len(blocks) /\ blocks'[Len(blocks)] = e
      /\ \A i \in 1 .. Len(blocks) - 1 : blocks'[i] = blocks[i]
  <2>1. blocks' = WithLast(blocks, e) /\ IsSequence(blocks) /\ Len(blocks) # 0
    BY <1>1 DEF Nest, WithLast
  <2> DEFINE t == WithLast(blocks, e)
  <2>2. /\ IsSequence(t) /\ Len(t) = Len(blocks) /\ t[Len(blocks)] = e
        /\ \A i \in 1 .. Len(blocks) - 1 : t[i] = blocks[i]
    BY <2>1, Replaced
  <2>3. blocks' = t BY <2>1
  <2> HIDE DEF t
  <2> QED BY <2>2, <2>3
<1>3. \A j \in 1 .. Len(blocks') : Rec(blocks'[j])
  <2>1. \A j \in 1 .. Len(blocks') : j = Len(blocks) \/ j \in 1 .. Len(blocks) - 1
    BY <1>1, <1>2
  <2>2. \A j \in 1 .. Len(blocks) - 1 : j \in 1 .. Len(blocks) BY <1>1
  <2>3. \A j \in 1 .. Len(blocks) - 1 : Rec(blocks[j]) BY <1>1, <2>2 DEF Nest
  <2> QED BY <1>2, <2>1, <2>3
<1>4. \A j \in 1 .. Len(acts) - 2 : blocks'[j] = blocks[j]
  <2>1. Len(acts) - 2 = Len(blocks) - 1 BY <1>1
  <2> QED BY <1>2, <2>1
<1>5. Len(blocks') = Len(acts) - 1 + (IF at \in Pending THEN 1 ELSE 0) BY <1>1, <1>2
<1>6. Matches(at, blocks'[Len(acts) - 1]) BY <1>1, <1>2
<1>7. Nest' /\ Top' = a /\ a.at = at BY <1>1, <1>2, <1>3, <1>4, <1>5, <1>6, BlockMoves
<1> QED BY <1>7 DEF Clean, AtTop, Waits, Pending

\* The actions that leave the nodes as they are.
LEMMA NamesClean ==
  ASSUME Kept, Kept', Clean, step' = "parse",
         Const \/ Var \/ Procedure \/ ConstName \/ ConstEq \/ EndSection \/ ProcEnd
  PROVE  Clean'
<1> DEFINE P == {"constName", "varName", "procName", "constEq", "constVal", "vars", "procs",
                 "procTest"}
<1>1. /\ IsBlock(Top) /\ blocks' = blocks
      /\ \E at \in P : \E v :
           /\ \E a \in {[Top EXCEPT !.at = at], Renamed(Top, at, v), Gathered(Top, at, v)} :
                acts' = Becomes(a)
           /\ \/ at = "constName" /\ Top.at \in {"start", "constNext"}
              \/ at = "varName" /\ Top.at \in {"start", "vars", "varNext"}
              \/ at = "procName" /\ Top.at \in {"start", "vars", "procs"}
              \/ at = "constEq" /\ Top.at = "constName"
              \/ at = "constVal" /\ Top.at = "constEq"
              \/ at = "vars" /\ Top.at = "constNext"
              \/ at = "procs" /\ Top.at = "varNext"
              \/ at = "procTest" /\ Top.at = "procEnd"
  <2> HIDE DEF Renamed, Gathered
  <2>1. CASE Const
    BY <2>1 DEF Const, Declaration, At, Waits, IsBlock, Reads, Goto, Silent, declVars
  <2>2. CASE Var
    BY <2>2 DEF Var, Declaration, At, Waits, IsBlock, Reads, Goto, Silent, declVars
  <2>3. CASE Procedure
    BY <2>3 DEF Procedure, Declaration, At, Waits, IsBlock, Reads, Goto, Silent, declVars
  <2>4. CASE ConstName
    BY <2>4 DEF ConstName, At, Waits, IsBlock, Reads, Silent, declVars, Renamed
  <2>5. CASE ConstEq
    BY <2>5 DEF ConstEq, At, Waits, IsBlock, Reads, Goto, Silent, declVars
  <2>6. CASE EndSection
    BY <2>6 DEF EndSection, At, Waits, IsBlock, Reads, Goto, Silent, declVars
  <2>7. CASE ProcEnd
    BY <2>7 DEF ProcEnd, At, Waits, IsBlock, Reads, Silent, declVars, Gathered
  <2> QED BY <2>1, <2>2, <2>3, <2>4, <2>5, <2>6, <2>7
<1>2. PICK at \in P : \E v :
           /\ \E a \in {[Top EXCEPT !.at = at], Renamed(Top, at, v), Gathered(Top, at, v)} :
                acts' = Becomes(a)
           /\ \/ at = "constName" /\ Top.at \in {"start", "constNext"}
              \/ at = "varName" /\ Top.at \in {"start", "vars", "varNext"}
              \/ at = "procName" /\ Top.at \in {"start", "vars", "procs"}
              \/ at = "constEq" /\ Top.at = "constName"
              \/ at = "constVal" /\ Top.at = "constEq"
              \/ at = "vars" /\ Top.at = "constNext"
              \/ at = "procs" /\ Top.at = "varNext"
              \/ at = "procTest" /\ Top.at = "procEnd"
  BY <1>1
<1>3. PICK a : MovesOn(Top, at, a) /\ acts' = Becomes(a)
  <2>1. Act(Top) BY <1>1, BlockTop DEF Clean
  <2> QED BY <1>2, <2>1, ActMoved
<1>4. Top.at \in Pending <=> at \in Pending BY <1>2 DEF Pending
<1>5. \A b : Matches(Top.at, b) => Matches(at, b)
  BY <1>2 DEF Matches, ConstPlaces, VarPlaces, Pending
<1>6. at # "declared" /\ at # "procSemi" OBVIOUS
<1> HIDE DEF P
<1> QED BY <1>1, <1>3, <1>4, <1>5, <1>6, SameNodes

\* The tests of blockParse, which find what they look for.
LEMMA TestsClean ==
  ASSUME Kept, Kept', Sane, Clean, errors' = << >>, ProcTest \/ EndDeclarations \/ BlockTail
  PROVE  Clean'
<1>1. /\ IsBlock(Top)
      /\ \E at, s1, s2 : \E e \in Errors :
           /\ Test(s1, s2, e, at)
           /\ \/ at = "procSpace" /\ Top.at = "procTest"
              \/ at = "declared" /\ s1 = Statbeg /\ Top.at \in {"start", "vars", "procs"}
              \/ at = "done" /\ Top.at = "tail"
  BY DEF ProcTest, EndDeclarations, BlockTail, At, Waits, IsBlock, Statbeg, Errors
<1>2. PICK at, s1, s2 : \E e \in Errors :
           /\ Test(s1, s2, e, at)
           /\ \/ at = "procSpace" /\ Top.at = "procTest"
              \/ at = "declared" /\ s1 = Statbeg /\ Top.at \in {"start", "vars", "procs"}
              \/ at = "done" /\ Top.at = "tail"
  BY <1>1
<1>3. /\ acts' = Goto(at) /\ inset(cur.type, s1) /\ UNCHANGED tokenVars
      /\ UNCHANGED declVars
  BY <1>2, TestClean
<1>4. cur' = cur /\ blocks' = blocks BY <1>3 DEF tokenVars, declVars
<1> DEFINE a == [Top EXCEPT !.at = at]
<1>5. Act(Top) BY <1>1, BlockTop DEF Clean
<1>6. MovesOn(Top, at, a) BY <1>5, ActMoved
<1>7. acts' = Becomes(a) BY <1>3 DEF Goto
<1>8. Top.at \in Pending <=> at \in Pending BY <1>2 DEF Pending
<1>9. \A b : Matches(Top.at, b) => Matches(at, b)
  BY <1>2 DEF Matches, ConstPlaces, VarPlaces, Pending
<1>10. at # "procSemi" /\ (at = "declared" => inset(cur'.type, Statbeg)) BY <1>2, <1>3, <1>4
<1> HIDE DEF a
<1> QED BY <1>1, <1>4, <1>6, <1>7, <1>8, <1>9, <1>10, SameNodes

\* The declarations of constants and variables, and of a procedure.
LEMMA DeclaresClean ==
  ASSUME Kept, Kept', Clean, step' = "parse", step = "parse", ConstVal \/ VarName
  PROVE  Clean'
<1>1. IsBlock(Top) /\ Top.at \in {"constVal", "varName"} /\ Top.at \notin Pending
  BY DEF ConstVal, VarName, At, Waits, IsBlock, Pending
<1>2. /\ Act(Top) /\ Rec(D!Top) /\ Matches(Top.at, D!Top)
  BY <1>1, BlockTop DEF Clean
<1>3. CASE ConstVal
  <2> DEFINE b == [D!Top EXCEPT !.consts = @ + 1]
  <2>1. PICK v, s : /\ acts' = Becomes(Gathered(Top, "constNext", v)) /\ Top.at = "constVal"
                    /\ blocks' = [blocks EXCEPT ![Len(blocks)] = Added(b, "const", s)]
    BY <1>3 DEF ConstVal, At, Waits, Reads, D!DeclareConst, D!Declared, Gathered, Added
  <2>2. Rec(b) /\ b.vars = D!Top.vars /\ b.procs = D!Top.procs
    <3> DEFINE c == D!Top
               v1 == c.consts + 1
    <3> HIDE DEF c, v1
    <3>1. Rec(c) BY <1>2 DEF c
    <3>2. /\ Rec([c EXCEPT !.consts = v1]) /\ [c EXCEPT !.consts = v1].vars = c.vars
          /\ [c EXCEPT !.consts = v1].procs = c.procs
      BY <3>1, CountChanged
    <3>3. b = [c EXCEPT !.consts = v1] BY DEF c, v1
    <3> HIDE DEF b
    <3> QED BY <3>2, <3>3 DEF c
  <2>3. MovesOn(Top, "constNext", Gathered(Top, "constNext", v)) BY <1>2, ActMoved
  <2> DEFINE e == Added(b, "const", s)
  <2> HIDE DEF b
  <2>4. Rec(e) /\ Going(e, "const") /\ Counts(b, e) BY <2>2, NodeAdded
  <2> HIDE DEF e
  <2>5. Matches("constNext", e)
    BY <1>2, <2>1, <2>2, <2>4 DEF Matches, ConstPlaces, VarPlaces, Pending, Counts
  <2>6. "constNext" \notin Pending \cup {"declared"} BY DEF Pending
  <2>7. blocks' = [blocks EXCEPT ![Len(blocks)] = e] BY <2>1 DEF e
  <2> QED BY <1>1, <2>1, <2>3, <2>4, <2>5, <2>6, <2>7, NodeMoves
<1>4. CASE VarName
  <2> DEFINE b == [D!Top EXCEPT !.vars = @ + 1]
  <2>1. PICK v, s : /\ acts' = Becomes(Gathered(Top, "varNext", v)) /\ Top.at = "varName"
                    /\ blocks' = [blocks EXCEPT ![Len(blocks)] = Added(b, "var", s)]
    <3>1. globalLevel < MaxLexi BY <1>4 DEF VarName
    <3>2. /\ Top.at = "varName" /\ D!DeclareVar(cur.val)
          /\ \E v : acts' = Becomes(Gathered(Top, "varNext", v))
      BY <1>4, <3>1 DEF VarName, At, Waits, Reads, Gathered
    <3>3. \E s : blocks' = [blocks EXCEPT ![Len(blocks)] = Added(b, "var", s)]
      BY <3>2 DEF D!DeclareVar, D!Declared, Added
    <3> QED BY <3>2, <3>3
  <2>2. Rec(b) /\ b.procs = D!Top.procs
    <3> DEFINE c == D!Top
               v1 == c.vars + 1
    <3> HIDE DEF c, v1
    <3>1. Rec(c) BY <1>2 DEF c
    <3>2. Rec([c EXCEPT !.vars = v1]) /\ [c EXCEPT !.vars = v1].procs = c.procs
      BY <3>1, CountChanged
    <3>3. b = [c EXCEPT !.vars = v1] BY DEF c, v1
    <3> HIDE DEF b
    <3> QED BY <3>2, <3>3 DEF c
  <2>3. MovesOn(Top, "varNext", Gathered(Top, "varNext", v)) BY <1>2, ActMoved
  <2> DEFINE e == Added(b, "var", s)
  <2> HIDE DEF b
  <2>4. Rec(e) /\ Going(e, "var") /\ Counts(b, e) BY <2>2, NodeAdded
  <2> HIDE DEF e
  <2>5. Matches("varNext", e)
    BY <1>2, <2>1, <2>2, <2>4 DEF Matches, ConstPlaces, VarPlaces, Pending, Counts
  <2>6. "varNext" \notin Pending \cup {"declared"} BY DEF Pending
  <2>7. blocks' = [blocks EXCEPT ![Len(blocks)] = e] BY <2>1 DEF e
  <2> QED BY <1>1, <2>1, <2>3, <2>4, <2>5, <2>6, <2>7, NodeMoves
<1> QED BY <1>3, <1>4

\* The head of a procedure puts a new node behind the one that now counts it.
LEMMA HeadClean ==
  ASSUME Kept, Kept', Clean, ProcName
  PROVE  Clean'
<1> DEFINE n == Len(acts)
           b == [D!Top EXCEPT !.procs = @ + 1]
           a == Renamed(Top, "procSemi", cur.val)
<1>1. /\ IsBlock(Top) /\ Top.at \notin Pending /\ acts' = Becomes(a)
      /\ \E s, set : blocks' = Append([blocks EXCEPT ![Len(blocks)] = Added(b, "proc", s)],
                                      D!NewBlock(set))
  <2>1. IsBlock(Top) /\ Top.at \notin Pending /\ acts' = Becomes(a) /\ D!OpenProcedure(cur.val)
    BY DEF ProcName, At, Waits, IsBlock, Pending, Reads, Renamed
  <2>2. \E s, set : blocks' = Append([blocks EXCEPT ![Len(blocks)] = Added(b, "proc", s)],
                                     D!NewBlock(set))
    BY <2>1 DEF D!OpenProcedure, D!Declared, Added
  <2> QED BY <2>1, <2>2
<1>2. /\ Act(Top) /\ Rec(D!Top) /\ n \in Nat \ {0, 1} /\ Len(blocks) = n - 1
      /\ Len(blocks) # 0 /\ IsSequence(blocks)
  BY <1>1, BlockTop DEF Clean, Nest
<1>3. Rec(b)
  <2> DEFINE c == D!Top
             v1 == c.procs + 1
  <2> HIDE DEF c, v1
  <2>1. Rec(c) BY <1>2 DEF c
  <2>2. Rec([c EXCEPT !.procs = v1]) BY <2>1, CountChanged
  <2>3. b = [c EXCEPT !.procs = v1] BY DEF c, v1
  <2> HIDE DEF b
  <2> QED BY <2>2, <2>3
<1>4. MovesOn(Top, "procSemi", a) BY <1>2, ActMoved
<1> HIDE DEF a, b, n
<1>5. PICK s, set : blocks' = Append([blocks EXCEPT ![Len(blocks)] = Added(b, "proc", s)],
                                     D!NewBlock(set))
  BY <1>1
<1> DEFINE e == Added(b, "proc", s)
           f == D!NewBlock(set)
           t == WithLast(blocks, e)
<1>6. Rec(e) /\ Going(e, "proc") BY <1>3, NodeAdded
<1>7. Rec(f) /\ Fresh(f) BY NewNode
<1>8. blocks' = Append(t, f) BY <1>5 DEF WithLast
<1> HIDE DEF e, f
<1>9. /\ IsSequence(t) /\ Len(t) = n - 1 /\ t[n - 1] = e
      /\ \A i \in 1 .. n - 1 - 1 : t[i] = blocks[i]
  BY <1>2, Replaced
<1> HIDE DEF t
<1>10. /\ IsSequence(blocks') /\ Len(blocks') = n - 1 + 1 /\ blocks'[n - 1 + 1] = f
       /\ \A i \in 1 .. n - 1 : blocks'[i] = t[i]
  <2> DEFINE u == Append(t, f)
  <2>1. /\ IsSequence(u) /\ Len(u) = n - 1 + 1 /\ u[n - 1 + 1] = f
        /\ \A i \in 1 .. n - 1 : u[i] = t[i]
    BY <1>9, Grows
  <2>2. blocks' = u BY <1>8
  <2> HIDE DEF u
  <2> QED BY <2>1, <2>2
<1>11. /\ n - 1 + 1 = n /\ n - 1 \in 1 .. n - 1
       /\ \A i \in 1 .. n - 2 : i \in 1 .. n - 1 /\ i \in 1 .. n - 1 - 1
       /\ \A i \in 1 .. n : i \in 1 .. n - 1 - 1 \/ i = n - 1 \/ i = n
  BY <1>2
<1>12. \A j \in 1 .. Len(blocks') : Rec(blocks'[j])
  <2>1. \A i \in 1 .. n - 1 - 1 : i \in 1 .. Len(blocks) /\ i \in 1 .. n - 1 BY <1>2
  <2>2. \A i \in 1 .. n - 1 - 1 : Rec(blocks[i]) BY <2>1 DEF Clean, Nest
  <2>3. \A i \in 1 .. n - 1 - 1 : Rec(blocks'[i]) BY <1>9, <1>10, <2>1, <2>2
  <2>4. Rec(blocks'[n - 1]) BY <1>6, <1>9, <1>10, <1>11
  <2>5. Rec(blocks'[n]) BY <1>7, <1>10, <1>11
  <2> QED BY <1>10, <1>11, <2>3, <2>4, <2>5
<1>13. Len(blocks') = n - 1 + (IF "procSemi" \in Pending THEN 1 ELSE 0)
  BY <1>10 DEF Pending
<1>14. \A j \in 1 .. n - 2 : blocks'[j] = blocks[j] BY <1>9, <1>10, <1>11
<1>15. Matches("procSemi", blocks'[n - 1])
  <2>1. blocks'[n - 1] = e BY <1>9, <1>10, <1>11
  <2> QED BY <1>6, <2>1 DEF Matches, ConstPlaces, VarPlaces
<1>16. Nest' /\ Top' = a /\ a.at = "procSemi"
  BY <1>1, <1>4, <1>10, <1>12, <1>13, <1>14, <1>15, BlockMoves DEF Clean, n
<1>17. Fresh(blocks'[Len(blocks')]) BY <1>7, <1>10
<1> QED BY <1>16, <1>17 DEF Clean, AtTop, Waits

\* The end of a procedure takes its node away again.
LEMMA SpaceClean ==
  ASSUME Kept, Kept', Clean, ProcSpace
  PROVE  Clean'
<1> DEFINE n == Len(acts)
           a == [Top EXCEPT !.at = "procs"]
<1>1. /\ IsBlock(Top) /\ Top.at = "procSpace" /\ acts' = Becomes(a)
      /\ blocks' = SubSeq(blocks, 1, Len(blocks) - 1)
  BY DEF ProcSpace, At, Waits, IsBlock, Stays, Goto, D!CloseBlock
<1>2. /\ Act(Top) /\ n \in Nat \ {0, 1} /\ Len(blocks) = n - 1 + 1 /\ IsSequence(blocks)
      /\ Matches("procSpace", blocks[n - 1]) /\ \A j \in 1 .. Len(blocks) : Rec(blocks[j])
  BY <1>1, BlockTop DEF Clean, Nest, Pending
<1>3. MovesOn(Top, "procs", a) BY <1>2, ActMoved
<1> HIDE DEF a, n
<1>4. /\ IsSequence(blocks') /\ Len(blocks') = n - 1
      /\ \A i \in 1 .. n - 1 : blocks'[i] = blocks[i]
  <2>1. blocks # << >> /\ Len(blocks) - 1 = n - 1 BY <1>2
  <2> DEFINE t == SubSeq(blocks, 1, Len(blocks) - 1)
  <2>2. /\ IsSequence(t) /\ Len(t) = Len(blocks) - 1
        /\ \A i \in 1 .. Len(blocks) - 1 : t[i] = blocks[i]
    BY <1>2, <2>1, Shrinks
  <2>3. blocks' = t BY <1>1
  <2> HIDE DEF t
  <2> QED BY <2>1, <2>2, <2>3
<1>5. /\ \A i \in 1 .. n - 1 : i \in 1 .. Len(blocks)
      /\ \A i \in 1 .. n - 2 : i \in 1 .. n - 1
      /\ n - 1 \in 1 .. n - 1
  BY <1>2
<1>6. \A j \in 1 .. Len(blocks') : Rec(blocks'[j]) BY <1>2, <1>4, <1>5
<1>7. Len(blocks') = n - 1 + (IF "procs" \in Pending THEN 1 ELSE 0) BY <1>2, <1>4 DEF Pending
<1>8. \A j \in 1 .. n - 2 : blocks'[j] = blocks[j] BY <1>4, <1>5
<1>9. Matches("procs", blocks'[n - 1])
  <2>1. blocks'[n - 1] = blocks[n - 1] BY <1>4, <1>5
  <2> QED BY <1>2, <2>1 DEF Matches, ConstPlaces, VarPlaces, Pending
<1>10. Nest' /\ Top' = a /\ a.at = "procs"
  BY <1>1, <1>3, <1>4, <1>6, <1>7, <1>8, <1>9, BlockMoves DEF Clean, n
<1> QED BY <1>10 DEF Clean, AtTop, Waits

\* The declarations of a block do not start over: what may begin a statement
\* begins no declaration.
LEMMA StatementClean ==
  ASSUME Kept, Kept', Clean, Sane, Declared
  PROVE  Clean'
<1> DEFINE n == Len(acts)
           b == Placed(Top, "tail")
<1>1. /\ IsBlock(Top) /\ Top.at = "declared"
      /\ \E phase : blocks' = WithLast(blocks, Ended(D!Top, phase))
  BY DEF Declared, At, Waits, IsBlock, D!EndDeclarations, WithLast, Ended
<1>2. ~inset(cur.type, declbegsys)
  <2>1. inset(cur.type, Statbeg) BY <1>1 DEF Clean, AtTop, Waits, IsBlock
  <2>2. cur.type \in ToSet(Token_t) BY DEF Sane, TokensInv
  <2> QED BY <2>1, <2>2, SetsApart DEF Statbeg, Types
<1>3. PICK fsys : acts' = Calls(Top, "tail", "statement", fsys) BY <1>2 DEF Declared, Stays
<1>4. /\ Act(Top) /\ n \in Nat \ {0, 1} /\ Len(blocks) = n - 1 /\ ActsInv
      /\ Rec(D!Top) /\ Len(blocks) # 0 /\ IsSequence(blocks)
      /\ \A j \in 1 .. Len(blocks) : Rec(blocks[j])
  BY <1>1, BlockTop DEF Clean, Nest, Pending, Kept
<1>5. b.fn = "block" /\ b.at = "tail" BY <1>1, <1>4, AtChanged DEF IsBlock, Placed
<1>6. /\ Len(acts') = n + 1 /\ acts'[n] = b /\ acts'[n + 1].fn = "statement"
      /\ acts'[n + 1].at = "start" /\ \A i \in 1 .. n - 1 : acts'[i] = acts[i]
  <2> DEFINE c == Activation("statement", fsys)
  <2>1. /\ Len(acts') = n + 1 /\ acts'[n] = b /\ acts'[n + 1] = c
        /\ \A i \in 1 .. n - 1 : acts'[i] = acts[i]
    BY <1>3, <1>4, CallsIs
  <2>2. c.fn = "statement" /\ c.at = "start" BY ActNew
  <2> HIDE DEF c, b
  <2> QED BY <2>1, <2>2
<1> HIDE DEF b, n
<1>7. PICK phase : blocks' = WithLast(blocks, Ended(D!Top, phase)) BY <1>1
<1> DEFINE e == Ended(D!Top, phase)
<1>8. Rec(e) BY <1>4, NodeEnded
<1> HIDE DEF e
<1>9. /\ IsSequence(blocks') /\ Len(blocks') = n - 1 /\ blocks'[n - 1] = e
      /\ \A i \in 1 .. n - 1 - 1 : blocks'[i] = blocks[i]
  <2> DEFINE t == WithLast(blocks, e)
  <2>1. /\ IsSequence(t) /\ Len(t) = n - 1 /\ t[n - 1] = e
        /\ \A i \in 1 .. n - 1 - 1 : t[i] = blocks[i]
    BY <1>4, Replaced
  <2>2. blocks' = t BY <1>7 DEF e
  <2> HIDE DEF t
  <2> QED BY <2>1, <2>2
<1>10. \A j \in 1 .. Len(blocks') : Rec(blocks'[j])
  <2>1. \A j \in 1 .. n - 1 : j = n - 1 \/ (j \in 1 .. n - 1 - 1 /\ j \in 1 .. Len(blocks))
    BY <1>4
  <2> QED BY <1>4, <1>8, <1>9, <2>1
<1>11. Len(blocks') = n - 1 + (IF b.at \in Pending THEN 1 ELSE 0)
  BY <1>4, <1>5, <1>9 DEF Pending
<1>12. \A j \in 1 .. n - 2 : blocks'[j] = blocks[j]
  <2>1. n - 2 = n - 1 - 1 BY <1>4
  <2> QED BY <1>9, <2>1
<1>13. Matches(b.at, blocks'[n - 1]) BY <1>5 DEF Matches, ConstPlaces, VarPlaces, Pending
<1>14. IsBlock(b) BY <1>5 DEF IsBlock
<1>15. Nest'
  BY <1>1, <1>5, <1>6, <1>9, <1>10, <1>11, <1>12, <1>13, <1>14, BlockClean DEF Clean, n
<1>16. Top'.fn = "statement"
  <2>1. Top' = acts'[Len(acts')] BY Shrinks DEF Kept, ActsInv, Top
  <2> QED BY <1>6, <2>1
<1> QED BY <1>15, <1>16 DEF Clean, AtTop, Waits

\* The declarations and the body of a block.
LEMMA BlocksClean ==
  ASSUME Kept, Kept', Sane, Clean, Blocks, step = "parse", step' = "parse", errors' = << >>
  PROVE  Clean'
<1>1. CASE ProcBody
  <2>1. /\ IsBlock(Top) /\ Top.at = "procSemi" /\ blocks' = blocks
        /\ \E fsys : acts' = Calls(Top, "procEnd", "block", fsys)
    BY <1>1 DEF ProcBody, At, Waits, IsBlock, Reads, Silent, declVars
  <2>2. PICK fsys : acts' = Calls(Top, "procEnd", "block", fsys) BY <2>1
  <2> DEFINE b == Placed(Top, "procEnd")
             c == Activation("block", fsys)
  <2>3. ActsInv /\ Act(Top) BY TopIs DEF Kept
  <2>4. /\ Len(acts') = Len(acts) + 1 /\ acts'[Len(acts)] = b /\ acts'[Len(acts) + 1] = c
        /\ \A i \in 1 .. Len(acts) - 1 : acts'[i] = acts[i]
    BY <2>2, <2>3, CallsIs
  <2>5. IsBlock(b) /\ b.at = "procEnd" BY <2>1, <2>3, AtChanged DEF Placed, IsBlock
  <2>6. IsBlock(c) /\ c.at = "start" BY ActNew DEF IsBlock
  <2> HIDE DEF b, c
  <2> QED BY <2>1, <2>4, <2>5, <2>6, BodyClean
<1>2. CASE EndBlock
  <2>1. /\ IsBlock(Top) /\ Top.at = "done" /\ blocks' = blocks
        /\ \E node : acts' = Returns(node)
    BY <1>2 DEF EndBlock, At, Waits, IsBlock, Stays, Silent, declVars
  <2> QED BY <2>1, EndClean DEF Clean
<1>3. CASE EndProgram BY <1>3 DEF EndProgram
<1> QED BY <1>1, <1>2, <1>3, NamesClean, TestsClean, DeclaresClean, HeadClean, SpaceClean,
           StatementClean DEF Blocks

-----------------------------------------------------------------------------
(* The other functions.                                                    *)

LEMMA MoveSafe ==
  ASSUME NEW at, at \notin {"becomes", "store"}, NEW a, MovesOn(Top, at, a), acts' = Becomes(a)
  PROVE  InsideStep(acts')
  BY DEF InsideStep, MovesOn, Safe

LEMMA CallSafe ==
  ASSUME NEW a, Act(a), a.fn = Top.fn, NEW at, at \notin {"becomes", "store"},
         NEW fn \in {"statement", "condition", "expression", "term", "factor"},
         NEW fsys, acts' = Calls(a, at, fn, fsys)
  PROVE  InsideStep(acts')
<1>1. Placed(a, at).at = at BY AtChanged DEF Placed
<1>2. Safe(Placed(a, at)) BY <1>1 DEF Safe
<1>3. fn \notin {"block", "test"} OBVIOUS
<1> QED BY <1>2, <1>3 DEF InsideStep

LEMMA StatementsInside ==
  ASSUME Kept, Sane, Nest, Statements, step = "parse", step' = "parse", errors' = << >>
  PROVE  Top.fn = "statement" /\ blocks' = blocks /\ InsideStep(acts')
<1>1. Top.fn = "statement"
  BY DEF Statements, Assign, AssignBecomes, Store, Named, CallIdent, ReadIdent, WriteIdent,
         Begin, ListStatement, End, If, Body, Else, EndIf, While, EndWhile, Empty, EndEmpty,
         Starts, At, Waits
<1>2. blocks' = blocks
  BY DEF Statements, Assign, AssignBecomes, Store, Named, CallIdent, ReadIdent, WriteIdent,
         Begin, ListStatement, End, If, Body, Else, EndIf, While, EndWhile, Empty, EndEmpty,
         Silent, Reports, Emits, Rewrites, Test, declVars
<1>3. Act(Top) /\ Safe(Top)
  <2>1. Act(Top) /\ Top = acts[Len(acts)] /\ Len(acts) \in 1 .. Len(acts) BY TopIs DEF Kept
  <2> QED BY <2>1 DEF Nest
<1>4. CASE Assign
  <2>1. acts' = Becomes(Naming(Top, "becomes", cur.val, sym)) /\ errors' = errors \o AssignErrors
    BY <1>4 DEF Assign, Reads, Naming
  <2>2. AssignErrors = << >>
    <3>1. AssignErrors \in Seq(Errors) BY AssignReports
    <3> QED BY <2>1, <3>1, ErrorsGrow DEF Sane
  <2>3. sym # Null BY <2>2 DEF AssignErrors, Undeclared
  <2> DEFINE a == Naming(Top, "becomes", cur.val, sym)
  <2>4. MovesOn(Top, "becomes", a) /\ a.sym = sym BY <1>3, ActNamed
  <2> HIDE DEF a
  <2>5. a.fn = Top.fn /\ Safe(a) BY <2>3, <2>4 DEF MovesOn, Safe
  <2>6. acts' = Becomes(a) BY <2>1 DEF a
  <2> QED BY <1>1, <1>2, <2>5, <2>6 DEF InsideStep
<1>5. CASE AssignBecomes
  <2>1. Top.at = "becomes" /\ acts' = Calls(Top, "store", "expression", Top.fsys)
    BY <1>5 DEF AssignBecomes, At, Waits, Reads
  <2>2. Top.sym # Null BY <1>1, <1>3, <2>1 DEF Safe
  <2>3. Safe(Placed(Top, "store"))
    <3>1. Placed(Top, "store").sym = Top.sym BY <1>3, AtChanged DEF Placed
    <3> QED BY <2>2, <3>1 DEF Safe
  <2> QED BY <1>1, <1>2, <1>3, <2>1, <2>3 DEF InsideStep
<1>6. CASE \E type : \E place \in {"callee", "target", "source"} : Named(type, place)
  <2>1. PICK place \in {"callee", "target", "source"} : acts' = Becomes([Top EXCEPT !.at = place])
    BY <1>6 DEF Named, Reads, Goto
  <2>2. MovesOn(Top, place, [Top EXCEPT !.at = place]) BY <1>3, ActMoved
  <2> QED BY <1>1, <1>2, <2>1, <2>2, MoveSafe
<1>7. CASE Empty
  <2>a. Test(Top.fsys, phi, 19, "done") /\ 19 \in Errors BY <1>7 DEF Empty, Errors
  <2>1. acts' = Becomes([Top EXCEPT !.at = "done"]) BY <2>a, TestClean DEF Goto
  <2>2. MovesOn(Top, "done", [Top EXCEPT !.at = "done"]) BY <1>3, ActMoved
  <2> QED BY <1>1, <1>2, <2>1, <2>2, MoveSafe
<1>8. CASE Store \/ CallIdent \/ ReadIdent \/ WriteIdent \/ End \/ EndIf \/ EndWhile \/ EndEmpty
  <2>1. \E node : acts' = Returns(node)
    BY <1>8 DEF Store, CallIdent, ReadIdent, WriteIdent, End, EndIf, EndWhile, EndEmpty,
                Reads, Stays
  <2> QED BY <1>1, <1>2, <2>1 DEF InsideStep
<1>9. CASE Begin \/ ListStatement \/ If
  <2>1. \E at \in {"list", "then"} : \E fn \in {"statement", "condition"} : \E fsys :
          acts' = Calls(Top, at, fn, fsys)
    BY <1>9 DEF Begin, ListStatement, If, Reads, Stays
  <2> QED BY <1>1, <1>2, <1>3, <2>1, CallSafe
<1>10. CASE Body("then", "else") \/ Body("do", "loop")
  <2> DEFINE a == [Top EXCEPT !.j1 = Here]
  <2>1. \E at \in {"else", "loop"} : \E fsys : acts' = Calls(a, at, "statement", fsys)
    BY <1>10 DEF Body, Reads
  <2>2. Act(a) /\ a.fn = Top.fn
    <3>1. Alike(Top, a) BY <1>3, ActChanged
    <3> QED BY <3>1 DEF Alike
  <2> HIDE DEF a
  <2> QED BY <1>1, <1>2, <2>1, <2>2, CallSafe
<1>12. CASE While
  <2> DEFINE a == [Top EXCEPT !.c = Here]
  <2>1. \E fsys : acts' = Calls(a, "do", "condition", fsys) BY <1>12 DEF While, Reads
  <2>2. Act(a) /\ a.fn = Top.fn
    <3>1. Alike(Top, a) BY <1>3, ActChanged
    <3> QED BY <3>1 DEF Alike
  <2> HIDE DEF a
  <2> QED BY <1>1, <1>2, <2>1, <2>2, CallSafe
<1>11. CASE Else
  <2> DEFINE a == Jumped(Top, Here, "endif")
  <2>1. \/ acts' = Becomes(a)
        \/ acts' = Calls(a, "endif", "statement", Top.fsys)
    BY <1>11 DEF Else, Reads, Stays, Jumped
  <2>2. MovesOn(Top, "endif", a) BY <1>3, ActMoved
  <2> HIDE DEF a
  <2> QED BY <1>1, <1>2, <2>1, <2>2, MoveSafe, CallSafe DEF MovesOn
<1> QED BY <1>4, <1>5, <1>6, <1>7, <1>8, <1>9, <1>10, <1>11, <1>12 DEF Statements

LEMMA ExpressionClean ==
  ASSUME Kept, Kept', Nest, Expression
  PROVE  Clean'
<1> DEFINE sign == IF cur.type \in SignTypes THEN cur.type ELSE "nulsym"
           a == [Top EXCEPT !.ops = <<sign>>]
           b == Placed(a, "more")
           new == Calls(a, "more", "term", FactorSet)
           term == Activation("term", FactorSet)
           signed == [term EXCEPT !.ident = sign]
           n == Len(acts)
<1>1. /\ Top.fn = "expression" /\ acts' = [new EXCEPT ![Len(new)].ident = sign]
      /\ blocks' = blocks
  BY DEF Expression, At, Waits, Reads, Stays, Silent, declVars
<1>2. Act(Top) /\ n \in Nat \ {0} /\ ActsInv BY TopIs DEF Kept
<1>3. Act(a) /\ a.fn = "expression"
  <2> HIDE DEF sign
  <2>1. Alike(Top, a) BY <1>2, ActChanged
  <2> QED BY <1>1, <2>1 DEF Alike
<1> HIDE DEF a
<1>4. b.fn = "expression" BY <1>3, AtChanged DEF Placed
<1>5. Act(term) /\ term.fn = "term" BY ActNew
<1>6. signed.fn = "term"
  <2> HIDE DEF term, sign
  <2>1. Alike(term, signed) BY <1>5, ActChanged
  <2> QED BY <1>5, <2>1 DEF Alike
<1>7. /\ IsSequence(new) /\ Len(new) = n + 1 /\ new[n] = b /\ new[n + 1] = term
      /\ \A i \in 1 .. n - 1 : new[i] = acts[i]
  BY <1>2, CallsIs
<1> HIDE DEF new, b, term, sign
<1>8. /\ Len(acts') = n + 1 /\ acts'[n] = b /\ acts'[n + 1] = signed
      /\ \A i \in 1 .. n - 1 : acts'[i] = acts[i]
  <2> HIDE DEF n
  <2>1. acts' = [new EXCEPT ![n + 1] = signed] BY <1>1, <1>2, <1>7
  <2>2. new \in Seq(Elements(new)) BY <1>7 DEF IsSequence
  <2> DEFINE S == Elements(new) \cup {signed}
  <2>3. new \in Seq(S) BY <2>2
  <2> HIDE DEF S, signed
  <2>4. signed \in S BY DEF S
  <2>5. Len(acts') = n + 1 BY <1>2, <1>7, <2>1, <2>3, <2>4
  <2>6. acts'[n + 1] = signed /\ acts'[n] = b /\ \A i \in 1 .. n - 1 : acts'[i] = new[i]
    BY <1>2, <1>7, <2>1, <2>3
  <2> QED BY <1>7, <2>5, <2>6
<1> HIDE DEF signed, n
<1>9. \A i \in 1 .. n + 1 : \/ i \in 1 .. n - 1 /\ i < n
                            \/ i = n /\ ~(i < n)
                            \/ i = n + 1 /\ ~(i < n)
  BY <1>2
<1>10. \A i \in 1 .. Len(acts') :
         IF i < n THEN Kin(acts[i], acts'[i])
         ELSE acts'[i].fn \notin {"block", "test"} /\ Safe(acts'[i])
  BY <1>4, <1>6, <1>8, <1>9 DEF Kin, Safe
<1> QED BY <1>1, <1>8, <1>10, Inside DEF n

LEMMA ExpressionsInside ==
  ASSUME Kept, Sane, Nest, Expressions, ~Expression, step = "parse", errors' = << >>
  PROVE  Top.fn \in Valued /\ blocks' = blocks /\ InsideStep(acts')
<1>1. Top.fn \in Valued
  BY DEF Expressions, Condition, Odd, Relation, Compare, Expression, Operator, Operate,
         EndList, Term, FirstFactor, Factor, FactorIdent, FactorNumber, FactorOpen,
         FactorClose, EndFactor, FactorNone, At, Waits, Valued
<1>2. blocks' = blocks
  BY DEF Expressions, Condition, Odd, Relation, Compare, Expression, Operator, Operate,
         EndList, Term, FirstFactor, Factor, FactorIdent, FactorNumber, FactorOpen,
         FactorClose, EndFactor, FactorNone, Operand, Silent, Reports, Emits, Rewrites, Test,
         declVars
<1>3. Act(Top) BY TopIs DEF Kept
<1>4. \A v : Act([Top EXCEPT !.ops = v]) /\ [Top EXCEPT !.ops = v].fn = Top.fn
  BY <1>3, OpsChanged
<1>5. CASE Condition \/ FactorOpen
  <2>1. \E at \in {"odd", "relop", "close"} : \E fsys : acts' = Calls(Top, at, "expression", fsys)
    BY <1>5 DEF Condition, FactorOpen, Reads, Stays
  <2> QED BY <1>1, <1>2, <1>3, <2>1, CallSafe
<1>6. CASE \/ Relation \/ Term
           \/ Operator("expression", "term", SignTypes) \/ Operator("term", "factor", FactorTypes)
  <2>1. \E v : \E at \in {"right", "first", "operate"} :
        \E fn \in {"expression", "term", "factor"} : \E fsys :
          acts' = Calls([Top EXCEPT !.ops = v], at, fn, fsys)
    BY <1>6 DEF Relation, Term, Operator, Reads, Stays
  <2> QED BY <1>1, <1>2, <1>4, <2>1, CallSafe
<1>7. CASE \/ FirstFactor \/ Operate("expression") \/ Operate("term")
           \/ FactorClose /\ Is("rparentsym")
  <2>1. \E at \in {"more", "done"} : acts' = Becomes([Top EXCEPT !.at = at])
    BY <1>7 DEF FirstFactor, Operate, FactorClose, Reads, Stays, Goto
  <2>2. \A at : MovesOn(Top, at, [Top EXCEPT !.at = at]) BY <1>3, ActMoved
  <2> QED BY <1>1, <1>2, <2>1, <2>2, MoveSafe
<1>8. CASE Factor \/ FactorNone \/ (FactorClose /\ ~Is("rparentsym"))
  <2>1. \E s1, s2 : \E e \in Errors : \E at \in {"factor", "none", "done"} : Test(s1, s2, e, at)
    BY <1>8 DEF Factor, FactorNone, FactorClose, Errors
  <2>2. \E at \in {"factor", "none", "done"} : acts' = Becomes([Top EXCEPT !.at = at])
    BY <2>1, TestClean DEF Goto
  <2>3. \A at : MovesOn(Top, at, [Top EXCEPT !.at = at]) BY <1>3, ActMoved
  <2> QED BY <1>1, <1>2, <2>2, <2>3, MoveSafe
<1>9. CASE \/ Odd \/ Compare \/ EndList("expression", SignTypes) \/ EndList("term", FactorTypes)
           \/ FactorIdent \/ FactorNumber \/ EndFactor
  <2>1. \E node : acts' = Returns(node)
    BY <1>9 DEF Odd, Compare, EndList, FactorIdent, FactorNumber, EndFactor, Operand,
                Reads, Stays
  <2> QED BY <1>1, <1>2, <2>1 DEF InsideStep
<1> QED BY <1>5, <1>6, <1>7, <1>8, <1>9 DEF Expressions

-----------------------------------------------------------------------------
CleanInv == step = "parse" /\ errors = << >> => Clean

LEMMA NextClean ==
  ASSUME Inv, Inv', Sane, Sane', CleanInv, errors' = << >> => errors = << >>, [Next]_vars
  PROVE  CleanInv'
<1> SUFFICES ASSUME step' = "parse", errors' = << >>
             PROVE  Clean'
  BY DEF CleanInv
<1>1. CASE UNCHANGED vars
  BY <1>1 DEF vars, tokenVars, declVars, CleanInv, Clean, Nest, AtTop, Waits, Inner, Depth, Top
<1>2. CASE Next
  <2>1. step = "parse"
    BY <1>2 DEF Next, Blocks, Statements, Expressions, Const, ConstName, ConstEq, ConstVal,
     Var, VarName, EndSection, Procedure, ProcName, ProcBody, ProcEnd, ProcTest, ProcSpace,
     EndDeclarations, Declared, BlockTail, EndBlock, EndProgram, Assign, AssignBecomes, Store,
     Named, CallIdent, ReadIdent, WriteIdent, Begin, ListStatement, End, If, Body, Else, EndIf,
     While, EndWhile, Empty, EndEmpty, Starts, Condition, Odd, Relation, Compare, Expression,
     Operator, Operate, EndList, Term, FirstFactor, Factor, FactorIdent, FactorNumber,
     FactorOpen, FactorClose, EndFactor, FactorNone, At, Skip, EndTest, Fail, Parsing
  <2>2. Kept /\ Kept' /\ Clean BY <2>1 DEF Inv, CleanInv
  <2>3. CASE Blocks BY <2>1, <2>2, <2>3, BlocksClean
  <2>4. CASE Statements
    <3>1. Top.fn = "statement" /\ blocks' = blocks /\ InsideStep(acts')
      BY <2>1, <2>2, <2>4, StatementsInside DEF Clean
    <3> QED BY <2>2, <3>1, InsideClean DEF Clean
  <2>5. CASE Expression BY <2>2, <2>5, ExpressionClean DEF Clean
  <2>6. CASE Expressions /\ ~Expression
    <3>1. Top.fn \in Valued /\ blocks' = blocks /\ InsideStep(acts')
      BY <2>1, <2>2, <2>6, ExpressionsInside DEF Clean
    <3> QED BY <2>2, <3>1, InsideClean DEF Clean, Valued
  <2>7. CASE Skip \/ EndTest
    <3>1. Top.fn = "test" BY <2>7 DEF Skip, EndTest, Parsing
    <3>2. Top = acts[Len(acts)] /\ Len(acts) \in 1 .. Len(acts) BY <2>2, TopIs DEF Kept
    <3> QED BY <2>2, <3>1, <3>2 DEF Clean, Nest
  <2>8. CASE Fail BY <2>8 DEF Fail
  <2> QED BY <1>2, <2>3, <2>4, <2>5, <2>6, <2>7, <2>8 DEF Next
<1> QED BY <1>1, <1>2

LEMMA InitClean ==
  ASSUME Init, Inv
  PROVE  CleanInv
<1> DEFINE a == [Activation("program", phi) EXCEPT !.at = "period"]
           b == D!NewBlock(currentProcedure)
<1>1. /\ Len(acts) = 2 /\ acts[1].fn = "program" /\ acts[1].at = "period"
      /\ acts[2].fn = "block" /\ acts[2].at = "start"
  <2>1. PICK fsys : acts = <<a, Activation("block", fsys)>> BY DEF Init, InitOn
  <2>2. a.fn = "program" /\ a.at = "period"
    <3>1. Act(Activation("program", phi)) /\ Activation("program", phi).fn = "program"
      BY ActNew
    <3> QED BY <3>1, AtChanged
  <2> DEFINE c == Activation("block", fsys)
  <2>3. c.fn = "block" /\ c.at = "start" BY ActNew
  <2> HIDE DEF a, c
  <2>4. acts = <<a, c>> BY <2>1 DEF c
  <2> QED BY <2>2, <2>3, <2>4
<1>2. blocks = <<b>> BY DEF Init, InitOn, D!Init
<1>3. Rec(b) /\ Fresh(b) BY NewNode
<1> HIDE DEF b
<1>4. IsSequence(blocks) /\ Len(blocks) = 1 /\ blocks[1] = b
  <2>1. blocks \in Seq({b}) /\ Len(blocks) = 1 /\ blocks[1] = b BY <1>2
  <2>2. Elements(blocks) = {b} BY <2>1 DEF Elements
  <2> QED BY <2>1, <2>2 DEF IsSequence
<1>5. Top = acts[2]
  <2>1. Kept BY DEF Init, InitOn, Inv
  <2> QED BY <1>1, <2>1, TopIs DEF Kept
<1>6. \A i \in 1 .. 2 : i = 1 \/ i = 2 OBVIOUS
<1>7. \A i \in 1 .. 2 - 1 : i = 1 OBVIOUS
<1>8. \A j \in 1 .. Len(blocks) : Rec(blocks[j])
  <2>1. \A j \in 1 .. 1 : j = 1 OBVIOUS
  <2> QED BY <1>3, <1>4, <2>1
<1>9. \A i \in 1 .. Len(acts) : acts[i].fn # "test" /\ Safe(acts[i])
  BY <1>1, <1>6 DEF Safe
<1>10. \A i \in 1 .. Len(acts) - 1 : i = 1 /\ ~IsBlock(acts[i]) BY <1>1, <1>7 DEF IsBlock
<1>11. \A i \in 1 .. Len(acts) :
         IsBlock(acts[i]) => i - 1 \in 1 .. Len(blocks) /\ Matches(acts[i].at, blocks[i - 1])
  <2>1. Matches("start", b)
    BY <1>3 DEF Fresh, Matches, ConstPlaces, VarPlaces, Pending
  <2>2. 2 - 1 = 1 /\ 1 \in 1 .. 1 OBVIOUS
  <2>3. ~IsBlock(acts[1]) BY <1>1 DEF IsBlock
  <2>4. 2 - 1 \in 1 .. Len(blocks) /\ Matches(acts[2].at, blocks[2 - 1])
    BY <1>1, <1>4, <2>1, <2>2
  <2> QED BY <1>1, <1>6, <2>3, <2>4
<1>12. \A i \in 1 .. Len(acts) : Inner(i) => Depth(i)
  <2>1. ~Inner(1) BY <1>1 DEF Inner, IsBlock
  <2>2. Depth(2) BY <1>1, <1>4 DEF Depth, Pending
  <2> QED BY <1>1, <1>6, <2>1, <2>2
<1>13. Nest BY <1>4, <1>8, <1>9, <1>10, <1>11, <1>12 DEF Nest
<1>14. AtTop BY <1>1, <1>5 DEF AtTop, Waits
<1> QED BY <1>13, <1>14 DEF CleanInv, Clean

\* The node of a section's first declaration is linked to the block, and that
\* of a further one to the node before it.
LEMMA ListsLinked ==
  ASSUME Kept, Clean, Const \/ Var \/ Procedure
  PROVE  step' # "crashed"
<1>1. IsBlock(Top) /\ Top.at \notin Pending
  BY DEF Const, Var, Procedure, At, Waits, IsBlock, Pending
<1>2. Matches(Top.at, D!Top) BY <1>1, BlockTop DEF Clean
<1>3. step = "parse" BY DEF Const, Var, Procedure, At
<1>4. CASE Const
  <2>1. Top.at \in {"start", "constNext"} BY <1>4 DEF Const, At, Waits
  <2>2. ~D!ListBroken("const", D!Top.consts)
    BY <1>2, <2>1 DEF Matches, Going, D!ListBroken
  <2> QED BY <1>3, <1>4, <2>2 DEF Const, Declaration, Silent
<1>5. CASE Var
  <2>1. Top.at \in {"start", "vars", "varNext"} BY <1>5 DEF Var, At, Waits
  <2>2. ~D!ListBroken("var", D!Top.vars)
    BY <1>2, <2>1 DEF Matches, Going, D!ListBroken, ConstPlaces
  <2> QED BY <1>3, <1>5, <2>2 DEF Var, Declaration, Silent
<1>6. CASE Procedure
  <2>1. Top.at \in {"start", "vars", "procs"} BY <1>6 DEF Procedure, At, Waits
  <2>2. ~D!ListBroken("proc", D!Top.procs)
    BY <1>2, <2>1 DEF Matches, Going, D!ListBroken, ConstPlaces
  <2> QED BY <1>3, <1>6, <2>2 DEF Procedure, Declaration, Silent
<1> QED BY <1>4, <1>5, <1>6

\* The value of an expression is stored to a symbol.
LEMMA SymbolStored ==
  ASSUME Kept, Clean, Store
  PROVE  step' # "crashed"
<1>1. Top = acts[Len(acts)] /\ Len(acts) \in 1 .. Len(acts) BY TopIs DEF Kept
<1>2. Safe(Top) BY <1>1 DEF Clean, Nest
<1>3. Top.fn = "statement" /\ Top.at = "store" /\ step = "parse" BY DEF Store, At, Waits
<1>4. Top.sym # Null BY <1>2, <1>3 DEF Safe
<1> QED BY <1>3, <1>4 DEF Store, Emits, Rewrites

LEMMA NextReported ==
  ASSUME Inv, Sane, CleanInv, errors' = << >> => errors = << >>, CrashesReported, [Next]_vars
  PROVE  CrashesReported'
<1> SUFFICES ASSUME step' = "crashed", errors' = << >>
             PROVE  globalLevel' >= MaxLexi
  BY DEF CrashesReported
<1>1. CASE UNCHANGED vars BY <1>1 DEF vars, declVars, CrashesReported
<1>2. CASE Next
  <2>1. step = "parse"
    BY <1>2 DEF Next, Blocks, Statements, Expressions, Const, ConstName, ConstEq, ConstVal,
     Var, VarName, EndSection, Procedure, ProcName, ProcBody, ProcEnd, ProcTest, ProcSpace,
     EndDeclarations, Declared, BlockTail, EndBlock, EndProgram, Assign, AssignBecomes, Store,
     Named, CallIdent, ReadIdent, WriteIdent, Begin, ListStatement, End, If, Body, Else, EndIf,
     While, EndWhile, Empty, EndEmpty, Starts, Condition, Odd, Relation, Compare, Expression,
     Operator, Operate, EndList, Term, FirstFactor, Factor, FactorIdent, FactorNumber,
     FactorOpen, FactorClose, EndFactor, FactorNone, At, Skip, EndTest, Fail, Parsing
  <2>2. Kept /\ Clean BY <2>1 DEF Inv, CleanInv
  <2>3. ~Const /\ ~Var /\ ~Procedure BY <2>2, ListsLinked
  <2>4. ~Store BY <2>2, SymbolStored
  <2>5. CASE VarName
    <3>1. ~(globalLevel < MaxLexi) BY <2>1, <2>5 DEF VarName, Declares
    <3>2. globalLevel' = globalLevel BY <2>5, <3>1 DEF VarName, D!LevelTooDeep
    <3> QED BY <3>1, <3>2, TokensAssumption DEF Sane
  <2>6. CASE Blocks /\ ~VarName
    BY <2>1, <2>3, <2>6 DEF Blocks, ConstName, ConstEq, ConstVal, EndSection, ProcName, ProcBody,
       ProcEnd, ProcTest, ProcSpace, EndDeclarations, Declared, BlockTail, EndBlock, EndProgram,
       Declares, Silent, Test, Reports
  <2>7. CASE Statements
    BY <2>1, <2>4, <2>7 DEF Statements, Assign, AssignBecomes, Named, CallIdent, ReadIdent,
       WriteIdent, Begin, ListStatement, End, If, Body, Else, EndIf, While, EndWhile, Empty,
       EndEmpty, Silent, Reports, Emits, Rewrites, Test
  <2>8. CASE Expressions
    BY <2>1, <2>8 DEF Expressions, Condition, Odd, Relation, Compare, Expression, Operator,
       Operate, EndList, Term, FirstFactor, Factor, FactorIdent, FactorNumber, FactorOpen,
       FactorClose, EndFactor, FactorNone, Operand, Silent, Reports, Emits, Rewrites, Test
  <2>9. CASE Skip \/ EndTest \/ Fail
    BY <2>1, <2>9 DEF Skip, EndTest, Fail, Silent
  <2> QED BY <1>2, <2>5, <2>6, <2>7, <2>8, <2>9 DEF Next
<1> QED BY <1>1, <1>2

CrashInv == Inv /\ Sane /\ CleanInv /\ CrashesReported

\* Whatever the token file, parse.c follows a null pointer only after it has
\* reported an error: in a program without errors the lists of a block are
\* begun once each, an assignment has its symbol, and the parser comes down on
\* a level offsetArray has no entry for and on nothing else.
THEOREM ParserCrashesReported == Spec => []CrashesReported
<1> USE DEF CrashInv
<1>1. Init => CrashInv
  <2>1. Init => CrashesReported BY DEF Init, InitOn, CrashesReported
  <2> QED BY <2>1, InitKept, InitSane, InitClean
<1>2. CrashInv /\ [Next]_vars => CrashInv'
  <2> SUFFICES ASSUME CrashInv, [Next]_vars
               PROVE  CrashInv'
    OBVIOUS
  <2>1. Inv' BY NextKept
  <2>2. Sane' /\ (errors' = << >> => errors = << >>) BY SaneNext
  <2>3. CleanInv' BY <2>1, <2>2, NextClean
  <2>4. CrashesReported' BY <2>2, NextReported
  <2> QED BY <2>1, <2>2, <2>3, <2>4
<1>3. CrashInv => CrashesReported OBVIOUS
<1> HIDE DEF CrashInv
<1> QED BY <1>1, <1>2, <1>3, PTL DEF Spec

-----------------------------------------------------------------------------
(* Types: the calls and the tree.                                          *)

\* Every call is one of a function of the parser.  Over programParse there is
\* one of blockParse until it returns its node.
RootInv ==
  /\ \A i \in 1 .. Len(acts) : acts[i].fn \in Functions
  /\ acts # << >> => IF Len(acts) = 1 THEN Last(acts[1].kids).tag = "block"
                     ELSE acts[1].kids = << >> /\ acts[2].fn = "block"

\* What a step may do to the calls.
StackStep ==
  \/ acts' \in {acts, << >>}
  \/ /\ Top.fn # "program"
     /\ \/ \E a, at : MovesOn(Top, at, a) /\ acts' = Becomes(a)
        \/ \E a, at, fsys : \E fn \in Functions :
             Act(a) /\ a.fn = Top.fn /\ acts' = Calls(a, at, fn, fsys)
        \/ Expression
        \/ \E node : acts' = Returns(node) /\ (Top.fn = "block" => node.tag = "block")
        \/ acts' = Front(acts) /\ Top.fn = "test"

LEMMA RootStays ==
  ASSUME ActsInv, RootInv, Top.fn # "program", Len(acts') \in Nat \ {0, 1},
         acts'[1] = acts[1], acts'[2].fn = acts[2].fn,
         \A i \in 1 .. Len(acts') : acts'[i].fn \in Functions
  PROVE  RootInv'
<1>1. Len(acts) \in Nat \ {0, 1} /\ acts # << >> BY TopIs DEF ActsInv
<1>2. acts[1].kids = << >> /\ acts[2].fn = "block" BY <1>1 DEF RootInv
<1> QED BY <1>2 DEF RootInv

\* The innermost call goes on, or calls another function.
LEMMA RootBelow ==
  ASSUME ActsInv, RootInv, Top.fn # "program", NEW b, b.fn = Top.fn, NEW new,
         new.fn \in Functions, acts'[Len(acts)] = b,
         Len(acts') = Len(acts) \/ (Len(acts') = Len(acts) + 1 /\ acts'[Len(acts) + 1] = new),
         \A i \in 1 .. Len(acts) - 1 : acts'[i] = acts[i]
  PROVE  RootInv'
<1>1. PICK n : n = Len(acts) OBVIOUS
<1>2. n \in Nat \ {0, 1} /\ Top = acts[n] /\ 1 \in 1 .. n - 1 BY <1>1, TopIs DEF ActsInv
<1>3. \A i \in 1 .. n : i = n \/ i \in 1 .. n - 1 BY <1>2
<1>4. \A i \in 1 .. n : acts'[i].fn = acts[i].fn BY <1>1, <1>2, <1>3
<1>5. 2 \in 1 .. n /\ \A i \in 1 .. n + 1 : i \in 1 .. n \/ i = n + 1 BY <1>2
<1>6. \A i \in 1 .. Len(acts') : acts'[i].fn \in Functions
  BY <1>1, <1>4, <1>5 DEF RootInv
<1>7. Len(acts') \in Nat \ {0, 1} BY <1>1, <1>2
<1> QED BY <1>1, <1>2, <1>4, <1>5, <1>6, <1>7, RootStays

LEMMA RootExpression ==
  ASSUME ActsInv, RootInv, Expression
  PROVE  RootInv'
<1>1. PICK sign : acts' = [Calls([Top EXCEPT !.ops = <<sign>>], "more", "term", FactorSet)
                             EXCEPT ![Len(Calls([Top EXCEPT !.ops = <<sign>>], "more", "term",
                                                FactorSet))].ident = sign]
  BY DEF Expression, Reads, Stays
<1>2. PICK n : n = Len(acts) OBVIOUS
<1>3. PICK a : a = [Top EXCEPT !.ops = <<sign>>] OBVIOUS
<1>4. PICK b : b = Placed(a, "more") OBVIOUS
<1>5. PICK term : term = Activation("term", FactorSet) OBVIOUS
<1>6. PICK new : new = Calls(a, "more", "term", FactorSet) OBVIOUS
<1>7. PICK signed : signed = [term EXCEPT !.ident = sign] OBVIOUS
<1>8. Top.fn = "expression" /\ Act(Top) /\ n \in Nat \ {0} BY <1>2, TopIs DEF Expression, At, Waits
<1>9. Act(a) /\ a.fn = Top.fn BY <1>3, <1>8, OpsChanged
<1>10. b.fn = Top.fn BY <1>4, <1>9, AtChanged DEF Placed
<1>11. Act(term) /\ term.fn = "term" BY <1>5, ActNew
<1>12. Alike(term, signed) BY <1>7, <1>11, ActChanged
<1>13. signed.fn = "term" BY <1>11, <1>12 DEF Alike
<1>14. /\ IsSequence(new) /\ Len(new) = n + 1 /\ new[n] = b /\ new[n + 1] = term
       /\ \A i \in 1 .. n - 1 : new[i] = acts[i]
  BY <1>2, <1>4, <1>5, <1>6, CallsIs
<1>15. acts' = [new EXCEPT ![n + 1] = signed]
  <2>1. acts' = [new EXCEPT ![n + 1].ident = sign] BY <1>1, <1>3, <1>6, <1>14
  <2> QED BY <1>7, <1>14, <2>1
<1>16. new \in Seq(Elements(new)) BY <1>14 DEF IsSequence
<1>17. Len(acts') = n + 1 /\ acts'[n + 1] = signed /\ \A i \in 1 .. n : acts'[i] = new[i]
  BY <1>8, <1>14, <1>15, <1>16
<1>18. acts'[n] = b /\ \A i \in 1 .. n - 1 : acts'[i] = acts[i] BY <1>8, <1>14, <1>17
<1>19. signed.fn \in Functions BY <1>13 DEF Functions
<1> QED BY <1>2, <1>8, <1>10, <1>17, <1>18, <1>19, RootBelow

\* The innermost call is over.
LEMMA RootAbove ==
  ASSUME ActsInv, RootInv, Top.fn # "program", Len(acts) # 2, Len(acts') = Len(acts) - 1,
         acts'[Len(acts) - 1].fn = acts[Len(acts) - 1].fn,
         \A i \in 1 .. Len(acts) - 2 : acts'[i] = acts[i]
  PROVE  RootInv'
<1>1. PICK n : n = Len(acts) OBVIOUS
<1>2. n \in Nat \ {0, 1, 2} /\ 1 \in 1 .. n - 2 /\ 2 \in 1 .. n - 1 BY <1>1, TopIs DEF ActsInv
<1>3. \A i \in 1 .. n - 1 : i \in 1 .. n /\ (i = n - 1 \/ i \in 1 .. n - 2) BY <1>2
<1>4. \A i \in 1 .. n - 1 : acts'[i].fn = acts[i].fn BY <1>1, <1>3
<1>5. \A i \in 1 .. Len(acts') : acts'[i].fn \in Functions BY <1>1, <1>3, <1>4 DEF RootInv
<1>6. Len(acts') \in Nat \ {0, 1} BY <1>1, <1>2
<1> QED BY <1>1, <1>2, <1>4, <1>5, <1>6, RootStays

LEMMA RootReturn ==
  ASSUME ActsInv, RootInv, Top.fn # "program", NEW node, acts' = Returns(node),
         Top.fn = "block" => node.tag = "block"
  PROVE  RootInv'
<1>1. /\ IsSequence(acts') /\ Len(acts') = Len(acts) - 1
      /\ acts'[Len(acts) - 1].fn = acts[Len(acts) - 1].fn
      /\ acts'[Len(acts) - 1].kids = Append(acts[Len(acts) - 1].kids, node)
      /\ \A i \in 1 .. Len(acts) - 2 : acts'[i] = acts[i]
  BY ReturnsIs
<1>2. CASE Len(acts) # 2 BY <1>1, <1>2, RootAbove
<1>3. CASE Len(acts) = 2
  <2>1. Len(acts') = 1 /\ acts'[1].fn = acts[1].fn /\ acts'[1].kids = Append(acts[1].kids, node)
    BY <1>1, <1>3
  <2>2. acts # << >> /\ Top = acts[2] /\ 1 \in 1 .. Len(acts) BY <1>3, TopIs
  <2>3. acts[1].kids = << >> /\ acts[2].fn = "block" /\ acts[1].fn \in Functions
    BY <1>3, <2>2 DEF RootInv
  <2>4. acts'[1].kids = <<node>> BY <2>1, <2>3
  <2>5. Last(<<node>>) = node BY DEF Last
  <2>6. \A i \in 1 .. 1 : i = 1 OBVIOUS
  <2> QED BY <2>1, <2>2, <2>3, <2>4, <2>5, <2>6 DEF RootInv
<1> QED BY <1>2, <1>3

LEMMA RootStep ==
  ASSUME ActsInv, RootInv, StackStep
  PROVE  RootInv'
<1>1. CASE acts' = acts BY <1>1 DEF RootInv
<1>2. CASE acts' = << >>
  <2>1. \A i \in 1 .. Len(<< >>) : FALSE OBVIOUS
  <2> QED BY <1>2, <2>1 DEF RootInv
<1>3. ASSUME NEW a, NEW at, Top.fn # "program", MovesOn(Top, at, a), acts' = Becomes(a)
      PROVE  RootInv'
  <2>1. /\ Len(acts') = Len(acts) /\ acts'[Len(acts)] = a
        /\ \A i \in 1 .. Len(acts) - 1 : acts'[i] = acts[i]
    BY <1>3, BecomesIs
  <2>2. PICK new : new = Activation("test", phi) OBVIOUS
  <2>3. new.fn \in Functions BY <2>2, ActNew DEF Functions
  <2>4. a.fn = Top.fn BY <1>3 DEF MovesOn
  <2> QED BY <1>3, <2>1, <2>3, <2>4, RootBelow
<1>4. ASSUME NEW a, NEW at, NEW fn \in Functions, NEW fsys, Top.fn # "program", Act(a),
             a.fn = Top.fn, acts' = Calls(a, at, fn, fsys)
      PROVE  RootInv'
  <2>1. PICK b : b = Placed(a, at) OBVIOUS
  <2>2. PICK new : new = Activation(fn, fsys) OBVIOUS
  <2>3. /\ Len(acts') = Len(acts) + 1 /\ acts'[Len(acts)] = b /\ acts'[Len(acts) + 1] = new
        /\ \A i \in 1 .. Len(acts) - 1 : acts'[i] = acts[i]
    BY <1>4, <2>1, <2>2, CallsIs
  <2>4. b.fn = Top.fn /\ new.fn \in Functions BY <1>4, <2>1, <2>2, AtChanged, ActNew DEF Placed
  <2> QED BY <1>4, <2>3, <2>4, RootBelow
<1>5. CASE Top.fn # "program" /\ acts' = Front(acts) /\ Top.fn = "test"
  <2>1. Len(acts') = Len(acts) - 1 /\ \A i \in 1 .. Len(acts) - 1 : acts'[i] = acts[i]
    BY <1>5, Shrinks DEF ActsInv
  <2>2. /\ Len(acts) - 1 \in 1 .. Len(acts) - 1 /\ Top = acts[Len(acts)] /\ acts # << >>
        /\ \A i \in 1 .. Len(acts) - 2 : i \in 1 .. Len(acts) - 1
    BY <1>5, TopIs DEF ActsInv
  <2>3. Len(acts) # 2 BY <1>5, <2>2 DEF RootInv
  <2> QED BY <1>5, <2>1, <2>2, <2>3, RootAbove
<1> QED
  BY <1>1, <1>2, <1>3, <1>4, <1>5, RootExpression, RootReturn DEF StackStep

LEMMA BlocksShape ==
  ASSUME ActsInv, Blocks
  PROVE  StackStep
<1>a. Act(Top) BY TopIs
<1>b. EndProgram \/ Top.fn = "block"
  BY DEF Blocks, Const, ConstName, ConstEq, ConstVal, Var, VarName, EndSection, Procedure,
         ProcName, ProcBody, ProcEnd, ProcTest, ProcSpace, EndDeclarations, Declared,
         BlockTail, EndBlock, At, Waits
<1>c. "block" \in Functions /\ "test" \in Functions /\ "statement" \in Functions BY DEF Functions
<1>d. \A at : MovesOn(Top, at, [Top EXCEPT !.at = at]) BY <1>a, ActMoved
<1>1. CASE EndProgram BY <1>1 DEF EndProgram, StackStep
<1>2. CASE Const \/ Var \/ Procedure
  <2>1. Top.fn = "block"
    BY <1>2 DEF Const, Var, Procedure, At, Waits
  <2>2. acts' = acts \/ \E at : acts' = Becomes([Top EXCEPT !.at = at])
    BY <1>2 DEF Const, Var, Procedure, Declaration, Reads, Goto
  <2> QED BY <1>d, <2>1, <2>2 DEF StackStep
<1>3. CASE VarName /\ ~(globalLevel < MaxLexi) BY <1>3 DEF VarName, StackStep
<1>4. CASE \/ ConstName \/ ConstEq \/ ConstVal \/ EndSection \/ ProcName \/ ProcEnd
           \/ ProcSpace \/ (VarName /\ globalLevel < MaxLexi)
  <2>1. Top.fn = "block"
    BY <1>4 DEF ConstName, ConstEq, ConstVal, EndSection, ProcName, ProcEnd, ProcSpace,
                VarName, At, Waits
  <2>2. \E at, v : \E a \in {[Top EXCEPT !.at = at], Renamed(Top, at, v),
                              Gathered(Top, at, v)} : acts' = Becomes(a)
    <3>1. CASE ConstName BY <3>1 DEF ConstName, Reads, Renamed
    <3>2. CASE ConstEq BY <3>2 DEF ConstEq, Reads, Goto
    <3>3. CASE ConstVal BY <3>3 DEF ConstVal, Reads, Gathered
    <3>4. CASE EndSection BY <3>4 DEF EndSection, Reads, Goto
    <3>5. CASE ProcName BY <3>5 DEF ProcName, Reads, Renamed
    <3>6. CASE ProcEnd BY <3>6 DEF ProcEnd, Reads, Gathered
    <3>7. CASE ProcSpace BY <3>7 DEF ProcSpace, Stays, Goto
    <3>8. CASE VarName /\ globalLevel < MaxLexi BY <3>8 DEF VarName, Reads, Gathered
    <3> QED BY <1>4, <3>1, <3>2, <3>3, <3>4, <3>5, <3>6, <3>7, <3>8
  <2>3. PICK at, a : MovesOn(Top, at, a) /\ acts' = Becomes(a) BY <1>a, <2>2, ActMoved
  <2> QED BY <2>1, <2>3 DEF StackStep
<1>5. CASE ProcBody
  <2>1. Top.fn = "block" /\ \E fsys : acts' = Calls(Top, "procEnd", "block", fsys)
    BY <1>5 DEF ProcBody, Reads, At, Waits
  <2> QED BY <1>a, <1>c, <2>1 DEF StackStep
<1>6. CASE ProcTest \/ BlockTail \/ EndDeclarations
  <2>1. /\ Top.fn = "block"
        /\ \E at : \/ acts' = Becomes([Top EXCEPT !.at = at])
                   \/ \E fsys : acts' = Calls(Top, at, "test", fsys)
    BY <1>6 DEF ProcTest, BlockTail, EndDeclarations, At, Waits, Test, Stays, Goto
  <2> QED BY <1>a, <1>c, <1>d, <2>1 DEF StackStep
<1>7. CASE Declared
  <2>1. /\ Top.fn = "block"
        /\ \/ acts' = Becomes([Top EXCEPT !.at = "start"])
           \/ \E fsys : acts' = Calls(Top, "tail", "statement", fsys)
    BY <1>7 DEF Declared, Stays, Goto, At, Waits
  <2> QED BY <1>a, <1>c, <1>d, <2>1 DEF StackStep
<1>8. CASE EndBlock
  <2>1. acts' = Returns(BlockNode) /\ Top.fn = "block"
    BY <1>8 DEF EndBlock, Stays, At, Waits
  <2>2. BlockNode.tag = "block" BY DEF BlockNode
  <2> QED BY <2>1, <2>2 DEF StackStep
<1> QED BY <1>1, <1>2, <1>3, <1>4, <1>5, <1>6, <1>7, <1>8 DEF Blocks

LEMMA StatementsShape ==
  ASSUME ActsInv, Statements
  PROVE  StackStep
<1>a. Top.fn = "statement"
  BY DEF Statements, Assign, AssignBecomes, Store, Named, CallIdent, ReadIdent, WriteIdent,
         Begin, ListStatement, End, If, Body, Else, EndIf, While, EndWhile, Empty, EndEmpty,
         Starts, At, Waits
<1>b. Act(Top) BY TopIs
<1>c. /\ "statement" \in Functions /\ "condition" \in Functions /\ "test" \in Functions
      /\ "expression" \in Functions
  BY DEF Functions
<1>d. \A at : MovesOn(Top, at, [Top EXCEPT !.at = at]) BY <1>b, ActMoved
<1>1. CASE Assign
  <2>1. acts' = Becomes(Naming(Top, "becomes", cur.val, sym)) BY <1>1 DEF Assign, Reads, Naming
  <2>2. MovesOn(Top, "becomes", Naming(Top, "becomes", cur.val, sym)) BY <1>b, ActNamed
  <2> QED BY <1>a, <2>1, <2>2 DEF StackStep
<1>2. CASE \E place, type : Named(type, place)
  <2>1. PICK place : acts' = Becomes([Top EXCEPT !.at = place]) BY <1>2 DEF Named, Reads, Goto
  <2> QED BY <1>a, <1>d, <2>1 DEF StackStep
<1>3. CASE AssignBecomes \/ Begin \/ ListStatement \/ If
  <2>1. \E at, fsys : \E fn \in {"expression", "statement", "condition"} :
          acts' = Calls(Top, at, fn, fsys)
    BY <1>3 DEF AssignBecomes, Begin, ListStatement, If, Reads, Stays
  <2> QED BY <1>a, <1>b, <1>c, <2>1 DEF StackStep
<1>4. CASE While \/ Body("then", "else") \/ Body("do", "loop")
  <2>1. \E at, fsys, v : \E fn \in {"statement", "condition"} :
          \/ acts' = Calls([Top EXCEPT !.c = v], at, fn, fsys)
          \/ acts' = Calls([Top EXCEPT !.j1 = v], at, fn, fsys)
    BY <1>4 DEF While, Body, Reads
  <2>2. \E a, at, fsys : \E fn \in {"statement", "condition"} :
          Alike(Top, a) /\ acts' = Calls(a, at, fn, fsys)
    BY <1>b, <2>1, ActChanged
  <2> QED BY <1>a, <1>c, <2>2 DEF StackStep, Alike
<1>5. CASE Else
  <2>1. PICK a : a = Jumped(Top, Here, "endif") OBVIOUS
  <2>2. MovesOn(Top, "endif", a) BY <1>b, <2>1, ActMoved
  <2>3. acts' = Calls(a, "endif", "statement", Top.fsys) \/ acts' = Becomes(a)
    BY <1>5, <2>1 DEF Else, Reads, Stays, Jumped
  <2> QED BY <1>a, <1>c, <2>2, <2>3 DEF StackStep, MovesOn
<1>6. CASE \/ CallIdent \/ ReadIdent \/ WriteIdent \/ End \/ EndIf \/ EndWhile \/ EndEmpty
           \/ Store
  <2>1. acts' = acts \/ \E node : acts' = Returns(node)
    BY <1>6 DEF CallIdent, ReadIdent, WriteIdent, End, EndIf, EndWhile, EndEmpty, Store,
                Reads, Stays
  <2> QED BY <1>a, <2>1 DEF StackStep
<1>7. CASE Empty
  <2>1. \E at : \/ acts' = Becomes([Top EXCEPT !.at = at])
                \/ \E fsys : acts' = Calls(Top, at, "test", fsys)
    BY <1>7 DEF Empty, Test, Stays, Goto
  <2> QED BY <1>a, <1>b, <1>c, <1>d, <2>1 DEF StackStep
<1> QED BY <1>1, <1>2, <1>3, <1>4, <1>5, <1>6, <1>7 DEF Statements

LEMMA ExpressionsShape ==
  ASSUME ActsInv, Expressions
  PROVE  StackStep
<1>a. Top.fn \in Valued
  BY DEF Expressions, Condition, Odd, Relation, Compare, Expression, Operator, Operate,
         EndList, Term, FirstFactor, Factor, FactorIdent, FactorNumber, FactorOpen,
         FactorClose, EndFactor, FactorNone, At, Waits, Valued
<1>b. Top.fn # "program" /\ Top.fn # "block" /\ Act(Top) BY <1>a, TopIs DEF Valued
<1>c. /\ "test" \in Functions /\ "expression" \in Functions /\ "term" \in Functions
      /\ "factor" \in Functions
  BY DEF Functions
<1>d. \A at : MovesOn(Top, at, [Top EXCEPT !.at = at]) BY <1>b, ActMoved
<1>1. CASE Condition \/ FactorOpen
  <2>1. \E at, fsys : acts' = Calls(Top, at, "expression", fsys)
    BY <1>1 DEF Condition, FactorOpen, Reads, Stays
  <2> QED BY <1>b, <1>c, <2>1 DEF StackStep
<1>2. CASE \/ Relation \/ Term \/ Operator("expression", "term", SignTypes)
           \/ Operator("term", "factor", FactorTypes)
  <2>1. \E at, ops, fsys : \E fn \in {"expression", "term", "factor"} :
          acts' = Calls([Top EXCEPT !.ops = ops], at, fn, fsys)
    BY <1>2 DEF Relation, Term, Operator, Reads, Stays
  <2>2. \E a, at, fsys : \E fn \in {"expression", "term", "factor"} :
          Alike(Top, a) /\ acts' = Calls(a, at, fn, fsys)
    BY <1>b, <2>1, ActChanged
  <2> QED BY <1>b, <1>c, <2>2 DEF StackStep, Alike
<1>3. CASE Expression BY <1>b, <1>3 DEF StackStep
<1>4. CASE \/ FirstFactor \/ Operate("expression") \/ Operate("term")
           \/ (FactorClose /\ Is("rparentsym"))
  <2>1. \E at : acts' = Becomes([Top EXCEPT !.at = at])
    BY <1>4 DEF FirstFactor, Operate, FactorClose, Reads, Stays, Goto
  <2> QED BY <1>b, <1>d, <2>1 DEF StackStep
<1>5. CASE \/ Odd \/ Compare \/ EndList("expression", SignTypes) \/ EndList("term", FactorTypes)
           \/ FactorIdent \/ FactorNumber \/ EndFactor
  <2>1. \E node : acts' = Returns(node)
    BY <1>5 DEF Odd, Compare, EndList, FactorIdent, FactorNumber, EndFactor, Operand, Reads,
                Stays
  <2> QED BY <1>b, <2>1 DEF StackStep
<1>6. CASE Factor \/ FactorNone \/ (FactorClose /\ ~Is("rparentsym"))
  <2>1. \E at : \/ acts' = Becomes([Top EXCEPT !.at = at])
                \/ \E fsys : acts' = Calls(Top, at, "test", fsys)
    BY <1>6 DEF Factor, FactorNone, FactorClose, Test, Stays, Goto
  <2> QED BY <1>b, <1>c, <1>d, <2>1 DEF StackStep
<1> QED BY <1>1, <1>2, <1>3, <1>4, <1>5, <1>6 DEF Expressions

\* Only the end of programParse makes the tree.
TreeInv == IF step = "link" THEN tree.tag = "block" ELSE tree = Null

LEMMA OthersMakeNone ==
  ASSUME Next, step = "parse", ~EndProgram
  PROVE  tree' = tree /\ step' \in {"parse", "crashed", "failed"}
<1>1. CASE Blocks
  BY <1>1 DEF Blocks, Const, ConstName, ConstEq, ConstVal, Var, VarName, EndSection, Procedure,
     ProcName, ProcBody, ProcEnd, ProcTest, ProcSpace, EndDeclarations, Declared, BlockTail,
     EndBlock, Declaration, Declares, Silent, Test, Reports
<1>2. CASE Statements
  BY <1>2 DEF Statements, Assign, AssignBecomes, Store, Named, CallIdent, ReadIdent,
     WriteIdent, Begin, ListStatement, End, If, Body, Else, EndIf, While, EndWhile, Empty,
     EndEmpty, Silent, Reports, Emits, Rewrites, Test
<1>3. CASE Expressions
  BY <1>3 DEF Expressions, Condition, Odd, Relation, Compare, Expression, Operator,
     Operate, EndList, Term, FirstFactor, Factor, FactorIdent, FactorNumber, FactorOpen,
     FactorClose, EndFactor, FactorNone, Operand, Silent, Reports, Emits, Rewrites, Test
<1>4. CASE Skip \/ EndTest \/ Fail BY <1>4 DEF Skip, EndTest, Fail, Silent
<1> QED BY <1>1, <1>2, <1>3, <1>4 DEF Next

LEMMA RootNext ==
  ASSUME Inv, RootInv, TreeInv, step = "parse", Next
  PROVE  RootInv' /\ TreeInv'
<1>1. ActsInv BY DEF Inv, Kept
<1>2. StackStep
  <2>1. CASE Skip \/ Fail BY <2>1 DEF Skip, Fail, Reads, StackStep
  <2>2. CASE EndTest
    <3>1. acts' = Front(acts) /\ Top.fn = "test" BY <2>2 DEF EndTest, Parsing, Stays
    <3> QED BY <3>1 DEF StackStep
  <2> QED BY <1>1, <2>1, <2>2, BlocksShape, StatementsShape, ExpressionsShape DEF Next
<1>3. CASE EndProgram
  <2>1. tree' = Last(Top.kids) /\ step' = "link" /\ Top.fn = "program"
    BY <1>3 DEF EndProgram, At, Waits
  <2>2. Len(acts) \in 1 .. Len(acts) /\ Top = acts[Len(acts)] BY <1>1, TopIs
  <2>3. Len(acts) = 1 /\ acts # << >> BY <1>1, <2>1, <2>2 DEF ActsInv
  <2>4. tree'.tag = "block" BY <2>1, <2>2, <2>3 DEF RootInv
  <2> QED BY <1>1, <1>2, <2>1, <2>4, RootStep DEF TreeInv
<1>4. CASE ~EndProgram
  <2>1. tree' = tree /\ step' # "link" BY <1>4, OthersMakeNone
  <2> QED BY <1>1, <1>2, <2>1, RootStep DEF TreeInv
<1> QED BY <1>3, <1>4

-----------------------------------------------------------------------------
(* Types: the code.                                                        *)

\* An instruction for the machine.
Instruction(x) == \E op, l, m : \E r \in Nat : x = I(op, r, l, m)
Instructions(code) == IsSequence(code) /\ \A i \in 1 .. Len(code) : Instruction(code[i])

CodeInv == /\ generatedCode = [s \in D!Sets |-> generatedCode[s]]
           /\ \A s \in D!Sets : Instructions(generatedCode[s])

LEMMA Patched ==
  ASSUME NEW code, Instructions(code), NEW index, NEW m
  PROVE  Instructions(C!changeM(code, index, m))
<1>1. CASE index \notin 0 .. Len(code) - 1 BY <1>1 DEF C!changeM
<1>2. CASE index \in 0 .. Len(code) - 1
  <2>1. code \in Seq(Elements(code)) BY DEF Instructions, IsSequence
  <2>2. Len(code) \in Nat BY <2>1
  <2>3. PICK k \in 1 .. Len(code) : k = index + 1 BY <1>2, <2>2
  <2>4. PICK op, l, v : \E r \in Nat : code[k] = I(op, r, l, v)
    BY <2>3 DEF Instructions, Instruction
  <2>5. PICK r \in Nat : code[k] = I(op, r, l, v) BY <2>4
  <2>6. PICK x : x = I(op, r, l, m) OBVIOUS
  <2>7. [code[k] EXCEPT !.m = m] = x BY <2>5, <2>6 DEF I, C!newInstruction
  <2>8. PICK new : new = [code EXCEPT ![k] = x] OBVIOUS
  <2>9. C!changeM(code, index, m) = new
    <3>1. C!changeM(code, index, m) = [code EXCEPT ![k].m = m] BY <1>2, <2>3 DEF C!changeM
    <3>2. [code EXCEPT ![k].m = m] = [code EXCEPT ![k] = [code[k] EXCEPT !.m = m]] OBVIOUS
    <3> QED BY <2>7, <2>8, <3>1, <3>2
  <2>10. PICK S : S = Elements(code) \cup {x} OBVIOUS
  <2>11. code \in Seq(S) /\ x \in S BY <2>1, <2>10
  <2>12. new \in Seq(S) /\ Len(new) = Len(code) BY <2>3, <2>8, <2>11
  <2>13. \A i \in 1 .. Len(code) : new[i] = IF i = k THEN x ELSE code[i]
    BY <2>3, <2>8, <2>11
  <2>14. Instruction(x) BY <2>6 DEF Instruction
  <2>15. \A i \in 1 .. Len(new) : Instruction(new[i])
    BY <2>12, <2>13, <2>14 DEF Instructions
  <2>16. new \in Seq(Elements(new)) BY <2>12 DEF Elements
  <2> QED BY <2>9, <2>15, <2>16 DEF Instructions, IsSequence
<1> QED BY <1>1, <1>2

LEMMA Joined ==
  ASSUME NEW s, Instructions(s), NEW t, Instructions(t)
  PROVE  Instructions(s \o t)
<1>1. PICK S : S = Elements(s) \cup Elements(t) OBVIOUS
<1>2. s \in Seq(S) /\ t \in Seq(S)
  <2>1. s \in Seq(Elements(s)) /\ t \in Seq(Elements(t)) BY DEF Instructions, IsSequence
  <2> QED BY <1>1, <2>1
<1>3. PICK u : u = s \o t OBVIOUS
<1>4. u \in Seq(S) /\ Len(u) = Len(s) + Len(t) /\ Len(s) \in Nat /\ Len(t) \in Nat
  BY <1>2, <1>3
<1>5. /\ \A i \in 1 .. Len(s) : u[i] = s[i]
      /\ \A i \in 1 .. Len(u) : i \in 1 .. Len(s) \/ (i - Len(s) \in 1 .. Len(t) /\ u[i] = t[i - Len(s)])
  BY <1>2, <1>3, <1>4
<1>6. \A i \in 1 .. Len(u) : Instruction(u[i]) BY <1>4, <1>5 DEF Instructions
<1>7. u \in Seq(Elements(u)) BY <1>4 DEF Elements
<1> QED BY <1>3, <1>6, <1>7 DEF Instructions, IsSequence

LEMMA Extended ==
  ASSUME NEW s, Instructions(s), NEW x, Instruction(x)
  PROVE  Instructions(Append(s, x))
<1>1. IsSequence(s) BY DEF Instructions
<1>2. PICK t : t = Append(s, x) OBVIOUS
<1>3. /\ IsSequence(t) /\ Len(t) = Len(s) + 1 /\ Len(s) \in Nat /\ t[Len(s) + 1] = x
      /\ \A i \in 1 .. Len(s) : t[i] = s[i]
  BY <1>1, <1>2, Grows
<1>4. \A i \in 1 .. Len(t) : i \in 1 .. Len(s) \/ i = Len(s) + 1 BY <1>3
<1> QED BY <1>2, <1>3, <1>4 DEF Instructions

LEMMA Few ==
  /\ Instructions(<< >>)
  /\ \A x : Instruction(x) => Instructions(<<x>>)
  /\ \A x, y : Instruction(x) /\ Instruction(y) => Instructions(<<x, y>>)
<1>1. Instructions(<< >>)
  <2>1. << >> \in Seq(Elements(<< >>)) /\ \A i \in 1 .. Len(<< >>) : FALSE OBVIOUS
  <2> QED BY <2>1 DEF Instructions, IsSequence
<1>2. ASSUME NEW x, Instruction(x) PROVE Instructions(<<x>>)
  <2>1. <<x>> = Append(<< >>, x) OBVIOUS
  <2> QED BY <1>1, <1>2, <2>1, Extended
<1>3. ASSUME NEW x, NEW y, Instruction(x), Instruction(y) PROVE Instructions(<<x, y>>)
  <2>1. <<x, y>> = Append(<<x>>, y) OBVIOUS
  <2> QED BY <1>2, <1>3, <2>1, Extended
<1> QED BY <1>1, <1>2, <1>3

\* The current set gets new code.
LEMMA CodeSet ==
  ASSUME CodeInv, NEW code, C!SetCode(currentProcedure, code),
         currentProcedure \in D!Sets => Instructions(code)
  PROVE  CodeInv'
<1>1. CASE UNCHANGED generatedCode BY <1>1 DEF CodeInv
<1>2. CASE generatedCode' = [generatedCode EXCEPT ![currentProcedure] = code]
  <2>1. generatedCode' = [s \in D!Sets |-> IF s = currentProcedure THEN code ELSE generatedCode[s]]
    BY <1>2 DEF CodeInv
  <2>2. \A s \in D!Sets : Instructions(generatedCode'[s]) BY <2>1 DEF CodeInv
  <2>3. generatedCode' = [s \in D!Sets |-> generatedCode'[s]] BY <2>1
  <2> QED BY <2>2, <2>3 DEF CodeInv
<1> QED BY <1>1, <1>2 DEF C!SetCode

LEMMA CodeIs ==
  ASSUME CodeInv, currentProcedure \in D!Sets
  PROVE  Instructions(Code)
<1>1. currentProcedure # -1 BY DEF D!Sets
<1>2. Code = generatedCode[currentProcedure] BY <1>1 DEF Code, C!Code, C!FINAL_CODE
<1> QED BY <1>2 DEF CodeInv

LEMMA CodeEmits ==
  ASSUME CodeInv, NEW code, Instructions(code), NEW r, Emits(code, r)
  PROVE  CodeInv'
<1>1. C!SetCode(currentProcedure, Code \o code) BY DEF Emits, Rewrites
<1>2. currentProcedure \in D!Sets => Instructions(Code \o code) BY CodeIs, Joined
<1> QED BY <1>1, <1>2, CodeSet

\* A jump is appended, and another one patched.
LEMMA CodePatches ==
  ASSUME CodeInv, NEW x, Instruction(x), NEW index, NEW m,
         C!SetCode(currentProcedure, C!changeM(C!Append1(x), index, m))
  PROVE  CodeInv'
<1>1. currentProcedure \in D!Sets => Instructions(C!Append1(x))
  BY CodeIs, Extended DEF Code, C!Append1
<1>2. currentProcedure \in D!Sets => Instructions(C!changeM(C!Append1(x), index, m))
  BY <1>1, Patched
<1> QED BY <1>2, CodeSet

\* The registers of the operands.
LEMMA Numbered ==
  ASSUME Kept, step = "parse"
  PROVE  /\ register_ptr \in Nat /\ register_ptr - Weight(Top) \in Nat
         /\ Weight(Top) \in Nat
         /\ \A op, l, m : \A r \in Nat : Instruction(I(op, r, l, m))
<1>1. /\ register_ptr = Below + Holds(Top) + Completed(Top) /\ Below \in Nat
      /\ Holds(Top) \in {0, 1} /\ Completed(Top) \in {0, 1}
  BY RegistersAre DEF Kept
<1>2. Weight(Top) = Holds(Top) + Completed(Top) BY DEF Weight
<1>3. \A op, l, m : \A r \in Nat : Instruction(I(op, r, l, m)) BY DEF Instruction
<1> QED BY <1>1, <1>2, <1>3

LEMMA BlocksCode ==
  ASSUME Kept, step = "parse", CodeInv, Blocks
  PROVE  CodeInv'
<1>1. CASE ProcSpace \/ EndProgram
  <2>1. PICK inc : inc = I("INC", 0, 0, D!Top.vars + 4) OBVIOUS
  <2>2. PICK halt : halt = I("SIO", 0, 0, 3) OBVIOUS
  <2>3. Instruction(inc) /\ Instruction(halt) BY <2>1, <2>2, Numbered
  <2>4. currentProcedure \in D!Sets => Instructions(Space)
    BY <2>1, <2>3, CodeIs, Few, Joined DEF Space
  <2>5. currentProcedure \in D!Sets => Instructions(Append(Space, halt))
    BY <2>3, <2>4, Extended
  <2>6. \/ C!SetCode(currentProcedure, Space)
        \/ C!SetCode(currentProcedure, Append(Space, halt))
    BY <1>1, <2>2 DEF ProcSpace, EndProgram
  <2> QED BY <2>4, <2>5, <2>6, CodeSet
<1>2. CASE ~ProcSpace /\ ~EndProgram
  <2>1. generatedCode' = generatedCode
    BY <1>2 DEF Blocks, Const, ConstName, ConstEq, ConstVal, Var, VarName, EndSection, Procedure,
       ProcName, ProcBody, ProcEnd, ProcTest, EndDeclarations, Declared, BlockTail, EndBlock,
       Declaration, Declares, Silent, Test, Reports, codeVars
  <2> QED BY <2>1 DEF CodeInv
<1> QED BY <1>1, <1>2

LEMMA StatementsCode ==
  ASSUME Kept, step = "parse", CodeInv, Statements
  PROVE  CodeInv'
<1>a. /\ register_ptr \in Nat /\ register_ptr - Weight(Top) \in Nat /\ Weight(Top) \in Nat
      /\ \A op, l, m : \A r \in Nat : Instruction(I(op, r, l, m))
  BY Numbered
<1>b. \A op, s : Instruction(On(op, s)) /\ Instruction([On(op, s) EXCEPT !.r = 0])
  <2> TAKE op, s
  <2>1. Instruction(On(op, s)) BY <1>a DEF On
  <2>2. [On(op, s) EXCEPT !.r = 0] = I(op, 0, globalLevel - s.level, s.addr)
    BY DEF On, I, C!newInstruction
  <2> QED BY <1>a, <2>1, <2>2
<1>c. \A l, m : Instruction(I("SIO", register_ptr, l, m)) /\ Instruction(I("LOD", register_ptr, l, m))
  BY <1>a
<1>1. CASE CallIdent \/ ReadIdent \/ WriteIdent
  <2>1. \E code : Instructions(code) /\ Emits(code, register_ptr)
    <3>1. CASE CallIdent
      <4>1. PICK x : x = [On("CAL", sym) EXCEPT !.r = 0] OBVIOUS
      <4>2. Instructions(<<x>>) BY <1>b, <4>1, Few
      <4> QED BY <3>1, <4>1, <4>2 DEF CallIdent
    <3>2. CASE ReadIdent
      <4>1. PICK x : x = I("SIO", register_ptr, 0, 2) OBVIOUS
      <4>2. PICK y : y = On("STO", sym) OBVIOUS
      <4>3. Instructions(<<x, y>>) BY <1>b, <1>c, <4>1, <4>2, Few
      <4> QED BY <3>2, <4>1, <4>2, <4>3 DEF ReadIdent
    <3>3. CASE WriteIdent
      <4>1. PICK x : x = IF Kind({"var"}) THEN On("LOD", sym) ELSE I("LOD", register_ptr, 0, sym.val)
        OBVIOUS
      <4>2. PICK y : y = I("SIO", register_ptr, 0, 1) OBVIOUS
      <4>3. Instruction(x) BY <1>b, <1>c, <4>1
      <4>4. Instructions(<<x, y>>) BY <1>c, <4>2, <4>3, Few
      <4> QED BY <3>3, <4>1, <4>2, <4>4 DEF WriteIdent
    <3> QED BY <1>1, <3>1, <3>2, <3>3
  <2> QED BY <2>1, CodeEmits
<1>2. CASE Store /\ Top.sym # Null
  <2>1. PICK x : x = [On("STO", Top.sym) EXCEPT !.r = register_ptr - 1] OBVIOUS
  <2>2. Top.at = "store" /\ Emits(<<x>>, register_ptr - 1) BY <1>2, <2>1 DEF Store, At, Waits
  <2>3. Weight(Top) = 1 \/ Weight(Top) = 2 BY <2>2 DEF Weight, Holds, Completed
  <2>4. register_ptr - 1 \in Nat BY <1>a, <2>3
  <2>5. x = I("STO", register_ptr - 1, globalLevel - Top.sym.level, Top.sym.addr)
    BY <2>1 DEF On, I, C!newInstruction
  <2>6. Instructions(<<x>>) BY <1>a, <2>4, <2>5, Few
  <2> QED BY <2>2, <2>6, CodeEmits
<1>3. CASE End
  <2>1. PICK x : x = I("RTN", 0, 0, 0) OBVIOUS
  <2>2. Instructions(<<x>>) /\ Instructions(<< >>) BY <1>a, <2>1, Few
  <2>3. Emits(<<x>>, register_ptr) \/ Emits(<< >>, register_ptr) BY <1>3, <2>1 DEF End
  <2> QED BY <2>2, <2>3, CodeEmits
<1>4. CASE Body("then", "else") \/ Body("do", "loop")
  <2>1. PICK x : x = I("JPC", register_ptr - 1, 0, 0) OBVIOUS
  <2>2. Top.at \in {"then", "do"} /\ Emits(<<x>>, register_ptr) BY <1>4, <2>1 DEF Body, At, Waits
  <2>3. Weight(Top) = 1 \/ Weight(Top) = 2 BY <2>2 DEF Weight, Holds, Completed
  <2>4. register_ptr - 1 \in Nat BY <1>a, <2>3
  <2>5. Instructions(<<x>>) BY <1>a, <2>1, <2>4, Few
  <2> QED BY <2>2, <2>5, CodeEmits
<1>5. CASE Else \/ EndWhile
  <2>1. \E m : Instruction(I("JMP", 0, 0, m)) BY <1>a
  <2>2. \E m, index, k :
          C!SetCode(currentProcedure, C!changeM(C!Append1(I("JMP", 0, 0, m)), index, k))
    BY <1>5 DEF Else, EndWhile, Rewrites, LoopCode
  <2>3. PICK m, index, k :
          C!SetCode(currentProcedure, C!changeM(C!Append1(I("JMP", 0, 0, m)), index, k))
    BY <2>2
  <2>4. PICK x : x = I("JMP", 0, 0, m) OBVIOUS
  <2>5. Instruction(x) BY <1>a, <2>4
  <2> QED BY <2>3, <2>4, <2>5, CodePatches
<1>6. CASE EndIf
  <2>1. C!SetCode(currentProcedure, C!changeM(Code, Top.j2, Here)) BY <1>6 DEF EndIf, Rewrites
  <2>2. currentProcedure \in D!Sets => Instructions(C!changeM(Code, Top.j2, Here))
    BY CodeIs, Patched
  <2> QED BY <2>1, <2>2, CodeSet
<1>7. CASE \/ Assign \/ AssignBecomes \/ (\E type, place : Named(type, place)) \/ Begin
           \/ ListStatement \/ If \/ While \/ Empty \/ EndEmpty \/ (Store /\ Top.sym = Null)
  <2>1. generatedCode' = generatedCode
    BY <1>7 DEF Assign, AssignBecomes, Named, Begin, ListStatement, If, While, Empty, EndEmpty,
       Store, Test, Silent, Reports, codeVars
  <2> QED BY <2>1 DEF CodeInv
<1> QED BY <1>1, <1>2, <1>3, <1>4, <1>5, <1>6, <1>7 DEF Statements

LEMMA ExpressionsCode ==
  ASSUME Kept, step = "parse", CodeInv, Expressions
  PROVE  CodeInv'
<1>a. /\ register_ptr \in Nat /\ register_ptr - Weight(Top) \in Nat /\ Weight(Top) \in Nat
      /\ \A op, l, m : \A r \in Nat : Instruction(I(op, r, l, m))
  BY Numbered
<1>b. \A x : Instruction(x) => Instructions(<<x>>) BY Few
<1>1. CASE Odd
  <2>1. PICK x : x = I("ODD", register_ptr - 1, register_ptr - 1, 0) OBVIOUS
  <2>2. Top.at = "odd" /\ Emits(<<x>>, register_ptr) BY <1>1, <2>1 DEF Odd, At, Waits
  <2>3. Weight(Top) = 1 \/ Weight(Top) = 2 BY <2>2 DEF Weight, Holds, Completed
  <2>4. register_ptr - 1 \in Nat BY <1>a, <2>3
  <2>5. Instructions(<<x>>) BY <1>a, <1>b, <2>1, <2>4
  <2> QED BY <2>2, <2>5, CodeEmits
<1>2. CASE Compare \/ Operate("expression") \/ Operate("term")
  <2>1. \E op : Top.at \in {"right", "operate"} /\ Emits(<<Operands(op)>>, register_ptr - 1)
    BY <1>2 DEF Compare, Operate, At, Waits
  <2>2. PICK op : Top.at \in {"right", "operate"} /\ Emits(<<Operands(op)>>, register_ptr - 1)
    BY <2>1
  <2>3. PICK x : x = Operands(op) OBVIOUS
  <2>4. Weight(Top) = 2 BY <2>2 DEF Weight, Holds, Completed
  <2>5. register_ptr - 2 \in Nat BY <1>a, <2>4
  <2>6. x = I(op, register_ptr - 2, register_ptr - 2, register_ptr - 1) BY <2>3 DEF Operands
  <2>7. Instructions(<<x>>) BY <1>a, <1>b, <2>5, <2>6
  <2> QED BY <2>2, <2>3, <2>7, CodeEmits
<1>3. CASE FirstFactor
  <2>1. PICK x : x = I("NEG", register_ptr - 1, register_ptr - 1, 0) OBVIOUS
  <2>2. Top.at = "first" /\ (Emits(<<x>>, register_ptr) \/ Emits(<< >>, register_ptr))
    BY <1>3, <2>1 DEF FirstFactor, Signed, At, Waits
  <2>3. Weight(Top) = 1 \/ Weight(Top) = 2 BY <2>2 DEF Weight, Holds, Completed
  <2>4. register_ptr - 1 \in Nat BY <1>a, <2>3
  <2>5. Instructions(<<x>>) /\ Instructions(<< >>) BY <1>a, <1>b, <2>1, <2>4, Few
  <2> QED BY <2>2, <2>5, CodeEmits
<1>4. CASE FactorIdent \/ FactorNumber
  <2>1. \E l, m : \E op \in {"LOD", "LIT"} : Emits(<<I(op, register_ptr, l, m)>>, register_ptr + 1)
    BY <1>4 DEF FactorIdent, FactorNumber, Operand, On
  <2>2. PICK x : Instruction(x) /\ Emits(<<x>>, register_ptr + 1) BY <1>a, <2>1
  <2> QED BY <1>b, <2>2, CodeEmits
<1>5. CASE \/ Condition \/ Relation \/ Expression \/ Operator("expression", "term", SignTypes)
           \/ EndList("expression", SignTypes) \/ Term \/ Operator("term", "factor", FactorTypes)
           \/ EndList("term", FactorTypes) \/ Factor \/ FactorOpen \/ FactorClose \/ EndFactor
           \/ FactorNone
  <2>1. generatedCode' = generatedCode
    BY <1>5 DEF Condition, Relation, Expression, Operator, EndList, Term, Factor, FactorOpen,
       FactorClose, EndFactor, FactorNone, Test, Silent, Reports, codeVars
  <2> QED BY <2>1 DEF CodeInv
<1> QED BY <1>1, <1>2, <1>3, <1>4, <1>5 DEF Expressions

-----------------------------------------------------------------------------
(* Types: all of them.                                                     *)

LEMMA OnlyParsing ==
  ASSUME Next
  PROVE  step = "parse"
BY DEF Next, Blocks, Statements, Expressions, Const, ConstName, ConstEq, ConstVal, Var, VarName,
   EndSection, Procedure, ProcName, ProcBody, ProcEnd, ProcTest, ProcSpace, EndDeclarations,
   Declared, BlockTail, EndBlock, EndProgram, Assign, AssignBecomes, Store, Named, CallIdent,
   ReadIdent, WriteIdent, Begin, ListStatement, End, If, Body, Else, EndIf, While, EndWhile,
   Empty, EndEmpty, Starts, Condition, Odd, Relation, Compare, Expression, Operator, Operate,
   EndList, Term, FirstFactor, Factor, FactorIdent, FactorNumber, FactorOpen, FactorClose,
   EndFactor, FactorNone, At, Skip, EndTest, Fail, Parsing

LEMMA CodeNext ==
  ASSUME Inv, CodeInv, Next
  PROVE  CodeInv'
<1>1. step = "parse" /\ Kept BY OnlyParsing DEF Inv
<1>2. CASE Skip \/ EndTest \/ Fail
  <2>1. generatedCode' = generatedCode BY <1>2 DEF Skip, EndTest, Fail, Silent, codeVars
  <2> QED BY <2>1 DEF CodeInv
<1> QED BY <1>1, <1>2, BlocksCode, StatementsCode, ExpressionsCode DEF Next

StepsNamed == step \in Steps
TypeInv == Inv /\ Sane /\ RootInv /\ TreeInv /\ CodeInv /\ StepsNamed

LEMMA TypeInit ==
  ASSUME Init
  PROVE  TypeInv
<1> DEFINE a == [Activation("program", phi) EXCEPT !.at = "period"]
<1>1. PICK fsys : acts = <<a, Activation("block", fsys)>> BY DEF Init, InitOn
<1> DEFINE b == Activation("block", fsys)
<1>2. a.fn = "program" /\ a.kids = << >> /\ b.fn = "block" BY DEF Activation
<1>3. /\ generatedCode = [s \in D!Sets |-> << >>]
      /\ tree = Null /\ step = "parse"
  BY DEF Init, InitOn
<1>4. RootInv
  <2> HIDE DEF a, b
  <2>1. acts = <<a, b>> BY <1>1 DEF b
  <2>2. Len(acts) = 2 /\ acts[1] = a /\ acts[2] = b BY <2>1
  <2>3. \A i \in 1 .. 2 : i = 1 \/ i = 2 OBVIOUS
  <2> QED BY <1>2, <2>2, <2>3 DEF RootInv, Functions
<1>5. CodeInv
  <2>1. \A s \in D!Sets : generatedCode[s] = << >> BY <1>3
  <2>2. generatedCode = [s \in D!Sets |-> generatedCode[s]] BY <1>3
  <2> QED BY <2>1, <2>2, Few DEF CodeInv
<1>6. TreeInv /\ StepsNamed BY <1>3 DEF TreeInv, StepsNamed, Steps
<1> QED BY <1>4, <1>5, <1>6, InitKept, InitSane DEF TypeInv

LEMMA TypeNext ==
  ASSUME TypeInv, [Next]_vars
  PROVE  TypeInv'
<1>1. Inv' /\ Sane' BY NextKept, SaneNext DEF TypeInv
<1>2. CASE UNCHANGED vars
  <2>1. UNCHANGED <<acts, generatedCode, tree, step>> BY <1>2 DEF vars, codeVars
  <2>2. RootInv' /\ TreeInv' /\ CodeInv' /\ StepsNamed'
    BY <2>1 DEF TypeInv, RootInv, TreeInv, CodeInv, StepsNamed
  <2> QED BY <1>1, <2>2 DEF TypeInv
<1>3. CASE Next
  <2>1. step = "parse" BY <1>3, OnlyParsing
  <2>2. RootInv' /\ TreeInv' BY <1>3, <2>1, RootNext DEF TypeInv
  <2>3. CodeInv' BY <1>3, CodeNext DEF TypeInv
  <2>4. StepsNamed'
    <3>1. CASE EndProgram BY <3>1 DEF EndProgram, StepsNamed, Steps
    <3>2. CASE ~EndProgram BY <1>3, <2>1, <3>2, OthersMakeNone DEF StepsNamed, Steps
    <3> QED BY <3>1, <3>2
  <2> QED BY <1>1, <2>2, <2>3, <2>4 DEF TypeInv
<1> QED BY <1>2, <1>3

LEMMA TypesHold ==
  ASSUME TypeInv
  PROVE  TypeOK
<1>1. /\ cur.type \in ToSet(Token_t) \ {"commentsym"}
      /\ pos \in 0 .. Len(tokenFile) /\ Len(read) <= pos
  BY DEF TypeInv, Sane, TokensInv
<1>2. step \in Steps /\ (step = "parse" => acts # << >>)
  BY DEF TypeInv, StepsNamed, Inv, Kept, ActsInv
<1>3. \A i \in 1 .. Len(acts) : acts[i].fn \in Functions BY DEF TypeInv, RootInv
<1>4. ToSet(errors) \subseteq 0 .. 30
  <2>1. errors \in Seq(Errors) BY DEF TypeInv, Sane
  <2>2. \A i \in DOMAIN errors : errors[i] \in Errors BY <2>1
  <2> QED BY <2>2 DEF ToSet, Errors
<1>5. IF step = "link" THEN tree.tag = "block" ELSE tree = Null BY DEF TypeInv, TreeInv
<1>6. ASSUME NEW s \in D!Sets, NEW i \in 1 .. Len(generatedCode[s])
      PROVE  generatedCode[s][i].r \in Nat
  <2>1. Instruction(generatedCode[s][i]) BY DEF TypeInv, CodeInv, Instructions
  <2>2. PICK x : x = generatedCode[s][i] OBVIOUS
  <2>3. \E op, l, m : \E r \in Nat : x = I(op, r, l, m) BY <2>1, <2>2 DEF Instruction
  <2>4. x.r \in Nat BY <2>3 DEF I, C!newInstruction
  <2> QED BY <2>2, <2>4
<1> QED BY <1>1, <1>2, <1>3, <1>4, <1>5, <1>6 DEF TypeOK

\* Whatever the token file, what parse.c works on is well formed at every point
\* of the descent: the token is one of the file and no comment, the open calls
\* are those of parse functions, every error has its number, each instruction
\* made uses a register that is not negative, also when one jump is patched
\* behind another, and ast is a block if the parse goes on to the linker.
THEOREM ParserType == Spec => []TypeOK
<1>1. Init => TypeInv BY TypeInit
<1>2. TypeInv /\ [Next]_vars => TypeInv' BY TypeNext
<1>3. TypeInv => TypeOK BY TypesHold
<1> QED BY <1>1, <1>2, <1>3, PTL DEF Spec
=============================================================================

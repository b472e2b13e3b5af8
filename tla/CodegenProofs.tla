--------------------------- MODULE CodegenProofs ---------------------------
(***************************************************************************)
(* Proofs about the code generator, for every pool of registers and every  *)
(* set of trees without GROUP nodes. First the register discipline and the *)
(* causes of the exits. Then what it writes: no handler's instructions     *)
(* overwrite an operand that another handler waits with, every line of the *)
(* finished file stands in the section it belongs to, and in it no label   *)
(* is defined twice, every label that is used is defined, and no jump      *)
(* leaves its function.                                                    *)
(*                                                                         *)
(* The facts of the second part are about the lines a step appends to      *)
(* outfile, so each handler's code is shown, once, to consist of lines     *)
(* with the properties that the spared registers and the sections ask for. *)
(* Labels follow the promises of the walk: a handler that prints a jump to *)
(* a label it has yet to print owes that label, and every line it prints   *)
(* in between keeps the text closed but for the labels owed.               *)
(***************************************************************************)
EXTENDS Exits, SequenceTheorems, FiniteSetTheorems, TLAPS

(* No GROUP node: no notice of the type checker rewrote the tree. *)
Ungrouped == \A n \in Nodes : n.kind # "GROUP"

HeldBy(f) == {f.held[j] : j \in DOMAIN f.held}

IInv ==
  /\ TypeOK
  /\ NUM_REGS = NumRegs
  /\ WalkInv
  /\ NoClobber
  /\ ExactOwnership

(* The operands of a node are nodes, and well shaped. *)
LEMMA OperandsAreNodes ==
  ASSUME NEW n \in Nodes, NEW i \in DOMAIN Operands(n)
  PROVE  Operands(n)[i] \in Nodes
BY NodesAssumption DEF Children

(* Every node of the programs has the shape the grammar gives it. *)
LEMMA Shape ==
  ASSUME NEW n \in Nodes
  PROVE  WellShaped(n)
BY NodesAssumption

(* The positions below the top of a stack of height n. *)
LEMMA Below ==
  ASSUME NEW n \in Nat \ {0}, NEW i \in 1 .. n - 1
  PROVE  i \in 1 .. n /\ i # n /\ i + 1 \in 1 .. n /\ i \in Nat
OBVIOUS

(* The state of the top frame that every action starts from. *)
LEMMA TopFacts ==
  ASSUME IInv
  PROVE  /\ stack \in Seq(Frame) /\ Len(stack) \in Nat \ {0}
         /\ DOMAIN stack = 1 .. Len(stack)
         /\ Top \in Frame /\ Top = stack[Len(stack)]
         /\ Top.node \in Nodes /\ Top.next \in Nat /\ Top.held \in Seq(Int)
         /\ Top.next <= Len(Operands(Top.node))
         /\ Kind \in ExprKinds => Len(Top.held) = TopCount(Top)
         /\ HeldSet \subseteq Regs
         /\ HeldSet \cap Waiting = {}
         /\ Taken = HeldSet \cup Waiting
<1>1. stack \in Seq(Frame)
  BY DEF IInv, TypeOK, Frame
<1>2. Len(stack) \in Nat \ {0} /\ DOMAIN stack = 1 .. Len(stack)
  BY <1>1 DEF IInv, WalkInv
<1>3. Top \in Frame /\ Top = stack[Len(stack)]
  BY <1>1, <1>2 DEF Top
<1>4. Top.node \in Nodes /\ Top.next \in Nat /\ Top.held \in Seq(Int)
  BY <1>3 DEF Frame
<1>5. /\ Top.next <= Len(Operands(Top.node))
      /\ Kind \in ExprKinds => Len(Top.held) = TopCount(Top)
  BY DEF IInv, WalkInv
<1>6. \A i : i \in DOMAIN stack <=> i \in 1 .. Len(stack) - 1 \/ i = Len(stack)
  BY <1>2
<1>7. \A r : r \in HeldSet <=> Holds(Len(stack), r)
  BY <1>3 DEF HeldSet, Holds
<1>8. HeldSet \subseteq Regs
  BY <1>2, <1>3 DEF HeldSet, IInv, ExactOwnership
<1>9. Taken = HeldSet \cup Waiting
  <2>1. Taken \subseteq Regs
    BY DEF Taken
  <2>2. \A r \in Regs : r \in Taken <=> r \in HeldSet \/ r \in Waiting
    BY <1>6, <1>7, Zenon DEF IInv, ExactOwnership, Waiting
  <2> QED
    BY <1>8, <2>1, <2>2 DEF Waiting
<1>10. HeldSet \cap Waiting = {}
  <2>1. ASSUME NEW i \in 1 .. Len(stack) - 1, NEW r, Holds(i, r), Holds(Len(stack), r)
        PROVE  FALSE
    <3>1. i \in DOMAIN stack /\ Len(stack) \in DOMAIN stack
      BY <2>1, <1>6
    <3>2. i # Len(stack)
      BY <1>2, Below
    <3> QED
      BY <2>1, <3>1, <3>2 DEF Holds, IInv, NoClobber
  <2> QED
    BY <2>1, <1>7 DEF Waiting
<1> QED
  BY <1>1, <1>2, <1>3, <1>4, <1>5, <1>8, <1>9, <1>10

(* What a handler below the top holds, it holds as a waiting handler. *)
LEMMA WaitingHolds ==
  ASSUME IInv
  PROVE  /\ \A i \in 1 .. Len(stack) - 1 : \A j \in DOMAIN stack[i].held :
              stack[i].held[j] \in Waiting
         /\ \A r \in Waiting : r \in Regs /\ \E i \in 1 .. Len(stack) - 1 : Holds(i, r)
<1>1. Len(stack) \in Nat \ {0}
  BY TopFacts
<1>2. \A i \in 1 .. Len(stack) - 1 : i \in 1 .. Len(stack)
  BY <1>1, Below
<1>3. DOMAIN stack = 1 .. Len(stack)
  BY TopFacts
<1>4. \A i \in 1 .. Len(stack) - 1 : \A j \in DOMAIN stack[i].held :
        stack[i].held[j] \in Regs
  BY <1>2, <1>3 DEF IInv, ExactOwnership
<1> QED
  BY <1>4, Zenon DEF Waiting, Holds

(***************************************************************************)
(* The three moves of the walk preserve the invariant.  Each lemma takes   *)
(* what its actions have in common: how the stack changes, and that the    *)
(* map changes to what the new stack holds.                                *)
(***************************************************************************)

(* The registers that are taken are those of the waiting handlers and S. *)
Accounts(S) ==
  /\ reg_free_map' \in [Regs -> {0, 1}]
  /\ NUM_REGS' = NUM_REGS
  /\ S \subseteq Regs
  /\ \A r \in Regs : reg_free_map'[r] = 0 <=> r \in Waiting \cup S

Distinct(h) == \A j, m \in DOMAIN h : h[j] = h[m] => j = m

(* The top frame becomes f and an activation for its next operand is       *)
(* pushed.                                                                 *)
LEMMA PushPreserves ==
  ASSUME IInv, NEW f \in Frame,
         f.node = Top.node, f.next = Top.next,
         f.next < Len(Operands(f.node)),
         f.node.kind \in ExprKinds => Len(f.held) = WaitingCount(f),
         f.node.kind \in Holdless => f.held = <<>>,
         Call(f),
         Accounts(HeldBy(f)), Distinct(f.held), HeldBy(f) \cap Waiting = {},
         cur_label' \in Int,
         status' \in {"running", "done"} \cup Errors
  PROVE  IInv'
<1> DEFINE n == Len(stack)
           s == [stack EXCEPT ![n] = f]
           g == Activation(Operands(f.node)[f.next + 1])
<1>1. n \in Nat \ {0}
  BY TopFacts
<1>2. \A i \in 1 .. n - 1 : i \in 1 .. n /\ i # n
  BY <1>1, Below
<1>3. stack \in Seq(Frame) /\ Top = stack[n]
  BY TopFacts
<1>4. g \in Frame
  <2>1. /\ f.node \in Nodes /\ f.next \in Nat
        /\ f.next + 1 \in DOMAIN Operands(f.node)
    BY Shape DEF Frame, WellShaped
  <2> QED
    BY <2>1, OperandsAreNodes DEF Activation, Frame
<1>13. g.held = <<>> /\ g.next = 0 /\ g.node = Operands(f.node)[f.next + 1]
  BY DEF Activation
<1>5. s \in Seq(Frame) /\ Len(s) = n /\ s[n] = f
      /\ \A i \in 1 .. n - 1 : s[i] = stack[i]
  <2>1. n \in 1 .. Len(stack) /\ Len(stack) = n
    BY <1>1
  <2> HIDE DEF n
  <2> QED
    BY <1>2, <1>3, <2>1, ExceptSeq
<1>6. stack' = Append(s, g)
  BY DEF Call
<1> HIDE DEF s, g, n
<1>7. stack' \in Seq(Frame) /\ Len(stack') = n + 1
  BY <1>4, <1>5, <1>6, AppendProperties
<1>8. /\ stack'[n + 1] = g /\ stack'[n] = f
      /\ \A i \in 1 .. n - 1 : stack'[i] = stack[i]
  BY <1>1, <1>2, <1>4, <1>5, <1>6, AppendProperties
<1>9. TypeOK'
  <2>1. ScratchTypeOK'
    BY DEF ScratchTypeOK, Accounts, IInv
  <2> QED
    BY <2>1, <1>7 DEF TypeOK
<1>11. \A i : i \in DOMAIN stack' <=> i \in 1 .. n - 1 \/ i = n \/ i = n + 1
  BY <1>1, <1>7
<1>10. WalkInv'
  <2>1. stack' # <<>> /\ stack'[1].node.kind = "PROGRAM"
    <3>1. stack[1].node.kind = "PROGRAM"
      BY DEF IInv, WalkInv
    <3>2. n = 1 \/ 1 \in 1 .. n - 1
      BY <1>1
    <3>3. stack'[1].node = stack[1].node
      BY <1>3, <1>8, <3>2
    <3>4. Len(stack') # 0
      BY <1>1, <1>7
    <3> QED
      BY <3>1, <3>3, <3>4, <1>7
  <2>2. ASSUME NEW i \in 1 .. n
        PROVE  /\ stack'[i].next < Len(Operands(stack'[i].node))
               /\ stack'[i + 1].node = Operands(stack'[i].node)[stack'[i].next + 1]
               /\ stack'[i].node.kind \in ExprKinds =>
                    Len(stack'[i].held) = WaitingCount(stack'[i])
    <3>1. CASE i = n
      BY <3>1, <1>8, <1>13
    <3>2. CASE i \in 1 .. n - 1
      <4>1. /\ stack[i].next < Len(Operands(stack[i].node))
            /\ stack[i + 1].node = Operands(stack[i].node)[stack[i].next + 1]
            /\ stack[i].node.kind \in ExprKinds =>
                 Len(stack[i].held) = WaitingCount(stack[i])
        BY <3>2 DEF IInv, WalkInv, n
      <4>2. stack'[i] = stack[i]
        BY <3>2, <1>8
      <4>3. i + 1 = n \/ i + 1 \in 1 .. n - 1
        BY <1>1, <3>2
      <4>4. stack'[i + 1].node = stack[i + 1].node
        BY <4>3, <1>3, <1>8
      <4> QED
        BY <4>1, <4>2, <4>4
    <3> QED
      BY <3>1, <3>2, <1>1
  <2>3. /\ Top'.next <= Len(Operands(Top'.node))
        /\ Kind' \in ExprKinds => Len(Top'.held) = TopCount(Top')
    <3>1. Top' = g
      BY <1>7, <1>8 DEF Top
    <3>2. Len(Operands(g.node)) \in Nat
      BY <1>4, Shape DEF WellShaped, Frame
    <3> QED
      BY <3>1, <3>2, <1>13 DEF TopCount, Kind
  <2>4. \A i \in 1 .. n - 1 : stack[i].node.kind \in Holdless => stack[i].held = <<>>
    BY <1>2, TopFacts DEF n, IInv, WalkInv
  <2>5. \A i \in DOMAIN stack' :
          stack'[i].node.kind \in Holdless => stack'[i].held = <<>>
    BY <2>4, <1>8, <1>11, <1>13
  <2>6. Len(stack') - 1 = n
    BY <1>1, <1>7
  <2> QED
    BY <2>1, <2>2, <2>3, <2>5, <2>6 DEF WalkInv
<1>12. NoClobber'
  <2> SUFFICES ASSUME NEW i \in DOMAIN stack', NEW k \in DOMAIN stack',
                      NEW j \in DOMAIN stack'[i].held,
                      NEW m \in DOMAIN stack'[k].held,
                      stack'[i].held[j] = stack'[k].held[m]
               PROVE  i = k /\ j = m
    BY DEF NoClobber
  <2>1. i # n + 1 /\ k # n + 1
    BY <1>8, <1>13
  <2>2. CASE i = n /\ k = n
    BY <2>2, <1>8 DEF Distinct
  <2>3. CASE i = n /\ k \in 1 .. n - 1
    BY <2>3, <1>8, WaitingHolds DEF HeldBy, n
  <2>4. CASE k = n /\ i \in 1 .. n - 1
    BY <2>4, <1>8, WaitingHolds DEF HeldBy, n
  <2>5. CASE i \in 1 .. n - 1 /\ k \in 1 .. n - 1
    <3>1. i \in DOMAIN stack /\ k \in DOMAIN stack
      BY <2>5, <1>2, TopFacts DEF n
    <3>2. stack'[i] = stack[i] /\ stack'[k] = stack[k]
      BY <2>5, <1>8
    <3> QED
      BY <3>1, <3>2 DEF IInv, NoClobber
  <2> QED
    BY <2>1, <2>2, <2>3, <2>4, <2>5, <1>11
<1>14. ExactOwnership'
  <2> DEFINE HoldsNext(i, r) ==
               \E j \in DOMAIN stack'[i].held : stack'[i].held[j] = r
  <2>1. \A r : ~ HoldsNext(n + 1, r)
    BY <1>8, <1>13
  <2>2. \A r : HoldsNext(n, r) <=> r \in HeldBy(f)
    BY <1>8 DEF HeldBy
  <2>3. \A r : \A i \in 1 .. n - 1 : HoldsNext(i, r) <=> Holds(i, r)
    BY <1>8 DEF Holds
  <2>4. \A r \in Regs : r \in Taken' <=> r \in Waiting \/ r \in HeldBy(f)
    BY DEF Taken, Accounts, Regs
  <2>5. \A r \in Regs : r \in Waiting <=> \E i \in 1 .. n - 1 : Holds(i, r)
    BY Zenon DEF Waiting, n
  <2> HIDE DEF HoldsNext
  <2>6. \A r \in Regs : r \in Taken' <=> \E i \in DOMAIN stack' : HoldsNext(i, r)
    BY <2>1, <2>2, <2>3, <2>4, <2>5, <1>11, Zenon
  <2>7. \A i \in DOMAIN stack' : \A j \in DOMAIN stack'[i].held :
          stack'[i].held[j] \in Regs
    <3>1. \A i \in 1 .. n - 1 : \A j \in DOMAIN stack[i].held :
            stack[i].held[j] \in Regs
      BY WaitingHolds DEF n
    <3>2. \A j \in DOMAIN f.held : f.held[j] \in Regs
      BY DEF Accounts, HeldBy
    <3> QED
      BY <3>1, <3>2, <1>8, <1>11, <1>13
  <2> QED
    BY <2>6, <2>7 DEF ExactOwnership, Regs, Holds, HoldsNext
<1> QED
  BY <1>9, <1>10, <1>12, <1>14 DEF IInv, Accounts

(* The top frame returns: its caller's frame becomes f, which holds the    *)
(* registers of S besides its own.                                         *)
LEMMA PopPreserves ==
  ASSUME IInv, Kind # "PROGRAM", NEW f \in Frame, NEW S,
         f.node = Caller.node, f.next = Caller.next + 1,
         HeldBy(f) = HeldBy(Caller) \cup S, Distinct(f.held),
         f.node.kind \in ExprKinds => Len(f.held) = Len(Caller.held) + 1,
         f.node.kind \in Holdless => f.held = <<>>,
         ReturnTo(f),
         Accounts(S), S \cap Waiting = {},
         cur_label' \in Int,
         status' \in {"running", "done"} \cup Errors
  PROVE  IInv'
<1> DEFINE n == Len(stack)
           s == SubSeq(stack, 1, n - 1)
<1>1. n \in Nat \ {0}
  BY TopFacts
<1>2. stack \in Seq(Frame) /\ Top = stack[n]
  BY TopFacts
<1>3. n # 1
  BY <1>2 DEF IInv, WalkInv, Kind
<1>4. n - 1 \in 1 .. n - 1 /\ n - 1 \in Nat
  <2> HIDE DEF n
  <2> QED
    BY <1>1, <1>3
<1>5. \A i \in 1 .. n - 2 : i \in 1 .. n - 1 /\ i # n - 1
  BY <1>1, <1>3
<1>6. s \in Seq(Frame) /\ Len(s) = n - 1 /\ \A i \in 1 .. n - 1 : s[i] = stack[i]
  <2>1. n - 1 \in 0 .. Len(stack) /\ Len(stack) = n
    BY <1>1
  <2>2. \A i \in 1 .. n - 1 : i \in 1 .. Len(stack)
    BY <1>1
  <2> HIDE DEF n
  <2> QED
    BY <1>1, <1>2, <1>4, <2>1, <2>2, SubSeqProperties
<1>7. stack' = [s EXCEPT ![n - 1] = f]
  BY DEF ReturnTo
<1>8. Caller = stack[n - 1] /\ Caller \in Frame
  <2>1. Caller = stack[n - 1]
    BY DEF Caller
  <2>2. Len(stack) = n
    OBVIOUS
  <2> HIDE DEF n
  <2>3. n - 1 \in 1 .. n
    BY <1>1, <1>3
  <2> QED
    BY <1>2, <2>1, <2>2, <2>3, ElementOfSeq
<1> HIDE DEF s, n
<1>9. stack' \in Seq(Frame) /\ Len(stack') = n - 1
  BY <1>4, <1>6, <1>7, ExceptSeq
<1>10. stack'[n - 1] = f /\ \A i \in 1 .. n - 2 : stack'[i] = stack[i]
  BY <1>4, <1>5, <1>6, <1>7, ExceptSeq
<1>11. \A i : i \in DOMAIN stack' <=> i \in 1 .. n - 2 \/ i = n - 1
  BY <1>1, <1>3, <1>9
<1>12. TypeOK'
  <2>1. ScratchTypeOK'
    BY DEF ScratchTypeOK, Accounts, IInv
  <2> QED
    BY <2>1, <1>9 DEF TypeOK
<1>13. /\ Caller.next < Len(Operands(Caller.node))
       /\ Caller.node.kind \in ExprKinds => Len(Caller.held) = WaitingCount(Caller)
  BY <1>4, <1>8 DEF IInv, WalkInv, n
<1>14. WalkInv'
  <2>1. stack' # <<>> /\ stack'[1].node.kind = "PROGRAM"
    <3>1. stack[1].node.kind = "PROGRAM"
      BY DEF IInv, WalkInv
    <3>2. n - 1 = 1 \/ 1 \in 1 .. n - 2
      BY <1>1, <1>3
    <3>3. stack'[1].node = stack[1].node
      BY <1>8, <1>10, <3>2
    <3>4. Len(stack') # 0
      BY <1>1, <1>3, <1>9
    <3>5. stack' # <<>>
      BY <3>4
    <3> QED
      BY <3>1, <3>3, <3>5
  <2>2. ASSUME NEW i \in 1 .. n - 2
        PROVE  /\ stack'[i].next < Len(Operands(stack'[i].node))
               /\ stack'[i + 1].node = Operands(stack'[i].node)[stack'[i].next + 1]
               /\ stack'[i].node.kind \in ExprKinds =>
                    Len(stack'[i].held) = WaitingCount(stack'[i])
    <3>1. /\ stack[i].next < Len(Operands(stack[i].node))
          /\ stack[i + 1].node = Operands(stack[i].node)[stack[i].next + 1]
          /\ stack[i].node.kind \in ExprKinds =>
               Len(stack[i].held) = WaitingCount(stack[i])
      BY <1>5 DEF IInv, WalkInv, n
    <3>2. stack'[i] = stack[i]
      BY <1>10
    <3>3. i + 1 = n - 1 \/ i + 1 \in 1 .. n - 2
      BY <1>1
    <3>4. stack'[i + 1].node = stack[i + 1].node
      BY <3>3, <1>8, <1>10
    <3> QED
      BY <3>1, <3>2, <3>4
  <2>3. /\ Top'.next <= Len(Operands(Top'.node))
        /\ Kind' \in ExprKinds => Len(Top'.held) = TopCount(Top')
    <3>1. Top' = f
      BY <1>9, <1>10 DEF Top
    <3>2. Len(Operands(f.node)) \in Nat /\ f.next \in Nat /\ Caller.next \in Nat
      BY <1>8, Shape DEF WellShaped, Frame
    <3>3. f.node.kind \in ExprKinds => Len(f.held) = WaitingCount(Caller) + 1
      BY <1>13
    <3>4. Kind' = f.node.kind
      BY <3>1 DEF Kind
    <3>5. f.node.kind = "TERNARY1" => Len(Operands(f.node)) = 3
      BY Shape DEF WellShaped, Frame
    <3>6. f.next <= Len(Operands(f.node))
      BY <3>2, <1>13
    <3>7. WaitingCount(Caller) + 1 = TopCount(f)
      BY <3>2, <3>5, <1>13 DEF TopCount, WaitingCount
    <3> QED
      BY <3>1, <3>3, <3>4, <3>6, <3>7
  <2>4. Len(stack') - 1 = n - 2
    BY <1>1, <1>9
  <2>5. \A i \in 1 .. n - 1 : i \in 1 .. n
    BY <1>1
  <2>6. \A i \in 1 .. n - 1 : stack[i].node.kind \in Holdless => stack[i].held = <<>>
    BY <2>5, TopFacts DEF n, IInv, WalkInv
  <2>7. \A i \in DOMAIN stack' :
          stack'[i].node.kind \in Holdless => stack'[i].held = <<>>
    BY <2>6, <1>5, <1>10, <1>11
  <2> QED
    BY <2>1, <2>2, <2>3, <2>4, <2>7 DEF WalkInv
<1>15. NoClobber'
  <2> SUFFICES ASSUME NEW i \in DOMAIN stack', NEW k \in DOMAIN stack',
                      NEW j \in DOMAIN stack'[i].held,
                      NEW m \in DOMAIN stack'[k].held,
                      stack'[i].held[j] = stack'[k].held[m]
               PROVE  i = k /\ j = m
    BY DEF NoClobber
  <2>1. \A p \in 1 .. n - 1 : p \in DOMAIN stack
    BY <1>1, <1>2, TopFacts DEF n
  <2>2. \A p \in 1 .. n - 2 : \A q \in DOMAIN stack[p].held :
          stack[p].held[q] \notin HeldBy(f)
    <3> SUFFICES ASSUME NEW p \in 1 .. n - 2, NEW q \in DOMAIN stack[p].held
                 PROVE  stack[p].held[q] \notin HeldBy(f)
      OBVIOUS
    <3>1. stack[p].held[q] \notin S
      BY <1>5, WaitingHolds DEF n
    <3>2. stack[p].held[q] \notin HeldBy(Caller)
      BY <1>4, <1>5, <1>8, <2>1 DEF HeldBy, IInv, NoClobber
    <3> QED
      BY <3>1, <3>2
  <2>3. CASE i = n - 1 /\ k = n - 1
    BY <2>3, <1>10 DEF Distinct
  <2>4. CASE i = n - 1 /\ k \in 1 .. n - 2
    BY <2>4, <2>2, <1>10 DEF HeldBy
  <2>5. CASE k = n - 1 /\ i \in 1 .. n - 2
    BY <2>5, <2>2, <1>10 DEF HeldBy
  <2>6. CASE i \in 1 .. n - 2 /\ k \in 1 .. n - 2
    <3>1. i \in DOMAIN stack /\ k \in DOMAIN stack
      BY <2>6, <2>1, <1>5
    <3>2. stack'[i] = stack[i] /\ stack'[k] = stack[k]
      BY <2>6, <1>10
    <3> QED
      BY <3>1, <3>2 DEF IInv, NoClobber
  <2> QED
    BY <2>3, <2>4, <2>5, <2>6, <1>11
<1>16. ExactOwnership'
  <2> DEFINE HoldsNext(i, r) ==
               \E j \in DOMAIN stack'[i].held : stack'[i].held[j] = r
  <2>1. \A r : HoldsNext(n - 1, r) <=> Holds(n - 1, r) \/ r \in S
    <3>1. \A r : HoldsNext(n - 1, r) <=> r \in HeldBy(f)
      BY <1>10 DEF HeldBy
    <3>2. \A r : Holds(n - 1, r) <=> r \in HeldBy(Caller)
      BY <1>8 DEF HeldBy, Holds
    <3> HIDE DEF HoldsNext
    <3> QED
      BY <3>1, <3>2
  <2>2. \A r : \A i \in 1 .. n - 2 : HoldsNext(i, r) <=> Holds(i, r)
    BY <1>10 DEF Holds
  <2>3. \A r \in Regs : r \in Taken' <=> r \in Waiting \/ r \in S
    BY DEF Taken, Accounts, Regs
  <2>4. \A r \in Regs : r \in Waiting <=> \E i \in 1 .. n - 1 : Holds(i, r)
    BY Zenon DEF Waiting, n
  <2>5. \A i : i \in 1 .. n - 1 <=> i \in 1 .. n - 2 \/ i = n - 1
    BY <1>1, <1>3
  <2>6. \A i \in DOMAIN stack' : \A j \in DOMAIN stack'[i].held :
          stack'[i].held[j] \in Regs
    <3>1. \A i \in 1 .. n - 1 : \A j \in DOMAIN stack[i].held :
            stack[i].held[j] \in Regs
      BY WaitingHolds DEF n
    <3>2. \A j \in DOMAIN f.held : f.held[j] \in Regs
      BY <3>1, <1>4, <1>8 DEF Accounts, HeldBy
    <3> QED
      BY <3>1, <3>2, <1>5, <1>10, <1>11
  <2> HIDE DEF HoldsNext
  <2>7. \A r \in Regs : r \in Taken' <=> \E i \in DOMAIN stack' : HoldsNext(i, r)
    BY <2>1, <2>2, <2>3, <2>4, <2>5, <1>11, Zenon
  <2> QED
    BY <2>6, <2>7 DEF ExactOwnership, Regs, Holds, HoldsNext
<1> QED
  BY <1>12, <1>14, <1>15, <1>16 DEF IInv, Accounts

(***************************************************************************)
(* How the actions change the map of registers.                            *)
(***************************************************************************)
(* A step that leaves the map alone still accounts for what the top holds. *)
LEMMA KeepAccounts ==
  ASSUME IInv, KeepScratch
  PROVE  Accounts(HeldSet)
BY TopFacts DEF KeepScratch, scratchVars, Accounts, IInv, TypeOK, ScratchTypeOK,
                Taken

(* scratch_free of some registers of the top leaves the others taken, and  *)
(* never reaches NUM_REGS.                                                 *)
LEMMA FreeAccounts ==
  ASSUME IInv, NEW S \in SUBSET HeldSet, scratch_free(S)
  PROVE  Accounts(HeldSet \ S)
<1>1. NumRegs \notin S
  BY TopFacts, NumRegsAssumption DEF Regs
<1>2. NUM_REGS' = NUM_REGS
  BY <1>1 DEF scratch_free, OutOfBounds
<1>3. reg_free_map \in [Regs -> {0, 1}]
  BY DEF IInv, TypeOK, ScratchTypeOK
<1>4. reg_free_map' = [r \in Regs |-> IF r \in S THEN 1 ELSE reg_free_map[r]]
  BY DEF scratch_free, Released
<1>5. \A r \in Regs : reg_free_map[r] = 0 <=> r \in HeldSet \cup Waiting
  BY TopFacts DEF Taken
<1> QED
  BY <1>2, <1>3, <1>4, <1>5, TopFacts DEF Accounts

(* expr_call_func frees its arguments before it takes a register for the   *)
(* result: the result may be one of them, but never a waiting one.         *)
LEMMA CallAccounts ==
  ASSUME IInv, NEW r \in Regs,
         NUM_REGS' \in OutOfBounds(HeldSet),
         LowestFree(Released(HeldSet), NUM_REGS', r)
  PROVE  /\ r \notin Waiting
         /\ reg_free_map' = [Released(HeldSet) EXCEPT ![r] = 0] => Accounts({r})
         /\ reg_free_map' = Released(HeldSet) => Accounts({})
<1>1. NumRegs \notin HeldSet
  BY TopFacts, NumRegsAssumption DEF Regs
<1>2. NUM_REGS' = NUM_REGS
  BY <1>1 DEF OutOfBounds
<1>3. reg_free_map \in [Regs -> {0, 1}]
  BY DEF IInv, TypeOK, ScratchTypeOK
<1>4. \A q \in Regs : reg_free_map[q] = 0 <=> q \in HeldSet \cup Waiting
  BY TopFacts DEF Taken
<1>5. \A q \in Regs : Released(HeldSet)[q] = 0 <=> q \in Waiting
  BY <1>4, TopFacts DEF Released
<1>6. Released(HeldSet) \in [Regs -> {0, 1}]
  BY <1>3 DEF Released
<1>7. Released(HeldSet)[r] = 1
  BY DEF LowestFree
<1> HIDE DEF Released
<1> QED
  BY <1>2, <1>5, <1>6, <1>7 DEF Accounts

(* scratch_alloc returns a register that no waiting handler holds. *)
LEMMA AllocAccounts ==
  ASSUME IInv, NEW r \in Regs, HeldSet = {}, scratch_alloc(r)
  PROVE  Accounts({r}) /\ r \notin Waiting
<1>1. reg_free_map \in [Regs -> {0, 1}]
  BY DEF IInv, TypeOK, ScratchTypeOK
<1>2. \A q \in Regs : reg_free_map[q] = 0 <=> q \in Waiting
  BY TopFacts DEF Taken
<1>3. /\ reg_free_map[r] = 1 /\ reg_free_map' = [reg_free_map EXCEPT ![r] = 0]
      /\ NUM_REGS' = NUM_REGS
  BY DEF scratch_alloc, LowestFree
<1> QED
  BY <1>1, <1>2, <1>3 DEF Accounts

(***************************************************************************)
(* The moves as the actions make them.                                     *)
(***************************************************************************)
(* What a returning handler finds in the frame of its caller. *)
LEMMA CallerFacts ==
  ASSUME IInv, Kind # "PROGRAM"
  PROVE  /\ Caller \in Frame
         /\ Caller = stack[Len(stack) - 1]
         /\ Len(stack) - 1 \in 1 .. Len(stack) - 1
         /\ HeldBy(Caller) \subseteq Waiting
         /\ Distinct(Caller.held)
         /\ Top.node.kind \in ExprKinds => Caller.node.kind \notin Holdless
         /\ Top.node.kind \notin ExprKinds => Caller.node.kind \notin ExprKinds
         /\ Caller.node.kind \in Holdless => Caller.held = <<>>
<1> DEFINE n == Len(stack)
<1>1. n \in Nat \ {0} /\ n = Len(stack)
  BY TopFacts
<1>2. stack \in Seq(Frame) /\ DOMAIN stack = 1 .. n /\ Top = stack[n]
  BY TopFacts
<1>3. Caller = stack[n - 1]
  BY DEF Caller
<1>4. n # 1
  BY <1>2 DEF IInv, WalkInv, Kind
<1>5. /\ \A j \in DOMAIN stack[n - 1].held : n - 1 \in 1 .. n - 1 =>
            stack[n - 1].held[j] \in Waiting
  BY WaitingHolds
<1>6. n - 1 \in 1 .. n - 1 =>
        /\ Caller.next < Len(Operands(Caller.node))
        /\ Top.node = Operands(Caller.node)[Caller.next + 1]
  <2>1. n - 1 \in 1 .. n - 1 =>
          /\ stack[n - 1].next < Len(Operands(stack[n - 1].node))
          /\ stack[(n - 1) + 1].node = Operands(stack[n - 1].node)[stack[n - 1].next + 1]
    BY DEF IInv, WalkInv
  <2>2. (n - 1) + 1 = n
    BY <1>1
  <2> QED
    BY <2>1, <2>2, <1>2, <1>3
<1> HIDE DEF n
<1>7. n - 1 \in 1 .. n - 1 /\ n - 1 \in 1 .. n
  BY <1>1, <1>4
<1>8. Caller \in Frame
  BY <1>1, <1>2, <1>3, <1>7, ElementOfSeq
<1>9. Distinct(Caller.held)
  BY <1>2, <1>3, <1>7 DEF IInv, NoClobber, Distinct
<1>10. HeldBy(Caller) \subseteq Waiting
  BY <1>3, <1>5, <1>7 DEF HeldBy
<1>11. Caller.next + 1 \in DOMAIN Operands(Caller.node)
  BY <1>6, <1>7, <1>8, Shape DEF WellShaped, Frame
<1>12. /\ Caller.node.kind \in ExprKinds => Top.node.kind \in ExprKinds
       /\ Caller.node.kind \in Holdless => Top.node.kind \notin ExprKinds
  BY <1>6, <1>7, <1>8, <1>11, Shape DEF WellShaped, Frame
<1>13. Caller.node.kind \in Holdless => Caller.held = <<>>
  BY <1>2, <1>3, <1>7 DEF IInv, WalkInv
<1> QED
  BY <1>1, <1>3, <1>7, <1>8, <1>9, <1>10, <1>12, <1>13

(* An expression returns a register of its own to its caller. *)
LEMMA ReturnRegPreserves ==
  ASSUME IInv, Kind \in ExprKinds, NEW r \in Regs, r \notin Waiting,
         ReturnReg(r), Accounts({r}),
         cur_label' \in Int,
         status' \in {"running", "done"} \cup Errors
  PROVE  IInv'
<1> DEFINE f == [Caller EXCEPT !.next = @ + 1, !.held = Append(@, r)]
<1>1. Kind # "PROGRAM"
  BY DEF ExprKinds, Arithmetic, Comparison, Logical, Step, Leaf, Literal
<1>2. Caller \in Frame /\ Caller.held \in Seq(Int) /\ Caller.next \in Nat
  BY <1>1, CallerFacts DEF Frame
<1>3. r \in Int
  BY DEF Regs
<1>4. /\ f.held = Append(Caller.held, r) /\ f.node = Caller.node
      /\ f.next = Caller.next + 1
  BY <1>2 DEF Frame
<1>5. /\ f.held \in Seq(Int) /\ Len(f.held) = Len(Caller.held) + 1
      /\ \A j \in DOMAIN f.held :
           \/ j \in DOMAIN Caller.held /\ f.held[j] = Caller.held[j]
           \/ j = Len(Caller.held) + 1 /\ f.held[j] = r
      /\ \A j \in DOMAIN Caller.held : j \in DOMAIN f.held /\ f.held[j] = Caller.held[j]
      /\ Len(Caller.held) + 1 \in DOMAIN f.held
      /\ f.held[Len(Caller.held) + 1] = r
  BY <1>2, <1>3, <1>4
<1>6. f \in Frame
  <2>1. Append(Caller.held, r) \in Seq(Int) /\ Caller.next + 1 \in Nat
    BY <1>2, <1>3
  <2> QED
    BY <1>2, <2>1 DEF Frame
<1> HIDE DEF f
<1>7. HeldBy(f) = HeldBy(Caller) \cup {r}
  <2>1. \A q \in HeldBy(f) : q \in HeldBy(Caller) \cup {r}
    BY <1>5 DEF HeldBy
  <2>2. \A q \in HeldBy(Caller) \cup {r} : q \in HeldBy(f)
    BY <1>5 DEF HeldBy
  <2> QED
    BY <2>1, <2>2
<1>8. r \notin HeldBy(Caller)
  BY <1>1, CallerFacts
<1>9. Distinct(f.held)
  BY <1>1, <1>5, <1>8, CallerFacts DEF Distinct, HeldBy
<1>10. f.node.kind \notin Holdless
  BY <1>1, <1>4, CallerFacts DEF Kind
<1>11. ReturnTo(f)
  BY DEF ReturnReg, f
<1> QED
  BY <1>1, <1>4, <1>5, <1>6, <1>7, <1>9, <1>10, <1>11, PopPreserves

(* A statement or a declaration returns with nothing held. *)
LEMMA ReturnPreserves ==
  ASSUME IInv, Kind \notin ExprKinds, Kind # "PROGRAM", Return, Accounts({}),
         cur_label' \in Int,
         status' \in {"running", "done"} \cup Errors
  PROVE  IInv'
<1> DEFINE f == [Caller EXCEPT !.next = @ + 1]
<1>1. Caller \in Frame
  BY CallerFacts
<1>2. f \in Frame /\ f.held = Caller.held /\ f.node = Caller.node
      /\ f.next = Caller.next + 1
  BY <1>1 DEF Frame
<1>3. ReturnTo(f)
  BY DEF Return
<1> HIDE DEF f
<1>4. HeldBy(f) = HeldBy(Caller) \cup {}
  BY <1>2 DEF HeldBy
<1>5. /\ f.node.kind \notin ExprKinds /\ Distinct(f.held)
      /\ f.node.kind \in Holdless => f.held = <<>>
  BY <1>2, CallerFacts DEF Kind
<1> QED
  BY <1>2, <1>3, <1>4, <1>5, PopPreserves

(* A handler evaluates its next operand and keeps what it holds. *)
LEMMA CallKeeping ==
  ASSUME IInv, NEW f \in Frame,
         f.node = Top.node, f.next = Top.next, f.held = Top.held,
         Top.next < Len(Operands(Top.node)),
         Kind = "TERNARY1" => Top.next <= 1,
         Call(f), KeepScratch,
         cur_label' \in Int,
         status' \in {"running", "done"} \cup Errors
  PROVE  IInv'
<1>1. HeldBy(f) = HeldSet
  BY DEF HeldBy, HeldSet
<1>2. Accounts(HeldBy(f)) /\ HeldBy(f) \cap Waiting = {}
  BY <1>1, KeepAccounts, TopFacts
<1>3. Distinct(f.held)
  <2>1. Len(stack) \in DOMAIN stack /\ Top = stack[Len(stack)]
    BY TopFacts
  <2> QED
    BY <2>1 DEF IInv, NoClobber, Distinct
<1>4. f.node.kind \in ExprKinds => Len(f.held) = WaitingCount(f)
  <2>1. TopCount(Top) = WaitingCount(f)
    BY TopFacts DEF TopCount, WaitingCount, Kind
  <2> QED
    BY <2>1, TopFacts DEF Kind
<1>5. f.node.kind \in Holdless => f.held = <<>>
  BY TopFacts DEF IInv, WalkInv
<1> QED
  BY <1>2, <1>3, <1>4, <1>5, PushPreserves

(* A statement frees what it holds, then evaluates its next operand. *)
LEMMA CallEmptied ==
  ASSUME IInv, Kind \notin ExprKinds,
         Top.next < Len(Operands(Top.node)),
         Call(Emptied), FreeHeld,
         cur_label' \in Int,
         status' \in {"running", "done"} \cup Errors
  PROVE  IInv'
<1> DEFINE f == Emptied
<1>1. f \in Frame /\ f.node = Top.node /\ f.next = Top.next /\ f.held = <<>>
  <2>1. <<>> \in Seq(Int)
    OBVIOUS
  <2> QED
    BY <2>1, TopFacts DEF Emptied, Frame
<1>2. HeldBy(f) = {} /\ Distinct(f.held)
  BY <1>1 DEF HeldBy, Distinct
<1>3. Accounts(HeldBy(f))
  <2>1. Accounts(HeldSet \ HeldSet)
    BY FreeAccounts DEF FreeHeld
  <2>2. HeldSet \ HeldSet = HeldBy(f)
    BY <1>2
  <2> QED
    BY <2>1, <2>2
<1> HIDE DEF f
<1>4. Call(f)
  BY DEF f
<1> QED
  BY <1>1, <1>2, <1>3, <1>4, PushPreserves DEF Kind

(* A print statement has printed an operand. *)
LEMMA StayPreserves ==
  ASSUME IInv, Kind \notin ExprKinds,
         stack' = [stack EXCEPT ![Len(stack)] = Emptied], Accounts({}),
         cur_label' \in Int,
         status' \in {"running", "done"} \cup Errors
  PROVE  IInv'
<1> DEFINE n == Len(stack)
           f == Emptied
<1>1. n \in Nat \ {0}
  BY TopFacts
<1>2. stack \in Seq(Frame) /\ Top = stack[n] /\ DOMAIN stack = 1 .. n
  BY TopFacts
<1>3. f \in Frame /\ f.node = Top.node /\ f.next = Top.next /\ f.held = <<>>
  <2>1. <<>> \in Seq(Int)
    OBVIOUS
  <2> QED
    BY <2>1, TopFacts DEF Emptied, Frame
<1>4. n = Len(stack) /\ stack' = [stack EXCEPT ![n] = f]
  OBVIOUS
<1> HIDE DEF n, f
<1>5. n \in 1 .. n /\ \A i \in 1 .. n - 1 : i \in 1 .. n /\ i # n
  BY <1>1, Below
<1>6. /\ stack' \in Seq(Frame) /\ Len(stack') = n /\ stack'[n] = f
      /\ \A i \in 1 .. n - 1 : stack'[i] = stack[i]
  <2>1. stack \in Seq(Frame) /\ Len(stack) = n
    BY <1>2, <1>4
  <2>2. stack' = [stack EXCEPT ![n] = f]
    BY <1>4
  <2> QED
    BY <1>3, <1>5, <2>1, <2>2, ExceptSeq
<1>7. \A i : i \in DOMAIN stack' <=> i \in 1 .. n - 1 \/ i = n
  BY <1>1, <1>6
<1>8. \A i \in DOMAIN stack' : /\ i \in DOMAIN stack
                               /\ stack'[i].node = stack[i].node
                               /\ stack'[i].next = stack[i].next
                               /\ i = n \/ stack'[i] = stack[i]
  <2>1. \A i \in DOMAIN stack' : i = n \/ stack'[i] = stack[i]
    BY <1>6, <1>7
  <2>2. stack'[n].node = stack[n].node /\ stack'[n].next = stack[n].next
    BY <1>2, <1>3, <1>6
  <2>3. \A i \in DOMAIN stack' : i \in DOMAIN stack
    BY <1>2, <1>5, <1>7
  <2> QED
    BY <2>1, <2>2, <2>3
<1>9. TypeOK'
  <2>1. ScratchTypeOK'
    BY DEF ScratchTypeOK, Accounts, IInv
  <2> QED
    BY <2>1, <1>6 DEF TypeOK
<1>10. WalkInv'
  <2>1. stack' # <<>> /\ stack'[1].node.kind = "PROGRAM"
    <3>1. stack[1].node.kind = "PROGRAM"
      BY DEF IInv, WalkInv
    <3>2. 1 \in 1 .. n - 1 \/ 1 = n
      BY <1>1
    <3>3. stack'[1].node = stack[1].node
      BY <3>2, <1>7, <1>8
    <3>4. Len(stack') # 0
      BY <1>1, <1>6
    <3>5. stack' # <<>>
      BY <3>4
    <3> QED
      BY <3>1, <3>3, <3>5
  <2>2. ASSUME NEW i \in 1 .. n - 1
        PROVE  /\ stack'[i].next < Len(Operands(stack'[i].node))
               /\ stack'[i + 1].node = Operands(stack'[i].node)[stack'[i].next + 1]
               /\ stack'[i].node.kind \in ExprKinds =>
                    Len(stack'[i].held) = WaitingCount(stack'[i])
    <3>1. /\ stack[i].next < Len(Operands(stack[i].node))
          /\ stack[i + 1].node = Operands(stack[i].node)[stack[i].next + 1]
          /\ stack[i].node.kind \in ExprKinds =>
               Len(stack[i].held) = WaitingCount(stack[i])
      BY DEF IInv, WalkInv, n
    <3>2. i + 1 = n \/ i + 1 \in 1 .. n - 1
      BY <1>1
    <3>3. stack'[i + 1].node = stack[i + 1].node
      BY <3>2, <1>7, <1>8
    <3> QED
      BY <3>1, <3>3, <1>6
  <2>3. /\ Top'.next <= Len(Operands(Top'.node))
        /\ Kind' \in ExprKinds => Len(Top'.held) = TopCount(Top')
    <3>1. Top' = f
      BY <1>6 DEF Top
    <3> QED
      BY <3>1, <1>3, TopFacts DEF Kind
  <2>4. \A i \in DOMAIN stack' :
          stack'[i].node.kind \in Holdless => stack'[i].held = <<>>
    BY <1>3, <1>6, <1>8 DEF IInv, WalkInv
  <2> QED
    BY <2>1, <2>2, <2>3, <2>4, <1>6 DEF WalkInv
<1>11. stack'[n].held = <<>>
  BY <1>3, <1>6
<1>12. NoClobber'
  <2>1. \A i \in DOMAIN stack' : \A j \in DOMAIN stack'[i].held :
          i # n /\ i \in DOMAIN stack /\ stack'[i] = stack[i]
    BY <1>8, <1>11
  <2> QED
    BY <2>1 DEF IInv, NoClobber
<1>13. ExactOwnership'
  <2> DEFINE HoldsNext(i, r) ==
               \E j \in DOMAIN stack'[i].held : stack'[i].held[j] = r
  <2>1. \A r : ~ HoldsNext(n, r)
    BY <1>11
  <2>2. \A r : \A i \in 1 .. n - 1 : HoldsNext(i, r) <=> Holds(i, r)
    BY <1>6 DEF Holds
  <2>3. \A r \in Regs : r \in Taken' <=> r \in Waiting
    BY DEF Taken, Accounts, Regs
  <2>4. \A r \in Regs : r \in Waiting <=> \E i \in 1 .. n - 1 : Holds(i, r)
    BY Zenon DEF Waiting, n
  <2>5. \A i \in DOMAIN stack' : \A j \in DOMAIN stack'[i].held :
          stack'[i].held[j] \in Regs
    BY <1>8, <1>11 DEF IInv, ExactOwnership
  <2> HIDE DEF HoldsNext
  <2>6. \A r \in Regs : r \in Taken' <=> \E i \in DOMAIN stack' : HoldsNext(i, r)
    BY <2>1, <2>2, <2>3, <2>4, <1>7, Zenon
  <2> QED
    BY <2>5, <2>6 DEF ExactOwnership, Regs, Holds, HoldsNext
<1> QED
  BY <1>9, <1>10, <1>12, <1>13 DEF IInv, Accounts

(***************************************************************************)
(* Every action preserves the invariant.                                   *)
(***************************************************************************)
(* What every action but an exit does to status and the label counter. *)
LEMMA ContinueFacts ==
  ASSUME IInv
  PROVE  /\ Continue => status' \in {"running", "done"} \cup Errors
         /\ cur_label \in Int
BY DEF IInv, TypeOK, Continue

(* An operator keeps one register and frees the others. *)
LEMMA KeepsOne ==
  ASSUME IInv, NEW keep \in DOMAIN Top.held,
         scratch_free({Top.held[i] : i \in DOMAIN Top.held \ {keep}})
  PROVE  /\ Accounts({Top.held[keep]})
         /\ Top.held[keep] \in Regs /\ Top.held[keep] \notin Waiting
<1> DEFINE S == {Top.held[i] : i \in DOMAIN Top.held \ {keep}}
<1>1. Top.held[keep] \in HeldSet /\ S \subseteq HeldSet
  BY DEF HeldSet
<1>2. HeldSet \ S = {Top.held[keep]}
  <2>1. Distinct(Top.held)
    <3>1. Len(stack) \in DOMAIN stack /\ Top = stack[Len(stack)]
      BY TopFacts
    <3> QED
      BY <3>1 DEF IInv, NoClobber, Distinct
  <2> QED
    BY <2>1 DEF HeldSet, Distinct
<1> QED
  BY <1>1, <1>2, FreeAccounts, TopFacts

(* The last portion of an operator, for whichever operand it keeps. *)
LEMMA FinishPreserves ==
  ASSUME IInv, Kind \in ExprKinds, NEW keep, keep = 1 \/ keep = 2,
         Len(Operands(Top.node)) >= keep, Kind # "TERNARY1",
         NEW code, NEW labels \in Int, FinishWith(keep, code, labels)
  PROVE  IInv'
<1>1. Len(Top.held) = Len(Operands(Top.node)) /\ Len(Top.held) \in Nat
  BY TopFacts DEF FinishWith, Evaluated, TopCount, Kind
<1>2. keep \in DOMAIN Top.held
  BY <1>1, TopFacts
<1>3. scratch_free({Top.held[i] : i \in DOMAIN Top.held \ {keep}})
  BY DEF FinishWith
<1>4. /\ Accounts({Top.held[keep]})
      /\ Top.held[keep] \in Regs /\ Top.held[keep] \notin Waiting
  BY <1>2, <1>3, KeepsOne
<1>5. ReturnReg(Top.held[keep]) /\ Continue /\ cur_label' = cur_label + labels
  BY DEF FinishWith
<1>6. cur_label' \in Int /\ status' \in {"running", "done"} \cup Errors
  BY <1>5, ContinueFacts
<1> QED
  BY <1>4, <1>5, <1>6, ReturnRegPreserves

(* The kinds of expressions, of statements and of declarations. *)
LEMMA KindFacts ==
  /\ KeepsLeft \cup KeepsRight \cup Unary \cup Step \cup Leaf \subseteq ExprKinds
  /\ {"ASSIGN", "TERNARY1", "FCALL", "EXPONENT"} \subseteq ExprKinds
  /\ "TERNARY1" \notin KeepsLeft \cup KeepsRight \cup Unary \cup Step \cup Leaf
  /\ \A k \in StmtKinds \cup DeclKinds \cup {"NONE"} : k \notin ExprKinds
BY DEF KeepsLeft, KeepsRight, Unary, Step, Leaf, Literal, ExprKinds, Arithmetic,
       Comparison, Logical, StmtKinds, DeclKinds

(* The operators of expr_codegen, one case per family. *)
LEMMA OperatorsPreserve ==
  ASSUME IInv,
         FinishLeft \/ FinishRight \/ FinishUnary \/ FinishStep \/ FinishAssign
  PROVE  IInv'
<1>1. WellShaped(Top.node)
  BY TopFacts, Shape
<1>2. CASE FinishLeft
  <2>1. Kind \in ExprKinds /\ Kind # "TERNARY1" /\ Len(Operands(Top.node)) = 2
    BY <1>1, <1>2, KindFacts DEF FinishLeft, WellShaped, Kind
  <2> QED
    BY <1>2, <2>1, FinishPreserves DEF FinishLeft
<1>3. CASE FinishRight
  <2>1. Kind \in ExprKinds /\ Kind # "TERNARY1" /\ Len(Operands(Top.node)) = 2
    BY <1>1, <1>3, KindFacts DEF FinishRight, WellShaped, Kind
  <2> QED
    BY <1>3, <2>1, FinishPreserves DEF FinishRight
<1>4. CASE FinishUnary
  <2>1. Kind \in ExprKinds /\ Kind # "TERNARY1" /\ Len(Operands(Top.node)) = 1
    BY <1>1, <1>4, KindFacts DEF FinishUnary, WellShaped, Kind
  <2> QED
    BY <1>4, <2>1, FinishPreserves DEF FinishUnary
<1>5. CASE FinishStep
  <2>1. Kind \in ExprKinds /\ Kind # "TERNARY1" /\ Len(Operands(Top.node)) >= 1
    BY <1>1, <1>5, KindFacts DEF FinishStep, WellShaped, Kind
  <2> QED
    BY <1>5, <2>1, FinishPreserves DEF FinishStep
<1>6. CASE FinishAssign
  <2>1. Kind \in ExprKinds /\ Kind # "TERNARY1" /\ Len(Operands(Top.node)) >= 1
    BY <1>1, <1>6, KindFacts DEF FinishAssign, WellShaped, Kind
  <2> QED
    BY <1>6, <2>1, FinishPreserves DEF FinishAssign
<1> QED
  BY <1>2, <1>3, <1>4, <1>5, <1>6

(* The two actions that take a register: a leaf and a call. *)
LEMMA LeavesAndCallsPreserve ==
  ASSUME IInv, NEW r \in Regs, LoadLeaf(r) \/ CallFunction(r)
  PROVE  IInv'
<1>1. CASE LoadLeaf(r)
  <2>1. Kind \in ExprKinds /\ Kind # "TERNARY1" /\ Kind \in Leaf
    BY <1>1, KindFacts DEF LoadLeaf
  <2>2. Len(Top.held) = 0
    BY <2>1, TopFacts, Shape DEF WellShaped, TopCount, Kind
  <2>3. HeldSet = {}
    BY <2>2, TopFacts DEF HeldSet
  <2>4. Accounts({r}) /\ r \notin Waiting
    BY <1>1, <2>3, AllocAccounts DEF LoadLeaf
  <2>5. cur_label' \in Int /\ status' \in {"running", "done"} \cup Errors
    BY <1>1, ContinueFacts DEF LoadLeaf
  <2> QED
    BY <1>1, <2>1, <2>4, <2>5, ReturnRegPreserves DEF LoadLeaf
<1>2. CASE CallFunction(r)
  <2>1. Kind \in ExprKinds
    BY <1>2, KindFacts DEF CallFunction
  <2>2. Accounts({r}) /\ r \notin Waiting
    BY <1>2, CallAccounts DEF CallFunction
  <2>3. cur_label' \in Int /\ status' \in {"running", "done"} \cup Errors
    BY <1>2, ContinueFacts DEF CallFunction
  <2> QED
    BY <1>2, <2>1, <2>2, <2>3, ReturnRegPreserves DEF CallFunction
<1> QED
  BY <1>1, <1>2

(* Evaluating the next operand, and the three portions of a ternary. *)
LEMMA TernaryPreserves ==
  ASSUME IInv, EvaluateOperand \/ TernaryTest \/ TernaryFirst \/ TernarySecond
  PROVE  IInv'
<1>1. WellShaped(Top.node)
  BY TopFacts, Shape
<1>2. CASE EvaluateOperand
  <2>1. Top.next < Len(Operands(Top.node))
    BY <1>1, <1>2, TopFacts DEF EvaluateOperand, Evaluated, WellShaped
  <2>2. Kind = "TERNARY1" => Top.next <= 1
    BY <1>2, KindFacts DEF EvaluateOperand, StmtKinds, DeclKinds
  <2>3. Call(Top) /\ KeepScratch /\ cur_label' \in Int
        /\ status' \in {"running", "done"} \cup Errors
    BY <1>2, ContinueFacts DEF EvaluateOperand, KeepOutput
  <2> QED
    BY <2>1, <2>2, <2>3, TopFacts, CallKeeping
<1>3. CASE TernaryTest
  <2> DEFINE f == [Top EXCEPT !.lab = cur_label + 1]
  <2>1. Kind = "TERNARY1" /\ Top.next = 1 /\ Call(f) /\ KeepScratch
        /\ cur_label' \in Int /\ status' \in {"running", "done"} \cup Errors
    BY <1>3, ContinueFacts DEF TernaryTest
  <2>2. Top.next < Len(Operands(Top.node))
    BY <1>1, <2>1 DEF WellShaped, Kind
  <2>3. f \in Frame /\ f.node = Top.node /\ f.next = Top.next /\ f.held = Top.held
    <3>1. Top \in Frame
      BY TopFacts
    <3>2. cur_label + 1 \in Int
      BY ContinueFacts
    <3> QED
      BY <3>1, <3>2 DEF Frame
  <2> HIDE DEF f
  <2> QED
    BY <2>1, <2>2, <2>3, CallKeeping
<1>4. CASE TernaryFirst
  <2> DEFINE f == [Top EXCEPT !.held = <<Top.held[1]>>]
  <2>1. Kind = "TERNARY1" /\ Top.next = 2 /\ Call(f) /\ scratch_free({Top.held[2]})
        /\ cur_label' \in Int /\ status' \in {"running", "done"} \cup Errors
    BY <1>4, ContinueFacts DEF TernaryFirst
  <2>2. Len(Top.held) = 2 /\ Top.next < Len(Operands(Top.node))
    BY <1>1, <2>1, KindFacts, TopFacts DEF WellShaped, Kind, TopCount
  <2>3. Top.held \in Seq(Int) /\ DOMAIN Top.held = 1 .. 2
    BY <2>2, TopFacts
  <2>4. <<Top.held[1]>> \in Seq(Int)
    BY <2>3
  <2>5. f \in Frame /\ f.node = Top.node /\ f.next = Top.next
        /\ f.held = <<Top.held[1]>>
    BY <2>4, TopFacts DEF Frame
  <2>6. HeldBy(f) = {Top.held[1]} /\ Distinct(f.held) /\ Len(f.held) = 1
    BY <2>5 DEF HeldBy, Distinct
  <2>7. {Top.held[i] : i \in DOMAIN Top.held \ {1}} = {Top.held[2]}
    BY <2>3
  <2>8. /\ Accounts({Top.held[1]})
        /\ Top.held[1] \in Regs /\ Top.held[1] \notin Waiting
    <3>1. 1 \in DOMAIN Top.held
      BY <2>3
    <3>2. scratch_free({Top.held[i] : i \in DOMAIN Top.held \ {1}})
      BY <2>1, <2>7
    <3> QED
      BY <3>1, <3>2, KeepsOne
  <2>9. f.node.kind = "TERNARY1" /\ f.next = 2
    BY <2>1, <2>5 DEF Kind
  <2>10. WaitingCount(f) = 1 /\ f.node.kind \notin Holdless
    BY <2>9 DEF WaitingCount, Holdless
  <2> HIDE DEF f
  <2> QED
    BY <2>1, <2>2, <2>5, <2>6, <2>8, <2>10, PushPreserves
<1>5. CASE TernarySecond
  <2>1. Kind = "TERNARY1" /\ Top.next = 3 /\ ReturnReg(Top.held[1])
        /\ scratch_free({Top.held[2]})
        /\ cur_label' \in Int /\ status' \in {"running", "done"} \cup Errors
    BY <1>5, ContinueFacts DEF TernarySecond
  <2>2. Len(Top.held) = 2
    BY <2>1, KindFacts, TopFacts DEF TopCount, Kind
  <2>3. Top.held \in Seq(Int) /\ DOMAIN Top.held = 1 .. 2
    BY <2>2, TopFacts
  <2>4. {Top.held[i] : i \in DOMAIN Top.held \ {1}} = {Top.held[2]}
    BY <2>3
  <2>5. /\ Accounts({Top.held[1]})
        /\ Top.held[1] \in Regs /\ Top.held[1] \notin Waiting
    <3>1. 1 \in DOMAIN Top.held
      BY <2>3
    <3>2. scratch_free({Top.held[i] : i \in DOMAIN Top.held \ {1}})
      BY <2>1, <2>4
    <3> QED
      BY <3>1, <3>2, KeepsOne
  <2> QED
    BY <2>1, <2>5, KindFacts, ReturnRegPreserves
<1> QED
  BY <1>2, <1>3, <1>4, <1>5

(* The statements that push the next operand, or return. *)
LEMMA StatementsPreserve ==
  ASSUME IInv, Statement
  PROVE  IInv'
<1>1. WellShaped(Top.node)
  BY TopFacts, Shape
<1>2. ASSUME Kind \notin ExprKinds, FreeHeld
      PROVE  Accounts({})
  <2>1. Accounts(HeldSet \ HeldSet)
    BY <1>2, FreeAccounts DEF FreeHeld
  <2>2. HeldSet \ HeldSet = {}
    OBVIOUS
  <2> QED
    BY <2>1, <2>2
<1>3. ASSUME Kind \in Holdless, KeepScratch
      PROVE  Accounts({})
  <2>1. Top.held = <<>>
    BY <1>3, TopFacts DEF IInv, WalkInv, Kind
  <2>2. HeldSet = {}
    BY <2>1 DEF HeldSet
  <2> QED
    BY <1>3, <2>2, KeepAccounts
<1>4. CASE SkipNull \/ StmtBlock
  <2>1. Kind \in Holdless /\ Kind \notin ExprKinds /\ Kind # "PROGRAM"
    BY <1>4, KindFacts DEF SkipNull, StmtBlock, Holdless, StmtKinds
  <2>2. Return /\ KeepScratch /\ cur_label' \in Int
        /\ status' \in {"running", "done"} \cup Errors
    BY <1>4, ContinueFacts DEF SkipNull, StmtBlock, KeepOutput
  <2> QED
    BY <2>1, <2>2, <1>3, ReturnPreserves
<1>5. CASE StmtExpr \/ StmtReturn \/ StmtDecl \/ IfDone \/ ForLoop
  <2>1. Kind \in {"EXPR", "RETURN", "DECL", "IF_ELSE", "FOR"}
    BY <1>5 DEF StmtExpr, StmtReturn, StmtDecl, IfDone, ForLoop, BranchStep
  <2>2. Kind \notin ExprKinds /\ Kind # "PROGRAM"
    BY <2>1, KindFacts DEF StmtKinds
  <2>3. Return /\ FreeHeld /\ cur_label' \in Int
        /\ status' \in {"running", "done"} \cup Errors
    BY <1>5, ContinueFacts
       DEF StmtExpr, StmtReturn, StmtDecl, IfDone, ForLoop, BranchStep, KeepOutput
  <2> QED
    BY <2>2, <2>3, <1>2, ReturnPreserves
<1>6. CASE PrintOperand
  <2>1. Kind = "PRINT" /\ ~ Evaluated /\ Call(Top) /\ KeepScratch
        /\ cur_label' \in Int /\ status' \in {"running", "done"} \cup Errors
    BY <1>6, ContinueFacts DEF PrintOperand, KeepOutput
  <2>2. Top.next < Len(Operands(Top.node))
    BY <1>1, <2>1, TopFacts DEF Evaluated, WellShaped
  <2> QED
    BY <2>1, <2>2, TopFacts, CallKeeping
<1>7. ASSUME NEW r \in Regs, PrintCall(r)
      PROVE  IInv'
  <2>1. Kind \notin ExprKinds
    BY <1>7, KindFacts DEF PrintCall, StmtKinds
  <2>2. Accounts({})
    BY <1>7, CallAccounts DEF PrintCall
  <2>3. /\ stack' = [stack EXCEPT ![Len(stack)] = Emptied]
        /\ cur_label' \in Int /\ status' \in {"running", "done"} \cup Errors
    BY <1>7, ContinueFacts DEF PrintCall
  <2> QED
    BY <2>1, <2>2, <2>3, StayPreserves
<1>8. CASE PrintDone
  <2>1. Kind \notin ExprKinds /\ Kind # "PROGRAM" /\ HeldSet = {}
    BY <1>8, KindFacts DEF PrintDone, StmtKinds, HeldSet
  <2>2. Return /\ Accounts({}) /\ cur_label' \in Int
        /\ status' \in {"running", "done"} \cup Errors
    BY <1>8, <2>1, KeepAccounts, ContinueFacts DEF PrintDone, KeepOutput
  <2> QED
    BY <2>1, <2>2, ReturnPreserves
<1>9. CASE BranchEnter
  <2> DEFINE f == [Top EXCEPT !.lab = cur_label + 1]
  <2>1. Kind \in {"IF_ELSE", "FOR"} /\ Top.next = 0 /\ Call(f) /\ KeepScratch
        /\ cur_label' \in Int /\ status' \in {"running", "done"} \cup Errors
    BY <1>9, ContinueFacts DEF BranchEnter
  <2>2. Top.next < Len(Operands(Top.node)) /\ Kind # "TERNARY1"
    <3>1. Len(Operands(Top.node)) \in {3, 4}
      BY <1>1, <2>1 DEF WellShaped, Kind
    <3> QED
      BY <2>1, <3>1
  <2>3. f \in Frame /\ f.node = Top.node /\ f.next = Top.next /\ f.held = Top.held
    <3>1. Top \in Frame
      BY TopFacts
    <3>2. cur_label + 1 \in Int
      BY ContinueFacts
    <3> QED
      BY <3>1, <3>2 DEF Frame
  <2> HIDE DEF f
  <2> QED
    BY <2>1, <2>2, <2>3, CallKeeping
<1>10. CASE IfTest \/ IfElse \/ ForTop \/ ForTest \/ ForNext
  <2>1. \/ Kind = "IF_ELSE" /\ Top.next \in {1, 2}
        \/ Kind = "FOR" /\ Top.next \in {1, 2, 3}
    BY <1>10 DEF IfTest, IfElse, ForTop, ForTest, ForNext, BranchStep
  <2>2. Kind \notin ExprKinds /\ Top.next < Len(Operands(Top.node))
    <3>1. Kind \notin ExprKinds
      BY <2>1, KindFacts DEF StmtKinds
    <3>2. /\ Kind = "IF_ELSE" => Len(Operands(Top.node)) = 3
          /\ Kind = "FOR" => Len(Operands(Top.node)) = 4
      BY <1>1 DEF WellShaped, Kind
    <3>3. ASSUME Kind = "IF_ELSE", Top.next \in {1, 2}
          PROVE  Top.next < Len(Operands(Top.node))
      BY <3>2, <3>3
    <3>4. ASSUME Kind = "FOR", Top.next \in {1, 2, 3}
          PROVE  Top.next < Len(Operands(Top.node))
      <4>1. Len(Operands(Top.node)) = 4
        BY <3>2, <3>4
      <4>2. Top.next = 1 \/ Top.next = 2 \/ Top.next = 3
        BY <3>4
      <4> QED
        BY <4>1, <4>2
    <3>5. Top.next < Len(Operands(Top.node))
      BY <2>1, <3>3, <3>4
    <3> QED
      BY <3>1, <3>5
  <2>3. Call(Emptied) /\ FreeHeld /\ cur_label' \in Int
        /\ status' \in {"running", "done"} \cup Errors
    BY <1>10, ContinueFacts
       DEF IfTest, IfElse, ForTop, ForTest, ForNext, BranchStep
  <2> QED
    BY <2>2, <2>3, CallEmptied
<1> QED
  BY <1>4, <1>5, <1>6, <1>7, <1>8, <1>9, <1>10 DEF Statement

(* decl_codegen_global: a function, a prototype, a variable, and the end. *)
LEMMA DeclarationsPreserve ==
  ASSUME IInv, Declaration
  PROVE  IInv'
<1>1. WellShaped(Top.node)
  BY TopFacts, Shape
<1>2. CASE FunctionPrologue
  <2>1. Kind = "FUNCTION" /\ Top.next = 0 /\ Call(Top) /\ KeepScratch
        /\ cur_label' \in Int /\ status' \in {"running", "done"} \cup Errors
    BY <1>2, ContinueFacts DEF FunctionPrologue
  <2>2. Top.next < Len(Operands(Top.node))
    BY <1>1, <2>1 DEF WellShaped, Kind
  <2> QED
    BY <2>1, <2>2, TopFacts, CallKeeping
<1>3. CASE FunctionEpilogue \/ Prototype \/ GlobalData
  <2>1. Kind \in {"FUNCTION", "PROTOTYPE", "DATA"}
    BY <1>3 DEF FunctionEpilogue, Prototype, GlobalData
  <2>2. Kind \notin ExprKinds /\ Kind # "PROGRAM" /\ Kind \in Holdless
    BY <2>1, KindFacts DEF DeclKinds, Holdless
  <2>3. Return /\ KeepScratch /\ cur_label' \in Int
        /\ status' \in {"running", "done"} \cup Errors
    BY <1>3, ContinueFacts DEF FunctionEpilogue, Prototype, GlobalData
  <2>4. Top.held = <<>>
    BY <2>2, TopFacts DEF IInv, WalkInv, Kind
  <2>5. HeldSet = {}
    BY <2>4 DEF HeldSet
  <2>6. Accounts({})
    BY <2>3, <2>5, KeepAccounts
  <2> QED
    BY <2>2, <2>3, <2>6, ReturnPreserves
<1>4. CASE Finish
  BY <1>4 DEF Finish, IInv, TypeOK, ScratchTypeOK, WalkInv, NoClobber,
              ExactOwnership, Taken, Holds, Top, Kind
<1> QED
  BY <1>2, <1>3, <1>4 DEF Declaration

(* An exit changes nothing but the status. *)
LEMMA ExitPreserves ==
  ASSUME IInv, Exit \/ UNCHANGED vars
  PROVE  IInv'
<1>1. UNCHANGED <<stack, cur_label, reg_free_map, NUM_REGS>>
  BY DEF Exit, Exhausted, UnknownRegister, TooManyArguments, Unprintable,
         ArrayNotImplemented, ElementTypeMissing, Abort, vars
<1>2. status' \in {"running", "done"} \cup Errors
  BY DEF Exit, Exhausted, UnknownRegister, TooManyArguments, Unprintable,
         ArrayNotImplemented, ElementTypeMissing, Abort, vars, Errors, IInv, TypeOK
<1> QED
  BY <1>1, <1>2 DEF IInv, TypeOK, ScratchTypeOK, WalkInv, NoClobber,
                    ExactOwnership, Taken, Holds, Top, Kind

(* The first activation is the program's, every register is free and none  *)
(* is held, so the invariant holds before the walk starts.                 *)
LEMMA InitHolds ==
  ASSUME CodegenInit
  PROVE  IInv
<1>1. PICK p \in Programs : stack = <<Activation(p)>>
  BY DEF CodegenInit
<1>2. p \in Nodes /\ p.kind = "PROGRAM"
  BY NodesAssumption
<1>3. /\ Activation(p) \in Frame
      /\ Activation(p).node = p /\ Activation(p).next = 0
      /\ Activation(p).held = <<>>
  BY <1>2 DEF Activation, Frame
<1>4. /\ stack \in Seq(Frame) /\ Len(stack) = 1 /\ stack[1] = Activation(p)
      /\ DOMAIN stack = {1} /\ stack # <<>>
  BY <1>1, <1>3
<1>5. Top = Activation(p)
  BY <1>4 DEF Top
<1>6. TypeOK /\ NUM_REGS = NumRegs
  BY <1>4, NumRegsAssumption
     DEF CodegenInit, ScratchInit, TypeOK, ScratchTypeOK
<1>7. WalkInv
  <2>1. Len(Operands(p)) \in Nat
    BY <1>2, Shape DEF WellShaped
  <2>2. "PROGRAM" \notin ExprKinds
    BY KindFacts DEF DeclKinds
  <2>3. Top.next <= Len(Operands(Top.node)) /\ Kind \notin ExprKinds
    BY <1>2, <1>3, <1>5, <2>1, <2>2 DEF Kind
  <2>4. \A i \in 1 .. Len(stack) - 1 : FALSE
    BY <1>4
  <2> QED
    BY <1>2, <1>3, <1>4, <2>3, <2>4 DEF WalkInv
<1>8. NoClobber
  BY <1>3, <1>4 DEF NoClobber
<1>9. ExactOwnership
  <2>1. \A i \in DOMAIN stack : stack[i].held = <<>>
    BY <1>3, <1>4
  <2>2. \A r \in Regs : reg_free_map[r] = 1
    BY DEF CodegenInit, ScratchInit
  <2>3. Taken = {}
    BY <2>2 DEF Taken
  <2> QED
    BY <2>1, <2>3 DEF ExactOwnership, Holds
<1> QED
  BY <1>6, <1>7, <1>8, <1>9 DEF IInv

(* Every step of the walk keeps the invariant, as long as the tree has no  *)
(* GROUP node, the only one whose register is not its own.                 *)
LEMMA StepPreserves ==
  ASSUME IInv, Ungrouped, [Next]_vars
  PROVE  IInv'
<1>1. Kind # "GROUP"
  BY TopFacts DEF Ungrouped, Kind, Frame
<1>2. \A g \in Garbage : ~ FinishGroup(g)
  BY <1>1 DEF FinishGroup
<1>3. CASE Expression
  <2>1. CASE \/ FinishLeft \/ FinishRight \/ FinishUnary
             \/ FinishStep \/ FinishAssign
    BY <2>1, OperatorsPreserve
  <2>2. ASSUME NEW r \in Regs, LoadLeaf(r) \/ CallFunction(r)
        PROVE  IInv'
    BY <2>2, LeavesAndCallsPreserve
  <2>3. CASE EvaluateOperand \/ TernaryTest \/ TernaryFirst \/ TernarySecond
    BY <2>3, TernaryPreserves
  <2> QED
    BY <1>2, <1>3, <2>1, <2>2, <2>3 DEF Expression
<1>4. CASE Statement
  BY <1>4, StatementsPreserve
<1>5. CASE Declaration
  BY <1>5, DeclarationsPreserve
<1>6. CASE Exit \/ UNCHANGED vars
  BY <1>6, ExitPreserves
<1> QED
  BY <1>3, <1>4, <1>5, <1>6 DEF Next, Terminated

(* The invariant holds in every behaviour. *)
THEOREM Invariant == Ungrouped => (Spec => []IInv)
<1>1. CodegenInit => IInv
  BY InitHolds
<1>2. Ungrouped /\ IInv /\ [Next]_vars => IInv'
  BY StepPreserves
<1>3. Ungrouped => []Ungrouped
  BY DEF Ungrouped
<1> QED
  BY <1>1, <1>2, <1>3, PTL DEF Spec

(* The types of the walk: the register map stays a map of flags, and the   *)
(* store of scratch_free past the end of reg_free_map never happens.       *)
THEOREM TypeCorrect == Ungrouped => (Spec => []TypeOK)
<1>1. IInv => TypeOK
  BY DEF IInv
<1> QED
  BY <1>1, Invariant, PTL

(* The shape of the call stack of expr_codegen and stmt_codegen: every     *)
(* handler waits for the operand its progress names, and holds one         *)
(* register for each operand that returned.                                *)
THEOREM WalkHolds == Ungrouped => (Spec => []WalkInv)
<1>1. IInv => WalkInv
  BY DEF IInv
<1> QED
  BY <1>1, Invariant, PTL

(* However deep and mixed the expressions, two operands that are still to  *)
(* be used are never in one register.                                      *)
THEOREM NoClobberHolds == Ungrouped => (Spec => []NoClobber)
<1>1. IInv => NoClobber
  BY DEF IInv
<1> QED
  BY <1>1, Invariant, PTL

(* The handlers of expr.c, stmt.c and decl.c free exactly what they took:  *)
(* a register is marked taken if and only if a handler still holds it.     *)
THEOREM OwnershipHolds == Ungrouped => (Spec => []ExactOwnership)
<1>1. IInv => ExactOwnership
  BY DEF IInv
<1> QED
  BY <1>1, Invariant, PTL

(* The checks of scratch_name and scratch_free never fire: in a tree       *)
(* without GROUP nodes the code generator only names registers it has, and *)
(* never exits on an unknown one.                                          *)
THEOREM RegistersKnownHolds == Ungrouped => (Spec => []RegistersKnown)
<1>1. CodegenInit => RegistersKnown
  BY DEF CodegenInit, RegistersKnown
<1>2. ASSUME IInv
      PROVE  ~ UnknownRegister
  <2>1. Consulted \subseteq Regs
    BY <1>2, TopFacts DEF Consulted
  <2>2. \A r \in Regs : Known(r) /\ r # NumRegs
    BY <1>2, NumRegsAssumption DEF Regs, Known, IInv
  <2> QED
    BY <2>1, <2>2, NumRegsAssumption DEF UnknownRegister, Regs
<1>3. ASSUME IInv, RegistersKnown, [Next]_vars
      PROVE  RegistersKnown'
  <2>1. CASE Exit \/ UNCHANGED vars
    BY <1>2, <1>3, <2>1
       DEF Exit, Exhausted, TooManyArguments, Unprintable,
           ArrayNotImplemented, ElementTypeMissing, Abort, vars, RegistersKnown
  <2>2. CASE Declaration
    BY <1>3, <2>2
       DEF Declaration, FunctionPrologue, FunctionEpilogue, Prototype,
           GlobalData, Finish, Continue, RegistersKnown
  <2>3. CASE Statement
    BY <1>3, <2>3
       DEF Statement, SkipNull, StmtBlock, StmtExpr, StmtReturn, StmtDecl,
           PrintOperand, PrintDone, PrintCall, BranchEnter, IfTest, IfElse,
           IfDone, ForTop, ForTest, ForNext, ForLoop, BranchStep, Continue,
           RegistersKnown
  <2>4. CASE Expression
    BY <1>3, <2>4
       DEF Expression, EvaluateOperand, FinishLeft, FinishRight, FinishUnary,
           FinishStep, FinishAssign, FinishWith, TernaryTest, TernaryFirst,
           TernarySecond, LoadLeaf, CallFunction, FinishGroup, Continue,
           RegistersKnown
  <2> QED
    BY <1>3, <2>1, <2>2, <2>3, <2>4 DEF Next, Terminated
<1> QED
  BY <1>1, <1>3, Invariant, PTL DEF Spec

(***************************************************************************)
(* How many registers are in use, and that the walk stays within what the  *)
(* tree needs.  The activations s are a call stack as the invariant allows *)
(* it.                                                                     *)
(***************************************************************************)
Pooled(s) ==
  /\ s \in Seq(Frame)
  /\ \A i \in 1 .. Len(s) : HeldBy(s[i]) \subseteq Regs
  /\ \A i, k \in 1 .. Len(s) : \A j \in DOMAIN s[i].held, m \in DOMAIN s[k].held :
       s[i].held[j] = s[k].held[m] => i = k /\ j = m

HeldUpTo(s, i) == {r \in Regs : \E k \in 1 .. i : r \in HeldBy(s[k])}
InUse(s, i) == Cardinality(HeldUpTo(s, i))

(* The frame f, which finds "used" registers in use, and the operands it   *)
(* has evaluated kept within the budget of the program and of the pool.    *)
Within(budget, used, f) ==
  /\ used + Need[f.node] <= budget
  /\ \A j \in 1 .. f.next :
       used + Before(f.node, j) + Need[Operands(f.node)[j]] <= NumRegs
  /\ f.next = 0 => f.held = <<>>

Budget(s) ==
  /\ \A i \in 1 .. Len(s) : Within(Need[s[1].node], InUse(s, i - 1), s[i])
  /\ \A i \in 1 .. Len(s) - 1 : Len(s[i].held) = Before(s[i].node, s[i].next + 1)

(* As many registers as there are places, when the places differ. *)
LEMMA DistinctCount ==
  ASSUME NEW h \in Seq(Int), Distinct(h)
  PROVE  /\ IsFiniteSet({h[j] : j \in DOMAIN h})
         /\ Cardinality({h[j] : j \in DOMAIN h}) = Len(h)
<1> DEFINE S == {h[j] : j \in DOMAIN h}
<1>1. Len(h) \in Nat /\ DOMAIN h = 1 .. Len(h)
  OBVIOUS
<1>2. IsFiniteSet(1 .. Len(h)) /\ Cardinality(1 .. Len(h)) = Len(h)
  BY <1>1, FS_Interval
<1>3. h \in [1 .. Len(h) -> S]
  <2>1. h = [j \in 1 .. Len(h) |-> h[j]]
    BY <1>1
  <2> QED
    BY <1>1, <2>1
<1>4. h \in Surjection(1 .. Len(h), S)
  BY <1>1, <1>3 DEF Surjection
<1>5. h \in Injection(1 .. Len(h), S)
  BY <1>1, <1>3 DEF Injection, IsInjective, Distinct
<1> QED
  BY <1>2, <1>4, <1>5, FS_Surjection

(* A frame adds its own registers to those in use below it. *)
LEMMA InUseGrows ==
  ASSUME NEW s, Pooled(s), NEW i \in 1 .. Len(s)
  PROVE  /\ InUse(s, i) = InUse(s, i - 1) + Len(s[i].held)
         /\ InUse(s, i - 1) \in Nat /\ Len(s[i].held) \in Nat
         /\ InUse(s, i) <= NumRegs
<1>1. Len(s) \in Nat /\ s[i] \in Frame /\ s[i].held \in Seq(Int)
  <2>1. s \in Seq(Frame)
    BY DEF Pooled
  <2>2. s[i] \in Frame
    BY <2>1, ElementOfSeq
  <2> QED
    BY <2>1, <2>2 DEF Frame
<1>2. Distinct(s[i].held)
  BY DEF Pooled, Distinct
<1>3. /\ IsFiniteSet(HeldBy(s[i]))
      /\ Cardinality(HeldBy(s[i])) = Len(s[i].held)
  BY <1>1, <1>2, DistinctCount DEF HeldBy
<1>4. IsFiniteSet(Regs) /\ Cardinality(Regs) = NumRegs
  BY NumRegsAssumption, FS_Interval DEF Regs
<1>5. HeldUpTo(s, i - 1) \subseteq Regs /\ HeldUpTo(s, i) \subseteq Regs
  BY DEF HeldUpTo
<1>6. IsFiniteSet(HeldUpTo(s, i - 1))
  BY <1>4, <1>5, FS_Subset
<1>7. HeldUpTo(s, i) = HeldUpTo(s, i - 1) \cup HeldBy(s[i])
  <2>1. \A k : k \in 1 .. i <=> k \in 1 .. i - 1 \/ k = i
    BY <1>1
  <2>2. HeldBy(s[i]) \subseteq Regs
    BY DEF Pooled
  <2> QED
    BY <2>1, <2>2 DEF HeldUpTo
<1>8. HeldUpTo(s, i - 1) \cap HeldBy(s[i]) = {}
  <2>1. \A k \in 1 .. i - 1 : k \in 1 .. Len(s) /\ k # i
    BY <1>1
  <2>2. \A k \in 1 .. i - 1 : HeldBy(s[k]) \cap HeldBy(s[i]) = {}
    BY <2>1 DEF Pooled, HeldBy
  <2> QED
    BY <2>2 DEF HeldUpTo
<1>9. InUse(s, i) = InUse(s, i - 1) + Len(s[i].held) - Cardinality({})
  BY <1>3, <1>6, <1>7, <1>8, FS_Union DEF InUse
<1>10. InUse(s, i) <= NumRegs /\ InUse(s, i - 1) \in Nat
  BY <1>4, <1>5, <1>6, FS_Subset, FS_CardinalityType DEF InUse
<1>11. Len(s[i].held) \in Nat
  BY <1>1
<1>12. Cardinality({}) = 0
  BY FS_EmptySet
<1> QED
  BY <1>9, <1>10, <1>11, <1>12

(* The registers in use up to a frame are those of the frames below. *)
LEMMA InUseBelow ==
  ASSUME NEW s, NEW t, NEW i, \A k \in 1 .. i : t[k].held = s[k].held
  PROVE  InUse(t, i) = InUse(s, i)
<1>1. HeldUpTo(t, i) = HeldUpTo(s, i)
  BY DEF HeldUpTo, HeldBy
<1> QED
  BY <1>1 DEF InUse

(* Below the first frame nothing is in use. *)
LEMMA InUseNone ==
  ASSUME NEW s
  PROVE  InUse(s, 0) = 0
<1>1. HeldUpTo(s, 0) = {}
  BY DEF HeldUpTo
<1> QED
  BY <1>1, FS_EmptySet DEF InUse

(* What the equation of Need says of one node. *)
LEMMA NeedFacts ==
  ASSUME NEW n \in Nodes
  PROVE  /\ Need[n] \in Nat
         /\ Need[n] >= Result(n)
         /\ \A i \in DOMAIN Operands(n) :
              Need[n] >= Before(n, i) + Need[Operands(n)[i]]
         /\ \/ Need[n] = Result(n)
            \/ \E i \in DOMAIN Operands(n) :
                 Need[n] = Before(n, i) + Need[Operands(n)[i]]
         /\ Result(n) = 0 \/ Result(n) = 1
<1>1. Result(n) = 0 \/ Result(n) = 1
  BY DEF Result
<1> QED
  BY <1>1, NeedAssumption

(* The registers an operand finds in use are counted. *)
LEMMA BeforeFacts ==
  ASSUME NEW n \in Nodes, NEW i \in Nat \ {0}
  PROVE  Before(n, i) \in Nat
BY DEF Before

(* What the frames of a call stack are, for the two lemmas below. *)
LEMMA FrameFacts ==
  ASSUME NEW s, Pooled(s), NEW i \in 1 .. Len(s)
  PROVE  /\ s[i] \in Frame /\ s[i].node \in Nodes /\ s[i].next \in Nat
         /\ Len(s) \in Nat /\ i \in Nat
<1>1. s \in Seq(Frame)
  BY DEF Pooled
<1>2. s[i] \in Frame
  BY <1>1, ElementOfSeq
<1> QED
  BY <1>1, <1>2 DEF Frame

(***************************************************************************)
(* The moves of the walk from a call stack s with n activations to t.  A   *)
(* handler checks some of its node before it calls for operand k, and some *)
(* before it returns.                                                      *)
(***************************************************************************)
Admits(m, k) ==
  /\ m.kind = "FUNCTION" => m.val.params <= MaxArgs
  /\ m.kind = "PRINT" => m.val[k] \in Printable

Accepts(m) ==
  /\ m.kind = "FCALL" => Len(Operands(m)) <= MaxArgs
  /\ m.kind = "DATA" => ~ Elementless(m.val) /\ ~ ArrayOfNonIntegers(m.val)

Pushed(s, t, n) ==
  /\ Len(s) = n /\ Len(t) = n + 1
  /\ \A i \in 1 .. n - 1 : t[i] = s[i]
  /\ t[n].node = s[n].node /\ t[n].next = s[n].next
  /\ t[n].next < Len(Operands(t[n].node))
  /\ t[n].next = 0 => t[n].held = <<>>
  /\ Len(t[n].held) = Before(t[n].node, t[n].next + 1)
  /\ t[n + 1] = Activation(Operands(t[n].node)[t[n].next + 1])
  /\ Admits(s[n].node, s[n].next + 1)

Popped(s, t, n) ==
  /\ n # 1 /\ Len(s) = n /\ Len(t) = n - 1
  /\ \A i \in 1 .. n - 2 : t[i] = s[i]
  /\ t[n - 1].node = s[n - 1].node /\ t[n - 1].next = s[n - 1].next + 1
  /\ s[n].node = Operands(s[n - 1].node)[s[n - 1].next + 1]
  /\ s[n].next = Len(Operands(s[n].node))
  /\ s[n].node.kind \in ExprKinds => Len(t[n - 1].held) = Len(s[n - 1].held) + 1
  /\ Accepts(s[n].node)

Stayed(s, t, n) ==
  /\ Len(s) = n /\ Len(t) = n
  /\ \A i \in 1 .. n - 1 : t[i] = s[i]
  /\ t[n].node = s[n].node /\ t[n].next = s[n].next /\ t[n].held = <<>>

Moved(s, t) ==
  \E n \in Nat \ {0} : Pushed(s, t, n) \/ Popped(s, t, n) \/ Stayed(s, t, n)

(* A call of the next operand keeps within the budget, because the frame   *)
(* that calls holds what Before says.                                      *)
LEMMA PushBudget ==
  ASSUME NEW s, NEW t, Pooled(s), Pooled(t), Budget(s),
         NEW n \in Nat \ {0}, Pushed(s, t, n)
  PROVE  Budget(t)
<1> USE DEF Pushed
<1>1. \A i \in 0 .. n - 1 : InUse(t, i) = InUse(s, i)
  <2> SUFFICES ASSUME NEW i \in 0 .. n - 1 PROVE InUse(t, i) = InUse(s, i)
    OBVIOUS
  <2>1. \A k \in 1 .. i : t[k].held = s[k].held
    OBVIOUS
  <2> QED
    BY <2>1, InUseBelow
<1>2. t[1].node = s[1].node
  <2>1. n = 1 \/ 1 \in 1 .. n - 1
    OBVIOUS
  <2> QED
    BY <2>1
<1>3. n \in 1 .. Len(s) /\ n \in 1 .. Len(t)
  OBVIOUS
<1>4. Within(Need[s[1].node], InUse(s, n - 1), s[n])
  BY <1>3 DEF Budget
<1>5. /\ t[n].node \in Nodes /\ t[n].next \in Nat
      /\ t[n].next + 1 \in DOMAIN Operands(t[n].node)
  BY <1>3, FrameFacts, Shape DEF WellShaped
<1>6. \A i \in 1 .. n : Within(Need[t[1].node], InUse(t, i - 1), t[i])
  <2>1. ASSUME NEW i \in 1 .. n - 1
        PROVE  Within(Need[t[1].node], InUse(t, i - 1), t[i])
    <3>1. i \in 1 .. Len(s) /\ i - 1 \in 0 .. n - 1 /\ t[i] = s[i]
      OBVIOUS
    <3> QED
      BY <1>1, <1>2, <3>1 DEF Budget
  <2>2. Within(Need[t[1].node], InUse(t, n - 1), t[n])
    <3>1. n - 1 \in 0 .. n - 1
      OBVIOUS
    <3>2. InUse(t, n - 1) = InUse(s, n - 1)
      BY <1>1, <3>1
    <3> QED
      BY <1>2, <1>4, <3>2 DEF Within
  <2> QED
    BY <2>1, <2>2
<1>7. Within(Need[t[1].node], InUse(t, n), t[n + 1])
  <2> DEFINE o == Operands(t[n].node)[t[n].next + 1]
             b == Before(t[n].node, t[n].next + 1)
  <2>1. t[n + 1].node = o /\ t[n + 1].next = 0 /\ t[n + 1].held = <<>>
    BY DEF Activation
  <2>2. InUse(t, n) = InUse(t, n - 1) + b /\ InUse(t, n - 1) \in Nat /\ b \in Nat
    BY <1>3, InUseGrows
  <2>3. Need[t[n].node] >= b + Need[o] /\ Need[t[n].node] \in Nat
    BY <1>5, NeedFacts
  <2>4. o \in Nodes
    BY <1>5, OperandsAreNodes
  <2>5. Need[o] \in Nat
    BY <2>4, NeedFacts
  <2>6. InUse(t, n - 1) + Need[t[n].node] <= Need[t[1].node]
    BY <1>3, <1>6 DEF Within
  <2>7. t[1].node \in Nodes
    BY FrameFacts
  <2>8. Need[t[1].node] \in Nat
    BY <2>7, NeedFacts
  <2> HIDE DEF o, b
  <2>9. InUse(t, n) + Need[o] <= Need[t[1].node]
    BY <2>2, <2>3, <2>5, <2>6, <2>8
  <2> QED
    BY <2>1, <2>9 DEF Within
<1>8. \A i \in 1 .. n + 1 : Within(Need[t[1].node], InUse(t, i - 1), t[i])
  <2>1. \A i \in 1 .. n + 1 : i \in 1 .. n \/ i = n + 1
    OBVIOUS
  <2>2. (n + 1) - 1 = n
    OBVIOUS
  <2> QED
    BY <1>6, <1>7, <2>1, <2>2
<1>9. \A i \in 1 .. n : Len(t[i].held) = Before(t[i].node, t[i].next + 1)
  BY DEF Budget
<1>10. Len(t) - 1 = n
  OBVIOUS
<1> QED
  BY <1>8, <1>9, <1>10 DEF Budget

(* A return keeps within it: all operands of the returning frame were      *)
(* within the pool, so its own peak was, for the caller too.               *)
LEMMA PopBudget ==
  ASSUME NEW s, NEW t, Pooled(s), Pooled(t), Budget(s),
         NEW n \in Nat \ {0}, Popped(s, t, n)
  PROVE  Budget(t)
<1> USE DEF Popped
<1>1. \A i \in 0 .. n - 2 : InUse(t, i) = InUse(s, i)
  <2> SUFFICES ASSUME NEW i \in 0 .. n - 2 PROVE InUse(t, i) = InUse(s, i)
    OBVIOUS
  <2>1. \A k \in 1 .. i : t[k].held = s[k].held
    OBVIOUS
  <2> QED
    BY <2>1, InUseBelow
<1>2. t[1].node = s[1].node
  <2>1. n = 2 \/ 1 \in 1 .. n - 2
    OBVIOUS
  <2> QED
    BY <2>1
<1>3. n \in 1 .. Len(s) /\ n - 1 \in 1 .. Len(s) /\ n - 1 \in 1 .. Len(t)
  OBVIOUS
<1>4. /\ s[n].node \in Nodes /\ s[n - 1].node \in Nodes /\ s[n - 1].next \in Nat
      /\ s[n].next \in Nat
  BY <1>3, FrameFacts
<1> DEFINE used == InUse(s, n - 1)
<1>5. used \in Nat /\ used <= NumRegs /\ NumRegs \in Nat
  <2>1. (n - 1) \in 1 .. Len(s)
    BY <1>3
  <2> QED
    BY <1>3, <2>1, InUseGrows, NumRegsAssumption
<1>6. Within(Need[s[1].node], used, s[n])
  BY <1>3 DEF Budget
<1>7. used + Result(s[n].node) <= NumRegs
  <2>1. CASE Result(s[n].node) = 0
    BY <1>5, <2>1
  <2>2. CASE Result(s[n].node) = 1
    <3>1. Len(t[n - 1].held) = Len(s[n - 1].held) + 1
      BY <2>2 DEF Result
    <3>2. /\ InUse(t, n - 1) = InUse(t, (n - 1) - 1) + Len(t[n - 1].held)
          /\ InUse(t, n - 1) <= NumRegs
      BY <1>3, InUseGrows
    <3>3. /\ used = InUse(s, (n - 1) - 1) + Len(s[n - 1].held)
          /\ InUse(s, (n - 1) - 1) \in Nat /\ Len(s[n - 1].held) \in Nat
      BY <1>3, InUseGrows
    <3>4. (n - 1) - 1 = n - 2 /\ n - 2 \in 0 .. n - 2
      OBVIOUS
    <3>5. InUse(t, (n - 1) - 1) = InUse(s, (n - 1) - 1)
      BY <1>1, <3>4
    <3> HIDE DEF used
    <3>6. InUse(t, n - 1) = used + 1
      BY <1>5, <3>1, <3>2, <3>3, <3>5
    <3> QED
      BY <2>2, <3>2, <3>6
  <2> QED
    BY <1>4, <2>1, <2>2, NeedFacts
<1>8. used + Need[s[n].node] <= NumRegs
  <2>1. CASE Need[s[n].node] = Result(s[n].node)
    BY <1>7, <2>1
  <2>2. CASE \E i \in DOMAIN Operands(s[n].node) :
               Need[s[n].node] = Before(s[n].node, i) + Need[Operands(s[n].node)[i]]
    <3>1. PICK i \in DOMAIN Operands(s[n].node) :
               Need[s[n].node] = Before(s[n].node, i) + Need[Operands(s[n].node)[i]]
      BY <2>2
    <3>2. i \in 1 .. s[n].next /\ i \in Nat \ {0}
      BY <1>4, Shape DEF WellShaped
    <3>3. used + Before(s[n].node, i) + Need[Operands(s[n].node)[i]] <= NumRegs
      BY <1>6, <3>2 DEF Within
    <3>4. Before(s[n].node, i) \in Nat
      BY <1>4, <3>2, BeforeFacts
    <3>5. Need[Operands(s[n].node)[i]] \in Nat
      BY <1>4, OperandsAreNodes, NeedFacts
    <3> HIDE DEF used
    <3> QED
      BY <1>5, <3>1, <3>3, <3>4, <3>5
  <2> QED
    BY <1>4, <2>1, <2>2, NeedFacts
<1>9. /\ InUse(s, n - 2) \in Nat
      /\ used = InUse(s, n - 2) + Before(s[n - 1].node, s[n - 1].next + 1)
  <2>1. n - 1 \in 1 .. Len(s) - 1 /\ (n - 1) - 1 = n - 2
    OBVIOUS
  <2>2. Len(s[n - 1].held) = Before(s[n - 1].node, s[n - 1].next + 1)
    BY <2>1 DEF Budget
  <2> QED
    BY <1>3, <2>1, <2>2, InUseGrows
<1>10. Within(Need[t[1].node], InUse(t, n - 2), t[n - 1])
  <2>1. Within(Need[s[1].node], InUse(s, n - 2), s[n - 1])
    <3>1. (n - 1) - 1 = n - 2
      OBVIOUS
    <3> QED
      BY <1>3, <3>1 DEF Budget
  <2>2. n - 2 \in 0 .. n - 2
    OBVIOUS
  <2>3. InUse(t, n - 2) = InUse(s, n - 2)
    BY <1>1, <2>2
  <2>4. InUse(s, n - 2) + Before(s[n - 1].node, s[n - 1].next + 1)
          + Need[Operands(s[n - 1].node)[s[n - 1].next + 1]] <= NumRegs
    BY <1>8, <1>9
  <2>5. \A j \in 1 .. t[n - 1].next : j \in 1 .. s[n - 1].next \/ j = s[n - 1].next + 1
    BY <1>4
  <2>6. t[n - 1].next # 0
    BY <1>4
  <2> HIDE DEF used
  <2> QED
    BY <1>2, <2>1, <2>3, <2>4, <2>5, <2>6 DEF Within
<1>11. \A i \in 1 .. n - 1 : Within(Need[t[1].node], InUse(t, i - 1), t[i])
  <2>1. ASSUME NEW i \in 1 .. n - 2
        PROVE  Within(Need[t[1].node], InUse(t, i - 1), t[i])
    <3>1. i \in 1 .. Len(s) /\ i - 1 \in 0 .. n - 2 /\ t[i] = s[i]
      OBVIOUS
    <3> QED
      BY <1>1, <1>2, <3>1 DEF Budget
  <2>2. \A i \in 1 .. n - 1 : i \in 1 .. n - 2 \/ (i = n - 1 /\ i - 1 = n - 2)
    OBVIOUS
  <2> QED
    BY <1>10, <2>1, <2>2
<1>12. \A i \in 1 .. n - 2 : Len(t[i].held) = Before(t[i].node, t[i].next + 1)
  BY DEF Budget
<1>13. Len(t) - 1 = n - 2
  OBVIOUS
<1> QED
  BY <1>11, <1>12, <1>13 DEF Budget

(* Freeing what the top frame holds stays within it. *)
LEMMA StayBudget ==
  ASSUME NEW s, NEW t, Pooled(s), Pooled(t), Budget(s),
         NEW n \in Nat \ {0}, Stayed(s, t, n)
  PROVE  Budget(t)
<1> USE DEF Stayed
<1>1. \A i \in 0 .. n - 1 : InUse(t, i) = InUse(s, i)
  <2> SUFFICES ASSUME NEW i \in 0 .. n - 1 PROVE InUse(t, i) = InUse(s, i)
    OBVIOUS
  <2>1. \A k \in 1 .. i : t[k].held = s[k].held
    OBVIOUS
  <2> QED
    BY <2>1, InUseBelow
<1>2. \A i \in 1 .. n : /\ t[i].node = s[i].node /\ t[i].next = s[i].next
                        /\ s[i].held = <<>> => t[i].held = <<>>
                        /\ i - 1 \in 0 .. n - 1
  <2>1. \A i \in 1 .. n : i \in 1 .. n - 1 \/ i = n
    OBVIOUS
  <2> QED
    BY <2>1
<1>3. 1 \in 1 .. n
  OBVIOUS
<1>4. \A i \in 1 .. n : Within(Need[t[1].node], InUse(t, i - 1), t[i])
  BY <1>1, <1>2, <1>3 DEF Budget, Within
<1>5. \A i \in 1 .. n - 1 : Len(t[i].held) = Before(t[i].node, t[i].next + 1)
  BY DEF Budget
<1> QED
  BY <1>4, <1>5 DEF Budget

(* The invariant's call stack is pooled, *)
LEMMA PooledStack ==
  ASSUME IInv
  PROVE  Pooled(stack)
<1>1. stack \in Seq(Frame) /\ DOMAIN stack = 1 .. Len(stack)
  BY TopFacts
<1> QED
  BY <1>1 DEF Pooled, HeldBy, IInv, NoClobber, ExactOwnership

(* and so is the one that a step leaves. *)
LEMMA PooledNext ==
  ASSUME IInv'
  PROVE  Pooled(stack')
<1>1. stack' \in Seq(Frame)
  BY DEF IInv, TypeOK
<1>2. DOMAIN stack' = 1 .. Len(stack')
  BY <1>1
<1> QED
  BY <1>1, <1>2 DEF Pooled, HeldBy, IInv, NoClobber, ExactOwnership, Regs

(* What a handler of an expression holds while it waits, and how many of   *)
(* its operands are kept at that point.                                    *)
LEMMA WaitingIsBefore ==
  ASSUME NEW f \in Frame, f.next < Len(Operands(f.node)),
         \/ f.node.kind \in ExprKinds /\ Len(f.held) = WaitingCount(f)
         \/ f.node.kind \notin ExprKinds /\ f.held = <<>>
  PROVE  /\ Len(f.held) = Before(f.node, f.next + 1)
         /\ f.next = 0 => f.held = <<>>
<1>1. f.next \in Nat /\ f.held \in Seq(Int) /\ f.node \in Nodes
  BY DEF Frame
<1>2. CASE f.node.kind \notin ExprKinds
  <2>1. f.held = <<>> /\ Len(f.held) = 0
    BY <1>2
  <2>2. f.node.kind # "TERNARY1"
    BY <1>2, KindFacts
  <2>3. Before(f.node, f.next + 1) = 0
    BY <1>2, <2>2 DEF Before
  <2> QED
    BY <2>1, <2>3
<1>3. CASE f.node.kind \in ExprKinds /\ f.node.kind # "TERNARY1"
  <2>1. Before(f.node, f.next + 1) = (f.next + 1) - 1
    BY <1>3 DEF Before
  <2>2. Len(f.held) = f.next
    BY <1>3 DEF WaitingCount
  <2> QED
    BY <1>1, <2>1, <2>2
<1>4. CASE f.node.kind \in ExprKinds /\ f.node.kind = "TERNARY1"
  <2>1. Len(Operands(f.node)) = 3
    BY <1>1, <1>4, Shape DEF WellShaped
  <2>2. f.next = 0 \/ f.next = 1 \/ f.next = 2
    BY <1>1, <2>1
  <2>3. Before(f.node, f.next + 1) = IF f.next + 1 = 1 THEN 0 ELSE 1
    BY <1>4 DEF Before
  <2>4. Len(f.held) = IF f.next = 2 THEN 1 ELSE f.next
    BY <1>4 DEF WaitingCount
  <2> QED
    BY <1>1, <2>2, <2>3, <2>4
<1> QED
  BY <1>2, <1>3, <1>4

(* The three moves of the walk, first the call of the next operand. *)
LEMMA CallMove ==
  ASSUME IInv, IInv', NEW f \in Frame,
         f.node = Top.node, f.next = Top.next, f.next < Len(Operands(f.node)),
         Kind \in ExprKinds \/ f.held = <<>>, Admits(Top.node, Top.next + 1),
         Call(f)
  PROVE  Moved(stack, stack')
<1> DEFINE n == Len(stack)
           s == [stack EXCEPT ![n] = f]
           g == Activation(Operands(f.node)[f.next + 1])
<1>1. /\ n \in Nat \ {0} /\ n = Len(stack) /\ stack \in Seq(Frame)
      /\ Top = stack[n]
  BY TopFacts
<1>2. g \in Frame
  <2>1. /\ f.node \in Nodes /\ f.next \in Nat
        /\ f.next + 1 \in DOMAIN Operands(f.node)
    BY Shape DEF Frame, WellShaped
  <2> QED
    BY <2>1, OperandsAreNodes DEF Activation, Frame
<1>3. stack' = Append(s, g)
  BY DEF Call
<1>4. s = [stack EXCEPT ![n] = f]
  OBVIOUS
<1>5. g = Activation(Operands(f.node)[f.next + 1])
  OBVIOUS
<1> HIDE DEF n, s, g
<1>6. n \in 1 .. n /\ \A i \in 1 .. n - 1 : i \in 1 .. n /\ i # n
  BY <1>1, Below
<1>7. s \in Seq(Frame) /\ Len(s) = n /\ s[n] = f
      /\ \A i \in 1 .. n - 1 : s[i] = stack[i]
  BY <1>1, <1>4, <1>6, ExceptSeq
<1>8. /\ Len(stack') = n + 1 /\ stack'[n + 1] = g /\ stack'[n] = f
      /\ \A i \in 1 .. n - 1 : stack'[i] = stack[i]
  BY <1>2, <1>3, <1>6, <1>7, AppendProperties
<1>9. f.node.kind \in ExprKinds => Len(f.held) = WaitingCount(f)
  <2>1. n \in 1 .. Len(stack') - 1
    BY <1>1, <1>8
  <2> QED
    BY <1>8, <2>1 DEF IInv, WalkInv
<1>10. Len(f.held) = Before(f.node, f.next + 1) /\ (f.next = 0 => f.held = <<>>)
  BY <1>9, WaitingIsBefore DEF Kind
<1> QED
  <2>1. Pushed(stack, stack', n)
    BY <1>1, <1>5, <1>8, <1>10 DEF Pushed
  <2> QED
    BY <1>1, <2>1 DEF Moved

(* A handler that has evaluated all of its operands returns. *)
LEMMA ReturnMove ==
  ASSUME IInv, IInv', Kind # "PROGRAM", Evaluated, Accepts(Top.node),
         NEW f, f.node = Caller.node, f.next = Caller.next + 1,
         Kind \in ExprKinds => Len(f.held) = Len(Caller.held) + 1,
         ReturnTo(f)
  PROVE  Moved(stack, stack')
<1> DEFINE n == Len(stack)
           s == SubSeq(stack, 1, n - 1)
<1>1. /\ n \in Nat \ {0} /\ n = Len(stack) /\ stack \in Seq(Frame)
      /\ Top = stack[n]
  BY TopFacts
<1>2. n # 1
  BY <1>1 DEF IInv, WalkInv, Kind
<1>3. Caller = stack[n - 1] /\ n - 1 \in 1 .. n - 1
  BY CallerFacts
<1>4. stack' = [s EXCEPT ![n - 1] = f]
  BY DEF ReturnTo
<1>5. s = SubSeq(stack, 1, n - 1)
  OBVIOUS
<1>6. stack[n].next = Len(Operands(stack[n].node))
  BY <1>1 DEF Evaluated
<1>7. stack[(n - 1) + 1].node = Operands(stack[n - 1].node)[stack[n - 1].next + 1]
  BY <1>3 DEF IInv, WalkInv
<1> HIDE DEF n, s
<1>8. s \in Seq(Frame) /\ Len(s) = n - 1 /\ \A i \in 1 .. n - 1 : s[i] = stack[i]
  <2>1. n - 1 \in 0 .. Len(stack) /\ n - 1 \in Nat /\ \A i \in 1 .. n - 1 : i \in 1 .. Len(stack)
    BY <1>1
  <2> QED
    BY <1>1, <1>5, <2>1, SubSeqProperties
<1>9. Len(stack') = n - 1 /\ stack'[n - 1] = f
      /\ \A i \in 1 .. n - 2 : stack'[i] = stack[i]
  <2>1. \A i \in 1 .. n - 2 : i \in 1 .. n - 1 /\ i # n - 1
    BY <1>1, <1>2
  <2>2. DOMAIN s = 1 .. n - 1
    BY <1>8
  <2>3. stack'[n - 1] = f /\ \A i \in 1 .. n - 2 : stack'[i] = s[i]
    BY <1>3, <1>4, <2>1, <2>2
  <2>4. stack' \in Seq(Frame) /\ DOMAIN stack' = 1 .. n - 1
    BY <1>4, <2>2 DEF IInv, TypeOK
  <2>5. Len(stack') = n - 1
    BY <1>1, <1>2, <2>4
  <2> QED
    BY <1>8, <2>1, <2>3, <2>5
<1>10. (n - 1) + 1 = n
  BY <1>1
<1>11. /\ stack[n].node = Operands(stack[n - 1].node)[stack[n - 1].next + 1]
       /\ stack'[n - 1].node = stack[n - 1].node
       /\ stack'[n - 1].next = stack[n - 1].next + 1
       /\ stack[n].node.kind \in ExprKinds =>
            Len(stack'[n - 1].held) = Len(stack[n - 1].held) + 1
  BY <1>1, <1>3, <1>7, <1>9, <1>10 DEF Kind
<1> QED
  <2>1. Popped(stack, stack', n)
    BY <1>1, <1>2, <1>6, <1>9, <1>11 DEF Popped
  <2> QED
    BY <1>1, <2>1 DEF Moved

(* A return with a register, from an expression. *)
LEMMA ReturnRegMove ==
  ASSUME IInv, IInv', Kind # "PROGRAM", Evaluated, Accepts(Top.node),
         NEW r, ReturnReg(r)
  PROVE  Moved(stack, stack')
<1> DEFINE f == [Caller EXCEPT !.next = @ + 1, !.held = Append(@, r)]
<1>1. Caller \in Frame /\ Caller.held \in Seq(Int) /\ Caller.next \in Nat
  BY CallerFacts DEF Frame
<1>2. /\ f.held = Append(Caller.held, r) /\ f.node = Caller.node
      /\ f.next = Caller.next + 1
  BY <1>1 DEF Frame
<1>3. Len(f.held) = Len(Caller.held) + 1
  <2> DEFINE S == Int \cup {r}
  <2>1. Caller.held \in Seq(S) /\ r \in S
    BY <1>1
  <2> HIDE DEF S
  <2> QED
    BY <1>2, <2>1, AppendProperties
<1>4. ReturnTo(f)
  BY DEF ReturnReg
<1> HIDE DEF f
<1> QED
  BY <1>2, <1>3, <1>4, ReturnMove

(* A return without one, from a statement or a declaration. *)
LEMMA ReturnBareMove ==
  ASSUME IInv, IInv', Kind \notin ExprKinds, Kind # "PROGRAM",
         Evaluated, Accepts(Top.node), Return
  PROVE  Moved(stack, stack')
<1> DEFINE f == [Caller EXCEPT !.next = @ + 1]
<1>1. Caller \in Frame
  BY CallerFacts
<1>2. f \in Frame /\ f.node = Caller.node /\ f.next = Caller.next + 1
  BY <1>1 DEF Frame
<1>3. ReturnTo(f)
  BY DEF Return
<1> HIDE DEF f
<1> QED
  BY <1>2, <1>3, ReturnMove

(* A print statement gives back the operand it printed. *)
LEMMA StayMove ==
  ASSUME IInv, IInv', stack' = [stack EXCEPT ![Len(stack)] = Emptied]
  PROVE  Moved(stack, stack')
<1> DEFINE n == Len(stack)
           f == Emptied
<1>1. /\ n \in Nat \ {0} /\ n = Len(stack) /\ stack \in Seq(Frame)
      /\ Top = stack[n]
  BY TopFacts
<1>2. f \in Frame /\ f.node = Top.node /\ f.next = Top.next /\ f.held = <<>>
  <2>1. <<>> \in Seq(Int)
    OBVIOUS
  <2> QED
    BY <2>1, TopFacts DEF Emptied, Frame
<1>3. stack' = [stack EXCEPT ![n] = f]
  OBVIOUS
<1> HIDE DEF n, f
<1>4. n \in 1 .. n /\ \A i \in 1 .. n - 1 : i \in 1 .. n /\ i # n
  BY <1>1, Below
<1>5. /\ Len(stack') = n /\ stack'[n] = f
      /\ \A i \in 1 .. n - 1 : stack'[i] = stack[i]
  BY <1>1, <1>2, <1>3, <1>4, ExceptSeq
<1> QED
  <2>1. Stayed(stack, stack', n)
    BY <1>1, <1>2, <1>5 DEF Stayed
  <2> QED
    BY <1>1, <2>1 DEF Moved

(* The kinds whose handlers check nothing about their node. *)
LEMMA PlainKinds ==
  /\ \A k \in ExprKinds : k \notin {"FUNCTION", "PRINT", "DATA"}
  /\ \A k \in KeepsLeft \cup KeepsRight \cup Unary \cup Step \cup Leaf
              \cup {"ASSIGN", "TERNARY1"} : k # "FCALL"
BY DEF KeepsLeft, KeepsRight, Unary, Step, Leaf, Literal, ExprKinds, Arithmetic,
       Comparison, Logical

(* Each action of expr_codegen is one of the moves. *)
LEMMA ExpressionMoves ==
  ASSUME IInv, IInv', Budget(stack), Ungrouped, Expression
  PROVE  Moved(stack, stack')
<1>1. /\ WellShaped(Top.node) /\ Top.node \in Nodes /\ Top \in Frame
      /\ Top.next \in Nat /\ Top.held \in Seq(Int)
  BY TopFacts, Shape
<1>2. Kind \in ExprKinds => Kind # "PROGRAM"
  BY KindFacts DEF DeclKinds
<1>10. Kind \in ExprKinds => Admits(Top.node, Top.next + 1)
  BY PlainKinds DEF Admits, Kind
<1>11. Kind \in ExprKinds /\ Kind # "FCALL" => Accepts(Top.node)
  BY PlainKinds DEF Accepts, Kind
<1>3. CASE FinishLeft \/ FinishRight \/ FinishUnary \/ FinishStep \/ FinishAssign
  <2>1. PICK keep \in {1, 2} : ReturnReg(Top.held[keep])
    BY <1>3 DEF FinishLeft, FinishRight, FinishUnary, FinishStep, FinishAssign,
                FinishWith
  <2>2. Evaluated
    BY <1>3 DEF FinishLeft, FinishRight, FinishUnary, FinishStep, FinishAssign,
                FinishWith
  <2>3. Kind \in ExprKinds /\ Kind # "FCALL"
    BY <1>3, KindFacts, PlainKinds
       DEF FinishLeft, FinishRight, FinishUnary, FinishStep, FinishAssign
  <2> QED
    BY <1>2, <1>11, <2>1, <2>2, <2>3, ReturnRegMove
<1>4. ASSUME NEW r \in Regs, LoadLeaf(r) \/ CallFunction(r)
      PROVE  Moved(stack, stack')
  <2>1. Kind \in ExprKinds /\ ReturnReg(r)
    BY <1>4, KindFacts DEF LoadLeaf, CallFunction
  <2>2. Evaluated
    <3>1. CASE LoadLeaf(r)
      <4>1. Len(Operands(Top.node)) = 0
        BY <1>1, <3>1 DEF LoadLeaf, WellShaped, Kind
      <4> QED
        BY <1>1, <4>1, TopFacts DEF Evaluated
    <3>2. CASE CallFunction(r)
      BY <3>2 DEF CallFunction
    <3> QED
      BY <1>4, <3>1, <3>2
  <2>3. Kind = "FCALL" => Len(Operands(Top.node)) <= MaxArgs
    <3>1. CASE LoadLeaf(r)
      BY <3>1, PlainKinds DEF LoadLeaf
    <3>2. CASE CallFunction(r) /\ Kind = "FCALL"
      <4>1. Len(Top.held) <= MaxArgs
        BY <3>2 DEF CallFunction
      <4>2. Len(Top.held) = Top.next
        BY <2>1, <3>2, TopFacts DEF TopCount, Kind
      <4> QED
        BY <2>2, <4>1, <4>2 DEF Evaluated
    <3> QED
      BY <1>4, <3>1, <3>2
  <2>4. Accepts(Top.node)
    BY <1>11, <2>1, <2>3, PlainKinds DEF Accepts, Kind
  <2> QED
    BY <1>2, <2>1, <2>2, <2>4, ReturnRegMove
<1>5. CASE TernarySecond
  <2>1. Kind = "TERNARY1" /\ Top.next = 3 /\ ReturnReg(Top.held[1])
    BY <1>5 DEF TernarySecond
  <2>2. Len(Operands(Top.node)) = 3
    BY <1>1, <2>1 DEF WellShaped, Kind
  <2>3. Evaluated
    BY <2>1, <2>2 DEF Evaluated
  <2> QED
    BY <1>2, <1>11, <2>1, <2>3, KindFacts, ReturnRegMove
<1>6. CASE EvaluateOperand
  <2>1. Top.next < Len(Operands(Top.node)) /\ Call(Top)
    BY <1>1, <1>6, TopFacts DEF EvaluateOperand, Evaluated, WellShaped
  <2>2. Kind \in ExprKinds \/ Top.held = <<>>
    <3>1. CASE Kind \in {"EXPR", "RETURN", "DECL"}
      <4>1. Len(Operands(Top.node)) <= 1
        BY <1>1, <3>1 DEF WellShaped, Kind
      <4>2. Len(Operands(Top.node)) \in Nat
        BY <1>1 DEF WellShaped
      <4>3. Top.next = 0
        BY <1>1, <2>1, <4>1, <4>2
      <4>4. Len(stack) \in 1 .. Len(stack) /\ Top = stack[Len(stack)]
        BY TopFacts
      <4> QED
        BY <4>3, <4>4 DEF Budget, Within
    <3>2. CASE Kind \in {"BLOCK", "PROGRAM"}
      <4>1. Kind \in Holdless
        BY <3>2 DEF Holdless
      <4> QED
        BY <4>1, TopFacts DEF IInv, WalkInv, Kind
    <3>3. Kind \in ExprKinds \/ Kind \in {"EXPR", "RETURN", "DECL", "BLOCK", "PROGRAM"}
      BY <1>6, KindFacts DEF EvaluateOperand
    <3> QED
      BY <3>1, <3>2, <3>3
  <2>3. Admits(Top.node, Top.next + 1)
    <3>1. Kind \in ExprKinds \/ Kind \in {"EXPR", "RETURN", "DECL", "BLOCK", "PROGRAM"}
      BY <1>6, KindFacts DEF EvaluateOperand
    <3> QED
      BY <1>10, <3>1 DEF Admits, Kind
  <2> QED
    BY <1>1, <2>1, <2>2, <2>3, CallMove
<1>7. CASE TernaryTest
  <2> DEFINE f == [Top EXCEPT !.lab = cur_label + 1]
  <2>1. Kind = "TERNARY1" /\ Top.next = 1 /\ Call(f)
    BY <1>7 DEF TernaryTest
  <2>2. Len(Operands(Top.node)) = 3 /\ Kind \in ExprKinds
    BY <1>1, <2>1, KindFacts DEF WellShaped, Kind
  <2>3. f \in Frame /\ f.node = Top.node /\ f.next = Top.next
    <3>1. cur_label + 1 \in Int
      BY ContinueFacts
    <3> QED
      BY <1>1, <3>1 DEF Frame
  <2> HIDE DEF f
  <2>4. f.next < Len(Operands(f.node))
    <3>1. Top.next < Len(Operands(Top.node))
      BY <2>1, <2>2
    <3> QED
      BY <2>3, <3>1, Zenon
  <2> QED
    BY <1>10, <2>1, <2>2, <2>3, <2>4, CallMove
<1>8. CASE TernaryFirst
  <2> DEFINE f == [Top EXCEPT !.held = <<Top.held[1]>>]
  <2>1. Kind = "TERNARY1" /\ Top.next = 2 /\ Call(f)
    BY <1>8 DEF TernaryFirst
  <2>2. Len(Operands(Top.node)) = 3 /\ Kind \in ExprKinds
    BY <1>1, <2>1, KindFacts DEF WellShaped, Kind
  <2>3. Len(Top.held) = 2
    BY <2>1, <2>2, TopFacts DEF TopCount, Kind
  <2>4. <<Top.held[1]>> \in Seq(Int)
    BY <1>1, <2>3
  <2>5. f \in Frame /\ f.node = Top.node /\ f.next = Top.next
    BY <1>1, <2>4 DEF Frame
  <2> HIDE DEF f
  <2>6. f.next < Len(Operands(f.node))
    <3>1. Top.next < Len(Operands(Top.node))
      BY <2>1, <2>2
    <3> QED
      BY <2>5, <3>1, Zenon
  <2> QED
    BY <1>10, <2>1, <2>2, <2>5, <2>6, CallMove
<1>9. \A g \in Garbage : ~ FinishGroup(g)
  BY <1>1 DEF FinishGroup, Ungrouped, Kind
<1> QED
  BY <1>3, <1>4, <1>5, <1>6, <1>7, <1>8, <1>9 DEF Expression

(* So is each action of stmt_codegen and decl_codegen_local. *)
LEMMA StatementMoves ==
  ASSUME IInv, IInv', Budget(stack), Statement
  PROVE  Moved(stack, stack')
<1>1. /\ WellShaped(Top.node) /\ Top.node \in Nodes /\ Top \in Frame
      /\ Top.next \in Nat /\ Top.held \in Seq(Int)
  BY TopFacts, Shape
<1>2. ASSUME NEW k \in {"EXPR", "RETURN", "DECL", "IF_ELSE", "FOR", "PRINT",
                        "BLOCK", "NONE"}
      PROVE  k \notin ExprKinds /\ k # "PROGRAM" /\ k # "TERNARY1"
  BY KindFacts DEF StmtKinds
<1>10. ASSUME Kind \in {"EXPR", "RETURN", "DECL", "IF_ELSE", "FOR", "PRINT",
                        "BLOCK", "NONE"}
       PROVE  Accepts(Top.node) /\ (Kind # "PRINT" => Admits(Top.node, Top.next + 1))
  BY <1>10 DEF Accepts, Admits, Kind
<1>3. CASE SkipNull
  <2>1. Kind = "NONE" /\ Return
    BY <1>3 DEF SkipNull
  <2>2. Len(Operands(Top.node)) = 0
    BY <1>1, <2>1 DEF WellShaped, Kind
  <2>3. Evaluated
    BY <1>1, <2>2, TopFacts DEF Evaluated
  <2> QED
    BY <1>2, <1>10, <2>1, <2>3, ReturnBareMove
<1>4. CASE StmtBlock \/ StmtExpr \/ StmtReturn \/ StmtDecl \/ PrintDone
  <2>1. Kind \in {"BLOCK", "EXPR", "RETURN", "DECL", "PRINT"} /\ Evaluated /\ Return
    BY <1>4 DEF StmtBlock, StmtExpr, StmtReturn, StmtDecl, PrintDone
  <2> QED
    BY <1>2, <1>10, <2>1, ReturnBareMove
<1>5. CASE IfDone \/ ForLoop
  <2>1. Return /\ \/ Kind = "IF_ELSE" /\ Top.next = 3
                  \/ Kind = "FOR" /\ Top.next = 4
    BY <1>5 DEF IfDone, ForLoop, BranchStep
  <2>2. /\ Kind = "IF_ELSE" => Len(Operands(Top.node)) = 3
        /\ Kind = "FOR" => Len(Operands(Top.node)) = 4
    BY <1>1 DEF WellShaped, Kind
  <2>3. Evaluated
    BY <2>1, <2>2 DEF Evaluated
  <2> QED
    BY <1>2, <1>10, <2>1, <2>3, ReturnBareMove
<1>6. CASE PrintOperand
  <2>1. Call(Top) /\ Top.held = <<>> /\ ~ Evaluated
    BY <1>6 DEF PrintOperand
  <2>3. Admits(Top.node, Top.next + 1)
    BY <1>6 DEF PrintOperand, Admits, Kind
  <2>2. Top.next < Len(Operands(Top.node))
    BY <1>1, <2>1, TopFacts DEF Evaluated, WellShaped
  <2> QED
    BY <1>1, <2>1, <2>2, <2>3, CallMove
<1>7. ASSUME NEW r \in Regs, PrintCall(r)
      PROVE  Moved(stack, stack')
  BY <1>7, StayMove DEF PrintCall
<1>8. CASE BranchEnter
  <2> DEFINE f == [Top EXCEPT !.lab = cur_label + 1]
  <2>1. Kind \in {"IF_ELSE", "FOR"} /\ Top.next = 0 /\ Call(f)
    BY <1>8 DEF BranchEnter
  <2>2. Len(Operands(Top.node)) \in {3, 4}
    BY <1>1, <2>1 DEF WellShaped, Kind
  <2>3. Top.held = <<>>
    <3>1. Len(stack) \in 1 .. Len(stack) /\ Top = stack[Len(stack)]
      BY TopFacts
    <3> QED
      BY <2>1, <3>1 DEF Budget, Within
  <2>4. f \in Frame /\ f.node = Top.node /\ f.next = Top.next /\ f.held = <<>>
    <3>1. cur_label + 1 \in Int
      BY ContinueFacts
    <3> QED
      BY <1>1, <2>3, <3>1 DEF Frame
  <2> HIDE DEF f
  <2>5. f.next < Len(Operands(f.node))
    <3>1. Top.next < Len(Operands(Top.node))
      BY <2>1, <2>2
    <3> QED
      BY <2>4, <3>1, Zenon
  <2> QED
    BY <1>10, <2>1, <2>4, <2>5, CallMove
<1>9. CASE IfTest \/ IfElse \/ ForTop \/ ForTest \/ ForNext
  <2>1. Call(Emptied) /\ \/ Kind = "IF_ELSE" /\ Top.next \in {1, 2}
                         \/ Kind = "FOR" /\ Top.next \in {1, 2, 3}
    BY <1>9 DEF IfTest, IfElse, ForTop, ForTest, ForNext, BranchStep
  <2>2. /\ Kind = "IF_ELSE" => Len(Operands(Top.node)) = 3
        /\ Kind = "FOR" => Len(Operands(Top.node)) = 4
    BY <1>1 DEF WellShaped, Kind
  <2>3. Top.next < Len(Operands(Top.node))
    BY <2>1, <2>2
  <2>4. /\ Emptied \in Frame /\ Emptied.held = <<>>
        /\ Emptied.node = Top.node /\ Emptied.next = Top.next
    <3>1. <<>> \in Seq(Int)
      OBVIOUS
    <3> QED
      BY <1>1, <3>1 DEF Emptied, Frame
  <2> QED
    BY <1>10, <2>1, <2>3, <2>4, CallMove
<1> QED
  BY <1>3, <1>4, <1>5, <1>6, <1>7, <1>8, <1>9 DEF Statement

(* So is each action of decl_codegen_global but the end of the walk. *)
LEMMA DeclarationMoves ==
  ASSUME IInv, IInv', Budget(stack), Declaration, ~ Finish
  PROVE  Moved(stack, stack')
<1>1. /\ WellShaped(Top.node) /\ Top.node \in Nodes /\ Top \in Frame
      /\ Top.next \in Nat
  BY TopFacts, Shape
<1>2. ASSUME NEW k \in {"FUNCTION", "PROTOTYPE", "DATA"}
      PROVE  k \notin ExprKinds /\ k # "PROGRAM" /\ k \in Holdless
  BY KindFacts DEF DeclKinds, Holdless
<1>3. CASE FunctionPrologue
  <2>1. Kind = "FUNCTION" /\ Top.next = 0 /\ Call(Top)
    BY <1>3 DEF FunctionPrologue
  <2>2. Len(Operands(Top.node)) = 1
    BY <1>1, <2>1 DEF WellShaped, Kind
  <2>3. Top.held = <<>>
    BY <1>2, <2>1, TopFacts DEF IInv, WalkInv, Kind
  <2>4. Top.next < Len(Operands(Top.node))
    BY <2>1, <2>2
  <2>5. Admits(Top.node, Top.next + 1)
    BY <1>3 DEF FunctionPrologue, Admits, Kind
  <2> QED
    BY <1>1, <2>1, <2>3, <2>4, <2>5, CallMove
<1>4. CASE FunctionEpilogue \/ Prototype \/ GlobalData
  <2>1. Kind \in {"FUNCTION", "PROTOTYPE", "DATA"} /\ Return
    BY <1>4 DEF FunctionEpilogue, Prototype, GlobalData
  <2>2. Evaluated
    <3>1. CASE FunctionEpilogue
      BY <3>1 DEF FunctionEpilogue
    <3>2. CASE Prototype \/ GlobalData
      <4>1. Kind \in {"PROTOTYPE", "DATA"}
        BY <3>2 DEF Prototype, GlobalData
      <4>2. Len(Operands(Top.node)) = 0
        BY <1>1, <4>1 DEF WellShaped, Kind
      <4> QED
        BY <1>1, <4>2, TopFacts DEF Evaluated
    <3> QED
      BY <1>4, <3>1, <3>2
  <2>3. Accepts(Top.node)
    BY <1>4, <2>1 DEF FunctionEpilogue, Prototype, GlobalData, Accepts, Kind
  <2> QED
    BY <1>2, <2>1, <2>2, <2>3, ReturnBareMove
<1> QED
  BY <1>3, <1>4 DEF Declaration

(* So the walk stays within the budget. *)
LEMMA MovesBudget ==
  ASSUME IInv, IInv', Budget(stack), Moved(stack, stack')
  PROVE  Budget(stack')
BY PooledStack, PooledNext, PushBudget, PopBudget, StayBudget DEF Moved

(***************************************************************************)
(* What the handlers have checked.  Of a handler's node, and of the        *)
(* operands that returned, nothing makes a handler exit.                   *)
(***************************************************************************)
Innocent(m) ==
  /\ ~ Offends(m)["ARGUMENTS"] /\ ~ Offends(m)["PRINT"] /\ ~ Offends(m)["DATA"]
  /\ ~ Offends(m)["SUBTYPE"]
Clean(m) == \A k \in Tree[m] : Innocent(k)

(* The checks of node m before it called for its operand k. *)
Passed(m, k) ==
  k > 0 => /\ m.kind = "FUNCTION" => m.val.params <= MaxArgs
           /\ m.kind = "PRINT" => \A j \in 1 .. k : m.val[j] \in Printable

Checked(s) ==
  /\ \A i \in 1 .. Len(s) :
       /\ Tree[s[i].node] \subseteq Tree[s[1].node]
       /\ Passed(s[i].node, s[i].next)
       /\ \A j \in 1 .. s[i].next : Clean(Operands(s[i].node)[j])
  /\ \A i \in 1 .. Len(s) - 1 : Passed(s[i].node, s[i].next + 1)

(* What the equation of Tree says of one node. *)
LEMMA TreeFacts ==
  ASSUME NEW m \in Nodes
  PROVE  /\ m \in Tree[m]
         /\ \A i \in DOMAIN Operands(m) : Tree[Operands(m)[i]] \subseteq Tree[m]
         /\ \A k \in Tree[m] :
              k = m \/ \E i \in DOMAIN Operands(m) : k \in Tree[Operands(m)[i]]
BY TreeAssumption

(* The causes of an exit or a crash in a node, spelled out. *)
LEMMA InnocentFacts ==
  ASSUME NEW m
  PROVE  /\ Innocent(m) <=>
              /\ ~ (m.kind = "FCALL" /\ Len(Operands(m)) > MaxArgs)
              /\ ~ (m.kind = "FUNCTION" /\ m.val.params > MaxArgs)
              /\ ~ (m.kind = "PRINT" /\ \E i \in DOMAIN m.val : m.val[i] \notin Printable)
              /\ ~ (m.kind = "DATA" /\ ArrayOfNonIntegers(m.val))
              /\ ~ (m.kind = "DATA" /\ Elementless(m.val))
         /\ Offends(m)["GROUP"] <=> m.kind = "GROUP"
BY DEF Innocent, Offends

(* A node that was checked all the way, with clean operands, is clean. *)
LEMMA CleanUp ==
  ASSUME NEW m \in Nodes, Passed(m, Len(Operands(m))), Accepts(m),
         \A j \in 1 .. Len(Operands(m)) : Clean(Operands(m)[j])
  PROVE  Clean(m)
<1>1. /\ Len(Operands(m)) \in Nat /\ DOMAIN Operands(m) = 1 .. Len(Operands(m))
      /\ m.kind = "FUNCTION" => Len(Operands(m)) = 1
  BY Shape DEF WellShaped
<1>2. ~ (m.kind = "FCALL" /\ Len(Operands(m)) > MaxArgs)
  BY <1>1, ArgumentsAssumption DEF Accepts
<1>3. ~ (m.kind = "FUNCTION" /\ m.val.params > MaxArgs)
  <2>1. m.kind = "FUNCTION" => m.val.params \in Nat
    BY NodesAssumption DEF WellDeclared
  <2> QED
    BY <1>1, <2>1, ArgumentsAssumption DEF Passed
<1>4. ~ (m.kind = "PRINT" /\ \E i \in DOMAIN m.val : m.val[i] \notin Printable)
  <2> SUFFICES ASSUME m.kind = "PRINT", NEW i \in DOMAIN m.val
               PROVE  m.val[i] \in Printable
    OBVIOUS
  <2>1. i \in 1 .. Len(Operands(m))
    BY <1>1, ArgumentsAssumption
  <2>2. Len(Operands(m)) > 0
    BY <1>1, <2>1
  <2> QED
    BY <2>1, <2>2 DEF Passed
<1>5. Innocent(m)
  BY <1>2, <1>3, <1>4, InnocentFacts DEF Accepts
<1>6. ASSUME NEW k \in Tree[m]
      PROVE  Innocent(k)
  <2>1. CASE k = m
    BY <1>5, <2>1
  <2>2. CASE \E i \in DOMAIN Operands(m) : k \in Tree[Operands(m)[i]]
    BY <1>1, <2>2 DEF Clean
  <2> QED
    BY <2>1, <2>2, TreeFacts
<1> QED
  BY <1>6 DEF Clean

(* A call is made after the checks that come before it. *)
LEMMA PushChecked ==
  ASSUME NEW s, NEW t, Pooled(s), Pooled(t), Checked(s),
         NEW n \in Nat \ {0}, Pushed(s, t, n)
  PROVE  Checked(t)
<1>1. \A i \in 1 .. n : t[i].node = s[i].node /\ t[i].next = s[i].next
  <2>1. \A i \in 1 .. n : i \in 1 .. n - 1 \/ i = n
    OBVIOUS
  <2> QED
    BY <2>1 DEF Pushed
<1>2. n \in 1 .. n /\ 1 \in 1 .. n
  OBVIOUS
<1>3. Len(s) = n /\ Len(t) = n + 1
  BY DEF Pushed
<1>4. /\ t[n].node \in Nodes /\ t[n].next \in Nat /\ s[n].node \in Nodes
      /\ t[n].next + 1 \in DOMAIN Operands(t[n].node)
  <2>1. n \in 1 .. Len(t) /\ n \in 1 .. Len(s)
    BY <1>3
  <2>2. t[n].node \in Nodes /\ t[n].next \in Nat /\ s[n].node \in Nodes
    BY <2>1, FrameFacts
  <2> QED
    BY <2>2, Shape DEF Pushed, WellShaped
<1>5. /\ t[n + 1].node = Operands(t[n].node)[t[n].next + 1]
      /\ t[n + 1].next = 0
  BY DEF Pushed, Activation
<1>6. \A i \in 1 .. n : /\ Tree[t[i].node] \subseteq Tree[t[1].node]
                        /\ Passed(t[i].node, t[i].next)
                        /\ \A j \in 1 .. t[i].next : Clean(Operands(t[i].node)[j])
  BY <1>1, <1>2, <1>3 DEF Checked
<1>7. /\ Tree[t[n + 1].node] \subseteq Tree[t[1].node]
      /\ Passed(t[n + 1].node, t[n + 1].next)
      /\ \A j \in 1 .. t[n + 1].next : Clean(Operands(t[n + 1].node)[j])
  <2>1. Tree[t[n + 1].node] \subseteq Tree[t[n].node]
    BY <1>4, <1>5, TreeFacts
  <2>2. Tree[t[n].node] \subseteq Tree[t[1].node]
    BY <1>2, <1>6
  <2>3. Passed(t[n + 1].node, t[n + 1].next)
    BY <1>5 DEF Passed
  <2> QED
    BY <1>5, <2>1, <2>2, <2>3
<1>8. Passed(t[n].node, t[n].next + 1)
  <2>1. Passed(t[n].node, t[n].next)
    BY <1>2, <1>6
  <2>2. Admits(t[n].node, t[n].next + 1)
    BY <1>1, <1>2 DEF Pushed
  <2>3. \A j \in 1 .. t[n].next + 1 : j = t[n].next + 1 \/ (j \in 1 .. t[n].next /\ t[n].next > 0)
    BY <1>4
  <2> QED
    BY <2>1, <2>2, <2>3 DEF Passed, Admits
<1>9. \A i \in 1 .. n : Passed(t[i].node, t[i].next + 1)
  <2>1. \A i \in 1 .. n - 1 : Passed(t[i].node, t[i].next + 1)
    <3>1. \A i \in 1 .. n - 1 : i \in 1 .. n /\ i \in 1 .. Len(s) - 1
      BY <1>3
    <3> QED
      BY <1>1, <3>1 DEF Checked
  <2>2. \A i \in 1 .. n : i \in 1 .. n - 1 \/ i = n
    OBVIOUS
  <2> QED
    BY <1>8, <2>1, <2>2
<1>10. \A i \in 1 .. n + 1 : i \in 1 .. n \/ i = n + 1
  OBVIOUS
<1>11. Len(t) - 1 = n
  BY <1>3
<1> QED
  BY <1>3, <1>6, <1>7, <1>9, <1>10, <1>11 DEF Checked

(* What returns is clean: it passed its checks and its operands are clean. *)
LEMMA PopChecked ==
  ASSUME NEW s, NEW t, Pooled(s), Pooled(t), Checked(s),
         NEW n \in Nat \ {0}, Popped(s, t, n)
  PROVE  Checked(t)
<1>1. Len(s) = n /\ Len(t) = n - 1 /\ n # 1
  BY DEF Popped
<1>2. /\ n \in 1 .. Len(s) /\ n - 1 \in 1 .. Len(s) /\ n - 1 \in 1 .. Len(s) - 1
      /\ 1 \in 1 .. n - 1
  BY <1>1
<1>3. /\ s[n].node \in Nodes /\ s[n - 1].next \in Nat
  BY <1>2, FrameFacts
<1>4. \A i \in 1 .. n - 1 : t[i].node = s[i].node
  <2>1. \A i \in 1 .. n - 1 : i \in 1 .. n - 2 \/ i = n - 1
    OBVIOUS
  <2> QED
    BY <2>1 DEF Popped
<1>5. t[n - 1].next = s[n - 1].next + 1
  BY DEF Popped
<1>6. Clean(s[n].node)
  <2>1. /\ Passed(s[n].node, Len(Operands(s[n].node)))
        /\ \A j \in 1 .. Len(Operands(s[n].node)) : Clean(Operands(s[n].node)[j])
    BY <1>2 DEF Checked, Popped
  <2>2. Accepts(s[n].node)
    BY DEF Popped
  <2> QED
    BY <1>3, <2>1, <2>2, CleanUp
<1>7. /\ Passed(t[n - 1].node, t[n - 1].next)
      /\ \A j \in 1 .. t[n - 1].next : Clean(Operands(t[n - 1].node)[j])
  <2>1. Passed(s[n - 1].node, s[n - 1].next + 1)
    BY <1>2 DEF Checked
  <2>2. \A j \in 1 .. s[n - 1].next : Clean(Operands(s[n - 1].node)[j])
    BY <1>2 DEF Checked
  <2>3. Clean(Operands(s[n - 1].node)[s[n - 1].next + 1])
    BY <1>6 DEF Popped
  <2>4. \A j \in 1 .. s[n - 1].next + 1 : j \in 1 .. s[n - 1].next \/ j = s[n - 1].next + 1
    BY <1>3
  <2>5. t[n - 1].node = s[n - 1].node
    BY DEF Popped
  <2> QED
    BY <1>5, <2>1, <2>2, <2>3, <2>4, <2>5
<1>8. \A i \in 1 .. n - 2 : /\ i \in 1 .. n - 1 /\ i \in 1 .. Len(s)
                            /\ i \in 1 .. Len(s) - 1
                            /\ t[i].node = s[i].node /\ t[i].next = s[i].next
  BY <1>1 DEF Popped
<1>9. \A i \in 1 .. n - 1 : Tree[t[i].node] \subseteq Tree[t[1].node]
  <2>1. \A i \in 1 .. n - 1 : i \in 1 .. Len(s)
    BY <1>1
  <2> QED
    BY <1>2, <1>4, <2>1 DEF Checked
<1>10. \A i \in 1 .. n - 2 : /\ Passed(t[i].node, t[i].next)
                             /\ \A j \in 1 .. t[i].next : Clean(Operands(t[i].node)[j])
                             /\ Passed(t[i].node, t[i].next + 1)
  BY <1>8 DEF Checked
<1>11. \A i \in 1 .. n - 1 : i \in 1 .. n - 2 \/ i = n - 1
  OBVIOUS
<1>12. Len(t) - 1 = n - 2
  BY <1>1
<1> QED
  BY <1>1, <1>7, <1>9, <1>10, <1>11, <1>12 DEF Checked

(* Giving back a printed operand leaves everything that was checked. *)
LEMMA StayChecked ==
  ASSUME NEW s, NEW t, Checked(s), NEW n \in Nat \ {0}, Stayed(s, t, n)
  PROVE  Checked(t)
<1>1. \A i \in 1 .. n : t[i].node = s[i].node /\ t[i].next = s[i].next
  <2>1. \A i \in 1 .. n : i \in 1 .. n - 1 \/ i = n
    OBVIOUS
  <2> QED
    BY <2>1 DEF Stayed
<1>2. 1 \in 1 .. n /\ \A i \in 1 .. n - 1 : i \in 1 .. n
  OBVIOUS
<1>3. Len(s) = n /\ Len(t) = n
  BY DEF Stayed
<1> QED
  BY <1>1, <1>2, <1>3 DEF Checked

(* So the checks accumulate over every step of the walk. *)
LEMMA MovesChecked ==
  ASSUME IInv, IInv', Checked(stack), Moved(stack, stack')
  PROVE  Checked(stack')
BY PooledStack, PooledNext, PushChecked, PopChecked, StayChecked DEF Moved

(* What waiting handlers hold is what is in use below the top. *)
LEMMA WaitingInUse ==
  ASSUME IInv
  PROVE  Waiting = HeldUpTo(stack, Len(stack) - 1)
BY DEF Waiting, HeldUpTo, Holds, HeldBy

(* An exit for want of a register: the waiting handlers hold them all.     *)
LEMMA ExhaustedNeeds ==
  ASSUME IInv, Budget(stack), Ungrouped, Exhausted
  PROVE  Need[stack[1].node] > NumRegs
<1>1. /\ WellShaped(Top.node) /\ Top.node \in Nodes /\ Top.next \in Nat
      /\ Top.held \in Seq(Int) /\ Len(stack) \in Nat \ {0} /\ Top = stack[Len(stack)]
      /\ HeldSet \subseteq Regs /\ HeldSet \cap Waiting = {}
      /\ Taken = HeldSet \cup Waiting
  BY TopFacts, Shape
<1>2. NUM_REGS = NumRegs /\ NumRegs \in Nat \ {0}
  BY NumRegsAssumption DEF IInv
<1>3. NumRegs \notin HeldSet /\ OutOfBounds(HeldSet) = {NumRegs}
  BY <1>1, <1>2 DEF Regs, OutOfBounds
<1>4. ASSUME Kind \in Leaf, NoneFree(reg_free_map, NUM_REGS)
      PROVE  Kind \in ExprKinds /\ Regs \subseteq Waiting
  <2>1. Len(Operands(Top.node)) = 0 /\ Kind \in ExprKinds /\ Kind # "TERNARY1"
    BY <1>1, <1>4, KindFacts DEF WellShaped, Kind
  <2>2. Len(Top.held) = 0
    <3>1. Top.next = 0
      BY <1>1, <2>1, TopFacts
    <3> QED
      BY <2>1, <3>1, TopFacts DEF TopCount, Kind
  <2>3. HeldSet = {}
    BY <1>1, <2>2 DEF HeldSet
  <2>4. Regs \subseteq Taken
    BY <1>2, <1>4 DEF NoneFree, Regs, Taken
  <2> QED
    BY <1>1, <2>1, <2>3, <2>4
<1>5. ASSUME NEW n \in OutOfBounds(HeldSet), NoneFree(Released(HeldSet), n)
      PROVE  HeldSet = {} /\ Regs \subseteq Waiting
  <2>1. \A r \in Regs : Released(HeldSet)[r] = 0
    BY <1>2, <1>3, <1>5 DEF NoneFree, Regs
  <2>2. \A r \in Regs : r \notin HeldSet /\ reg_free_map[r] = 0
    BY <2>1 DEF Released
  <2> QED
    BY <1>1, <2>2 DEF Taken
<1>6. ASSUME IsPrintCall
      PROVE  HeldSet # {}
  <2>1. Top.held # <<>>
    BY <1>6 DEF IsPrintCall
  <2>2. 1 \in DOMAIN Top.held
    BY <1>1, <2>1
  <2> QED
    BY <2>2 DEF HeldSet
<1>7. IsCall => Kind \in ExprKinds
  BY KindFacts DEF IsCall
<1>8. Kind \in ExprKinds /\ Regs \subseteq Waiting
  BY <1>4, <1>5, <1>6, <1>7, Zenon DEF Exhausted
<1> DEFINE n == Len(stack)
<1>9. Waiting = Regs
  BY <1>8 DEF Waiting
<1>10. InUse(stack, n - 1) = NumRegs
  <2>1. Cardinality(Regs) = NumRegs
    BY <1>2, FS_Interval DEF Regs
  <2> QED
    BY <1>9, <2>1, WaitingInUse DEF InUse
<1>11. Need[Top.node] \in Nat /\ Need[Top.node] >= 1
  <2>1. Kind # "GROUP"
    BY <1>1 DEF Ungrouped, Kind
  <2>2. Result(Top.node) = 1
    BY <1>8, <2>1 DEF Result, Kind
  <2> QED
    BY <1>1, <2>2, NeedFacts
<1>12. InUse(stack, n - 1) + Need[Top.node] <= Need[stack[1].node]
  <2>1. n \in 1 .. n
    BY <1>1
  <2> QED
    BY <1>1, <2>1 DEF Budget, Within
<1>13. Need[stack[1].node] \in Nat
  <2>1. 1 \in 1 .. Len(stack) /\ Pooled(stack)
    BY <1>1, PooledStack
  <2> QED
    BY <2>1, FrameFacts, NeedFacts
<1> HIDE DEF n
<1> QED
  BY <1>2, <1>10, <1>11, <1>12, <1>13

(* Only the program's own activation is left when the walk ends. *)
LEMMA FinishAlone ==
  ASSUME IInv, Finish
  PROVE  /\ Top.node \in Nodes /\ Top.next \in Nat /\ Len(stack) = 1
         /\ Top = stack[1] /\ Top.node.kind = "PROGRAM"
         /\ Top.next = Len(Operands(Top.node))
<1>1. /\ Top.node \in Nodes /\ Top.next \in Nat
      /\ Len(stack) \in Nat \ {0} /\ Top = stack[Len(stack)]
      /\ stack \in Seq(Frame)
  BY TopFacts
<1>2. Top.node.kind = "PROGRAM" /\ Top.next = Len(Operands(Top.node))
  BY DEF Finish, Evaluated, Kind
<1>3. Len(stack) = 1
  <2> SUFFICES ASSUME Len(stack) # 1 PROVE FALSE
    OBVIOUS
  <2> DEFINE i == Len(stack) - 1
  <2>1. i \in 1 .. Len(stack) - 1 /\ i \in 1 .. Len(stack) /\ i + 1 = Len(stack)
    BY TopFacts
  <2>2. /\ stack[i].next < Len(Operands(stack[i].node))
        /\ Top.node = Operands(stack[i].node)[stack[i].next + 1]
    BY <1>1, <2>1 DEF IInv, WalkInv
  <2>3. stack[i].node \in Nodes /\ stack[i].next \in Nat
    BY <2>1, PooledStack, FrameFacts
  <2> HIDE DEF i
  <2>4. stack[i].next + 1 \in DOMAIN Operands(stack[i].node)
    BY <2>2, <2>3, Shape DEF WellShaped
  <2> QED
    BY <1>2, <2>2, <2>3, <2>4, NodesAssumption DEF WellDeclared
<1>4. Top = stack[1]
  BY <1>1, <1>3
<1> QED
  BY <1>1, <1>2, <1>3, <1>4

(* The end of the walk: every declaration was within the pool. *)
LEMMA FinishFits ==
  ASSUME IInv, Budget(stack), Finish
  PROVE  Need[stack[1].node] <= NumRegs
<1>1. Top.node \in Nodes /\ Top.next \in Nat
  BY FinishAlone
<1>2. Top.node.kind = "PROGRAM" /\ Top.next = Len(Operands(Top.node))
  BY FinishAlone
<1>3. Len(stack) = 1
  BY FinishAlone
<1>4. Top = stack[1]
  BY FinishAlone
<1>5. /\ InUse(stack, 0) = 0
      /\ \A j \in 1 .. Top.next :
           0 + Before(Top.node, j) + Need[Operands(Top.node)[j]] <= NumRegs
  <2>1. 1 \in 1 .. Len(stack) /\ 1 - 1 = 0
    BY <1>3
  <2> QED
    BY <1>4, <2>1, InUseNone DEF Budget, Within
<1>6. CASE Need[Top.node] = Result(Top.node)
  <2>1. Result(Top.node) = 0
    BY <1>2, KindFacts DEF Result, DeclKinds
  <2> QED
    BY <1>4, <1>6, <2>1, NumRegsAssumption
<1>7. CASE \E j \in DOMAIN Operands(Top.node) :
             Need[Top.node] = Before(Top.node, j) + Need[Operands(Top.node)[j]]
  <2>1. PICK j \in DOMAIN Operands(Top.node) :
             Need[Top.node] = Before(Top.node, j) + Need[Operands(Top.node)[j]]
    BY <1>7
  <2>2. j \in 1 .. Top.next /\ j \in Nat \ {0}
    BY <1>1, <1>2, Shape DEF WellShaped
  <2>3. Before(Top.node, j) \in Nat
    BY <1>1, <2>2, BeforeFacts
  <2>4. 0 + Before(Top.node, j) + Need[Operands(Top.node)[j]] <= NumRegs
    BY <1>5, <2>2
  <2>5. 0 + Before(Top.node, j) = Before(Top.node, j)
    BY <2>3
  <2> QED
    BY <1>4, <2>1, <2>4, <2>5
<1> QED
  BY <1>1, <1>6, <1>7, NeedFacts

(* The end of the walk: nothing in the tree makes a handler exit. *)
LEMMA FinishClean ==
  ASSUME IInv, Checked(stack), Finish
  PROVE  Clean(stack[1].node)
<1>1. /\ Top.node \in Nodes /\ Top = stack[1] /\ Top.node.kind = "PROGRAM"
      /\ Top.next = Len(Operands(Top.node)) /\ Len(stack) = 1
  BY FinishAlone
<1>5. 1 \in 1 .. Len(stack)
  BY <1>1
<1>2. /\ Passed(Top.node, Len(Operands(Top.node)))
      /\ \A j \in 1 .. Len(Operands(Top.node)) : Clean(Operands(Top.node)[j])
  BY <1>1, <1>5 DEF Checked
<1>3. Accepts(Top.node)
  BY <1>1 DEF Accepts
<1> QED
  BY <1>1, <1>2, <1>3, CleanUp

(* The node at hand is one of the program's. *)
LEMMA TopInTree ==
  ASSUME IInv, Checked(stack)
  PROVE  Top.node \in Tree[stack[1].node]
<1>1. Len(stack) \in 1 .. Len(stack) /\ Top = stack[Len(stack)] /\ Top.node \in Nodes
  BY TopFacts
<1> QED
  BY <1>1, TreeFacts DEF Checked

(* The other exits and the crash have their cause in the node at hand. *)
LEMMA OtherExits ==
  ASSUME IInv, Checked(stack),
         TooManyArguments \/ Unprintable \/ ArrayNotImplemented \/ ElementTypeMissing
  PROVE  /\ status' \in Errors \ {"no free registers", "unknown register"}
         /\ status' = "too many arguments" => Has("ARGUMENTS")
         /\ status' = "unprintable type" => Has("PRINT")
         /\ status' = "array of non-integers" => Has("DATA")
         /\ status' = "null subtype" => Has("SUBTYPE")
         /\ UNCHANGED stack
<1>1. /\ Top.node \in Nodes /\ Top.next \in Nat /\ Top.node \in Tree[stack[1].node]
      /\ WellShaped(Top.node) /\ Top.next <= Len(Operands(Top.node))
  BY TopFacts, TopInTree, Shape
<1>2. CASE TooManyArguments
  <2>1. status' = "too many arguments" /\ UNCHANGED stack
    BY <1>2 DEF TooManyArguments, Abort
  <2>2. Offends(Top.node)["ARGUMENTS"]
    <3>1. CASE IsCall /\ Len(Top.held) > MaxArgs
      <4>1. Kind \in ExprKinds /\ Kind # "TERNARY1"
        BY <3>1, KindFacts DEF IsCall
      <4>2. Len(Top.held) = Len(Operands(Top.node))
        BY <3>1, <4>1, TopFacts DEF TopCount, IsCall, Evaluated, Kind
      <4>3. Kind # "EXPONENT"
        <5>1. Top.node.kind = "EXPONENT" => Len(Operands(Top.node)) = 2
          BY <1>1, ArgumentsAssumption
        <5>2. MaxArgs \in Nat /\ MaxArgs >= 2 /\ Len(Operands(Top.node)) > MaxArgs
          BY <3>1, <4>2, ArgumentsAssumption
        <5>3. ASSUME Len(Operands(Top.node)) = 2
              PROVE  FALSE
          <6>1. 2 > MaxArgs
            BY <5>2, <5>3, Zenon
          <6> QED
            BY <5>2, <6>1
        <5> QED
          BY <5>1, <5>3 DEF Kind
      <4> QED
        BY <3>1, <4>2, <4>3 DEF IsCall, Offends, Kind
    <3>2. CASE Kind = "FUNCTION" /\ Top.next = 0 /\ Top.node.val.params > MaxArgs
      BY <3>2 DEF Offends, Kind
    <3> QED
      BY <1>2, <3>1, <3>2 DEF TooManyArguments
  <2> QED
    BY <1>1, <2>1, <2>2 DEF Has, Errors
<1>3. CASE Unprintable
  <2>1. status' = "unprintable type" /\ UNCHANGED stack
    BY <1>3 DEF Unprintable, Abort
  <2>2. /\ Top.node.kind = "PRINT" /\ Top.next # Len(Operands(Top.node))
        /\ Top.node.val[Top.next + 1] \notin Printable
    BY <1>3 DEF Unprintable, Evaluated, Kind
  <2>3. Top.next + 1 \in DOMAIN Operands(Top.node)
    BY <1>1, <2>2 DEF WellShaped
  <2>4. Offends(Top.node)["PRINT"]
    BY <1>1, <2>2, <2>3, ArgumentsAssumption DEF Offends
  <2> QED
    BY <1>1, <2>1, <2>4 DEF Has, Errors
<1>4. CASE ArrayNotImplemented
  <2>1. status' = "array of non-integers" /\ UNCHANGED stack
    BY <1>4 DEF ArrayNotImplemented, Abort
  <2>2. Offends(Top.node)["DATA"]
    BY <1>4 DEF ArrayNotImplemented, Offends, Kind
  <2> QED
    BY <1>1, <2>1, <2>2 DEF Has, Errors
<1>5. CASE ElementTypeMissing
  <2>1. status' = "null subtype" /\ UNCHANGED stack
    BY <1>5 DEF ElementTypeMissing, Abort
  <2>2. Offends(Top.node)["SUBTYPE"]
    BY <1>5 DEF ElementTypeMissing, Offends, Kind
  <2> QED
    BY <1>1, <2>1, <2>2 DEF Has, Errors
<1> QED
  BY <1>2, <1>3, <1>4, <1>5
(***************************************************************************)
(* The exits have their causes.                                            *)
(***************************************************************************)

(* What becomes of the status: a handler's step leaves it, the end of the  *)
(* walk and the exits set it and leave the handlers where they are.        *)
LEMMA StatusSteps ==
  ASSUME [Next]_vars
  PROVE  \/ /\ status' = "running"
            /\ Expression \/ Statement \/ (Declaration /\ ~ Finish)
         \/ Finish /\ status' = "done" /\ UNCHANGED stack
         \/ Exhausted /\ status' = "no free registers" /\ UNCHANGED stack
         \/ UnknownRegister
         \/ TooManyArguments \/ Unprintable \/ ArrayNotImplemented \/ ElementTypeMissing
         \/ UNCHANGED <<stack, status>>
<1>1. CASE UNCHANGED vars \/ Terminated
  BY <1>1 DEF vars, Terminated
<1>2. CASE Exit
  BY <1>2 DEF Exit, Exhausted, Abort
<1>3. CASE Declaration
  <2>1. CASE Finish
    BY <2>1 DEF Finish
  <2>2. CASE ~ Finish
    BY <1>3, <2>2 DEF Declaration, FunctionPrologue, FunctionEpilogue,
                      Prototype, GlobalData, Continue, Running
  <2> QED
    BY <2>1, <2>2
<1>4. CASE Statement
  BY <1>4
     DEF Statement, SkipNull, StmtBlock, StmtExpr, StmtReturn, StmtDecl,
         PrintOperand, PrintDone, PrintCall, BranchEnter, IfTest, IfElse,
         IfDone, ForTop, ForTest, ForNext, ForLoop, BranchStep, Continue, Running
<1>5. CASE Expression
  BY <1>5
     DEF Expression, EvaluateOperand, FinishLeft, FinishRight, FinishUnary,
         FinishStep, FinishAssign, FinishWith, TernaryTest, TernaryFirst,
         TernarySecond, LoadLeaf, CallFunction, FinishGroup, Continue, Running
<1> QED
  BY <1>1, <1>2, <1>3, <1>4, <1>5 DEF Next

(* Without a GROUP node every register a handler consults is one of the    *)
(* pool's, so scratch_name and scratch_free find it.                       *)
LEMMA ConsultedKnown ==
  ASSUME IInv
  PROVE  ~ UnknownRegister
<1>1. Consulted \subseteq Regs
  BY TopFacts DEF Consulted
<1>2. \A r \in Regs : Known(r) /\ r # NumRegs
  BY NumRegsAssumption DEF Regs, Known, IInv
<1> QED
  BY <1>1, <1>2, NumRegsAssumption DEF UnknownRegister, Regs

(***************************************************************************)
(* The invariant of the walk: its budget, what it has checked, and the two *)
(* properties of the status that follow from them.                         *)
(***************************************************************************)
EInv == Budget(stack) /\ Checked(stack) /\ ExhaustionExact /\ ExitsJustified

(* One handler, at the root, that has called nothing and holds nothing.    *)
LEMMA BudgetInit ==
  ASSUME CodegenInit
  PROVE  EInv
<1>1. PICK p \in Programs : stack = <<Activation(p)>>
  BY DEF CodegenInit
<1>2. /\ Activation(p).node = p /\ Activation(p).next = 0
      /\ Activation(p).held = <<>> /\ p \in Nodes
  BY NodesAssumption DEF Activation
<1>3. Len(stack) = 1 /\ stack[1] = Activation(p)
  BY <1>1
<1>4. Need[p] \in Nat
  BY <1>2, NeedFacts
<1>5. Within(Need[p], InUse(stack, 1 - 1), stack[1])
  <2>1. 1 - 1 = 0 /\ InUse(stack, 0) = 0
    BY InUseNone
  <2> QED
    BY <1>2, <1>3, <1>4, <2>1 DEF Within
<1>6. \A i \in 1 .. Len(stack) : i = 1
  BY <1>3
<1>7. \A i \in 1 .. Len(stack) - 1 : FALSE
  BY <1>3
<1>8. Budget(stack)
  BY <1>2, <1>3, <1>5, <1>6, <1>7 DEF Budget
<1>9. Checked(stack)
  <2>1. stack[1].next = 0
    BY <1>2, <1>3
  <2>2. Passed(stack[1].node, stack[1].next)
    BY <2>1 DEF Passed
  <2>3. \A j \in 1 .. stack[1].next : FALSE
    BY <2>1
  <2> QED
    BY <1>6, <1>7, <2>2, <2>3 DEF Checked
<1>10. status = "running"
  BY DEF CodegenInit
<1> QED
  BY <1>8, <1>9, <1>10 DEF EInv, ExhaustionExact, ExitsJustified

(* Every step keeps the budget and what is checked, and an exit or the end *)
(* of the walk finds its cause in them.                                    *)
LEMMA BudgetStep ==
  ASSUME IInv, IInv', Ungrouped, EInv, [Next]_vars
  PROVE  EInv'
<1>1. Budget(stack) /\ Checked(stack) /\ ExhaustionExact /\ ExitsJustified
  BY DEF EInv
<1>2. CASE /\ status' = "running"
           /\ Expression \/ Statement \/ (Declaration /\ ~ Finish)
  <2>1. Moved(stack, stack')
    BY <1>1, <1>2, ExpressionMoves, StatementMoves, DeclarationMoves
  <2>2. Budget(stack') /\ Checked(stack')
    BY <1>1, <2>1, MovesBudget, MovesChecked
  <2> QED
    BY <1>2, <2>2 DEF EInv, ExhaustionExact, ExitsJustified
<1>3. CASE Finish /\ status' = "done" /\ UNCHANGED stack
  <2>1. Need[stack[1].node] <= NumRegs
    BY <1>1, <1>3, FinishFits
  <2>2. Clean(stack[1].node)
    BY <1>1, <1>3, FinishClean
  <2>3. ~ Has("ARGUMENTS") /\ ~ Has("PRINT") /\ ~ Has("DATA") /\ ~ Has("SUBTYPE")
    BY <2>2 DEF Has, Clean, Innocent
  <2>4. stack' = stack
    BY <1>3
  <2>5. ~ Has("ARGUMENTS")' /\ ~ Has("PRINT")' /\ ~ Has("DATA")' /\ ~ Has("SUBTYPE")'
    BY <2>3, <2>4 DEF Has
  <2>6. ExhaustionExact'
    BY <1>3, <2>1, <2>4 DEF ExhaustionExact
  <2>7. ExitsJustified'
    BY <1>3, <2>1, <2>4, <2>5 DEF ExitsJustified
  <2> QED
    BY <1>1, <2>4, <2>6, <2>7 DEF EInv
<1>4. CASE Exhausted /\ status' = "no free registers" /\ UNCHANGED stack
  <2>1. Need[stack[1].node] > NumRegs
    BY <1>1, <1>4, ExhaustedNeeds
  <2>2. stack' = stack
    BY <1>4
  <2> QED
    BY <1>1, <1>4, <2>1, <2>2 DEF EInv, ExhaustionExact, ExitsJustified
<1>5. CASE TooManyArguments \/ Unprintable \/ ArrayNotImplemented \/ ElementTypeMissing
  <2>1. /\ status' \in Errors \ {"no free registers", "unknown register"}
        /\ status' = "too many arguments" => Has("ARGUMENTS")
        /\ status' = "unprintable type" => Has("PRINT")
        /\ status' = "array of non-integers" => Has("DATA")
        /\ status' = "null subtype" => Has("SUBTYPE")
        /\ stack' = stack
    BY <1>1, <1>5, OtherExits
  <2>2. /\ status' # "no free registers" /\ status' # "unknown register"
        /\ status' # "done"
    BY <2>1 DEF Errors
  <2>3. /\ status' = "too many arguments" => Has("ARGUMENTS")'
        /\ status' = "unprintable type" => Has("PRINT")'
        /\ status' = "array of non-integers" => Has("DATA")'
        /\ status' = "null subtype" => Has("SUBTYPE")'
    BY <2>1 DEF Has
  <2>4. ExitsJustified'
    BY <2>2, <2>3 DEF ExitsJustified
  <2>5. ExhaustionExact'
    BY <2>2 DEF ExhaustionExact
  <2> QED
    BY <1>1, <2>1, <2>4, <2>5 DEF EInv
<1>6. CASE UNCHANGED <<stack, status>>
  BY <1>1, <1>6 DEF EInv, ExhaustionExact, ExitsJustified, Has
<1> QED
  BY <1>2, <1>3, <1>4, <1>5, <1>6, StatusSteps, ConsultedKnown

(* scratch_alloc fails for exactly the programs that need more registers   *)
(* than there are, whatever the program and the size of the pool.          *)
THEOREM ExhaustionIsExact == Ungrouped => (Spec => []ExhaustionExact)
<1>1. CodegenInit => EInv
  BY BudgetInit
<1>2. Ungrouped /\ IInv /\ IInv' /\ EInv /\ [Next]_vars => EInv'
  BY BudgetStep
<1>3. EInv => ExhaustionExact
  BY DEF EInv
<1>4. Ungrouped => []Ungrouped
  BY DEF Ungrouped
<1> QED
  BY <1>1, <1>2, <1>3, <1>4, Invariant, PTL DEF Spec

(* Every exit of the code generator, and its crash at a missing subtype,   *)
(* has its cause in the program, and a program with such a cause is never  *)
(* compiled.                                                               *)
THEOREM ExitsAreJustified == Ungrouped => (Spec => []ExitsJustified)
<1>1. CodegenInit => EInv
  BY BudgetInit
<1>2. Ungrouped /\ IInv /\ IInv' /\ EInv /\ [Next]_vars => EInv'
  BY BudgetStep
<1>3. EInv => ExitsJustified
  BY DEF EInv
<1>4. Ungrouped => []Ungrouped
  BY DEF Ungrouped
<1> QED
  BY <1>1, <1>2, <1>3, <1>4, Invariant, PTL DEF Spec

-----------------------------------------------------------------------------
(***************************************************************************)
(* The text that the handlers write.                                       *)
(***************************************************************************)
Listing(text) == \E S : text \in Seq(S)

(* A line that spares the operands of the waiting handlers and is none of  *)
(* the lines named in D.                                                   *)
Line(ins, D) == Overwritten(ins) \cap Waiting = {} /\ ins[1] \notin D

Lines(code, D) == Listing(code) /\ \A i \in DOMAIN code : Line(code[i], D)

(* Section directives, and the values of the data section. *)
Values == {".quad", ".string"}
Marks == Section \cup Values

(* An operand that is not the register of a waiting handler. *)
Spared(x) == \A r \in Waiting : x # R(r)

(***************************************************************************)
(* Listings and their lines.                                               *)
(***************************************************************************)

(* The length and the positions of a listing. *)
LEMMA ListingFacts ==
  ASSUME NEW text, Listing(text)
  PROVE  Len(text) \in Nat /\ DOMAIN text = 1 .. Len(text)
BY DEF Listing

(* A listing followed by another. *)
LEMMA JoinFacts ==
  ASSUME NEW s, NEW t, Listing(s), Listing(t)
  PROVE  /\ Listing(s \o t)
         /\ Len(s \o t) = Len(s) + Len(t)
         /\ \A i \in 1 .. Len(s) : i \in 1 .. Len(s \o t) /\ (s \o t)[i] = s[i]
         /\ \A i \in Len(s) + 1 .. Len(s \o t) :
              i - Len(s) \in 1 .. Len(t) /\ (s \o t)[i] = t[i - Len(s)]
<1>1. PICK S : s \in Seq(S)
  BY DEF Listing
<1>2. PICK T : t \in Seq(T)
  BY DEF Listing
<1>3. s \in Seq(S \cup T) /\ t \in Seq(S \cup T)
  BY <1>1, <1>2, SeqMonotonic
<1>4. PICK m, n \in Nat : m = Len(s) /\ n = Len(t)
  BY <1>3
<1>5. /\ s \o t \in Seq(S \cup T)
      /\ Len(s \o t) = m + n
      /\ \A i \in 1 .. m + n :
           (s \o t)[i] = IF i <= m THEN s[i] ELSE t[i - m]
  BY <1>3, <1>4, ConcatProperties
<1>6. Listing(s \o t)
  BY <1>5 DEF Listing
<1> QED
  BY <1>4, <1>5, <1>6

(* Lines that follow lines. *)
LEMMA Joined ==
  ASSUME NEW s, NEW t, NEW D, Lines(s, D), Lines(t, D)
  PROVE  Lines(s \o t, D)
<1>1. /\ Listing(s) /\ Listing(t)
      /\ \A i \in DOMAIN s : Line(s[i], D)
      /\ \A i \in DOMAIN t : Line(t[i], D)
  BY DEF Lines
<1>2. PICK m, n \in Nat : /\ m = Len(s) /\ DOMAIN s = 1 .. m
                          /\ n = Len(t) /\ DOMAIN t = 1 .. n
  BY <1>1, ListingFacts
<1>3. /\ Listing(s \o t) /\ Len(s \o t) = m + n
      /\ \A i \in 1 .. m : (s \o t)[i] = s[i]
      /\ \A i \in m + 1 .. m + n :
           i - m \in 1 .. n /\ (s \o t)[i] = t[i - m]
  BY <1>1, <1>2, JoinFacts
<1>4. DOMAIN (s \o t) = 1 .. m + n
  BY <1>3, ListingFacts
<1>5. ASSUME NEW i \in 1 .. m + n
      PROVE  Line((s \o t)[i], D)
  <2>1. CASE i \in 1 .. m
    BY <2>1, <1>1, <1>2, <1>3
  <2>2. CASE i \in m + 1 .. m + n
    BY <2>2, <1>1, <1>2, <1>3
  <2>3. i \in 1 .. m \/ i \in m + 1 .. m + n
    BY <1>2
  <2> QED
    BY <2>1, <2>2, <2>3
<1> QED
  BY <1>3, <1>4, <1>5 DEF Lines

(* No line, one line, and a short text line by line. *)
LEMMA Lines0 ==
  ASSUME NEW D
  PROVE  Lines(<<>>, D)
<1>1. <<>> \in Seq({}) /\ Len(<<>>) = 0
  BY EmptySeq
<1>2. Listing(<<>>)
  BY <1>1 DEF Listing
<1>3. DOMAIN <<>> = 1 .. 0
  BY <1>1, <1>2, ListingFacts
<1> QED
  BY <1>2, <1>3 DEF Lines

(* A text of one line.                                                     *)
LEMMA Lines1 ==
  ASSUME NEW D, NEW a, Line(a, D)
  PROVE  Lines(<<a>>, D)
<1>1. <<a>> \in Seq({a}) /\ DOMAIN <<a>> = {1} /\ <<a>>[1] = a
  OBVIOUS
<1> QED
  BY <1>1 DEF Lines, Listing

(* A text of two lines.                                                    *)
LEMMA Lines2 ==
  ASSUME NEW D, NEW a, NEW b, Line(a, D), Line(b, D)
  PROVE  Lines(<<a, b>>, D)
<1> DEFINE s == <<a, b>>
<1>1. s \in Seq({a, b}) /\ DOMAIN s = 1 .. 2 /\ s[1] = a /\ s[2] = b
  OBVIOUS
<1> HIDE DEF s
<1> QED
  BY <1>1 DEF Lines, Listing

(* A text of three lines.                                                  *)
LEMMA Lines3 ==
  ASSUME NEW D, NEW a, NEW b, NEW c, Line(a, D), Line(b, D), Line(c, D)
  PROVE  Lines(<<a, b, c>>, D)
<1> DEFINE s == <<a, b, c>>
<1>1. /\ s \in Seq({a, b, c}) /\ DOMAIN s = 1 .. 3
      /\ s[1] = a /\ s[2] = b /\ s[3] = c
  OBVIOUS
<1> HIDE DEF s
<1> QED
  BY <1>1 DEF Lines, Listing

(* A text of five lines.                                                   *)
LEMMA Lines5 ==
  ASSUME NEW D, NEW a, NEW b, NEW c, NEW d, NEW e,
         Line(a, D), Line(b, D), Line(c, D), Line(d, D), Line(e, D)
  PROVE  Lines(<<a, b, c, d, e>>, D)
<1> DEFINE s == <<a, b, c, d, e>>
<1>1. /\ s \in Seq({a, b, c, d, e}) /\ DOMAIN s = 1 .. 5
      /\ s[1] = a /\ s[2] = b /\ s[3] = c /\ s[4] = d /\ s[5] = e
  OBVIOUS
<1> HIDE DEF s
<1> QED
  BY <1>1 DEF Lines, Listing

(* A text of six lines.                                                    *)
LEMMA Lines6 ==
  ASSUME NEW D, NEW a, NEW b, NEW c, NEW d, NEW e, NEW f,
         Line(a, D), Line(b, D), Line(c, D), Line(d, D), Line(e, D), Line(f, D)
  PROVE  Lines(<<a, b, c, d, e, f>>, D)
<1> DEFINE s == <<a, b, c, d, e, f>>
<1>1. /\ s \in Seq({a, b, c, d, e, f}) /\ DOMAIN s = 1 .. 6
      /\ s[1] = a /\ s[2] = b /\ s[3] = c /\ s[4] = d /\ s[5] = e /\ s[6] = f
  OBVIOUS
<1> HIDE DEF s
<1> QED
  BY <1>1 DEF Lines, Listing

(* A text of seven lines.                                                  *)
LEMMA Lines7 ==
  ASSUME NEW D, NEW a, NEW b, NEW c, NEW d, NEW e, NEW f, NEW g,
         Line(a, D), Line(b, D), Line(c, D), Line(d, D), Line(e, D), Line(f, D),
         Line(g, D)
  PROVE  Lines(<<a, b, c, d, e, f, g>>, D)
<1> DEFINE s == <<a, b, c, d, e, f, g>>
<1>1. /\ s \in Seq({a, b, c, d, e, f, g}) /\ DOMAIN s = 1 .. 7
      /\ s[1] = a /\ s[2] = b /\ s[3] = c /\ s[4] = d /\ s[5] = e /\ s[6] = f
      /\ s[7] = g
  OBVIOUS
<1> HIDE DEF s
<1> QED
  BY <1>1 DEF Lines, Listing

(* Fewer lines are forbidden. *)
LEMMA Weaken ==
  ASSUME NEW code, NEW D, NEW E, E \subseteq D, Lines(code, D)
  PROVE  Lines(code, E)
BY DEF Lines, Line

(* One line for each of the numbers up to n. *)
LEMMA LinesFor ==
  ASSUME NEW D, NEW n \in Nat, NEW f, f = [i \in 1 .. n |-> f[i]],
         \A i \in 1 .. n : Line(f[i], D)
  PROVE  Lines(f, D)
<1>1. f \in [1 .. n -> {f[i] : i \in 1 .. n}]
  OBVIOUS
<1>2. f \in Seq({f[i] : i \in 1 .. n})
  BY <1>1, SeqDef
<1>3. DOMAIN f = 1 .. n
  BY <1>1
<1> QED
  BY <1>2, <1>3 DEF Lines, Listing

(***************************************************************************)
(* The lines the handlers print.                                           *)
(***************************************************************************)

(* The instructions that overwrite their last operand. *)
Writers == {"MOVQ", "LEAQ", "ADDQ", "SUBQ", "ANDQ", "ORQ", "NOTQ"}

(* A line that is no such instruction. *)
LEMMA OtherLine ==
  ASSUME NEW D, NEW ins, ins[1] \notin Writers, ins[1] \notin D
  PROVE  Line(ins, D)
BY DEF Line, Overwritten, Writers

(* One with two operands, and one with one. *)
LEMMA WritingLine ==
  ASSUME NEW D, NEW op, op \notin D, NEW x, NEW y, Spared(y)
  PROVE  Line(<<op, x, y>>, D)
<1> DEFINE ins == <<op, x, y>>
<1>1. Len(ins) = 3 /\ ins[3] = y /\ ins[1] = op
  OBVIOUS
<1> HIDE DEF ins
<1>2. Overwritten(ins) \subseteq {r \in Regs : y = R(r)}
  BY <1>1 DEF Overwritten
<1> QED
  BY <1>1, <1>2 DEF Line, Spared, ins

(* An instruction with one operand that is no waiting register spares      *)
(* them all.                                                               *)
LEMMA ShortLine ==
  ASSUME NEW D, NEW op, op \notin D, NEW x, Spared(x)
  PROVE  Line(<<op, x>>, D)
<1> DEFINE ins == <<op, x>>
<1>1. Len(ins) = 2 /\ ins[2] = x /\ ins[1] = op
  OBVIOUS
<1> HIDE DEF ins
<1>2. Overwritten(ins) \subseteq {r \in Regs : x = R(r)}
  BY <1>1 DEF Overwritten
<1> QED
  BY <1>1, <1>2 DEF Line, Spared, ins

(* What is no register of a waiting handler: the registers outside of the  *)
(* pool, the operands in memory, and a register no waiting handler holds.  *)
LEMMA SparedOperands ==
  /\ Spared(Rax) /\ Spared(Rdx) /\ Spared(Rbp) /\ Spared(Rsp)
  /\ \A i : Spared(Argument(i))
  /\ \A b, i : Spared(At(b, i))
  /\ \A s : Spared(symbol_codegen(s))
  /\ \A r : r \notin Waiting => Spared(R(r))
<1>1. \A x : x[1] # "scratch" => Spared(x)
  BY DEF Spared, R
<1>2. /\ Rax[1] = "rax" /\ Rdx[1] = "rdx" /\ Rbp[1] = "rbp" /\ Rsp[1] = "rsp"
      /\ \A i : Argument(i)[1] = "arg_reg"
      /\ \A b, i : At(b, i)[1] = "indexed"
      /\ \A s : symbol_codegen(s)[1] \in {"global", "frame"}
  BY DEF Rax, Rdx, Rbp, Rsp, Argument, At, symbol_codegen
<1>3. \A r, q : R(r) = R(q) => r = q
  BY DEF R
<1>4. \A r : r \notin Waiting => Spared(R(r))
  BY <1>3, Zenon DEF Spared
<1> QED
  BY <1>1, <1>2, <1>4

(* The mnemonics and directives that are neither marks nor overwrite. *)
LEMMA Mnemonics ==
  /\ Writers \cap Marks = {}
  /\ {"JMP", "JE", "CMPQ", "CQO", "IMULQ", "IDIVQ", "CALL", "PUSHQ", "POPQ",
      "RET", ".globl", "define"} \cap (Marks \cup Writers) = {}
  /\ \A k \in Comparison : Jump[k] \notin Marks \cup Writers
BY DEF Writers, Marks, Section, Values, Comparison, Jump

(* A label. *)
LEMMA DefineLine ==
  ASSUME NEW l
  PROVE  Line(Define(l), Marks)
BY OtherLine, Mnemonics DEF Define

(* The operators whose code is one or two instructions, and those that     *)
(* turn flags into 0 or 1.                                                 *)
LEMMA FlagLines ==
  ASSUME NEW jump, jump \notin Marks \cup Writers, NEW v, NEW w, NEW l, NEW r,
         r \notin Waiting
  PROVE  Lines(Flag(jump, v, w, r, l), Marks)
<1>1. Spared(R(r))
  BY SparedOperands
<1>2. \A x : Line(<<jump, x>>, Marks) /\ Line(<<"JMP", x>>, Marks)
  BY OtherLine, Mnemonics
<1>3. \A x : Line(<<"MOVQ", x, R(r)>>, Marks)
  BY <1>1, WritingLine, Mnemonics DEF Writers
<1> QED
  BY <1>2, <1>3, DefineLine, Lines6 DEF Flag

(* A multiplication or division goes through rax and writes one register.  *)
LEMMA ThroughLines ==
  ASSUME NEW op \in {"IMULQ", "IDIVQ"}, NEW l, NEW r, r \notin Waiting, NEW from
  PROVE  Lines(Through(op, l, r, from), Marks)
<1>1. Spared(R(r)) /\ Spared(Rax)
  BY SparedOperands
<1>2. /\ Line(<<"MOVQ", R(l), Rax>>, Marks) /\ Line(<<"MOVQ", from, R(r)>>, Marks)
      /\ Line(<<"CQO">>, Marks) /\ Line(<<op, R(r)>>, Marks)
  BY <1>1, WritingLine, OtherLine, Mnemonics DEF Writers
<1>3. /\ Lines(<< <<"MOVQ", R(l), Rax>> >>, Marks)
      /\ Lines(IF op = "IDIVQ" THEN << <<"CQO">> >> ELSE <<>>, Marks)
      /\ Lines(<< <<op, R(r)>>, <<"MOVQ", from, R(r)>> >>, Marks)
  BY <1>2, Lines0, Lines1, Lines2
<1> QED
  BY <1>3, Joined DEF Through

(* The code of an operator overwrites only the operand that its handler    *)
(* keeps for the result.                                                   *)
LEMMA OperatorLines ==
  ASSUME NEW n, n.kind \in KeepsLeft \cup KeepsRight \cup Unary,
         NEW h, NEW l,
         n.kind \in KeepsRight => h[2] \notin Waiting,
         n.kind \notin KeepsRight => h[1] \notin Waiting
  PROVE  Lines(OperatorCode(n, h, l), Marks)
<1>1. CASE n.kind \in KeepsRight
  <2>1. h[2] \notin Waiting
    BY <1>1
  <2>2. n.kind \in {"MUL", "DIV", "MOD"}
    BY <1>1 DEF KeepsRight
  <2>3. /\ n.kind = "MUL" => OperatorCode(n, h, l) = Through("IMULQ", h[1], h[2], Rax)
        /\ n.kind = "DIV" => OperatorCode(n, h, l) = Through("IDIVQ", h[1], h[2], Rax)
        /\ n.kind = "MOD" => OperatorCode(n, h, l) = Through("IDIVQ", h[1], h[2], Rdx)
    BY DEF OperatorCode, Comparison
  <2> QED
    BY <2>1, <2>2, <2>3, ThroughLines
<1>2. CASE n.kind \in Comparison \cup {"NOT"}
  <2>1. h[1] \notin Waiting
    BY <1>2 DEF KeepsRight, Comparison
  <2>2. Line(<<"CMPQ", R(h[2]), R(h[1])>>, Marks) /\ Line(<<"CMPQ", Imm(0), R(h[1])>>, Marks)
    BY OtherLine, Mnemonics
  <2>3. CASE n.kind = "NOT"
    <3>1. OperatorCode(n, h, l) =
            << <<"CMPQ", Imm(0), R(h[1])>> >> \o Flag("JE", 0, 1, h[1], l)
      BY <2>3 DEF OperatorCode, Comparison
    <3>2. Lines(Flag("JE", 0, 1, h[1], l), Marks)
      BY <2>1, FlagLines, Mnemonics
    <3> QED
      BY <2>2, <3>1, <3>2, Lines1, Joined
  <2>4. CASE n.kind \in Comparison
    <3>1. OperatorCode(n, h, l) =
            << <<"CMPQ", R(h[2]), R(h[1])>> >> \o Flag(Jump[n.kind], 0, 1, h[1], l)
      BY <2>4 DEF OperatorCode, Comparison
    <3>2. Lines(Flag(Jump[n.kind], 0, 1, h[1], l), Marks)
      BY <2>1, <2>4, FlagLines, Mnemonics
    <3> QED
      BY <2>2, <3>1, <3>2, Lines1, Joined
  <2> QED
    BY <1>2, <2>3, <2>4
<1>3. CASE n.kind \in {"ADD", "SUB", "AND", "OR", "INDEX", "NEGATION", "ARG", "BRACE"}
  <2>1. Spared(R(h[1]))
    BY <1>3, SparedOperands DEF KeepsRight
  <2>2. /\ \A op \in Writers : \A x : Line(<<op, x, R(h[1])>>, Marks)
        /\ Line(<<"NOTQ", R(h[1])>>, Marks)
    BY <2>1, WritingLine, ShortLine, Mnemonics DEF Writers
  <2>3. \/ \E op \in Writers : \E x : OperatorCode(n, h, l) = << <<op, x, R(h[1])>> >>
        \/ OperatorCode(n, h, l) = << <<"NOTQ", R(h[1])>>, <<"ADDQ", Imm(1), R(h[1])>> >>
        \/ OperatorCode(n, h, l) = <<>>
    <3>1. n.kind = "ADD" => OperatorCode(n, h, l) = << <<"ADDQ", R(h[2]), R(h[1])>> >>
      BY DEF OperatorCode, Comparison
    <3>2. n.kind = "SUB" => OperatorCode(n, h, l) = << <<"SUBQ", R(h[2]), R(h[1])>> >>
      BY DEF OperatorCode, Comparison
    <3>3. n.kind = "AND" => OperatorCode(n, h, l) = << <<"ANDQ", R(h[2]), R(h[1])>> >>
      BY DEF OperatorCode, Comparison
    <3>4. n.kind = "OR" => OperatorCode(n, h, l) = << <<"ORQ", R(h[2]), R(h[1])>> >>
      BY DEF OperatorCode, Comparison
    <3>5. n.kind = "INDEX" =>
            OperatorCode(n, h, l) = << <<"MOVQ", At(h[1], h[2]), R(h[1])>> >>
      BY DEF OperatorCode, Comparison
    <3>6. n.kind = "NEGATION" => OperatorCode(n, h, l) =
            << <<"NOTQ", R(h[1])>>, <<"ADDQ", Imm(1), R(h[1])>> >>
      BY DEF OperatorCode, Comparison
    <3>7. n.kind \in {"ARG", "BRACE"} => OperatorCode(n, h, l) = <<>>
      BY DEF OperatorCode, Comparison
    <3>8. {"ADDQ", "SUBQ", "ANDQ", "ORQ", "MOVQ"} \subseteq Writers
      BY DEF Writers
    <3>9. ASSUME NEW op \in Writers, NEW x,
                 OperatorCode(n, h, l) = << <<op, x, R(h[1])>> >>
          PROVE  \E o \in Writers : \E y : OperatorCode(n, h, l) = << <<o, y, R(h[1])>> >>
      BY <3>9
    <3>10. n.kind \in {"ADD", "SUB", "AND", "OR", "INDEX"} =>
            \E op \in Writers : \E x : OperatorCode(n, h, l) = << <<op, x, R(h[1])>> >>
      BY <3>1, <3>2, <3>3, <3>4, <3>5, <3>8, <3>9, Zenon
    <3> QED
      BY <1>3, <3>6, <3>7, <3>10
  <2>4. Line(<<"ADDQ", Imm(1), R(h[1])>>, Marks)
    BY <2>2 DEF Writers
  <2> QED
    BY <2>2, <2>3, <2>4, Lines0, Lines1, Lines2, Zenon
<1> QED
  BY <1>1, <1>2, <1>3 DEF KeepsLeft, KeepsRight, Unary, Comparison

(* A step of a variable or an element, and an assignment to one. *)
LEMMA TargetLines ==
  ASSUME NEW n, NEW h
  PROVE  Lines(StepCode(n, h), Marks) /\ Lines(AssignCode(n, h), Marks)
<1>1. /\ Spared(symbol_codegen(n.sub[1].val))
      /\ Spared(At(h[2], h[3])) /\ Spared(At(h[3], h[2]))
  BY SparedOperands
<1>2. \A op \in Writers : \A x, y : Spared(y) => Line(<<op, x, y>>, Marks)
  BY WritingLine, Mnemonics
<1>3. \E op \in Writers : \E x, y : Spared(y) /\ StepCode(n, h) = << <<op, x, y>> >>
  <2> DEFINE op == IF n.kind = "INCREMENT" THEN "ADDQ" ELSE "SUBQ"
             y == IF n.sub[1].kind = "ID" THEN symbol_codegen(n.sub[1].val)
                                          ELSE At(h[2], h[3])
  <2>1. op \in Writers /\ Spared(y)
    BY <1>1 DEF Writers
  <2>2. StepCode(n, h) = << <<op, Imm(1), y>> >>
    BY DEF StepCode
  <2> HIDE DEF op, y
  <2> QED
    BY <2>1, <2>2, Zenon
<1>4. \E x, y : Spared(y) /\ AssignCode(n, h) = << <<"MOVQ", x, y>> >>
  <2> DEFINE y == IF n.sub[1].kind = "ID" THEN symbol_codegen(n.sub[1].val)
                                          ELSE At(h[3], h[2])
  <2>1. Spared(y)
    BY <1>1
  <2>2. AssignCode(n, h) = << <<"MOVQ", R(h[1]), y>> >>
    BY DEF AssignCode
  <2> HIDE DEF y
  <2> QED
    BY <2>1, <2>2, Zenon
<1>5. "MOVQ" \in Writers
  BY DEF Writers
<1> QED
  BY <1>2, <1>3, <1>4, <1>5, Lines1, Zenon

(* A call: the arguments leave for the argument registers, r10 and r11 are *)
(* saved around it, and only the register of the result is overwritten.    *)
LEMMA CallLines ==
  ASSUME NEW h, NEW S, h \in Seq(S), NEW name, NEW r, r \notin Waiting
  PROVE  Lines(CallSequence(h, name, r), Marks)
<1> DEFINE moves == [i \in 1 .. Len(h) |-> <<"MOVQ", R(h[i]), Argument(i)>>]
           rest == << <<"MOVQ", Imm(0), Rax>>, <<"PUSHQ", R(1)>>, <<"PUSHQ", R(2)>>,
                      <<"CALL", name>>, <<"POPQ", R(2)>>, <<"POPQ", R(1)>>,
                      <<"MOVQ", Rax, R(r)>> >>
<1>1. \A x, y : Spared(y) => Line(<<"MOVQ", x, y>>, Marks)
  BY WritingLine, Mnemonics DEF Writers
<1>2. Len(h) \in Nat
  OBVIOUS
<1>3. \A i \in 1 .. Len(h) : Line(moves[i], Marks)
  BY <1>1, SparedOperands
<1>4. Lines(moves, Marks)
  <2> moves = [i \in 1 .. Len(h) |-> moves[i]]
    OBVIOUS
  <2> HIDE DEF moves
  <2> QED
    BY <1>2, <1>3, LinesFor
<1>5. Lines(rest, Marks)
  <2>1. Spared(Rax) /\ Spared(R(r))
    BY SparedOperands
  <2>2. /\ Line(<<"MOVQ", Imm(0), Rax>>, Marks) /\ Line(<<"MOVQ", Rax, R(r)>>, Marks)
        /\ \A x : Line(<<"PUSHQ", x>>, Marks) /\ Line(<<"POPQ", x>>, Marks)
        /\ Line(<<"CALL", name>>, Marks)
    BY <1>1, <2>1, OtherLine, Mnemonics
  <2> QED
    BY <2>2, Lines7
<1>6. CallSequence(h, name, r) = moves \o rest
  BY DEF CallSequence
<1> QED
  BY <1>4, <1>5, <1>6, Joined

(***************************************************************************)
(* Sections.                                                               *)
(***************************************************************************)

(* Each line stands in its section: SectionsSound of a text. *)
WellPlaced(text) ==
  \A i, j \in DOMAIN text :
    /\ j < i
    /\ text[j][1] \in Section
    /\ \A k \in j + 1 .. i : text[k][1] \notin Section
    /\ text[i][1] \notin Directive
    => (text[j][1] = ".data") <=> (text[i][1] \in Values)

(* The section the next line of the text belongs to. *)
Open(text, s) ==
  \E j \in DOMAIN text :
    /\ text[j][1] = s
    /\ \A k \in j + 1 .. Len(text) : text[k][1] \notin Section

(* A text of its own: whatever it follows, it begins a section. *)
Opens(text, s) ==
  /\ Listing(text) /\ WellPlaced(text) /\ Open(text, s)
  /\ 1 \in DOMAIN text /\ text[1][1] \in Section

(* The lines that belong to section s. *)
Belongs(ins, s) ==
  /\ ins[1] \notin Section
  /\ ins[1] \in Directive \/ (s = ".data" <=> ins[1] \in Values)

(* Lines of the open section keep every line in its place. *)
LEMMA Continued ==
  ASSUME NEW t, NEW code, NEW s \in Section, Listing(t), Listing(code),
         WellPlaced(t), Open(t, s), \A i \in DOMAIN code : Belongs(code[i], s)
  PROVE  Listing(t \o code) /\ WellPlaced(t \o code) /\ Open(t \o code, s)
<1> DEFINE u == t \o code
<1>1. PICK m, n \in Nat : /\ m = Len(t) /\ DOMAIN t = 1 .. m
                          /\ n = Len(code) /\ DOMAIN code = 1 .. n
  BY ListingFacts
<1>2. /\ Listing(u) /\ Len(u) = m + n
      /\ \A i \in 1 .. m : u[i] = t[i]
      /\ \A i \in m + 1 .. m + n : i - m \in 1 .. n /\ u[i] = code[i - m]
  BY <1>1, JoinFacts
<1>3. DOMAIN u = 1 .. m + n
  BY <1>2, ListingFacts
<1> HIDE DEF u
<1>4. PICK o \in 1 .. m : /\ t[o][1] = s
                          /\ \A k \in o + 1 .. m : t[k][1] \notin Section
  BY <1>1 DEF Open
<1>5. \A i \in m + 1 .. m + n : Belongs(u[i], s)
  BY <1>1, <1>2
<1>6. u[o][1] = s /\ \A k \in o + 1 .. m + n : u[k][1] \notin Section
  <2>1. ASSUME NEW k \in o + 1 .. m + n
        PROVE  u[k][1] \notin Section
    <3>1. k \in o + 1 .. m \/ k \in m + 1 .. m + n
      BY <2>1
    <3>2. CASE k \in o + 1 .. m
      BY <3>2, <1>2, <1>4
    <3>3. CASE k \in m + 1 .. m + n
      BY <3>3, <1>5 DEF Belongs
    <3> QED
      BY <3>1, <3>2, <3>3
  <2> QED
    BY <2>1, <1>2, <1>4
<1>7. Open(u, s)
  <2>1. o \in 1 .. m + n
    BY <1>1
  <2> QED
    BY <1>2, <1>3, <1>6, <2>1 DEF Open
<1>8. ASSUME NEW i \in 1 .. m + n, NEW j \in 1 .. m + n,
             j < i, u[j][1] \in Section,
             \A k \in j + 1 .. i : u[k][1] \notin Section,
             u[i][1] \notin Directive
      PROVE  (u[j][1] = ".data") <=> (u[i][1] \in Values)
  <2>1. i \in 1 .. m \/ i \in m + 1 .. m + n
    BY <1>8
  <2>2. CASE i \in 1 .. m
    <3>1. j \in 1 .. m /\ \A k \in j + 1 .. i : k \in 1 .. m
      BY <2>2, <1>8
    <3>2. \A k \in j + 1 .. i : t[k][1] \notin Section
      BY <1>2, <1>8, <3>1
    <3>3. t[j] = u[j] /\ t[i] = u[i]
      BY <1>2, <2>2, <3>1
    <3> QED
      BY <1>1, <1>8, <2>2, <3>1, <3>2, <3>3 DEF WellPlaced
  <2>3. CASE i \in m + 1 .. m + n
    <3>1. j = o
      <4>1. ~ j \in o + 1 .. m + n
        BY <1>6, <1>8
      <4>2. ~ o \in j + 1 .. i
        BY <1>6, <1>8
      <4> QED
        BY <4>1, <4>2, <2>3, <1>8
    <3> QED
      BY <3>1, <1>5, <1>6, <1>8, <2>3 DEF Belongs
  <2> QED
    BY <2>1, <2>2, <2>3
<1>9. WellPlaced(u)
  BY <1>3, <1>8 DEF WellPlaced
<1> QED
  BY <1>2, <1>7, <1>9 DEF u

(* A text of its own may follow any other. *)
LEMMA Reopened ==
  ASSUME NEW t, NEW code, NEW s, Listing(t), WellPlaced(t), Opens(code, s)
  PROVE  Listing(t \o code) /\ WellPlaced(t \o code) /\ Open(t \o code, s)
<1> DEFINE u == t \o code
<1>1. PICK m, n \in Nat : /\ m = Len(t) /\ DOMAIN t = 1 .. m
                          /\ n = Len(code) /\ DOMAIN code = 1 .. n
  BY ListingFacts DEF Opens
<1>2. /\ Listing(u) /\ Len(u) = m + n
      /\ \A i \in 1 .. m : u[i] = t[i]
      /\ \A i \in m + 1 .. m + n : i - m \in 1 .. n /\ u[i] = code[i - m]
  BY <1>1, JoinFacts DEF Opens
<1>3. DOMAIN u = 1 .. m + n
  BY <1>2, ListingFacts
<1> HIDE DEF u
<1>4. PICK o \in 1 .. n : /\ code[o][1] = s
                          /\ \A k \in o + 1 .. n : code[k][1] \notin Section
  BY <1>1 DEF Opens, Open
<1>5. Open(u, s)
  <2>1. o + m \in m + 1 .. m + n /\ (o + m) - m = o
    BY <1>1
  <2>2. u[o + m][1] = s
    BY <1>2, <1>4, <2>1
  <2>3. ASSUME NEW k \in (o + m) + 1 .. m + n
        PROVE  u[k][1] \notin Section
    <3>1. k \in m + 1 .. m + n /\ k - m \in o + 1 .. n
      BY <1>1
    <3> QED
      BY <3>1, <1>2, <1>4
  <2> QED
    BY <1>2, <1>3, <2>1, <2>2, <2>3 DEF Open
<1>6. ASSUME NEW i \in 1 .. m + n, NEW j \in 1 .. m + n,
             j < i, u[j][1] \in Section,
             \A k \in j + 1 .. i : u[k][1] \notin Section,
             u[i][1] \notin Directive
      PROVE  (u[j][1] = ".data") <=> (u[i][1] \in Values)
  <2>1. i \in 1 .. m \/ i \in m + 1 .. m + n
    BY <1>6
  <2>2. CASE i \in 1 .. m
    <3>1. j \in 1 .. m /\ \A k \in j + 1 .. i : k \in 1 .. m
      BY <2>2, <1>6
    <3>2. \A k \in j + 1 .. i : t[k][1] \notin Section
      BY <1>2, <1>6, <3>1
    <3>3. t[j] = u[j] /\ t[i] = u[i]
      BY <1>2, <2>2, <3>1
    <3> QED
      BY <1>1, <1>6, <2>2, <3>1, <3>2, <3>3 DEF WellPlaced
  <2>3. CASE i \in m + 1 .. m + n
    <3>1. m + 1 \in m + 1 .. m + n /\ (m + 1) - m = 1
      BY <2>3
    <3>2. u[m + 1][1] \in Section
      BY <3>1, <1>2 DEF Opens
    <3>3. j \in m + 1 .. m + n
      <4>1. ~ m + 1 \in j + 1 .. i
        BY <3>2, <1>6
      <4> QED
        BY <4>1, <2>3, <1>6
    <3>4. PICK a, b \in 1 .. n : a = i - m /\ b = j - m
      BY <2>3, <3>3
    <3>5. u[i] = code[a] /\ u[j] = code[b]
      BY <1>2, <2>3, <3>3, <3>4
    <3>6. ASSUME NEW k \in b + 1 .. a
          PROVE  code[k][1] \notin Section
      <4>1. k + m \in j + 1 .. i /\ k + m \in m + 1 .. m + n /\ (k + m) - m = k
        BY <3>4, <2>3, <3>3
      <4> QED
        BY <4>1, <1>2, <1>6
    <3>7. b < a
      BY <3>4, <1>6
    <3> QED
      BY <1>1, <1>6, <3>5, <3>6, <3>7 DEF Opens, WellPlaced
  <2> QED
    BY <2>1, <2>2, <2>3
<1>7. WellPlaced(u)
  BY <1>3, <1>6 DEF WellPlaced
<1> QED
  BY <1>2, <1>5, <1>7 DEF u

(* The lines of a handler that has no directive of its own belong to the   *)
(* text section.                                                           *)
LEMMA MarklessBelong ==
  ASSUME NEW code, Lines(code, Marks)
  PROVE  Listing(code) /\ \A i \in DOMAIN code : Belongs(code[i], ".text")
BY DEF Lines, Line, Belongs, Marks

(* A text of its own may be continued. *)
LEMMA OpensOn ==
  ASSUME NEW t, NEW code, NEW s \in Section, Opens(t, s), Listing(code),
         \A i \in DOMAIN code : Belongs(code[i], s)
  PROVE  Opens(t \o code, s)
<1>1. Listing(t) /\ 1 \in 1 .. Len(t) /\ t[1][1] \in Section
  BY ListingFacts DEF Opens
<1>2. (t \o code)[1] = t[1] /\ 1 \in 1 .. Len(t \o code)
  BY <1>1, JoinFacts
<1>3. Listing(t \o code) /\ WellPlaced(t \o code) /\ Open(t \o code, s)
  BY Continued DEF Opens
<1> QED
  BY <1>1, <1>2, <1>3, ListingFacts DEF Opens

(* A directive, and the lines of its section. *)
LEMMA OpensWith ==
  ASSUME NEW s \in Section, NEW code, Listing(code),
         \A i \in DOMAIN code : Belongs(code[i], s)
  PROVE  Opens(<< <<s>> >> \o code, s)
<1> DEFINE t == << <<s>> >>
<1>1. t \in Seq({<<s>>}) /\ Len(t) = 1 /\ DOMAIN t = {1} /\ t[1][1] = s
  OBVIOUS
<1> HIDE DEF t
<1>2. Opens(t, s)
  <2>1. Listing(t)
    BY <1>1 DEF Listing
  <2>2. WellPlaced(t)
    BY <1>1 DEF WellPlaced
  <2>3. Open(t, s)
    BY <1>1 DEF Open
  <2> QED
    BY <1>1, <2>1, <2>2, <2>3 DEF Opens
<1>3. Opens(t \o code, s)
  BY <1>2, OpensOn
<1> QED
  BY <1>3 DEF t

(* A leaf: a string literal visits the data section and comes back. *)
LEMMA LeafLines ==
  ASSUME NEW n, NEW l, NEW r, r \notin Waiting
  PROVE  \/ Lines(LeafCode(n, r, l), Marks)
         \/ Lines(LeafCode(n, r, l), {}) /\ Opens(LeafCode(n, r, l), ".text")
<1>1. Spared(R(r))
  BY SparedOperands
<1>2. \A x, D : D \cap Writers = {} =>
        Line(<<"MOVQ", x, R(r)>>, D) /\ Line(<<"LEAQ", x, R(r)>>, D)
  BY <1>1, WritingLine DEF Writers
<1>3. Marks \cap Writers = {} /\ {} \cap Writers = {}
  BY Mnemonics
<1>4. CASE n.kind = "STR_LIT"
  <2> DEFINE a == <<".data">>
             b == Define(StringLabel(l))
             c == <<".string", Imm(n.val)>>
             d == <<".text">>
             e == <<"LEAQ", StringLabel(l), R(r)>>
             s == <<a, b, c, d, e>>
  <2>1. LeafCode(n, r, l) = s
    BY <1>4 DEF LeafCode
  <2>2. /\ a[1] = ".data" /\ b[1] = "define" /\ c[1] = ".string" /\ d[1] = ".text"
        /\ e[1] = "LEAQ"
    BY DEF Define
  <2>3. Line(e, {})
    BY <1>2, <1>3
  <2> HIDE DEF a, b, c, d, e
  <2>4. Line(a, {}) /\ Line(b, {}) /\ Line(c, {}) /\ Line(d, {})
    BY <2>2, OtherLine DEF Writers
  <2>5. Lines(s, {})
    BY <2>3, <2>4, Lines5
  <2>6. /\ DOMAIN s = 1 .. 5 /\ Len(s) = 5
        /\ s[1] = a /\ s[2] = b /\ s[3] = c /\ s[4] = d /\ s[5] = e
    OBVIOUS
  <2>7. Listing(s)
    BY <2>5 DEF Lines
  <2> HIDE DEF s
  <2>8. Open(s, ".text")
    BY <2>2, <2>6 DEF Open, Section
  <2>9. WellPlaced(s)
    <3>1. ASSUME NEW i \in 1 .. 5, NEW j \in 1 .. 5, j < i, s[j][1] \in Section,
                 \A k \in j + 1 .. i : s[k][1] \notin Section,
                 s[i][1] \notin Directive
          PROVE  (s[j][1] = ".data") <=> (s[i][1] \in Values)
      <4>1. j = 1 \/ j = 4
        BY <3>1, <2>2, <2>6 DEF Section
      <4>2. i = 3 \/ i = 5
        BY <3>1, <2>2, <2>6 DEF Section, Directive
      <4>3. j = 1 => i = 3
        <5>1. j = 1 /\ i = 5 => 4 \in j + 1 .. i
          BY SMT
        <5> QED
          BY <5>1, <4>2, <3>1, <2>2, <2>6 DEF Section
      <4>4. j = 4 => i = 5
        BY <3>1, <4>2
      <4> QED
        BY <4>1, <4>3, <4>4, <2>2, <2>6 DEF Values
    <3> QED
      BY <2>6, <3>1 DEF WellPlaced
  <2> QED
    BY <2>1, <2>2, <2>5, <2>6, <2>7, <2>8, <2>9 DEF Opens, Section
<1>5. CASE n.kind # "STR_LIT"
  <2>1. \E x : LeafCode(n, r, l) = << <<"MOVQ", x, R(r)>> >>
    <3>1. n.kind = "ID" => LeafCode(n, r, l) = << <<"MOVQ", symbol_codegen(n.val), R(r)>> >>
      BY DEF LeafCode
    <3>2. n.kind # "ID" => LeafCode(n, r, l) = << <<"MOVQ", Imm(n.val), R(r)>> >>
      BY <1>5 DEF LeafCode
    <3> QED
      BY <3>1, <3>2, Zenon
  <2> QED
    BY <2>1, <1>2, <1>3, Lines1, Zenon
<1> QED
  BY <1>4, <1>5

(* A global variable: everything it prints belongs to the data section. *)
LEMMA DataLines ==
  ASSUME NEW d, NEW l, Len(d.init) \in Nat, DOMAIN d.init = 1 .. Len(d.init)
  PROVE  Lines(DataCode(d, l), {}) /\ Opens(DataCode(d, l), ".data")
<1> DEFINE kept == Values \cup Directive
           Datum(code) == Listing(code) /\ \A i \in DOMAIN code : code[i][1] \in kept
<1>1. \A ins : ins[1] \in kept => Line(ins, {}) /\ Belongs(ins, ".data")
  BY OtherLine DEF Values, Directive, Writers, Belongs, Section
<1>2. ASSUME NEW code, Datum(code)
      PROVE  Lines(code, {}) /\ \A i \in DOMAIN code : Belongs(code[i], ".data")
  BY <1>1, <1>2 DEF Lines
<1>3. ASSUME NEW s, NEW t, Datum(s), Datum(t)
      PROVE  Datum(s \o t)
  <2>1. PICK m, n \in Nat : m = Len(s) /\ DOMAIN s = 1 .. m /\ n = Len(t) /\ DOMAIN t = 1 .. n
    BY <1>3, ListingFacts
  <2>2. /\ Listing(s \o t) /\ Len(s \o t) = m + n
        /\ \A i \in 1 .. m : (s \o t)[i] = s[i]
        /\ \A i \in m + 1 .. m + n : i - m \in 1 .. n /\ (s \o t)[i] = t[i - m]
    BY <1>3, <2>1, JoinFacts
  <2>3. DOMAIN (s \o t) = 1 .. m + n
    BY <2>2, ListingFacts
  <2>4. ASSUME NEW i \in 1 .. m + n
        PROVE  (s \o t)[i][1] \in kept
    <3>1. i \in 1 .. m \/ i \in m + 1 .. m + n
      BY <2>1
    <3> QED
      BY <3>1, <1>3, <2>1, <2>2
  <2> QED
    BY <2>2, <2>3, <2>4
<1> DEFINE value == IF d.init = <<>> THEN Imm(0)
                    ELSE IF Indirect(d) THEN StringLabel(l) ELSE Imm(d.init[1])
           define == <<Define(StringLabel(l))>>
           values == [i \in DOMAIN d.init |->
                        <<IF d.type = "STRING" THEN ".string" ELSE ".quad",
                          Imm(d.init[i])>>]
           content == IF Indirect(d) /\ d.init # <<>> THEN define \o values ELSE <<>>
           tail == << <<".globl", d.name>>, Define(<<"global", d.name>>),
                      <<".quad", value>> >>
<1>4. DataCode(d, l) = << <<".data">> >> \o content \o tail
  BY DEF DataCode
<1>5. Datum(define)
  <2>1. Define(StringLabel(l))[1] \in kept
    BY DEF Define, Directive
  <2>2. define \in Seq({Define(StringLabel(l))}) /\ DOMAIN define = {1}
        /\ define[1] = Define(StringLabel(l))
    OBVIOUS
  <2> HIDE DEF define, kept
  <2> QED
    BY <2>1, <2>2 DEF Listing
<1>6. Datum(values)
  <2>1. \A i \in 1 .. Len(d.init) : values[i][1] \in kept
    BY DEF Values
  <2>2. values \in [1 .. Len(d.init) -> {values[i] : i \in 1 .. Len(d.init)}]
    OBVIOUS
  <2> HIDE DEF values, kept
  <2>3. values \in Seq({values[i] : i \in 1 .. Len(d.init)})
    BY <2>2, SeqDef
  <2> QED
    BY <2>1, <2>2, <2>3 DEF Listing
<1>7. Datum(<<>>)
  <2>1. Lines(<<>>, {}) /\ \A i \in DOMAIN <<>> : FALSE
    BY Lines0
  <2> QED
    BY <2>1 DEF Lines
<1> HIDE DEF define, values
<1>8. Datum(content)
  <2>1. Datum(define \o values)
    BY <1>3, <1>5, <1>6
  <2> HIDE DEF Datum
  <2> QED
    BY <1>7, <2>1
<1>9. Datum(tail)
  <2> DEFINE a == <<".globl", d.name>>
             b == Define(<<"global", d.name>>)
             c == <<".quad", value>>
  <2>1. tail \in Seq({a, b, c}) /\ DOMAIN tail = 1 .. 3
        /\ tail[1] = a /\ tail[2] = b /\ tail[3] = c
    OBVIOUS
  <2>2. a[1] \in kept /\ b[1] \in kept /\ c[1] \in kept
    BY DEF Define, Directive, Values
  <2> HIDE DEF a, b, c, tail, kept
  <2> QED
    BY <2>1, <2>2 DEF Listing
<1> HIDE DEF content, tail, Datum
<1>10. Datum(content \o tail)
  BY <1>3, <1>8, <1>9
<1>11. << <<".data">> >> \o content \o tail = << <<".data">> >> \o (content \o tail)
  <2>1. Listing(content) /\ Listing(tail)
    BY <1>8, <1>9 DEF Datum
  <2>2. PICK S, T : content \in Seq(S) /\ tail \in Seq(T)
    BY <2>1 DEF Listing
  <2> DEFINE U == {<<".data">>} \cup S \cup T
  <2>3. content \in Seq(U) /\ tail \in Seq(U) /\ << <<".data">> >> \in Seq(U)
    BY <2>2, SeqMonotonic
  <2> QED
    BY <2>3, ConcatAssociative
<1>12. Lines(content \o tail, {}) /\ Listing(content \o tail)
       /\ \A i \in DOMAIN (content \o tail) : Belongs((content \o tail)[i], ".data")
  BY <1>2, <1>10 DEF Lines
<1>13. Lines(<< <<".data">> >>, {})
  BY OtherLine, Lines1 DEF Writers
<1> QED
  BY <1>4, <1>11, <1>12, <1>13, Joined, OpensWith DEF Section

(* The prologue opens the text section, with a label that begins the       *)
(* function; the epilogue is instructions; a prototype opens the text      *)
(* section for nothing.                                                    *)
LEMMA PrologueLines ==
  ASSUME NEW name, NEW p \in Nat, NEW size
  PROVE  LET code == << <<".text">>, <<".globl", name>>, Define(<<"function", name>>),
                        <<"PUSHQ", Rbp>>, <<"MOVQ", Rsp, Rbp>> >>
                     \o [i \in 1 .. p |-> <<"PUSHQ", Argument(i)>>]
                     \o << <<"SUBQ", Imm(size), Rsp>> >>
                     \o SaveRegs
         IN  Lines(code, {}) /\ Opens(code, ".text")
<1> DEFINE a == <<".text">>
           b == <<".globl", name>>
           c == Define(<<"function", name>>)
           d == <<"PUSHQ", Rbp>>
           e == <<"MOVQ", Rsp, Rbp>>
           first == <<a, b, c, d, e>>
           pushes == [i \in 1 .. p |-> <<"PUSHQ", Argument(i)>>]
           room == << <<"SUBQ", Imm(size), Rsp>> >>
<1>1. /\ a[1] = ".text" /\ b[1] = ".globl" /\ c[1] = "define" /\ d[1] = "PUSHQ"
      /\ e[1] = "MOVQ"
  BY DEF Define
<1>2. Line(e, {})
  BY SparedOperands, WritingLine
<1> HIDE DEF a, b, c, d, e
<1>3. Line(a, {}) /\ Line(b, {}) /\ Line(c, {}) /\ Line(d, {})
  BY <1>1, OtherLine DEF Writers
<1>4. Lines(first, {})
  BY <1>2, <1>3, Lines5
<1>5. Opens(first, ".text")
  <2>1. /\ DOMAIN first = 1 .. 5 /\ Len(first) = 5
        /\ first[1] = a /\ first[2] = b /\ first[3] = c /\ first[4] = d /\ first[5] = e
    OBVIOUS
  <2>2. Listing(first)
    BY <1>4 DEF Lines
  <2> HIDE DEF first
  <2>3. first[1][1] = ".text" /\ \A k \in 2 .. 5 : first[k][1] \notin Section \cup Values
    BY <1>1, <2>1 DEF Section, Values
  <2>4. Open(first, ".text")
    BY <2>1, <2>3 DEF Open
  <2>5. WellPlaced(first)
    <3>1. ASSUME NEW i \in 1 .. 5, NEW j \in 1 .. 5, j < i, first[j][1] \in Section
          PROVE  first[j][1] # ".data" /\ first[i][1] \notin Values
      <4>1. j = 1 /\ i \in 2 .. 5
        BY <3>1, <2>3
      <4> QED
        BY <4>1, <2>3
    <3> QED
      BY <2>1, <3>1 DEF WellPlaced
  <2> QED
    BY <2>1, <2>2, <2>3, <2>4, <2>5 DEF Opens, Section
<1>6. Lines(pushes, Marks)
  <2>1. \A i \in 1 .. p : Line(pushes[i], Marks)
    BY OtherLine, Mnemonics
  <2>2. pushes = [i \in 1 .. p |-> pushes[i]]
    OBVIOUS
  <2> HIDE DEF pushes
  <2> QED
    BY <2>1, <2>2, LinesFor
<1>7. Lines(room, Marks)
  BY SparedOperands, WritingLine, Lines1, Mnemonics DEF Writers
<1>8. Lines(SaveRegs, Marks)
  <2>1. \A i \in 1 .. NumRegs : Line(SaveRegs[i], Marks)
    BY OtherLine, Mnemonics DEF SaveRegs
  <2>2. SaveRegs = [i \in 1 .. NumRegs |-> SaveRegs[i]]
    BY DEF SaveRegs
  <2> QED
    BY <2>1, <2>2, LinesFor, NumRegsAssumption
<1> HIDE DEF first, pushes, room
<1>9. Lines(pushes, {}) /\ Lines(room, {}) /\ Lines(SaveRegs, {})
  BY <1>6, <1>7, <1>8, Weaken
<1>10. Lines(first \o pushes \o room \o SaveRegs, {})
  BY <1>4, <1>9, Joined
<1>11. Opens(first \o pushes \o room \o SaveRegs, ".text")
  <2>1. Opens(first \o pushes, ".text")
    BY <1>5, <1>6, MarklessBelong, OpensOn DEF Section
  <2>2. Opens(first \o pushes \o room, ".text")
    BY <2>1, <1>7, MarklessBelong, OpensOn DEF Section
  <2> QED
    BY <2>2, <1>8, MarklessBelong, OpensOn DEF Section
<1> QED
  BY <1>10, <1>11 DEF first, pushes, room, a, b, c, d, e

(* The epilogue of a function is instructions and one mark of its own.     *)
LEMMA EpilogueLines ==
  Lines(<<Define(Epilogue)>> \o RestoreRegs
        \o << <<"MOVQ", Rbp, Rsp>>, <<"POPQ", Rbp>>, <<"RET">> >>, Marks)
<1>1. Lines(<<Define(Epilogue)>>, Marks)
  BY DefineLine, Lines1
<1>2. Lines(RestoreRegs, Marks)
  <2>1. \A i \in 1 .. NumRegs : Line(RestoreRegs[i], Marks)
    BY OtherLine, Mnemonics DEF RestoreRegs
  <2>2. RestoreRegs = [i \in 1 .. NumRegs |-> RestoreRegs[i]]
    BY DEF RestoreRegs
  <2> QED
    BY <2>1, <2>2, LinesFor, NumRegsAssumption
<1>3. Lines(<< <<"MOVQ", Rbp, Rsp>>, <<"POPQ", Rbp>>, <<"RET">> >>, Marks)
  <2>1. Line(<<"MOVQ", Rbp, Rsp>>, Marks)
    BY SparedOperands, WritingLine, Mnemonics DEF Writers
  <2>2. Line(<<"POPQ", Rbp>>, Marks) /\ Line(<<"RET">>, Marks)
    BY OtherLine, Mnemonics
  <2> QED
    BY <2>1, <2>2, Lines3
<1> QED
  BY <1>1, <1>2, <1>3, Joined

(* A prototype opens the text section, and writes nothing there.           *)
LEMMA PrototypeLines ==
  ASSUME NEW name
  PROVE  /\ Lines(<< <<".text">>, <<".globl", name>> >>, {})
         /\ Opens(<< <<".text">>, <<".globl", name>> >>, ".text")
<1> DEFINE a == <<".text">>
           b == <<".globl", name>>
           s == <<a, b>>
<1>1. a[1] = ".text" /\ b[1] = ".globl"
  OBVIOUS
<1> HIDE DEF a, b
<1>2. Lines(s, {})
  BY <1>1, OtherLine, Lines2 DEF Writers
<1>3. DOMAIN s = 1 .. 2 /\ Len(s) = 2 /\ s[1] = a /\ s[2] = b
  OBVIOUS
<1> HIDE DEF s
<1>4. Open(s, ".text") /\ WellPlaced(s)
  BY <1>1, <1>3 DEF Open, WellPlaced, Section, Directive
<1> QED
  BY <1>1, <1>2, <1>3, <1>4 DEF Opens, Lines, Section, s, a, b

(***************************************************************************)
(* What each action writes.                                                *)
(***************************************************************************)
WritesInstructions == \E code : Emit(code) /\ Lines(code, Marks)

WritesSection(s) == \E code : Emit(code) /\ Lines(code, {}) /\ Opens(code, s)

(* The registers of the top frame are no waiting handler's. *)
LEMMA HeldSpared ==
  ASSUME IInv
  PROVE  /\ DOMAIN Top.held = 1 .. Len(Top.held) /\ Len(Top.held) \in Nat
         /\ \A i \in DOMAIN Top.held : Top.held[i] \notin Waiting
<1>1. Top.held \in Seq(Int) /\ HeldSet \cap Waiting = {}
  BY TopFacts
<1>2. \A i \in DOMAIN Top.held : Top.held[i] \in HeldSet
  BY DEF HeldSet
<1> QED
  BY <1>1, <1>2

(* The operators write instructions into the section that is open.         *)
LEMMA OperatorsWrite ==
  ASSUME IInv, FinishLeft \/ FinishRight \/ FinishUnary \/ FinishStep \/ FinishAssign
  PROVE  WritesInstructions /\ Kind \in ExprKinds
<1>1. WellShaped(Top.node)
  BY TopFacts, Shape
<1>2. CASE FinishLeft \/ FinishRight \/ FinishUnary
  <2>1. /\ Kind \in KeepsLeft \cup KeepsRight \cup Unary
        /\ FinishLeft => Kind \notin KeepsRight
        /\ FinishRight => Kind \in KeepsRight
        /\ FinishUnary => Kind \notin KeepsRight
    BY <1>2 DEF FinishLeft, FinishRight, FinishUnary, KeepsLeft, KeepsRight,
                Unary, Comparison
  <2>2. Emit(OperatorCode(Top.node, Top.held, cur_label + 1)) /\ Evaluated
    BY <1>2 DEF FinishLeft, FinishRight, FinishUnary, FinishWith
  <2>3. Kind \in ExprKinds /\ Kind # "TERNARY1"
    BY <2>1, KindFacts
  <2>4. Len(Top.held) = Len(Operands(Top.node))
    BY <2>2, <2>3, TopFacts DEF Evaluated, TopCount, Kind
  <2>5. /\ Kind \in KeepsLeft \cup KeepsRight => Len(Top.held) = 2
        /\ Kind \in Unary => Len(Top.held) = 1
    BY <1>1, <2>4 DEF WellShaped, Kind
  <2>6. 1 \in DOMAIN Top.held /\ (Kind \in KeepsRight => 2 \in DOMAIN Top.held)
    BY <2>1, <2>5, HeldSpared
  <2>7. Lines(OperatorCode(Top.node, Top.held, cur_label + 1), Marks)
    BY <2>1, <2>6, HeldSpared, OperatorLines DEF Kind
  <2> QED
    BY <2>2, <2>3, <2>7 DEF WritesInstructions
<1>3. CASE FinishStep \/ FinishAssign
  <2>1. /\ FinishStep => Emit(StepCode(Top.node, Top.held))
        /\ FinishAssign => Emit(AssignCode(Top.node, Top.held))
    BY DEF FinishStep, FinishAssign, FinishWith
  <2>2. Kind \in ExprKinds
    BY <1>3, KindFacts DEF FinishStep, FinishAssign
  <2> QED
    BY <1>3, <2>1, <2>2, TargetLines DEF WritesInstructions
<1> QED
  BY <1>2, <1>3

(* A leaf writes instructions, and a string its literal, in a section of   *)
(* its own that it closes again.                                           *)
LEMMA LeavesAndCallsWrite ==
  ASSUME IInv, NEW r \in Regs, LoadLeaf(r) \/ CallFunction(r)
  PROVE  /\ WritesInstructions \/ WritesSection(".text")
         /\ Kind \in ExprKinds
<1>1. CASE LoadLeaf(r)
  <2>1. Kind \in ExprKinds /\ Kind # "TERNARY1" /\ Kind \in Leaf
    BY <1>1, KindFacts DEF LoadLeaf
  <2>2. Len(Top.held) = 0
    BY <2>1, TopFacts, Shape DEF WellShaped, TopCount, Kind
  <2>3. HeldSet = {}
    BY <2>2, TopFacts DEF HeldSet
  <2>4. r \notin Waiting
    BY <1>1, <2>3, AllocAccounts DEF LoadLeaf
  <2>5. Emit(LeafCode(Top.node, r, cur_label + 1))
    BY <1>1 DEF LoadLeaf
  <2> QED
    BY <2>1, <2>4, <2>5, LeafLines DEF WritesInstructions, WritesSection
<1>2. CASE CallFunction(r)
  <2>1. Kind \in ExprKinds
    BY <1>2, KindFacts DEF CallFunction
  <2>2. r \notin Waiting
    BY <1>2, CallAccounts DEF CallFunction
  <2>3. Emit(CallSequence(Top.held, FunctionName(Top.node), r))
    BY <1>2 DEF CallFunction
  <2>4. Lines(CallSequence(Top.held, FunctionName(Top.node), r), Marks)
    BY <2>2, TopFacts, CallLines
  <2> QED
    BY <2>1, <2>3, <2>4 DEF WritesInstructions
<1> QED
  BY <1>1, <1>2

(* The conditional expression writes instructions and its own labels.      *)
LEMMA TernaryWrites ==
  ASSUME IInv, TernaryTest \/ TernaryFirst \/ TernarySecond
  PROVE  WritesInstructions /\ Kind \in ExprKinds
<1>1. Kind = "TERNARY1" /\ Kind \in ExprKinds
  BY KindFacts DEF TernaryTest, TernaryFirst, TernarySecond
<1>2. /\ \A x, y : Line(<<"CMPQ", x, y>>, Marks)
      /\ \A x : Line(<<"JE", x>>, Marks) /\ Line(<<"JMP", x>>, Marks)
  BY OtherLine, Mnemonics
<1>3. ASSUME TernaryFirst \/ TernarySecond
      PROVE  Line(MoveArm, Marks)
  <2>1. Len(Top.held) = 2
    BY <1>1, <1>3, TopFacts DEF TernaryFirst, TernarySecond, TopCount, Kind
  <2>2. Top.held[1] \notin Waiting
    BY <2>1, HeldSpared
  <2> QED
    BY <2>2, SparedOperands, WritingLine, Mnemonics DEF MoveArm, Writers
<1>4. CASE TernaryTest
  <2>1. \E x, y, z : Emit(<< <<"CMPQ", x, y>>, <<"JE", z>> >>)
    BY <1>4, Zenon DEF TernaryTest
  <2> QED
    BY <1>1, <1>2, <2>1, Lines2, Zenon DEF WritesInstructions
<1>5. CASE TernaryFirst
  <2>1. Emit(<<MoveArm, <<"JMP", Label(Top.lab + 1)>>, Define(Label(Top.lab))>>)
    BY <1>5 DEF TernaryFirst
  <2> QED
    BY <1>1, <1>2, <1>3, <1>5, <2>1, DefineLine, Lines3 DEF WritesInstructions
<1>6. CASE TernarySecond
  <2>1. Emit(<<MoveArm, Define(Label(Top.lab + 1))>>)
    BY <1>6 DEF TernarySecond
  <2> QED
    BY <1>1, <1>3, <1>6, <2>1, DefineLine, Lines2 DEF WritesInstructions
<1> QED
  BY <1>4, <1>5, <1>6

(* An expression writes instructions, or a string and instructions. *)
LEMMA ExpressionWrites ==
  ASSUME IInv, Expression
  PROVE  \/ UNCHANGED outfile
         \/ Kind \in ExprKinds /\ (WritesInstructions \/ WritesSection(".text"))
<1>1. CASE \/ FinishLeft \/ FinishRight \/ FinishUnary
           \/ FinishStep \/ FinishAssign
  BY <1>1, OperatorsWrite
<1>2. ASSUME NEW r \in Regs, LoadLeaf(r) \/ CallFunction(r)
      PROVE  Kind \in ExprKinds /\ (WritesInstructions \/ WritesSection(".text"))
  BY <1>2, LeavesAndCallsWrite
<1>3. CASE TernaryTest \/ TernaryFirst \/ TernarySecond
  BY <1>3, TernaryWrites
<1>4. CASE EvaluateOperand \/ \E g \in Garbage : FinishGroup(g)
  BY <1>4 DEF EvaluateOperand, FinishGroup, KeepOutput
<1> QED
  BY <1>1, <1>2, <1>3, <1>4 DEF Expression

(* A statement writes instructions. *)
LEMMA StatementWrites ==
  ASSUME IInv, Statement
  PROVE  UNCHANGED outfile \/ (Kind \in StmtKinds /\ WritesInstructions)
<1>1. CASE SkipNull \/ StmtBlock \/ StmtExpr \/ PrintOperand \/ PrintDone \/ BranchEnter
  <2>1. KeepOutput \/ BranchEnter
    BY <1>1 DEF SkipNull, StmtBlock, StmtExpr, PrintOperand, PrintDone
  <2> QED
    BY <2>1 DEF KeepOutput, BranchEnter
<1>2. ASSUME NEW x, Spared(x)
      PROVE  Lines([i \in DOMAIN Top.held |-> <<"MOVQ", R(Top.held[i]), x>>], Marks)
  <2> DEFINE f == [i \in DOMAIN Top.held |-> <<"MOVQ", R(Top.held[i]), x>>]
  <2>1. DOMAIN Top.held = 1 .. Len(Top.held) /\ Len(Top.held) \in Nat
    BY HeldSpared
  <2>2. \A i \in 1 .. Len(Top.held) : Line(f[i], Marks)
    BY <1>2, <2>1, WritingLine, Mnemonics DEF Writers
  <2>3. f = [i \in 1 .. Len(Top.held) |-> f[i]]
    BY <2>1
  <2> HIDE DEF f
  <2>4. Lines(f, Marks)
    BY <2>1, <2>2, <2>3, LinesFor
  <2> QED
    BY <2>4 DEF f
<1>3. /\ \A x, y : Line(<<"CMPQ", x, y>>, Marks)
      /\ \A x : Line(<<"JE", x>>, Marks) /\ Line(<<"JMP", x>>, Marks)
  BY OtherLine, Mnemonics
<1>4. CASE StmtReturn
  <2>1. /\ Emit([i \in DOMAIN Top.held |-> <<"MOVQ", R(Top.held[i]), Rax>>]
                \o << <<"JMP", Epilogue>> >>)
        /\ Kind \in StmtKinds
    BY <1>4 DEF StmtReturn, StmtKinds
  <2>2. Lines([i \in DOMAIN Top.held |-> <<"MOVQ", R(Top.held[i]), Rax>>], Marks)
    BY <1>2, SparedOperands
  <2>3. Lines(<< <<"JMP", Epilogue>> >>, Marks)
    BY <1>3, Lines1
  <2>4. Lines([i \in DOMAIN Top.held |-> <<"MOVQ", R(Top.held[i]), Rax>>]
              \o << <<"JMP", Epilogue>> >>, Marks)
    BY <2>2, <2>3, Joined
  <2> QED
    BY <2>1, <2>4 DEF WritesInstructions
<1>5. CASE StmtDecl
  <2>1. /\ Emit([i \in DOMAIN Top.held |->
                   <<"MOVQ", R(Top.held[i]), symbol_codegen(Top.node.val)>>])
        /\ Kind \in StmtKinds
    BY <1>5 DEF StmtDecl, StmtKinds
  <2>2. Lines([i \in DOMAIN Top.held |->
                 <<"MOVQ", R(Top.held[i]), symbol_codegen(Top.node.val)>>], Marks)
    BY <1>2, SparedOperands
  <2> QED
    BY <2>1, <2>2 DEF WritesInstructions
<1>6. ASSUME NEW r \in Regs, PrintCall(r)
      PROVE  Kind \in StmtKinds /\ WritesInstructions
  <2>1. r \notin Waiting
    BY <1>6, CallAccounts DEF PrintCall
  <2>2. /\ Emit(CallSequence(Top.held, PrintFunction[Top.node.val[Top.next]], r))
        /\ Kind \in StmtKinds
    BY <1>6 DEF PrintCall, StmtKinds
  <2>3. Lines(CallSequence(Top.held, PrintFunction[Top.node.val[Top.next]], r), Marks)
    BY <2>1, TopFacts, CallLines
  <2> QED
    BY <2>2, <2>3 DEF WritesInstructions
<1>7. CASE IfTest \/ IfElse \/ IfDone \/ ForTop \/ ForTest \/ ForNext \/ ForLoop
  <2>1. Kind \in StmtKinds
    BY <1>7 DEF IfTest, IfElse, IfDone, ForTop, ForTest, ForNext, ForLoop,
                BranchStep, StmtKinds
  <2>2. \A q, l : Lines(Test(q, l), Marks)
    BY <1>3, Lines2 DEF Test
  <2>3. /\ IfTest => Emit(Test(Top.held[1], Top.lab))
        /\ IfElse => Emit(<< <<"JMP", Label(Top.lab + 1)>>, Define(Label(Top.lab)) >>)
        /\ IfDone => Emit(<<Define(Label(Top.lab + 1))>>)
        /\ ForTop => Emit(<<Define(Label(Top.lab))>>)
        /\ ForTest => Emit(IF Top.held = <<>> THEN <<>>
                           ELSE Test(Top.held[1], Top.lab + 1))
        /\ ForNext => Emit(<<>>)
        /\ ForLoop => Emit(<< <<"JMP", Label(Top.lab)>>, Define(Label(Top.lab + 1)) >>)
    BY DEF IfTest, IfElse, IfDone, ForTop, ForTest, ForNext, ForLoop, BranchStep
  <2>4. /\ Lines(<< <<"JMP", Label(Top.lab + 1)>>, Define(Label(Top.lab)) >>, Marks)
        /\ Lines(<< <<"JMP", Label(Top.lab)>>, Define(Label(Top.lab + 1)) >>, Marks)
        /\ Lines(<<Define(Label(Top.lab + 1))>>, Marks)
        /\ Lines(<<Define(Label(Top.lab))>>, Marks)
    BY <1>3, DefineLine, Lines1, Lines2
  <2>5. Lines(IF Top.held = <<>> THEN <<>> ELSE Test(Top.held[1], Top.lab + 1), Marks)
    BY <2>2, Lines0
  <2> QED
    BY <1>7, <2>1, <2>2, <2>3, <2>4, <2>5, Lines0, Zenon DEF WritesInstructions
<1> QED
  BY <1>1, <1>4, <1>5, <1>6, <1>7 DEF Statement

(* Where declarations are: a program is made of them, and nothing below    *)
(* them is one.                                                            *)
LEMMA DeclarationPlace ==
  ASSUME IInv
  PROVE  /\ Kind = "PROGRAM" => Len(stack) = 1
         /\ Kind \in DeclKinds => Len(stack) \in {1, 2}
         /\ Len(stack) = 1 => Kind = "PROGRAM"
         /\ Len(stack) = 2 => Kind \in DeclKinds
<1>1. PICK n \in Nat \ {0} : n = Len(stack)
  BY TopFacts
<1>2. stack \in Seq(Frame) /\ DOMAIN stack = 1 .. n /\ Top = stack[n]
  BY <1>1, TopFacts
<1>3. stack[1].node.kind = "PROGRAM"
  BY DEF IInv, WalkInv
<1>4. ASSUME NEW i \in 1 .. n - 1
      PROVE  /\ stack[i + 1].node.kind # "PROGRAM"
             /\ stack[i + 1].node.kind \in DeclKinds <=> stack[i].node.kind = "PROGRAM"
  <2>1. /\ stack[i].next < Len(Operands(stack[i].node))
        /\ stack[i + 1].node = Operands(stack[i].node)[stack[i].next + 1]
    BY <1>1, <1>4 DEF IInv, WalkInv
  <2>2. stack[i] \in Frame
    <3>1. i \in 1 .. n
      BY <1>1, <1>4
    <3> QED
      BY <3>1, <1>1, <1>2, ElementOfSeq
  <2>3. stack[i].node \in Nodes /\ stack[i].next \in Nat
    BY <2>2 DEF Frame
  <2>4. stack[i].next + 1 \in DOMAIN Operands(stack[i].node)
    BY <2>1, <2>3, Shape DEF WellShaped
  <2>5. WellDeclared(stack[i].node)
    BY <2>3, NodesAssumption
  <2> QED
    BY <2>1, <2>4, <2>5 DEF WellDeclared
<1>5. n = 1 => Kind = "PROGRAM"
  BY <1>2, <1>3 DEF Kind
<1>6. ASSUME n # 1
      PROVE  /\ Kind # "PROGRAM"
             /\ Kind \in DeclKinds <=> stack[n - 1].node.kind = "PROGRAM"
  <2>1. n - 1 \in 1 .. n - 1 /\ (n - 1) + 1 = n
    BY <1>1, <1>6
  <2> QED
    BY <2>1, <1>2, <1>4 DEF Kind
<1>7. ASSUME n # 1, n # 2
      PROVE  stack[n - 1].node.kind # "PROGRAM"
  <2>1. n - 2 \in 1 .. n - 1 /\ (n - 2) + 1 = n - 1
    BY <1>1, <1>7
  <2> QED
    BY <2>1, <1>4
<1>8. n = 2 => stack[n - 1].node.kind = "PROGRAM"
  BY <1>3
<1> QED
  BY <1>1, <1>5, <1>6, <1>7, <1>8

(* The kinds of declarations are not those of statements or expressions.   *)
LEMMA KindsApart ==
  (StmtKinds \cup ExprKinds) \cap DeclKinds = {}
BY DEF StmtKinds, DeclKinds, ExprKinds, Arithmetic, Comparison, Logical, Step, Leaf,
       Literal

(* The code of a declaration. *)
LEMMA DeclarationWrites ==
  ASSUME IInv, Declaration
  PROVE  \/ FunctionPrologue /\ WritesSection(".text")
         \/ FunctionEpilogue /\ WritesInstructions
         \/ Prototype /\ WritesSection(".text")
         \/ GlobalData /\ WritesSection(".data")
         \/ Finish /\ UNCHANGED outfile
<1>1. Top.node \in Nodes /\ WellDeclared(Top.node)
  BY TopFacts, NodesAssumption
<1>2. CASE FunctionPrologue
  <2> DEFINE f == Top.node.val
             code == << <<".text">>, <<".globl", f.name>>, Define(<<"function", f.name>>),
                        <<"PUSHQ", Rbp>>, <<"MOVQ", Rsp, Rbp>> >>
                     \o [i \in 1 .. f.params |-> <<"PUSHQ", Argument(i)>>]
                     \o << <<"SUBQ", Imm((f.total - f.params) * 8), Rsp>> >>
                     \o SaveRegs
  <2>1. Emit(code) /\ f.params \in Nat
    BY <1>1, <1>2 DEF FunctionPrologue, WellDeclared, Kind
  <2>2. Lines(code, {}) /\ Opens(code, ".text")
    BY <2>1, PrologueLines
  <2> HIDE DEF code
  <2> QED
    BY <1>2, <2>1, <2>2 DEF WritesSection
<1>3. CASE FunctionEpilogue
  <2>1. Emit(<<Define(Epilogue)>> \o RestoreRegs
             \o << <<"MOVQ", Rbp, Rsp>>, <<"POPQ", Rbp>>, <<"RET">> >>)
    BY <1>3 DEF FunctionEpilogue
  <2> QED
    BY <1>3, <2>1, EpilogueLines DEF WritesInstructions
<1>4. CASE Prototype
  BY <1>4, PrototypeLines DEF Prototype, WritesSection
<1>5. CASE GlobalData
  <2>1. Emit(DataCode(Top.node.val, cur_label + 1)) /\ Kind = "DATA"
    BY <1>5 DEF GlobalData
  <2>2. Len(Top.node.val.init) \in Nat
        /\ DOMAIN Top.node.val.init = 1 .. Len(Top.node.val.init)
    BY <1>1, <2>1 DEF WellDeclared, Kind
  <2> QED
    BY <1>5, <2>1, <2>2, DataLines DEF WritesSection
<1>6. CASE Finish
  BY <1>6 DEF Finish
<1> QED
  BY <1>2, <1>3, <1>4, <1>5, <1>6 DEF Declaration

(***************************************************************************)
(* The theorems.                                                           *)
(***************************************************************************)

(* What each step appends. *)
LEMMA StepWrites ==
  ASSUME IInv, Next
  PROVE  UNCHANGED outfile \/ \E code : Emit(code) /\ Lines(code, {})
<1>1. WritesInstructions => \E code : Emit(code) /\ Lines(code, {})
  BY Weaken DEF WritesInstructions
<1>2. \A s : WritesSection(s) => \E code : Emit(code) /\ Lines(code, {})
  BY DEF WritesSection
<1>3. CASE Expression
  BY <1>1, <1>2, <1>3, ExpressionWrites
<1>4. CASE Statement
  BY <1>1, <1>4, StatementWrites
<1>5. CASE Declaration
  BY <1>1, <1>2, <1>5, DeclarationWrites
<1>6. CASE Exit \/ Terminated
  BY <1>6 DEF Exit, Exhausted, UnknownRegister, TooManyArguments, Unprintable,
              ArrayNotImplemented, ElementTypeMissing, Abort, Terminated, vars
<1> QED
  BY <1>3, <1>4, <1>5, <1>6 DEF Next

(* outfile is a text, and grows. *)
LEMMA ListingHolds ==
  ASSUME IInv, Listing(outfile), [Next]_vars
  PROVE  /\ Listing(outfile')
         /\ \A i \in Len(outfile) + 1 .. Len(outfile') :
              Overwritten(outfile'[i]) \cap Waiting = {}
<1>1. Len(outfile) \in Nat
  BY ListingFacts
<1>2. CASE UNCHANGED outfile
  BY <1>1, <1>2 DEF Listing
<1>3. ASSUME NEW code, Emit(code), Lines(code, {})
      PROVE  /\ Listing(outfile')
             /\ \A i \in Len(outfile) + 1 .. Len(outfile') :
                  Overwritten(outfile'[i]) \cap Waiting = {}
  <2>1. Listing(code) /\ \A i \in 1 .. Len(code) : Overwritten(code[i]) \cap Waiting = {}
    BY <1>3, ListingFacts DEF Lines, Line
  <2>2. outfile' = outfile \o code
    BY <1>3 DEF Emit
  <2> QED
    BY <2>1, <2>2, JoinFacts
<1>4. CASE UNCHANGED vars
  BY <1>2, <1>4 DEF vars
<1> QED
  BY <1>2, <1>3, <1>4, StepWrites

(* Nothing a handler of expr.c, stmt.c or decl.c prints overwrites a       *)
(* register in which a handler further out keeps an operand, in any tree   *)
(* without GROUP nodes.                                                    *)
THEOREM SparesWaitingHolds == Ungrouped => (Spec => SparesWaiting)
<1>1. CodegenInit => Listing(outfile)
  BY Lines0 DEF CodegenInit, Lines
<1>2. IInv /\ Listing(outfile) /\ [Next]_vars => Listing(outfile)'
  BY ListingHolds DEF Listing
<1>3. IInv /\ Listing(outfile) /\ [Next]_vars =>
        [\A i \in Len(outfile) + 1 .. Len(outfile') :
           Overwritten(outfile'[i]) \cap Waiting = {}]_vars
  BY ListingHolds
<1> QED
  BY <1>1, <1>2, <1>3, Invariant, PTL DEF Spec, SparesWaiting

(* Between the prologue of a function and its epilogue the text section is *)
(* open.                                                                   *)
Inside ==
  \/ Len(stack) > 2
  \/ Len(stack) = 2 /\ Kind = "FUNCTION" /\ Top.next # 0

SectionsInv ==
  /\ Listing(outfile)
  /\ WellPlaced(outfile)
  /\ Inside => Open(outfile, ".text")

(* A walk outside of the declarations is inside a function. *)
LEMMA InsideFacts ==
  ASSUME IInv
  PROVE  /\ Kind \notin DeclKinds => Inside
         /\ FunctionEpilogue => Inside
<1>1. Len(stack) \in Nat \ {0}
  BY TopFacts
<1>2. ASSUME FunctionEpilogue
      PROVE  Inside
  <2>1. Kind = "FUNCTION" /\ Evaluated
    BY <1>2 DEF FunctionEpilogue
  <2>2. Top.next = 1
    BY <2>1, TopFacts, Shape DEF Evaluated, WellShaped, Kind
  <2>3. Len(stack) = 2
    BY <2>1, DeclarationPlace DEF DeclKinds
  <2> QED
    BY <2>1, <2>2, <2>3 DEF Inside
<1>3. ASSUME Kind \notin DeclKinds
      PROVE  Inside
  <2>1. PICK n \in Nat \ {0} : n = Len(stack)
    BY <1>1
  <2>2. n # 1 /\ n # 2
    BY <1>3, <2>1, DeclarationPlace DEF DeclKinds
  <2>3. n > 2
    BY <2>1, <2>2
  <2> QED
    BY <2>1, <2>3 DEF Inside
<1> QED
  BY <1>2, <1>3

(* The section stays right while instructions are written inside a         *)
(* function, and wherever a section is opened.                             *)
LEMMA WritesPlaced ==
  ASSUME SectionsInv
  PROVE  /\ Inside /\ WritesInstructions =>
              Listing(outfile') /\ WellPlaced(outfile') /\ Open(outfile', ".text")
         /\ \A s : WritesSection(s) =>
              Listing(outfile') /\ WellPlaced(outfile') /\ Open(outfile', s)
         /\ Inside /\ UNCHANGED outfile =>
              Listing(outfile') /\ WellPlaced(outfile') /\ Open(outfile', ".text")
<1>1. ASSUME Inside, NEW code, Emit(code), Lines(code, Marks)
      PROVE  Listing(outfile') /\ WellPlaced(outfile') /\ Open(outfile', ".text")
  BY <1>1, MarklessBelong, Continued DEF SectionsInv, Emit, Section
<1>2. ASSUME NEW s, NEW code, Emit(code), Opens(code, s)
      PROVE  Listing(outfile') /\ WellPlaced(outfile') /\ Open(outfile', s)
  BY <1>2, Reopened DEF SectionsInv, Emit
<1>3. Inside /\ UNCHANGED outfile =>
              Listing(outfile') /\ WellPlaced(outfile') /\ Open(outfile', ".text")
  BY DEF SectionsInv
<1> QED
  BY <1>1, <1>2, <1>3 DEF WritesInstructions, WritesSection

(* A declaration changes the section, or returns to the program.           *)
LEMMA DeclarationSections ==
  ASSUME IInv, SectionsInv, Declaration
  PROVE  SectionsInv'
<1>1. CASE Finish
  <2>1. UNCHANGED <<stack, outfile>>
    BY <1>1 DEF Finish
  <2> QED
    BY <2>1 DEF SectionsInv, Inside, Kind, Top, WellPlaced, Open, Listing
<1>2. CASE \/ (FunctionPrologue \/ Prototype) /\ WritesSection(".text")
           \/ FunctionEpilogue /\ WritesInstructions
  <2>1. Listing(outfile') /\ WellPlaced(outfile') /\ Open(outfile', ".text")
    BY <1>2, InsideFacts, WritesPlaced
  <2> QED
    BY <2>1 DEF SectionsInv
<1>3. CASE GlobalData /\ WritesSection(".data")
  <2>1. Listing(outfile') /\ WellPlaced(outfile')
    BY <1>3, WritesPlaced
  <2>2. Len(stack) = 2
    BY <1>3, DeclarationPlace DEF GlobalData, DeclKinds
  <2>3. Len(stack') = 1
    <3>1. stack' = [SubSeq(stack, 1, 1) EXCEPT ![1] = [Caller EXCEPT !.next = @ + 1]]
      BY <1>3, <2>2 DEF GlobalData, Return, ReturnTo
    <3>2. SubSeq(stack, 1, 1) \in Seq(Frame) /\ Len(SubSeq(stack, 1, 1)) = 1
      <4>1. stack \in Seq(Frame)
        BY TopFacts
      <4>2. 1 \in 1 .. Len(stack) + 1 /\ 1 \in 1 - 1 .. Len(stack)
        BY <2>2
      <4> QED
        BY <4>1, <4>2, SubSeqProperties
    <3>3. [Caller EXCEPT !.next = @ + 1] \in Frame
      <4>1. Caller \in Frame
        BY <1>3, CallerFacts DEF GlobalData
      <4> QED
        BY <4>1 DEF Frame
    <3> QED
      BY <3>1, <3>2, <3>3, ExceptSeq
  <2>4. ~ Inside'
    BY <2>3 DEF Inside
  <2> QED
    BY <2>1, <2>4 DEF SectionsInv
<1> QED
  BY <1>1, <1>2, <1>3, DeclarationWrites

(* A sequence of one element and another element. *)
LEMMA PairFacts ==
  ASSUME NEW S, NEW s \in Seq(S), Len(s) = 1, NEW x
  PROVE  Len(Append(s, x)) = 2 /\ Append(s, x)[2] = x
<1>1. s \in Seq(S \cup {x}) /\ x \in S \cup {x}
  BY SeqMonotonic
<1>2. /\ Len(Append(s, x)) = Len(s) + 1
      /\ Append(s, x)[Len(s) + 1] = x
  BY <1>1, AppendProperties
<1> QED
  BY <1>2

(* Every step keeps the sections right. *)
LEMMA StepSections ==
  ASSUME IInv, SectionsInv, [Next]_vars
  PROVE  SectionsInv'
<1>1. CASE Kind \notin DeclKinds /\ (Expression \/ Statement)
  <2>1. UNCHANGED outfile \/ WritesInstructions \/ WritesSection(".text")
    BY <1>1, ExpressionWrites, StatementWrites
  <2>2. Listing(outfile') /\ WellPlaced(outfile') /\ Open(outfile', ".text")
    BY <1>1, <2>1, InsideFacts, WritesPlaced
  <2> QED
    BY <2>2 DEF SectionsInv
<1>2. CASE Kind \in DeclKinds /\ Expression
  <2>1. Kind \notin ExprKinds
    BY <1>2, KindsApart
  <2>2. UNCHANGED outfile
    BY <1>2, <2>1, ExpressionWrites
  <2>3. EvaluateOperand
    <3>1. \A r \in Regs : LoadLeaf(r) \/ CallFunction(r) => Kind \in ExprKinds
      BY LeavesAndCallsWrite
    <3>2. \A g \in Garbage : ~ FinishGroup(g)
      BY <1>2 DEF FinishGroup, DeclKinds
    <3> QED
      BY <1>2, <2>1, <3>1, <3>2, OperatorsWrite, TernaryWrites DEF Expression
  <2>4. Kind = "PROGRAM" /\ Call(Top)
    BY <1>2, <2>1, <2>3 DEF EvaluateOperand, DeclKinds
  <2>5. Len(stack) = 1
    BY <2>4, DeclarationPlace
  <2>6. PICK f : stack' = Append([stack EXCEPT ![1] = Top], Activation(f))
    BY <2>4, <2>5 DEF Call
  <2>7. [stack EXCEPT ![1] = Top] \in Seq(Frame) /\ Len([stack EXCEPT ![1] = Top]) = 1
    <3>1. stack \in Seq(Frame) /\ 1 \in 1 .. Len(stack) /\ Top \in Frame
      BY <2>5, TopFacts
    <3> QED
      BY <2>5, <3>1, ExceptSeq
  <2>8. Len(stack') = 2 /\ stack'[2] = Activation(f)
    BY <2>6, <2>7, PairFacts
  <2>9. ~ Inside'
    BY <2>8 DEF Inside, Top, Activation
  <2> QED
    BY <2>2, <2>9 DEF SectionsInv, WellPlaced, Listing
<1>3. CASE Kind \in DeclKinds /\ Statement
  <2>1. Kind \in StmtKinds \cup {"NONE"}
    BY <1>3 DEF Statement, SkipNull, StmtBlock, StmtExpr, StmtReturn, StmtDecl,
                PrintOperand, PrintDone, PrintCall, BranchEnter, IfTest, IfElse,
                IfDone, ForTop, ForTest, ForNext, ForLoop, BranchStep, StmtKinds
  <2> QED
    BY <1>3, <2>1, KindsApart DEF DeclKinds
<1>4. CASE Declaration
  BY <1>4, DeclarationSections
<1>5. CASE Exit \/ UNCHANGED vars
  <2>1. UNCHANGED <<stack, outfile>>
    BY <1>5 DEF Exit, Exhausted, UnknownRegister, TooManyArguments, Unprintable,
                ArrayNotImplemented, ElementTypeMissing, Abort, vars
  <2> QED
    BY <2>1 DEF SectionsInv, Inside, Kind, Top, WellPlaced, Open, Listing
<1> QED
  BY <1>1, <1>2, <1>3, <1>4, <1>5 DEF Next, Terminated

(* In the file of a compilation that is done every instruction stands in   *)
(* the text section and every value in the data section.                   *)
THEOREM SectionsHold == Ungrouped => (Spec => []SectionsSound)
<1>1. ASSUME CodegenInit
      PROVE  SectionsInv
  <2>1. outfile = <<>> /\ Len(stack) = 1
    BY <1>1 DEF CodegenInit
  <2>2. Listing(outfile) /\ DOMAIN outfile = {}
    BY <2>1, Lines0 DEF Lines
  <2> QED
    BY <2>1, <2>2 DEF SectionsInv, WellPlaced, Inside
<1>2. IInv /\ SectionsInv /\ [Next]_vars => SectionsInv'
  BY StepSections
<1>3. SectionsInv => SectionsSound
  BY DEF SectionsInv, WellPlaced, SectionsSound, Values
<1> QED
  BY <1>1, <1>2, <1>3, Invariant, PTL DEF Spec

(***************************************************************************)
(* Texts with labels that are owed.                                        *)
(***************************************************************************)
IsFunction(ins) == ins[1] = "define" /\ ins[2][1] = "function"

(* No function begins from line i on. *)
Clear(text, i) == \A k \in i .. Len(text) : ~ IsFunction(text[k])

Defined(text, t) == \E j \in DOMAIN text : text[j] = Define(t)

(* The target of line i is defined in the same function. *)
Settled(text, i, t) ==
  \E j \in DOMAIN text :
    /\ text[j] = Define(t)
    /\ \A k \in (i .. j) \cup (j .. i) : ~ IsFunction(text[k])

(* W are the labels owed: used, perhaps, and not defined.  N are labels    *)
(* that a jump back may use, and D those that are not to be used again.    *)
Closed(text, W, N, D) ==
  /\ Listing(text)
  /\ \A i, j \in DOMAIN text :
       text[i][1] = "define" /\ text[i] = text[j] => i = j
  /\ \A i \in DOMAIN text : \A t \in Targets(text[i]) :
       Settled(text, i, t) \/ (t \in W /\ Clear(text, i))
  /\ \A t \in W : ~ Defined(text, t)
  /\ \A t \in N : \E j \in DOMAIN text : text[j] = Define(t) /\ Clear(text, j)
  /\ W \subseteq D
  /\ \A j \in DOMAIN text : text[j][1] = "define" => text[j][2] \in D

(* Lines that use labels of S and define none. *)
Reads(code, S) ==
  /\ Listing(code)
  /\ \A i \in DOMAIN code : code[i][1] # "define" /\ Targets(code[i]) \subseteq S

(* Code that turns the labels owed, W, into V. *)
Keeps(code, W, N, V, M) ==
  /\ Listing(code)
  /\ \A text, D : Closed(text, W, N, D) => Closed(text \o code, V, M, D)

(***************************************************************************)
(* The labels that the handlers of the call stack owe.                     *)
(***************************************************************************)

(* The labels a handler owes once m of its portions have been printed.     *)
Pending(f, m) ==
  LET both == {Label(f.lab), Label(f.lab + 1)}
      last == {Label(f.lab + 1)}
  IN  CASE f.node.kind = "TERNARY1" /\ m = 2 -> both
        [] f.node.kind = "TERNARY1" /\ m = 3 -> last
        [] f.node.kind = "IF_ELSE" /\ m \in {1, 2} -> both
        [] f.node.kind = "IF_ELSE" /\ m = 3 -> last
        [] f.node.kind = "FOR" /\ m = 1 -> both
        [] f.node.kind = "FOR" /\ m \in {2, 3, 4} -> last
        [] f.node.kind = "FUNCTION" /\ m = 1 -> {<<"epilogue", f.node.val.name>>}
        [] OTHER -> {}

(* The top of a loop, to which its end jumps back. *)
Back(f, m) ==
  IF f.node.kind = "FOR" /\ m \in {2, 3, 4} THEN {Label(f.lab)} ELSE {}

(* The handlers that wait, and what they have printed. *)
OuterOwed == UNION {Pending(stack[i], stack[i].next + 1) : i \in 1 .. Len(stack) - 1}
OuterBacks == UNION {Back(stack[i], stack[i].next + 1) : i \in 1 .. Len(stack) - 1}

Owed == OuterOwed \cup Pending(Top, Top.next)
Backs == OuterBacks \cup Back(Top, Top.next)

(* No two handlers owe the same label. *)
Apart ==
  /\ \A i, k \in 1 .. Len(stack) - 1 : i # k =>
       Pending(stack[i], stack[i].next + 1) \cap Pending(stack[k], stack[k].next + 1) = {}
  /\ OuterOwed \cap Pending(Top, Top.next) = {}

(* The declarations of the program that have printed a name. *)
Begun == stack[1].next + (IF Inside THEN 1 ELSE 0)

Declared(kind) ==
  {Operands(stack[1].node)[k].val.name :
     k \in {k \in 1 .. Begun : Operands(stack[1].node)[k].kind = kind}}

Numbers == {l \in Int : l <= cur_label}

Reserved ==
  {Label(l) : l \in Numbers} \cup {StringLabel(l) : l \in Numbers}
  \cup {<<"function", name>> : name \in Declared("FUNCTION")}
  \cup {<<"epilogue", name>> : name \in Declared("FUNCTION")}
  \cup {<<"global", name>> : name \in Declared("DATA")}

LInv ==
  /\ Closed(outfile, Owed, Backs, Reserved)
  /\ Apart
  /\ Inside => stack[2].node.kind = "FUNCTION"
  /\ status = "done" => Kind = "PROGRAM"

(* A text with one line more. *)
LEMMA OneMore ==
  ASSUME NEW text, Listing(text), NEW a
  PROVE  /\ Listing(text \o <<a>>) /\ Len(text \o <<a>>) = Len(text) + 1
         /\ DOMAIN text = 1 .. Len(text) /\ Len(text) \in Nat
         /\ DOMAIN (text \o <<a>>) = 1 .. Len(text) + 1
         /\ \A i \in 1 .. Len(text) : (text \o <<a>>)[i] = text[i]
         /\ (text \o <<a>>)[Len(text) + 1] = a
<1> DEFINE u == text \o <<a>>
<1>1. Listing(<<a>>) /\ Len(<<a>>) = 1 /\ <<a>>[1] = a
  <2>1. <<a>> \in Seq({a}) /\ Len(<<a>>) = 1 /\ <<a>>[1] = a
    OBVIOUS
  <2> QED
    BY <2>1 DEF Listing
<1>2. PICK m \in Nat : m = Len(text) /\ DOMAIN text = 1 .. m
  BY ListingFacts
<1>3. /\ Listing(u) /\ Len(u) = m + 1
      /\ \A i \in 1 .. m : u[i] = text[i]
      /\ \A i \in m + 1 .. m + 1 : i - m \in 1 .. 1 /\ u[i] = <<a>>[i - m]
  BY <1>1, <1>2, JoinFacts
<1>4. u[m + 1] = a
  <2>1. m + 1 \in m + 1 .. m + 1 /\ (m + 1) - m = 1
    OBVIOUS
  <2> QED
    BY <1>1, <1>3, <2>1
<1> HIDE DEF u
<1>5. DOMAIN u = 1 .. m + 1
  BY <1>3, ListingFacts
<1> QED
  BY <1>2, <1>3, <1>4, <1>5 DEF u

(* One text after another after a third. *)
LEMMA JoinTwice ==
  ASSUME NEW s, NEW t, NEW u, Listing(s), Listing(t), Listing(u)
  PROVE  (s \o t) \o u = s \o (t \o u)
<1>1. PICK S : s \in Seq(S)
  BY DEF Listing
<1>2. PICK T : t \in Seq(T)
  BY DEF Listing
<1>3. PICK U : u \in Seq(U)
  BY DEF Listing
<1> DEFINE V == S \cup T \cup U
<1>4. s \in Seq(V) /\ t \in Seq(V) /\ u \in Seq(V)
  BY <1>1, <1>2, <1>3, SeqMonotonic
<1> QED
  BY <1>4, ConcatAssociative

(* What is clear stays clear while no function begins. *)
LEMMA ClearGrows ==
  ASSUME NEW text, NEW code, Listing(text), Listing(code),
         \A k \in DOMAIN code : ~ IsFunction(code[k]),
         NEW i \in DOMAIN text, Clear(text, i)
  PROVE  Clear(text \o code, i)
<1> DEFINE u == text \o code
<1>1. PICK m, n \in Nat : /\ m = Len(text) /\ DOMAIN text = 1 .. m
                          /\ n = Len(code) /\ DOMAIN code = 1 .. n
  BY ListingFacts
<1>2. /\ Len(u) = m + n
      /\ \A k \in 1 .. m : u[k] = text[k]
      /\ \A k \in m + 1 .. m + n : k - m \in 1 .. n /\ u[k] = code[k - m]
  BY <1>1, JoinFacts
<1> HIDE DEF u
<1>3. ASSUME NEW k \in i .. m + n
      PROVE  ~ IsFunction(u[k])
  <2>1. k \in i .. m \/ k \in m + 1 .. m + n
    BY <1>1, <1>3
  <2>2. CASE k \in i .. m
    <3>1. k \in 1 .. m /\ u[k] = text[k]
      BY <1>1, <1>2, <2>2
    <3> QED
      BY <1>1, <2>2, <3>1 DEF Clear
  <2>3. CASE k \in m + 1 .. m + n
    BY <1>1, <1>2, <2>3
  <2> QED
    BY <2>1, <2>2, <2>3
<1> QED
  BY <1>2, <1>3 DEF Clear, u

(* What is settled stays settled. *)
LEMMA SettledGrows ==
  ASSUME NEW text, NEW code, Listing(text), Listing(code),
         NEW i \in DOMAIN text, NEW t, Settled(text, i, t)
  PROVE  Settled(text \o code, i, t)
<1> DEFINE u == text \o code
<1>1. PICK m, n \in Nat : /\ m = Len(text) /\ DOMAIN text = 1 .. m
                          /\ n = Len(code)
  BY ListingFacts
<1>2. Listing(u) /\ Len(u) = m + n /\ \A k \in 1 .. m : u[k] = text[k]
  BY <1>1, JoinFacts
<1>3. DOMAIN u = 1 .. m + n
  BY <1>2, ListingFacts
<1> HIDE DEF u
<1>4. PICK j \in 1 .. m : /\ text[j] = Define(t)
                          /\ \A k \in (i .. j) \cup (j .. i) : ~ IsFunction(text[k])
  BY <1>1 DEF Settled
<1>5. \A k \in (i .. j) \cup (j .. i) : ~ IsFunction(u[k])
  <2>1. \A k \in (i .. j) \cup (j .. i) : k \in 1 .. m
    BY <1>1, <1>4
  <2> QED
    BY <1>2, <1>4, <2>1
<1>6. j \in 1 .. m + n /\ u[j] = Define(t)
  BY <1>2, <1>4
<1> QED
  BY <1>3, <1>5, <1>6 DEF Settled, u

(* Lines that define no label and use only owed ones, or ones to jump back *)
(* to, change nothing about the labels.                                    *)
LEMMA ReadsKeeps ==
  ASSUME NEW W, NEW N, NEW code, Reads(code, W \cup N)
  PROVE  Keeps(code, W, N, W, N)
<1>1. SUFFICES ASSUME NEW text, NEW D, Closed(text, W, N, D)
               PROVE  Closed(text \o code, W, N, D)
  BY DEF Keeps, Reads
<1> DEFINE u == text \o code
<1>2. Listing(text) /\ Listing(code)
  BY <1>1 DEF Closed, Reads
<1>3. PICK m, n \in Nat : /\ m = Len(text) /\ DOMAIN text = 1 .. m
                          /\ n = Len(code) /\ DOMAIN code = 1 .. n
  BY <1>2, ListingFacts
<1>4. /\ Listing(u) /\ Len(u) = m + n
      /\ \A k \in 1 .. m : u[k] = text[k]
      /\ \A k \in m + 1 .. m + n : k - m \in 1 .. n /\ u[k] = code[k - m]
  BY <1>2, <1>3, JoinFacts
<1>5. DOMAIN u = 1 .. m + n
  BY <1>4, ListingFacts
<1>6. \A k \in DOMAIN code : code[k][1] # "define" /\ ~ IsFunction(code[k])
  BY DEF Reads, IsFunction
<1>7. \A i \in DOMAIN text : Clear(text, i) => Clear(u, i)
  BY <1>2, <1>6, ClearGrows
<1>8. \A i \in DOMAIN text : \A t : Settled(text, i, t) => Settled(u, i, t)
  BY <1>2, SettledGrows
<1> HIDE DEF u
<1>9. \A k \in 1 .. m + n : u[k][1] = "define" => k \in 1 .. m /\ u[k] = text[k]
  <2>1. \A k \in 1 .. m + n : k \in 1 .. m \/ k \in m + 1 .. m + n
    OBVIOUS
  <2> QED
    BY <1>3, <1>4, <1>6, <2>1
<1>10. ASSUME NEW i \in 1 .. m + n, NEW j \in 1 .. m + n,
              u[i][1] = "define", u[i] = u[j]
       PROVE  i = j
  BY <1>1, <1>3, <1>9, <1>10 DEF Closed
<1>11. ASSUME NEW i \in 1 .. m + n, NEW t \in Targets(u[i])
       PROVE  Settled(u, i, t) \/ (t \in W /\ Clear(u, i))
  <2>1. i \in 1 .. m \/ i \in m + 1 .. m + n
    OBVIOUS
  <2>2. CASE i \in 1 .. m
    <3>1. t \in Targets(text[i]) /\ i \in DOMAIN text
      BY <1>3, <1>4, <1>11, <2>2
    <3>2. Settled(text, i, t) \/ (t \in W /\ Clear(text, i))
      BY <1>1, <3>1 DEF Closed
    <3> QED
      BY <1>7, <1>8, <3>1, <3>2
  <2>3. CASE i \in m + 1 .. m + n
    <3>1. t \in W \cup N
      <4>1. u[i] = code[i - m] /\ i - m \in DOMAIN code
        BY <1>3, <1>4, <2>3
      <4> QED
        BY <1>11, <4>1 DEF Reads
    <3>2. Clear(u, i)
      <4>1. \A k \in i .. m + n : k \in m + 1 .. m + n
        BY <2>3
      <4>2. \A k \in i .. m + n : ~ IsFunction(u[k])
        BY <1>3, <1>4, <1>6, <4>1
      <4> QED
        BY <1>4, <4>2 DEF Clear
    <3>3. CASE t \in N
      <4>1. PICK j \in 1 .. m : text[j] = Define(t) /\ Clear(text, j)
        BY <1>1, <1>3, <3>3 DEF Closed
      <4>2. u[j] = Define(t) /\ Clear(u, j) /\ j \in 1 .. m + n
        BY <1>3, <1>4, <1>7, <4>1
      <4>3. \A k \in (i .. j) \cup (j .. i) : k \in j .. m + n
        BY <2>3, <4>1
      <4>4. \A k \in (i .. j) \cup (j .. i) : ~ IsFunction(u[k])
        BY <1>4, <4>2, <4>3 DEF Clear
      <4> QED
        BY <1>5, <4>2, <4>4 DEF Settled
    <3> QED
      BY <3>1, <3>2, <3>3
  <2> QED
    BY <2>1, <2>2, <2>3
<1>12. ASSUME NEW t \in W
       PROVE  ~ Defined(u, t)
  <2>1. ~ Defined(text, t)
    BY <1>1 DEF Closed
  <2>2. \A j \in 1 .. m + n : u[j] = Define(t) => j \in DOMAIN text /\ text[j] = Define(t)
    BY <1>3, <1>9 DEF Define
  <2> QED
    BY <1>5, <2>1, <2>2 DEF Defined
<1>13. ASSUME NEW t \in N
       PROVE  \E j \in 1 .. m + n : u[j] = Define(t) /\ Clear(u, j)
  <2>1. PICK j \in 1 .. m : text[j] = Define(t) /\ Clear(text, j)
    BY <1>1, <1>3 DEF Closed
  <2> QED
    BY <1>3, <1>4, <1>7, <2>1
<1>14. \A j \in 1 .. m + n : u[j][1] = "define" => u[j][2] \in D
  BY <1>1, <1>3, <1>9 DEF Closed
<1>15. W \subseteq D
  BY <1>1 DEF Closed
<1> QED
  BY <1>4, <1>5, <1>10, <1>11, <1>12, <1>13, <1>14, <1>15 DEF Closed, u

(* The line that defines an owed label settles it, and a jump back to it   *)
(* is possible from then on.                                               *)
LEMMA DefineKeeps ==
  ASSUME NEW W, NEW N, NEW t \in W, t[1] # "function"
  PROVE  Keeps(<<Define(t)>>, W, N, W \ {t}, N \cup {t})
<1>1. Listing(<<Define(t)>>)
  <2>1. <<Define(t)>> \in Seq({Define(t)})
    OBVIOUS
  <2> QED
    BY <2>1 DEF Listing
<1>2. SUFFICES ASSUME NEW text, NEW D, Closed(text, W, N, D)
               PROVE  Closed(text \o <<Define(t)>>, W \ {t}, N \cup {t}, D)
  BY <1>1 DEF Keeps
<1> DEFINE a == Define(t)
           u == text \o <<a>>
<1>3. /\ Define(t)[1] = "define" /\ Define(t)[2] = t /\ ~ IsFunction(Define(t))
      /\ Targets(Define(t)) = {}
  <2>1. Define(t)[1] = "define" /\ Define(t)[2] = t
    BY DEF Define
  <2>2. "define" \notin {Jump[k] : k \in Comparison} \cup {"JMP", "LEAQ"}
    BY DEF Jump, Comparison
  <2> QED
    BY <2>1, <2>2 DEF IsFunction, Targets
<1> HIDE DEF a
<1>4. Listing(text) /\ ~ Defined(text, t)
  BY <1>2 DEF Closed
<1>5. PICK m \in Nat : m = Len(text)
  BY <1>4, ListingFacts
<1>6. /\ Listing(u) /\ Len(u) = m + 1 /\ DOMAIN text = 1 .. m /\ DOMAIN u = 1 .. m + 1
      /\ \A i \in 1 .. m : u[i] = text[i]
      /\ u[m + 1] = a
  BY <1>4, <1>5, OneMore
<1>7. \A i \in DOMAIN text : Clear(text, i) => Clear(u, i)
  <2>1. \A k \in DOMAIN <<a>> : ~ IsFunction(<<a>>[k])
    <3>1. DOMAIN <<a>> = {1} /\ <<a>>[1] = a
      OBVIOUS
    <3> QED
      BY <3>1, <1>3 DEF a
  <2>2. Listing(<<a>>)
    BY <1>1 DEF a
  <2> QED
    BY <1>4, <2>1, <2>2, ClearGrows
<1>8. \A i \in DOMAIN text : \A s : Settled(text, i, s) => Settled(u, i, s)
  <2>1. Listing(<<a>>)
    BY <1>1 DEF a
  <2> QED
    BY <1>4, <2>1, SettledGrows
<1>9. Clear(u, m + 1)
  <2>1. \A k \in m + 1 .. m + 1 : k = m + 1
    OBVIOUS
  <2> QED
    BY <1>3, <1>6, <2>1 DEF Clear, a
<1>10. \A i \in 1 .. m + 1 : i \in 1 .. m \/ i = m + 1
  OBVIOUS
<1> HIDE DEF u
<1>11. ASSUME NEW i \in 1 .. m + 1, NEW j \in 1 .. m + 1,
              u[i][1] = "define", u[i] = u[j]
       PROVE  i = j
  <2>1. ASSUME NEW k \in 1 .. m
        PROVE  u[k] # u[m + 1]
    BY <2>1, <1>4, <1>6 DEF Defined, a
  <2>2. i \in 1 .. m /\ j \in 1 .. m => i = j
    BY <1>2, <1>6, <1>11 DEF Closed
  <2> QED
    BY <1>10, <1>11, <2>1, <2>2
<1>12. ASSUME NEW i \in 1 .. m + 1, NEW s \in Targets(u[i])
       PROVE  Settled(u, i, s) \/ (s \in W \ {t} /\ Clear(u, i))
  <2>1. i \in 1 .. m /\ s \in Targets(text[i]) /\ i \in DOMAIN text
    <3>1. i # m + 1
      BY <1>3, <1>6, <1>12 DEF a
    <3> QED
      BY <3>1, <1>6, <1>10, <1>12
  <2>2. Settled(text, i, s) \/ (s \in W /\ Clear(text, i))
    BY <1>2, <2>1 DEF Closed
  <2>3. ASSUME s = t, Clear(u, i)
        PROVE  Settled(u, i, s)
    <3>1. u[m + 1] = Define(s) /\ m + 1 \in DOMAIN u
      BY <1>6, <2>3 DEF a
    <3>2. \A k \in (i .. m + 1) \cup (m + 1 .. i) : k \in i .. m + 1
      BY <2>1
    <3> QED
      BY <1>6, <2>3, <3>1, <3>2 DEF Settled, Clear
  <2> QED
    BY <1>7, <1>8, <2>1, <2>2, <2>3
<1>13. ASSUME NEW s \in W \ {t}
       PROVE  ~ Defined(u, s)
  <2>1. ~ Defined(text, s)
    BY <1>2 DEF Closed
  <2>2. u[m + 1] # Define(s)
    BY <1>6 DEF Define, a
  <2> QED
    BY <1>6, <1>10, <2>1, <2>2 DEF Defined
<1>14. ASSUME NEW s \in N \cup {t}
       PROVE  \E j \in 1 .. m + 1 : u[j] = Define(s) /\ Clear(u, j)
  <2>1. CASE s = t
    <3>1. m + 1 \in 1 .. m + 1
      OBVIOUS
    <3> QED
      BY <1>6, <1>9, <2>1, <3>1 DEF a
  <2>2. CASE s \in N
    <3>1. PICK j \in 1 .. m : text[j] = Define(s) /\ Clear(text, j)
      BY <1>2, <1>6, <2>2 DEF Closed
    <3> QED
      BY <1>6, <1>7, <3>1
  <2> QED
    BY <2>1, <2>2
<1>15. /\ W \subseteq D
       /\ \A j \in DOMAIN text : text[j][1] = "define" => text[j][2] \in D
  BY <1>2 DEF Closed
<1>16. \A j \in 1 .. m + 1 : u[j][1] = "define" => u[j][2] \in D
  BY <1>3, <1>6, <1>10, <1>15 DEF a
<1> QED
  BY <1>6, <1>11, <1>12, <1>13, <1>14, <1>15, <1>16 DEF Closed, u, a

(* The line with which a function begins, when no label is owed. *)
LEMMA FunctionKeeps ==
  ASSUME NEW text, NEW N, NEW D, Closed(text, {}, N, D), NEW t, t \notin D
  PROVE  Closed(text \o <<Define(t)>>, {}, {}, D \cup {t})
<1> DEFINE a == Define(t)
           u == text \o <<a>>
<1>1. Define(t)[1] = "define" /\ Define(t)[2] = t /\ Targets(Define(t)) = {}
  <2>1. Define(t)[1] = "define" /\ Define(t)[2] = t
    BY DEF Define
  <2>2. "define" \notin {Jump[k] : k \in Comparison} \cup {"JMP", "LEAQ"}
    BY DEF Jump, Comparison
  <2> QED
    BY <2>1, <2>2 DEF Targets
<1>2. Listing(<<a>>)
  <2>1. <<a>> \in Seq({a})
    OBVIOUS
  <2> QED
    BY <2>1 DEF Listing
<1> HIDE DEF a
<1>3. Listing(text) /\ \A j \in DOMAIN text : text[j][1] = "define" => text[j][2] \in D
  BY DEF Closed
<1>4. PICK m \in Nat : m = Len(text)
  BY <1>3, ListingFacts
<1>5. /\ Listing(u) /\ DOMAIN text = 1 .. m /\ DOMAIN u = 1 .. m + 1
      /\ \A i \in 1 .. m : u[i] = text[i]
      /\ u[m + 1] = a
  BY <1>3, <1>4, OneMore
<1>6. \A i \in DOMAIN text : \A s : Settled(text, i, s) => Settled(u, i, s)
  BY <1>2, <1>3, SettledGrows
<1>7. \A i \in 1 .. m + 1 : i \in 1 .. m \/ i = m + 1
  OBVIOUS
<1> HIDE DEF u
<1>8. ASSUME NEW i \in 1 .. m + 1, NEW j \in 1 .. m + 1,
             u[i][1] = "define", u[i] = u[j]
      PROVE  i = j
  <2>1. ASSUME NEW k \in 1 .. m
        PROVE  u[k] # u[m + 1]
    BY <2>1, <1>1, <1>3, <1>5 DEF a
  <2>2. i \in 1 .. m /\ j \in 1 .. m => i = j
    BY <1>5, <1>8 DEF Closed
  <2> QED
    BY <1>7, <1>8, <2>1, <2>2
<1>9. ASSUME NEW i \in 1 .. m + 1, NEW s \in Targets(u[i])
      PROVE  Settled(u, i, s)
  <2>1. i # m + 1
    BY <1>1, <1>5, <1>9 DEF a
  <2>2. i \in DOMAIN text /\ s \in Targets(text[i])
    BY <2>1, <1>5, <1>7, <1>9
  <2>3. Settled(text, i, s)
    BY <2>2 DEF Closed
  <2> QED
    BY <1>6, <2>2, <2>3
<1>10. \A j \in 1 .. m + 1 : u[j][1] = "define" => u[j][2] \in D \cup {t}
  BY <1>1, <1>3, <1>5, <1>7 DEF a
<1> QED
  BY <1>5, <1>8, <1>9, <1>10 DEF Closed, u, a

(* A label that was never used may be promised. *)
LEMMA Promised ==
  ASSUME NEW text, NEW W, NEW N, NEW D, Closed(text, W, N, D), NEW T, T \cap D = {}
  PROVE  Closed(text, W \cup T, N, D \cup T)
<1>1. ASSUME NEW t \in T
      PROVE  ~ Defined(text, t)
  <2>1. Define(t)[1] = "define" /\ Define(t)[2] = t
    BY DEF Define
  <2> QED
    BY <2>1 DEF Closed, Defined
<1> QED
  BY <1>1 DEF Closed

(* Fewer labels to jump back to, and more that are used up. *)
LEMMA ClosedWeakens ==
  ASSUME NEW text, NEW W, NEW N, NEW D, Closed(text, W, N, D),
         NEW M, M \subseteq N, NEW E, D \subseteq E
  PROVE  Closed(text, W, M, E)
BY DEF Closed

(* One piece of code after another. *)
LEMMA KeepsJoin ==
  ASSUME NEW c, NEW d, NEW W, NEW N, NEW V, NEW M, NEW U, NEW L,
         Keeps(c, W, N, V, M), Keeps(d, V, M, U, L)
  PROVE  Keeps(c \o d, W, N, U, L)
<1>1. Listing(c) /\ Listing(d)
  BY DEF Keeps
<1>2. Listing(c \o d)
  BY <1>1, JoinFacts
<1>3. ASSUME NEW text, NEW D, Closed(text, W, N, D)
      PROVE  Closed(text \o (c \o d), U, L, D)
  <2>1. Closed(text \o c, V, M, D)
    BY <1>3 DEF Keeps
  <2>2. Closed((text \o c) \o d, U, L, D)
    BY <2>1 DEF Keeps
  <2>3. (text \o c) \o d = text \o (c \o d)
    <3>1. Listing(text)
      BY <1>3 DEF Closed
    <3> QED
      BY <1>1, <3>1, JoinTwice
  <2> QED
    BY <2>2, <2>3
<1> QED
  BY <1>2, <1>3 DEF Keeps

(***************************************************************************)
(* Lines and what they do to the labels.                                   *)
(***************************************************************************)
Jumps == {Jump[k] : k \in Comparison} \cup {"JMP"}
Labelled == Jumps \cup {"LEAQ", ".quad", "define"}

Reading(ins, S) == ins[1] # "define" /\ Targets(ins) \subseteq S

(* A text is known by its lines. *)
LEMMA LastLine ==
  ASSUME NEW s, NEW r, Listing(s), Listing(r), NEW n \in Nat,
         Len(r) = n, Len(s) = n + 1, \A i \in 1 .. n : s[i] = r[i]
  PROVE  s = r \o <<s[n + 1]>>
<1>1. PICK a : a = s[n + 1]
  OBVIOUS
<1>2. Listing(r)
  OBVIOUS
<1>3. /\ Listing(r \o <<a>>) /\ Len(r \o <<a>>) = Len(r) + 1
      /\ \A i \in 1 .. Len(r) : (r \o <<a>>)[i] = r[i]
      /\ (r \o <<a>>)[Len(r) + 1] = a
  BY ONLY <1>2, OneMore
<1>4. PICK u : u = r \o <<a>>
  OBVIOUS
<1>5. /\ Listing(u) /\ Len(u) = n + 1
      /\ \A i \in 1 .. n : u[i] = r[i]
      /\ u[n + 1] = a
  BY <1>3, <1>4
<1>6. PICK S : s \in Seq(S)
  BY DEF Listing
<1>7. PICK U : u \in Seq(U)
  BY <1>5 DEF Listing
<1>8. s \in Seq(S \cup U) /\ u \in Seq(S \cup U)
  BY <1>6, <1>7, SeqMonotonic
<1>9. \A i \in 1 .. n + 1 : s[i] = u[i]
  BY <1>1, <1>5
<1>10. s = u
  BY <1>5, <1>8, <1>9, SeqEqual
<1> QED
  BY <1>1, <1>4, <1>10

(* The instructions that use no label. *)
LEMMA PlainLine ==
  ASSUME NEW ins, ins[1] \notin Labelled, NEW S
  PROVE  Reading(ins, S)
BY DEF Reading, Targets, Labelled, Jumps

Plain == {"MOVQ", "ADDQ", "SUBQ", "ANDQ", "ORQ", "NOTQ", "CMPQ", "CQO", "IMULQ",
          "IDIVQ", "CALL", "PUSHQ", "POPQ", "RET", ".globl", ".text", ".data",
          ".string"}

(* Most lines are of that sort, whatever their operands. *)
LEMMA PlainLines ==
  ASSUME NEW op \in Plain, NEW S
  PROVE  /\ Reading(<<op>>, S)
         /\ \A x : Reading(<<op, x>>, S)
         /\ \A x, y : Reading(<<op, x, y>>, S)
<1>1. op \notin Labelled
  BY DEF Plain, Labelled, Jumps, Jump, Comparison
<1>2. <<op>>[1] = op /\ (\A x : <<op, x>>[1] = op) /\ (\A x, y : <<op, x, y>>[1] = op)
  OBVIOUS
<1> QED
  BY <1>1, <1>2, PlainLine

(* A jump, and an instruction or a value that names a label. *)
LEMMA JumpLine ==
  ASSUME NEW op \in Jumps, NEW S, NEW t \in S
  PROVE  Reading(<<op, t>>, S)
<1> DEFINE ins == <<op, t>>
<1>1. ins[1] = op /\ ins[2] = t
  OBVIOUS
<1>2. "define" \notin Jumps
  BY DEF Jumps, Jump, Comparison
<1> HIDE DEF ins
<1>3. Targets(ins) = {t}
  BY <1>1 DEF Targets, Jumps
<1> QED
  BY <1>1, <1>2, <1>3 DEF Reading, ins

(* The address of a string uses its label.                                 *)
LEMMA AddressLine ==
  ASSUME NEW S, NEW t \in S, NEW x
  PROVE  Reading(<<"LEAQ", t, x>>, S)
<1> DEFINE ins == <<"LEAQ", t, x>>
<1>1. ins[1] = "LEAQ" /\ ins[2] = t
  OBVIOUS
<1> HIDE DEF ins
<1>2. Targets(ins) = {t}
  BY <1>1 DEF Targets
<1> QED
  BY <1>1, <1>2 DEF Reading, ins

(* A value uses a label if it is the address of a string or an array.      *)
LEMMA ValueLine ==
  ASSUME NEW S, NEW v, v[1] = "SL" => v \in S
  PROVE  Reading(<<".quad", v>>, S)
<1> DEFINE ins == <<".quad", v>>
<1>1. ins[1] = ".quad" /\ ins[2] = v
  OBVIOUS
<1> HIDE DEF ins
<1>2. ".quad" \notin {Jump[k] : k \in Comparison} \cup {"JMP", "LEAQ"}
  BY DEF Jump, Comparison
<1>3. Targets(ins) \subseteq S
  BY <1>1, <1>2 DEF Targets
<1> QED
  BY <1>1, <1>3 DEF Reading, ins

(* Texts of such lines. *)
LEMMA Reads0 ==
  ASSUME NEW S
  PROVE  Reads(<<>>, S)
<1>1. Lines(<<>>, {}) /\ \A i \in DOMAIN <<>> : FALSE
  BY Lines0
<1> QED
  BY <1>1 DEF Reads, Lines

(* Lines that use labels of S, one by one, are a text that does.           *)
LEMMA Reads1 ==
  ASSUME NEW S, NEW a, Reading(a, S)
  PROVE  Reads(<<a>>, S)
<1>1. <<a>> \in Seq({a}) /\ DOMAIN <<a>> = {1} /\ <<a>>[1] = a
  OBVIOUS
<1> QED
  BY <1>1 DEF Reads, Reading, Listing

(* The same for two lines.                                                 *)
LEMMA Reads2 ==
  ASSUME NEW S, NEW a, NEW b, Reading(a, S), Reading(b, S)
  PROVE  Reads(<<a, b>>, S)
<1> DEFINE s == <<a, b>>
<1>1. s \in Seq({a, b}) /\ DOMAIN s = 1 .. 2 /\ s[1] = a /\ s[2] = b
  OBVIOUS
<1> HIDE DEF s
<1>2. \A i \in 1 .. 2 : i = 1 \/ i = 2
  OBVIOUS
<1> QED
  BY <1>1, <1>2 DEF Reads, Reading, Listing, s

(* The same for three lines.                                               *)
LEMMA Reads3 ==
  ASSUME NEW S, NEW a, NEW b, NEW c, Reading(a, S), Reading(b, S), Reading(c, S)
  PROVE  Reads(<<a, b, c>>, S)
<1> DEFINE s == <<a, b, c>>
<1>1. s \in Seq({a, b, c}) /\ DOMAIN s = 1 .. 3 /\ s[1] = a /\ s[2] = b /\ s[3] = c
  OBVIOUS
<1> HIDE DEF s
<1>2. \A i \in 1 .. 3 : i = 1 \/ i = 2 \/ i = 3
  OBVIOUS
<1> QED
  BY <1>1, <1>2 DEF Reads, Reading, Listing, s

(* The same for seven lines, those of a call.                              *)
LEMMA Reads7 ==
  ASSUME NEW S, NEW a, NEW b, NEW c, NEW d, NEW e, NEW f, NEW g,
         Reading(a, S), Reading(b, S), Reading(c, S), Reading(d, S),
         Reading(e, S), Reading(f, S), Reading(g, S)
  PROVE  Reads(<<a, b, c, d, e, f, g>>, S)
<1> DEFINE s == <<a, b, c, d, e, f, g>>
<1>1. /\ s \in Seq({a, b, c, d, e, f, g}) /\ DOMAIN s = 1 .. 7
      /\ s[1] = a /\ s[2] = b /\ s[3] = c /\ s[4] = d /\ s[5] = e /\ s[6] = f
      /\ s[7] = g
  OBVIOUS
<1> HIDE DEF s
<1>2. \A i \in 1 .. 7 : i = 1 \/ i = 2 \/ i = 3 \/ i = 4 \/ i = 5 \/ i = 6 \/ i = 7
  OBVIOUS
<1> QED
  BY <1>1, <1>2 DEF Reads, Reading, Listing, s

(* Two such texts in a row are such a text.                                *)
LEMMA ReadsJoin ==
  ASSUME NEW S, NEW c, NEW d, Reads(c, S), Reads(d, S)
  PROVE  Reads(c \o d, S)
<1>1. Listing(c) /\ Listing(d)
  BY DEF Reads
<1>2. PICK m, n \in Nat : /\ m = Len(c) /\ DOMAIN c = 1 .. m
                          /\ n = Len(d) /\ DOMAIN d = 1 .. n
  BY <1>1, ListingFacts
<1>3. /\ Listing(c \o d) /\ Len(c \o d) = m + n
      /\ \A i \in 1 .. m : (c \o d)[i] = c[i]
      /\ \A i \in m + 1 .. m + n : i - m \in 1 .. n /\ (c \o d)[i] = d[i - m]
  BY <1>1, <1>2, JoinFacts
<1>4. DOMAIN (c \o d) = 1 .. m + n
  BY <1>3, ListingFacts
<1>5. ASSUME NEW i \in 1 .. m + n
      PROVE  Reading((c \o d)[i], S)
  <2>1. i \in 1 .. m \/ i \in m + 1 .. m + n
    OBVIOUS
  <2> QED
    BY <1>2, <1>3, <2>1 DEF Reads, Reading
<1> QED
  BY <1>3, <1>4, <1>5 DEF Reads, Reading

(* The same for a line for each number up to n.                            *)
LEMMA ReadsFor ==
  ASSUME NEW S, NEW n \in Nat, NEW f, f = [i \in 1 .. n |-> f[i]],
         \A i \in 1 .. n : Reading(f[i], S)
  PROVE  Reads(f, S)
<1>1. f \in [1 .. n -> {f[i] : i \in 1 .. n}]
  OBVIOUS
<1>2. f \in Seq({f[i] : i \in 1 .. n})
  BY <1>1, SeqDef
<1>3. DOMAIN f = 1 .. n
  BY <1>1
<1> QED
  BY <1>2, <1>3 DEF Reads, Reading, Listing


(* A text of three lines is one of 2 and a line. *)
LEMMA ThreeLines ==
  ASSUME NEW a, NEW b, NEW c
  PROVE  <<a, b, c>> = <<a, b>> \o <<c>>
<1>1. Listing(<<a, b>>) /\ Listing(<<a, b, c>>)
  <2>1. <<a, b>> \in Seq({a, b}) /\ <<a, b, c>> \in Seq({a, b, c})
    OBVIOUS
  <2> QED
    BY <2>1 DEF Listing
<1>2. Len(<<a, b>>) = 2 /\ Len(<<a, b, c>>) = 2 + 1 /\ 2 \in Nat
  OBVIOUS
<1>3. \A i \in 1 .. 2 : <<a, b, c>>[i] = <<a, b>>[i]
  <2>1. \A i \in 1 .. 2 : i = 1 \/ i = 2
    OBVIOUS
  <2>2. <<a, b, c>>[1] = <<a, b>>[1]
    OBVIOUS
  <2>3. <<a, b, c>>[2] = <<a, b>>[2]
    OBVIOUS
  <2> QED
    BY <2>1, <2>2, <2>3
<1>4. <<a, b, c>> = <<a, b>> \o << <<a, b, c>>[2 + 1] >>
  BY <1>1, <1>2, <1>3, LastLine
<1>5. <<a, b, c>>[2 + 1] = c
  OBVIOUS
<1> QED
  BY <1>4, <1>5

(* A text of four lines is one of 3 and a line. *)
LEMMA FourLines ==
  ASSUME NEW a, NEW b, NEW c, NEW d
  PROVE  <<a, b, c, d>> = <<a, b, c>> \o <<d>>
<1>1. Listing(<<a, b, c>>) /\ Listing(<<a, b, c, d>>)
  <2>1. <<a, b, c>> \in Seq({a, b, c}) /\ <<a, b, c, d>> \in Seq({a, b, c, d})
    OBVIOUS
  <2> QED
    BY <2>1 DEF Listing
<1>2. Len(<<a, b, c>>) = 3 /\ Len(<<a, b, c, d>>) = 3 + 1 /\ 3 \in Nat
  OBVIOUS
<1>3. \A i \in 1 .. 3 : <<a, b, c, d>>[i] = <<a, b, c>>[i]
  <2>1. \A i \in 1 .. 3 : i = 1 \/ i = 2 \/ i = 3
    OBVIOUS
  <2>2. <<a, b, c, d>>[1] = <<a, b, c>>[1]
    OBVIOUS
  <2>3. <<a, b, c, d>>[2] = <<a, b, c>>[2]
    OBVIOUS
  <2>4. <<a, b, c, d>>[3] = <<a, b, c>>[3]
    OBVIOUS
  <2> QED
    BY <2>1, <2>2, <2>3, <2>4
<1>4. <<a, b, c, d>> = <<a, b, c>> \o << <<a, b, c, d>>[3 + 1] >>
  BY <1>1, <1>2, <1>3, LastLine
<1>5. <<a, b, c, d>>[3 + 1] = d
  OBVIOUS
<1> QED
  BY <1>4, <1>5

(* A text of five lines is one of 4 and a line. *)
LEMMA FiveLines ==
  ASSUME NEW a, NEW b, NEW c, NEW d, NEW e
  PROVE  <<a, b, c, d, e>> = <<a, b, c, d>> \o <<e>>
<1>1. Listing(<<a, b, c, d>>) /\ Listing(<<a, b, c, d, e>>)
  <2>1. <<a, b, c, d>> \in Seq({a, b, c, d}) /\ <<a, b, c, d, e>> \in Seq({a, b, c, d, e})
    OBVIOUS
  <2> QED
    BY <2>1 DEF Listing
<1>2. Len(<<a, b, c, d>>) = 4 /\ Len(<<a, b, c, d, e>>) = 4 + 1 /\ 4 \in Nat
  OBVIOUS
<1>3. \A i \in 1 .. 4 : <<a, b, c, d, e>>[i] = <<a, b, c, d>>[i]
  <2>1. \A i \in 1 .. 4 : i = 1 \/ i = 2 \/ i = 3 \/ i = 4
    OBVIOUS
  <2>2. <<a, b, c, d, e>>[1] = <<a, b, c, d>>[1]
    OBVIOUS
  <2>3. <<a, b, c, d, e>>[2] = <<a, b, c, d>>[2]
    OBVIOUS
  <2>4. <<a, b, c, d, e>>[3] = <<a, b, c, d>>[3]
    OBVIOUS
  <2>5. <<a, b, c, d, e>>[4] = <<a, b, c, d>>[4]
    OBVIOUS
  <2> QED
    BY <2>1, <2>2, <2>3, <2>4, <2>5
<1>4. <<a, b, c, d, e>> = <<a, b, c, d>> \o << <<a, b, c, d, e>>[4 + 1] >>
  BY <1>1, <1>2, <1>3, LastLine
<1>5. <<a, b, c, d, e>>[4 + 1] = e
  OBVIOUS
<1> QED
  BY <1>4, <1>5

(* A text of six lines is one of 5 and a line. *)
LEMMA SixLines ==
  ASSUME NEW a, NEW b, NEW c, NEW d, NEW e, NEW f
  PROVE  <<a, b, c, d, e, f>> = <<a, b, c, d, e>> \o <<f>>
<1>1. Listing(<<a, b, c, d, e>>) /\ Listing(<<a, b, c, d, e, f>>)
  <2>1. <<a, b, c, d, e>> \in Seq({a, b, c, d, e}) /\ <<a, b, c, d, e, f>> \in Seq({a, b, c, d, e, f})
    OBVIOUS
  <2> QED
    BY <2>1 DEF Listing
<1>2. Len(<<a, b, c, d, e>>) = 5 /\ Len(<<a, b, c, d, e, f>>) = 5 + 1 /\ 5 \in Nat
  OBVIOUS
<1>3. \A i \in 1 .. 5 : <<a, b, c, d, e, f>>[i] = <<a, b, c, d, e>>[i]
  <2>1. \A i \in 1 .. 5 : i = 1 \/ i = 2 \/ i = 3 \/ i = 4 \/ i = 5
    OBVIOUS
  <2>2. <<a, b, c, d, e, f>>[1] = <<a, b, c, d, e>>[1]
    OBVIOUS
  <2>3. <<a, b, c, d, e, f>>[2] = <<a, b, c, d, e>>[2]
    OBVIOUS
  <2>4. <<a, b, c, d, e, f>>[3] = <<a, b, c, d, e>>[3]
    OBVIOUS
  <2>5. <<a, b, c, d, e, f>>[4] = <<a, b, c, d, e>>[4]
    OBVIOUS
  <2>6. <<a, b, c, d, e, f>>[5] = <<a, b, c, d, e>>[5]
    OBVIOUS
  <2> QED
    BY <2>1, <2>2, <2>3, <2>4, <2>5, <2>6
<1>4. <<a, b, c, d, e, f>> = <<a, b, c, d, e>> \o << <<a, b, c, d, e, f>>[5 + 1] >>
  BY <1>1, <1>2, <1>3, LastLine
<1>5. <<a, b, c, d, e, f>>[5 + 1] = f
  OBVIOUS
<1> QED
  BY <1>4, <1>5

(***************************************************************************)
(* What the code of each handler does to the labels.                       *)
(***************************************************************************)

(* Code followed by lines that use what is owed or lies behind. *)
LEMMA ThenReads ==
  ASSUME NEW c, NEW d, NEW W, NEW N, NEW V, NEW M,
         Keeps(c, W, N, V, M), Reads(d, V \cup M)
  PROVE  Keeps(c \o d, W, N, V, M)
BY ReadsKeeps, KeepsJoin

(* Code followed by an owed label. *)
LEMMA ThenDefine ==
  ASSUME NEW c, NEW W, NEW N, NEW V, NEW M, NEW t \in V, t[1] # "function",
         Keeps(c, W, N, V, M)
  PROVE  Keeps(c \o <<Define(t)>>, W, N, V \ {t}, M \cup {t})
BY DefineKeeps, KeepsJoin

(* Labels are no names of functions, and are told apart by their numbers. *)
LEMMA LabelsDiffer ==
  ASSUME NEW l \in Int
  PROVE  /\ Label(l)[1] = "L" /\ StringLabel(l)[1] = "SL"
         /\ Label(l) # Label(l + 1)
         /\ \A m : Label(l) = Label(m) => l = m
         /\ \A m : StringLabel(l) = StringLabel(m) => l = m
         /\ \A m : Label(l) # StringLabel(m)
<1>1. \A k, m : Label(k) = Label(m) => k = m
  BY DEF Label
<1>2. l # l + 1
  OBVIOUS
<1>3. Label(l) # Label(l + 1)
  BY <1>1, <1>2
<1> QED
  BY <1>1, <1>3 DEF Label, StringLabel

(* The two labels of a comparison are used and defined on the spot. *)
LEMMA FlagKeeps ==
  ASSUME NEW W, NEW N, NEW jump \in Jumps, NEW v, NEW w, NEW r, NEW l \in Int,
         Label(l) \notin W, Label(l + 1) \notin W
  PROVE  Keeps(Flag(jump, v, w, r, l), W \cup {Label(l), Label(l + 1)}, N,
               W, N \cup {Label(l), Label(l + 1)})
<1> DEFINE T == {Label(l), Label(l + 1)}
           a == <<jump, Label(l)>>
           b == <<"MOVQ", Imm(v), R(r)>>
           c == <<"JMP", Label(l + 1)>>
           d == Define(Label(l))
           e == <<"MOVQ", Imm(w), R(r)>>
           f == Define(Label(l + 1))
<1>1. Flag(jump, v, w, r, l) = <<a, b, c, d, e, f>>
  BY DEF Flag
<1>2. /\ Reading(a, W \cup T) /\ Reading(b, W \cup T) /\ Reading(c, W \cup T)
      /\ \A S : Reading(e, S)
  <2>1. Label(l) \in W \cup T /\ Label(l + 1) \in W \cup T
    OBVIOUS
  <2>2. "JMP" \in Jumps /\ "MOVQ" \in Plain
    BY DEF Jumps, Plain
  <2> HIDE DEF T
  <2> QED
    BY <2>1, <2>2, JumpLine, PlainLines
<1> HIDE DEF a, b, c, d, e, f
<1>3. <<a, b, c, d>> = <<a, b, c>> \o <<d>>
  BY FourLines
<1>4. <<a, b, c, d, e>> = <<a, b, c, d>> \o <<e>>
  BY FiveLines
<1>5. <<a, b, c, d, e, f>> = <<a, b, c, d, e>> \o <<f>>
  BY SixLines
<1> DEFINE V == W \cup T
           V1 == V \ {Label(l)}
           N1 == N \cup {Label(l)}
<1>6. Keeps(<<a, b, c>>, V, N, V, N)
  <2>1. Reads(<<a, b, c>>, V)
    BY <1>2, Reads3
  <2>2. Reads(<<a, b, c>>, V \cup N)
    BY <2>1 DEF Reads
  <2> HIDE DEF V
  <2> QED
    BY <2>2, ReadsKeeps
<1>7. Keeps(<<a, b, c, d>>, V, N, V1, N1)
  <2>1. Label(l) \in V /\ Label(l)[1] # "function"
    BY LabelsDiffer
  <2> HIDE DEF V
  <2>2. Keeps(<<a, b, c>> \o <<Define(Label(l))>>, V, N,
              V \ {Label(l)}, N \cup {Label(l)})
    BY <1>6, <2>1, ThenDefine
  <2> QED
    BY <1>3, <2>2 DEF d
<1>8. Keeps(<<a, b, c, d, e>>, V, N, V1, N1)
  <2>1. Reads(<<e>>, V1 \cup N1)
    BY <1>2, Reads1
  <2> HIDE DEF V, V1, N1
  <2> QED
    BY <1>4, <1>7, <2>1, ThenReads
<1>9. Keeps(<<a, b, c, d, e, f>>, V, N, V1 \ {Label(l + 1)}, N1 \cup {Label(l + 1)})
  <2>1. Label(l + 1) \in V1 /\ Label(l + 1)[1] # "function"
    BY LabelsDiffer
  <2> HIDE DEF V, V1, N1
  <2>2. Keeps(<<a, b, c, d, e>> \o <<Define(Label(l + 1))>>, V, N,
              V1 \ {Label(l + 1)}, N1 \cup {Label(l + 1)})
    BY <1>8, <2>1, ThenDefine
  <2> QED
    BY <1>5, <2>2 DEF f
<1>10. V1 \ {Label(l + 1)} = W
  OBVIOUS
<1>11. N1 \cup {Label(l + 1)} = N \cup T
  OBVIOUS
<1> QED
  BY <1>1, <1>9, <1>10, <1>11

(* Code that has nothing to do with labels. *)
LEMMA ReadsNothing ==
  ASSUME NEW code, Reads(code, {}), NEW W, NEW N
  PROVE  Keeps(code, W, N, W, N)
<1>1. Reads(code, W \cup N)
  BY DEF Reads
<1> QED
  BY <1>1, ReadsKeeps

(* Multiplication and division. *)
LEMMA ThroughReads ==
  ASSUME NEW op \in {"IMULQ", "IDIVQ"}, NEW l, NEW r, NEW from
  PROVE  Reads(Through(op, l, r, from), {})
<1>1. {"IMULQ", "IDIVQ", "MOVQ", "CQO"} \subseteq Plain
  BY DEF Plain
<1>2. /\ Reading(<<"MOVQ", R(l), Rax>>, {}) /\ Reading(<<"MOVQ", from, R(r)>>, {})
      /\ Reading(<<"CQO">>, {}) /\ Reading(<<op, R(r)>>, {})
  BY <1>1, PlainLines
<1>3. /\ Reads(<< <<"MOVQ", R(l), Rax>> >>, {})
      /\ Reads(IF op = "IDIVQ" THEN << <<"CQO">> >> ELSE <<>>, {})
      /\ Reads(<< <<op, R(r)>>, <<"MOVQ", from, R(r)>> >>, {})
  BY <1>2, Reads0, Reads1, Reads2
<1> QED
  BY <1>3, ReadsJoin DEF Through

Flagged == Comparison \cup {"NOT"}

(* The operators that turn no flags into a value. *)
LEMMA OperatorReads ==
  ASSUME NEW n, n.kind \in (KeepsLeft \cup KeepsRight \cup Unary) \ Flagged,
         NEW h, NEW l
  PROVE  Reads(OperatorCode(n, h, l), {})
<1>1. CASE n.kind \in KeepsRight
  <2>1. n.kind \in {"MUL", "DIV", "MOD"}
    BY <1>1 DEF KeepsRight
  <2>2. /\ n.kind = "MUL" => OperatorCode(n, h, l) = Through("IMULQ", h[1], h[2], Rax)
        /\ n.kind = "DIV" => OperatorCode(n, h, l) = Through("IDIVQ", h[1], h[2], Rax)
        /\ n.kind = "MOD" => OperatorCode(n, h, l) = Through("IDIVQ", h[1], h[2], Rdx)
    BY DEF OperatorCode, Comparison
  <2> QED
    BY <2>1, <2>2, ThroughReads
<1>2. CASE n.kind \in {"ADD", "SUB", "AND", "OR", "INDEX", "NEGATION", "ARG", "BRACE"}
  <2>1. \A op \in Plain : \A x, y : Reading(<<op, x, y>>, {}) /\ Reading(<<op, x>>, {})
    BY PlainLines
  <2>2. \/ \E op \in Plain : \E x, y : OperatorCode(n, h, l) = << <<op, x, y>> >>
        \/ OperatorCode(n, h, l) = << <<"NOTQ", R(h[1])>>, <<"ADDQ", Imm(1), R(h[1])>> >>
        \/ OperatorCode(n, h, l) = <<>>
    <3>1. n.kind = "ADD" => OperatorCode(n, h, l) = << <<"ADDQ", R(h[2]), R(h[1])>> >>
      BY DEF OperatorCode, Comparison
    <3>2. n.kind = "SUB" => OperatorCode(n, h, l) = << <<"SUBQ", R(h[2]), R(h[1])>> >>
      BY DEF OperatorCode, Comparison
    <3>3. n.kind = "AND" => OperatorCode(n, h, l) = << <<"ANDQ", R(h[2]), R(h[1])>> >>
      BY DEF OperatorCode, Comparison
    <3>4. n.kind = "OR" => OperatorCode(n, h, l) = << <<"ORQ", R(h[2]), R(h[1])>> >>
      BY DEF OperatorCode, Comparison
    <3>5. n.kind = "INDEX" =>
            OperatorCode(n, h, l) = << <<"MOVQ", At(h[1], h[2]), R(h[1])>> >>
      BY DEF OperatorCode, Comparison
    <3>6. n.kind = "NEGATION" => OperatorCode(n, h, l) =
            << <<"NOTQ", R(h[1])>>, <<"ADDQ", Imm(1), R(h[1])>> >>
      BY DEF OperatorCode, Comparison
    <3>7. n.kind \in {"ARG", "BRACE"} => OperatorCode(n, h, l) = <<>>
      BY DEF OperatorCode, Comparison
    <3>8. {"ADDQ", "SUBQ", "ANDQ", "ORQ", "MOVQ"} \subseteq Plain
      BY DEF Plain
    <3>9. ASSUME NEW op \in Plain, NEW x, NEW y,
                 OperatorCode(n, h, l) = << <<op, x, y>> >>
          PROVE  \E o \in Plain : \E u, v : OperatorCode(n, h, l) = << <<o, u, v>> >>
      BY <3>9
    <3>10. n.kind \in {"ADD", "SUB", "AND", "OR", "INDEX"} =>
             \E op \in Plain : \E x, y : OperatorCode(n, h, l) = << <<op, x, y>> >>
      BY <3>1, <3>2, <3>3, <3>4, <3>5, <3>8, <3>9, Zenon
    <3> QED
      BY <1>2, <3>6, <3>7, <3>10
  <2>3. "NOTQ" \in Plain /\ "ADDQ" \in Plain
    BY DEF Plain
  <2> QED
    BY <2>1, <2>2, <2>3, Reads0, Reads1, Reads2, Zenon
<1> QED
  BY <1>1, <1>2 DEF KeepsLeft, KeepsRight, Unary, Flagged

(* The labels an operator needs, and that it defines them. *)
OperatorLabels(kind, l) == IF kind \in Flagged THEN {Label(l), Label(l + 1)} ELSE {}

(* An operator settles the labels it needs. *)
LEMMA OperatorKeeps ==
  ASSUME NEW n, n.kind \in KeepsLeft \cup KeepsRight \cup Unary,
         NEW h, NEW l \in Int, NEW W, NEW N,
         OperatorLabels(n.kind, l) \cap W = {}
  PROVE  Keeps(OperatorCode(n, h, l), W \cup OperatorLabels(n.kind, l), N,
               W, N \cup OperatorLabels(n.kind, l))
<1>1. CASE n.kind \notin Flagged
  <2>1. OperatorLabels(n.kind, l) = {}
    BY <1>1 DEF OperatorLabels
  <2>2. W \cup OperatorLabels(n.kind, l) = W /\ N \cup OperatorLabels(n.kind, l) = N
    BY <2>1
  <2> QED
    BY <1>1, <2>2, OperatorReads, ReadsNothing
<1>2. CASE n.kind \in Flagged
  <2> DEFINE T == {Label(l), Label(l + 1)}
  <2>1. OperatorLabels(n.kind, l) = T /\ Label(l) \notin W /\ Label(l + 1) \notin W
    BY <1>2 DEF OperatorLabels
  <2>2. \E jump \in Jumps : \E x, y :
          OperatorCode(n, h, l) = << <<"CMPQ", x, y>> >> \o Flag(jump, 0, 1, h[1], l)
    <3>1. n.kind = "NOT" => OperatorCode(n, h, l) =
            << <<"CMPQ", Imm(0), R(h[1])>> >> \o Flag("JE", 0, 1, h[1], l)
      BY DEF OperatorCode, Comparison
    <3>2. n.kind \in Comparison => OperatorCode(n, h, l) =
            << <<"CMPQ", R(h[2]), R(h[1])>> >> \o Flag(Jump[n.kind], 0, 1, h[1], l)
      BY DEF OperatorCode, Comparison
    <3>3. "JE" \in Jumps /\ \A k \in Comparison : Jump[k] \in Jumps
      BY DEF Jumps, Jump, Comparison
    <3> QED
      BY <1>2, <3>1, <3>2, <3>3, Zenon DEF Flagged
  <2>3. PICK jump \in Jumps : \E x, y :
          OperatorCode(n, h, l) = << <<"CMPQ", x, y>> >> \o Flag(jump, 0, 1, h[1], l)
    BY <2>2
  <2>4. PICK x, y :
          OperatorCode(n, h, l) = << <<"CMPQ", x, y>> >> \o Flag(jump, 0, 1, h[1], l)
    BY <2>3
  <2>5. Keeps(<< <<"CMPQ", x, y>> >>, W \cup T, N, W \cup T, N)
    <3>1. "CMPQ" \in Plain
      BY DEF Plain
    <3>2. Reads(<< <<"CMPQ", x, y>> >>, {})
      BY <3>1, PlainLines, Reads1
    <3> QED
      BY <3>2, ReadsNothing
  <2>6. Keeps(Flag(jump, 0, 1, h[1], l), W \cup T, N, W, N \cup T)
    BY <2>1, FlagKeeps
  <2> HIDE DEF T
  <2> QED
    BY <2>1, <2>4, <2>5, <2>6, KeepsJoin
<1> QED
  BY <1>1, <1>2

(* Code with one label among its lines. *)
LEMMA OneDefined ==
  ASSUME NEW code, Listing(code), NEW p \in DOMAIN code,
         NEW W, NEW N, NEW t \in W, t[1] # "function", code[p] = Define(t),
         \A i \in DOMAIN code \ {p} : Reading(code[i], W \cup N)
  PROVE  Keeps(code, W, N, W \ {t}, N \cup {t})
<1>1. PICK n \in Nat : n = Len(code) /\ DOMAIN code = 1 .. n
  BY ListingFacts
<1>2. PICK S : code \in Seq(S)
  BY DEF Listing
<1>3. p \in 1 .. n /\ p \in Nat /\ p - 1 \in Nat /\ n - p \in Nat
  BY <1>1
<1> DEFINE b == SubSeq(code, 1, p - 1)
           e == SubSeq(code, p + 1, n)
           c == b \o <<Define(t)>>
<1>4. /\ b \in Seq(S) /\ Len(b) = p - 1
      /\ \A i \in 1 .. p - 1 : b[i] = code[i]
  <2>1. 1 \in 1 .. Len(code) + 1 /\ p - 1 \in 1 - 1 .. Len(code)
    BY <1>1, <1>3
  <2>2. /\ b \in Seq(S)
        /\ Len(b) = IF 1 <= p - 1 THEN (p - 1) - 1 + 1 ELSE 0
        /\ \A i \in 1 .. (p - 1) - 1 + 1 : b[i] = code[1 + i - 1]
    BY <1>2, <2>1, SubSeqProperties
  <2> HIDE DEF b
  <2> QED
    BY <1>3, <2>2
<1>5. /\ e \in Seq(S) /\ Len(e) = n - p
      /\ \A i \in 1 .. n - p : e[i] = code[p + i]
  <2>1. p + 1 \in 1 .. Len(code) + 1 /\ n \in (p + 1) - 1 .. Len(code)
    BY <1>1, <1>3
  <2>2. /\ e \in Seq(S)
        /\ Len(e) = IF p + 1 <= n THEN n - (p + 1) + 1 ELSE 0
        /\ \A i \in 1 .. n - (p + 1) + 1 : e[i] = code[(p + 1) + i - 1]
    BY <1>2, <2>1, SubSeqProperties
  <2> HIDE DEF e
  <2>3. \A i \in 1 .. n - p : i \in 1 .. n - (p + 1) + 1 /\ (p + 1) + i - 1 = p + i
    BY <1>3
  <2> QED
    BY <1>3, <2>2, <2>3
<1> HIDE DEF b, e
<1>6. Listing(b) /\ Listing(e)
  BY <1>4, <1>5 DEF Listing
<1>7. Reads(b, W \cup N)
  <2>1. DOMAIN b = 1 .. p - 1
    BY <1>4, <1>6, ListingFacts
  <2>2. \A i \in 1 .. p - 1 : i \in DOMAIN code \ {p}
    BY <1>1, <1>3
  <2> QED
    BY <1>4, <1>6, <2>1, <2>2 DEF Reads, Reading
<1>8. Reads(e, (W \ {t}) \cup (N \cup {t}))
  <2>1. DOMAIN e = 1 .. n - p
    BY <1>5, <1>6, ListingFacts
  <2>2. \A i \in 1 .. n - p : p + i \in DOMAIN code \ {p}
    BY <1>1, <1>3
  <2>3. (W \ {t}) \cup (N \cup {t}) = W \cup N
    OBVIOUS
  <2> QED
    BY <1>5, <1>6, <2>1, <2>2, <2>3 DEF Reads, Reading
<1>9. Keeps(c, W, N, W \ {t}, N \cup {t})
  BY <1>7, ReadsKeeps, ThenDefine
<1>10. /\ Listing(c) /\ Len(c) = p
       /\ \A i \in 1 .. p - 1 : c[i] = b[i]
       /\ c[p] = Define(t)
  <2>1. /\ Listing(c) /\ Len(c) = Len(b) + 1
        /\ \A i \in 1 .. Len(b) : c[i] = b[i]
        /\ c[Len(b) + 1] = Define(t)
    BY <1>6, OneMore
  <2>2. Len(b) = p - 1 /\ Len(b) + 1 = p
    BY <1>3, <1>4
  <2> HIDE DEF c
  <2> QED
    BY <2>1, <2>2
<1> HIDE DEF c
<1>11. /\ Listing(c \o e) /\ Len(c \o e) = n
       /\ \A i \in 1 .. p : (c \o e)[i] = c[i]
       /\ \A i \in p + 1 .. n : i - p \in 1 .. n - p /\ (c \o e)[i] = e[i - p]
  <2>1. /\ Listing(c \o e) /\ Len(c \o e) = Len(c) + Len(e)
        /\ \A i \in 1 .. Len(c) : (c \o e)[i] = c[i]
        /\ \A i \in Len(c) + 1 .. Len(c \o e) :
             i - Len(c) \in 1 .. Len(e) /\ (c \o e)[i] = e[i - Len(c)]
    BY <1>6, <1>10, JoinFacts
  <2>2. Len(c) = p /\ Len(e) = n - p /\ p + (n - p) = n
    BY <1>3, <1>5, <1>10
  <2> QED
    BY <2>1, <2>2
<1>12. \A i \in 1 .. n : (c \o e)[i] = code[i]
  <2>1. ASSUME NEW i \in 1 .. n
        PROVE  (c \o e)[i] = code[i]
    <3>1. CASE i \in 1 .. p - 1
      <4>1. i \in 1 .. p
        BY <1>3, <3>1
      <4> QED
        BY <1>4, <1>10, <1>11, <3>1, <4>1
    <3>2. CASE i = p
      <4>1. p \in 1 .. p
        BY <1>3
      <4> QED
        BY <1>10, <1>11, <3>2, <4>1
    <3>3. CASE i \in p + 1 .. n
      <4>1. p + (i - p) = i
        BY <1>3, <3>3
      <4> QED
        BY <1>5, <1>11, <3>3, <4>1
    <3>4. i \in 1 .. p - 1 \/ i = p \/ i \in p + 1 .. n
      BY <1>3
    <3> QED
      BY <3>1, <3>2, <3>3, <3>4
  <2> QED
    BY <2>1
<1>13. c \o e = code
  <2>1. PICK U : c \o e \in Seq(U)
    BY <1>11 DEF Listing
  <2>2. c \o e \in Seq(S \cup U) /\ code \in Seq(S \cup U)
    BY <1>2, <2>1, SeqMonotonic
  <2>3. PICK v : v = c \o e
    OBVIOUS
  <2>4. /\ v \in Seq(S \cup U) /\ Len(v) = n /\ Len(code) = n
        /\ \A i \in 1 .. n : v[i] = code[i]
    BY <1>1, <1>11, <1>12, <2>2, <2>3
  <2>5. v = code
    BY ONLY <2>2, <2>4, SeqEqual
  <2> QED
    BY <2>3, <2>5
<1>14. Keeps(c \o e, W, N, W \ {t}, N \cup {t})
  BY <1>8, <1>9, ThenReads
<1> QED
  BY <1>13, <1>14

LeafLabels(kind, l) == IF kind = "STR_LIT" THEN {StringLabel(l)} ELSE {}

(* A leaf: a string literal is put behind a label, the other leaves use    *)
(* none.                                                                   *)
LEMMA LeafKeeps ==
  ASSUME NEW n, NEW r, NEW l \in Int, NEW W, NEW N,
         LeafLabels(n.kind, l) \cap W = {}
  PROVE  Keeps(LeafCode(n, r, l), W \cup LeafLabels(n.kind, l), N,
               W, N \cup LeafLabels(n.kind, l))
<1>1. CASE n.kind # "STR_LIT"
  <2>1. "MOVQ" \in Plain
    BY DEF Plain
  <2>2. \A x, y : Reads(<< <<"MOVQ", x, y>> >>, {})
    BY <2>1, PlainLines, Reads1
  <2>3. LeafCode(n, r, l) = << <<"MOVQ", symbol_codegen(n.val), R(r)>> >>
        \/ LeafCode(n, r, l) = << <<"MOVQ", Imm(n.val), R(r)>> >>
    BY <1>1 DEF LeafCode
  <2>4. W \cup LeafLabels(n.kind, l) = W /\ N \cup LeafLabels(n.kind, l) = N
    BY <1>1 DEF LeafLabels
  <2>5. Reads(LeafCode(n, r, l), {})
    BY <2>2, <2>3
  <2> QED
    BY <2>4, <2>5, ReadsNothing
<1>2. CASE n.kind = "STR_LIT"
  <2> DEFINE t == StringLabel(l)
             a == <<".data">>
             c == <<".string", Imm(n.val)>>
             d == <<".text">>
             e == <<"LEAQ", StringLabel(l), R(r)>>
             V == W \cup {StringLabel(l)}
  <2>1. LeafCode(n, r, l) = <<a, Define(t), c, d, e>>
    BY <1>2 DEF LeafCode
  <2>2. Reading(a, V \cup N) /\ Reading(c, V \cup N) /\ Reading(d, V \cup N)
    <3>1. {".data", ".string", ".text"} \subseteq Plain
      BY DEF Plain
    <3> QED
      BY <3>1, PlainLines
  <2>3. Reading(e, V \cup N)
    <3>1. t \in V \cup N
      OBVIOUS
    <3> QED
      BY <3>1, AddressLine
  <2>4. t \in V /\ t[1] # "function" /\ V \ {t} = W
    BY <1>2, LabelsDiffer DEF LeafLabels
  <2>5. LeafLabels(n.kind, l) = {t}
    BY <1>2 DEF LeafLabels
  <2> HIDE DEF a, c, d, e, t, V
  <2> DEFINE b == Define(t)
             code == <<a, b, c, d, e>>
  <2> HIDE DEF b
  <2>6. code \in Seq({a, b, c, d, e}) /\ DOMAIN code = 1 .. 5
    OBVIOUS
  <2>7. /\ code[1] = a /\ code[2] = b /\ code[3] = c /\ code[4] = d /\ code[5] = e
    OBVIOUS
  <2>8. Listing(code)
    BY <2>6 DEF Listing
  <2> HIDE DEF code
  <2>9. \A i \in DOMAIN code \ {2} : Reading(code[i], V \cup N)
    <3>1. \A i \in 1 .. 5 : i = 1 \/ i = 2 \/ i = 3 \/ i = 4 \/ i = 5
      OBVIOUS
    <3> QED
      BY <2>2, <2>3, <2>6, <2>7, <3>1
  <2>10. Keeps(code, V, N, V \ {t}, N \cup {t})
    <3>1. 2 \in DOMAIN code /\ code[2] = Define(t)
      BY <2>6, <2>7 DEF b
    <3> QED
      BY <2>4, <2>8, <2>9, <3>1, OneDefined
  <2>11. LeafCode(n, r, l) = code
    BY <2>1 DEF code, b
  <2>12. V = W \cup LeafLabels(n.kind, l)
    BY <2>5 DEF V, t
  <2> QED
    BY <2>4, <2>5, <2>10, <2>11, <2>12
<1> QED
  BY <1>1, <1>2

(* A step of a variable or of an element, and an assignment to one. *)
LEMMA TargetReads ==
  ASSUME NEW n, NEW h
  PROVE  Reads(StepCode(n, h), {}) /\ Reads(AssignCode(n, h), {})
<1>1. "ADDQ" \in Plain /\ "SUBQ" \in Plain /\ "MOVQ" \in Plain
  BY DEF Plain
<1>2. \A op \in Plain : \A x, y : Reads(<< <<op, x, y>> >>, {})
  BY PlainLines, Reads1
<1>3. \E op \in Plain : \E x, y : StepCode(n, h) = << <<op, x, y>> >>
  <2> DEFINE op == IF n.kind = "INCREMENT" THEN "ADDQ" ELSE "SUBQ"
             y == IF n.sub[1].kind = "ID" THEN symbol_codegen(n.sub[1].val)
                                          ELSE At(h[2], h[3])
  <2>1. op \in Plain
    BY <1>1
  <2>2. StepCode(n, h) = << <<op, Imm(1), y>> >>
    BY DEF StepCode
  <2> HIDE DEF op, y
  <2> QED
    BY <2>1, <2>2, Zenon
<1>4. \E x, y : AssignCode(n, h) = << <<"MOVQ", x, y>> >>
  <2> DEFINE y == IF n.sub[1].kind = "ID" THEN symbol_codegen(n.sub[1].val)
                                          ELSE At(h[3], h[2])
  <2>1. AssignCode(n, h) = << <<"MOVQ", R(h[1]), y>> >>
    BY DEF AssignCode
  <2> HIDE DEF y
  <2> QED
    BY <2>1, Zenon
<1> QED
  BY <1>1, <1>2, <1>3, <1>4, Zenon

(* A call. *)
LEMMA CallReads ==
  ASSUME NEW h, NEW S, h \in Seq(S), NEW name, NEW r
  PROVE  Reads(CallSequence(h, name, r), {})
<1> DEFINE moves == [i \in 1 .. Len(h) |-> <<"MOVQ", R(h[i]), Argument(i)>>]
           rest == << <<"MOVQ", Imm(0), Rax>>, <<"PUSHQ", R(1)>>, <<"PUSHQ", R(2)>>,
                      <<"CALL", name>>, <<"POPQ", R(2)>>, <<"POPQ", R(1)>>,
                      <<"MOVQ", Rax, R(r)>> >>
<1>1. {"MOVQ", "PUSHQ", "CALL", "POPQ"} \subseteq Plain
  BY DEF Plain
<1>2. \A op \in {"MOVQ", "PUSHQ", "CALL", "POPQ"} : \A x, y :
        Reading(<<op, x>>, {}) /\ Reading(<<op, x, y>>, {})
  BY <1>1, PlainLines
<1>3. Reads(moves, {})
  <2>1. moves = [i \in 1 .. Len(h) |-> moves[i]] /\ Len(h) \in Nat
    OBVIOUS
  <2>2. \A i \in 1 .. Len(h) : Reading(moves[i], {})
    BY <1>2
  <2> HIDE DEF moves
  <2> QED
    BY <2>1, <2>2, ReadsFor
<1>4. Reads(rest, {})
  BY <1>2, Reads7
<1>5. CallSequence(h, name, r) = moves \o rest
  BY DEF CallSequence
<1> HIDE DEF moves, rest
<1> QED
  BY <1>3, <1>4, <1>5, ReadsJoin

DataLabels(d, l) ==
  IF Indirect(d) /\ d.init # <<>> THEN {StringLabel(l)} ELSE {}

(* A global variable: the label of its value, if that is a string or an    *)
(* array, and the label that is its name.                                  *)
LEMMA DataKeeps ==
  ASSUME NEW d, Len(d.init) \in Nat, DOMAIN d.init = 1 .. Len(d.init),
         NEW l \in Int, NEW W, NEW N,
         DataLabels(d, l) \cap W = {}, <<"global", d.name>> \notin W
  PROVE  Keeps(DataCode(d, l), W \cup DataLabels(d, l) \cup {<<"global", d.name>>}, N,
               W, N \cup DataLabels(d, l) \cup {<<"global", d.name>>})
<1> DEFINE init == d.init
           value == IF init = <<>> THEN Imm(0)
                    ELSE IF Indirect(d) THEN StringLabel(l) ELSE Imm(init[1])
           op == IF d.type = "STRING" THEN ".string" ELSE ".quad"
           values == [i \in DOMAIN init |-> <<op, Imm(init[i])>>]
           content == IF Indirect(d) /\ init # <<>>
                      THEN <<Define(StringLabel(l))>> \o values ELSE <<>>
           g == <<"global", d.name>>
           first == << <<".data">> >>
           last == << <<".globl", d.name>>, Define(g), <<".quad", value>> >>
           S == DataLabels(d, l)
           V == W \cup {g}
           M == N \cup S
<1>1. DataCode(d, l) = (first \o content) \o last
  BY DEF DataCode
<1>2. S = IF Indirect(d) /\ init # <<>> THEN {StringLabel(l)} ELSE {}
  BY DEF DataLabels
<1>3. g \notin W /\ g[1] = "global" /\ g # StringLabel(l) /\ S \cap W = {}
  BY LabelsDiffer
<1>4. \A v : Imm(v)[1] # "SL"
  BY DEF Imm
<1>5. Keeps(first, V \cup S, N, V \cup S, N)
  <2>1. ".data" \in Plain
    BY DEF Plain
  <2>2. Reads(first, {})
    BY <2>1, PlainLines, Reads1
  <2> HIDE DEF first, S, V
  <2> QED
    BY <2>2, ReadsNothing
<1>6. Reads(values, {})
  <2>1. op = ".string" \/ op = ".quad"
    OBVIOUS
  <2>2. ".string" \in Plain
    BY DEF Plain
  <2>3. \A v : Reading(<<op, Imm(v)>>, {})
    <3> HIDE DEF op
    <3> QED
      BY <1>4, <2>1, <2>2, PlainLines, ValueLine
  <2>4. values = [i \in 1 .. Len(init) |-> values[i]] /\ Len(init) \in Nat
    OBVIOUS
  <2>5. \A i \in 1 .. Len(init) : Reading(values[i], {})
    <3> HIDE DEF op
    <3> QED
      BY <2>3
  <2> HIDE DEF values, init
  <2> QED
    BY <2>4, <2>5, ReadsFor
<1>7. Keeps(content, V \cup S, N, V, M)
  <2>1. CASE Indirect(d) /\ init # <<>>
    <3>1. content = <<Define(StringLabel(l))>> \o values /\ S = {StringLabel(l)}
      BY <2>1, <1>2
    <3>2. StringLabel(l) \in V \cup S /\ StringLabel(l)[1] # "function"
      BY <3>1, LabelsDiffer
    <3>3. (V \cup S) \ {StringLabel(l)} = V
      BY <1>3, <3>1
    <3>4. N \cup {StringLabel(l)} = M
      BY <3>1
    <3>5. Reads(values, V \cup M)
      BY <1>6 DEF Reads
    <3> HIDE DEF content, values, S, V, M
    <3>6. Keeps(<<Define(StringLabel(l))>>, V \cup S, N, V, M)
      BY <3>2, <3>3, <3>4, DefineKeeps
    <3> QED
      BY <3>1, <3>5, <3>6, ThenReads
  <2>2. CASE ~ (Indirect(d) /\ init # <<>>)
    <3>1. content = <<>> /\ S = {}
      BY <2>2, <1>2
    <3>2. V \cup S = V /\ M = N
      BY <3>1
    <3>3. Reads(<<>>, {})
      BY Reads0
    <3> HIDE DEF content, S, V, M
    <3> QED
      BY <3>1, <3>2, <3>3, ReadsNothing
  <2> QED
    BY <2>1, <2>2
<1>8. Reading(<<".globl", d.name>>, V \cup M) /\ Reading(<<".quad", value>>, V \cup M)
  <2>1. ".globl" \in Plain
    BY DEF Plain
  <2>2. value[1] = "SL" => value \in V \cup M
    <3>1. CASE init = <<>> \/ ~ Indirect(d)
      BY <1>4, <3>1
    <3>2. CASE init # <<>> /\ Indirect(d)
      <4>1. value = StringLabel(l) /\ StringLabel(l) \in S
        BY <1>2, <3>2
      <4> QED
        BY <4>1
    <3> QED
      BY <3>1, <3>2
  <2> HIDE DEF value, V, M
  <2> QED
    BY <2>1, <2>2, PlainLines, ValueLine
<1>9. Keeps(last, V, M, W, M \cup {g})
  <2> DEFINE a == <<".globl", d.name>>
             b == Define(g)
             c == <<".quad", value>>
             code == <<a, b, c>>
  <2>1. last = code
    OBVIOUS
  <2>2. Reading(a, V \cup M) /\ Reading(c, V \cup M)
    BY <1>8
  <2>3. g \in V /\ g[1] # "function" /\ V \ {g} = W
    BY <1>3
  <2> HIDE DEF a, b, c, g, V, M, last
  <2>4. code \in Seq({a, b, c}) /\ DOMAIN code = 1 .. 3
    OBVIOUS
  <2>5. code[1] = a /\ code[2] = b /\ code[3] = c
    OBVIOUS
  <2>6. Listing(code)
    BY <2>4 DEF Listing
  <2> HIDE DEF code
  <2>7. \A i \in DOMAIN code \ {2} : Reading(code[i], V \cup M)
    <3>1. \A i \in 1 .. 3 : i = 1 \/ i = 2 \/ i = 3
      OBVIOUS
    <3> QED
      BY <2>2, <2>4, <2>5, <3>1
  <2>8. 2 \in DOMAIN code /\ code[2] = Define(g)
    BY <2>4, <2>5 DEF b
  <2>9. Keeps(code, V, M, V \ {g}, M \cup {g})
    BY <2>3, <2>6, <2>7, <2>8, OneDefined
  <2> QED
    BY <2>1, <2>3, <2>9
<1>10. V \cup S = W \cup S \cup {g} /\ M \cup {g} = N \cup S \cup {g}
  OBVIOUS
<1> HIDE DEF first, content, last, V, S, M, g
<1>11. Keeps(first \o content, V \cup S, N, V, M)
  BY <1>5, <1>7, KeepsJoin
<1>12. Keeps((first \o content) \o last, V \cup S, N, W, M \cup {g})
  BY <1>9, <1>11, KeepsJoin
<1> QED
  BY <1>1, <1>10, <1>12 DEF g, S

(* Lines without labels at the end of the code that is appended. *)
LEMMA ClosedOn ==
  ASSUME NEW text, NEW c, NEW W, NEW N, NEW D, Listing(text), Listing(c),
         Closed(text \o c, W, N, D), NEW d, Reads(d, {})
  PROVE  Listing(c \o d) /\ Closed(text \o (c \o d), W, N, D)
<1>1. Listing(d)
  BY DEF Reads
<1>2. Keeps(d, W, N, W, N)
  BY ReadsNothing
<1>3. Closed((text \o c) \o d, W, N, D)
  BY <1>2 DEF Keeps
<1>4. (text \o c) \o d = text \o (c \o d)
  BY <1>1, JoinTwice
<1>5. Listing(c \o d)
  BY <1>1, JoinFacts
<1> QED
  BY <1>3, <1>4, <1>5

(* The prologue of a function, when no label is owed. *)
LEMMA PrologueCloses ==
  ASSUME NEW f, f.params \in Nat, NEW text, NEW N, NEW D, Closed(text, {}, N, D),
         <<"function", f.name>> \notin D
  PROVE  Closed(text \o
                (<< <<".text">>, <<".globl", f.name>>, Define(<<"function", f.name>>),
                    <<"PUSHQ", Rbp>>, <<"MOVQ", Rsp, Rbp>> >>
                 \o [i \in 1 .. f.params |-> <<"PUSHQ", Argument(i)>>]
                 \o << <<"SUBQ", Imm((f.total - f.params) * 8), Rsp>> >>
                 \o SaveRegs),
                {}, {}, D \cup {<<"function", f.name>>})
<1> DEFINE t == <<"function", f.name>>
           a == <<".text">>
           b == <<".globl", f.name>>
           c == Define(t)
           d == <<"PUSHQ", Rbp>>
           e == <<"MOVQ", Rsp, Rbp>>
           pushes == [i \in 1 .. f.params |-> <<"PUSHQ", Argument(i)>>]
           sub == << <<"SUBQ", Imm((f.total - f.params) * 8), Rsp>> >>
           E == D \cup {t}
           Fits(code) == Listing(code) /\ Closed(text \o code, {}, {}, E)
<1>1. {".text", ".globl", "PUSHQ", "MOVQ", "SUBQ"} \subseteq Plain
  BY DEF Plain
<1>2. \A op \in {".text", ".globl", "PUSHQ", "MOVQ", "SUBQ"} : \A x, y :
        Reading(<<op>>, {}) /\ Reading(<<op, x>>, {}) /\ Reading(<<op, x, y>>, {})
  BY <1>1, PlainLines
<1>3. Reads(<<a, b>>, {}) /\ Reads(<<d>>, {}) /\ Reads(<<e>>, {}) /\ Reads(sub, {})
  BY <1>2, Reads1, Reads2
<1>4. Reads(pushes, {})
  <2>1. pushes = [i \in 1 .. f.params |-> pushes[i]]
    OBVIOUS
  <2>2. \A i \in 1 .. f.params : Reading(pushes[i], {})
    BY <1>2
  <2> HIDE DEF pushes
  <2> QED
    BY <2>1, <2>2, ReadsFor
<1>5. Reads(SaveRegs, {})
  <2>1. SaveRegs = [i \in 1 .. NumRegs |-> SaveRegs[i]] /\ NumRegs \in Nat
    BY NumRegsAssumption DEF SaveRegs
  <2>2. \A i \in 1 .. NumRegs : Reading(SaveRegs[i], {})
    BY <1>2 DEF SaveRegs
  <2> QED
    BY <2>1, <2>2, ReadsFor
<1> HIDE DEF a, b, c, d, e, pushes, sub, t
<1>6. Closed(text \o <<a, b>>, {}, N, D)
  <2>1. Keeps(<<a, b>>, {}, N, {}, N)
    BY <1>3, ReadsNothing
  <2> QED
    BY <2>1 DEF Keeps
<1>7. Closed((text \o <<a, b>>) \o <<c>>, {}, {}, E)
  <2>1. t \notin D
    BY DEF t
  <2>2. Closed((text \o <<a, b>>) \o <<Define(t)>>, {}, {}, D \cup {t})
    BY <1>6, <2>1, FunctionKeeps
  <2> QED
    BY <2>2 DEF c
<1>8. Listing(text) /\ Listing(<<a, b>>) /\ Listing(<<c>>) /\ Listing(<<a, b, c>>)
  <2>1. <<c>> \in Seq({c}) /\ <<a, b, c>> \in Seq({a, b, c})
    OBVIOUS
  <2> QED
    BY <1>3, <2>1 DEF Reads, Listing, Closed
<1>9. Fits(<<a, b, c>>)
  <2>1. (text \o <<a, b>>) \o <<c>> = text \o (<<a, b>> \o <<c>>)
    BY <1>8, JoinTwice
  <2>2. <<a, b, c>> = <<a, b>> \o <<c>>
    BY ThreeLines
  <2> HIDE DEF E
  <2> QED
    BY <1>7, <1>8, <2>1, <2>2
<1>10. \A code, more : Fits(code) /\ Reads(more, {}) => Fits(code \o more)
  <2> HIDE DEF E
  <2> QED
    BY <1>8, ClosedOn
<1> HIDE DEF Fits
<1>11. Fits(<<a, b, c, d>>)
  <2>1. Fits(<<a, b, c>> \o <<d>>)
    BY <1>3, <1>9, <1>10
  <2>2. <<a, b, c, d>> = <<a, b, c>> \o <<d>>
    BY FourLines
  <2> QED
    BY <2>1, <2>2
<1>12. Fits(<<a, b, c, d, e>>)
  <2>1. Fits(<<a, b, c, d>> \o <<e>>)
    BY <1>3, <1>10, <1>11
  <2>2. <<a, b, c, d, e>> = <<a, b, c, d>> \o <<e>>
    BY FiveLines
  <2> QED
    BY <2>1, <2>2
<1>13. Fits(<<a, b, c, d, e>> \o pushes)
  BY <1>4, <1>10, <1>12
<1>14. Fits(<<a, b, c, d, e>> \o pushes \o sub)
  BY <1>3, <1>10, <1>13
<1>15. Fits(<<a, b, c, d, e>> \o pushes \o sub \o SaveRegs)
  BY <1>5, <1>10, <1>14
<1> QED
  BY <1>15 DEF Fits, E, a, b, c, d, e, t, pushes, sub

(* The epilogue. *)
LEMMA EpilogueKeeps ==
  ASSUME NEW W, NEW N, NEW t \in W, t[1] # "function"
  PROVE  Keeps(<<Define(t)>> \o RestoreRegs
               \o << <<"MOVQ", Rbp, Rsp>>, <<"POPQ", Rbp>>, <<"RET">> >>,
               W, N, W \ {t}, N \cup {t})
<1> DEFINE last == << <<"MOVQ", Rbp, Rsp>>, <<"POPQ", Rbp>>, <<"RET">> >>
           first == <<Define(t)>> \o RestoreRegs
           V == W \ {t}
           M == N \cup {t}
<1>1. {"MOVQ", "POPQ", "RET"} \subseteq Plain
  BY DEF Plain
<1>2. Reads(last, V \cup M)
  BY <1>1, PlainLines, Reads3
<1>3. Reads(RestoreRegs, V \cup M)
  <2>1. RestoreRegs = [i \in 1 .. NumRegs |-> RestoreRegs[i]] /\ NumRegs \in Nat
    BY NumRegsAssumption DEF RestoreRegs
  <2>2. \A i \in 1 .. NumRegs : Reading(RestoreRegs[i], V \cup M)
    BY <1>1, PlainLines DEF RestoreRegs
  <2> QED
    BY <2>1, <2>2, ReadsFor
<1>4. Keeps(<<Define(t)>>, W, N, V, M)
  BY DefineKeeps
<1> HIDE DEF last, V, M
<1>5. Keeps(first, W, N, V, M)
  BY <1>3, <1>4, ThenReads
<1> HIDE DEF first
<1>6. Keeps(first \o last, W, N, V, M)
  BY <1>2, <1>5, ThenReads
<1> QED
  BY <1>6 DEF first, last, V, M

(***************************************************************************)
(* What each move of the walk does to the labels that are owed.            *)
(***************************************************************************)

(* What the kinds owe, and which of them owe nothing. *)
LEMMA PendingFacts ==
  ASSUME NEW f
  PROVE  /\ Pending(f, 0) = {} /\ Back(f, 0) = {}
         /\ f.node.kind \notin {"TERNARY1", "IF_ELSE", "FOR", "FUNCTION"} =>
              \A m : Pending(f, m) = {} /\ Back(f, m) = {}
         /\ f.node.kind # "FOR" => \A m : Back(f, m) = {}
<1>1. f.node.kind \notin {"TERNARY1", "IF_ELSE", "FOR", "FUNCTION"} =>
        \A m : Pending(f, m) = {}
  BY DEF Pending
<1>2. Pending(f, 0) = {}
  <2>1. 0 # 1 /\ 0 # 2 /\ 0 # 3 /\ 0 # 4
    OBVIOUS
  <2> QED
    BY <2>1 DEF Pending
<1> QED
  BY <1>1, <1>2 DEF Back

(* They depend on the node and the labels alone. *)
LEMMA SamePending ==
  ASSUME NEW f, NEW g, f.node = g.node, f.lab = g.lab, NEW m
  PROVE  Pending(f, m) = Pending(g, m) /\ Back(f, m) = Back(g, m)
BY DEF Pending, Back

(* The stack after a call. *)
LEMMA PushFacts ==
  ASSUME IInv, NEW f \in Frame, Call(f), NEW n, n = Len(stack)
  PROVE  /\ Len(stack') = n + 1 /\ DOMAIN stack' = 1 .. n + 1
         /\ \A i \in 1 .. n - 1 : stack'[i] = stack[i]
         /\ stack'[n] = f
         /\ stack'[n + 1] = Activation(Operands(f.node)[f.next + 1])
<1> DEFINE s == [stack EXCEPT ![Len(stack)] = f]
           a == Activation(Operands(f.node)[f.next + 1])
<1>1. stack \in Seq(Frame) /\ Len(stack) \in Nat \ {0} /\ Len(stack) \in 1 .. Len(stack)
  BY TopFacts
<1>2. /\ s \in Seq(Frame) /\ Len(s) = Len(stack)
      /\ \A j \in 1 .. Len(stack) : s[j] = IF j = Len(stack) THEN f ELSE stack[j]
  BY <1>1, ExceptSeq
<1>3. stack' = Append(s, a)
  BY DEF Call
<1> HIDE DEF s, a
<1>4. s \in Seq(Frame \cup {a}) /\ a \in Frame \cup {a}
  BY <1>2, SeqMonotonic
<1>5. /\ Append(s, a) \in Seq(Frame \cup {a})
      /\ Len(Append(s, a)) = Len(s) + 1
      /\ \A j \in 1 .. Len(s) : Append(s, a)[j] = s[j]
      /\ Append(s, a)[Len(s) + 1] = a
  BY <1>4, AppendProperties
<1>6. DOMAIN Append(s, a) = 1 .. Len(s) + 1
  BY <1>5
<1>7. /\ Len(stack') = n + 1 /\ DOMAIN stack' = 1 .. n + 1
      /\ \A j \in 1 .. n : stack'[j] = s[j]
      /\ stack'[n + 1] = a
  BY <1>2, <1>3, <1>5, <1>6
<1>8. \A i \in 1 .. n - 1 : i \in 1 .. n /\ i # n
  BY <1>1
<1> QED
  BY <1>1, <1>2, <1>7, <1>8 DEF a

(* The stack after a return. *)
LEMMA PopFacts ==
  ASSUME IInv, Kind # "PROGRAM", NEW f \in Frame, ReturnTo(f), NEW n, n = Len(stack)
  PROVE  /\ n \in Nat /\ n > 1
         /\ Len(stack') = n - 1 /\ DOMAIN stack' = 1 .. n - 1
         /\ \A i \in 1 .. n - 2 : stack'[i] = stack[i]
         /\ stack'[n - 1] = f
<1> DEFINE s == SubSeq(stack, 1, n - 1)
<1>1. stack \in Seq(Frame) /\ n \in Nat \ {0} /\ n - 1 \in 1 .. n - 1
  BY TopFacts, CallerFacts
<1>2. n > 1 /\ n - 1 \in Nat
  BY <1>1
<1>3. s \in Seq(Frame) /\ Len(s) = n - 1 /\ \A i \in 1 .. n - 1 : s[i] = stack[i]
  <2>1. 1 \in 1 .. Len(stack) + 1 /\ n - 1 \in 1 - 1 .. Len(stack)
    BY <1>1, <1>2
  <2>2. /\ s \in Seq(Frame)
        /\ Len(s) = IF 1 <= n - 1 THEN (n - 1) - 1 + 1 ELSE 0
        /\ \A i \in 1 .. (n - 1) - 1 + 1 : s[i] = stack[1 + i - 1]
    BY <1>1, <2>1, SubSeqProperties
  <2> HIDE DEF s
  <2> QED
    BY <1>1, <1>2, <2>2
<1>4. stack' = [s EXCEPT ![n - 1] = f]
  BY DEF ReturnTo
<1> HIDE DEF s
<1>5. /\ stack' \in Seq(Frame) /\ Len(stack') = n - 1
      /\ \A j \in 1 .. n - 1 : stack'[j] = IF j = n - 1 THEN f ELSE s[j]
  BY <1>1, <1>3, <1>4, ExceptSeq
<1>6. \A i \in 1 .. n - 2 : i \in 1 .. n - 1 /\ i # n - 1
  BY <1>1
<1> QED
  BY <1>1, <1>2, <1>3, <1>5, <1>6

(* What a handler owes while it waits for an operand. *)
LEMMA PushOwes ==
  ASSUME IInv, NEW f \in Frame, Call(f)
  PROVE  /\ Owed' = OuterOwed \cup Pending(f, f.next + 1)
         /\ Backs' = OuterBacks \cup Back(f, f.next + 1)
         /\ Apart /\ OuterOwed \cap Pending(f, f.next + 1) = {} => Apart'
<1>1. PICK n \in Nat \ {0} : n = Len(stack)
  BY TopFacts
<1>2. /\ Len(stack') = n + 1
      /\ \A i \in 1 .. n - 1 : stack'[i] = stack[i]
      /\ stack'[n] = f
      /\ stack'[n + 1] = Activation(Operands(f.node)[f.next + 1])
  BY <1>1, PushFacts
<1>3. Top' = Activation(Operands(f.node)[f.next + 1]) /\ Top'.next = 0
  BY <1>1, <1>2 DEF Top, Activation
<1>4. Pending(Top', Top'.next) = {} /\ Back(Top', Top'.next) = {}
  BY <1>3, PendingFacts
<1>5. \A i : i \in 1 .. Len(stack') - 1 <=> i \in 1 .. n - 1 \/ i = n
  BY <1>1, <1>2
<1> DEFINE P(i) == Pending(stack[i], stack[i].next + 1)
           Q(i) == Pending(stack'[i], stack'[i].next + 1)
           B(i) == Back(stack[i], stack[i].next + 1)
           C(i) == Back(stack'[i], stack'[i].next + 1)
<1>6. \A i \in 1 .. n - 1 : Q(i) = P(i) /\ C(i) = B(i)
  BY <1>2
<1>7. Q(n) = Pending(f, f.next + 1) /\ C(n) = Back(f, f.next + 1)
  BY <1>2
<1>8. OuterOwed = UNION {P(i) : i \in 1 .. n - 1}
      /\ OuterBacks = UNION {B(i) : i \in 1 .. n - 1}
  BY <1>1 DEF OuterOwed, OuterBacks
<1>9. OuterOwed' = UNION {Q(i) : i \in 1 .. Len(stack') - 1}
      /\ OuterBacks' = UNION {C(i) : i \in 1 .. Len(stack') - 1}
  BY DEF OuterOwed, OuterBacks
<1>10. Apart => /\ \A i, k \in 1 .. n - 1 : i # k => P(i) \cap P(k) = {}
  BY <1>1 DEF Apart
<1> HIDE DEF P, Q, B, C
<1>11. OuterOwed' = OuterOwed \cup Pending(f, f.next + 1)
  BY <1>5, <1>6, <1>7, <1>8, <1>9
<1>12. OuterBacks' = OuterBacks \cup Back(f, f.next + 1)
  BY <1>5, <1>6, <1>7, <1>8, <1>9
<1>13. ASSUME Apart, OuterOwed \cap Pending(f, f.next + 1) = {}
       PROVE  Apart'
  <2>1. \A i \in 1 .. n - 1 : Q(i) \subseteq OuterOwed
    BY <1>6, <1>8
  <2>2. ASSUME NEW i \in 1 .. Len(stack') - 1, NEW k \in 1 .. Len(stack') - 1, i # k
        PROVE  Q(i) \cap Q(k) = {}
    <3>1. CASE i \in 1 .. n - 1 /\ k \in 1 .. n - 1
      BY <1>6, <1>10, <1>13, <2>2, <3>1
    <3>2. CASE i \in 1 .. n - 1 /\ k = n
      BY <1>7, <1>13, <2>1, <3>2
    <3>3. CASE i = n /\ k \in 1 .. n - 1
      BY <1>7, <1>13, <2>1, <3>3
    <3> QED
      BY <1>5, <2>2, <3>1, <3>2, <3>3
  <2>3. OuterOwed' \cap Pending(Top', Top'.next) = {}
    BY <1>4
  <2> QED
    BY <2>2, <2>3 DEF Apart, Q
<1> QED
  BY <1>4, <1>11, <1>12, <1>13 DEF Owed, Backs

(* What a handler owes once an operand has returned is what it owed while  *)
(* it waited.                                                              *)
LEMMA PopOwes ==
  ASSUME IInv, Kind # "PROGRAM", NEW f \in Frame, ReturnTo(f),
         f.node = Caller.node, f.lab = Caller.lab, f.next = Caller.next + 1
  PROVE  /\ Owed' = OuterOwed /\ Backs' = OuterBacks
         /\ Apart => Apart'
<1>1. PICK n \in Nat : n = Len(stack)
  BY TopFacts
<1>2. /\ n > 1 /\ Len(stack') = n - 1
      /\ \A i \in 1 .. n - 2 : stack'[i] = stack[i]
      /\ stack'[n - 1] = f
  BY <1>1, PopFacts
<1>3. Top' = f /\ Caller = stack[n - 1]
  BY <1>1, <1>2 DEF Top, Caller
<1>4. \A i : i \in 1 .. n - 1 <=> i \in 1 .. n - 2 \/ i = n - 1
  BY <1>1, <1>2
<1>5. \A i \in 1 .. n - 2 : i # n - 1
  BY <1>1, <1>2
<1> DEFINE P(i) == Pending(stack[i], stack[i].next + 1)
           Q(i) == Pending(stack'[i], stack'[i].next + 1)
           B(i) == Back(stack[i], stack[i].next + 1)
           C(i) == Back(stack'[i], stack'[i].next + 1)
<1>6. \A i \in 1 .. n - 2 : Q(i) = P(i) /\ C(i) = B(i)
  BY <1>2
<1>7. Pending(Top', Top'.next) = P(n - 1) /\ Back(Top', Top'.next) = B(n - 1)
  <2>1. \A m : Pending(f, m) = Pending(Caller, m) /\ Back(f, m) = Back(Caller, m)
    BY SamePending
  <2> QED
    BY <1>3, <2>1
<1>8. OuterOwed = UNION {P(i) : i \in 1 .. n - 1}
      /\ OuterBacks = UNION {B(i) : i \in 1 .. n - 1}
  BY <1>1 DEF OuterOwed, OuterBacks
<1>9. OuterOwed' = UNION {Q(i) : i \in 1 .. n - 2}
      /\ OuterBacks' = UNION {C(i) : i \in 1 .. n - 2}
  <2>1. Len(stack') - 1 = n - 2
    BY <1>1, <1>2
  <2> QED
    BY <2>1 DEF OuterOwed, OuterBacks
<1>10. Apart => \A i, k \in 1 .. n - 1 : i # k => P(i) \cap P(k) = {}
  BY <1>1 DEF Apart
<1> HIDE DEF P, B, C
<1>11. Owed' = OuterOwed
  <2> HIDE DEF Q
  <2> QED
    BY <1>4, <1>6, <1>7, <1>8, <1>9 DEF Owed
<1>12. Backs' = OuterBacks
  <2> HIDE DEF Q
  <2> QED
    BY <1>4, <1>6, <1>7, <1>8, <1>9 DEF Backs
<1>13. ASSUME Apart
       PROVE  Apart'
  <2>1. ASSUME NEW i \in 1 .. n - 2, NEW k \in 1 .. n - 2, i # k
        PROVE  Q(i) \cap Q(k) = {}
    <3> HIDE DEF Q
    <3> QED
      BY <1>4, <1>6, <1>10, <1>13, <2>1
  <2>2. \A i \in 1 .. n - 2 : Q(i) \cap P(n - 1) = {}
    <3> HIDE DEF Q
    <3> QED
      BY <1>4, <1>5, <1>6, <1>10, <1>13
  <2>3. OuterOwed' \cap Pending(Top', Top'.next) = {}
    <3> HIDE DEF Q
    <3> QED
      BY <1>7, <1>9, <2>2
  <2>4. Len(stack') - 1 = n - 2
    BY <1>1, <1>2
  <2> QED
    BY <2>1, <2>3, <2>4 DEF Apart
<1> QED
  BY <1>11, <1>12, <1>13

(***************************************************************************)
(* The labels that are used up.                                            *)
(***************************************************************************)

(* The labels with the numbers from l to m. *)
Fresh(l, m) == {Label(k) : k \in l .. m} \cup {StringLabel(k) : k \in l .. m}

(* What is owed is used up, and has no number beyond the counter. *)
LEMMA ReservedFacts ==
  ASSUME IInv
  PROVE  /\ cur_label \in Int
         /\ \A k \in Nat : Fresh(cur_label + 1, cur_label + k) \cap Reserved = {}
<1>1. cur_label \in Int
  BY DEF IInv, TypeOK
<1>2. ASSUME NEW k \in Nat, NEW i \in cur_label + 1 .. cur_label + k
      PROVE  Label(i) \notin Reserved /\ StringLabel(i) \notin Reserved
  <2>1. i \in Int /\ i \notin Numbers
    BY <1>1, <1>2 DEF Numbers
  <2>2. Label(i) \notin Reserved
    BY <2>1 DEF Reserved, Label, StringLabel
  <2>3. StringLabel(i) \notin Reserved
    BY <2>1 DEF Reserved, Label, StringLabel
  <2> QED
    BY <2>2, <2>3
<1> QED
  BY <1>1, <1>2 DEF Fresh

(* They only become more. *)
LEMMA ReservedGrows ==
  ASSUME IInv, stack[1].next \in Nat, stack'[1].next \in Nat,
         stack'[1].node = stack[1].node, Begun <= Begun',
         NEW k \in Nat, cur_label' = cur_label + k
  PROVE  Reserved \cup Fresh(cur_label + 1, cur_label + k) \subseteq Reserved'
<1>1. cur_label \in Int
  BY DEF IInv, TypeOK
<1>2. Numbers \subseteq Numbers' /\ cur_label + 1 .. cur_label + k \subseteq Numbers'
  BY <1>1 DEF Numbers
<1>3. Begun \in Nat /\ Begun' \in Nat
  BY DEF Begun
<1>4. \A i \in 1 .. Begun : i \in 1 .. Begun'
  BY <1>3
<1>5. Declared("FUNCTION") \subseteq Declared("FUNCTION")'
      /\ Declared("DATA") \subseteq Declared("DATA")'
  BY <1>4 DEF Declared
<1>6. Reserved \subseteq Reserved'
  BY <1>2, <1>5 DEF Reserved
<1>7. Fresh(cur_label + 1, cur_label + k) \subseteq Reserved'
  BY <1>2 DEF Reserved, Fresh
<1> QED
  BY <1>6, <1>7

(* A step that keeps its promises. *)
LEMMA StepCloses ==
  ASSUME Closed(outfile, Owed, Backs, Reserved),
         NEW T, T \cap Reserved = {}, NEW code, NEW V, NEW M,
         Emit(code), Keeps(code, Owed \cup T, Backs, V, M),
         Owed' = V, Backs' \subseteq M, Reserved \cup T \subseteq Reserved'
  PROVE  Closed(outfile', Owed', Backs', Reserved')
<1>1. Closed(outfile, Owed \cup T, Backs, Reserved \cup T)
  BY Promised
<1>2. Closed(outfile \o code, V, M, Reserved \cup T)
  BY <1>1 DEF Keeps
<1>3. Closed(outfile \o code, V, Backs', Reserved')
  BY <1>2, ClosedWeakens
<1> QED
  BY <1>3 DEF Emit

(* A step that prints nothing. *)
LEMMA EmitNothing ==
  ASSUME LInv, UNCHANGED outfile
  PROVE  Emit(<<>>)
<1>1. PICK S : outfile \in Seq(S)
  BY DEF LInv, Closed, Listing
<1>2. outfile \o <<>> = outfile
  BY <1>1, ConcatEmptySeq
<1> QED
  BY <1>2 DEF Emit

(***************************************************************************)
(* The steps of statements and expressions, which are inside a function.   *)
(***************************************************************************)

(* The program and the function that is being compiled. *)
LEMMA Inner ==
  ASSUME IInv, LInv, Kind \notin DeclKinds
  PROVE  /\ Len(stack) \in Nat /\ Len(stack) > 2 /\ Inside
         /\ stack[1].next \in Nat
         /\ stack[2].node.kind = "FUNCTION"
         /\ Begun = stack[1].next + 1
<1>1. PICK n \in Nat \ {0} : n = Len(stack)
  BY TopFacts
<1>2. n # 1 /\ n # 2
  BY <1>1, DeclarationPlace DEF DeclKinds
<1>3. n > 2
  BY <1>2
<1>4. Inside
  BY <1>1, <1>3 DEF Inside
<1>5. stack[1] \in Frame
  BY <1>1, <1>3, TopFacts, ElementOfSeq
<1> QED
  BY <1>1, <1>3, <1>4, <1>5 DEF LInv, Begun, Frame

(* As long as the stack keeps them, the labels that are used up stay so,   *)
(* and new numbers are added.                                              *)
LEMMA InnerReserved ==
  ASSUME IInv, LInv, Kind \notin DeclKinds,
         Len(stack') \in Nat, Len(stack') > 1,
         stack'[1] = stack[1], stack'[2].node = stack[2].node,
         Len(stack') = 2 => stack'[2].next # 0,
         NEW k \in Nat, cur_label' = cur_label + k
  PROVE  /\ Reserved \cup Fresh(cur_label + 1, cur_label + k) \subseteq Reserved'
         /\ Inside' => stack'[2].node.kind = "FUNCTION"
<1>1. stack[2].node.kind = "FUNCTION" /\ stack[1].next \in Nat
      /\ Begun = stack[1].next + 1
  BY Inner
<1>2. Inside'
  <2>1. Len(stack') = 2 => Kind' = "FUNCTION" /\ Top'.next # 0
    BY <1>1 DEF Kind, Top
  <2>2. PICK m \in Nat : m = Len(stack')
    OBVIOUS
  <2>3. m = 2 \/ m > 2
    BY <2>2
  <2> QED
    BY <2>1, <2>2, <2>3 DEF Inside
<1>3. Begun' = stack[1].next + 1
  BY <1>2 DEF Begun
<1>4. Begun <= Begun'
  BY <1>1, <1>3
<1> QED
  BY <1>1, <1>4, ReservedGrows

(* A handler calls the next one. *)
LEMMA PushLabels ==
  ASSUME IInv, LInv, Kind \notin DeclKinds, Continue,
         NEW f \in Frame, f.node = Top.node, f.next = Top.next, Call(f),
         NEW k \in Nat, cur_label' = cur_label + k,
         NEW T, T \subseteq Fresh(cur_label + 1, cur_label + k),
         NEW code, Emit(code),
         Pending(f, f.next + 1) \subseteq Pending(Top, Top.next) \cup T,
         NEW M, OuterBacks \cup Back(f, f.next + 1) \subseteq M,
         Keeps(code, Owed \cup T, Backs, OuterOwed \cup Pending(f, f.next + 1), M)
  PROVE  LInv'
<1>1. PICK n \in Nat : n = Len(stack) /\ n > 2
  BY Inner
<1>2. /\ Len(stack') = n + 1
      /\ \A i \in 1 .. n - 1 : stack'[i] = stack[i]
  BY <1>1, PushFacts
<1>3. 1 \in 1 .. n - 1 /\ 2 \in 1 .. n - 1 /\ n + 1 > 1 /\ n + 1 # 2 /\ n + 1 \in Nat
  BY <1>1
<1>4. stack'[1] = stack[1] /\ stack'[2] = stack[2]
  BY <1>2, <1>3
<1>5. /\ Reserved \cup Fresh(cur_label + 1, cur_label + k) \subseteq Reserved'
      /\ Inside' => stack'[2].node.kind = "FUNCTION"
  BY <1>2, <1>3, <1>4, InnerReserved
<1>6. T \cap Reserved = {} /\ Reserved \cup T \subseteq Reserved'
  BY <1>5, ReservedFacts
<1>7. /\ Owed' = OuterOwed \cup Pending(f, f.next + 1)
      /\ Backs' = OuterBacks \cup Back(f, f.next + 1)
      /\ Apart /\ OuterOwed \cap Pending(f, f.next + 1) = {} => Apart'
  BY PushOwes
<1>8. Apart'
  <2>1. OuterOwed \subseteq Reserved /\ Apart
    BY DEF LInv, Closed, Owed
  <2>2. OuterOwed \cap Pending(Top, Top.next) = {}
    BY DEF LInv, Apart
  <2> QED
    BY <1>6, <1>7, <2>1, <2>2
<1>9. Closed(outfile, Owed, Backs, Reserved)
  BY DEF LInv
<1>10. Closed(outfile', Owed', Backs', Reserved')
  BY <1>6, <1>7, <1>9, StepCloses
<1>11. status' # "done"
  BY DEF Continue, Running
<1> QED
  BY <1>5, <1>8, <1>10, <1>11 DEF LInv

(* A handler returns to its caller. *)
LEMMA PopLabels ==
  ASSUME IInv, LInv, Kind \notin DeclKinds, Continue,
         NEW f \in Frame, f.node = Caller.node, f.lab = Caller.lab,
         f.next = Caller.next + 1, ReturnTo(f),
         NEW k \in Nat, cur_label' = cur_label + k,
         NEW T, T \subseteq Fresh(cur_label + 1, cur_label + k),
         NEW code, Emit(code),
         NEW M, OuterBacks \subseteq M,
         Keeps(code, Owed \cup T, Backs, OuterOwed, M)
  PROVE  LInv'
<1>1. PICK n \in Nat : n = Len(stack) /\ n > 2
  BY Inner
<1>2. Kind # "PROGRAM" /\ Caller \in Frame
  <2>1. Kind # "PROGRAM"
    BY DEF DeclKinds
  <2> QED
    BY <2>1, CallerFacts
<1>3. /\ Len(stack') = n - 1
      /\ \A i \in 1 .. n - 2 : stack'[i] = stack[i]
      /\ stack'[n - 1] = f
  BY <1>1, <1>2, PopFacts
<1>4. 1 \in 1 .. n - 2 /\ n - 1 > 1 /\ n - 1 \in Nat
  BY <1>1
<1>5. stack'[1] = stack[1]
  BY <1>3, <1>4
<1>6. stack'[2].node = stack[2].node
  <2>1. CASE n - 1 = 2
    BY <1>1, <1>3, <2>1 DEF Caller
  <2>2. CASE n - 1 # 2
    <3>1. 2 \in 1 .. n - 2
      BY <1>1, <2>2
    <3> QED
      BY <1>3, <3>1
  <2> QED
    BY <2>1, <2>2
<1>7. n - 1 = 2 => stack'[2].next # 0
  BY <1>2, <1>3 DEF Frame
<1>8. /\ Reserved \cup Fresh(cur_label + 1, cur_label + k) \subseteq Reserved'
      /\ Inside' => stack'[2].node.kind = "FUNCTION"
  BY <1>3, <1>4, <1>5, <1>6, <1>7, InnerReserved
<1>9. T \cap Reserved = {} /\ Reserved \cup T \subseteq Reserved'
  BY <1>8, ReservedFacts
<1>10. Owed' = OuterOwed /\ Backs' = OuterBacks /\ (Apart => Apart')
  BY <1>2, PopOwes
<1>11. Closed(outfile, Owed, Backs, Reserved) /\ Apart
  BY DEF LInv
<1>12. Closed(outfile', Owed', Backs', Reserved')
  BY <1>9, <1>10, <1>11, StepCloses
<1>13. status' # "done"
  BY DEF Continue, Running
<1> QED
  BY <1>8, <1>10, <1>11, <1>12, <1>13 DEF LInv

(* The two ways to return. *)
LEMMA ReturnLabels ==
  ASSUME IInv, LInv, Kind \notin DeclKinds, Continue,
         Return \/ \E r : ReturnReg(r) /\ r \in Int,
         NEW k \in Nat, cur_label' = cur_label + k,
         NEW T, T \subseteq Fresh(cur_label + 1, cur_label + k),
         NEW code, Emit(code),
         NEW M, OuterBacks \subseteq M,
         Keeps(code, Owed \cup T, Backs, OuterOwed, M)
  PROVE  LInv'
<1>1. Caller \in Frame
  <2>1. Kind # "PROGRAM"
    BY DEF DeclKinds
  <2> QED
    BY <2>1, CallerFacts
<1>2. CASE Return
  <2> DEFINE f == [Caller EXCEPT !.next = @ + 1]
  <2>1. f \in Frame /\ f.node = Caller.node /\ f.lab = Caller.lab
        /\ f.next = Caller.next + 1
    BY <1>1 DEF Frame
  <2>2. ReturnTo(f)
    BY <1>2 DEF Return
  <2> HIDE DEF f
  <2> QED
    BY <2>1, <2>2, PopLabels
<1>3. ASSUME NEW r \in Int, ReturnReg(r)
      PROVE  LInv'
  <2> DEFINE f == [Caller EXCEPT !.next = @ + 1, !.held = Append(@, r)]
  <2>1. Caller.held \in Seq(Int) /\ Caller.next \in Nat
    BY <1>1 DEF Frame
  <2>2. Append(Caller.held, r) \in Seq(Int) /\ Caller.next + 1 \in Nat
    BY <1>3, <2>1
  <2>3. f \in Frame /\ f.node = Caller.node /\ f.lab = Caller.lab
        /\ f.next = Caller.next + 1
    BY <1>1, <2>2 DEF Frame
  <2>4. ReturnTo(f)
    BY <1>3 DEF ReturnReg
  <2> HIDE DEF f
  <2> QED
    BY <2>3, <2>4, PopLabels
<1> QED
  BY <1>2, <1>3

(***************************************************************************)
(* Expressions.                                                            *)
(***************************************************************************)

(* Short texts that end in a label. *)
LEMMA DefinedLast ==
  ASSUME NEW W, NEW N, NEW t \in W, t[1] # "function",
         NEW a, Reading(a, W \cup N)
  PROVE  /\ Keeps(<<a, Define(t)>>, W, N, W \ {t}, N \cup {t})
         /\ \A b : Reading(b, W \cup N) =>
              Keeps(<<a, b, Define(t)>>, W, N, W \ {t}, N \cup {t})
<1> DEFINE d == Define(t)
<1>1. d = Define(t)
  OBVIOUS
<1> HIDE DEF d
<1>2. Keeps(<<a, d>>, W, N, W \ {t}, N \cup {t})
  <2> DEFINE code == <<a, d>>
  <2>1. code \in Seq({a, d}) /\ DOMAIN code = 1 .. 2 /\ code[1] = a /\ code[2] = d
    OBVIOUS
  <2> HIDE DEF code
  <2>2. Listing(code) /\ 2 \in DOMAIN code
    BY <2>1 DEF Listing
  <2>3. \A i \in DOMAIN code \ {2} : Reading(code[i], W \cup N)
    <3>1. \A i \in 1 .. 2 : i = 1 \/ i = 2
      OBVIOUS
    <3> QED
      BY <2>1, <3>1
  <2>4. Keeps(code, W, N, W \ {t}, N \cup {t})
    BY <1>1, <2>1, <2>2, <2>3, OneDefined
  <2> QED
    BY <2>4 DEF code
<1>3. ASSUME NEW b, Reading(b, W \cup N)
      PROVE  Keeps(<<a, b, d>>, W, N, W \ {t}, N \cup {t})
  <2> DEFINE code == <<a, b, d>>
  <2>1. code \in Seq({a, b, d}) /\ DOMAIN code = 1 .. 3
    OBVIOUS
  <2>2. code[1] = a /\ code[2] = b /\ code[3] = d
    OBVIOUS
  <2> HIDE DEF code
  <2>3. Listing(code) /\ 3 \in DOMAIN code
    BY <2>1 DEF Listing
  <2>4. \A i \in DOMAIN code \ {3} : Reading(code[i], W \cup N)
    <3>1. \A i \in 1 .. 3 : i = 1 \/ i = 2 \/ i = 3
      OBVIOUS
    <3> QED
      BY <1>3, <2>1, <2>2, <3>1
  <2>5. Keeps(code, W, N, W \ {t}, N \cup {t})
    BY <1>1, <2>2, <2>3, <2>4, OneDefined
  <2> QED
    BY <2>5 DEF code
<1> QED
  BY <1>1, <1>2, <1>3

Branching == {"TERNARY1", "IF_ELSE", "FOR", "FUNCTION"}

(* A handler that owes nothing prints a text that uses no new label and    *)
(* returns.                                                                *)
LEMMA QuietReturn ==
  ASSUME IInv, LInv, Kind \notin DeclKinds \cup Branching, Continue,
         Return \/ \E r : ReturnReg(r) /\ r \in Int,
         cur_label' = cur_label, NEW code, Emit(code), Reads(code, Owed)
  PROVE  LInv'
<1>1. Owed = OuterOwed /\ Backs = OuterBacks
  BY PendingFacts DEF Owed, Backs, Kind, Branching
<1>2. Reads(code, (Owed \cup {}) \cup Backs)
  BY DEF Reads
<1>3. Keeps(code, Owed \cup {}, Backs, OuterOwed, OuterBacks)
  <2>1. Keeps(code, Owed \cup {}, Backs, Owed \cup {}, Backs)
    BY <1>2, ReadsKeeps
  <2> QED
    BY <1>1, <2>1
<1>4. cur_label' = cur_label + 0 /\ 0 \in Nat
  BY ReservedFacts
<1>5. {} \subseteq Fresh(cur_label + 1, cur_label + 0)
  OBVIOUS
<1> QED
  BY <1>3, <1>4, <1>5, ReturnLabels

(* Lines without labels use no label that is not owed. *)
LEMMA ReadsOwed ==
  ASSUME NEW code, Reads(code, {})
  PROVE  Reads(code, Owed)
BY DEF Reads

(* The kinds of expressions that owe nothing. *)
LEMMA QuietKinds ==
  /\ (KeepsLeft \cup KeepsRight \cup Unary \cup Step \cup Leaf) \cap (DeclKinds \cup Branching) = {}
  /\ {"ASSIGN", "FCALL", "EXPONENT"} \cap (DeclKinds \cup Branching) = {}
  /\ {"TERNARY1", "IF_ELSE", "FOR"} \cap DeclKinds = {}
  /\ {"NONE", "BLOCK", "EXPR", "RETURN", "DECL", "PRINT"} \cap (DeclKinds \cup Branching) = {}
BY DEF KeepsLeft, KeepsRight, Unary, Step, Leaf, Literal, Comparison, DeclKinds,
       Branching

(* The register an operator returns is a number. *)
LEMMA KeepsNumber ==
  ASSUME IInv, Kind \in ExprKinds, NEW keep, keep = 1 \/ keep = 2,
         Len(Operands(Top.node)) >= keep, Kind # "TERNARY1", Evaluated
  PROVE  Top.held[keep] \in Int
<1>1. Len(Top.held) = Len(Operands(Top.node)) /\ Len(Top.held) \in Nat
  BY TopFacts DEF Evaluated, TopCount, Kind
<1>2. keep \in DOMAIN Top.held /\ Top.held \in Seq(Int)
  BY <1>1, TopFacts
<1> QED
  BY <1>2

(* Comparisons and negations create two labels and define them at once;    *)
(* the other operators use none.                                           *)
LEMMA OperatorsLabels ==
  ASSUME IInv, LInv,
         FinishLeft \/ FinishRight \/ FinishUnary \/ FinishStep \/ FinishAssign
  PROVE  LInv'
<1>1. WellShaped(Top.node)
  BY TopFacts, Shape
<1>2. ASSUME Kind \in KeepsLeft \cup KeepsRight \cup Unary,
             NEW keep, keep = 1 \/ keep = 2, Len(Operands(Top.node)) >= keep,
             NEW k \in Nat, k = (IF Kind \in Flagged THEN 2 ELSE 0),
             FinishWith(keep, OperatorCode(Top.node, Top.held, cur_label + 1), k)
      PROVE  LInv'
  <2>1. PICK l \in Int : l = cur_label + 1
    BY ReservedFacts
  <2>2. PICK T : T = OperatorLabels(Kind, l)
    OBVIOUS
  <2>3. T \subseteq Fresh(cur_label + 1, cur_label + k)
    <3>1. CASE Kind \in Flagged
      <4>1. T = {Label(l), Label(l + 1)} /\ k = 2
        BY <1>2, <2>2, <3>1 DEF OperatorLabels
      <4>2. l \in cur_label + 1 .. cur_label + k /\ l + 1 \in cur_label + 1 .. cur_label + k
        BY <2>1, <4>1, ReservedFacts
      <4> QED
        BY <4>1, <4>2 DEF Fresh
    <3>2. CASE Kind \notin Flagged
      BY <2>2, <3>2 DEF OperatorLabels
    <3> QED
      BY <3>1, <3>2
  <2>4. T \cap Owed = {}
    BY <2>3, ReservedFacts DEF LInv, Closed
  <2>5. Kind \notin DeclKinds \cup Branching
    BY <1>2, QuietKinds
  <2>6. Owed = OuterOwed /\ Backs = OuterBacks
    BY <2>5, PendingFacts DEF Owed, Backs, Kind, Branching
  <2>7. PICK code : code = OperatorCode(Top.node, Top.held, cur_label + 1)
    OBVIOUS
  <2>8. Keeps(code, Owed \cup T, Backs, Owed, Backs \cup T)
    <3>1. Keeps(OperatorCode(Top.node, Top.held, l), Owed \cup OperatorLabels(Top.node.kind, l),
                Backs, Owed, Backs \cup OperatorLabels(Top.node.kind, l))
      BY <1>2, <2>2, <2>4, OperatorKeeps DEF Kind
    <3> QED
      BY <2>1, <2>2, <2>7, <3>1 DEF Kind
  <2>9. /\ Continue /\ Emit(code) /\ cur_label' = cur_label + k
        /\ ReturnReg(Top.held[keep]) /\ Evaluated
    BY <1>2, <2>7 DEF FinishWith
  <2>10. Top.held[keep] \in Int
    BY <1>2, <2>9, KindFacts, KeepsNumber
  <2>11. OuterBacks \subseteq Backs \cup T
    BY <2>6
  <2>12. Keeps(code, Owed \cup T, Backs, OuterOwed, Backs \cup T)
    BY <2>6, <2>8
  <2> QED
    BY <1>2, <2>3, <2>5, <2>9, <2>10, <2>11, <2>12, ReturnLabels
<1>3. ASSUME Kind \in Step \cup {"ASSIGN"}, NEW code, Reads(code, {}),
             FinishWith(1, code, 0)
      PROVE  LInv'
  <2>1. Len(Operands(Top.node)) >= 1
    BY <1>1, <1>3 DEF WellShaped, Kind
  <2>2. /\ Continue /\ Emit(code) /\ cur_label' = cur_label + 0
        /\ ReturnReg(Top.held[1]) /\ Evaluated
    BY <1>3 DEF FinishWith
  <2>3. Kind \notin DeclKinds \cup Branching /\ Kind \in ExprKinds /\ Kind # "TERNARY1"
    BY <1>3, KindFacts, QuietKinds
  <2>4. Top.held[1] \in Int
    BY <2>1, <2>2, <2>3, KeepsNumber
  <2>5. cur_label' = cur_label
    BY <2>2, ReservedFacts
  <2> QED
    BY <1>3, <2>2, <2>3, <2>4, <2>5, ReadsOwed, QuietReturn
<1>4. CASE FinishLeft
  <2>1. Kind \in KeepsLeft /\ Len(Operands(Top.node)) >= 1
    <3>1. Kind \in KeepsLeft
      BY <1>4 DEF FinishLeft
    <3>2. Len(Operands(Top.node)) = 2
      BY <1>1, <3>1 DEF WellShaped, Kind
    <3> QED
      BY <3>1, <3>2
  <2>2. Kind \in Comparison <=> Kind \in Flagged
    BY <2>1 DEF KeepsLeft, Flagged, Comparison
  <2>3. (IF Kind \in Comparison THEN 2 ELSE 0) = (IF Kind \in Flagged THEN 2 ELSE 0)
    BY <2>2
  <2>4. FinishWith(1, OperatorCode(Top.node, Top.held, cur_label + 1),
                   IF Kind \in Flagged THEN 2 ELSE 0)
    BY <1>4, <2>3 DEF FinishLeft
  <2>5. (IF Kind \in Flagged THEN 2 ELSE 0) \in Nat
    OBVIOUS
  <2> QED
    BY <1>2, <2>1, <2>4, <2>5
<1>5. CASE FinishRight
  <2>1. Kind \in KeepsRight /\ Len(Operands(Top.node)) >= 2
    BY <1>1, <1>5 DEF FinishRight, WellShaped, Kind
  <2>2. Kind \notin Flagged
    BY <2>1 DEF KeepsRight, Flagged, Comparison
  <2>3. FinishWith(2, OperatorCode(Top.node, Top.held, cur_label + 1), 0)
    BY <1>5 DEF FinishRight
  <2> QED
    BY <1>2, <2>1, <2>2, <2>3
<1>6. CASE FinishUnary
  <2>1. Kind \in Unary /\ Len(Operands(Top.node)) >= 1
    BY <1>1, <1>6 DEF FinishUnary, WellShaped, Kind
  <2>2. Kind = "NOT" <=> Kind \in Flagged
    BY <2>1 DEF Unary, Flagged, Comparison
  <2>3. (IF Kind = "NOT" THEN 2 ELSE 0) = (IF Kind \in Flagged THEN 2 ELSE 0)
    BY <2>2
  <2>4. FinishWith(1, OperatorCode(Top.node, Top.held, cur_label + 1),
                   IF Kind \in Flagged THEN 2 ELSE 0)
    BY <1>6, <2>3 DEF FinishUnary
  <2>5. (IF Kind \in Flagged THEN 2 ELSE 0) \in Nat
    OBVIOUS
  <2> QED
    BY <1>2, <2>1, <2>4, <2>5
<1>7. CASE FinishStep
  BY <1>3, <1>7, TargetReads DEF FinishStep
<1>8. CASE FinishAssign
  BY <1>3, <1>8, TargetReads DEF FinishAssign
<1> QED
  BY <1>4, <1>5, <1>6, <1>7, <1>8

(* A leaf creates a label if it is a string; a call creates none. *)
LEMMA LeavesAndCallsLabels ==
  ASSUME IInv, LInv, NEW r \in Regs, LoadLeaf(r) \/ CallFunction(r)
  PROVE  LInv'
<1>1. r \in Int
  BY DEF Regs
<1>2. CASE LoadLeaf(r)
  <2>1. PICK l \in Int : l = cur_label + 1
    BY ReservedFacts
  <2>2. PICK T : T = LeafLabels(Kind, l)
    OBVIOUS
  <2>3. PICK k \in Nat : k = IF Kind = "STR_LIT" THEN 1 ELSE 0
    OBVIOUS
  <2>4. Kind \in Leaf /\ Continue /\ ReturnReg(r) /\ cur_label' = cur_label + k
    <3>1. cur_label + 0 = cur_label
      BY ReservedFacts
    <3> QED
      BY <1>2, <2>3, <3>1 DEF LoadLeaf
  <2>5. T \subseteq Fresh(cur_label + 1, cur_label + k)
    <3>1. CASE Kind = "STR_LIT"
      <4>1. T = {StringLabel(l)} /\ l \in cur_label + 1 .. cur_label + k
        BY <2>1, <2>2, <2>3, <3>1, ReservedFacts DEF LeafLabels
      <4> QED
        BY <4>1 DEF Fresh
    <3>2. CASE Kind # "STR_LIT"
      BY <2>2, <3>2 DEF LeafLabels
    <3> QED
      BY <3>1, <3>2
  <2>6. T \cap Owed = {}
    BY <2>5, ReservedFacts DEF LInv, Closed
  <2>7. Kind \notin DeclKinds \cup Branching
    BY <2>4, QuietKinds
  <2>8. Owed = OuterOwed /\ Backs = OuterBacks
    BY <2>7, PendingFacts DEF Owed, Backs, Kind, Branching
  <2>9. PICK code : code = LeafCode(Top.node, r, cur_label + 1)
    OBVIOUS
  <2>10. Keeps(code, Owed \cup T, Backs, Owed, Backs \cup T)
    <3>1. Keeps(LeafCode(Top.node, r, l), Owed \cup LeafLabels(Top.node.kind, l),
                Backs, Owed, Backs \cup LeafLabels(Top.node.kind, l))
      BY <2>2, <2>6, LeafKeeps DEF Kind
    <3> QED
      BY <2>1, <2>2, <2>9, <3>1 DEF Kind
  <2>11. Emit(code)
    BY <1>2, <2>9 DEF LoadLeaf
  <2>12. OuterBacks \subseteq Backs \cup T
    BY <2>8
  <2>13. Keeps(code, Owed \cup T, Backs, OuterOwed, Backs \cup T)
    BY <2>8, <2>10
  <2> QED
    BY <1>1, <2>4, <2>5, <2>7, <2>11, <2>12, <2>13, ReturnLabels
<1>3. CASE CallFunction(r)
  <2>1. Kind \notin DeclKinds \cup Branching
    BY <1>3, QuietKinds DEF CallFunction
  <2>2. PICK code : code = CallSequence(Top.held, FunctionName(Top.node), r)
    OBVIOUS
  <2>3. Reads(code, Owed)
    BY <2>2, TopFacts, CallReads, ReadsOwed
  <2>4. Continue /\ ReturnReg(r) /\ cur_label' = cur_label /\ Emit(code)
    BY <1>3, <2>2 DEF CallFunction
  <2> QED
    BY <1>1, <2>1, <2>3, <2>4, QuietReturn
<1> QED
  BY <1>2, <1>3

(* A handler that owes the same labels after an operand as before it       *)
(* prints a text that uses no others.                                      *)
LEMMA QuietPush ==
  ASSUME IInv, LInv, Kind \notin DeclKinds, Continue,
         NEW f \in Frame, f.node = Top.node, f.next = Top.next, Call(f),
         cur_label' = cur_label, NEW code, Emit(code), Reads(code, Owed \cup Backs),
         Pending(f, f.next + 1) = Pending(Top, Top.next),
         Back(f, f.next + 1) = Back(Top, Top.next)
  PROVE  LInv'
<1>1. /\ Owed = OuterOwed \cup Pending(f, f.next + 1)
      /\ Backs = OuterBacks \cup Back(f, f.next + 1)
  BY DEF Owed, Backs
<1>2. Keeps(code, Owed \cup {}, Backs, OuterOwed \cup Pending(f, f.next + 1), Backs)
  <2>1. Owed \cup {} = Owed
    OBVIOUS
  <2>2. Keeps(code, Owed, Backs, Owed, Backs)
    BY ReadsKeeps
  <2> QED
    BY <1>1, <2>1, <2>2
<1>3. cur_label' = cur_label + 0 /\ 0 \in Nat
  BY ReservedFacts
<1>4. {} \subseteq Fresh(cur_label + 1, cur_label + 0)
  OBVIOUS
<1>5. Pending(f, f.next + 1) \subseteq Pending(Top, Top.next) \cup {}
  OBVIOUS
<1>6. OuterBacks \cup Back(f, f.next + 1) \subseteq Backs
  BY <1>1
<1> QED
  BY <1>2, <1>3, <1>4, <1>5, <1>6, PushLabels

(* A handler that owes nothing yet creates its two labels.                 *)
LEMMA FreshPush ==
  ASSUME IInv, LInv, Kind \notin DeclKinds, Continue,
         NEW f \in Frame, f.node = Top.node, f.next = Top.next, Call(f),
         NEW l, l = cur_label + 1, cur_label' = cur_label + 2,
         Pending(Top, Top.next) = {}, Back(f, f.next + 1) = {},
         Pending(f, f.next + 1) = {Label(l), Label(l + 1)},
         NEW code, Emit(code), Reads(code, {Label(l), Label(l + 1)})
  PROVE  LInv'
<1>1. PICK T : T = {Label(l), Label(l + 1)}
  OBVIOUS
<1>2. T \subseteq Fresh(cur_label + 1, cur_label + 2)
  <2>1. l \in cur_label + 1 .. cur_label + 2 /\ l + 1 \in cur_label + 1 .. cur_label + 2
    BY ReservedFacts
  <2> QED
    BY <1>1, <2>1 DEF Fresh
<1>3. Owed = OuterOwed
  BY DEF Owed
<1>4. Reads(code, (Owed \cup T) \cup Backs)
  BY <1>1 DEF Reads
<1>5. Keeps(code, Owed \cup T, Backs, Owed \cup T, Backs)
  BY <1>4, ReadsKeeps
<1>6. Keeps(code, Owed \cup T, Backs, OuterOwed \cup Pending(f, f.next + 1), Backs)
  BY <1>1, <1>3, <1>5
<1>7. OuterBacks \cup Back(f, f.next + 1) \subseteq Backs
  BY DEF Backs
<1>8. Pending(f, f.next + 1) \subseteq Pending(Top, Top.next) \cup T
  BY <1>1
<1>9. 2 \in Nat
  OBVIOUS
<1> QED
  BY <1>2, <1>6, <1>7, <1>8, <1>9, PushLabels

(* A handler prints one of the labels it owes, and goes on or returns.     *)
LEMMA DefineLabels ==
  ASSUME IInv, LInv, Kind \notin DeclKinds, Continue,
         cur_label' = cur_label, NEW t \in Pending(Top, Top.next),
         NEW code, Emit(code), Keeps(code, Owed, Backs, Owed \ {t}, Backs \cup {t})
  PROVE  /\ \A f \in Frame :
              /\ f.node = Top.node /\ f.next = Top.next /\ Call(f)
              /\ Pending(f, f.next + 1) = Pending(Top, Top.next) \ {t}
              /\ Back(f, f.next + 1) \subseteq Back(Top, Top.next) \cup {t}
              => LInv'
         /\ /\ Pending(Top, Top.next) = {t}
            /\ Return \/ \E r : ReturnReg(r) /\ r \in Int
            => LInv'
<1>1. OuterOwed \cap Pending(Top, Top.next) = {}
  BY DEF LInv, Apart
<1>2. PICK V : V = Owed \ {t}
  OBVIOUS
<1>3. V = OuterOwed \cup (Pending(Top, Top.next) \ {t})
  BY <1>1, <1>2 DEF Owed
<1>4. PICK M : M = Backs \cup {t}
  OBVIOUS
<1>5. OuterBacks \subseteq M /\ Back(Top, Top.next) \cup {t} \subseteq M
  BY <1>4 DEF Backs
<1>6. Keeps(code, Owed \cup {}, Backs, V, M)
  <2>1. Owed \cup {} = Owed
    OBVIOUS
  <2> QED
    BY <1>2, <1>4, <2>1
<1>7. cur_label' = cur_label + 0 /\ 0 \in Nat
  BY ReservedFacts
<1>8. {} \subseteq Fresh(cur_label + 1, cur_label + 0)
  OBVIOUS
<1>9. ASSUME NEW f \in Frame, f.node = Top.node, f.next = Top.next, Call(f),
             Pending(f, f.next + 1) = Pending(Top, Top.next) \ {t},
             Back(f, f.next + 1) \subseteq Back(Top, Top.next) \cup {t}
      PROVE  LInv'
  <2>1. Keeps(code, Owed \cup {}, Backs, OuterOwed \cup Pending(f, f.next + 1), M)
    BY <1>3, <1>6, <1>9
  <2>2. OuterBacks \cup Back(f, f.next + 1) \subseteq M
    BY <1>5, <1>9
  <2>3. Pending(f, f.next + 1) \subseteq Pending(Top, Top.next) \cup {}
    BY <1>9
  <2> QED
    BY <1>7, <1>8, <1>9, <2>1, <2>2, <2>3, PushLabels
<1>10. ASSUME Pending(Top, Top.next) = {t},
              Return \/ \E r : ReturnReg(r) /\ r \in Int
       PROVE  LInv'
  <2>1. V = OuterOwed
    BY <1>3, <1>10
  <2>2. Keeps(code, Owed \cup {}, Backs, OuterOwed, M)
    BY <1>6, <2>1
  <2> QED
    BY <1>5, <1>7, <1>8, <1>10, <2>2, ReturnLabels
<1> QED
  BY <1>9, <1>10

(* The kinds with labels owe them from the portion that creates them to    *)
(* the one that prints them.                                               *)
LEMMA Branches ==
  ASSUME NEW f, NEW l, f.lab = l
  PROVE  /\ f.node.kind = "TERNARY1" =>
              /\ Pending(f, 1) = {} /\ Pending(f, 2) = {Label(l), Label(l + 1)}
              /\ Pending(f, 3) = {Label(l + 1)}
         /\ f.node.kind = "IF_ELSE" =>
              /\ Pending(f, 1) = {Label(l), Label(l + 1)}
              /\ Pending(f, 2) = {Label(l), Label(l + 1)}
              /\ Pending(f, 3) = {Label(l + 1)}
         /\ f.node.kind = "FOR" =>
              /\ Pending(f, 1) = {Label(l), Label(l + 1)} /\ Back(f, 1) = {}
              /\ \A m \in {2, 3, 4} :
                   Pending(f, m) = {Label(l + 1)} /\ Back(f, m) = {Label(l)}
<1>1. 1 # 2 /\ 1 # 3 /\ 1 # 4 /\ 2 # 3 /\ 2 # 4 /\ 3 # 4
  OBVIOUS
<1>2. CASE f.node.kind = "TERNARY1"
  BY <1>1, <1>2 DEF Pending
<1>3. CASE f.node.kind = "IF_ELSE"
  BY <1>1, <1>3 DEF Pending
<1>4. CASE f.node.kind = "FOR"
  BY <1>1, <1>4 DEF Pending, Back
<1> QED
  BY <1>2, <1>3, <1>4

(* The two labels of a handler, and the two jumps the branches use.        *)
LEMMA TwoLabels ==
  ASSUME IInv
  PROVE  /\ Top.lab \in Int /\ Label(Top.lab) # Label(Top.lab + 1)
         /\ Label(Top.lab)[1] # "function" /\ Label(Top.lab + 1)[1] # "function"
         /\ \A S : \A t \in S : Reading(<<"JE", t>>, S) /\ Reading(<<"JMP", t>>, S)
<1>1. Top.lab \in Int /\ Top.lab + 1 \in Int
  BY TopFacts DEF Frame
<1>2. Label(Top.lab)[1] # "function" /\ Label(Top.lab + 1)[1] # "function"
  BY DEF Label
<1>3. "JE" \in Jumps /\ "JMP" \in Jumps
  BY DEF Jumps, Jump, Comparison
<1> QED
  BY <1>1, <1>2, <1>3, LabelsDiffer, JumpLine

(* The first operand of a handler, or the next one of a handler that owes  *)
(* nothing.                                                                *)
LEMMA EvaluateLabels ==
  ASSUME IInv, LInv, EvaluateOperand, Kind \notin DeclKinds
  PROVE  LInv'
<1>1. Continue /\ Call(Top) /\ cur_label' = cur_label /\ UNCHANGED outfile
  BY DEF EvaluateOperand, KeepOutput
<1>2. Top \in Frame
  BY TopFacts
<1>3. /\ Pending(Top, Top.next + 1) = Pending(Top, Top.next)
      /\ Back(Top, Top.next + 1) = Back(Top, Top.next)
  <2>1. CASE Kind = "TERNARY1"
    <3>1. Top.next = 0
      BY <2>1, KindFacts DEF EvaluateOperand, StmtKinds, DeclKinds
    <3>2. Top.next + 1 = 1
      BY <3>1
    <3> QED
      BY <2>1, <3>1, <3>2, Branches, PendingFacts DEF Kind
  <2>2. CASE Kind # "TERNARY1"
    <3>1. Kind \notin {"IF_ELSE", "FOR", "FUNCTION"}
      <4>1. {"IF_ELSE", "FOR", "FUNCTION"} \cap ExprKinds = {}
        BY KindFacts DEF StmtKinds, DeclKinds
      <4> QED
        BY <2>2, <4>1 DEF EvaluateOperand
    <3> QED
      BY <2>2, <3>1, PendingFacts DEF Kind
  <2> QED
    BY <2>1, <2>2
<1>4. Emit(<<>>)
  BY <1>1, EmitNothing
<1>5. Reads(<<>>, Owed \cup Backs)
  BY Reads0
<1> QED
  BY <1>1, <1>2, <1>3, <1>4, <1>5, QuietPush

(* The ternary: a jump to the second arm, a jump over it, and the end.     *)
LEMMA TernaryLabels ==
  ASSUME IInv, LInv, TernaryTest \/ TernaryFirst \/ TernarySecond
  PROVE  LInv'
<1>1. Kind = "TERNARY1" /\ Kind \notin DeclKinds /\ Continue
  BY QuietKinds DEF TernaryTest, TernaryFirst, TernarySecond
<1>2. PICK l \in Int : l = Top.lab
  BY TwoLabels
<1>3. \A S : Reading(MoveArm, S)
  BY PlainLines DEF MoveArm, Plain
<1>4. CASE TernaryTest
  <2>1. PICK m \in Int : m = cur_label + 1
    BY ReservedFacts
  <2> DEFINE f == [Top EXCEPT !.lab = m]
  <2>2. f \in Frame /\ f.node = Top.node /\ f.next = Top.next /\ f.lab = m
    BY TopFacts DEF Frame
  <2>3. Call(f) /\ cur_label' = cur_label + 2 /\ Top.next = 1
    BY <1>4, <2>1 DEF TernaryTest
  <2> HIDE DEF f
  <2>4. Pending(Top, Top.next) = {} /\ Back(f, f.next + 1) = {}
    BY <1>1, <1>2, <2>2, <2>3, Branches, PendingFacts DEF Kind
  <2>5. Pending(f, f.next + 1) = {Label(m), Label(m + 1)}
    <3>1. f.next + 1 = 2
      BY <2>2, <2>3
    <3> QED
      BY <1>1, <2>2, <3>1, Branches DEF Kind
  <2>6. PICK code : code = << <<"CMPQ", Imm(0), R(Top.held[1])>>, <<"JE", Label(m)>> >>
    OBVIOUS
  <2>7. Reads(code, {Label(m), Label(m + 1)})
    <3>1. Reading(<<"CMPQ", Imm(0), R(Top.held[1])>>, {Label(m), Label(m + 1)})
      BY PlainLines DEF Plain
    <3>2. Reading(<<"JE", Label(m)>>, {Label(m), Label(m + 1)})
      BY TwoLabels
    <3>3. Reads(<< <<"CMPQ", Imm(0), R(Top.held[1])>>, <<"JE", Label(m)>> >>,
                {Label(m), Label(m + 1)})
      BY <3>1, <3>2, Reads2
    <3> QED
      BY <2>6, <3>3
  <2>8. Emit(code)
    BY <1>4, <2>1, <2>6 DEF TernaryTest
  <2> QED
    BY <1>1, <2>1, <2>2, <2>3, <2>4, <2>5, <2>7, <2>8, FreshPush
<1>5. CASE TernaryFirst
  <2> DEFINE f == [Top EXCEPT !.held = <<Top.held[1]>>]
  <2>1. Call(f) /\ cur_label' = cur_label /\ Top.next = 2
    BY <1>5 DEF TernaryFirst
  <2>2. <<Top.held[1]>> \in Seq(Int)
    <3>1. Len(Top.held) = 2
      BY <1>1, <2>1, KindFacts, TopFacts DEF TopCount, Kind
    <3>2. Top.held \in Seq(Int) /\ 1 \in DOMAIN Top.held
      BY <3>1, TopFacts
    <3> QED
      BY <3>2
  <2>3. f \in Frame /\ f.node = Top.node /\ f.next = Top.next /\ f.lab = l
    BY <1>2, <2>2, TopFacts DEF Frame
  <2> HIDE DEF f
  <2>4. Pending(Top, Top.next) = {Label(l), Label(l + 1)}
    BY <1>1, <1>2, <2>1, Branches DEF Kind
  <2>5. Pending(f, f.next + 1) = {Label(l + 1)} /\ Back(f, f.next + 1) = {}
    <3>1. f.next + 1 = 3
      BY <2>1, <2>3
    <3> QED
      BY <1>1, <2>3, <3>1, Branches, PendingFacts DEF Kind
  <2>6. PICK t : t = Label(l)
    OBVIOUS
  <2>7. t \in Owed /\ Label(l + 1) \in Owed /\ t[1] # "function"
    BY <1>2, <2>4, <2>6, TwoLabels DEF Owed
  <2>8. PICK code : code = <<MoveArm, <<"JMP", Label(l + 1)>>, Define(t)>>
    OBVIOUS
  <2>9. Keeps(code, Owed, Backs, Owed \ {t}, Backs \cup {t})
    <3>1. Reading(<<"JMP", Label(l + 1)>>, Owed \cup Backs)
      BY <2>7, TwoLabels
    <3>2. Keeps(<<MoveArm, <<"JMP", Label(l + 1)>>, Define(t)>>, Owed, Backs,
                Owed \ {t}, Backs \cup {t})
      BY <1>3, <2>7, <3>1, DefinedLast
    <3> QED
      BY <2>8, <3>2
  <2>10. Emit(code)
    BY <1>2, <1>5, <2>6, <2>8 DEF TernaryFirst
  <2>11. Pending(f, f.next + 1) = Pending(Top, Top.next) \ {t}
    BY <1>2, <2>4, <2>5, <2>6, TwoLabels
  <2>12. t \in Pending(Top, Top.next)
    BY <2>4, <2>6
  <2> QED
    BY <1>1, <2>1, <2>3, <2>5, <2>9, <2>10, <2>11, <2>12, DefineLabels
<1>6. CASE TernarySecond
  <2>1. ReturnReg(Top.held[1]) /\ cur_label' = cur_label /\ Top.next = 3
    BY <1>6 DEF TernarySecond
  <2>2. Top.held[1] \in Int
    <3>1. Len(Top.held) = 2
      BY <1>1, <2>1, KindFacts, TopFacts DEF TopCount, Kind
    <3>2. Top.held \in Seq(Int) /\ 1 \in DOMAIN Top.held
      BY <3>1, TopFacts
    <3> QED
      BY <3>2
  <2>3. PICK t : t = Label(l + 1)
    OBVIOUS
  <2>4. Pending(Top, Top.next) = {t}
    BY <1>1, <1>2, <2>1, <2>3, Branches DEF Kind
  <2>5. t \in Owed /\ t[1] # "function"
    BY <1>2, <2>3, <2>4, TwoLabels DEF Owed
  <2>6. PICK code : code = <<MoveArm, Define(t)>>
    OBVIOUS
  <2>7. Keeps(code, Owed, Backs, Owed \ {t}, Backs \cup {t})
    <3>1. Keeps(<<MoveArm, Define(t)>>, Owed, Backs, Owed \ {t}, Backs \cup {t})
      BY <1>3, <2>5, DefinedLast
    <3> QED
      BY <2>6, <3>1
  <2>8. Emit(code)
    BY <1>2, <1>6, <2>3, <2>6 DEF TernarySecond
  <2>9. t \in Pending(Top, Top.next)
    BY <2>4
  <2> QED
    BY <1>1, <2>1, <2>2, <2>4, <2>7, <2>8, <2>9, DefineLabels
<1> QED
  BY <1>4, <1>5, <1>6

(***************************************************************************)
(* Statements.                                                             *)
(***************************************************************************)

(* The moves of a statement from the registers it holds.                   *)
LEMMA HeldReads ==
  ASSUME IInv, NEW f, NEW S,
         f = [i \in DOMAIN Top.held |-> f[i]],
         \A i \in DOMAIN Top.held : \E x, y : f[i] = <<"MOVQ", x, y>>
  PROVE  Reads(f, S)
<1>1. PICK n \in Nat : DOMAIN Top.held = 1 .. n
  BY HeldSpared
<1>2. ASSUME NEW i \in 1 .. n
      PROVE  Reading(f[i], S)
  <2>1. PICK x, y : f[i] = <<"MOVQ", x, y>>
    BY <1>1
  <2>2. Reading(<<"MOVQ", x, y>>, S)
    BY PlainLines DEF Plain
  <2> QED
    BY <2>1, <2>2
<1>3. f = [i \in 1 .. n |-> f[i]]
  BY <1>1
<1> QED
  BY <1>2, <1>3, ReadsFor

(* A handler that has given back its registers.                            *)
LEMMA EmptiedFacts ==
  ASSUME IInv
  PROVE  /\ Emptied \in Frame /\ Emptied.node = Top.node
         /\ Emptied.lab = Top.lab /\ Emptied.next = Top.next
<1>1. <<>> \in Seq(Int)
  OBVIOUS
<1>2. PICK f \in Frame : f = Top
  BY TopFacts
<1>3. [f EXCEPT !.held = <<>>] \in Frame
  BY <1>1 DEF Frame
<1> QED
  BY <1>2, <1>3 DEF Emptied, Frame

(* The function that is being compiled owes its epilogue.                  *)
LEMMA EpilogueOwed ==
  ASSUME IInv, LInv, Kind \notin DeclKinds
  PROVE  Epilogue \in Owed
<1>1. PICK n \in Nat : n = Len(stack) /\ n > 2
  BY Inner
<1>2. 2 \in 1 .. n /\ 2 \in 1 .. n - 1 /\ stack[2].node.kind = "FUNCTION"
  BY <1>1, Inner
<1>3. stack[2] \in Frame
  BY <1>1, <1>2, TopFacts, ElementOfSeq
<1>4. Len(Operands(stack[2].node)) = 1
  BY <1>2, <1>3, Shape DEF Frame, WellShaped
<1>5. stack[2].next < 1 /\ stack[2].next \in Nat
  BY <1>1, <1>2, <1>3, <1>4 DEF IInv, WalkInv, Frame
<1>6. stack[2].next + 1 = 1
  BY <1>5
<1>7. Pending(stack[2], 1) = {Epilogue}
  <2>1. 1 # 2 /\ 1 # 3
    OBVIOUS
  <2> QED
    BY <1>2, <2>1 DEF Pending, Epilogue
<1>8. Epilogue \in OuterOwed
  BY <1>1, <1>2, <1>6, <1>7 DEF OuterOwed
<1> QED
  BY <1>8 DEF Owed

(* A print statement calls the library and stays where it is.              *)
LEMMA PrintLabels ==
  ASSUME IInv, LInv, NEW r \in Regs, PrintCall(r)
  PROVE  LInv'
<1>1. /\ Kind = "PRINT" /\ Continue /\ cur_label' = cur_label
      /\ stack' = [stack EXCEPT ![Len(stack)] = Emptied]
  BY DEF PrintCall
<1>2. Kind \notin DeclKinds
  BY <1>1, QuietKinds
<1>3. PICK n \in Nat : n = Len(stack) /\ n > 2
  BY <1>2, Inner
<1>4. Emptied \in Frame /\ Emptied.node = Top.node /\ Emptied.lab = Top.lab
      /\ Emptied.next = Top.next
  BY EmptiedFacts
<1>5. /\ Len(stack') = n /\ stack'[n] = Emptied
      /\ \A i \in 1 .. n - 1 : stack'[i] = stack[i]
  <2>1. stack \in Seq(Frame) /\ n \in 1 .. Len(stack)
    BY <1>3, TopFacts
  <2>2. /\ Len(stack') = n
        /\ \A j \in 1 .. n : stack'[j] = IF j = n THEN Emptied ELSE stack[j]
    BY <1>1, <1>3, <1>4, <2>1, ExceptSeq
  <2>3. \A i \in 1 .. n - 1 : i \in 1 .. n /\ i # n
    BY <1>3
  <2> QED
    BY <1>3, <2>2, <2>3
<1>6. Top' = Emptied
  BY <1>5 DEF Top
<1>7. Pending(Top', Top'.next) = Pending(Top, Top.next)
      /\ Back(Top', Top'.next) = Back(Top, Top.next)
  <2>1. \A m : Pending(Emptied, m) = Pending(Top, m) /\ Back(Emptied, m) = Back(Top, m)
    BY <1>4, SamePending
  <2> QED
    BY <1>4, <1>6, <2>1
<1>8. OuterOwed' = OuterOwed /\ OuterBacks' = OuterBacks
  <2>1. Len(stack') - 1 = n - 1 /\ Len(stack) - 1 = n - 1
    BY <1>3, <1>5
  <2> QED
    BY <1>5, <2>1 DEF OuterOwed, OuterBacks
<1>9. Apart'
  <2>1. Len(stack') - 1 = n - 1 /\ Len(stack) - 1 = n - 1
    BY <1>3, <1>5
  <2>2. Apart
    BY DEF LInv
  <2>3. \A i, k \in 1 .. n - 1 : i # k =>
          Pending(stack'[i], stack'[i].next + 1) \cap Pending(stack'[k], stack'[k].next + 1) = {}
    BY <1>5, <2>1, <2>2 DEF Apart
  <2>4. OuterOwed' \cap Pending(Top', Top'.next) = {}
    BY <1>7, <1>8, <2>2 DEF Apart
  <2> QED
    BY <2>1, <2>3, <2>4 DEF Apart
<1>10. Owed' = Owed /\ Backs' = Backs
  BY <1>7, <1>8 DEF Owed, Backs
<1>11. PICK code : code = CallSequence(Top.held, PrintFunction[Top.node.val[Top.next]], r)
  OBVIOUS
<1>12. Emit(code) /\ Reads(code, {})
  BY <1>11, TopFacts, CallReads DEF PrintCall
<1>13. Keeps(code, Owed \cup {}, Backs, Owed, Backs)
  <2>1. Owed \cup {} = Owed
    OBVIOUS
  <2> QED
    BY <1>12, <2>1, ReadsNothing
<1>14. /\ Reserved \subseteq Reserved'
       /\ Inside' => stack'[2].node.kind = "FUNCTION"
  <2>1. 1 \in 1 .. n - 1 /\ 2 \in 1 .. n - 1 /\ n > 1 /\ n # 2
    BY <1>3
  <2>2. stack'[1] = stack[1] /\ stack'[2].node = stack[2].node
    BY <1>5, <2>1
  <2>3. cur_label' = cur_label + 0 /\ 0 \in Nat
    BY <1>1, ReservedFacts
  <2> QED
    BY <1>2, <1>5, <2>1, <2>2, <2>3, InnerReserved
<1>15. Closed(outfile', Owed', Backs', Reserved')
  <2>1. Closed(outfile, Owed, Backs, Reserved)
    BY DEF LInv
  <2> QED
    BY <1>10, <1>12, <1>13, <1>14, <2>1, StepCloses
<1>16. status' # "done"
  BY <1>1 DEF Continue, Running
<1> QED
  BY <1>9, <1>14, <1>15, <1>16 DEF LInv

(* The statements that have no labels of their own.                        *)
LEMMA PlainStatementLabels ==
  ASSUME IInv, LInv,
         \/ SkipNull \/ StmtBlock \/ StmtExpr \/ StmtReturn \/ StmtDecl
         \/ PrintOperand \/ PrintDone
  PROVE  LInv'
<1>1. Kind \in {"NONE", "BLOCK", "EXPR", "RETURN", "DECL", "PRINT"} /\ Continue
      /\ cur_label' = cur_label
  BY DEF SkipNull, StmtBlock, StmtExpr, StmtReturn, StmtDecl, PrintOperand,
         PrintDone, KeepOutput
<1>2. Kind \notin DeclKinds \cup Branching
  BY <1>1, QuietKinds
<1>3. CASE SkipNull \/ StmtBlock \/ StmtExpr \/ PrintDone
  <2>1. Return /\ UNCHANGED outfile
    BY <1>3 DEF SkipNull, StmtBlock, StmtExpr, PrintDone, KeepOutput
  <2>2. Emit(<<>>)
    BY <2>1, EmitNothing
  <2>3. Reads(<<>>, Owed)
    BY Reads0
  <2> QED
    BY <1>1, <1>2, <2>1, <2>2, <2>3, QuietReturn
<1>4. CASE StmtDecl
  <2>1. PICK f : f = [i \in DOMAIN Top.held |->
                        <<"MOVQ", R(Top.held[i]), symbol_codegen(Top.node.val)>>]
    OBVIOUS
  <2>2. Reads(f, Owed)
    BY <2>1, HeldReads
  <2>3. Emit(f) /\ Return
    BY <1>4, <2>1 DEF StmtDecl
  <2> QED
    BY <1>1, <1>2, <2>2, <2>3, QuietReturn
<1>5. CASE StmtReturn
  <2>1. PICK f : f = [i \in DOMAIN Top.held |-> <<"MOVQ", R(Top.held[i]), Rax>>]
    OBVIOUS
  <2>2. Reads(f, Owed)
    BY <2>1, HeldReads
  <2>3. Reads(<< <<"JMP", Epilogue>> >>, Owed)
    <3>1. Reading(<<"JMP", Epilogue>>, Owed)
      BY <1>2, EpilogueOwed, TwoLabels
    <3> QED
      BY <3>1, Reads1
  <2>4. PICK code : code = f \o << <<"JMP", Epilogue>> >>
    OBVIOUS
  <2>5. Reads(code, Owed)
    BY <2>2, <2>3, <2>4, ReadsJoin
  <2>6. Emit(code) /\ Return
    BY <1>5, <2>1, <2>4 DEF StmtReturn
  <2> QED
    BY <1>1, <1>2, <2>5, <2>6, QuietReturn
<1>6. CASE PrintOperand
  <2>1. Call(Top) /\ UNCHANGED outfile
    BY <1>6 DEF PrintOperand, KeepOutput
  <2>2. /\ Pending(Top, Top.next + 1) = Pending(Top, Top.next)
        /\ Back(Top, Top.next + 1) = Back(Top, Top.next)
    BY <1>2, PendingFacts DEF Kind, Branching
  <2>3. Emit(<<>>) /\ Reads(<<>>, Owed \cup Backs) /\ Top \in Frame
    BY <2>1, EmitNothing, Reads0, TopFacts
  <2> QED
    BY <1>1, <1>2, <2>1, <2>2, <2>3, QuietPush
<1> QED
  BY <1>3, <1>4, <1>5, <1>6

(* The branches that print no label: the entry, which creates both, the    *)
(* two tests, which jump to one, and the step to the body of a loop.       *)
LEMMA BranchReadsLabels ==
  ASSUME IInv, LInv, BranchEnter \/ IfTest \/ ForTest \/ ForNext
  PROVE  LInv'
<1>1. Kind \in {"IF_ELSE", "FOR"} /\ Kind \notin DeclKinds /\ Continue
  BY QuietKinds DEF BranchEnter, IfTest, ForTest, ForNext, BranchStep
<1>2. PICK l \in Int : l = Top.lab
  BY TwoLabels
<1>3. CASE BranchEnter
  <2>1. PICK m \in Int : m = cur_label + 1
    BY ReservedFacts
  <2> DEFINE f == [Top EXCEPT !.lab = m]
  <2>2. f \in Frame /\ f.node = Top.node /\ f.next = Top.next /\ f.lab = m
    BY TopFacts DEF Frame
  <2>3. Call(f) /\ cur_label' = cur_label + 2 /\ Top.next = 0 /\ UNCHANGED outfile
    BY <1>3, <2>1 DEF BranchEnter
  <2> HIDE DEF f
  <2>4. Pending(Top, Top.next) = {}
    BY <2>3, PendingFacts
  <2>5. f.next + 1 = 1
    BY <2>2, <2>3
  <2>6. Pending(f, f.next + 1) = {Label(m), Label(m + 1)} /\ Back(f, f.next + 1) = {}
    BY <1>1, <2>2, <2>5, Branches, PendingFacts DEF Kind
  <2>7. Emit(<<>>) /\ Reads(<<>>, {Label(m), Label(m + 1)})
    BY <2>3, EmitNothing, Reads0
  <2> QED
    BY <1>1, <2>1, <2>2, <2>3, <2>4, <2>6, <2>7, FreshPush
<1>4. PICK f : f = Emptied
  OBVIOUS
<1>5. f \in Frame /\ f.node = Top.node /\ f.next = Top.next /\ f.lab = l
  BY <1>2, <1>4, EmptiedFacts
<1>6. ASSUME NEW t, Label(t) \in Owed, NEW r
      PROVE  Reads(Test(r, t), Owed \cup Backs)
  <2>1. Reading(<<"CMPQ", Imm(0), R(r)>>, Owed \cup Backs)
    BY PlainLines DEF Plain
  <2>2. Reading(<<"JE", Label(t)>>, Owed \cup Backs)
    BY <1>6, TwoLabels
  <2> QED
    BY <2>1, <2>2, Reads2 DEF Test
<1>7. CASE IfTest
  <2>1. /\ Kind = "IF_ELSE" /\ Top.next = 1 /\ Call(f) /\ cur_label' = cur_label
        /\ Emit(Test(Top.held[1], l))
    BY <1>2, <1>4, <1>7 DEF IfTest, BranchStep
  <2>2. f.next + 1 = 2
    BY <1>5, <2>1
  <2>3. /\ Pending(Top, Top.next) = {Label(l), Label(l + 1)}
        /\ Pending(f, f.next + 1) = {Label(l), Label(l + 1)}
        /\ Back(Top, Top.next) = {} /\ Back(f, f.next + 1) = {}
    BY <1>2, <1>5, <2>1, <2>2, Branches, PendingFacts DEF Kind
  <2>4. Label(l) \in Owed
    BY <2>3 DEF Owed
  <2>5. PICK code : code = Test(Top.held[1], l)
    OBVIOUS
  <2>6. Reads(code, Owed \cup Backs) /\ Emit(code)
    BY <1>6, <2>1, <2>4, <2>5
  <2> QED
    BY <1>1, <1>5, <2>1, <2>3, <2>6, QuietPush
<1>8. CASE ForTest \/ ForNext
  <2>1. PICK code :
          /\ Kind = "FOR" /\ Top.next \in {2, 3} /\ Call(f) /\ cur_label' = cur_label
          /\ Emit(code)
          /\ code = <<>> \/ code = Test(Top.held[1], l + 1)
    <3>1. CASE ForTest
      BY <1>2, <1>4, <3>1 DEF ForTest, BranchStep
    <3>2. CASE ForNext
      BY <1>4, <3>2 DEF ForNext, BranchStep
    <3> QED
      BY <1>8, <3>1, <3>2
  <2>2. f.next + 1 \in {2, 3, 4} /\ Top.next \in {2, 3, 4}
    BY <1>5, <2>1
  <2>3. /\ Pending(Top, Top.next) = {Label(l + 1)}
        /\ Pending(f, f.next + 1) = {Label(l + 1)}
        /\ Back(Top, Top.next) = {Label(l)} /\ Back(f, f.next + 1) = {Label(l)}
    BY <1>2, <1>5, <2>1, <2>2, Branches DEF Kind
  <2>4. Label(l + 1) \in Owed
    BY <2>3 DEF Owed
  <2>5. Reads(code, Owed \cup Backs)
    BY <1>6, <2>1, <2>4, Reads0
  <2> QED
    BY <1>1, <1>5, <2>1, <2>3, <2>5, QuietPush
<1> QED
  BY <1>3, <1>7, <1>8

(* The branches that print a label: the start of the other branch, the top *)
(* of the loop, and the end of both.                                       *)
LEMMA BranchDefinesLabels ==
  ASSUME IInv, LInv, IfElse \/ IfDone \/ ForTop \/ ForLoop
  PROVE  LInv'
<1>1. /\ Kind \in {"IF_ELSE", "FOR"} /\ Kind \notin DeclKinds /\ Continue
      /\ cur_label' = cur_label
  BY QuietKinds DEF IfElse, IfDone, ForTop, ForLoop, BranchStep
<1>2. PICK l \in Int : l = Top.lab
  BY TwoLabels
<1>3. PICK f : f = Emptied
  OBVIOUS
<1>4. f \in Frame /\ f.node = Top.node /\ f.next = Top.next /\ f.lab = l
  BY <1>2, <1>3, EmptiedFacts
<1>5. ASSUME NEW t \in Owed, t[1] # "function"
      PROVE  /\ Keeps(<<Define(t)>>, Owed, Backs, Owed \ {t}, Backs \cup {t})
             /\ \A u \in Owed \cup Backs :
                  Keeps(<< <<"JMP", u>>, Define(t)>>, Owed, Backs, Owed \ {t}, Backs \cup {t})
  <2>1. Keeps(<<Define(t)>>, Owed, Backs, Owed \ {t}, Backs \cup {t})
    BY <1>5, DefineKeeps
  <2>2. ASSUME NEW u \in Owed \cup Backs
        PROVE  Keeps(<< <<"JMP", u>>, Define(t)>>, Owed, Backs, Owed \ {t}, Backs \cup {t})
    <3>1. Reading(<<"JMP", u>>, Owed \cup Backs)
      BY TwoLabels
    <3> QED
      BY <1>5, <3>1, DefinedLast
  <2> QED
    BY <2>1, <2>2
<1>6. CASE IfElse
  <2>1. PICK t : t = Label(l)
    OBVIOUS
  <2>2. /\ Kind = "IF_ELSE" /\ Top.next = 2 /\ Call(f)
        /\ Emit(<< <<"JMP", Label(l + 1)>>, Define(t)>>)
    BY <1>2, <1>3, <1>6, <2>1 DEF IfElse, BranchStep
  <2>3. f.next + 1 = 3
    BY <1>4, <2>2
  <2>4. /\ Pending(Top, Top.next) = {Label(l), Label(l + 1)}
        /\ Pending(f, f.next + 1) = {Label(l + 1)} /\ Back(f, f.next + 1) = {}
    BY <1>2, <1>4, <2>2, <2>3, Branches, PendingFacts DEF Kind
  <2>5. /\ t \in Owed /\ Label(l + 1) \in Owed /\ t[1] # "function"
        /\ t \in Pending(Top, Top.next)
        /\ Pending(f, f.next + 1) = Pending(Top, Top.next) \ {t}
    BY <1>2, <2>1, <2>4, TwoLabels DEF Owed
  <2>6. PICK code : code = << <<"JMP", Label(l + 1)>>, Define(t)>>
    OBVIOUS
  <2>7. Keeps(code, Owed, Backs, Owed \ {t}, Backs \cup {t}) /\ Emit(code)
    BY <1>5, <2>2, <2>5, <2>6
  <2> QED
    BY <1>1, <1>4, <2>2, <2>4, <2>5, <2>7, DefineLabels
<1>7. CASE ForTop
  <2>1. PICK t : t = Label(l)
    OBVIOUS
  <2>2. Kind = "FOR" /\ Top.next = 1 /\ Call(f) /\ Emit(<<Define(t)>>)
    BY <1>2, <1>3, <1>7, <2>1 DEF ForTop, BranchStep
  <2>3. f.next + 1 = 2 /\ 2 \in {2, 3, 4}
    BY <1>4, <2>2
  <2>4. /\ Pending(Top, Top.next) = {Label(l), Label(l + 1)}
        /\ Pending(f, f.next + 1) = {Label(l + 1)} /\ Back(f, f.next + 1) = {t}
    BY <1>2, <1>4, <2>1, <2>2, <2>3, Branches DEF Kind
  <2>5. /\ t \in Owed /\ t[1] # "function" /\ t \in Pending(Top, Top.next)
        /\ Pending(f, f.next + 1) = Pending(Top, Top.next) \ {t}
        /\ Back(f, f.next + 1) \subseteq Back(Top, Top.next) \cup {t}
    BY <1>2, <2>1, <2>4, TwoLabels DEF Owed
  <2>6. PICK code : code = <<Define(t)>>
    OBVIOUS
  <2>7. Keeps(code, Owed, Backs, Owed \ {t}, Backs \cup {t}) /\ Emit(code)
    BY <1>5, <2>2, <2>5, <2>6
  <2> QED
    BY <1>1, <1>4, <2>2, <2>5, <2>7, DefineLabels
<1>8. CASE IfDone \/ ForLoop
  <2>1. PICK t : t = Label(l + 1)
    OBVIOUS
  <2>2. /\ Return
        /\ \/ Kind = "IF_ELSE" /\ Top.next = 3 /\ Emit(<<Define(t)>>)
           \/ Kind = "FOR" /\ Top.next = 4 /\ Emit(<< <<"JMP", Label(l)>>, Define(t)>>)
    BY <1>2, <1>8, <2>1 DEF IfDone, ForLoop, BranchStep
  <2>3. /\ Pending(Top, Top.next) = {t}
        /\ Kind = "FOR" => Back(Top, Top.next) = {Label(l)}
    <3>1. CASE Kind = "IF_ELSE" /\ Top.next = 3
      BY <1>2, <2>1, <3>1, Branches DEF Kind
    <3>2. CASE Kind = "FOR" /\ Top.next = 4
      <4>1. Top.next \in {2, 3, 4}
        BY <3>2
      <4> QED
        BY <1>2, <2>1, <3>2, <4>1, Branches DEF Kind
    <3> QED
      BY <2>2, <3>1, <3>2
  <2>4. t \in Owed /\ t[1] # "function" /\ t \in Pending(Top, Top.next)
    BY <1>2, <2>1, <2>3, TwoLabels DEF Owed
  <2>5. PICK code : Emit(code) /\ Keeps(code, Owed, Backs, Owed \ {t}, Backs \cup {t})
    <3>1. CASE Kind = "IF_ELSE"
      BY <1>5, <2>2, <2>4, <3>1
    <3>2. CASE Kind = "FOR"
      <4>1. Label(l) \in Owed \cup Backs
        BY <2>3, <3>2 DEF Backs
      <4>2. Emit(<< <<"JMP", Label(l)>>, Define(t)>>)
        BY <2>2, <3>2
      <4> QED
        BY <1>5, <2>4, <4>1, <4>2
    <3> QED
      BY <1>1, <3>1, <3>2
  <2> QED
    BY <1>1, <2>2, <2>3, <2>4, <2>5, DefineLabels
<1> QED
  BY <1>6, <1>7, <1>8

(***************************************************************************)
(* Declarations.                                                           *)
(***************************************************************************)

(* Between two declarations the program owes nothing.                      *)
LEMMA ProgramFacts ==
  ASSUME IInv, Kind \in DeclKinds
  PROVE  /\ stack[1].next \in Nat /\ stack[1].node \in Nodes
         /\ stack[1].node.kind = "PROGRAM"
         /\ OuterOwed = {} /\ OuterBacks = {}
<1>1. Len(stack) = 1 \/ Len(stack) = 2
  BY DeclarationPlace
<1>2. 1 \in 1 .. Len(stack)
  BY TopFacts
<1>3. stack[1] \in Frame /\ stack[1].node.kind = "PROGRAM"
  BY <1>2, TopFacts, ElementOfSeq DEF IInv, WalkInv
<1>4. /\ Pending(stack[1], stack[1].next + 1) = {}
      /\ Back(stack[1], stack[1].next + 1) = {}
  BY <1>3, PendingFacts
<1>5. \A i \in 1 .. Len(stack) - 1 : i = 1
  <2>1. PICK n \in Nat : n = Len(stack) /\ (n = 1 \/ n = 2)
    BY <1>1
  <2>2. \A i \in 1 .. n - 1 : i = 1
    BY <2>1
  <2> QED
    BY <2>1, <2>2
<1> DEFINE P(i) == Pending(stack[i], stack[i].next + 1)
           B(i) == Back(stack[i], stack[i].next + 1)
<1>6. /\ OuterOwed = UNION {P(i) : i \in 1 .. Len(stack) - 1} /\ P(1) = {}
      /\ OuterBacks = UNION {B(i) : i \in 1 .. Len(stack) - 1} /\ B(1) = {}
  BY <1>4 DEF OuterOwed, OuterBacks
<1> HIDE DEF P, B
<1>7. OuterOwed = {} /\ OuterBacks = {}
  BY <1>5, <1>6
<1> QED
  BY <1>3, <1>7 DEF Frame

(* A declaration is the next operand of the program.                       *)
LEMMA DeclFacts ==
  ASSUME IInv, Kind \in DeclKinds, Kind # "PROGRAM"
  PROVE  /\ Len(stack) = 2 /\ stack[2] = Top /\ stack[1] = Caller
         /\ stack[1].next + 1 \in DOMAIN Operands(stack[1].node)
         /\ Top.node = Operands(stack[1].node)[stack[1].next + 1]
<1>1. Len(stack) = 2
  BY DeclarationPlace
<1>2. 1 \in 1 .. Len(stack) - 1 /\ Len(stack) - 1 = 1
  BY <1>1
<1>3. /\ stack[1].next < Len(Operands(stack[1].node))
      /\ stack[1 + 1].node = Operands(stack[1].node)[stack[1].next + 1]
  BY <1>2 DEF IInv, WalkInv
<1>4. stack[1].next \in Nat /\ stack[1].node \in Nodes
  BY ProgramFacts
<1>5. stack[1].next + 1 \in DOMAIN Operands(stack[1].node)
  <2>1. PICK m \in Nat : m = Len(Operands(stack[1].node))
                         /\ DOMAIN Operands(stack[1].node) = 1 .. m
    BY <1>4, Shape DEF WellShaped
  <2>2. PICK k \in Nat : k = stack[1].next
    BY <1>4
  <2>3. k < m
    BY <1>3, <2>1, <2>2
  <2> QED
    BY <2>1, <2>2, <2>3
<1>6. stack[2] = Top /\ stack[1] = Caller
  BY <1>1, <1>2 DEF Top, Caller
<1>7. 1 + 1 = 2
  OBVIOUS
<1> QED
  BY <1>1, <1>3, <1>5, <1>6, <1>7

(* Its name is used up once it has begun, and not before: no function and  *)
(* no variable is defined twice.                                           *)
LEMMA NameFacts ==
  ASSUME IInv, Kind \in {"FUNCTION", "DATA"}, ~ Inside,
         NEW name, name = Top.node.val.name, NEW kind, kind = Kind
  PROVE  /\ name \notin Declared(kind)
         /\ stack'[1].node = stack[1].node /\ Begun' = stack[1].next + 1 =>
              name \in Declared(kind)'
<1>1. /\ stack[1].next + 1 \in DOMAIN Operands(stack[1].node)
      /\ Top.node = Operands(stack[1].node)[stack[1].next + 1]
      /\ stack[1].next \in Nat /\ stack[1].node \in Nodes
      /\ stack[1].node.kind = "PROGRAM"
  <2>1. Kind \in DeclKinds /\ Kind # "PROGRAM"
    BY DEF DeclKinds
  <2> QED
    BY <2>1, DeclFacts, ProgramFacts
<1>2. PICK j \in Nat : j = stack[1].next + 1
  BY <1>1
<1>3. PICK ops : ops = Operands(stack[1].node)
  OBVIOUS
<1>4. Begun = j - 1
  BY <1>1, <1>2 DEF Begun
<1>5. \A i \in 1 .. j - 1 : i \in DOMAIN ops /\ i # j
  <2>1. PICK m \in Nat : DOMAIN ops = 1 .. m
    BY <1>1, <1>3, Shape DEF WellShaped
  <2> QED
    BY <1>1, <1>2, <1>3, <2>1
<1>6. \A i, k \in DOMAIN ops :
        /\ ops[i].kind \in {"FUNCTION", "DATA"}
        /\ ops[k].kind = ops[i].kind
        /\ ops[k].val.name = ops[i].val.name
        => i = k
  <2>1. WellDeclared(stack[1].node)
    BY <1>1, NodesAssumption
  <2> QED
    BY <1>1, <1>3, <2>1 DEF WellDeclared
<1>7. ops[j].kind = kind /\ ops[j].val.name = name /\ j \in DOMAIN ops
  BY <1>1, <1>2, <1>3 DEF Kind
<1>8. name \notin Declared(kind)
  <2>1. Declared(kind) =
          {ops[k].val.name : k \in {k \in 1 .. j - 1 : ops[k].kind = kind}}
    BY <1>3, <1>4 DEF Declared
  <2> QED
    BY <1>5, <1>6, <1>7, <2>1
<1>9. ASSUME stack'[1].node = stack[1].node, Begun' = stack[1].next + 1
      PROVE  name \in Declared(kind)'
  <2>1. Declared(kind)' =
          {ops[k].val.name : k \in {k \in 1 .. j : ops[k].kind = kind}}
    BY <1>2, <1>3, <1>9 DEF Declared
  <2>2. j \in 1 .. j
    BY <1>1, <1>2
  <2> QED
    BY <1>7, <2>1, <2>2
<1> QED
  BY <1>8, <1>9

(* The program calls a declaration.                                        *)
LEMMA ProgramCalls ==
  ASSUME IInv, LInv, EvaluateOperand, Kind \in DeclKinds
  PROVE  LInv'
<1>1. /\ Kind = "PROGRAM" /\ Call(Top) /\ Continue
      /\ cur_label' = cur_label + 0 /\ UNCHANGED outfile
  <2>1. Kind \notin ExprKinds
    BY KindsApart
  <2>2. Kind = "PROGRAM"
    BY <2>1, KindFacts DEF EvaluateOperand, DeclKinds
  <2> QED
    BY <2>2, ReservedFacts DEF EvaluateOperand, KeepOutput
<1>2. Len(stack) = 1 /\ Top \in Frame
  BY <1>1, DeclarationPlace, TopFacts
<1>3. Top = stack[1] /\ ~ Inside
  BY <1>2 DEF Top, Inside
<1>4. /\ Len(stack') = 2 /\ stack'[1] = Top
      /\ stack'[2] = Activation(Operands(Top.node)[Top.next + 1])
  <2>1. 1 = Len(stack) /\ 1 + 1 = 2
    BY <1>2
  <2>2. /\ Len(stack') = 1 + 1 /\ stack'[1] = Top
        /\ stack'[1 + 1] = Activation(Operands(Top.node)[Top.next + 1])
    BY <1>1, <1>2, <2>1, PushFacts
  <2> QED
    BY <2>1, <2>2
<1>5. ~ Inside'
  BY <1>4 DEF Inside, Top, Activation
<1>6. /\ OuterOwed = {} /\ OuterBacks = {} /\ stack[1].next \in Nat
      /\ Pending(Top, Top.next) = {} /\ Back(Top, Top.next) = {}
      /\ Pending(Top, Top.next + 1) = {} /\ Back(Top, Top.next + 1) = {}
  BY <1>1, ProgramFacts, PendingFacts DEF Kind
<1>7. Owed = {} /\ Backs = {}
  BY <1>6 DEF Owed, Backs
<1>8. Owed' = {} /\ Backs' = {} /\ Apart'
  BY <1>1, <1>2, <1>6, PushOwes DEF LInv
<1>9. Reserved \subseteq Reserved'
  <2>1. Begun = stack[1].next /\ Begun' = stack[1].next
    BY <1>3, <1>4, <1>5, <1>6 DEF Begun
  <2>2. /\ Begun <= Begun' /\ stack'[1].next \in Nat /\ 0 \in Nat
        /\ stack'[1].node = stack[1].node
    BY <1>3, <1>4, <1>6, <2>1
  <2> QED
    BY <1>1, <1>6, <2>2, ReservedGrows
<1>10. Closed(outfile', Owed', Backs', Reserved')
  <2>1. Closed(outfile, {}, {}, Reserved)
    BY <1>7 DEF LInv
  <2>2. Closed(outfile, {}, {}, Reserved')
    BY <1>9, <2>1, ClosedWeakens
  <2> QED
    BY <1>1, <1>8, <2>2
<1>11. status' # "done"
  BY <1>1 DEF Continue, Running
<1> QED
  BY <1>5, <1>8, <1>10, <1>11 DEF LInv

(* The prologue of a function prints its name and owes its epilogue.       *)
LEMMA PrologueLabels ==
  ASSUME IInv, LInv, FunctionPrologue
  PROVE  LInv'
<1>1. /\ Kind = "FUNCTION" /\ Top.next = 0 /\ Call(Top) /\ Continue
      /\ cur_label' = cur_label + 0
  BY ReservedFacts DEF FunctionPrologue
<1>2. Kind \in DeclKinds /\ Kind # "PROGRAM"
  BY <1>1 DEF DeclKinds
<1>3. Len(stack) = 2 /\ stack[2] = Top /\ Top \in Frame
  BY <1>2, DeclFacts, TopFacts
<1>4. ~ Inside
  BY <1>1, <1>3 DEF Inside
<1>5. Len(stack') = 3 /\ stack'[1] = stack[1] /\ stack'[2] = Top
  <2>1. 2 = Len(stack) /\ 2 + 1 = 3 /\ 1 \in 1 .. 2 - 1
    BY <1>3
  <2>2. /\ Len(stack') = 2 + 1 /\ stack'[2] = Top
        /\ \A i \in 1 .. 2 - 1 : stack'[i] = stack[i]
    BY <1>1, <1>3, <2>1, PushFacts
  <2> QED
    BY <2>1, <2>2
<1>6. Inside'
  BY <1>5 DEF Inside
<1>7. PICK name : name = Top.node.val.name
  OBVIOUS
<1>8. /\ OuterOwed = {} /\ OuterBacks = {} /\ stack[1].next \in Nat
      /\ Pending(Top, Top.next) = {} /\ Back(Top, Top.next) = {}
      /\ Pending(Top, Top.next + 1) = {<<"epilogue", name>>}
      /\ Back(Top, Top.next + 1) = {}
  <2>1. Top.next + 1 = 1
    BY <1>1
  <2>2. Pending(Top, 1) = {<<"epilogue", name>>}
    <3>1. 1 # 2 /\ 1 # 3
      OBVIOUS
    <3> QED
      BY <1>1, <1>7, <3>1 DEF Pending, Kind
  <2>3. Top.node.kind # "FOR"
    BY <1>1 DEF Kind
  <2> QED
    BY <1>1, <1>2, <2>1, <2>2, <2>3, ProgramFacts, PendingFacts
<1>9. Owed = {} /\ Backs = {}
  BY <1>8 DEF Owed, Backs
<1>10. Owed' = {<<"epilogue", name>>} /\ Backs' = {} /\ Apart'
  BY <1>1, <1>3, <1>8, PushOwes DEF LInv
<1>11. /\ Begun = stack[1].next /\ Begun' = stack[1].next + 1
       /\ Begun <= Begun' /\ stack'[1].next \in Nat
       /\ stack'[1].node = stack[1].node
  BY <1>4, <1>5, <1>6, <1>8 DEF Begun
<1>12. Reserved \subseteq Reserved'
  <2>1. 0 \in Nat
    OBVIOUS
  <2> QED
    BY <1>1, <1>8, <1>11, <2>1, ReservedGrows
<1>13. name \notin Declared("FUNCTION") /\ name \in Declared("FUNCTION")'
  BY <1>1, <1>4, <1>7, <1>11, NameFacts
<1>14. /\ <<"function", name>> \notin Reserved /\ <<"epilogue", name>> \notin Reserved
       /\ <<"function", name>> \in Reserved' /\ <<"epilogue", name>> \in Reserved'
  <2>1. <<"function", name>> \notin Reserved
    BY <1>13 DEF Reserved, Label, StringLabel
  <2>2. <<"epilogue", name>> \notin Reserved
    BY <1>13 DEF Reserved, Label, StringLabel
  <2>3. <<"function", name>> \in Reserved' /\ <<"epilogue", name>> \in Reserved'
    BY <1>13 DEF Reserved
  <2> QED
    BY <2>1, <2>2, <2>3
<1>15. Closed(outfile', {}, {}, Reserved \cup {<<"function", name>>})
  <2>1. PICK f : f = Top.node.val
    OBVIOUS
  <2>2. f.params \in Nat /\ f.name = name
    BY <1>1, <1>7, <2>1, TopFacts, NodesAssumption DEF WellDeclared, Kind
  <2>3. Closed(outfile, {}, {}, Reserved)
    BY <1>9 DEF LInv
  <2>4. outfile' = outfile \o
                (<< <<".text">>, <<".globl", f.name>>, Define(<<"function", f.name>>),
                    <<"PUSHQ", Rbp>>, <<"MOVQ", Rsp, Rbp>> >>
                 \o [i \in 1 .. f.params |-> <<"PUSHQ", Argument(i)>>]
                 \o << <<"SUBQ", Imm((f.total - f.params) * 8), Rsp>> >>
                 \o SaveRegs)
    BY <2>1 DEF FunctionPrologue, Emit
  <2>5. <<"function", f.name>> \notin Reserved
    BY <1>14, <2>2
  <2>6. Closed(outfile', {}, {}, Reserved \cup {<<"function", f.name>>})
    BY <2>2, <2>3, <2>4, <2>5, PrologueCloses
  <2> QED
    BY <2>2, <2>6
<1>16. Closed(outfile', Owed', Backs', Reserved')
  <2> DEFINE T == {<<"epilogue", name>>}
             D == Reserved \cup {<<"function", name>>}
  <2>1. T \cap D = {} /\ D \cup T \subseteq Reserved'
    BY <1>12, <1>14
  <2>2. Closed(outfile', {}, {}, D)
    BY <1>15
  <2>3. {} \cup T = Owed'
    BY <1>10
  <2> HIDE DEF T, D
  <2>4. PICK text : text = outfile'
    OBVIOUS
  <2>5. Closed(text, {} \cup T, {}, D \cup T)
    BY <2>1, <2>2, <2>4, Promised
  <2>6. PICK E : E = Reserved'
    OBVIOUS
  <2>7. {} \subseteq {} /\ D \cup T \subseteq E
    BY <2>1, <2>6
  <2>8. Closed(text, {} \cup T, {}, E)
    BY <2>5, <2>7, ClosedWeakens
  <2> QED
    BY <1>10, <2>3, <2>4, <2>6, <2>8
<1>17. status' # "done" /\ stack'[2].node.kind = "FUNCTION"
  BY <1>1, <1>5 DEF Continue, Running, Kind
<1> QED
  BY <1>10, <1>16, <1>17 DEF LInv

(* A declaration returns to the program.                                   *)
LEMMA DeclReturns ==
  ASSUME IInv, LInv, Kind \in DeclKinds, Kind # "PROGRAM", Return
  PROVE  /\ Owed' = {} /\ Backs' = {} /\ Apart' /\ ~ Inside'
         /\ Begun' = stack[1].next + 1 /\ stack'[1].node = stack[1].node
         /\ \A k \in Nat : cur_label' = cur_label + k =>
              Reserved \cup Fresh(cur_label + 1, cur_label + k) \subseteq Reserved'
<1>1. /\ Len(stack) = 2 /\ stack[1] = Caller /\ Caller \in Frame
      /\ stack[1].next \in Nat /\ OuterOwed = {} /\ OuterBacks = {}
  BY DeclFacts, CallerFacts, ProgramFacts
<1> DEFINE f == [Caller EXCEPT !.next = @ + 1]
<1>2. /\ f \in Frame /\ f.node = Caller.node /\ f.lab = Caller.lab
      /\ f.next = Caller.next + 1 /\ ReturnTo(f)
  BY <1>1 DEF Frame, Return
<1> HIDE DEF f
<1>3. Len(stack') = 1 /\ stack'[1] = f
  <2>1. 2 = Len(stack) /\ 2 - 1 = 1
    BY <1>1
  <2>2. Len(stack') = 2 - 1 /\ stack'[2 - 1] = f
    BY <1>2, <2>1, PopFacts
  <2> QED
    BY <2>1, <2>2
<1>4. Owed' = {} /\ Backs' = {} /\ Apart'
  BY <1>1, <1>2, PopOwes DEF LInv
<1>5. ~ Inside'
  BY <1>3 DEF Inside
<1>6. Begun' = stack[1].next + 1 /\ stack'[1].node = stack[1].node
      /\ stack'[1].next \in Nat
  BY <1>1, <1>2, <1>3, <1>5 DEF Begun
<1>7. Begun <= Begun'
  BY <1>1, <1>6 DEF Begun
<1> QED
  BY <1>1, <1>4, <1>5, <1>6, <1>7, ReservedGrows

(* What a declaration owes is what it prints before it returns.            *)
LEMMA DeclLabels ==
  ASSUME IInv, LInv, Kind \in DeclKinds, Kind # "PROGRAM", Return, Continue,
         NEW T, T \cap Reserved = {}, Reserved \cup T \subseteq Reserved',
         NEW code, Emit(code), NEW M, Keeps(code, Owed \cup T, Backs, {}, M)
  PROVE  LInv'
<1>1. Owed' = {} /\ Backs' = {} /\ Apart' /\ ~ Inside'
  BY DeclReturns
<1>2. Closed(outfile, Owed, Backs, Reserved)
  BY DEF LInv
<1>3. Backs' \subseteq M
  BY <1>1
<1>4. Closed(outfile', Owed', Backs', Reserved')
  BY <1>1, <1>2, <1>3, StepCloses
<1>5. status' # "done"
  BY DEF Continue, Running
<1> QED
  BY <1>1, <1>4, <1>5 DEF LInv

(* The epilogue settles what the body of the function owed.                *)
LEMMA EpilogueLabels ==
  ASSUME IInv, LInv, FunctionEpilogue
  PROVE  LInv'
<1>1. /\ Kind = "FUNCTION" /\ Evaluated /\ Return /\ Continue
      /\ cur_label' = cur_label + 0
  BY ReservedFacts DEF FunctionEpilogue
<1>2. Kind \in DeclKinds /\ Kind # "PROGRAM"
  BY <1>1 DEF DeclKinds
<1>3. Top.next = 1
  <2>1. WellShaped(Top.node)
    BY TopFacts, Shape
  <2> QED
    BY <1>1, <2>1 DEF WellShaped, Kind, Evaluated
<1>4. stack[2] = Top /\ OuterOwed = {}
  BY <1>2, DeclFacts, ProgramFacts
<1>5. PICK t : t = Epilogue
  OBVIOUS
<1>6. Owed = {t} /\ t[1] # "function"
  <2>1. 1 # 2 /\ 1 # 3
    OBVIOUS
  <2>2. Pending(Top, 1) = {t}
    BY <1>1, <1>4, <1>5, <2>1 DEF Pending, Epilogue, Kind
  <2>3. t[1] = "epilogue"
    BY <1>5 DEF Epilogue
  <2> QED
    BY <1>3, <1>4, <2>2, <2>3 DEF Owed
<1>7. PICK code : code = <<Define(t)>> \o RestoreRegs
                         \o << <<"MOVQ", Rbp, Rsp>>, <<"POPQ", Rbp>>, <<"RET">> >>
  OBVIOUS
<1>8. Emit(code)
  BY <1>5, <1>7 DEF FunctionEpilogue
<1>9. Keeps(code, Owed \cup {}, Backs, {}, Backs \cup {t})
  <2>1. t \in {t} /\ {t} \ {t} = {} /\ Owed \cup {} = {t}
    BY <1>6
  <2>2. Keeps(<<Define(t)>> \o RestoreRegs
              \o << <<"MOVQ", Rbp, Rsp>>, <<"POPQ", Rbp>>, <<"RET">> >>,
              {t}, Backs, {t} \ {t}, Backs \cup {t})
    BY <1>6, <2>1, EpilogueKeeps
  <2> QED
    BY <1>7, <2>1, <2>2
<1>10. {} \cap Reserved = {} /\ Reserved \cup {} \subseteq Reserved'
  <2>1. 0 \in Nat
    OBVIOUS
  <2> QED
    BY <1>1, <1>2, <2>1, DeclReturns
<1> QED
  BY <1>1, <1>2, <1>8, <1>9, <1>10, DeclLabels

(* A prototype prints no label.                                            *)
LEMMA PrototypeLabels ==
  ASSUME IInv, LInv, Prototype
  PROVE  LInv'
<1>1. /\ Kind = "PROTOTYPE" /\ Return /\ Continue /\ cur_label' = cur_label + 0
  BY ReservedFacts DEF Prototype
<1>2. Kind \in DeclKinds /\ Kind # "PROGRAM"
  BY <1>1 DEF DeclKinds
<1>3. Owed = {}
  BY <1>1, <1>2, ProgramFacts, PendingFacts DEF Owed, Kind
<1>4. PICK code : code = << <<".text">>, <<".globl", Top.node.val.name>> >>
  OBVIOUS
<1>5. Reads(code, {})
  <2>1. Reading(<<".text">>, {}) /\ Reading(<<".globl", Top.node.val.name>>, {})
    BY PlainLines DEF Plain
  <2>2. Reads(<< <<".text">>, <<".globl", Top.node.val.name>> >>, {})
    BY <2>1, Reads2
  <2> QED
    BY <1>4, <2>2
<1>6. Emit(code)
  BY <1>4 DEF Prototype
<1>7. Keeps(code, Owed \cup {}, Backs, {}, Backs)
  <2>1. Owed \cup {} = {}
    BY <1>3
  <2> QED
    BY <1>5, <2>1, ReadsNothing
<1>8. {} \cap Reserved = {} /\ Reserved \cup {} \subseteq Reserved'
  <2>1. 0 \in Nat
    OBVIOUS
  <2> QED
    BY <1>1, <1>2, <2>1, DeclReturns
<1> QED
  BY <1>1, <1>2, <1>6, <1>7, <1>8, DeclLabels

(* A variable prints its name and at most one label.                       *)
LEMMA GlobalLabels ==
  ASSUME IInv, LInv, GlobalData
  PROVE  LInv'
<1>1. PICK d : d = Top.node.val
  OBVIOUS
<1>2. PICK k \in Nat : k = IF Indirect(d) /\ d.init # <<>> THEN 1 ELSE 0
  OBVIOUS
<1>3. Kind = "DATA" /\ Return /\ Continue /\ cur_label' = cur_label + k
  BY <1>1, <1>2 DEF GlobalData
<1>4. Kind \in DeclKinds /\ Kind # "PROGRAM"
  BY <1>3 DEF DeclKinds
<1>5. Owed = {} /\ Len(stack) = 2
  BY <1>3, <1>4, DeclFacts, ProgramFacts, PendingFacts DEF Owed, Kind
<1>6. ~ Inside
  BY <1>3, <1>5 DEF Inside
<1>7. PICK l \in Int : l = cur_label + 1
  BY ReservedFacts
<1>8. PICK g : g = <<"global", d.name>>
  OBVIOUS
<1>9. PICK T : T = DataLabels(d, l) \cup {g}
  OBVIOUS
<1>10. DataLabels(d, l) \subseteq Fresh(cur_label + 1, cur_label + k)
  <2>1. CASE Indirect(d) /\ d.init # <<>>
    <3>1. DataLabels(d, l) = {StringLabel(l)} /\ k = 1
      BY <1>2, <2>1 DEF DataLabels
    <3>2. l \in cur_label + 1 .. cur_label + k
      BY <1>7, <3>1, ReservedFacts
    <3> QED
      BY <3>1, <3>2 DEF Fresh
  <2>2. CASE ~ (Indirect(d) /\ d.init # <<>>)
    BY <2>2 DEF DataLabels
  <2> QED
    BY <2>1, <2>2
<1>11. d.name \notin Declared("DATA") /\ d.name \in Declared("DATA")'
  BY <1>1, <1>3, <1>4, <1>6, NameFacts, DeclReturns
<1>12. T \cap Reserved = {} /\ Reserved \cup T \subseteq Reserved'
  <2>1. g \notin Reserved
    BY <1>8, <1>11 DEF Reserved, Label, StringLabel
  <2>2. g \in Reserved'
    BY <1>8, <1>11 DEF Reserved
  <2>3. DataLabels(d, l) \cap Reserved = {}
    BY <1>10, ReservedFacts
  <2>4. Reserved \cup DataLabels(d, l) \subseteq Reserved'
    BY <1>3, <1>4, <1>10, DeclReturns
  <2> QED
    BY <1>9, <2>1, <2>2, <2>3, <2>4
<1>13. PICK code : code = DataCode(d, l)
  OBVIOUS
<1>14. Emit(code)
  BY <1>1, <1>7, <1>13 DEF GlobalData
<1>15. Keeps(code, Owed \cup T, Backs, {}, Backs \cup T)
  <2>1. Len(d.init) \in Nat /\ DOMAIN d.init = 1 .. Len(d.init)
    BY <1>1, <1>3, TopFacts, NodesAssumption DEF WellDeclared, Kind
  <2>2. DataLabels(d, l) \cap {} = {} /\ <<"global", d.name>> \notin {}
    OBVIOUS
  <2>3. Keeps(DataCode(d, l), {} \cup DataLabels(d, l) \cup {<<"global", d.name>>}, Backs,
              {}, Backs \cup DataLabels(d, l) \cup {<<"global", d.name>>})
    BY <2>1, <2>2, DataKeeps
  <2>4. /\ {} \cup DataLabels(d, l) \cup {<<"global", d.name>>} = Owed \cup T
        /\ Backs \cup DataLabels(d, l) \cup {<<"global", d.name>>} = Backs \cup T
    BY <1>5, <1>8, <1>9
  <2> QED
    BY <1>13, <2>3, <2>4
<1> QED
  BY <1>3, <1>4, <1>12, <1>14, <1>15, DeclLabels

(***************************************************************************)
(* The whole walk.                                                         *)
(***************************************************************************)

(* A step that only changes the status.                                    *)
LEMMA SameLabels ==
  ASSUME LInv, UNCHANGED <<stack, outfile, cur_label>>,
         status' = "done" => Kind = "PROGRAM"
  PROVE  LInv'
<1>1. Top' = Top /\ Kind' = Kind /\ Inside' = Inside
  BY DEF Top, Kind, Inside
<1>2. OuterOwed' = OuterOwed /\ OuterBacks' = OuterBacks
  BY DEF OuterOwed, OuterBacks
<1>3. Owed' = Owed /\ Backs' = Backs /\ (Apart => Apart')
  BY <1>1, <1>2 DEF Owed, Backs, Apart
<1>4. Begun' = Begun
  BY <1>1 DEF Begun
<1>5. Declared("FUNCTION")' = Declared("FUNCTION") /\ Declared("DATA")' = Declared("DATA")
  BY <1>4 DEF Declared
<1>6. Reserved' = Reserved
  BY <1>5 DEF Reserved, Numbers
<1> QED
  BY <1>1, <1>3, <1>6 DEF LInv

(* Every step of the walk keeps its promises.                              *)
LEMMA StepLabels ==
  ASSUME IInv, LInv, Ungrouped, [Next]_vars
  PROVE  LInv'
<1>1. CASE Expression
  <2>1. \A g \in Garbage : ~ FinishGroup(g)
    BY TopFacts DEF FinishGroup, Ungrouped, Kind
  <2>2. CASE EvaluateOperand
    BY <2>2, EvaluateLabels, ProgramCalls
  <2> QED
    BY <1>1, <2>1, <2>2, OperatorsLabels, LeavesAndCallsLabels, TernaryLabels
       DEF Expression
<1>2. CASE Statement
  BY <1>2, PlainStatementLabels, PrintLabels, BranchReadsLabels,
     BranchDefinesLabels DEF Statement
<1>3. CASE Finish
  <2>1. UNCHANGED <<stack, outfile, cur_label>> /\ Kind = "PROGRAM"
    BY <1>3 DEF Finish
  <2> QED
    BY <2>1, SameLabels
<1>4. CASE Declaration
  BY <1>3, <1>4, PrologueLabels, EpilogueLabels, PrototypeLabels, GlobalLabels
     DEF Declaration
<1>5. CASE Exit \/ UNCHANGED vars
  <2>1. /\ UNCHANGED <<stack, outfile, cur_label>>
        /\ status' = "done" => Kind = "PROGRAM"
    BY <1>5 DEF LInv, Exit, Exhausted, UnknownRegister, TooManyArguments, Unprintable,
                ArrayNotImplemented, ElementTypeMissing, Abort, vars
  <2> QED
    BY <2>1, SameLabels
<1> QED
  BY <1>1, <1>2, <1>4, <1>5 DEF Next, Terminated

(* In a finished file no label is defined twice, every label an            *)
(* instruction mentions is defined, and a jump stays inside its function.  *)
THEOREM LabelsHold == Ungrouped => (Spec => []LabelsSound)
<1>1. ASSUME CodegenInit
      PROVE  LInv
  <2>1. PICK p \in Programs : stack = <<Activation(p)>>
    BY <1>1 DEF CodegenInit
  <2>2. /\ outfile = <<>> /\ Len(stack) = 1 /\ stack[1] = Activation(p)
        /\ status # "done"
    BY <1>1, <2>1 DEF CodegenInit
  <2>3. Top = stack[1] /\ Kind = "PROGRAM" /\ ~ Inside
    BY <2>2, NodesAssumption DEF Top, Kind, Activation, Inside
  <2>4. \A i \in 1 .. Len(stack) - 1 : FALSE
    BY <2>2
  <2>5. Pending(Top, Top.next) = {} /\ Back(Top, Top.next) = {}
    BY <2>3, PendingFacts DEF Kind
  <2>6. OuterOwed = {} /\ OuterBacks = {}
    BY <2>4 DEF OuterOwed, OuterBacks
  <2>7. Owed = {} /\ Backs = {} /\ Apart
    BY <2>4, <2>5, <2>6 DEF Owed, Backs, Apart
  <2>8. Listing(outfile) /\ DOMAIN outfile = {}
    BY <2>2, Lines0 DEF Lines
  <2>9. Closed(outfile, {}, {}, Reserved)
    BY <2>8 DEF Closed
  <2> QED
    BY <2>2, <2>3, <2>7, <2>9 DEF LInv
<1>2. Ungrouped /\ IInv /\ LInv /\ [Next]_vars => LInv'
  BY StepLabels
<1>3. ASSUME IInv, LInv
      PROVE  LabelsSound
  <2>1. ASSUME status = "done"
        PROVE  \A i \in DOMAIN outfile : \A t \in Targets(outfile[i]) :
                 Settled(outfile, i, t)
    <3>1. Kind = "PROGRAM"
      BY <1>3, <2>1 DEF LInv
    <3>2. Kind \in DeclKinds
      BY <3>1 DEF DeclKinds
    <3>3. Owed = {}
      BY <1>3, <3>1, <3>2, ProgramFacts, PendingFacts DEF Owed, Kind
    <3> QED
      BY <1>3, <3>3 DEF LInv, Closed
  <2>2. \A i, j \in DOMAIN outfile :
          outfile[i][1] = "define" /\ outfile[i] = outfile[j] => i = j
    BY <1>3 DEF LInv, Closed
  <2> QED
    BY <2>1, <2>2 DEF LabelsSound, Settled, IsFunction
<1>4. Ungrouped => []Ungrouped
  BY DEF Ungrouped
<1> QED
  BY <1>1, <1>2, <1>3, <1>4, Invariant, PTL DEF Spec
=============================================================================

-------------------------------- MODULE Exits --------------------------------
(***************************************************************************)
(* What in a tree makes the code generator give up, written independently  *)
(* of the handlers: how many scratch registers the tree needs, and which   *)
(* of its nodes ask for what is not there.                                 *)
(*                                                                         *)
(* Operands are evaluated in order and each keeps its register while the   *)
(* next ones are evaluated, except that the arms of a ternary share one    *)
(* and that a statement keeps none.  Need is the peak.  Need and Tree are  *)
(* given by their equations, because they are recursive.                   *)
(***************************************************************************)
EXTENDS Codegen

CONSTANTS
  Need,         \* node -> the registers its evaluation takes at its peak
  Tree          \* node -> the nodes of the tree below it, itself included

(* The registers that operand i finds in use by its own operator. *)
Before(n, i) ==
  CASE n.kind \notin ExprKinds -> 0
    [] n.kind = "TERNARY1" -> IF i = 1 THEN 0 ELSE 1
    [] OTHER -> i - 1

(* The result of an expression takes a register, whatever its operands. *)
Result(n) == IF n.kind \in ExprKinds \ {"GROUP"} THEN 1 ELSE 0

ASSUME NeedAssumption ==
  \A n \in Nodes :
    LET peak(i) == Before(n, i) + Need[Operands(n)[i]] IN
    /\ Need[n] \in Nat
    /\ Need[n] >= Result(n)
    /\ \A i \in DOMAIN Operands(n) : Need[n] >= peak(i)
    /\ Need[n] = Result(n) \/ \E i \in DOMAIN Operands(n) : Need[n] = peak(i)

ASSUME TreeAssumption ==
  \A n \in Nodes :
    Tree[n] = {n} \cup UNION {Tree[Operands(n)[i]] : i \in DOMAIN Operands(n)}

(* An exponentiation is compiled as a call with two arguments, and a print *)
(* statement carries the type of each of its operands.                     *)
ASSUME ArgumentsAssumption ==
  /\ MaxArgs \in Nat /\ MaxArgs >= 2
  /\ \A n \in Nodes :
       /\ n.kind = "EXPONENT" => Len(Operands(n)) = 2
       /\ n.kind = "PRINT" => DOMAIN n.val = DOMAIN Operands(n)

(* scratch_alloc runs out of registers only for a program that needs more  *)
(* than there are, and a program that needs more is never compiled: no     *)
(* register is kept longer than the order of evaluation makes necessary.   *)
ExhaustionExact ==
  /\ status = "no free registers" => Need[stack[1].node] > NumRegs
  /\ status = "done" => Need[stack[1].node] <= NumRegs

(* What in a node makes a handler exit, or follow a null pointer. *)
Offends(n) ==
  [ GROUP |-> n.kind = "GROUP",
    ARGUMENTS |-> \/ n.kind = "FCALL" /\ Len(Operands(n)) > MaxArgs
                  \/ n.kind = "FUNCTION" /\ n.val.params > MaxArgs,
    PRINT |-> n.kind = "PRINT" /\ \E i \in DOMAIN n.val : n.val[i] \notin Printable,
    DATA |-> n.kind = "DATA" /\ ArrayOfNonIntegers(n.val),
    SUBTYPE |-> n.kind = "DATA" /\ Elementless(n.val) ]

Has(cause) == \E n \in Tree[stack[1].node] : Offends(n)[cause]

(* Every exit and every crash has its cause in the program, and a program  *)
(* with a cause is never compiled; scratch_name and scratch_free meet an   *)
(* unknown register only after a GROUP node, whose register may be any     *)
(* value.                                                                  *)
ExitsJustified ==
  /\ status = "unknown register" => Has("GROUP")
  /\ status = "no free registers" =>
       Has("GROUP") \/ Need[stack[1].node] > NumRegs
  /\ status = "too many arguments" => Has("ARGUMENTS")
  /\ status = "unprintable type" => Has("PRINT")
  /\ status = "array of non-integers" => Has("DATA")
  /\ status = "null subtype" => Has("SUBTYPE")
  /\ status = "done" =>
       /\ Need[stack[1].node] <= NumRegs \/ Has("GROUP")
       /\ ~ Has("ARGUMENTS") /\ ~ Has("PRINT") /\ ~ Has("DATA")
       /\ ~ Has("SUBTYPE")
=============================================================================

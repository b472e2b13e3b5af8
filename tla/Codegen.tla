------------------------------ MODULE Codegen ------------------------------
(***************************************************************************)
(* Code generation: decl_codegen_global, decl_codegen_local, stmt_codegen, *)
(* expr_codegen, expr_compare and expr_call_func, which walk the tree of a *)
(* program that passed the type checker and write assembly to outfile.     *)
(*                                                                         *)
(* "stack" is the C call stack of the walk.  An activation of a handler is *)
(*   node   the tree node it generates code for                            *)
(*   next   how many of its operands have returned                         *)
(*   held   the reg fields of the operands it has yet to free, in the      *)
(*          order in which the operands returned                           *)
(*   lab    the first of the two labels it created, when it creates them   *)
(*          before its last operand                                        *)
(* Everything a handler does between two recursive calls is one action.    *)
(***************************************************************************)
EXTENDS Ast, Scratch

CONSTANTS
  Programs,     \* the trees given to the code generator
  Nodes,        \* every node of those trees
  MaxArgs,      \* MAX_ARGS of decl.c
  Garbage       \* what the reg field of a new GROUP node may contain

VARIABLES
  stack,        \* activations, the innermost last
  cur_label,    \* the counter of label.c
  outfile,      \* the instructions, directives and labels written so far
  status        \* "running", "done", or what ended the process

vars == <<stack, reg_free_map, NUM_REGS, cur_label, outfile, status>>

Activation(n) == [node |-> n, next |-> 0, held |-> <<>>, lab |-> -1]

Top == stack[Len(stack)]
Kind == Top.node.kind

(***************************************************************************)
(* What the emitted text is made of.  scratch_name, label_name and         *)
(* symbol_codegen print operands; here an operand is a tuple.              *)
(***************************************************************************)
R(r) == <<"scratch", r>>
Argument(i) == <<"arg_reg", i>>
Rax == <<"rax">>
Rdx == <<"rdx">>
Rbp == <<"rbp">>
Rsp == <<"rsp">>
Imm(v) == <<"imm", v>>
At(base, index) == <<"indexed", base, index>>
Label(l) == <<"L", l>>
StringLabel(l) == <<"SL", l>>

(* Mutant of symbol_codegen: the slots grow upwards. *)
symbol_codegen_up(s) ==
  IF s.kind = "GLOBAL" THEN <<"global", s.name>>
                       ELSE <<"frame", 8 * (s.which + 1)>>

symbol_codegen(s) ==
  IF s.kind = "GLOBAL" THEN <<"global", s.name>>
                       ELSE <<"frame", -8 * (s.which + 1)>>

Define(l) == <<"define", l>>

Jump == [GT |-> "JG", LT |-> "JL", GTE |-> "JGE", LTE |-> "JLE",
         EQ |-> "JE", NOT_EQ |-> "JNE"]

(* expr_compare and the NOT case turn flags into 0 or 1 with two labels.   *)
Flag(jump, onFall, onJump, r, l) ==
  << <<jump, Label(l)>>, <<"MOVQ", Imm(onFall), R(r)>>,
     <<"JMP", Label(l + 1)>>, Define(Label(l)),
     <<"MOVQ", Imm(onJump), R(r)>>, Define(Label(l + 1)) >>

Through(op, l, r, from) ==
  << <<"MOVQ", R(l), Rax>> >> \o
  (IF op = "IDIVQ" THEN << <<"CQO">> >> ELSE <<>>) \o
  << <<op, R(r)>>, <<"MOVQ", from, R(r)>> >>

(* Mutant of CallSequence: the result always lands in rbx. *)
CallSequenceToRbx(h, name, result) ==
  [i \in 1 .. Len(h) |-> <<"MOVQ", R(h[i]), Argument(i)>>] \o
  << <<"CALL", name>>, <<"MOVQ", Rax, R(0)>> >>

(* Mutant of CallSequence: r10 and r11 are left to the callee. *)
CallSequenceUnsaved(h, name, result) ==
  [i \in 1 .. Len(h) |-> <<"MOVQ", R(h[i]), Argument(i)>>] \o
  << <<"MOVQ", Imm(0), Rax>>, <<"CALL", name>>, <<"MOVQ", Rax, R(result)>> >>

(* expr_call_func after its arguments are evaluated into the registers h.  *)
CallSequence(h, name, result) ==
  [i \in 1 .. Len(h) |-> <<"MOVQ", R(h[i]), Argument(i)>>] \o
  << <<"MOVQ", Imm(0), Rax>>, <<"PUSHQ", R(1)>>, <<"PUSHQ", R(2)>>,
     <<"CALL", name>>, <<"POPQ", R(2)>>, <<"POPQ", R(1)>>,
     <<"MOVQ", Rax, R(result)>> >>

(* What the case of an operator prints once its operands h are in          *)
(* registers; l is the next unused label.                                  *)
OperatorCode(n, h, l) ==
  CASE n.kind = "ADD" -> << <<"ADDQ", R(h[2]), R(h[1])>> >>
    [] n.kind = "SUB" -> << <<"SUBQ", R(h[2]), R(h[1])>> >>
    [] n.kind = "AND" -> << <<"ANDQ", R(h[2]), R(h[1])>> >>
    [] n.kind = "OR"  -> << <<"ORQ", R(h[2]), R(h[1])>> >>
    [] n.kind = "MUL" -> Through("IMULQ", h[1], h[2], Rax)
    [] n.kind = "DIV" -> Through("IDIVQ", h[1], h[2], Rax)
    [] n.kind = "MOD" -> Through("IDIVQ", h[1], h[2], Rdx)
    [] n.kind = "INDEX" -> << <<"MOVQ", At(h[1], h[2]), R(h[1])>> >>
    [] n.kind = "NEGATION" ->
         << <<"NOTQ", R(h[1])>>, <<"ADDQ", Imm(1), R(h[1])>> >>
    [] n.kind = "NOT" ->
         << <<"CMPQ", Imm(0), R(h[1])>> >> \o Flag("JE", 0, 1, h[1], l)
    [] n.kind \in Comparison ->
         << <<"CMPQ", R(h[2]), R(h[1])>> >> \o Flag(Jump[n.kind], 0, 1, h[1], l)
    [] OTHER -> <<>>

(* INCREMENT and DECREMENT add to the variable or the array element, whose *)
(* base and index were evaluated a second time.                            *)
StepCode(n, h) ==
  LET op == IF n.kind = "INCREMENT" THEN "ADDQ" ELSE "SUBQ"
      target == IF n.sub[1].kind = "ID" THEN symbol_codegen(n.sub[1].val)
                                        ELSE At(h[2], h[3])
  IN  << <<op, Imm(1), target>> >>

(* Mutant of AssignCode: the order of the operands is that of the tree. *)
AssignCodeAsRead(n, h) ==
  LET target == IF n.sub[1].kind = "ID" THEN symbol_codegen(n.sub[1].val)
                                        ELSE At(h[2], h[3])
  IN  << <<"MOVQ", R(h[1]), target>> >>

AssignCode(n, h) ==
  LET target == IF n.sub[1].kind = "ID" THEN symbol_codegen(n.sub[1].val)
                                        ELSE At(h[3], h[2])
  IN  << <<"MOVQ", R(h[1]), target>> >>

(* Mutant of LeafCode: no return to the text section. *)
LeafCodeInData(n, r, l) ==
  CASE n.kind = "ID" -> << <<"MOVQ", symbol_codegen(n.val), R(r)>> >>
    [] n.kind = "STR_LIT" ->
         << <<".data">>, Define(StringLabel(l)), <<".string", Imm(n.val)>>,
            <<"LEAQ", StringLabel(l), R(r)>> >>
    [] OTHER -> << <<"MOVQ", Imm(n.val), R(r)>> >>

LeafCode(n, r, l) ==
  CASE n.kind = "ID" -> << <<"MOVQ", symbol_codegen(n.val), R(r)>> >>
    [] n.kind = "STR_LIT" ->
         << <<".data">>, Define(StringLabel(l)), <<".string", Imm(n.val)>>,
            <<".text">>, <<"LEAQ", StringLabel(l), R(r)>> >>
    [] OTHER -> << <<"MOVQ", Imm(n.val), R(r)>> >>

(* The library function of a print statement, by the type of the operand.  *)
PrintFunction ==
  [BOOLEAN |-> "print_boolean", CHARACTER |-> "print_character",
   INTEGER |-> "print_integer", STRING |-> "print_string"]
Printable == DOMAIN PrintFunction

(***************************************************************************)
(* The recursive calls a handler makes, in order.                          *)
(***************************************************************************)
Operands(n) ==
  CASE n.kind \in Step /\ n.sub[1].kind = "INDEX" ->
         <<n.sub[1], n.sub[1].sub[1], n.sub[1].sub[2]>>
    [] n.kind = "ASSIGN" /\ n.sub[1].kind = "INDEX" ->
         <<n.sub[2], n.sub[1].sub[2], n.sub[1].sub[1]>>
    [] n.kind = "ASSIGN" /\ n.sub[1].kind # "INDEX" -> <<n.sub[2]>>
    [] n.kind = "FOR" -> <<n.sub[1], n.sub[2], n.sub[4], n.sub[3]>>
    [] OTHER -> n.sub

(* The operators by the operand whose register becomes their own. *)
KeepsLeft == {"ADD", "SUB", "AND", "OR", "INDEX"} \cup Comparison
KeepsRight == {"MUL", "DIV", "MOD"}
Unary == {"NEGATION", "NOT", "ARG", "BRACE"}

(* Nodes whose operands leave no register behind. *)
Holdless == {"NONE", "BLOCK", "PROTOTYPE", "DATA", "FUNCTION", "PROGRAM"}

(* What the grammar guarantees of a node: how many operands its kind has,  *)
(* that expressions are made of expressions, and that blocks, functions    *)
(* and programs are not.                                                   *)
WellShaped(n) ==
  LET ops == Operands(n) IN
  /\ n.kind \in Kinds
  /\ Len(ops) \in Nat /\ DOMAIN ops = 1 .. Len(ops)
  /\ n.kind \in Leaf \cup {"NONE", "PROTOTYPE", "DATA"} => Len(ops) = 0
  /\ n.kind \in {"EXPR", "RETURN", "DECL"} => Len(ops) <= 1
  /\ n.kind \in Unary \cup {"FUNCTION"} => Len(ops) = 1
  /\ n.kind \in KeepsLeft \cup KeepsRight => Len(ops) = 2
  /\ n.kind \in Step \cup {"ASSIGN"} => Len(ops) > 0
  /\ n.kind \in {"TERNARY1", "IF_ELSE"} => Len(ops) = 3
  /\ n.kind = "FOR" => Len(ops) = 4
  /\ n.kind \in ExprKinds => \A i \in DOMAIN ops : ops[i].kind \in ExprKinds
  /\ n.kind \in Holdless => \A i \in DOMAIN ops : ops[i].kind \notin ExprKinds

(* What it guarantees of declarations: that a program is made of them and  *)
(* nothing else contains any, and what they carry.  Name resolution lets a *)
(* program pass only if no function and no variable is defined twice.      *)
WellDeclared(n) ==
  /\ \A i \in DOMAIN Operands(n) :
       /\ Operands(n)[i].kind # "PROGRAM"
       /\ Operands(n)[i].kind \in DeclKinds <=> n.kind = "PROGRAM"
  /\ \A i, j \in DOMAIN Operands(n) :
       /\ n.kind = "PROGRAM"
       /\ Operands(n)[i].kind \in {"FUNCTION", "DATA"}
       /\ Operands(n)[j].kind = Operands(n)[i].kind
       /\ Operands(n)[j].val.name = Operands(n)[i].val.name
       => i = j
  /\ n.kind = "FUNCTION" => n.val.params \in Nat
  /\ n.kind = "DATA" =>
       /\ n.val.type \in {"INTEGER", "BOOLEAN", "CHARACTER", "STRING", "ARRAY"}
       /\ Len(n.val.init) \in Nat /\ DOMAIN n.val.init = 1 .. Len(n.val.init)

Children == UNION {{Operands(n)[i] : i \in DOMAIN Operands(n)} : n \in Nodes}

ASSUME NodesAssumption ==
  /\ \A p \in Programs : p.kind = "PROGRAM"
  /\ Programs \cup Children \subseteq Nodes
  /\ \A n \in Nodes : WellShaped(n) /\ WellDeclared(n)

Evaluated == Top.next = Len(Operands(Top.node))

(***************************************************************************)
(* The two moves of the walk: call the next handler, or return to the      *)
(* caller, with a register for an expression and without one otherwise.    *)
(***************************************************************************)
Call(frame) ==
  stack' = Append([stack EXCEPT ![Len(stack)] = frame],
                  Activation(Operands(frame.node)[frame.next + 1]))

Caller == stack[Len(stack) - 1]

ReturnTo(frame) ==
  stack' = [SubSeq(stack, 1, Len(stack) - 1) EXCEPT ![Len(stack) - 1] = frame]

ReturnReg(r) ==
  ReturnTo([Caller EXCEPT !.next = @ + 1, !.held = Append(@, r)])

Return == ReturnTo([Caller EXCEPT !.next = @ + 1])

Emit(code) == outfile' = outfile \o code

(***************************************************************************)
(* Most portions of a handler name or free the registers they hold, and    *)
(* scratch_name and scratch_free exit on a register they do not know.  A   *)
(* portion that only evaluates one more operand, and a node that only      *)
(* passes a register up, look at none.                                     *)
(***************************************************************************)
HeldSet == {Top.held[i] : i \in DOMAIN Top.held}

Silent ==
  \/ Kind \in {"ARG", "BRACE", "GROUP", "NONE"}
  \/ Kind \in ExprKinds \ {"TERNARY1"} /\ ~ Evaluated
  \/ Kind = "TERNARY1" /\ Top.next = 0

(* The prologue and the epilogue of a function name every register. *)
Consulted == IF Silent THEN {} ELSE IF Kind = "FUNCTION" THEN Regs ELSE HeldSet

Running ==
  /\ status = "running"
  /\ \A r \in Consulted : Known(r)

Continue == Running /\ UNCHANGED status

KeepScratch == UNCHANGED scratchVars
KeepOutput == UNCHANGED <<cur_label, outfile>>

CodegenInit ==
  /\ ScratchInit
  /\ \E p \in Programs : stack = <<Activation(p)>>
  /\ cur_label = -1
  /\ outfile = <<>>
  /\ status = "running"

(***************************************************************************)
(* Expressions.                                                            *)
(***************************************************************************)

(* Mutant of SkipNull: the caller is not moved on. *)
SkipNullAgain ==
  /\ Continue /\ Kind = "NONE"
  /\ ReturnTo(Caller)
  /\ KeepScratch /\ KeepOutput

(* expr_codegen(0) and stmt_codegen(0) return at once. *)
SkipNull ==
  /\ Continue /\ Kind = "NONE"
  /\ Return
  /\ KeepScratch /\ KeepOutput

(* A handler that has nothing to print before its next recursive call. *)
EvaluateOperand ==
  /\ Continue /\ ~ Evaluated
  /\ \/ Kind \in ExprKinds \ {"TERNARY1"}
     \/ Kind \in {"EXPR", "RETURN", "DECL", "BLOCK", "PROGRAM"}
     \/ Kind = "TERNARY1" /\ Top.next = 0
  /\ Call(Top)
  /\ KeepScratch /\ KeepOutput

LoadLeaf(r) ==
  /\ Continue /\ Kind \in Leaf
  /\ scratch_alloc(r)
  /\ ReturnReg(r)
  /\ Emit(LeafCode(Top.node, r, cur_label + 1))
  /\ cur_label' = IF Kind = "STR_LIT" THEN cur_label + 1 ELSE cur_label

(* Gives back all operands but one, whose register becomes e->reg. *)
FinishWith(keep, code, labels) ==
  /\ Continue /\ Evaluated
  /\ scratch_free({Top.held[i] : i \in DOMAIN Top.held \ {keep}})
  /\ ReturnReg(Top.held[keep])
  /\ Emit(code)
  /\ cur_label' = cur_label + labels

(* Mutant of FinishLeft: the right register is not given back. *)
FinishLeftLeaks ==
  /\ Kind \in KeepsLeft
  /\ Continue /\ Evaluated
  /\ ReturnReg(Top.held[1])
  /\ Emit(OperatorCode(Top.node, Top.held, cur_label + 1))
  /\ cur_label' = cur_label + (IF Kind \in Comparison THEN 2 ELSE 0)
  /\ KeepScratch

FinishLeft ==
  /\ Kind \in KeepsLeft
  /\ FinishWith(1, OperatorCode(Top.node, Top.held, cur_label + 1),
                IF Kind \in Comparison THEN 2 ELSE 0)

FinishRight ==
  /\ Kind \in KeepsRight
  /\ FinishWith(2, OperatorCode(Top.node, Top.held, cur_label + 1), 0)

FinishUnary ==
  /\ Kind \in Unary
  /\ FinishWith(1, OperatorCode(Top.node, Top.held, cur_label + 1),
                IF Kind = "NOT" THEN 2 ELSE 0)

FinishStep ==
  /\ Kind \in Step
  /\ FinishWith(1, StepCode(Top.node, Top.held), 0)

FinishAssign ==
  /\ Kind = "ASSIGN"
  /\ FinishWith(1, AssignCode(Top.node, Top.held), 0)

(* The GROUP case sets no reg: expr_create left it uninitialised, and the  *)
(* register of the inner expression is forgotten.                          *)
FinishGroup(g) ==
  /\ Continue /\ Kind = "GROUP" /\ Evaluated
  /\ ReturnReg(g)
  /\ KeepScratch /\ KeepOutput

TernaryTest ==
  LET l == cur_label + 1 IN
  /\ Continue /\ Kind = "TERNARY1" /\ Top.next = 1
  /\ Emit(<< <<"CMPQ", Imm(0), R(Top.held[1])>>, <<"JE", Label(l)>> >>)
  /\ Call([Top EXCEPT !.lab = l])
  /\ cur_label' = cur_label + 2
  /\ KeepScratch

MoveArm == <<"MOVQ", R(Top.held[2]), R(Top.held[1])>>

(* Mutant of TernaryFirst: the register of the first arm is kept. *)
TernaryFirstKeeps ==
  /\ Continue /\ Kind = "TERNARY1" /\ Top.next = 2
  /\ Emit(<<MoveArm, <<"JMP", Label(Top.lab + 1)>>, Define(Label(Top.lab))>>)
  /\ Call(Top)
  /\ KeepScratch /\ UNCHANGED cur_label

TernaryFirst ==
  /\ Continue /\ Kind = "TERNARY1" /\ Top.next = 2
  /\ Emit(<<MoveArm, <<"JMP", Label(Top.lab + 1)>>, Define(Label(Top.lab))>>)
  /\ scratch_free({Top.held[2]})
  /\ Call([Top EXCEPT !.held = <<Top.held[1]>>])
  /\ UNCHANGED cur_label

TernarySecond ==
  /\ Continue /\ Kind = "TERNARY1" /\ Top.next = 3
  /\ Emit(<<MoveArm, Define(Label(Top.lab + 1))>>)
  /\ scratch_free({Top.held[2]})
  /\ ReturnReg(Top.held[1])
  /\ UNCHANGED cur_label

(* expr_call_func: the arguments leave their registers before the register *)
(* of the result is taken.                                                 *)
FunctionName(n) == IF n.kind = "EXPONENT" THEN "integer_power" ELSE n.val

CallFunction(r) ==
  /\ Continue /\ Kind \in {"FCALL", "EXPONENT"} /\ Evaluated
  /\ Len(Top.held) <= MaxArgs
  /\ NUM_REGS' \in OutOfBounds(HeldSet)
  /\ LowestFree(Released(HeldSet), NUM_REGS', r)
  /\ reg_free_map' = [Released(HeldSet) EXCEPT ![r] = 0]
  /\ Emit(CallSequence(Top.held, FunctionName(Top.node), r))
  /\ ReturnReg(r)
  /\ UNCHANGED cur_label

(***************************************************************************)
(* Statements.                                                             *)
(***************************************************************************)
FreeHeld == scratch_free(HeldSet)
Emptied == [Top EXCEPT !.held = <<>>]

StmtBlock ==
  /\ Continue /\ Kind = "BLOCK" /\ Evaluated
  /\ Return
  /\ KeepScratch /\ KeepOutput

StmtExpr ==
  /\ Continue /\ Kind = "EXPR" /\ Evaluated
  /\ FreeHeld
  /\ Return
  /\ KeepOutput

(* The function whose body is being compiled gives the epilogue its name. *)
Epilogue == <<"epilogue", stack[2].node.val.name>>

StmtReturn ==
  /\ Continue /\ Kind = "RETURN" /\ Evaluated
  /\ Emit([i \in DOMAIN Top.held |-> <<"MOVQ", R(Top.held[i]), Rax>>]
          \o << <<"JMP", Epilogue>> >>)
  /\ FreeHeld
  /\ Return
  /\ UNCHANGED cur_label

(* decl_codegen_local *)
StmtDecl ==
  /\ Continue /\ Kind = "DECL" /\ Evaluated
  /\ Emit([i \in DOMAIN Top.held |->
             <<"MOVQ", R(Top.held[i]), symbol_codegen(Top.node.val)>>])
  /\ FreeHeld
  /\ Return
  /\ UNCHANGED cur_label

(* A print statement checks the type of an operand, then calls the library *)
(* with it, then goes on to the next one.                                  *)
PrintOperand ==
  /\ Continue /\ Kind = "PRINT" /\ ~ Evaluated /\ Top.held = <<>>
  /\ Top.node.val[Top.next + 1] \in Printable
  /\ Call(Top)
  /\ KeepScratch /\ KeepOutput

PrintCall(r) ==
  /\ Continue /\ Kind = "PRINT" /\ Top.held # <<>>
  /\ NUM_REGS' \in OutOfBounds(HeldSet)
  /\ LowestFree(Released(HeldSet), NUM_REGS', r)
  /\ reg_free_map' = Released(HeldSet)
  /\ Emit(CallSequence(Top.held, PrintFunction[Top.node.val[Top.next]], r))
  /\ stack' = [stack EXCEPT ![Len(stack)] = Emptied]
  /\ UNCHANGED cur_label

PrintDone ==
  /\ Continue /\ Kind = "PRINT" /\ Evaluated /\ Top.held = <<>>
  /\ Return
  /\ KeepScratch /\ KeepOutput

(* Mutant of BranchEnter: two labels used, one created. *)
BranchEnterOneLabel ==
  /\ Continue /\ Kind \in {"IF_ELSE", "FOR"} /\ Top.next = 0
  /\ Call([Top EXCEPT !.lab = cur_label + 1])
  /\ cur_label' = cur_label + 1
  /\ KeepScratch /\ UNCHANGED outfile

(* IF_ELSE and FOR create their two labels before anything else. *)
BranchEnter ==
  /\ Continue /\ Kind \in {"IF_ELSE", "FOR"} /\ Top.next = 0
  /\ Call([Top EXCEPT !.lab = cur_label + 1])
  /\ cur_label' = cur_label + 2
  /\ KeepScratch /\ UNCHANGED outfile

(* One step of a branching statement: print, free what is held, go on. *)
BranchStep(kind, position, code) ==
  /\ Continue /\ Kind = kind /\ Top.next = position
  /\ Emit(code)
  /\ FreeHeld
  /\ UNCHANGED cur_label

Test(r, l) == << <<"CMPQ", Imm(0), R(r)>>, <<"JE", Label(l)>> >>

IfTest ==
  /\ BranchStep("IF_ELSE", 1, Test(Top.held[1], Top.lab))
  /\ Call(Emptied)

IfElse ==
  /\ BranchStep("IF_ELSE", 2, << <<"JMP", Label(Top.lab + 1)>>,
                                 Define(Label(Top.lab)) >>)
  /\ Call(Emptied)

IfDone ==
  /\ BranchStep("IF_ELSE", 3, <<Define(Label(Top.lab + 1))>>)
  /\ Return

ForTop ==
  /\ BranchStep("FOR", 1, <<Define(Label(Top.lab))>>)
  /\ Call(Emptied)

(* Mutant of ForTest: the wrong one of the two labels. *)
ForTestAgain ==
  /\ BranchStep("FOR", 2, IF Top.held = <<>> THEN <<>>
                          ELSE Test(Top.held[1], Top.lab))
  /\ Call(Emptied)

ForTest ==
  /\ BranchStep("FOR", 2, IF Top.held = <<>> THEN <<>>
                          ELSE Test(Top.held[1], Top.lab + 1))
  /\ Call(Emptied)

ForNext ==
  /\ BranchStep("FOR", 3, <<>>)
  /\ Call(Emptied)

(* Mutant of ForLoop: the register of the step expression is kept. *)
ForLoopLeaks ==
  /\ Continue /\ Kind = "FOR" /\ Top.next = 4
  /\ Emit(<< <<"JMP", Label(Top.lab)>>, Define(Label(Top.lab + 1)) >>)
  /\ Return
  /\ KeepScratch /\ UNCHANGED cur_label

ForLoop ==
  /\ BranchStep("FOR", 4, << <<"JMP", Label(Top.lab)>>,
                             Define(Label(Top.lab + 1)) >>)
  /\ Return

(***************************************************************************)
(* Declarations: decl_codegen_global.                                      *)
(***************************************************************************)

(* Both loops over the callee-saved registers test i != 1 || i != 2, which *)
(* is always true, so they cover every register.                           *)
SaveRegs == [i \in 1 .. NumRegs |-> <<"PUSHQ", R(i - 1)>>]

(* Mutant of RestoreRegs: in the order in which they were pushed. *)
RestoreRegsForwards == [i \in 1 .. NumRegs |-> <<"POPQ", R(i - 1)>>]

RestoreRegs == [i \in 1 .. NumRegs |-> <<"POPQ", R(NumRegs - i)>>]

(* Mutant of FunctionPrologue: the frame is measured in words. *)
FunctionPrologueWords ==
  LET f == Top.node.val IN
  /\ Continue /\ Kind = "FUNCTION" /\ Top.next = 0
  /\ f.params <= MaxArgs
  /\ Emit(<< <<".text">>, <<".globl", f.name>>, Define(<<"function", f.name>>),
             <<"PUSHQ", Rbp>>, <<"MOVQ", Rsp, Rbp>> >>
          \o [i \in 1 .. f.params |-> <<"PUSHQ", Argument(i)>>]
          \o << <<"SUBQ", Imm(f.total - f.params), Rsp>> >>
          \o SaveRegs)
  /\ Call(Top)
  /\ KeepScratch /\ UNCHANGED cur_label

FunctionPrologue ==
  LET f == Top.node.val IN
  /\ Continue /\ Kind = "FUNCTION" /\ Top.next = 0
  /\ f.params <= MaxArgs
  /\ Emit(<< <<".text">>, <<".globl", f.name>>, Define(<<"function", f.name>>),
             <<"PUSHQ", Rbp>>, <<"MOVQ", Rsp, Rbp>> >>
          \o [i \in 1 .. f.params |-> <<"PUSHQ", Argument(i)>>]
          \o << <<"SUBQ", Imm((f.total - f.params) * 8), Rsp>> >>
          \o SaveRegs)
  /\ Call(Top)
  /\ KeepScratch /\ UNCHANGED cur_label

FunctionEpilogue ==
  /\ Continue /\ Kind = "FUNCTION" /\ Evaluated
  /\ Emit(<<Define(Epilogue)>> \o RestoreRegs
          \o << <<"MOVQ", Rbp, Rsp>>, <<"POPQ", Rbp>>, <<"RET">> >>)
  /\ Return
  /\ KeepScratch /\ UNCHANGED cur_label

Prototype ==
  /\ Continue /\ Kind = "PROTOTYPE"
  /\ Emit(<< <<".text">>, <<".globl", Top.node.val.name>> >>)
  /\ Return
  /\ KeepScratch /\ UNCHANGED cur_label

(* A global variable: strings and arrays live behind a label of their own, *)
(* and an array or a string without initializer is a null pointer.         *)
Indirect(d) == d.type \in {"STRING", "ARRAY"}

DataCode(d, l) ==
  LET init == d.init
      value == IF init = <<>> THEN Imm(0)
               ELSE IF Indirect(d) THEN StringLabel(l) ELSE Imm(init[1])
      content == IF Indirect(d) /\ init # <<>>
                 THEN <<Define(StringLabel(l))>> \o
                      [i \in DOMAIN init |->
                         <<IF d.type = "STRING" THEN ".string" ELSE ".quad",
                           Imm(init[i])>>]
                 ELSE <<>>
  IN  << <<".data">> >> \o content \o << <<".globl", d.name>>, Define(<<"global", d.name>>),
                    <<".quad", value>> >>

(* An auto that was given an array has the kind of an array and no subtype. *)
Elementless(d) == d.type = "ARRAY" /\ d.subtype = "NONE"
ArrayOfNonIntegers(d) == d.type = "ARRAY" /\ d.subtype \notin {"NONE", "INTEGER"}

GlobalData ==
  LET d == Top.node.val IN
  /\ Continue /\ Kind = "DATA"
  /\ ~ Elementless(d) /\ ~ ArrayOfNonIntegers(d)
  /\ Emit(DataCode(d, cur_label + 1))
  /\ cur_label' = cur_label + (IF Indirect(d) /\ d.init # <<>> THEN 1 ELSE 0)
  /\ Return
  /\ KeepScratch

Finish ==
  /\ Running /\ Kind = "PROGRAM" /\ Evaluated
  /\ status' = "done"
  /\ UNCHANGED <<stack, cur_label, outfile, reg_free_map, NUM_REGS>>

(***************************************************************************)
(* The ways out: exit(1), and a null pointer that is followed.  status     *)
(* names the error; the file keeps what was flushed to it, of which the    *)
(* model keeps the output of the portions that completed.                  *)
(***************************************************************************)
Abort(error) ==
  /\ status' = error
  /\ UNCHANGED <<stack, cur_label, outfile, reg_free_map, NUM_REGS>>

IsCall == Kind \in {"FCALL", "EXPONENT"} /\ Evaluated
IsPrintCall == Kind = "PRINT" /\ Top.held # <<>>

(* scratch_alloc finds no register for a leaf or for a call's result. *)
Exhausted ==
  /\ Running
  /\ \/ Kind \in Leaf /\ NoneFree(reg_free_map, NUM_REGS)
     \/ /\ (IsCall /\ Len(Top.held) <= MaxArgs) \/ IsPrintCall
        /\ \E n \in OutOfBounds(HeldSet) : NoneFree(Released(HeldSet), n)
  /\ Abort("no free registers")

(* A portion meets a register outside of the known ones; a free of NumRegs *)
(* may make the rest of the portion's registers unknown.                   *)
UnknownRegister ==
  /\ status = "running"
  /\ \/ \E r \in Consulted : ~ Known(r)
     \/ NumRegs \in Consulted
  /\ Abort("unknown register")

TooManyArguments ==
  /\ Running
  /\ \/ IsCall /\ Len(Top.held) > MaxArgs
     \/ Kind = "FUNCTION" /\ Top.next = 0 /\ Top.node.val.params > MaxArgs
  /\ Abort("too many arguments")

Unprintable ==
  /\ Running /\ Kind = "PRINT" /\ ~ Evaluated /\ Top.held = <<>>
  /\ Top.node.val[Top.next + 1] \notin Printable
  /\ Abort("unprintable type")

ArrayNotImplemented ==
  /\ Running /\ Kind = "DATA"
  /\ ArrayOfNonIntegers(Top.node.val)
  /\ Abort("array of non-integers")

(* The kind of the elements is read through a null pointer. *)
ElementTypeMissing ==
  /\ Running /\ Kind = "DATA"
  /\ Elementless(Top.node.val)
  /\ Abort("null subtype")

(* The process has ended. *)
Terminated == status # "running" /\ UNCHANGED vars

Expression ==
  \/ EvaluateOperand \/ FinishLeft \/ FinishRight \/ FinishUnary
  \/ FinishStep \/ FinishAssign
  \/ TernaryTest \/ TernaryFirst \/ TernarySecond
  \/ \E r \in Regs : LoadLeaf(r) \/ CallFunction(r)
  \/ \E g \in Garbage : FinishGroup(g)

Statement ==
  \/ SkipNull \/ StmtBlock \/ StmtExpr \/ StmtReturn \/ StmtDecl
  \/ PrintOperand \/ PrintDone \/ \E r \in Regs : PrintCall(r)
  \/ BranchEnter \/ IfTest \/ IfElse \/ IfDone
  \/ ForTop \/ ForTest \/ ForNext \/ ForLoop

Declaration ==
  \/ FunctionPrologue \/ FunctionEpilogue \/ Prototype \/ GlobalData \/ Finish

Exit ==
  \/ Exhausted \/ UnknownRegister \/ TooManyArguments \/ Unprintable
  \/ ArrayNotImplemented \/ ElementTypeMissing

Next == Expression \/ Statement \/ Declaration \/ Exit \/ Terminated

(* The compiler is one thread that runs until it returns or ends the process. *)
Spec == CodegenInit /\ [][Next]_vars /\ WF_vars(Next)

(***************************************************************************)
(* Properties.                                                             *)
(***************************************************************************)
Errors == {"no free registers", "unknown register", "too many arguments",
           "unprintable type", "array of non-integers", "null subtype"}

Frame == [node : Nodes, next : Nat, held : Seq(Int), lab : Int]

(* The types of the variables; the text in outfile is constrained by       *)
(* LabelsSound.                                                            *)
TypeOK ==
  /\ ScratchTypeOK
  /\ stack \in Seq(Frame)
  /\ cur_label \in Int
  /\ status \in {"running", "done"} \cup Errors

(* No register holds two values at once: between two handlers of the call  *)
(* stack, and between two operands of one handler, every reg still to be   *)
(* used names a register of its own.                                       *)
NoClobber ==
  \A i, k \in DOMAIN stack :
    \A j \in DOMAIN stack[i].held, m \in DOMAIN stack[k].held :
      stack[i].held[j] = stack[k].held[m] => i = k /\ j = m

Holds(i, r) == \E j \in DOMAIN stack[i].held : stack[i].held[j] = r

(* reg_free_map says exactly who owns what: a register is taken if and     *)
(* only if some handler still holds it.  So none leaks, each is given back *)
(* once, and every register is free again when a statement is complete.    *)
ExactOwnership ==
  /\ \A r \in Regs : r \in Taken <=> \E i \in DOMAIN stack : Holds(i, r)
  /\ \A i \in DOMAIN stack : \A j \in DOMAIN stack[i].held :
       stack[i].held[j] \in Regs

(* No portion of a handler names or frees a register outside of the pool.  *)
RegistersKnown == status # "unknown register"

(* How many registers an expression's handler holds: one for each operand  *)
(* that returned, but the arms of a ternary share one.                     *)
TopCount(f) == IF f.node.kind = "TERNARY1" /\ f.next = 3 THEN 2 ELSE f.next
WaitingCount(f) == IF f.node.kind = "TERNARY1" /\ f.next = 2 THEN 1 ELSE f.next

(* The shape of the call stack, which makes NoClobber inductive: each      *)
(* handler waits for the operand that its own progress names, and an       *)
(* expression's handler holds a register for each operand that returned.   *)
WalkInv ==
  /\ stack # <<>> /\ stack[1].node.kind = "PROGRAM"
  /\ \A i \in 1 .. Len(stack) - 1 :
       /\ stack[i].next < Len(Operands(stack[i].node))
       /\ stack[i + 1].node = Operands(stack[i].node)[stack[i].next + 1]
       /\ stack[i].node.kind \in ExprKinds =>
            Len(stack[i].held) = WaitingCount(stack[i])
  /\ Top.next <= Len(Operands(Top.node))
  /\ Kind \in ExprKinds => Len(Top.held) = TopCount(Top)
  /\ \A i \in DOMAIN stack : stack[i].node.kind \in Holdless => stack[i].held = <<>>

(* The scratch register an instruction overwrites.  POPQ is not one: it    *)
(* restores.                                                               *)
Overwritten(ins) ==
  IF ins[1] \in {"MOVQ", "LEAQ", "ADDQ", "SUBQ", "ANDQ", "ORQ", "NOTQ"}
  THEN {r \in Regs : ins[Len(ins)] = R(r)}
  ELSE {}

Waiting == {r \in Regs : \E i \in 1 .. Len(stack) - 1 : Holds(i, r)}

(* What a handler prints never overwrites a register in which a handler    *)
(* that waits for it keeps an operand.                                     *)
SparesWaiting ==
  [][\A i \in Len(outfile) + 1 .. Len(outfile') :
       Overwritten(outfile'[i]) \cap Waiting = {}]_vars

Targets(ins) ==
  IF ins[1] \in {Jump[k] : k \in Comparison} \cup {"JMP", "LEAQ"} THEN {ins[2]}
  ELSE IF ins[1] = ".quad" /\ ins[2][1] = "SL" THEN {ins[2]} ELSE {}

(* In a finished file no label is defined twice, every label an            *)
(* instruction mentions is defined, and a jump stays inside its function:  *)
(* no function begins between it and its target.                           *)
LabelsSound ==
  status = "done" =>
    LET defined(j) == outfile[j][1] = "define" IN
    /\ \A i, j \in DOMAIN outfile :
         defined(i) /\ outfile[i] = outfile[j] => i = j
    /\ \A i \in DOMAIN outfile : \A t \in Targets(outfile[i]) :
         \E j \in DOMAIN outfile :
           /\ outfile[j] = Define(t)
           /\ \A k \in (i .. j) \cup (j .. i) :
                defined(k) => outfile[k][2][1] # "function" \/ t[1] = "SL"

Section == {".data", ".text"}
Directive == {".globl", "define"}

(* Instructions are assembled into the text section and values into the    *)
(* data section, whatever mixture of string literals, variables and        *)
(* functions the program has: the last section directive before each line  *)
(* is the right one.                                                       *)
SectionsSound ==
  status = "done" =>
    \A i, j \in DOMAIN outfile :
      /\ j < i
      /\ outfile[j][1] \in Section
      /\ \A k \in j + 1 .. i : outfile[k][1] \notin Section
      /\ outfile[i][1] \notin Directive
      => (outfile[j][1] = ".data") <=> (outfile[i][1] \in {".quad", ".string"})

(* The compiler ends: it writes the file, exits with an error or crashes. *)
Terminates == <>(status # "running")

(* Code generation is promised a file once the earlier steps have passed.  *)
Generates == status \in {"running", "done"}
=============================================================================

------------------------------- MODULE Machine -------------------------------
(***************************************************************************)
(* The program that Codegen wrote, linked with library.c, runs.  outfile   *)
(* is the text: an address of code is a line of it.  A word has Bits bits, *)
(* memory is addressed in bytes and accessed in words of 8, and the stack  *)
(* and the data lie above an unmapped page, which a null pointer meets.    *)
(*                                                                         *)
(* The meaning of an instruction is that of x86-64, as far as the emitted  *)
(* instructions use it.                                                    *)
(***************************************************************************)
EXTENDS Codegen, FiniteSets

CONSTANTS
  Bits,         \* the width of a register
  StackWords,   \* how many words the stack has
  Trash         \* what is in memory and in registers that nobody has set

VARIABLES
  machine,      \* "loading", "running", "returned" or "fault"
  pc,           \* the line of the next instruction
  regs,         \* register -> word
  memory,       \* address -> word
  flags,        \* the operands of the last comparison, the left one first
  output,       \* what the print functions wrote
  calls         \* history: for each open call, the registers and the stack
                \* at the CALL, and where it returns to

machineVars == <<machine, pc, regs, memory, flags, output, calls>>

Half == 2 ^ (Bits - 1)
Word == -Half .. Half - 1
Wrap(v) == ((v + Half) % (2 * Half)) - Half
Unsigned(v) == v % (2 * Half)

(* Division truncates; TLA+'s rounds down. *)
Abs(v) == IF v < 0 THEN -v ELSE v
Quotient(a, b) ==
  LET q == Abs(a) \div Abs(b) IN IF (a < 0) = (b < 0) THEN q ELSE -q

(***************************************************************************)
(* Registers.  The third argument register is rdx.                         *)
(***************************************************************************)
Name(op) == IF op = Argument(3) THEN Rdx ELSE op
ArgumentRegs == {Argument(i) : i \in 1 .. MaxArgs} \ {Argument(3)}
Scratches == {R(r) : r \in Regs}
Registers == {Rax, Rdx, Rbp, Rsp} \cup ArgumentRegs \cup Scratches

(* r10 and r11 belong to the caller, rbx and r12 to r15 to the callee. *)
CalleeSaved == {Rbp} \cup (Scratches \ {R(1), R(2)})
CallerSaved == Registers \ (CalleeSaved \cup {Rsp})

(***************************************************************************)
(* Addresses.                                                              *)
(***************************************************************************)
Page == 1024
StackTop == Page + 8 * StackWords
IsDatum(i) == outfile[i][1] \in {".quad", ".string"}
DatumAddress(i) == StackTop + 8 * Cardinality({k \in 1 .. i - 1 : IsDatum(k)})
LineOf(label) == CHOOSE i \in DOMAIN outfile : outfile[i] = Define(label)
AddressOf(label) == DatumAddress(LineOf(label))
IsFunction(name) == \E i \in DOMAIN outfile : outfile[i] = Define(<<"function", name>>)

StackRegion == {Page + 8 * k : k \in 0 .. StackWords - 1}
DataLines == {i \in DOMAIN outfile : IsDatum(i)}
DatumAt(a) == CHOOSE i \in DataLines : DatumAddress(i) = a

Slot(op) ==
  CASE op[1] = "global"  -> AddressOf(op)
    [] op[1] = "frame"   -> regs[Rbp] + op[2]
    [] op[1] = "indexed" -> regs[R(op[2])] + 8 * regs[R(op[3])]

IsMemory(op) == op[1] \in {"global", "frame", "indexed"}
Mapped(op) == IsMemory(op) => Slot(op) \in DOMAIN memory

Value(op) ==
  CASE op[1] = "imm" -> Wrap(op[2])
    [] op[1] = "SL" -> AddressOf(op)
    [] IsMemory(op) -> memory[Slot(op)]
    [] OTHER -> regs[Name(op)]

(***************************************************************************)
(* Lines that are no instructions take no time.  A datum between two       *)
(* instructions is in another section.                                     *)
(***************************************************************************)
Directives == {".data", ".text", ".globl", ".quad", ".string", "define"}
From(i) ==
  CHOOSE j \in i .. Len(outfile) :
    /\ outfile[j][1] \notin Directives
    /\ \A k \in i .. j - 1 : outfile[k][1] \in Directives
GoTo(label) == pc' = From(LineOf(label))
Advance == pc' = From(pc + 1)

Ins == outfile[pc]
Op == Ins[1]

Set(op, v) ==
  IF IsMemory(op)
  THEN memory' = [memory EXCEPT ![Slot(op)] = Wrap(v)] /\ UNCHANGED regs
  ELSE regs' = [regs EXCEPT ![Name(op)] = Wrap(v)] /\ UNCHANGED memory

Executing == machine = "running" /\ UNCHANGED machine

(***************************************************************************)
(* Instructions.                                                           *)
(***************************************************************************)
Accessible ==
  Op # "CALL" => \A i \in 2 .. Len(Ins) : Mapped(Ins[i])

Move ==
  /\ Executing /\ Op \in {"MOVQ", "LEAQ"} /\ Accessible
  /\ Set(Ins[3], Value(Ins[2]))
  /\ Advance
  /\ UNCHANGED <<flags, output, calls>>

(* AND and OR of words are modelled for 0 and 1 only. *)
Arithmetical ==
  LET dst == Ins[Len(Ins)]
      a == Value(dst)
      b == Value(Ins[2])
  IN
  /\ Executing /\ Op \in {"ADDQ", "SUBQ", "ANDQ", "ORQ", "NOTQ"} /\ Accessible
  /\ Op \in {"ANDQ", "ORQ"} => {a, b} \subseteq {0, 1}
  /\ Set(dst, CASE Op = "ADDQ" -> a + b
                [] Op = "SUBQ" -> a - b
                [] Op = "ANDQ" -> a * b
                [] Op = "ORQ"  -> a + b - a * b
                [] Op = "NOTQ" -> -a - 1)
  /\ Advance
  /\ UNCHANGED <<flags, output, calls>>

(* The 128-bit product goes to rdx and rax. *)
Multiply ==
  LET product == regs[Rax] * Value(Ins[2]) IN
  /\ Executing /\ Op = "IMULQ"
  /\ regs' = [regs EXCEPT ![Rax] = Wrap(product),
                          ![Rdx] = Wrap(product \div (2 * Half))]
  /\ Advance
  /\ UNCHANGED <<memory, flags, output, calls>>

SignExtend ==
  /\ Executing /\ Op = "CQO"
  /\ regs' = [regs EXCEPT ![Rdx] = IF regs[Rax] < 0 THEN -1 ELSE 0]
  /\ Advance
  /\ UNCHANGED <<memory, flags, output, calls>>

Dividend == regs[Rdx] * 2 * Half + Unsigned(regs[Rax])
Divides == Value(Ins[2]) # 0 /\ Quotient(Dividend, Value(Ins[2])) \in Word

Divide ==
  LET b == Value(Ins[2])
      q == Quotient(Dividend, b)
  IN
  /\ Executing /\ Op = "IDIVQ" /\ Divides
  /\ regs' = [regs EXCEPT ![Rax] = q, ![Rdx] = Dividend - q * b]
  /\ Advance
  /\ UNCHANGED <<memory, flags, output, calls>>

Compare ==
  /\ Executing /\ Op = "CMPQ" /\ Accessible
  /\ flags' = <<Value(Ins[3]), Value(Ins[2])>>
  /\ Advance
  /\ UNCHANGED <<regs, memory, output, calls>>

JumpTaken(jump, a, b) ==
  CASE jump = "JMP" -> TRUE
    [] jump = "JE"  -> a = b
    [] jump = "JNE" -> a # b
    [] jump = "JG"  -> a > b
    [] jump = "JGE" -> a >= b
    [] jump = "JL"  -> a < b
    [] jump = "JLE" -> a <= b

Branch ==
  /\ Executing /\ Op \in {"JMP", "JE", "JNE", "JG", "JGE", "JL", "JLE"}
  /\ IF JumpTaken(Op, flags[1], flags[2]) THEN GoTo(Ins[2]) ELSE Advance
  /\ UNCHANGED <<regs, memory, flags, output, calls>>

Sp == regs[Rsp]

Push ==
  /\ Executing /\ Op = "PUSHQ" /\ Sp - 8 \in StackRegion
  /\ memory' = [memory EXCEPT ![Sp - 8] = Value(Ins[2])]
  /\ regs' = [regs EXCEPT ![Rsp] = Sp - 8]
  /\ Advance
  /\ UNCHANGED <<flags, output, calls>>

Pop ==
  /\ Executing /\ Op = "POPQ" /\ Sp \in StackRegion
  /\ regs' = [regs EXCEPT ![Rsp] = Sp + 8, ![Name(Ins[2])] = memory[Sp]]
  /\ Advance
  /\ UNCHANGED <<memory, flags, output, calls>>

StackFrom(a) == [x \in {y \in StackRegion : a <= y} |-> memory[x]]

CallCompiled ==
  /\ Executing /\ Op = "CALL" /\ IsFunction(Ins[2]) /\ Sp - 8 \in StackRegion
  /\ memory' = [memory EXCEPT ![Sp - 8] = pc + 1]
  /\ regs' = [regs EXCEPT ![Rsp] = Sp - 8]
  /\ calls' = Append(calls, [regs |-> regs, stack |-> StackFrom(Sp), back |-> pc + 1])
  /\ GoTo(<<"function", Ins[2]>>)
  /\ UNCHANGED <<flags, output>>

integer_power(x, y) ==
  LET power[n \in Nat] == IF n = 0 THEN 1 ELSE Wrap(power[n - 1] * x)
  IN  power[IF y > 0 THEN y ELSE 0]

(* What a print function of library.c writes of its argument. *)
Printed(f, v) ==
  CASE f = "print_integer"   -> <<"INTEGER", v>>
    [] f = "print_boolean"   -> <<"BOOLEAN", v # 0>>
    [] f = "print_character" -> <<"CHARACTER", v % 256>>
    [] f = "print_string"    -> <<"STRING", outfile[DatumAt(v)][2][2]>>

Library == {PrintFunction[t] : t \in Printable} \cup {"integer_power"}

(* A library function keeps what its caller may rely on and nothing else.  *)
CallLibrary(trash) ==
  LET f == Ins[2]
      x == regs[Argument(1)]
      y == regs[Argument(2)]
  IN
  /\ Executing /\ Op = "CALL" /\ ~ IsFunction(f) /\ f \in Library
  /\ f = "print_string" => \E i \in DataLines : DatumAddress(i) = x
  /\ output' = IF f = "integer_power" THEN output
               ELSE Append(output, Printed(f, x))
  /\ regs' = [r \in Registers |->
                IF r = Rax /\ f = "integer_power" THEN integer_power(x, y)
                ELSE IF r \in CallerSaved THEN trash ELSE regs[r]]
  /\ Advance
  /\ UNCHANGED <<memory, flags, calls>>

(* The return address 0 is in the C runtime, which called main. *)
Ret ==
  /\ machine = "running" /\ Op = "RET" /\ Sp \in StackRegion
  /\ regs' = [regs EXCEPT ![Rsp] = Sp + 8]
  /\ calls' = SubSeq(calls, 1, Len(calls) - 1)
  /\ IF memory[Sp] = 0
     THEN machine' = "returned" /\ UNCHANGED pc
     ELSE pc' = From(memory[Sp]) /\ UNCHANGED machine
  /\ UNCHANGED <<memory, flags, output>>

(* The processor stops the program. *)
Fault ==
  /\ machine = "running"
  /\ \/ ~ Accessible
     \/ Op = "IDIVQ" /\ ~ Divides
  /\ machine' = "fault"
  /\ UNCHANGED <<pc, regs, memory, flags, output, calls>>

Execute ==
  \/ Move \/ Arithmetical \/ Multiply \/ SignExtend \/ Divide \/ Compare
  \/ Branch \/ Push \/ Pop \/ CallCompiled \/ Ret \/ Fault
  \/ \E trash \in Trash : CallLibrary(trash)

(***************************************************************************)
(* The compiler, then the loader and the C runtime, then the program.      *)
(***************************************************************************)
MachineInit ==
  /\ CodegenInit
  /\ machine = "loading"
  /\ pc = 0 /\ regs = <<>> /\ memory = <<>> /\ flags = <<0, 0>>
  /\ output = <<>> /\ calls = <<>>

Initial(i) == IF outfile[i][2][1] = "SL" THEN AddressOf(outfile[i][2])
              ELSE IF outfile[i][1] = ".quad" THEN outfile[i][2][2] ELSE 0

(* Every scratch register starts with a value of its own, so that swapping *)
(* two of them would be noticed.                                           *)
Load(trash) ==
  LET start == [r \in Registers |->
                  IF r = Rsp THEN StackTop - 8
                  ELSE IF r \in Scratches THEN Wrap(trash + r[2]) ELSE trash]
  IN
  /\ machine = "loading"
  /\ machine' = "running"
  /\ regs' = start
  /\ memory' = [a \in StackRegion \cup {DatumAddress(i) : i \in DataLines} |->
                  IF a = StackTop - 8 THEN 0
                  ELSE IF a < StackTop THEN trash ELSE Initial(DatumAt(a))]
  /\ calls' = <<[regs |-> [start EXCEPT ![Rsp] = StackTop],
                  stack |-> <<>>, back |-> 0]>>
  /\ GoTo(<<"function", "main">>)
  /\ UNCHANGED <<flags, output>>

Stopped == machine \in {"returned", "fault"} /\ UNCHANGED <<vars, machineVars>>

Compile ==
  /\ Expression \/ Statement \/ Declaration \/ Exit
  /\ UNCHANGED machineVars

RunProgram ==
  /\ status = "done" /\ UNCHANGED vars
  /\ \/ \E trash \in Trash : Load(trash)
     \/ Execute

MachineNext == Compile \/ RunProgram \/ Stopped

(* One thread, first of the compiler, then of the program. *)
MachineSpec ==
  /\ MachineInit /\ [][MachineNext]_<<vars, machineVars>>
  /\ WF_<<vars, machineVars>>(MachineNext)

(***************************************************************************)
(* Properties.                                                             *)
(***************************************************************************)

(* Registers and memory hold words, the stack pointer stays aligned in the *)
(* stack, and the instruction pointer is at an instruction.                *)
MachineTypeOK ==
  machine # "loading" =>
    /\ regs \in [Registers -> Word]
    /\ \A a \in DOMAIN memory : memory[a] \in Word
    /\ regs[Rsp] \in StackRegion \cup {StackTop}
    /\ Op \notin Directives

(* A compiled function returns with every register that its caller may     *)
(* rely on as it was at the CALL, the stack pointer included, whatever it  *)
(* pushed, called and jumped over.                                         *)
CalleeRestores ==
  [][Len(calls') < Len(calls) =>
       LET at == calls[Len(calls)].regs IN
       \A r \in CalleeSaved \cup {Rsp} : regs'[r] = at[r]]_<<vars, machineVars>>

(* While a call is open, the stack of its callers stays as it was: no      *)
(* frame reaches into another, and no return address is overwritten.       *)
CallersKept ==
  \A i \in DOMAIN calls :
    /\ memory[calls[i].regs[Rsp] - 8] = calls[i].back
    /\ \A a \in DOMAIN calls[i].stack : memory[a] = calls[i].stack[a]

(* A compiled program ends. *)
Halts == <>(machine \in {"returned", "fault"})
=============================================================================

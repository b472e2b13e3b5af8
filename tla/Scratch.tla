------------------------------ MODULE Scratch ------------------------------
(***************************************************************************)
(* The pool of scratch registers of scratch.c.  The code generator takes a *)
(* register with scratch_alloc, hands it from handler to handler as the    *)
(* reg field of an expression, and gives it back with scratch_free.        *)
(*                                                                         *)
(* Both file-scope variables of scratch.c are state: NUM_REGS is a plain   *)
(* int placed just after reg_free_map, and the bound of scratch_free lets  *)
(* the index NUM_REGS through, so a free can reach it.                     *)
(***************************************************************************)
EXTENDS Integers

CONSTANT NumRegs    \* the initial value of NUM_REGS; 7 in scratch.c

ASSUME NumRegsAssumption == NumRegs \in Nat \ {0}

VARIABLES
  reg_free_map,     \* 1 when the register is free, 0 when it is taken
  NUM_REGS          \* the number of registers scratch_alloc looks at

scratchVars == <<reg_free_map, NUM_REGS>>

Regs == 0 .. NumRegs - 1

ScratchInit ==
  /\ reg_free_map = [r \in Regs |-> 1]
  /\ NUM_REGS = NumRegs

ScratchTypeOK ==
  /\ reg_free_map \in [Regs -> {0, 1}]
  /\ NUM_REGS \in {1, NumRegs}

Taken == {r \in Regs : reg_free_map[r] = 0}

(* Mutant of Released: a count of frees instead of a flag. *)
ReleasedCounted(S) ==
  [r \in Regs |-> IF r \in S THEN reg_free_map[r] + 1 ELSE reg_free_map[r]]

(* The map after the registers of S were given back. *)
Released(S) == [r \in Regs |-> IF r \in S THEN 1 ELSE reg_free_map[r]]

(* The loop of scratch_alloc over the first n registers stops at r. *)
LowestFree(map, n, r) ==
  /\ r \in 0 .. n - 1
  /\ map[r] = 1
  /\ \A q \in 0 .. r - 1 : map[q] = 0

(* The loop finds nothing: scratch_alloc prints an error and exits. *)
NoneFree(map, n) == \A r \in 0 .. n - 1 : map[r] = 0

(* Mutant of Known: the bound excludes one register too many. *)
KnownButLast(r) == ~ (r < 0 \/ r > NUM_REGS - 2)

(* The check shared by scratch_free and scratch_name. *)
Known(r) == ~ (r < 0 \/ r > NUM_REGS)

(* Mutant of scratch_alloc: the register is not marked. *)
scratch_alloc_unmarked(r) ==
  /\ LowestFree(reg_free_map, NUM_REGS, r)
  /\ UNCHANGED scratchVars

scratch_alloc(r) ==
  /\ LowestFree(reg_free_map, NUM_REGS, r)
  /\ reg_free_map' = [reg_free_map EXCEPT ![r] = 0]
  /\ UNCHANGED NUM_REGS

(* Index NumRegs is one past the array: the store may land on NUM_REGS.    *)
OutOfBounds(S) == IF NumRegs \in S THEN {NUM_REGS, 1} ELSE {NUM_REGS}

(* Gives back every register of S. *)
scratch_free(S) ==
  /\ \A r \in S : Known(r)
  /\ reg_free_map' = Released(S)
  /\ NUM_REGS' \in OutOfBounds(S)
=============================================================================

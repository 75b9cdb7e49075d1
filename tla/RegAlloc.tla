------------------------------ MODULE RegAlloc ------------------------------
(***************************************************************************)
(* LinearScan::allocateRegisters for one machine function                  *)
(* (src/src/LinearScan.cpp): live intervals, the scan of module            *)
(* LinearScan, and either modifyCode or spill code and another round; with *)
(* the frame of MachineFunction, where spill slots follow the locals.      *)
(*                                                                         *)
(* The code is one basic block; the general control flow is the subject of *)
(* LiveIntervals.  Instruction selection defines a register once, but for  *)
(* the result of a remainder (three times, each with the one before) and   *)
(* of a comparison or negation (by two conditional moves).  An interval is *)
(* named by the place of its definition.                                   *)
(***************************************************************************)
EXTENDS LinearScan, Sequences, SequencesExt

CONSTANTS
  Length,      \* bound: instructions before allocation
  MaxPieces,   \* bound: times selection appends to them
  MaxUses,     \* registers one instruction can use
  MaxLocals,   \* bound: words of local variables
  NearSlots    \* words reachable with a load/store offset; 63 in the code

ASSUME IntervalsAreNumbers == Interval = 1 .. MaxNo
ASSUME LengthAssumption == Length \in 1 .. MaxNo
ASSUME FrameAssumption == MaxUses \in Nat /\ MaxLocals \in Nat /\ NearSlots \in Nat
\* No instruction, stores to far slots included, has as many operands as there
\* are registers: at most 3, and 7, in the code.
ASSUME OperandsFit ==
  LET registers == LastReg - FirstReg + 1
  IN  MaxUses < registers /\ 2 < registers

VARIABLES
  code,          \* the instructions of the block
  frame,         \* MachineFunction::stack_size, in words
  spilledVRegs,  \* history: the registers that got a stack slot
  phase          \* the step of the while loop of allocateRegisters

vars == <<scanVars, code, frame, spilledVRegs, phase>>

NoVReg == 0
VReg == 1 .. Length

(***************************************************************************)
(* op: computes; ldr, str: spill code, through the address operand if      *)
(* there is one; addr: loads the offset of a far slot into a register.     *)
(* Two more compute, and their operand for the result is an operand of     *)
(* another instruction too: pass hands it to the next selected one, which  *)
(* uses it; first is a conditional move, and the move behind it, on the    *)
(* opposite condition, defines it too.                                     *)
(***************************************************************************)
Instr(op, def, uses, slot) ==
  [op |-> op, def |-> def, uses |-> uses, slot |-> slot]

Selected(p) == code[p].op \in {"op", "pass", "first"}

RAInit ==
  /\ code = <<>>
  /\ frame \in 0 .. MaxLocals
  /\ spilledVRegs = {}
  /\ phase = "select"
  /\ start = [i \in Interval |-> 1]
  /\ end = [i \in Interval |-> NoUse]
  /\ todo = {}
  /\ ScanReset
  /\ savedRegs = {}

-----------------------------------------------------------------------------
(***************************************************************************)
(* What instruction selection appends behind place n.  A register has the  *)
(* number of the place of its last definition.                             *)
(***************************************************************************)
Known == {code[p].def : p \in {q \in 1 .. Len(code) : code[q].op = "op"}} \ {NoVReg}

Plain(n) ==
  {<<Instr("op", def, uses, 0)>> : def \in {NoVReg, n + 1},
                                   uses \in {S \in SUBSET Known : Cardinality(S) <= MaxUses}}

\* ldr v, =global; str a, [v]
GlobalStore(n) ==
  {<<Instr("pass", n + 1, {}, 0), Instr("op", NoVReg, {a, n + 1}, 0)>> : a \in Known}

\* moveq v, #1; movne v, #0
Condition(n) ==
  {<<Instr("first", n + 2, {}, 0), Instr("op", n + 2, {}, 0)>>}

\* sdiv v, a, b; mul v, v, b; sub v, a, v
Remainder(n) ==
  UNION {{<<Instr("pass", n + 3, {a, b}, 0), Instr("pass", n + 3, {n + 3, b}, 0),
            Instr("op", n + 3, {a, n + 3}, 0)>> : b \in Known} : a \in Known}

\* Every piece has one plain definition or none, at its end.
Pieces == Cardinality({p \in 1 .. Len(code) : code[p].op = "op"})

Select ==
  /\ phase = "select" /\ Pieces < MaxPieces
  /\ \E n \in {Len(code)} :
       \E piece \in Plain(n) \cup GlobalStore(n) \cup Condition(n) \cup Remainder(n) :
         /\ n + Len(piece) <= Length
         /\ code' = code \o piece
  /\ UNCHANGED <<scanVars, frame, spilledVRegs, phase>>

-----------------------------------------------------------------------------
MaxOf(S) == CHOOSE x \in S : \A y \in S : y <= x

\* Mutant of ReachedUses: the chain ends at the first use.
ReachedFirstUse(p) ==
  {q \in p + 1 .. Len(code) :
     /\ code[p].def \in code[q].uses
     /\ \A k \in p + 1 .. q - 1 : code[p].def \notin {code[k].def} \cup code[k].uses}

(***************************************************************************)
(* The definitions that have an interval: the operand of two conditional   *)
(* moves is one definition, which the last of them names.                  *)
(***************************************************************************)
Defining == {p \in 1 .. Len(code) : code[p].def # NoVReg /\ code[p].op # "first"}
Named(p) == IF code[p].op = "first" THEN p + 1 ELSE p

(***************************************************************************)
(* getParent() of the operand defined at p: the constructor of the last    *)
(* instruction that has it as an operand set it.                           *)
(***************************************************************************)
Parent(p) ==
  IF code[p].op = "pass"
  THEN CHOOSE q \in p + 1 .. Len(code) :
         Selected(q) /\ \A k \in p + 1 .. q - 1 : ~Selected(k)
  ELSE p

\* The uses that the definition at p reaches: up to the next definition of
\* the same register, that instruction's own uses included.
ReachedUses(p) ==
  {q \in p + 1 .. Len(code) :
     /\ code[p].def \in code[q].uses
     /\ \A k \in p + 1 .. q - 1 : code[k].def # code[p].def}

\* Mutant of ComputeLiveIntervals: the result of the last scan is not reset.
IntervalsKeepFlag ==
  /\ phase = "intervals" \/ (phase = "select" /\ code # <<>>)
  /\ start' = [i \in Interval |-> IF i \in Defining THEN Parent(i) ELSE 1]
  /\ end' = [i \in Interval |->
               IF i \in Defining THEN MaxOf({NoUse} \cup ReachedUses(i)) ELSE NoUse]
  /\ todo' = Defining
  /\ actives' = {}
  /\ regs' = [r \in Reg |-> 1]
  /\ rreg' = [i \in Interval |-> NoReg]
  /\ spill' = [i \in Interval |-> FALSE]
  /\ flag' = flag
  /\ phase' = "scan"
  /\ UNCHANGED <<savedRegs, code, frame, spilledVRegs>>

ComputeLiveIntervals ==
  /\ phase = "intervals" \/ (phase = "select" /\ code # <<>>)
  /\ start' = [i \in Interval |-> IF i \in Defining THEN Parent(i) ELSE 1]
  /\ end' = [i \in Interval |->
               IF i \in Defining THEN MaxOf({NoUse} \cup ReachedUses(i)) ELSE NoUse]
  /\ todo' = Defining
  /\ actives' = {}
  /\ regs' = [r \in Reg |-> 1]
  /\ rreg' = [i \in Interval |-> NoReg]
  /\ spill' = [i \in Interval |-> FALSE]
  /\ flag' = TRUE
  /\ phase' = "scan"
  /\ UNCHANGED <<savedRegs, code, frame, spilledVRegs>>

Scan ==
  /\ phase = "scan"
  /\ Next
  /\ UNCHANGED <<code, frame, spilledVRegs, phase>>

\* Mutant of ModifyCode: the registers still held are saved, no others.
ModifySavesActive ==
  /\ phase = "scan" /\ ScanDone /\ flag
  /\ savedRegs' = savedRegs \cup {rreg[i] : i \in actives}
  /\ phase' = "done"
  /\ UNCHANGED <<start, end, todo, actives, regs, rreg, spill, flag,
                 code, frame, spilledVRegs>>

\* success: the registers of the intervals go into their operands.
ModifyCode ==
  /\ phase = "scan" /\ ScanDone /\ flag
  /\ savedRegs' = savedRegs \cup {rreg[i] : i \in Defining}
  /\ phase' = "done"
  /\ UNCHANGED <<start, end, todo, actives, regs, rreg, spill, flag,
                 code, frame, spilledVRegs>>

-----------------------------------------------------------------------------
Spilled == {i \in Defining : spill[i]}
SlotOf(i) == frame + Cardinality({k \in Spilled : k <= i})
IsFar(slot) == slot > NearSlots

\* A register of its own for the far address of one load or store.
AddrVReg(slot, p) == (slot + 1) * (MaxNo + 1) + p

\* Mutant of LoadsFor: no reload.
NoLoads(i, p) == IF i \in Spilled /\ p \in Interval THEN <<>> ELSE <<code[p]>>

(***************************************************************************)
(* What genSpillCode inserts before a use at p.  For a far slot both       *)
(* insertions go to one iterator, which after the first one points at the  *)
(* inserted instruction: the load ends up before the address it needs.     *)
(* (When the first insertion reallocates the vector the iterator dangles;  *)
(* that outcome has no code to speak of and is left out.)                  *)
(***************************************************************************)
LoadsFor(i, p) ==
  LET slot == SlotOf(i)
      addr == AddrVReg(slot, p)
  IN  IF IsFar(slot)
      THEN <<Instr("ldr", code[i].def, {addr}, slot), Instr("addr", addr, {}, slot)>>
      ELSE <<Instr("ldr", code[i].def, {}, slot)>>

\* What it inserts after the definition; here the iterator is advanced.
StoresFor(i) ==
  LET slot == SlotOf(i)
      addr == AddrVReg(slot, 0)
  IN  IF IsFar(slot)
      THEN <<Instr("addr", addr, {}, slot), Instr("str", NoVReg, {code[i].def, addr}, slot)>>
      ELSE <<Instr("str", NoVReg, {code[i].def}, slot)>>

\* Stores go behind the definition's parent; no two spilled ones have the same.
Expand(p) ==
  LET defs == {i \in Spilled : Parent(i) = p}
  IN  FlattenSeq([i \in 1 .. Len(code) |->
                    IF i \in Spilled /\ p \in ReachedUses(i) THEN LoadsFor(i, p) ELSE <<>>])
        \o <<code[p]>>
        \o (IF defs = {} THEN <<>> ELSE StoresFor(CHOOSE i \in defs : TRUE))

GenSpillCode ==
  /\ phase = "scan" /\ ScanDone /\ ~flag
  /\ code' = FlattenSeq([p \in 1 .. Len(code) |-> Expand(p)])
  /\ Len(code') <= MaxNo                       \* bound
  /\ frame' = frame + Cardinality(Spilled)     \* AllocSpace(4) each
  /\ spilledVRegs' = spilledVRegs \cup {code[i].def : i \in Spilled}
  /\ phase' = "intervals"
  /\ UNCHANGED scanVars

RANext ==
  \/ Select
  \/ ComputeLiveIntervals
  \/ Scan
  \/ ModifyCode
  \/ GenSpillCode

RASpec == RAInit /\ [][RANext]_vars
FairRASpec == RASpec /\ WF_vars(RANext)

-----------------------------------------------------------------------------
(***************************************************************************)
(* Running the finished code, where the conditional moves at the places T  *)
(* execute, and those behind the others.  An operand of register v at p    *)
(* was rewritten to the register of the interval whose definition reaches  *)
(* p; what is in that register is what the last writer of it left.  A      *)
(* value has the place of the definition that gave it to its register.     *)
(***************************************************************************)
Garbage == -1

LastOf(S) == IF S = {} THEN 0 ELSE MaxOf(S)

Firsts == {p \in 1 .. Len(code) : code[p].op = "first"}
Executes(T, p) == IF p \in Firsts THEN p \in T ELSE p - 1 \notin T

ReachingDef(p, v) == LastOf({q \in 1 .. p - 1 : code[q].def = v})
LastWriter(T, p, r) ==
  LastOf({q \in 1 .. p - 1 : code[q].def # NoVReg /\ Executes(T, q) /\ rreg[Named(q)] = r})
LastStore(p, slot) ==
  LastOf({q \in 1 .. p - 1 : code[q].op = "str" /\ code[q].slot = slot})

\* What the instruction at p finds in the register of operand v, when the
\* instructions before it have put these values into theirs.
Read(T, values, p, v) ==
  LET d == ReachingDef(p, v)
      w == LastWriter(T, p, rreg[d])
  IN  IF d = 0 \/ w = 0 THEN Garbage ELSE values[w]

\* The value the instruction at p puts into the register it defines; that of
\* an address is the address.
Computed(T, values, p) ==
  LET s == LastStore(p, code[p].slot)
      addressed(q, us) == \A a \in us : Read(T, values, q, a) = a
      stored == Read(T, values, s, CHOOSE v \in code[s].uses : v \in VReg)
  IN  CASE Selected(p) -> Named(p)
        [] code[p].op = "addr" -> code[p].def
        [] code[p].op = "ldr" ->
             IF s # 0 /\ addressed(p, code[p].uses) /\ addressed(s, code[s].uses \ VReg)
             THEN stored ELSE Garbage
        [] OTHER -> Garbage

Values(T) ==
  LET value[p \in 1 .. Len(code)] == Computed(T, value, p)
  IN  value

\* The selected instruction that gave v the value it has before p.
Origin(p, v) == LastOf({q \in 1 .. p - 1 : Selected(q) /\ code[q].def = v})

\* Every use of the selected code reads the value its register was given last,
\* through shared registers, spills, reloads and repeated rounds, as long as
\* every slot is near: a far one is loaded before its address is known.
ValuesPreserved ==
  phase = "done" /\ frame <= NearSlots =>
    \A T \in SUBSET Firsts : \A p \in 1 .. Len(code) : Selected(p) =>
      \A v \in code[p].uses : Read(T, Values(T), p, v) = Origin(p, v)

\* The reloads and stores of spill code have such short ranges that the scan
\* never picks their register again: a register is spilled at most once, which
\* is what makes the while loop of allocateRegisters end.  Nor does it pick an
\* operand that is handed on, whose store would come too late for its reload.
SpilledOnlyOnce ==
  phase = "scan" => \A i \in Defining : spill[i] =>
                      code[i].def \notin spilledVRegs /\ code[i].op # "pass"

\* push {...} and pop {...} name every callee-saved register the code writes.
WrittenRegsAreSaved ==
  phase = "done" =>
    \A p \in 1 .. Len(code) : code[p].def # NoVReg => rreg[Named(p)] \in savedRegs

\* allocateRegisters returns.
AllocationEnds == <>(phase = "done")

=============================================================================

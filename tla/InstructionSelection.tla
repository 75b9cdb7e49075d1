------------------------ MODULE InstructionSelection ------------------------
(***************************************************************************)
(* The way of an expression through the compiler: the tree the parser      *)
(* builds, the IR its genCode methods emit (src/src/Ast.cpp), the machine  *)
(* instructions that genMachineCode selects for it (src/src/Instruction.cpp*)
(* with the condition code AsmBuilder remembers), and what these do.       *)
(*                                                                         *)
(* Expressions are read in postfix order, one action per node, the order   *)
(* in which genCode comes back from them.  The code of a node is run as    *)
(* soon as it is selected: an expression stays in one block, and what a    *)
(* negation or a comparison leaves in the middle of a block is cleaned     *)
(* away (module GenCode), so that only the last one branches.  && and ||   *)
(* are conditions one after another.  Variables are ints; only a negation  *)
(* or a comparison is a bool.                                              *)
(***************************************************************************)
EXTENDS Integers, SequencesExt

CONSTANTS
  Locals, Globals,   \* variables
  Consts,            \* literals of the program
  Initial,           \* values in memory at the start, and results of calls
  Width,             \* bits of a word: 32
  ArgRegs,           \* registers for parameters: 4
  CmpImmediate,      \* largest immediate of a comparison: 255
  MaxOperands,       \* bound: operands of an expression that wait for their operator
  MaxNodes,          \* bound: nodes of an expression
  MaxStmts,          \* bound: statements
  Undef              \* what nobody wrote; operations pass it on

\* A word has a sign bit at least, and half of its range is a number.
ASSUME SizesAssumption ==
  /\ Width \in Nat \ {0} /\ 2 ^ (Width - 1) \in Nat \ {0}
  /\ ArgRegs \in Nat /\ MaxOperands \in Nat /\ MaxNodes \in Nat /\ IsFiniteSet(Locals)

VARIABLES
  operands,    \* the subtrees that wait for their parent, innermost last
  machine,     \* registers, flags and memory
  cmpOpcode,   \* AsmBuilder::cmpOpcode
  store,       \* the variables as the syntax trees say
  observed,    \* what the last step showed: branch, parameters, result
  converted,   \* a bool was converted to int
  nodes, stmts \* counters for the bounds

selVars == <<operands, machine, cmpOpcode, store, observed, converted, nodes, stmts>>

Vars == Locals \cup Globals
Half == 2 ^ (Width - 1)
Word == -Half .. Half - 1
Wrap(n) == ((n + Half) % (2 * Half)) - Half
CmpOps == {"E", "NE", "L", "LE", "G", "GE"}

\* The program deals in ints; what nobody wrote is none of its values.
ASSUME ValuesAssumption ==
  /\ Consts \subseteq Int /\ Initial \subseteq Int
  /\ Undef \notin Int /\ Undef \notin BOOLEAN /\ Undef \notin CmpOps

Opposite == [E |-> "NE", NE |-> "E", L |-> "GE", GE |-> "L", LE |-> "G", G |-> "LE"]

-----------------------------------------------------------------------------
(***************************************************************************)
(* The meaning of operators, for the source and for the processor alike.   *)
(***************************************************************************)
Magnitude(a) == IF a < 0 THEN -a ELSE a
Quotient(a, b) ==
  IF b = 0 THEN 0
  ELSE LET q == Magnitude(a) \div Magnitude(b) IN IF (a < 0) = (b < 0) THEN q ELSE -q

Apply(f, a, b) ==
  IF Undef \in {a, b} THEN Undef
  ELSE Wrap(CASE f = "add" -> a + b
              [] f = "sub" -> a - b
              [] f = "mul" -> a * b
              [] f = "div" -> Quotient(a, b)
              [] f = "mod" -> a - b * Quotient(a, b))

Compare(c, a, b) ==
  CASE c = "E" -> a = b
    [] c = "NE" -> a # b
    [] c = "L" -> a < b
    [] c = "LE" -> a <= b
    [] c = "G" -> a > b
    [] c = "GE" -> a >= b

Bit(b) == IF b THEN 1 ELSE 0
Not(a) == IF a = Undef THEN Undef ELSE Bit(a = 0)

(***************************************************************************)
(* The processor.  The flags are the two values last compared.             *)
(***************************************************************************)
Imm(v) == <<"imm", v>>
VReg(t) == <<"v", t>>         \* a virtual register, named by a temporary
Internal(i) == <<"x", i>>     \* one that genMachineCode makes up
Reg(i) == <<"r", i>>
IsImm(o) == o[1] = "imm"

Val(m, o) == IF IsImm(o) THEN o[2] ELSE IF o \in DOMAIN m.regs THEN m.regs[o] ELSE Undef
Put(m, d, v) == [m EXCEPT !.regs = [o \in DOMAIN @ \cup {d} |-> IF o = d THEN v ELSE @[o]]]
Target(m, at) == IF at[1] = "fp" THEN at ELSE m.regs[at]
Holds(c, flags) ==
  IF c = Undef \/ Undef \in ToSet(flags) THEN Undef ELSE Compare(c, flags[1], flags[2])

PutIf(m, holds, d, v) ==
  IF holds = Undef THEN Put(m, d, Undef) ELSE IF holds THEN Put(m, d, v) ELSE m

Exec(m, i) ==
  CASE i.op = "ldr=" -> Put(m, i.d, i.v)
    [] i.op = "ldr" -> Put(m, i.d, m.mem[Target(m, i.at)])
    [] i.op = "str" -> [m EXCEPT !.mem[Target(m, i.at)] = Val(m, i.s)]
    [] i.op = "bin" -> Put(m, i.d, Apply(i.f, Val(m, i.s1), Val(m, i.s2)))
    [] i.op = "cmp" -> [m EXCEPT !.flags = <<Val(m, i.s1), Val(m, i.s2)>>]
    [] i.op = "mov" -> Put(m, i.d, Val(m, i.s))
    [] i.op = "movc" -> PutIf(m, Holds(i.c, m.flags), i.d, Val(m, i.s))
    [] i.op = "bl" -> [Put(m, Reg(0), i.result) EXCEPT !.flags = <<Undef, Undef>>]
Run(m, code) == FoldLeft(Exec, m, code)

-----------------------------------------------------------------------------
(***************************************************************************)
(* genMachineCode, one operator per IR instruction.                        *)
(***************************************************************************)
LoadImm(d, v) == [op |-> "ldr=", d |-> d, v |-> v]
Load(d, at) == [op |-> "ldr", d |-> d, at |-> at]
Store(s, at) == [op |-> "str", s |-> s, at |-> at]
Bin(f, d, s1, s2) == [op |-> "bin", f |-> f, d |-> d, s1 |-> s1, s2 |-> s2]
Cmp(s1, s2) == [op |-> "cmp", s1 |-> s1, s2 |-> s2]
Mov(d, s) == [op |-> "mov", d |-> d, s |-> s]
MovIf(c, d, s) == [op |-> "movc", c |-> c, d |-> d, s |-> s]

\* An immediate goes to a register of its own first.
Loaded(o, i) == IF IsImm(o) THEN <<LoadImm(Internal(i), o[2])>> ELSE <<>>
InReg(o, i) == IF IsImm(o) THEN Internal(i) ELSE o

\* Locals get slots below fp, one after another.
Slot(x) == <<"fp", -4 * CHOOSE i \in 1 .. Cardinality(Locals) : SetToSeq(Locals)[i] = x>>
Label(x) == <<"label", x>>
AddressOf(x) == IF x \in Globals THEN Label(x) ELSE Slot(x)

SelectLoad(d, x) ==
  IF x \in Globals THEN <<LoadImm(Internal(1), Label(x)), Load(d, Internal(1))>>
                   ELSE <<Load(d, Slot(x))>>

SelectStore(x, s) ==
  Loaded(s, 1) \o
  IF x \in Globals THEN <<LoadImm(Internal(2), Label(x)), Store(InReg(s, 1), Internal(2))>>
                   ELSE <<Store(InReg(s, 1), Slot(x))>>

\* There is no instruction for a remainder.
SelectBinary(f, d, s1, s2) ==
  LET a == InReg(s1, 1)
      b == InReg(s2, 2)
  IN  Loaded(s1, 1) \o Loaded(s2, 2) \o
      IF f = "mod" THEN <<Bin("div", d, a, b), Bin("mul", d, d, b), Bin("sub", d, a, d)>>
                   ELSE <<Bin(f, d, a, b)>>

\* Mutant of SelectCmp: the second move has the condition with the operands swapped.
CmpSwapped(c, d, s1, s2) ==
  LET other == [E |-> "NE", NE |-> "E", L |-> "G", G |-> "L", LE |-> "GE", GE |-> "LE"]
      b == IF IsImm(s2) /\ s2[2] > CmpImmediate THEN Internal(2) ELSE s2
  IN  Loaded(s1, 1) \o (IF b # s2 THEN Loaded(s2, 2) ELSE <<>>) \o
      <<Cmp(InReg(s1, 1), b), MovIf(c, d, Imm(1)), MovIf(other[c], d, Imm(0))>>

\* The flags, and a bit in a register as well.
SelectCmp(c, d, s1, s2) ==
  LET b == IF IsImm(s2) /\ s2[2] > CmpImmediate THEN Internal(2) ELSE s2
  IN  Loaded(s1, 1) \o (IF b # s2 THEN Loaded(s2, 2) ELSE <<>>) \o
      <<Cmp(InReg(s1, 1), b), MovIf(c, d, Imm(1)), MovIf(Opposite[c], d, Imm(0))>>

\* XorInstruction does not look at its operand but at the flags.
SelectXor(d) == <<MovIf("E", d, Imm(1)), MovIf("NE", d, Imm(0))>>

SelectZext(d, s) == <<Mov(d, s)>>

SelectParams(params) ==
  IF Len(params) > ArgRegs THEN <<>> ELSE [i \in DOMAIN params |-> Mov(Reg(i - 1), params[i])]

SelectRet(s) == <<Mov(Reg(0), s)>>

\* Two instructions of the IR have no machine code.
SelectToBool == <<>>
SelectTypeConver == <<>>

-----------------------------------------------------------------------------
SelInit ==
  /\ operands = <<>>
  /\ \E mem \in [{AddressOf(x) : x \in Vars} -> Initial] :
       /\ machine = [regs |-> <<>>, flags |-> <<Undef, Undef>>, mem |-> mem]
       /\ store = [x \in Vars |-> mem[AddressOf(x)]]
  /\ cmpOpcode = Undef
  /\ observed = {}
  /\ converted = FALSE
  /\ nodes = 0 /\ stmts = 0

(***************************************************************************)
(* A subtree: its symbol (of a constant, an identifier or a temporary),    *)
(* its type, its operand in the IR, and the value the tree has.  "rel" is  *)
(* a comparison, which only a condition or another one may contain.        *)
(***************************************************************************)
Subtree(sym, type, op, ast) == [sym |-> sym, type |-> type, op |-> op, ast |-> ast]
Top == Last(operands)
Second == operands[Len(operands) - 1]
Below(n) == SubSeq(operands, 1, Len(operands) - n)
Top2AreArithmetic == Len(operands) >= 2 /\ Top.sym # "rel" /\ Second.sym # "rel"

\* Temporaries that no subtree needs any more are forgotten, and their
\* numbers are used again.
InUse(trees) == {trees[i].op : i \in DOMAIN trees} \cap {VReg(t) : t \in 1 .. MaxNodes * 3}
Temp(i) == VReg(i + Max({o[2] : o \in InUse(operands)} \cup {0}))
Forget(m, trees) == [m EXCEPT !.regs = Restrict(@, DOMAIN @ \cap InUse(trees))]

MayGrow == stmts < MaxStmts /\ nodes < MaxNodes
Grow(n, tree, code) ==
  /\ operands' = Append(Below(n), tree)
  /\ machine' = Forget(Run(machine, code), operands')
  /\ nodes' = nodes + 1
  /\ UNCHANGED <<store, stmts>>

Constant(v) ==
  /\ MayGrow /\ Len(operands) < MaxOperands
  /\ Grow(0, Subtree("constant", "int", Imm(v), v), <<>>)
  /\ observed' = {}
  /\ UNCHANGED <<cmpOpcode, converted>>

Id(x) ==
  /\ MayGrow /\ Len(operands) < MaxOperands
  /\ Grow(0, Subtree("id", "int", Temp(1), store[x]), SelectLoad(Temp(1), x))
  /\ observed' = {}
  /\ UNCHANGED <<cmpOpcode, converted>>

\* An operand that must be an int; a bool becomes a new temporary.
AsInt(tree, t) == IF tree.type = "bool" THEN t ELSE tree.op

BinaryExpr(f) ==
  /\ MayGrow /\ Top2AreArithmetic
  /\ f \in {"div", "mod"} => Top.ast # 0
  /\ Grow(2, Subtree("temporary", "int", Temp(1), Apply(f, Second.ast, Top.ast)),
          SelectTypeConver \o
          SelectBinary(f, Temp(1), AsInt(Second, Temp(2)), AsInt(Top, Temp(3))))
  /\ converted' = (converted \/ "bool" \in {Top.type, Second.type})
  /\ observed' = {}
  /\ UNCHANGED cmpOpcode

\* A comparison converts the bool if only one side is one.
Comparison(c) ==
  /\ MayGrow /\ Len(operands) = 2 /\ Top.sym # "rel"
  /\ LET mixed == Top.type # Second.type
         Operand(tree, t) == IF mixed THEN AsInt(tree, t) ELSE tree.op
     IN  /\ Grow(2, Subtree("rel", "bool", Temp(1), Bit(Compare(c, Second.ast, Top.ast))),
                 SelectTypeConver \o
                 SelectCmp(c, Temp(1), Operand(Second, Temp(2)), Operand(Top, Temp(3))))
         /\ converted' = (converted \/ mixed)
  /\ cmpOpcode' = c
  /\ observed' = {}

\* Mutant of NotCode: an int is not compared with 0 first.
NotCodeShort(tree) ==
  SelectXor(Temp(1)) \o SelectCmp("NE", Temp(3), tree.op, Imm(1))

\* The negation of a bool uses the flags that computed the bool; a second
\* comparison prepares the branch.
NotCode(tree) ==
  LET src == IF tree.type = "bool" THEN tree.op ELSE Temp(2)
  IN  (IF tree.type = "bool" THEN <<>> ELSE SelectCmp("NE", Temp(2), tree.op, Imm(0)))
      \o SelectXor(Temp(1))
      \o SelectCmp("NE", Temp(3), src, Imm(1))

NotExpr ==
  /\ MayGrow /\ operands # <<>> /\ Top.sym # "rel"
  /\ Grow(1, Subtree("temporary", "bool", Temp(1), Not(Top.ast)), NotCode(Top))
  /\ cmpOpcode' = "NE"
  /\ observed' = {}
  /\ UNCHANGED converted

(***************************************************************************)
(* A sign.  The parser computes the value of a constant.  For an           *)
(* identifier it changes the value it keeps in the symbol entry, which     *)
(* genCode never loads, and hands on the same tree: -x is compiled as x,   *)
(* and "what the tree says" below is x.  Only other trees get a node.      *)
(***************************************************************************)
SignOfConstant(f) ==
  /\ MayGrow /\ operands # <<>> /\ Top.sym = "constant"
  /\ LET v == Apply(f, 0, Top.ast)
     IN  Grow(1, Subtree("constant", "int", Imm(v), v), <<>>)
  /\ observed' = {}
  /\ UNCHANGED <<cmpOpcode, converted>>

SignOfId ==
  /\ MayGrow /\ operands # <<>> /\ Top.sym = "id"
  /\ Grow(1, Top, <<>>)
  /\ observed' = {}
  /\ UNCHANGED <<cmpOpcode, converted>>

SignExpr(f) ==
  /\ MayGrow /\ operands # <<>> /\ Top.sym = "temporary"
  /\ LET src == AsInt(Top, Temp(2))
     IN  Grow(1, Subtree("temporary", "int", Temp(1), Apply(f, 0, Top.ast)),
              (IF Top.type = "bool" THEN SelectZext(src, Top.op) ELSE <<>>)
              \o SelectBinary(f, Temp(1), Imm(0), src))
  /\ observed' = {}
  /\ UNCHANGED <<cmpOpcode, converted>>

-----------------------------------------------------------------------------
Seen(what, got, ast) == [what |-> what, got |-> got, ast |-> ast]

\* What the callee finds in the registers for its n parameters.
Arguments(n) ==
  LET params == SubSeq(operands, Len(operands) - n + 1, Len(operands))
      atCall == Run(machine, SelectParams([i \in 1 .. n |-> params[i].op]))
      what == IF n > ArgRegs THEN "one of many" ELSE "parameter"
  IN  {Seen(what, Val(atCall, Reg(i - 1)), params[i].ast) : i \in 1 .. n}

CallCode(n, result) ==
  SelectParams([i \in 1 .. n |-> operands[Len(operands) - n + i].op])
  \o <<[op |-> "bl", result |-> result]>>

MayCall(n) ==
  MayGrow /\ n <= Len(operands) /\ \A i \in Len(operands) - n + 1 .. Len(operands) : operands[i].sym # "rel"

FuncCallExp(n, result) ==
  /\ MayCall(n)
  /\ n = 0 => Len(operands) < MaxOperands
  /\ Grow(n, Subtree("temporary", "int", Temp(1), result),
          CallCode(n, result) \o <<Mov(Temp(1), Reg(0))>>)
  /\ observed' = Arguments(n)
  /\ UNCHANGED <<cmpOpcode, converted>>

\* The end of a statement: its temporaries are dead.
EndStmt(code) ==
  /\ machine' = Forget(Run(machine, code), <<>>)
  /\ operands' = <<>>
  /\ nodes' = 0
  /\ stmts' = stmts + 1

\* A void function is called for itself only.
VoidCallStmt(n) ==
  /\ MayCall(n) /\ n = Len(operands)
  /\ EndStmt(CallCode(n, Undef))
  /\ observed' = Arguments(n)
  /\ UNCHANGED <<cmpOpcode, store, converted>>

HasValue == Len(operands) = 1 /\ Top.sym # "rel"

AssignStmt(x) ==
  /\ HasValue
  /\ EndStmt(SelectTypeConver \o SelectStore(x, AsInt(Top, Temp(2))))
  /\ store' = [store EXCEPT ![x] = Top.ast]
  /\ converted' = (converted \/ Top.type = "bool")
  /\ observed' = {}
  /\ UNCHANGED cmpOpcode

\* An initialiser is stored as it is.
DeclStmt(x) ==
  /\ HasValue
  /\ EndStmt(SelectStore(x, Top.op))
  /\ store' = [store EXCEPT ![x] = Top.ast]
  /\ observed' = {}
  /\ UNCHANGED <<cmpOpcode, converted>>

ReturnStmt ==
  /\ HasValue
  /\ EndStmt(SelectRet(Top.op))
  /\ observed' = {Seen("result", Val(Run(machine, SelectRet(Top.op)), Reg(0)), Top.ast)}
  /\ UNCHANGED <<cmpOpcode, store, converted>>

\* Mutant of BranchTaken: the branch is always for "not equal".
BranchNotEqual(m) == Holds("NE", m.flags)

\* CondBrInstruction: the condition is the one remembered last.
BranchTaken(m) == Holds(cmpOpcode, m.flags)

\* A condition, or an operand of && or ||; an int is made a bool by toBool.
Condition ==
  /\ Len(operands) = 1
  /\ EndStmt(IF Top.type = "bool" THEN <<>> ELSE SelectToBool)
  /\ observed' = {Seen(IF Top.type = "bool" THEN "condition" ELSE "int condition",
                       BranchTaken(machine'), Top.ast # 0)}
  /\ UNCHANGED <<cmpOpcode, store, converted>>

SelNext ==
  \/ \E v \in Consts : Constant(v)
  \/ \E x \in Vars : Id(x)
  \/ \E f \in {"add", "sub", "mul", "div", "mod"} : BinaryExpr(f)
  \/ \E c \in CmpOps : Comparison(c)
  \/ NotExpr
  \/ \E f \in {"add", "sub"} : SignOfConstant(f) \/ SignExpr(f)
  \/ SignOfId
  \/ \E n \in 0 .. MaxOperands, result \in Initial : FuncCallExp(n, result)
  \/ \E n \in 0 .. MaxOperands : VoidCallStmt(n)
  \/ \E x \in Vars : AssignStmt(x)
  \/ \E x \in Locals : DeclStmt(x)
  \/ ReturnStmt
  \/ Condition

SelSpec == SelInit /\ [][SelNext]_selVars

-----------------------------------------------------------------------------
(***************************************************************************)
(* The code computes what the tree says: every subtree, bools included,    *)
(* is in its operand, and every variable in its memory.  A value may be    *)
(* undefined, never wrong.                                                 *)
(***************************************************************************)
ValuesRight ==
  /\ \A i \in DOMAIN operands : Val(machine, operands[i].op) \in {operands[i].ast, Undef}
  /\ \A x \in Vars : machine.mem[AddressOf(x)] \in {store[x], Undef}

\* What leaves the expression is right as well: a branch on a comparison or
\* a negation, the result of a function, and parameters while registers last.
EffectsRight ==
  \A o \in observed :
    o.what \in {"condition", "result", "parameter"} => o.got \in {o.ast, Undef}

\* Nothing is undefined in a program that never converts a bool to an int,
\* but the test of an int and the parameters of a long list.
UndefinedOnlyAfterConversion ==
  ~converted =>
    /\ \A i \in DOMAIN operands : Val(machine, operands[i].op) # Undef
    /\ \A x \in Vars : machine.mem[AddressOf(x)] # Undef
    /\ \A o \in observed :
         o.what \in {"condition", "result", "parameter"} => o.got # Undef

\* Ast.cpp:182: "if the result of lhs is true, jump to the trueBB"; test
\* Advanced/13_LCA.sy:11 branches on an int.
IntConditionsTested ==
  \A o \in observed : o.what = "int condition" => o.got = o.ast

=============================================================================

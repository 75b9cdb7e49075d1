----------------------------- MODULE IRObjects ------------------------------
(***************************************************************************)
(* The objects of the intermediate code and the pointers between them:     *)
(* instructions in rings with a dummy head (src/src/BasicBlock.cpp),       *)
(* operands with the instructions that use them (src/src/Operand.cpp), and *)
(* what the constructors and destructors of src/src/Instruction.cpp and    *)
(* the linking in FunctionDef::genCode (src/src/Ast.cpp) do to both.       *)
(*                                                                         *)
(* Instructions are numbered as they are made.  The operand an instruction *)
(* defines has its number, and so has the literal a store may store; the   *)
(* head of block b is -b.                                                  *)
(***************************************************************************)
EXTENDS Integers, FiniteSets, SequencesExt

CONSTANTS
  Var,         \* local variables
  NumBlocks,   \* blocks of the function; block 1 is the entry
  Branches,    \* block -> targets of a branch in it: <<true, false>> or <<>>
  Programs,    \* what genCode is called for: sequences of [op, var], see GenCode
  MaxInsts     \* bound: instructions made before the blocks are linked

Block == 1 .. NumBlocks
Ops == {"decl", "id", "assign", "call", "tobool", "cond", "br", "ret", "drop", "next"}
\* The block the k-th node of a program is generated in.
BlockOf(p, k) == 1 + Cardinality({j \in 1 .. k - 1 : p[j].op = "next"})

ASSUME SizeAssumption == NumBlocks \in Nat \ {0} /\ MaxInsts \in Nat
\* genCode makes the two targets of a branch for it.
ASSUME BranchesAssumption ==
  \A b \in Block :
    Branches[b] = <<>> \/ \E t, f \in Block : t # f /\ Branches[b] = <<t, f>>
ASSUME ProgramsAssumption ==
  \A p \in Programs :
    /\ p \in Seq([op : Ops, var : Var]) /\ Len(p) <= MaxInsts
    /\ \A k \in 1 .. Len(p) + 1 : BlockOf(p, k) <= NumBlocks
    /\ \A k \in DOMAIN p : p[k].op \in {"cond", "br"} => Branches[BlockOf(p, k)] # <<>>

Id == 1 .. MaxInsts + NumBlocks
Dummy(b) == -b

VARIABLES
  insts,             \* made: [kind, operands, fields, parent, targets]
  prev, next,        \* Instruction::prev and next
  uses, loadUses,    \* Operand::uses, the number of Operand::loaduses
  freed, freedOps,   \* deleted instructions and operands
  touched,           \* history: deleted objects that were read or written
  succ, pred,        \* of blocks
  todo,              \* the rest of the program
  addr,              \* IdentifierSymbolEntry::addr of the variables, or 0
  insertBB, temp,    \* the block code goes to; the value at hand, or 0
  stage, bb, cursor  \* what runs, and where it is

objects == <<insts, prev, next, uses, loadUses, freed, freedOps, touched, succ, pred>>
making == <<todo, addr, insertBB, temp>>

Kind(i) == insts[i].kind

-----------------------------------------------------------------------------
\* Heads and instructions to come are rings of their own.
Init ==
  /\ insts = <<>>
  /\ prev = [i \in -NumBlocks .. MaxInsts + NumBlocks |-> i]
  /\ next = prev
  /\ uses = [o \in Id |-> <<>>] /\ loadUses = [o \in Id |-> 0]
  /\ freed = {} /\ freedOps = {} /\ touched = {}
  /\ succ = [b \in Block |-> <<>>] /\ pred = succ
  /\ todo \in Programs
  /\ addr = [v \in Var |-> 0]
  /\ insertBB = 1 /\ temp = 0
  /\ stage = "making" /\ bb = 1 /\ cursor = 0

\* BasicBlock::begin to end, along some links, for at most "most" instructions.
\* (Sets of one element, so that TLC evaluates what was walked once.)
RingOf(links, most, b) ==
  LET Walk[n \in 0 .. most + 1] ==
        IF n = 0 THEN <<links[Dummy(b)]>>
        ELSE CHOOSE w \in {IF Last(walked) = Dummy(b) THEN walked ELSE Append(walked, links[Last(walked)]) :
                             walked \in {Walk[n - 1]}} : TRUE
  IN  Front(Walk[most + 1])
Ring(b) == RingOf(next, Len(insts), b)

\* The elements of a sequence at some of its places.
Those(s, places) == FlattenSeq([k \in DOMAIN s |-> IF k \in places THEN <<s[k]>> ELSE <<>>])

\* BasicBlock::insertBefore
InsertBefore(dst, src) ==
  /\ prev' = [prev EXCEPT ![dst] = prev[src], ![src] = dst]
  /\ next' = [next EXCEPT ![prev[src]] = dst, ![dst] = src]

\* Mutant of Unlinked: the neighbour behind keeps its old prev.
UnlinkedHalf(links, i) ==
  [links EXCEPT !.next = [links.next EXCEPT ![links.prev[i]] = links.next[i]]]
\* BasicBlock::remove; the instruction itself keeps its pointers.
Unlinked(links, i) ==
  [next |-> [links.next EXCEPT ![links.prev[i]] = links.next[i]],
   prev |-> [links.prev EXCEPT ![links.next[i]] = links.prev[i]]]

UnlinkedAll(links, seq) ==
  LET After[k \in 0 .. Len(seq)] == IF k = 0 THEN links ELSE Unlinked(After[k - 1], seq[k])
  IN  After[Len(seq)]

Unlink(seq) ==
  LET links == UnlinkedAll([next |-> next, prev |-> prev], seq)
  IN  next' = links.next /\ prev' = links.prev

-----------------------------------------------------------------------------
\* The operands an instruction is registered with as a user: by its constructor
\* and, with what replaceUse has changed in between, by its destructor.
UsedBy(inst) ==
  CASE inst.kind = "alloca" -> <<>>
    [] inst.kind = "load" -> <<inst.operands[2]>>
    [] inst.kind \in {"call", "tobool"} -> inst.fields
    [] OTHER -> inst.operands
Used(i) == UsedBy(insts[i])

\* A constructor: the instruction goes to an end of its block and registers.
Make(kind, operands, fields, front) ==
  LET i == Len(insts) + 1
      b == IF front THEN 1 ELSE insertBB
      inst == [kind |-> kind, operands |-> operands, fields |-> fields, parent |-> b,
               targets |-> IF kind \in {"cond", "br"} THEN Branches[b] ELSE <<>>]
  IN  /\ insts' = Append(insts, inst)
      /\ InsertBefore(i, IF front THEN next[Dummy(b)] ELSE Dummy(b))
      /\ uses' = [o \in Id |-> IF o \in ToSet(UsedBy(inst)) THEN Append(uses[o], i) ELSE uses[o]]
      /\ loadUses' = [o \in Id |-> IF kind = "load" /\ o = operands[2] THEN loadUses[o] + 1 ELSE loadUses[o]]
  /\ UNCHANGED <<freed, freedOps, touched, succ, pred>>

(***************************************************************************)
(* A destructor: the operand it defines goes if nobody uses it, the others *)
(* forget one use each, ~Instruction takes it out of its ring.             *)
(***************************************************************************)
OwnOperand(i) == IF Kind(i) \in {"alloca", "load", "call"} THEN {i} ELSE {}

Touches(kind, set, gone) == {[k |-> kind, id |-> x] : x \in set \cap gone}

\* ... and "others" are taken out behind it, but not deleted; "later" is read after.
DeleteAnd(i, others, later) ==
  /\ freed' = freed \cup {i}
  /\ freedOps' = freedOps \cup {o \in OwnOperand(i) : uses[o] = <<>>}
  /\ uses' = [o \in Id |-> IF o \in ToSet(Used(i)) THEN RemoveFirst(uses[o], i) ELSE uses[o]]
  /\ Unlink(<<i, i>> \o others)
  /\ touched' = touched \cup Touches("instruction", {i, prev[i], next[i]}, freed)
                  \cup Touches("instruction", later, freed \cup {i})
                  \cup Touches("operand", ToSet(insts[i].operands) \cup ToSet(insts[i].fields) \cup OwnOperand(i), freedOps)
  /\ UNCHANGED <<insts, loadUses, succ, pred>>

Delete(i) == DeleteAnd(i, <<>>, {})

-----------------------------------------------------------------------------
\* What genCode makes, called for one node of the syntax tree after the other.
Calls(op) ==
  /\ stage = "making" /\ todo # <<>> /\ todo[1].op = op
  /\ todo' = Tail(todo)
  /\ UNCHANGED <<stage, bb, cursor>>

NewId == Len(insts) + 1

\* DeclStmt::genCode: to the front of the entry, wherever the declaration is.
DeclStmt ==
  /\ Calls("decl")
  /\ Make("alloca", <<NewId>>, <<>>, TRUE)
  /\ addr' = [addr EXCEPT ![todo[1].var] = NewId]
  /\ UNCHANGED <<insertBB, temp>>

\* Id::genCode
IdExpr ==
  /\ Calls("id")
  /\ Make("load", <<NewId, addr[todo[1].var]>>, <<>>, FALSE)
  /\ temp' = NewId
  /\ UNCHANGED <<addr, insertBB>>

\* A literal, or the value at hand.
AssignStmt ==
  /\ Calls("assign")
  /\ Make("store", <<addr[todo[1].var], IF temp = 0 THEN NewId ELSE temp>>, <<>>, FALSE)
  /\ temp' = 0
  /\ UNCHANGED <<addr, insertBB>>

\* FuncCallInstruction keeps its parameters in params and in operands.
FuncCallExp ==
  /\ Calls("call")
  /\ Make("call", <<temp>>, <<temp>>, FALSE)
  /\ temp' = NewId
  /\ UNCHANGED <<addr, insertBB>>

\* ExprNode::toBool; ToBoolInstruction keeps its operand in src only.
ToBool ==
  /\ Calls("tobool")
  /\ Make("tobool", <<>>, <<temp>>, FALSE)
  /\ temp' = NewId
  /\ UNCHANGED <<addr, insertBB>>

CondBr ==
  /\ Calls("cond")
  /\ Make("cond", <<temp>>, <<>>, FALSE)
  /\ temp' = 0
  /\ UNCHANGED <<addr, insertBB>>

UncondBr ==
  /\ Calls("br")
  /\ Make("br", <<>>, <<>>, FALSE)
  /\ UNCHANGED <<addr, insertBB, temp>>

ReturnStmt ==
  /\ Calls("ret")
  /\ Make("ret", IF temp = 0 THEN <<>> ELSE <<temp>>, <<>>, FALSE)
  /\ temp' = 0
  /\ UNCHANGED <<addr, insertBB>>

\* The value of an expression that is a statement is dropped.
ExprStmt ==
  /\ Calls("drop")
  /\ temp' = 0
  /\ UNCHANGED <<objects, addr, insertBB>>

SetInsertBB ==
  /\ Calls("next")
  /\ insertBB' = insertBB + 1
  /\ UNCHANGED <<objects, addr, temp>>

GenCode ==
  \/ DeclStmt \/ IdExpr \/ AssignStmt \/ FuncCallExp \/ ToBool
  \/ CondBr \/ UncondBr \/ ReturnStmt \/ ExprStmt \/ SetInsertBB

-----------------------------------------------------------------------------
(***************************************************************************)
(* FunctionDef::genCode behind the body: block by block, instructions      *)
(* behind a jump or a return go, and so do conditional branches that are   *)
(* not last; then the last one says where the block leads.                 *)
(***************************************************************************)
BeginLink ==
  /\ stage = "making" /\ todo = <<>>
  /\ stage' = "linking" /\ bb' = 1 /\ cursor' = next[Dummy(1)]
  /\ UNCHANGED <<objects, making>>

Ended(i) ==
  LET ring == Ring(bb)
  IN  \E k \in DOMAIN ring : ring[k] = i /\ \E j \in 1 .. k - 1 : Kind(ring[j]) \in {"ret", "br"}

Superfluous(i) == Ended(i) \/ (Kind(i) = "cond" /\ next[i] # Dummy(bb))

CleanInst ==
  /\ stage = "linking" /\ cursor # Dummy(bb)
  /\ IF Superfluous(cursor) THEN Delete(cursor) ELSE UNCHANGED objects
  /\ cursor' = next[cursor]
  /\ UNCHANGED <<making, stage, bb>>

\* RetInstruction(nullptr, bb) is made where nothing leads on.
Edges(b, targets) ==
  /\ succ' = [succ EXCEPT ![b] = @ \o targets]
  /\ pred' = [t \in Block |-> IF t \in ToSet(targets) THEN Append(pred[t], b) ELSE pred[t]]

LinkBlock ==
  /\ stage = "linking" /\ cursor = Dummy(bb)
  /\ LET last == prev[Dummy(bb)]
     IN  IF last > 0 /\ Kind(last) \in {"ret", "br", "cond"}
         THEN /\ Edges(bb, IF Kind(last) = "br" THEN <<insts[last].targets[1]>> ELSE insts[last].targets)
              /\ UNCHANGED <<insts, prev, next>>
         ELSE /\ insts' = Append(insts, [kind |-> "ret", operands |-> <<>>, fields |-> <<>>,
                                         parent |-> bb, targets |-> <<>>])
              /\ InsertBefore(NewId, Dummy(bb))
              /\ UNCHANGED <<succ, pred>>
  /\ IF bb = NumBlocks
     THEN stage' = "linked" /\ UNCHANGED <<bb, cursor>>
     ELSE stage' = stage /\ bb' = bb + 1 /\ cursor' = next[Dummy(bb + 1)]
  /\ UNCHANGED <<uses, loadUses, freed, freedOps, touched, making>>

Link == BeginLink \/ CleanInst \/ LinkBlock

-----------------------------------------------------------------------------
\* Read both ways, every ring is a sequence of instructions of its block.
Broken == <<0, 0>>
InOrder(b, ring) ==
  /\ \A k \in DOMAIN ring : prev[ring[k]] = IF k = 1 THEN Dummy(b) ELSE ring[k - 1]
  /\ prev[Dummy(b)] = IF ring = <<>> THEN Dummy(b) ELSE Last(ring)

Contents ==
  [b \in Block |-> CHOOSE c \in {IF InOrder(b, ring) THEN ring ELSE Broken : ring \in {Ring(b)}} : TRUE]

=============================================================================

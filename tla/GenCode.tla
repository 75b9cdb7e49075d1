------------------------------ MODULE GenCode -------------------------------
(***************************************************************************)
(* The control flow that the genCode methods of src/src/Ast.cpp build for  *)
(* one function body, with the back-patching of conditions, and the pass   *)
(* of FunctionDef::genCode that cleans the blocks and links them.          *)
(*                                                                         *)
(* genCode calls itself on the children of a node.  What is left to do     *)
(* after such a call is a task on "agenda"; the blocks a method makes up   *)
(* front are named in the tasks it leaves.  An expression without control  *)
(* flow is one instruction, named by an id.                                *)
(***************************************************************************)
EXTENDS Integers, SequencesExt

CONSTANTS
  Statements, Conditions,    \* syntax trees, with all the trees inside them
  Program                    \* the function bodies

(***************************************************************************)
(* Syntax trees, as the grammar of parser.y allows them.  A leaf is a      *)
(* condition without && and ||: an int that toBool tests, a comparison, or *)
(* a negation; all three leave the same instructions and lists.            *)
(***************************************************************************)
Leaf(id) == [k |-> "leaf", id |-> id]
And(l, r) == [k |-> "and", l |-> l, r |-> r]
Or(l, r) == [k |-> "or", l |-> l, r |-> r]

Assign(id) == [k |-> "assign", id |-> id]          \* x = e;
AssignNot(id) == [k |-> "assignNot", id |-> id]    \* x = !e;
Return == [k |-> "return"]
If(c, s) == [k |-> "if", c |-> c, s |-> s]
IfElse(c, s, e) == [k |-> "ifElse", c |-> c, s |-> s, e |-> e]
While(c, s) == [k |-> "while", c |-> c, s |-> s]
StmtList(stmts) == [k |-> "seq", stmts |-> stmts]
Break == [k |-> "break"]
Continue == [k |-> "continue"]

ASSUME SyntaxAssumption ==
  /\ Program \subseteq Statements
  /\ \A c \in Conditions : c.k # "leaf" => {c.l, c.r} \subseteq Conditions
  /\ \A s \in Statements :
       /\ s.k = "assignNot" => Leaf(s.id) \in Conditions
       /\ s.k = "seq" => s.stmts \in Seq(Statements)
       /\ s.k \in {"if", "ifElse", "while"} => s.c \in Conditions /\ s.s \in Statements
       /\ s.k = "ifElse" => s.e \in Statements

\* Instructions; "other" is the false branch of a conditional one.
Do(id) == [op |-> "do", id |-> id]
Eval(id) == [op |-> "eval", id |-> id]
CondBr(to, other) == [op |-> "cond", to |-> to, other |-> other]
Br(to) == [op |-> "br", to |-> to]
Ret == [op |-> "ret"]

VARIABLES
  program,       \* the body
  agenda,        \* the rest of the genCode calls in progress, innermost first
  blocks,        \* the block list of the function; entry is block 1
  insertBB,      \* IRBuilder::insertBB
  lists,         \* true_list and false_list of the conditions still in use
  linked,        \* blocks that FunctionDef::genCode has linked
  succs, preds   \* BasicBlock::succ and BasicBlock::pred

genVars == <<program, agenda, blocks, insertBB, lists, linked, succs, preds>>
cfg == <<linked, succs, preds>>

Init ==
  /\ program \in Program
  /\ agenda = <<[t |-> "stmt", s |-> program]>>
  /\ blocks = << <<>> >>
  /\ insertBB = 1
  /\ lists = <<>>
  /\ linked = 0
  /\ succs = <<>> /\ preds = <<>>

Task(t) == agenda # <<>> /\ agenda[1].t = t
Stmt(k) == Task("stmt") /\ agenda[1].s.k = k
Cond(k) == Task("cond") /\ agenda[1].c.k = k
Replace(tasks) == agenda' = tasks \o Tail(agenda)

Blocks == DOMAIN blocks
New(i) == Len(blocks) + i
Emit(bs, insts) == [bs EXCEPT ![insertBB] = @ \o insts]

WithNew(bs, n) == bs \o [i \in 1 .. n |-> <<>>]

\* Node::backPatch: the instructions at these places branch to bb.
BackPatch(bs, places, bb) ==
  [b \in DOMAIN bs |-> [i \in DOMAIN bs[b] |->
     IF <<b, i>> \in places THEN [bs[b][i] EXCEPT !.to = bb] ELSE bs[b][i]]]

-----------------------------------------------------------------------------
GenAssign ==
  /\ Stmt("assign")
  /\ blocks' = Emit(blocks, <<Do(agenda[1].s.id)>>)
  /\ Replace(<<>>)
  /\ UNCHANGED <<program, insertBB, lists, cfg>>

\* The negation branches like a condition, then its value is stored.
GenAssignNot ==
  /\ Stmt("assignNot")
  /\ LET id == agenda[1].s.id
     IN  Replace(<<[t |-> "cond", c |-> Leaf(id)], [t |-> "store", id |-> id]>>)
  /\ UNCHANGED <<program, blocks, insertBB, lists, cfg>>

StoreNot ==
  /\ Task("store")
  /\ blocks' = Emit(blocks, <<Do(agenda[1].id)>>)
  /\ lists' = Tail(lists)
  /\ Replace(<<>>)
  /\ UNCHANGED <<program, insertBB, cfg>>

GenReturn ==
  /\ Stmt("return")
  /\ blocks' = Emit(blocks, <<Ret>>)
  /\ Replace(<<>>)
  /\ UNCHANGED <<program, insertBB, lists, cfg>>

GenSeq ==
  /\ Stmt("seq")
  /\ LET stmts == agenda[1].s.stmts
     IN  Replace([i \in DOMAIN stmts |-> [t |-> "stmt", s |-> stmts[i]]])
  /\ UNCHANGED <<program, blocks, insertBB, lists, cfg>>

\* BreakStmt::genCode and ContinueStmt::genCode are empty.
GenJumpStmt ==
  /\ Stmt("break") \/ Stmt("continue")
  /\ Replace(<<>>)
  /\ UNCHANGED <<program, blocks, insertBB, lists, cfg>>

GenIf ==
  /\ Stmt("if")
  /\ LET s == agenda[1].s
         then == New(1)
         end == New(2)
     IN  Replace(<<[t |-> "cond", c |-> s.c],
                   [t |-> "branch", yes |-> then, no |-> end],
                   [t |-> "stmt", s |-> s.s],
                   [t |-> "jump", to |-> end, next |-> end]>>)
  /\ blocks' = WithNew(blocks, 2)
  /\ UNCHANGED <<program, insertBB, lists, cfg>>

GenIfElse ==
  /\ Stmt("ifElse")
  /\ LET s == agenda[1].s
         then == New(1)
         else == New(2)
         end == New(3)
     IN  Replace(<<[t |-> "cond", c |-> s.c],
                   [t |-> "branch", yes |-> then, no |-> else],
                   [t |-> "stmt", s |-> s.s],
                   [t |-> "jump", to |-> end, next |-> else],
                   [t |-> "stmt", s |-> s.e],
                   [t |-> "jump", to |-> end, next |-> end]>>)
  /\ blocks' = WithNew(blocks, 3)
  /\ UNCHANGED <<program, insertBB, lists, cfg>>

\* After the condition: its exits are known, the code of "then" follows.
PatchBranches ==
  /\ Task("branch")
  /\ LET yes == agenda[1].yes
         no == agenda[1].no
     IN  /\ blocks' = BackPatch(BackPatch(blocks, lists[1].t, yes), lists[1].f, no)
         /\ insertBB' = yes
  /\ lists' = Tail(lists)
  /\ Replace(<<>>)
  /\ UNCHANGED <<program, cfg>>

\* Mutant of JumpOn: the insert block is changed before the jump is made.
JumpFromNext ==
  /\ Task("jump")
  /\ blocks' = [blocks EXCEPT ![agenda[1].next] = Append(@, Br(agenda[1].to))]
  /\ insertBB' = agenda[1].next
  /\ Replace(<<>>)
  /\ UNCHANGED <<program, lists, cfg>>

\* At the end of a branch: whatever block it ended in leaves for "to".
JumpOn ==
  /\ Task("jump")
  /\ blocks' = Emit(blocks, <<Br(agenda[1].to)>>)
  /\ insertBB' = agenda[1].next
  /\ Replace(<<>>)
  /\ UNCHANGED <<program, lists, cfg>>

GenWhile ==
  /\ Stmt("while")
  /\ LET s == agenda[1].s
         while == New(1)
         then == New(2)
         end == New(3)
     IN  /\ Replace(<<[t |-> "cond", c |-> s.c],
                      [t |-> "loop", yes |-> then, no |-> end, s |-> s.s]>>)
         /\ blocks' = WithNew(Emit(blocks, <<Br(while)>>), 3)
         /\ insertBB' = while
  /\ UNCHANGED <<program, lists, cfg>>

\* while_bb becomes the block the condition ended in, and the body jumps
\* there.  The two lists of IRBuilder for break and continue are empty.
WhileCondDone ==
  /\ Task("loop")
  /\ LET yes == agenda[1].yes
         no == agenda[1].no
     IN  /\ blocks' = BackPatch(BackPatch(blocks, lists[1].t, yes), lists[1].f, no)
         /\ insertBB' = yes
         /\ Replace(<<[t |-> "stmt", s |-> agenda[1].s],
                      [t |-> "jump", to |-> insertBB, next |-> no]>>)
  /\ lists' = Tail(lists)
  /\ UNCHANGED <<program, cfg>>

-----------------------------------------------------------------------------
\* Mutant of GenLeaf: one placeholder serves both exits.
GenLeafShared ==
  /\ Cond("leaf")
  /\ LET true == New(1)
         temp == New(2)
         place == Len(blocks[insertBB]) + 2
     IN  /\ blocks' = [WithNew(Emit(blocks, <<Eval(agenda[1].c.id), CondBr(true, temp)>>), 2)
                         EXCEPT ![temp] = <<Br(true)>>]
         /\ lists' = <<[t |-> {<<insertBB, place>>}, f |-> {<<temp, 1>>}]>> \o lists
  /\ Replace(<<>>)
  /\ UNCHANGED <<program, insertBB, cfg>>

\* toBool, and the end of a comparison or a negation: a conditional branch
\* to a placeholder, or through a block of its own to another placeholder.
GenLeaf ==
  /\ Cond("leaf")
  /\ LET true == New(1)
         false == New(2)
         temp == New(3)
         place == Len(blocks[insertBB]) + 2
     IN  /\ blocks' = [WithNew(Emit(blocks, <<Eval(agenda[1].c.id), CondBr(true, temp)>>), 3)
                         EXCEPT ![temp] = <<Br(false)>>]
         /\ lists' = <<[t |-> {<<insertBB, place>>}, f |-> {<<temp, 1>>}]>> \o lists
  /\ Replace(<<>>)
  /\ UNCHANGED <<program, insertBB, cfg>>

\* && and ||: the block for the right operand is made first.
GenAndOr ==
  /\ Cond("and") \/ Cond("or")
  /\ LET c == agenda[1].c
     IN  Replace(<<[t |-> "cond", c |-> c.l],
                   [t |-> "left", op |-> c.k, bb |-> New(1)],
                   [t |-> "cond", c |-> c.r],
                   [t |-> "right", op |-> c.k]>>)
  /\ blocks' = WithNew(blocks, 1)
  /\ UNCHANGED <<program, insertBB, lists, cfg>>

\* Mutant of PatchLeft: || patches the true list, as && does.
PatchLeftTrue ==
  /\ Task("left")
  /\ blocks' = BackPatch(blocks, lists[1].t, agenda[1].bb)
  /\ lists' = [lists EXCEPT ![1].t = {}]
  /\ insertBB' = agenda[1].bb
  /\ Replace(<<>>)
  /\ UNCHANGED <<program, cfg>>

\* After the left operand: one of its lists is decided and not used again.
PatchLeft ==
  /\ Task("left")
  /\ LET side == IF agenda[1].op = "and" THEN "t" ELSE "f"
     IN  /\ blocks' = BackPatch(blocks, lists[1][side], agenda[1].bb)
         /\ lists' = [lists EXCEPT ![1][side] = {}]
  /\ insertBB' = agenda[1].bb
  /\ Replace(<<>>)
  /\ UNCHANGED <<program, cfg>>

MergeLists ==
  /\ Task("right")
  /\ LET r == lists[1]
         l == lists[2]
     IN  lists' = <<IF agenda[1].op = "and" THEN [t |-> r.t, f |-> l.f \cup r.f]
                                            ELSE [t |-> l.t \cup r.t, f |-> r.f]>>
                    \o SubSeq(lists, 3, Len(lists))
  /\ Replace(<<>>)
  /\ UNCHANGED <<program, blocks, insertBB, cfg>>

-----------------------------------------------------------------------------
Generated == agenda = <<>>

IsTerminator(inst) == inst.op \in {"br", "ret"}
NotCond(inst) == inst.op # "cond"

(***************************************************************************)
(* The cleaning of a block: everything behind the first jump or return     *)
(* goes, and so does a conditional branch that anything follows.           *)
(***************************************************************************)
Stays(insts, i) ==
  /\ \A j \in 1 .. i - 1 : ~IsTerminator(insts[j])
  /\ NotCond(insts[i]) \/ i = Len(insts)

Clean(insts) ==
  FlattenSeq([i \in DOMAIN insts |-> IF Stays(insts, i) THEN <<insts[i]>> ELSE <<>>])

Targets(insts) ==
  CASE insts = <<>> -> {}
    [] insts # <<>> /\ Last(insts).op = "br" -> {Last(insts).to}
    [] insts # <<>> /\ Last(insts).op = "cond" -> {Last(insts).to, Last(insts).other}
    [] OTHER -> {}

\* A block that does not end in a branch or a return gets a return.
Ended(insts) ==
  IF insts # <<>> /\ (IsTerminator(Last(insts)) \/ ~NotCond(Last(insts)))
  THEN insts ELSE Append(insts, Ret)

\* Mutant of LinkBlock: the edges are taken from the block before its cleaning.
LinkUncleaned ==
  /\ Generated /\ linked < Len(blocks)
  /\ LET b == linked + 1
         targets == Targets(blocks[b])
         old == IF preds = <<>> THEN [x \in Blocks |-> {}] ELSE preds
     IN  /\ blocks' = [blocks EXCEPT ![b] = Ended(Clean(@))]
         /\ succs' = Append(succs, targets)
         /\ preds' = [x \in Blocks |-> old[x] \cup IF x \in targets THEN {b} ELSE {}]
         /\ linked' = b
  /\ UNCHANGED <<program, agenda, insertBB, lists>>

\* One turn of the loop that builds the control-flow graph.
LinkBlock ==
  /\ Generated /\ linked < Len(blocks)
  /\ LET b == linked + 1
         cleaned == Clean(blocks[b])
         targets == Targets(cleaned)
         old == IF preds = <<>> THEN [x \in Blocks |-> {}] ELSE preds
     IN  /\ blocks' = [blocks EXCEPT ![b] = Ended(cleaned)]
         /\ succs' = Append(succs, targets)
         /\ preds' = [x \in Blocks |-> old[x] \cup IF x \in targets THEN {b} ELSE {}]
         /\ linked' = b
  /\ UNCHANGED <<program, agenda, insertBB, lists>>

GenNext ==
  \/ GenAssign \/ GenAssignNot \/ StoreNot \/ GenReturn \/ GenSeq \/ GenJumpStmt
  \/ GenIf \/ GenIfElse \/ PatchBranches \/ JumpOn
  \/ GenWhile \/ WhileCondDone
  \/ GenLeaf \/ GenAndOr \/ PatchLeft \/ MergeLists
  \/ LinkBlock

GraphDone == Generated /\ linked = Len(blocks)

-----------------------------------------------------------------------------
(***************************************************************************)
(* The graph the machine code is generated from and analysed on: every     *)
(* block ends in its only branch or return, its successors are what that   *)
(* names, and the predecessors are the inverse.                            *)
(***************************************************************************)
EdgesMatchCode ==
  GraphDone => \A b \in Blocks :
    /\ \A i \in DOMAIN blocks[b] :
         (IsTerminator(blocks[b][i]) \/ ~NotCond(blocks[b][i])) <=> i = Len(blocks[b])
    /\ succs[b] = Targets(blocks[b])
    /\ preds[b] = {a \in Blocks : b \in succs[a]}

\* What a list still in use names is not yet decided: its branch goes to a
\* placeholder of its own, which nobody fills and nobody else branches to.
ListsNamePlaceholders ==
  \A n \in DOMAIN lists : \A p \in lists[n].t \cup lists[n].f :
    LET target == blocks[p[1]][p[2]].to
    IN  /\ blocks[target] = <<>> /\ target # insertBB
        /\ \A b \in Blocks : \A i \in DOMAIN blocks[b] :
             /\ blocks[b][i].op \in {"br", "cond"} /\ <<b, i>> # p => blocks[b][i].to # target
             /\ blocks[b][i].op = "cond" => blocks[b][i].other # target

=============================================================================

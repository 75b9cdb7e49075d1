------------------------ MODULE LiveVariableAnalysis ------------------------
(***************************************************************************)
(* LiveVariableAnalysis::pass on one machine function                      *)
(* (src/src/LiveVariableAnalysis.cpp): the def and use sets of the blocks  *)
(* and the round-robin iteration that fills live_in and live_out.          *)
(*                                                                         *)
(* The sets of the code hold pointers to use operands, not registers.  A   *)
(* use operand is modelled by its place: <<block, instruction, register>>. *)
(***************************************************************************)
EXTENDS Integers, Sequences, FiniteSets

CONSTANTS
  NBlocks,     \* blocks of the function, in the order of block_list
  VReg,        \* virtual registers
  MaxInsts     \* bound: instructions in a block

ASSUME NBlocksAssumption == NBlocks \in Nat \ {0}
ASSUME MaxInstsAssumption == MaxInsts \in Nat \ {0}

Block == 1 .. NBlocks
Inst == [defs : {{}} \cup {{v} : v \in VReg}, uses : SUBSET VReg]
Operand == Block \X (1 .. MaxInsts) \X VReg

\* A block is never empty: it ends in a branch.
Code == [Block -> UNION {[1 .. n -> Inst] : n \in 1 .. MaxInsts}]

\* A branch has at most two targets; ret has none.
Cfg == [Block -> {S \in SUBSET Block : Cardinality(S) <= 2}]

VARIABLES
  code, succs,      \* the function; not changed by the analysis
  allUses,          \* all_uses: register -> its use operands
  def, use,         \* per block
  liveIn, liveOut,  \* MachineBlock::live_in and live_out
  phase,            \* which part of pass() comes next
  visit,             \* the block the inner loop of iterate() visits next
  change            \* the local "change" of iterate()

program == <<code, succs>>
sets == <<allUses, def, use>>
vars == <<code, succs, allUses, def, use, liveIn, liveOut, phase, visit, change>>

\* The sets of the analysis hold use operands of the function, and the inner
\* loop stays within the block list.
TypeOK ==
  /\ code \in Code
  /\ succs \in [Block -> SUBSET Block]
  /\ allUses \in [VReg -> SUBSET Operand]
  /\ def \in [Block -> SUBSET Operand]
  /\ use \in [Block -> SUBSET Operand]
  /\ liveIn \in [Block -> SUBSET Operand]
  /\ liveOut \in [Block -> SUBSET Operand]
  /\ phase \in {"usePos", "defUse", "clear", "iterate", "done"}
  /\ visit \in 1 .. NBlocks + 1
  /\ change \in BOOLEAN

Insts(b) == DOMAIN code[b]
UsesOf(b, i) == {<<b, i, v>> : v \in code[b][i].uses}
UseOperands ==
  {o \in Operand : o[2] \in Insts(o[1]) /\ o[3] \in code[o[1]][o[2]].uses}

-----------------------------------------------------------------------------
\* Blocks from which b is left towards T along one edge or none.
Closer(T) == T \cup {b \in Block : succs[b] \cap T # {}}

\* The blocks that a path from b enters, b itself included.
Reachable(b) ==
  LET grow[n \in 0 .. NBlocks] ==
        IF n = 0 THEN {b} ELSE grow[n - 1] \cup UNION {succs[c] : c \in grow[n - 1]}
  IN  grow[NBlocks]

(***************************************************************************)
(* The pass runs again after every round of spill code, on blocks whose    *)
(* sets still hold the answer for the previous code.  Reloads only add     *)
(* definitions, so the worst left-over is every use a path can reach.      *)
(***************************************************************************)
LeftOver == [b \in Block |-> {o \in UseOperands : o[1] \in Reachable(b)}]

Init ==
  /\ code \in Code
  /\ succs \in Cfg
  /\ liveIn \in {[b \in Block |-> {}], LeftOver}
  /\ liveOut = liveIn
  /\ allUses = [v \in VReg |-> {}]
  /\ def = [b \in Block |-> {}]
  /\ use = [b \in Block |-> {}]
  /\ phase = "usePos"
  /\ visit = 1
  /\ change = TRUE

ComputeUsePos ==
  /\ phase = "usePos"
  /\ allUses' = [v \in VReg |-> {o \in UseOperands : o[3] = v}]
  /\ phase' = "defUse"
  /\ UNCHANGED <<program, def, use, liveIn, liveOut, visit, change>>

\* Mutant of DefBefore: the definitions of an instruction come before its uses.
DefThrough(b, i) ==
  UNION {allUses[v] : v \in UNION {code[b][k].defs : k \in (1 .. i) \cap Insts(b)}}

\* What def[block] holds before instruction i: every use, anywhere, of the
\* registers the block has defined so far.
DefBefore(b, i) ==
  UNION {allUses[v] : v \in UNION {code[b][k].defs : k \in 1 .. i - 1}}

ComputeDefUse ==
  /\ phase = "defUse"
  /\ use' = [b \in Block |->
       UNION {UsesOf(b, i) \ DefBefore(b, i) : i \in Insts(b)}]
  /\ def' = [b \in Block |-> DefBefore(b, Len(code[b]) + 1)]
  /\ phase' = "clear"
  /\ UNCHANGED <<program, allUses, liveIn, liveOut, visit, change>>

\* Mutant of BeginIterate: live_in keeps what the last pass left there.
BeginUncleared ==
  /\ phase = "clear"
  /\ phase' = "iterate"
  /\ visit' = 1
  /\ change' = FALSE
  /\ UNCHANGED <<program, sets, liveIn, liveOut>>

\* iterate() starts: live_in of every block is cleared, live_out is not.
BeginIterate ==
  /\ phase = "clear"
  /\ liveIn' = [b \in Block |-> {}]
  /\ phase' = "iterate"
  /\ visit' = 1
  /\ change' = FALSE
  /\ UNCHANGED <<program, sets, liveOut>>

OutOf(b) == UNION {liveIn[s] : s \in succs[b]}
InOf(b) == use[b] \cup (OutOf(b) \ def[b])

\* Mutant of VisitBlock: the last block of the round alone decides.
VisitForgetsChange ==
  /\ phase = "iterate"
  /\ visit \in Block
  /\ liveOut' = [liveOut EXCEPT ![visit] = OutOf(visit)]
  /\ liveIn' = [liveIn EXCEPT ![visit] = InOf(visit)]
  /\ change' = (InOf(visit) # liveIn[visit])
  /\ visit' = visit + 1
  /\ UNCHANGED <<program, sets, phase>>

VisitBlock ==
  /\ phase = "iterate"
  /\ visit \in Block
  /\ liveOut' = [liveOut EXCEPT ![visit] = OutOf(visit)]
  /\ liveIn' = [liveIn EXCEPT ![visit] = InOf(visit)]
  /\ change' = (change \/ InOf(visit) # liveIn[visit])
  /\ visit' = visit + 1
  /\ UNCHANGED <<program, sets, phase>>

\* while (change): another round, or the analysis has converged.
EndRound ==
  /\ phase = "iterate"
  /\ visit = NBlocks + 1
  /\ IF change THEN visit' = 1 /\ change' = FALSE /\ phase' = phase
               ELSE phase' = "done" /\ UNCHANGED <<visit, change>>
  /\ UNCHANGED <<program, sets, liveIn, liveOut>>

Next == ComputeUsePos \/ ComputeDefUse \/ BeginIterate \/ VisitBlock \/ EndRound

Spec == Init /\ [][Next]_vars

-----------------------------------------------------------------------------
(***************************************************************************)
(* The meaning of liveness, from the instructions and the paths alone: the *)
(* use o is live at the entry of b when some path from b reaches o before  *)
(* any instruction that defines its register.                              *)
(***************************************************************************)
Defines(b, i, v) == v \in code[b][i].defs

Transparent(v) == {d \in Block : \A i \in Insts(d) : ~Defines(d, i, v)}

\* Block c, and n edges around it: the blocks with a path of at most n edges
\* to c that defines v in none of the blocks it runs through.
Around(c, v) ==
  LET from[n \in 0 .. NBlocks] ==
        IF n = 0 THEN {c}
        ELSE from[n - 1] \cup (Closer(from[n - 1]) \cap Transparent(v))
  IN  from

LiveAtEntry(o, b) ==
  /\ \A k \in 1 .. o[2] - 1 : ~Defines(o[1], k, o[3])
  /\ b \in Around(o[1], o[3])[NBlocks]

TrulyLive(b) == {o \in UseOperands : LiveAtEntry(o, b)}

\* When the iteration stops, live_in and live_out are exactly the uses that
\* some path can reach: nothing is missing (a missing use shortens a live
\* interval) and nothing of an earlier pass survives.
ExactAtEnd ==
  phase = "done" => \A b \in Block :
    /\ liveIn[b] = TrulyLive(b)
    /\ liveOut[b] = UNION {TrulyLive(s) : s \in succs[b]}

\* The answer is a fixed point of the data-flow equations, and the live_out
\* of a block is not older than the live_in of its successors.
SolutionAtEnd ==
  phase = "done" => \A b \in Block : liveOut[b] = OutOf(b) /\ liveIn[b] = InOf(b)

\* During the iteration live_in only grows: no visit takes back what an
\* earlier visit put in, whatever order the successors come in.
OnlyGrows ==
  [][phase = "iterate" => \A b \in Block : liveIn[b] \subseteq liveIn'[b]]_vars

=============================================================================

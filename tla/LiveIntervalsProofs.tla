------------------------ MODULE LiveIntervalsProofs -------------------------
(***************************************************************************)
(* The round-robin iteration of LiveVariableAnalysis::iterate computes the *)
(* least solution of the data-flow equations, for every control-flow graph *)
(* and every number of blocks, registers and instructions.  On top of      *)
(* that, computeLiveIntervals: a definition is chained to all uses it      *)
(* reaches, an interval covers every path between them, and the merge loop *)
(* ends with each use in one interval only.                                *)
(***************************************************************************)
EXTENDS LiveIntervals, Stepwise

LEMMA BlockCode ==
  ASSUME TypeOK, NEW b \in Block
  PROVE  \E n \in 1 .. MaxInsts : code[b] \in [1 .. n -> Inst]
<1>1. code[b] \in UNION {[1 .. n -> Inst] : n \in 1 .. MaxInsts}
  BY DEF TypeOK, Code
<1> QED BY <1>1, Zenon

LEMMA ProgramFacts ==
  ASSUME TypeOK, NEW b \in Block
  PROVE  /\ Insts(b) \subseteq 1 .. MaxInsts
         /\ \A i \in Insts(b) : /\ code[b][i].uses \subseteq VReg
                                /\ code[b][i].defs \subseteq VReg
                                /\ UsesOf(b, i) \subseteq Operand
<1>1. PICK n \in 1 .. MaxInsts : code[b] \in [1 .. n -> Inst]
  BY BlockCode
<1>2. Insts(b) = 1 .. n /\ 1 .. n \subseteq 1 .. MaxInsts
  BY <1>1, MaxInstsAssumption DEF Insts
<1>3. ASSUME NEW i \in Insts(b)
      PROVE  code[b][i].uses \subseteq VReg /\ code[b][i].defs \subseteq VReg
  BY <1>1, <1>2 DEF Inst
<1>4. ASSUME NEW i \in Insts(b) PROVE UsesOf(b, i) \subseteq Operand
  BY <1>2, <1>3 DEF UsesOf, Operand
<1> QED BY <1>2, <1>3, <1>4

LEMMA DefBeforeType ==
  ASSUME TypeOK, NEW b \in Block, NEW i, i = Len(code[b]) + 1
  PROVE  DefBefore(b, i) \subseteq Operand
<1>1. PICK n \in 1 .. MaxInsts : code[b] \in [1 .. n -> Inst]
  BY BlockCode
<1>2. Len(code[b]) = n /\ 1 .. i - 1 = 1 .. n
  BY <1>1, MaxInstsAssumption
<1>3. \A k \in 1 .. i - 1 : code[b][k].defs \subseteq VReg
  BY <1>1, <1>2 DEF Inst
<1> QED BY <1>3 DEF DefBefore, TypeOK

LEMMA InitTypeOK == Init => TypeOK
<1> SUFFICES ASSUME Init PROVE TypeOK
  OBVIOUS
<1>1. LeftOver \in [Block -> SUBSET Operand]
  BY DEF LeftOver, UseOperands
<1>2. succs \in [Block -> SUBSET Block]
  BY DEF Init, Cfg
<1>3. /\ liveIn \in [Block -> SUBSET Operand]
      /\ liveOut \in [Block -> SUBSET Operand]
  BY <1>1 DEF Init
<1>4. /\ allUses \in [VReg -> SUBSET Operand]
      /\ def \in [Block -> SUBSET Operand]
      /\ use \in [Block -> SUBSET Operand]
  BY DEF Init
<1>5. code \in Code /\ phase = "usePos" /\ visit = 1 /\ change = TRUE
  BY DEF Init
<1>6. 1 \in 1 .. NBlocks + 1
  BY NBlocksAssumption
<1> QED BY <1>2, <1>3, <1>4, <1>5, <1>6 DEF TypeOK

\* The sets of the analysis only ever hold use operands of the function, and
\* the loop index stays between the first block and the end of the list.
THEOREM TypeCorrect == Spec => []TypeOK
<1>1. Init => TypeOK
  BY InitTypeOK
<1>2. TypeOK /\ [Next]_vars => TypeOK'
  <2> SUFFICES ASSUME TypeOK, [Next]_vars PROVE TypeOK'
    OBVIOUS
  <2>1. CASE ComputeUsePos
    BY <2>1 DEF ComputeUsePos, UseOperands, TypeOK, program
  <2>2. CASE ComputeDefUse
    <3>1. use' \in [Block -> SUBSET Operand]
      <4>1. \A b \in Block :
              UNION {UsesOf(b, i) \ DefBefore(b, i) : i \in Insts(b)} \subseteq Operand
        BY ProgramFacts
      <4> QED BY <2>2, <4>1 DEF ComputeDefUse
    <3>2. def' \in [Block -> SUBSET Operand]
      BY <2>2, DefBeforeType DEF ComputeDefUse
    <3> QED BY <2>2, <3>1, <3>2 DEF ComputeDefUse, TypeOK, program
  <2>3. CASE BeginIterate
    <3>1. 1 \in 1 .. NBlocks + 1
      BY NBlocksAssumption
    <3>2. liveIn' \in [Block -> SUBSET Operand]
      BY <2>3 DEF BeginIterate
    <3> QED BY <2>3, <3>1, <3>2 DEF BeginIterate, TypeOK, program, sets
  <2>4. CASE VisitBlock
    <3>1. OutOf(visit) \subseteq Operand /\ InOf(visit) \subseteq Operand
      BY <2>4 DEF VisitBlock, OutOf, InOf, TypeOK
    <3>2. visit + 1 \in 1 .. NBlocks + 1
      BY <2>4, NBlocksAssumption DEF VisitBlock, Block
    <3> QED BY <2>4, <3>1, <3>2 DEF VisitBlock, TypeOK, program, sets
  <2>5. CASE EndRound
    <3>1. 1 \in 1 .. NBlocks + 1
      BY NBlocksAssumption
    <3>2. visit' \in 1 .. NBlocks + 1 /\ change' \in BOOLEAN
      BY <2>5, <3>1 DEF EndRound, TypeOK
    <3>3. phase' \in {"iterate", "done"}
      BY <2>5 DEF EndRound
    <3> QED BY <2>5, <3>2, <3>3 DEF EndRound, TypeOK, program, sets
  <2>6. CASE UNCHANGED vars
    BY <2>6 DEF vars, TypeOK
  <2> QED BY <2>1, <2>2, <2>3, <2>4, <2>5, <2>6 DEF Next
<1> QED BY <1>1, <1>2, PTL DEF Spec

-----------------------------------------------------------------------------
(***************************************************************************)
(* The iteration climbs from the empty sets towards the least solution:    *)
(* what is in live_in stays justified by the equations (Justified), and no *)
(* solution has less (BelowSolutions).  A round without a change leaves    *)
(* every block it has visited solved (RoundSolved), because neither its    *)
(* own set nor a successor's has moved since.                              *)
(***************************************************************************)
Running == phase \in {"iterate", "done"}

Closed(X) ==
  \A b \in Block :
    use[b] \cup ((UNION {X[s] : s \in succs[b]}) \ def[b]) \subseteq X[b]

Justified == Running => \A b \in Block : liveIn[b] \subseteq InOf(b)

BelowSolutions ==
  Running => \A X \in [Block -> SUBSET Operand] :
               Closed(X) => \A b \in Block : liveIn[b] \subseteq X[b]

Solved(b) == liveOut[b] = OutOf(b) /\ liveIn[b] = InOf(b)

RoundSolved ==
  phase = "iterate" /\ ~change => \A b \in Block : b < visit => Solved(b)

IterateInv == TypeOK /\ Justified /\ BelowSolutions /\ RoundSolved /\ SolutionAtEnd

\* A visit cannot shrink a set: the new value is the right-hand side of the
\* equation, and the old value was justified.
LEMMA VisitGrows ==
  ASSUME TypeOK, Justified, VisitBlock
  PROVE  \A b \in Block : liveIn[b] \subseteq liveIn'[b]
BY DEF TypeOK, Justified, Running, VisitBlock

LEMMA VisitKeepsJustified ==
  ASSUME TypeOK, Justified, VisitBlock
  PROVE  Justified'
<1>1. \A b \in Block : InOf(b) \subseteq InOf(b)'
  BY VisitGrows DEF InOf, OutOf, VisitBlock, program, sets, TypeOK
<1>2. \A b \in Block : liveIn'[b] = IF b = visit THEN InOf(b) ELSE liveIn[b]
  BY DEF VisitBlock, TypeOK
<1> QED BY <1>1, <1>2 DEF Justified, Running, VisitBlock

LEMMA VisitKeepsBelow ==
  ASSUME TypeOK, BelowSolutions, VisitBlock
  PROVE  BelowSolutions'
<1>0. use' = use /\ def' = def /\ succs' = succs
  BY DEF VisitBlock, program, sets
<1> SUFFICES ASSUME NEW X \in [Block -> SUBSET Operand], Closed(X)',
                    NEW b \in Block
             PROVE  liveIn'[b] \subseteq X[b]
  BY DEF BelowSolutions
<1>a. Closed(X)
  BY <1>0, Zenon DEF Closed
<1>1. \A c \in Block : liveIn[c] \subseteq X[c]
  BY <1>a DEF BelowSolutions, Running, VisitBlock
<1>2. InOf(b) \subseteq X[b]
  BY <1>1, <1>a DEF Closed, InOf, OutOf, TypeOK
<1>3. liveIn'[b] = IF b = visit THEN InOf(b) ELSE liveIn[b]
  BY DEF VisitBlock, TypeOK
<1> QED BY <1>1, <1>2, <1>3

LEMMA VisitKeepsRoundSolved ==
  ASSUME TypeOK, RoundSolved, VisitBlock
  PROVE  RoundSolved'
<1> SUFFICES ASSUME ~change', NEW b \in Block, b < visit + 1
             PROVE  Solved(b)'
  BY DEF RoundSolved, VisitBlock
<1>1. ~change /\ InOf(visit) = liveIn[visit] /\ visit \in Block
  BY DEF VisitBlock, TypeOK
<1>2. liveIn' = liveIn
  BY <1>1 DEF VisitBlock, TypeOK
<1>3. OutOf(b)' = OutOf(b) /\ InOf(b)' = InOf(b)
  BY <1>2 DEF OutOf, InOf, VisitBlock, program, sets
<1>4. CASE b = visit
  BY <1>1, <1>2, <1>3, <1>4 DEF Solved, VisitBlock, TypeOK
<1>5. CASE b # visit
  <2>1. b < visit
    BY <1>1, <1>5, NBlocksAssumption DEF Block
  <2>2. liveOut'[b] = liveOut[b]
    BY <1>5 DEF VisitBlock, TypeOK
  <2> QED BY <1>1, <1>2, <1>3, <2>1, <2>2 DEF RoundSolved, Solved, VisitBlock
<1> QED BY <1>4, <1>5

LEMMA InvInit == Init => IterateInv
<1> SUFFICES ASSUME Init PROVE IterateInv
  OBVIOUS
<1>1. TypeOK
  BY InitTypeOK
<1>2. phase = "usePos"
  BY DEF Init
<1> QED
  BY <1>1, <1>2 DEF IterateInv, Justified, BelowSolutions, Running,
     RoundSolved, SolutionAtEnd

LEMMA InvNext == IterateInv /\ TypeOK' /\ [Next]_vars => IterateInv'
<1> SUFFICES ASSUME IterateInv, TypeOK', [Next]_vars PROVE IterateInv'
  OBVIOUS
<1> USE DEF IterateInv
<1>1. CASE ComputeUsePos \/ ComputeDefUse
  <2>1. phase' \in {"defUse", "clear"}
    BY <1>1 DEF ComputeUsePos, ComputeDefUse
  <2> QED
    BY <2>1 DEF Justified, BelowSolutions, Running, RoundSolved, SolutionAtEnd
<1>2. CASE BeginIterate
  <2>1. \A b \in Block : liveIn'[b] = {}
    BY <1>2 DEF BeginIterate
  <2>2. phase' = "iterate" /\ visit' = 1 /\ \A b \in Block : ~(b < 1)
    BY <1>2, NBlocksAssumption DEF BeginIterate, Block
  <2>3. Justified' /\ BelowSolutions'
    BY <2>1 DEF Justified, BelowSolutions
  <2> QED BY <2>2, <2>3 DEF RoundSolved, SolutionAtEnd
<1>3. CASE VisitBlock
  <2>1. phase' = "iterate"
    BY <1>3 DEF VisitBlock
  <2> QED BY <1>3, <2>1, VisitKeepsJustified, VisitKeepsBelow,
             VisitKeepsRoundSolved DEF SolutionAtEnd
<1>4. CASE EndRound
  <2>1. /\ UNCHANGED <<program, sets, liveIn, liveOut>>
        /\ Running
    BY <1>4 DEF EndRound, Running
  <2>2. Justified' /\ BelowSolutions'
    BY <2>1 DEF Justified, BelowSolutions, Closed, InOf, OutOf, program, sets
  <2>3. CASE change
    <3>1. phase' = "iterate" /\ visit' = 1 /\ \A b \in Block : ~(b < 1)
      BY <1>4, <2>3, NBlocksAssumption DEF EndRound, Block
    <3> QED BY <2>2, <3>1 DEF RoundSolved, SolutionAtEnd
  <2>4. CASE ~change
    <3>1. \A b \in Block : b < visit
      BY <1>4, NBlocksAssumption DEF EndRound, Block
    <3>2. \A b \in Block : Solved(b)
      BY <1>4, <2>4, <3>1 DEF RoundSolved, EndRound
    <3>3. \A b \in Block : Solved(b)'
      BY <2>1, <3>2 DEF Solved, OutOf, InOf, program, sets
    <3>4. phase' = "done"
      BY <1>4, <2>4 DEF EndRound
    <3> QED BY <2>2, <3>3, <3>4 DEF RoundSolved, SolutionAtEnd, Solved
  <2> QED BY <2>3, <2>4
<1>5. CASE UNCHANGED vars
  BY <1>5 DEF vars, Justified, BelowSolutions, Running, Closed, RoundSolved,
     Solved, SolutionAtEnd, InOf, OutOf
<1> QED BY <1>1, <1>2, <1>3, <1>4, <1>5 DEF Next

LEMMA IterateInvariant == Spec => []IterateInv
BY InvInit, InvNext, TypeCorrect, PTL DEF Spec

\* When iterate() returns, live_in and live_out solve the data-flow equations
\* together: no live_out is older than the live_in of a successor.
THEOREM EndsSolved == Spec => []SolutionAtEnd
<1>1. IterateInv => SolutionAtEnd
  BY DEF IterateInv
<1> QED BY <1>1, IterateInvariant, PTL

\* At every moment of the iteration live_in is below every solution of the
\* equations; with EndsSolved, the result is the least one.
THEOREM StaysLeast == Spec => []BelowSolutions
<1>1. IterateInv => BelowSolutions
  BY DEF IterateInv
<1> QED BY <1>1, IterateInvariant, PTL

\* No visit of a block takes a use out of its live_in.
THEOREM IterationGrows == Spec => OnlyGrows
<1>1. IterateInv /\ [Next]_vars =>
        [phase = "iterate" => \A b \in Block : liveIn[b] \subseteq liveIn'[b]]_vars
  <2> SUFFICES ASSUME IterateInv, Next, phase = "iterate", NEW b \in Block
               PROVE  liveIn[b] \subseteq liveIn'[b]
    OBVIOUS
  <2>1. CASE VisitBlock
    BY <2>1, VisitGrows DEF IterateInv
  <2>2. CASE EndRound
    BY <2>2 DEF EndRound
  <2> QED BY <2>1, <2>2 DEF Next, ComputeUsePos, ComputeDefUse, BeginIterate
<1> QED BY <1>1, IterateInvariant, PTL DEF Spec, OnlyGrows

-----------------------------------------------------------------------------
(***************************************************************************)
(* What the sets mean.  The code subtracts, for every register defined in  *)
(* a block, all operands of that register in the function; for one operand *)
(* o this asks whether the block, or the part of it before o, defines the  *)
(* register of o.                                                          *)
(***************************************************************************)
Filled ==
  /\ phase # "usePos" => allUses = [v \in VReg |-> {o \in UseOperands : o[3] = v}]
  /\ phase \notin {"usePos", "defUse"} =>
       /\ use = [b \in Block |-> UNION {UsesOf(b, i) \ DefBefore(b, i) : i \in Insts(b)}]
       /\ def = [b \in Block |-> DefBefore(b, Len(code[b]) + 1)]

LEMMA FilledInit == Init => Filled
BY DEF Init, Filled

LEMMA FilledNext == Filled /\ [Next]_vars => Filled'
<1> SUFFICES ASSUME Filled, [Next]_vars PROVE Filled'
  OBVIOUS
<1>1. code' = code
  BY DEF Next, ComputeUsePos, ComputeDefUse, BeginIterate, VisitBlock, EndRound, vars, program
<1>2. UseOperands' = UseOperands
  BY <1>1 DEF UseOperands, Insts
<1>3. CASE ComputeUsePos
  BY <1>2, <1>3 DEF ComputeUsePos, Filled
<1>4. CASE ComputeDefUse
  <2>1. \A b, i : DefBefore(b, i)' = DefBefore(b, i) /\ UsesOf(b, i)' = UsesOf(b, i)
    BY <1>1, <1>4 DEF ComputeDefUse, DefBefore, UsesOf
  <2>2. \A b : Insts(b)' = Insts(b)
    BY <1>1 DEF Insts
  <2> QED BY <1>1, <1>2, <1>4, <2>1, <2>2 DEF ComputeDefUse, Filled
<1>5. CASE BeginIterate \/ VisitBlock \/ EndRound \/ UNCHANGED vars
  <2>1. allUses' = allUses /\ use' = use /\ def' = def
    BY <1>5 DEF BeginIterate, VisitBlock, EndRound, vars, sets
  <2>2. \A b, i : DefBefore(b, i)' = DefBefore(b, i) /\ UsesOf(b, i)' = UsesOf(b, i)
    BY <1>1, <2>1 DEF DefBefore, UsesOf
  <2>3. \A b : Insts(b)' = Insts(b)
    BY <1>1 DEF Insts
  <2>4. /\ phase' # "usePos" => phase # "usePos"
        /\ phase' \notin {"usePos", "defUse"} => phase \notin {"usePos", "defUse"}
    BY <1>5 DEF BeginIterate, VisitBlock, EndRound, vars
  <2> QED BY <1>1, <1>2, <2>1, <2>2, <2>3, <2>4 DEF Filled
<1> QED BY <1>3, <1>4, <1>5 DEF Next

LEMMA OperandFacts ==
  ASSUME TypeOK, NEW o \in UseOperands
  PROVE  /\ o[1] \in Block /\ o[2] \in Insts(o[1]) /\ o[3] \in VReg
         /\ o[2] \in 1 .. MaxInsts
         /\ o[3] \in code[o[1]][o[2]].uses
         /\ o = <<o[1], o[2], o[3]>>
         /\ o \in UsesOf(o[1], o[2])
         /\ \A b \in Block : \A i : o \in UsesOf(b, i) => o[1] = b /\ o[2] = i
<1>1. o \in Operand /\ o[2] \in Insts(o[1]) /\ o[3] \in code[o[1]][o[2]].uses
  BY DEF UseOperands
<1>2. /\ o[1] \in Block /\ o[2] \in 1 .. MaxInsts /\ o[3] \in VReg
      /\ o = <<o[1], o[2], o[3]>>
  BY <1>1 DEF Operand
<1> QED BY <1>1, <1>2 DEF UsesOf

\* An operand is in DefBefore when an instruction before i defines its register.
LEMMA DefBeforeMeans ==
  ASSUME TypeOK, Filled, phase # "usePos", NEW b \in Block, NEW o \in UseOperands,
         NEW i \in Nat, 1 .. i - 1 \subseteq Insts(b)
  PROVE  o \in DefBefore(b, i) <=> \E k \in 1 .. i - 1 : Defines(b, k, o[3])
<1>1. \A v \in VReg : o \in allUses[v] <=> o[3] = v
  BY DEF Filled
<1>2. \A k \in 1 .. i - 1 : code[b][k].defs \subseteq VReg
  BY ProgramFacts
<1>3. o[3] \in VReg
  BY OperandFacts
<1> QED BY <1>1, <1>2, <1>3 DEF DefBefore, Defines

LEMMA InstsOfBlock ==
  ASSUME TypeOK, NEW b \in Block
  PROVE  Len(code[b]) \in Nat \ {0} /\ Insts(b) = 1 .. Len(code[b])
<1>1. PICK n \in 1 .. MaxInsts : code[b] \in [1 .. n -> Inst]
  BY BlockCode
<1> QED BY <1>1, MaxInstsAssumption DEF Insts

\* def[b] stops an operand when b defines its register.
LEMMA DefMeans ==
  ASSUME TypeOK, Filled, phase \notin {"usePos", "defUse"},
         NEW b \in Block, NEW o \in UseOperands
  PROVE  o \in def[b] <=> b \notin Transparent(o[3])
<1> DEFINE n == Len(code[b]) + 1
<1>1. n \in Nat /\ 1 .. n - 1 = Insts(b)
  BY InstsOfBlock
<1>2. def[b] = DefBefore(b, n)
  BY DEF Filled
<1>3. o \in DefBefore(b, n) <=> \E k \in 1 .. n - 1 : Defines(b, k, o[3])
  <2> HIDE DEF n
  <2> QED BY <1>1, DefBeforeMeans
<1> QED BY <1>1, <1>2, <1>3 DEF Transparent

\* use[b] has the operands of b that no instruction of b defines before them.
LEMMA UseMeans ==
  ASSUME TypeOK, Filled, phase \notin {"usePos", "defUse"}, NEW b \in Block
  PROVE  /\ use[b] \subseteq UseOperands
         /\ \A o \in UseOperands :
              o \in use[b] <=> o[1] = b /\ \A k \in 1 .. o[2] - 1 : ~Defines(b, k, o[3])
<1>1. use[b] = UNION {UsesOf(b, i) \ DefBefore(b, i) : i \in Insts(b)}
  BY DEF Filled
<1>2. \A i \in Insts(b) : UsesOf(b, i) \subseteq UseOperands
  <2> TAKE i \in Insts(b)
  <2>1. UsesOf(b, i) \subseteq Operand
    BY ProgramFacts
  <2> QED BY <2>1 DEF UseOperands, UsesOf
<1>3. ASSUME NEW o \in UseOperands
      PROVE  o \in use[b] <=> o[1] = b /\ \A k \in 1 .. o[2] - 1 : ~Defines(b, k, o[3])
  <2>1. o \in use[b] <=> o[1] = b /\ o \notin DefBefore(b, o[2])
    <3>1. o \in UsesOf(o[1], o[2]) /\ o[2] \in Insts(o[1])
      BY OperandFacts
    <3>2. \A i : o \in UsesOf(b, i) => o[1] = b /\ o[2] = i
      BY OperandFacts
    <3> QED BY <1>1, <3>1, <3>2
  <2>2. o[1] = b => (o \in DefBefore(b, o[2]) <=> \E k \in 1 .. o[2] - 1 : Defines(b, k, o[3]))
    <3> SUFFICES ASSUME o[1] = b
                 PROVE  o \in DefBefore(b, o[2]) <=> \E k \in 1 .. o[2] - 1 : Defines(b, k, o[3])
      OBVIOUS
    <3>1. o[2] \in Insts(b) /\ Insts(b) = 1 .. Len(code[b]) /\ Len(code[b]) \in Nat
      BY OperandFacts, InstsOfBlock
    <3>2. o[2] \in Nat /\ 1 .. o[2] - 1 \subseteq Insts(b)
      BY <3>1
    <3> QED BY <3>2, DefBeforeMeans
  <2> QED BY <2>1, <2>2
<1> QED BY <1>1, <1>2, <1>3

-----------------------------------------------------------------------------
(***************************************************************************)
(* The paths of the definition of liveness.  NBlocks edges are enough: a   *)
(* set of blocks cannot grow more often than there are blocks.             *)
(***************************************************************************)
Widen(X, v) == X \cup (Closer(X) \cap Transparent(v))

LEMMA AroundIs ==
  ASSUME NEW c \in Block, NEW v
  PROVE  /\ Around(c, v) \in [0 .. NBlocks -> SUBSET Block]
         /\ Around(c, v)[0] = {c}
         /\ \A n \in 0 .. NBlocks :
              n < NBlocks => Around(c, v)[n + 1] = Widen(Around(c, v)[n], v)
<1> DEFINE G == [n \in 1 .. NBlocks |-> [X \in SUBSET Block |-> Widen(X, v)]]
           Path(f) == f = [n \in 0 .. NBlocks |->
                             IF n = 0 THEN {c}
                             ELSE f[n - 1] \cup (Closer(f[n - 1]) \cap Transparent(v))]
<1>1. \A X \in SUBSET Block : Widen(X, v) \in SUBSET Block
  BY DEF Widen, Transparent
<1>2. G \in [1 .. NBlocks -> [SUBSET Block -> SUBSET Block]]
  BY <1>1
<1>3. PICK f \in [0 .. NBlocks -> SUBSET Block] : Iterates(f, NBlocks, {c}, G)
  <2>1. {c} \in SUBSET Block /\ NBlocks \in Nat
    BY NBlocksAssumption
  <2> HIDE DEF G
  <2> QED BY <1>2, <2>1, IterationExists
<1>4. Path(f)
  <2>1. ASSUME NEW n \in 0 .. NBlocks, n # 0 PROVE G[n][f[n - 1]] = Widen(f[n - 1], v)
    <3>1. n \in 1 .. NBlocks /\ f[n - 1] \in SUBSET Block
      BY <2>1, NBlocksAssumption
    <3> QED BY <3>1
  <2> QED BY <1>3, <2>1 DEF Iterates, Widen
<1>5. Path(Around(c, v))
  <2>1. Around(c, v) = CHOOSE g : Path(g)
    BY DEF Around
  <2> HIDE DEF Path
  <2> QED BY <1>4, <2>1
<1>6. ASSUME NEW g, Path(g), NEW n \in 0 .. NBlocks
      PROVE  g[n] = IF n = 0 THEN {c} ELSE Widen(g[n - 1], v)
  BY <1>6 DEF Widen
<1>7. 0 \in 0 .. NBlocks /\ NBlocks \in Nat
  BY NBlocksAssumption
<1>8. Around(c, v)[0] = {c}
  BY <1>5, <1>6, <1>7
<1>9. ASSUME NEW n \in 0 .. NBlocks, n < NBlocks
      PROVE  Around(c, v)[n + 1] = Widen(Around(c, v)[n], v)
  <2>1. n + 1 \in 0 .. NBlocks /\ n + 1 # 0 /\ (n + 1) - 1 = n
    BY <1>9, <1>7
  <2> HIDE DEF Path
  <2> QED BY <1>5, <1>6, <2>1
<1>10. \A n \in 0 .. NBlocks : Around(c, v)[n] \in SUBSET Block
  <2> DEFINE S == {n \in 0 .. NBlocks : Around(c, v)[n] \in SUBSET Block}
  <2>1. 0 \in S
    BY <1>7, <1>8
  <2>2. \A n \in 0 .. NBlocks : n < NBlocks /\ n \in S => n + 1 \in S
    BY <1>1, <1>7, <1>9
  <2>3. \A n \in 0 .. NBlocks : n \in S
    <3> HIDE DEF S
    <3> QED BY <1>7, <2>1, <2>2, CountingUp
  <2> QED BY <2>3
<1>11. DOMAIN Around(c, v) = 0 .. NBlocks /\ Around(c, v) = [n \in 0 .. NBlocks |-> Around(c, v)[n]]
  BY <1>5
<1> QED BY <1>8, <1>9, <1>10, <1>11

LEMMA AroundComplete ==
  ASSUME NEW c \in Block, NEW v
  PROVE  /\ c \in Around(c, v)[NBlocks]
         /\ Around(c, v)[NBlocks] \in SUBSET Block
         /\ Widen(Around(c, v)[NBlocks], v) = Around(c, v)[NBlocks]
<1> DEFINE f == Around(c, v)
           G == [X \in SUBSET Block |-> Widen(X, v)]
<1>1. NBlocks \in Nat /\ 0 \in 0 .. NBlocks /\ NBlocks \in 0 .. NBlocks
  BY NBlocksAssumption
<1>2. IsFiniteSet(Block) /\ Cardinality(Block) <= NBlocks
  BY <1>1, FS_Interval DEF Block
<1>3. G \in [SUBSET Block -> SUBSET Block] /\ \A X \in SUBSET Block : X \subseteq G[X]
  BY DEF Widen, Transparent
<1>4. f \in [0 .. NBlocks -> SUBSET Block]
  BY AroundIs
<1>5. \A n \in 0 .. NBlocks : n < NBlocks => f[n + 1] = G[f[n]]
  BY <1>4, AroundIs
<1>6. G[f[NBlocks]] = f[NBlocks]
  <2> HIDE DEF f, G
  <2>1. GrowsBy(f, Block, NBlocks, G)
    BY <1>3, <1>4, <1>5 DEF GrowsBy
  <2> QED BY <1>1, <1>2, <2>1, GrowthStops
<1>7. c \in f[NBlocks]
  <2> DEFINE S == {n \in 0 .. NBlocks : c \in f[n]}
  <2>1. 0 \in S
    BY <1>1, AroundIs
  <2>2. \A n \in 0 .. NBlocks : n < NBlocks /\ n \in S => n + 1 \in S
    <3> TAKE n \in 0 .. NBlocks
    <3> SUFFICES ASSUME n < NBlocks, n \in S PROVE n + 1 \in S
      OBVIOUS
    <3>1. f[n] \in SUBSET Block /\ f[n + 1] = G[f[n]]
      <4> HIDE DEF f, G
      <4> QED BY <1>4, <1>5
    <3>2. c \in f[n] /\ n + 1 \in 0 .. NBlocks
      BY <1>1
    <3> HIDE DEF f, G
    <3> QED BY <1>3, <3>1, <3>2
  <2>3. \A n \in 0 .. NBlocks : n \in S
    <3> HIDE DEF S
    <3> QED BY <1>1, <2>1, <2>2, CountingUp
  <2> QED BY <1>1, <2>3
<1> QED BY <1>1, <1>4, <1>6, <1>7

-----------------------------------------------------------------------------
(***************************************************************************)
(* The uses that a path can reach solve the equations, so the least        *)
(* solution has no more; and going back along the path from a use, every   *)
(* solution has each of them, so it has no less.                           *)
(***************************************************************************)
LEMMA PassesOn ==
  ASSUME TypeOK, NEW o \in UseOperands, NEW b \in Block, b \in Transparent(o[3]),
         NEW s \in succs[b], LiveAtEntry(o, s)
  PROVE  LiveAtEntry(o, b)
<1> DEFINE around == Around(o[1], o[3])[NBlocks]
<1>1. o[1] \in Block
  BY OperandFacts
<1>2. s \in around /\ Widen(around, o[3]) = around
  BY <1>1, AroundComplete DEF LiveAtEntry
<1>3. b \in Closer(around)
  BY <1>2 DEF Closer
<1> QED BY <1>2, <1>3 DEF Widen, LiveAtEntry

LEMMA TruthIsClosed ==
  ASSUME TypeOK, Filled, phase \notin {"usePos", "defUse"}
  PROVE  Closed([b \in Block |-> TrulyLive(b)])
<1> DEFINE X == [b \in Block |-> TrulyLive(b)]
<1> SUFFICES ASSUME NEW b \in Block,
                    NEW o \in use[b] \cup ((UNION {X[s] : s \in succs[b]}) \ def[b])
             PROVE  o \in TrulyLive(b)
  BY DEF Closed
<1>1. CASE o \in use[b]
  <2>1. o \in UseOperands /\ o[1] = b /\ \A k \in 1 .. o[2] - 1 : ~Defines(b, k, o[3])
    BY <1>1, UseMeans
  <2>2. b \in Around(b, o[3])[NBlocks]
    BY AroundComplete
  <2> QED BY <2>1, <2>2 DEF TrulyLive, LiveAtEntry
<1>2. CASE o \notin use[b]
  <2>1. o \notin def[b]
    BY <1>2
  <2>2. PICK s \in succs[b] : o \in X[s]
    BY <1>2
  <2>3. s \in Block
    BY <2>2 DEF TypeOK
  <2>4. o \in UseOperands /\ LiveAtEntry(o, s)
    BY <2>2, <2>3 DEF TrulyLive
  <2>5. b \in Transparent(o[3])
    BY <2>1, <2>4, DefMeans
  <2> QED BY <2>2, <2>4, <2>5, PassesOn DEF TrulyLive
<1> QED BY <1>1, <1>2

LEMMA SolutionHasTruth ==
  ASSUME TypeOK, Filled, phase = "done", SolutionAtEnd,
         NEW b \in Block, NEW o \in TrulyLive(b)
  PROVE  o \in liveIn[b]
<1>0. o \in UseOperands /\ LiveAtEntry(o, b) /\ o[3] \in VReg
  BY OperandFacts DEF TrulyLive
<1> PICK c \in Block, v \in VReg : o[1] = c /\ o[3] = v
  BY <1>0, OperandFacts
<1> DEFINE around == Around(c, v)
           S == {n \in 0 .. NBlocks : \A d \in around[n] : o \in liveIn[d]}
<1>1. /\ \A k \in 1 .. o[2] - 1 : ~Defines(c, k, v)
      /\ b \in around[NBlocks]
  BY <1>0 DEF LiveAtEntry
<1>2. phase \notin {"usePos", "defUse"}
  OBVIOUS
<1>3. \A d \in Block : liveIn[d] = use[d] \cup (OutOf(d) \ def[d])
  BY DEF SolutionAtEnd, InOf
<1>4. NBlocks \in Nat /\ 0 \in 0 .. NBlocks /\ NBlocks \in 0 .. NBlocks
  BY NBlocksAssumption
<1>5. 0 \in S
  <2>1. o \in use[c]
    BY <1>0, <1>1, <1>2, UseMeans
  <2>2. o \in liveIn[c]
    BY <1>3, <2>1
  <2>3. around[0] = {c}
    BY AroundIs
  <2> QED BY <1>4, <2>2, <2>3
<1>6. ASSUME NEW n \in 0 .. NBlocks, n < NBlocks, n \in S PROVE n + 1 \in S
  <2>1. n + 1 \in 0 .. NBlocks
    BY <1>4, <1>6
  <2>2. around[n + 1] = Widen(around[n], v) /\ around[n] \in SUBSET Block
    <3>1. /\ around \in [0 .. NBlocks -> SUBSET Block]
          /\ \A k \in 0 .. NBlocks : k < NBlocks => around[k + 1] = Widen(around[k], v)
      BY AroundIs
    <3> HIDE DEF around
    <3> QED BY <1>6, <3>1
  <2>3. \A d \in around[n] : o \in liveIn[d]
    BY <1>6
  <2>4. ASSUME NEW d \in around[n + 1] PROVE o \in liveIn[d]
    <3>1. CASE d \in around[n]
      BY <2>3, <3>1
    <3>2. CASE d \notin around[n]
      <4>1. d \in Closer(around[n]) /\ d \in Transparent(v) /\ d \in Block
        BY <2>2, <2>4, <3>2 DEF Widen, Closer
      <4>2. PICK s \in succs[d] : s \in around[n]
        BY <3>2, <4>1 DEF Closer
      <4>3. o \in OutOf(d)
        BY <2>3, <4>2 DEF OutOf
      <4>4. o \notin def[d]
        BY <1>0, <1>2, <4>1, DefMeans
      <4> QED BY <1>3, <4>1, <4>3, <4>4
    <3> QED BY <3>1, <3>2
  <2> QED BY <2>1, <2>4
<1>7. NBlocks \in S
  <2>1. \A n \in 0 .. NBlocks : n < NBlocks /\ n \in S => n + 1 \in S
    BY <1>6
  <2> HIDE DEF S
  <2> QED BY <1>4, <1>5, <2>1, CountingUp
<1> QED BY <1>1, <1>7

\* When the iteration stops, live_in and live_out of every block are exactly
\* the uses that some path reaches before a definition of their register.
THEOREM EndsExact == Spec => []ExactAtEnd
<1>1. Filled /\ IterateInv => ExactAtEnd
  <2> SUFFICES ASSUME Filled, IterateInv, phase = "done", NEW b \in Block
               PROVE  /\ liveIn[b] = TrulyLive(b)
                      /\ liveOut[b] = UNION {TrulyLive(s) : s \in succs[b]}
    BY DEF ExactAtEnd
  <2>1. TypeOK /\ BelowSolutions /\ SolutionAtEnd
    BY DEF IterateInv
  <2> DEFINE X == [c \in Block |-> TrulyLive(c)]
  <2>2. Closed(X)
    BY <2>1, TruthIsClosed
  <2>3. X \in [Block -> SUBSET Operand]
    BY DEF TrulyLive, UseOperands
  <2>4. \A c \in Block : liveIn[c] \subseteq X[c]
    <3> HIDE DEF X
    <3> QED BY <2>1, <2>2, <2>3 DEF BelowSolutions, Running
  <2>5. \A c \in Block : liveIn[c] = TrulyLive(c)
    BY <2>1, <2>4, SolutionHasTruth
  <2>6. liveOut[b] = UNION {liveIn[s] : s \in succs[b]} /\ succs[b] \subseteq Block
    BY <2>1 DEF SolutionAtEnd, OutOf, TypeOK
  <2> QED BY <2>5, <2>6
<1>2. Spec => []Filled
  BY FilledInit, FilledNext, PTL DEF Spec
<1> QED BY <1>1, <1>2, IterateInvariant, PTL

-----------------------------------------------------------------------------
\* Instruction numbers, and -1 for "no use".
LastNumber == Offset[NBlocks + 1]
Number == -1 .. LastNumber
Interval ==
  [start : Number, end : Number, reg : VReg, defs : SUBSET Definitions, uses : SUBSET UseOperands]

Filling == {"adjust", "merge", "round", "ready"}
Merging == {"merge", "round", "ready"}

IvTypeOK ==
  /\ stage \in {"chains", "build"} \cup Filling
  /\ stage # "chains" => phase = "done"
  /\ stage # "chains" => duChains = [d \in Definitions |-> Chain(d)]
  /\ stage \in Filling =>
       /\ DOMAIN intervals \subseteq Int
       /\ intervals \in [DOMAIN intervals -> Interval]
       /\ members \subseteq DOMAIN intervals
  /\ stage # "round" => pairs = {}
  /\ pairs \subseteq {p \in (DOMAIN intervals) \X (DOMAIN intervals) : p[1] < p[2]}
  /\ merged \in BOOLEAN

\* An interval is filled with one definition and its chain.
FreshOf(d) == [start |-> No(d[1], parent[d]),
               end   |-> MaxOf({-1} \cup {No(o[1], o[2]) : o \in Chain(d)}),
               reg   |-> RegOf(d), defs |-> {d}, uses |-> Chain(d)]

JustBuilt ==
  stage = "adjust" =>
    /\ members = DOMAIN intervals
    /\ \A k \in DOMAIN intervals : \E d \in Definitions : intervals[k] = FreshOf(d)

(***************************************************************************)
(* What an interval says is right: its uses are operands of its register   *)
(* and so are its definitions, it stretches over all that each definition  *)
(* by itself would, and no definition without a use shares an interval.    *)
(***************************************************************************)
Alone(d) == Stretched(FreshOf(d))

RightInterval(w) ==
  /\ \A o \in w.uses : o[3] = w.reg
  /\ \A d \in w.defs : /\ RegOf(d) = w.reg
                       /\ w.start <= Alone(d).start /\ Alone(d).end <= w.end
                       /\ w.uses # {} => Chain(d) # {}

IntervalsRight ==
  stage \in Merging => \A k \in DOMAIN intervals : RightInterval(intervals[k])

\* No chain gets lost: an interval that is still in the vector has it.
ChainsKept ==
  stage \in Filling =>
    \A d \in Definitions : \E k \in members :
      d \in intervals[k].defs /\ Chain(d) \subseteq intervals[k].uses

(***************************************************************************)
(* A round of the merge loop.  The pairs to come form what the two nested  *)
(* loops leave of a triangle.                                              *)
(***************************************************************************)
Triangle ==
  \A r, q, j \in DOMAIN intervals :
    q < j /\ <<r, q>> \in pairs => (<<r, j>> \in pairs <=> <<q, j>> \in pairs)

Current(h) == \A p \in pairs : h <= p[1]

(***************************************************************************)
(* The copy that the loops run over still has erased intervals, and they   *)
(* absorb others too.  What such an interval i meets later was erased      *)
(* before it, or will be now: the interval h that absorbed i has all its   *)
(* uses, and comes to j first.                                             *)
(***************************************************************************)
ErasedClosed ==
  \A i, j \in DOMAIN intervals :
    /\ <<i, j>> \in pairs /\ i \notin members
    /\ intervals[i].uses \cap intervals[j].uses # {}
    => \/ j \notin members
       \/ \E h \in DOMAIN intervals :
            /\ h < i /\ <<h, j>> \in pairs /\ Current(h)
            /\ intervals[i].uses \subseteq intervals[h].uses

\* As long as the round has merged nothing, its pairs are apart.
ApartSoFar ==
  ~merged => \A i, j \in members :
    i < j => <<i, j>> \in pairs \/ intervals[i].uses \cap intervals[j].uses = {}

RoundOk == stage = "round" => Triangle /\ ErasedClosed /\ ApartSoFar

Apart ==
  stage = "ready" => \A i, j \in members :
    i < j => intervals[i].uses \cap intervals[j].uses = {}

IvInv ==
  /\ IvTypeOK /\ JustBuilt /\ IntervalsRight /\ ChainsKept /\ RoundOk /\ Apart

-----------------------------------------------------------------------------
(***************************************************************************)
(* Numbers: the instructions of a block lie between its first and its last *)
(* number, all of them up to the last number of the function.              *)
(***************************************************************************)
LEMMA OffsetIs ==
  ASSUME TypeOK
  PROVE  /\ Offset \in [1 .. NBlocks + 1 -> Nat]
         /\ Offset[1] = 0
         /\ \A b \in Block : Offset[b + 1] = Offset[b] + Len(code[b])
<1> DEFINE G == [n \in 1 .. NBlocks |-> [x \in Nat |-> x + Len(code[n])]]
           Path(f) == f = [b \in 1 .. NBlocks + 1 |->
                             IF b = 1 THEN 0 ELSE f[b - 1] + Len(code[b - 1])]
<1>1. NBlocks \in Nat /\ Block = 1 .. NBlocks /\ \A b \in Block : Len(code[b]) \in Nat
  BY NBlocksAssumption, InstsOfBlock DEF Block
<1>2. G \in [1 .. NBlocks -> [Nat -> Nat]]
  BY <1>1
<1>3. PICK f \in [0 .. NBlocks -> Nat] : Iterates(f, NBlocks, 0, G)
  <2> HIDE DEF G
  <2> QED BY <1>1, <1>2, IterationExists
<1> DEFINE g == [b \in 1 .. NBlocks + 1 |-> f[b - 1]]
<1>4. ASSUME NEW b \in 1 .. NBlocks + 1
      PROVE  g[b] = IF b = 1 THEN 0 ELSE g[b - 1] + Len(code[b - 1])
  <2>1. b - 1 \in 0 .. NBlocks
    BY <1>1
  <2>2. f[b - 1] = IF b - 1 = 0 THEN 0 ELSE G[b - 1][f[b - 1 - 1]]
    BY <1>3, <2>1 DEF Iterates
  <2>3. CASE b = 1
    BY <2>2, <2>3
  <2>4. CASE b # 1
    <3>1. b - 1 \in 1 .. NBlocks /\ b - 1 - 1 \in 0 .. NBlocks
      BY <1>1, <2>1, <2>4
    <3>2. f[b - 1 - 1] \in Nat
      BY <3>1
    <3>3. f[b - 1] = f[b - 1 - 1] + Len(code[b - 1])
      <4>1. b - 1 # 0 /\ G[b - 1] = [x \in Nat |-> x + Len(code[b - 1])]
        BY <3>1
      <4> QED BY <2>2, <3>2, <4>1
    <3>4. b - 1 \in 1 .. NBlocks + 1 /\ g[b] = f[b - 1] /\ g[b - 1] = f[b - 1 - 1]
      BY <1>1, <3>1
    <3> QED BY <2>4, <3>3, <3>4
  <2> QED BY <2>3, <2>4
<1>5. Path(g)
  BY <1>4
<1>6. Path(Offset)
  <2>1. Offset = CHOOSE h : Path(h)
    BY DEF Offset
  <2> HIDE DEF Path
  <2> QED BY <1>5, <2>1
<1>7. ASSUME NEW b \in 1 .. NBlocks + 1
      PROVE  Offset[b] = IF b = 1 THEN 0 ELSE Offset[b - 1] + Len(code[b - 1])
  BY <1>6
<1>8. Offset[1] = 0
  <2>1. 1 \in 1 .. NBlocks + 1
    BY <1>1
  <2> QED BY <1>7, <2>1
<1>9. ASSUME NEW b \in Block PROVE Offset[b + 1] = Offset[b] + Len(code[b])
  <2>1. b + 1 \in 1 .. NBlocks + 1 /\ b + 1 # 1 /\ (b + 1) - 1 = b
    BY <1>1
  <2> QED BY <1>7, <2>1
<1>10. \A n \in 0 .. NBlocks : Offset[n + 1] \in Nat
  <2> DEFINE S == {n \in 0 .. NBlocks : Offset[n + 1] \in Nat}
  <2>1. 0 \in S
    BY <1>1, <1>8
  <2>2. ASSUME NEW n \in 0 .. NBlocks, n < NBlocks, n \in S PROVE n + 1 \in S
    <3>1. n + 1 \in Block /\ n + 1 \in 0 .. NBlocks
      BY <1>1, <2>2
    <3>2. Offset[(n + 1) + 1] = Offset[n + 1] + Len(code[n + 1])
      BY <1>9, <3>1
    <3> QED BY <1>1, <2>2, <3>1, <3>2
  <2>3. \A n \in 0 .. NBlocks : n \in S
    <3>1. \A n \in 0 .. NBlocks : n < NBlocks /\ n \in S => n + 1 \in S
      BY <2>2
    <3> HIDE DEF S
    <3> QED BY <1>1, <2>1, <3>1, CountingUp
  <2> QED BY <2>3
<1>11. ASSUME NEW b \in 1 .. NBlocks + 1 PROVE Offset[b] \in Nat
  <2>1. b - 1 \in 0 .. NBlocks /\ (b - 1) + 1 = b
    BY <1>1
  <2> QED BY <1>10, <2>1
<1>12. Offset = [b \in 1 .. NBlocks + 1 |-> Offset[b]]
  BY <1>6
<1> QED BY <1>8, <1>9, <1>11, <1>12

LEMMA OffsetsGrow ==
  ASSUME TypeOK
  PROVE  LastNumber \in Nat /\ \A b \in 1 .. NBlocks + 1 : Offset[b] <= LastNumber
<1> DEFINE S == {n \in 0 .. NBlocks : \A b \in 1 .. n + 1 : Offset[b] <= Offset[n + 1]}
<1>1. NBlocks \in Nat /\ Block = 1 .. NBlocks /\ \A b \in Block : Len(code[b]) \in Nat
  BY NBlocksAssumption, InstsOfBlock DEF Block
<1>2. \A b \in 1 .. NBlocks + 1 : Offset[b] \in Nat
  BY OffsetIs
<1>3. 0 \in S
  BY <1>1, <1>2
<1>4. ASSUME NEW n \in 0 .. NBlocks, n < NBlocks, n \in S PROVE n + 1 \in S
  <2>1. n + 1 \in Block /\ n + 1 \in 0 .. NBlocks /\ n + 1 + 1 \in 1 .. NBlocks + 1
    BY <1>1, <1>4
  <2>2. Offset[n + 1 + 1] = Offset[n + 1] + Len(code[n + 1])
    BY <2>1, OffsetIs
  <2>3. ASSUME NEW b \in 1 .. n + 1 + 1 PROVE Offset[b] <= Offset[n + 1 + 1]
    <3>1. CASE b = n + 1 + 1
      BY <1>2, <2>1, <3>1
    <3>2. CASE b # n + 1 + 1
      <4>1. b \in 1 .. n + 1 /\ b \in 1 .. NBlocks + 1 /\ n + 1 \in 1 .. NBlocks + 1
        BY <1>1, <1>4, <2>3, <3>2
      <4>2. Offset[b] <= Offset[n + 1]
        BY <1>4, <4>1
      <4>3. Len(code[n + 1]) \in Nat /\ Offset[b] \in Nat /\ Offset[n + 1] \in Nat
        BY <1>1, <1>2, <2>1, <4>1
      <4> QED BY <2>2, <4>2, <4>3
    <3> QED BY <3>1, <3>2
  <2> QED BY <2>1, <2>3
<1>5. NBlocks \in S
  <2>1. \A n \in 0 .. NBlocks : n < NBlocks /\ n \in S => n + 1 \in S
    BY <1>4
  <2>2. NBlocks \in 0 .. NBlocks
    BY <1>1
  <2> HIDE DEF S
  <2> QED BY <1>1, <1>3, <2>1, <2>2, CountingUp
<1>6. NBlocks + 1 \in 1 .. NBlocks + 1
  BY <1>1
<1> QED BY <1>2, <1>5, <1>6 DEF LastNumber

LEMMA NumbersInBlock ==
  ASSUME TypeOK, NEW b \in Block
  PROVE  /\ FirstNo(b) \in Number /\ LastNo(b) \in Number
         /\ \A i \in Insts(b) : /\ No(b, i) \in Number
                                /\ FirstNo(b) <= No(b, i) /\ No(b, i) <= LastNo(b)
         /\ \A i, j \in Insts(b) : i <= j => No(b, i) <= No(b, j)
<1>1. b \in 1 .. NBlocks + 1 /\ b + 1 \in 1 .. NBlocks + 1
  BY NBlocksAssumption DEF Block
<1>2. Offset[b] \in Nat /\ Offset[b + 1] \in Nat /\ Offset[b + 1] = Offset[b] + Len(code[b])
  BY <1>1, OffsetIs
<1>3. LastNumber \in Nat /\ Offset[b + 1] <= LastNumber
  BY <1>1, OffsetsGrow
<1>4. Len(code[b]) \in Nat \ {0} /\ Insts(b) = 1 .. Len(code[b])
  BY InstsOfBlock
<1>5. Number = -1 .. LastNumber
  BY DEF Number
<1>6. FirstNo(b) = Offset[b] + 1 /\ LastNo(b) = Offset[b + 1] /\ \A i : No(b, i) = Offset[b] + i
  BY DEF FirstNo, LastNo, No
<1>7. FirstNo(b) \in Number /\ LastNo(b) \in Number
  BY <1>2, <1>3, <1>4, <1>5, <1>6
<1>8. ASSUME NEW i \in Insts(b)
      PROVE  No(b, i) \in Number /\ FirstNo(b) <= No(b, i) /\ No(b, i) <= LastNo(b)
  <2>1. No(b, i) = Offset[b] + i /\ i \in Nat /\ 1 <= i /\ i <= Len(code[b])
    BY <1>4, <1>6
  <2>2. No(b, i) \in Nat /\ Offset[b] + 1 <= No(b, i) /\ No(b, i) <= Offset[b + 1]
    BY <1>2, <1>4, <2>1
  <2> QED BY <1>2, <1>3, <1>5, <1>6, <2>2
<1>9. ASSUME NEW i \in Insts(b), NEW j \in Insts(b), i <= j PROVE No(b, i) <= No(b, j)
  BY <1>2, <1>4, <1>6, <1>9
<1> QED BY <1>7, <1>8, <1>9

LEMMA Extremes ==
  ASSUME NEW m \in Nat, NEW S, S \subseteq -1 .. m, NEW e \in S
  PROVE  /\ MaxOf(S) \in S /\ \A y \in S : y <= MaxOf(S)
         /\ MinOf(S) \in S /\ \A y \in S : MinOf(S) <= y
BY GreatestExists, LeastExists DEF MaxOf, MinOf

-----------------------------------------------------------------------------
(***************************************************************************)
(* Paths: where a definition reaches and a use is live, the use is in the  *)
(* chain of the definition.                                                *)
(***************************************************************************)
LEMMA BeyondIs ==
  ASSUME TypeOK, NEW b \in Block, NEW v
  PROVE  /\ Beyond(b, v)[0] = succs[b]
         /\ \A n \in 0 .. NBlocks : n < NBlocks =>
              Beyond(b, v)[n + 1] =
                Beyond(b, v)[n] \cup UNION {succs[c] : c \in Beyond(b, v)[n] \cap Transparent(v)}
<1> DEFINE Further(X) == X \cup UNION {succs[c] : c \in X \cap Transparent(v)}
           G == [n \in 1 .. NBlocks |-> [X \in SUBSET Block |-> Further(X)]]
           Path(f) == f = [n \in 0 .. NBlocks |->
                             IF n = 0 THEN succs[b]
                             ELSE f[n - 1] \cup UNION {succs[c] : c \in f[n - 1] \cap Transparent(v)}]
<1>1. succs[b] \in SUBSET Block /\ \A X \in SUBSET Block : Further(X) \in SUBSET Block
  BY DEF TypeOK
<1>2. G \in [1 .. NBlocks -> [SUBSET Block -> SUBSET Block]]
  <2> HIDE DEF Further
  <2> QED BY <1>1
<1>3. PICK f \in [0 .. NBlocks -> SUBSET Block] : Iterates(f, NBlocks, succs[b], G)
  <2>1. NBlocks \in Nat
    BY NBlocksAssumption
  <2> HIDE DEF G
  <2> QED BY <1>1, <1>2, <2>1, IterationExists
<1>4. Path(f)
  <2>1. ASSUME NEW n \in 0 .. NBlocks, n # 0 PROVE G[n][f[n - 1]] = Further(f[n - 1])
    <3>1. n \in 1 .. NBlocks /\ f[n - 1] \in SUBSET Block
      BY <2>1, NBlocksAssumption
    <3> HIDE DEF Further
    <3> QED BY <3>1
  <2> HIDE DEF G
  <2> QED BY <1>3, <2>1 DEF Iterates
<1>5. Path(Beyond(b, v))
  <2>1. Beyond(b, v) = CHOOSE g : Path(g)
    BY DEF Beyond
  <2> HIDE DEF Path
  <2> QED BY <1>4, <2>1
<1>6. ASSUME NEW g, Path(g), NEW n \in 0 .. NBlocks
      PROVE  g[n] = IF n = 0 THEN succs[b] ELSE Further(g[n - 1])
  BY <1>6
<1>7. 0 \in 0 .. NBlocks
  BY NBlocksAssumption
<1>8. Beyond(b, v)[0] = succs[b]
  <2> HIDE DEF Path
  <2> QED BY <1>5, <1>6, <1>7
<1>9. ASSUME NEW n \in 0 .. NBlocks, n < NBlocks
      PROVE  Beyond(b, v)[n + 1] = Further(Beyond(b, v)[n])
  <2>1. n + 1 \in 0 .. NBlocks /\ n + 1 # 0 /\ (n + 1) - 1 = n
    BY <1>9, NBlocksAssumption
  <2> HIDE DEF Path, Further
  <2> QED BY <1>5, <1>6, <2>1
<1> QED BY <1>8, <1>9

LEMMA DefinitionFacts ==
  ASSUME TypeOK, NEW d \in Definitions
  PROVE  /\ d[1] \in Block /\ d[2] \in Insts(d[1]) /\ RegOf(d) \in VReg
         /\ d = <<d[1], d[2]>>
         /\ Defines(d[1], d[2], RegOf(d))
<1>0. d \in DefPlaces
  BY DEF Definitions
<1>1. d \in Block \X (1 .. MaxInsts) /\ d[2] \in Insts(d[1]) /\ code[d[1]][d[2]].defs # {}
  BY <1>0 DEF DefPlaces, Definition
<1>2. d[1] \in Block /\ d = <<d[1], d[2]>>
  BY <1>1
<1>3. RegOf(d) \in code[d[1]][d[2]].defs
  BY <1>1 DEF RegOf
<1>4. code[d[1]][d[2]].defs \subseteq VReg
  BY <1>1, <1>2, ProgramFacts
<1> QED BY <1>1, <1>2, <1>3, <1>4 DEF Defines

\* The parent of an operand is the instruction that defines it, or a later
\* one that uses what nothing in between has changed.
LEMMA ParentFacts ==
  ASSUME TypeOK, parent \in Parents, NEW d \in Definitions
  PROVE  /\ parent[d] \in Insts(d[1])
         /\ parent[d] = d[2] \/
              /\ d[2] < parent[d] /\ <<d[1], parent[d], RegOf(d)>> \in UseOperands
              /\ Clear(d[1], d[2] + 1, parent[d], RegOf(d))
<1>1. d[1] \in Block /\ d[2] \in Insts(d[1]) /\ RegOf(d) \in VReg
  BY DefinitionFacts
<1>2. CASE parent[d] = d[2]
  BY <1>1, <1>2
<1>3. CASE PassedOn(d, parent[d])
  <2>1. /\ d[2] < parent[d] /\ parent[d] \in Insts(d[1])
        /\ RegOf(d) \in code[d[1]][parent[d]].uses
    BY <1>3 DEF PassedOn
  <2>2. d \in DefPlaces /\ parent[d] \in 1 .. MaxInsts
    <3>1. d \in DefPlaces
      BY DEF Definitions
    <3>2. parent \in [DefPlaces -> 1 .. MaxInsts]
      BY DEF Parents
    <3> QED BY <3>1, <3>2
  <2>3. <<d[1], parent[d], RegOf(d)>> \in UseOperands
    BY <1>1, <2>1, <2>2 DEF UseOperands, Operand
  <2>4. Clear(d[1], d[2] + 1, parent[d], RegOf(d))
    BY <1>3 DEF PassedOn, Clear, Defines
  <2> QED BY <2>1, <2>3, <2>4
<1> QED BY <1>2, <1>3 DEF Definitions

\* Forwards from the definition, backwards from the use: the paths meet.
LEMMA PathsMeet ==
  ASSUME TypeOK, NEW a \in Block, NEW o \in UseOperands, NEW b,
         b \in Beyond(a, o[3])[NBlocks], LiveAtEntry(o, b)
  PROVE  \E s \in succs[a] : LiveAtEntry(o, s)
<1> PICK v : v = o[3]
  OBVIOUS
<1> DEFINE into == Beyond(a, v)
           Met == \E s \in succs[a] : LiveAtEntry(o, s)
           S == {n \in 0 .. NBlocks : \A c \in into[n] : c \in Block /\ (LiveAtEntry(o, c) => Met)}
<1>1. NBlocks \in Nat /\ 0 \in 0 .. NBlocks /\ NBlocks \in 0 .. NBlocks
  BY NBlocksAssumption
<1>2. \A c \in Block : succs[c] \subseteq Block
  BY DEF TypeOK
<1>3. 0 \in S
  <2>1. into[0] = succs[a]
    BY BeyondIs
  <2> QED BY <1>1, <1>2, <2>1
<1>4. ASSUME NEW n \in 0 .. NBlocks, n < NBlocks, n \in S PROVE n + 1 \in S
  <2>1. into[n + 1] = into[n] \cup UNION {succs[c] : c \in into[n] \cap Transparent(v)}
    <3>1. \A k \in 0 .. NBlocks : k < NBlocks =>
            into[k + 1] = into[k] \cup UNION {succs[c] : c \in into[k] \cap Transparent(v)}
      BY BeyondIs
    <3> HIDE DEF into
    <3> QED BY <1>4, <3>1
  <2>2. ASSUME NEW e \in into[n + 1] PROVE e \in Block /\ (LiveAtEntry(o, e) => Met)
    <3>1. CASE e \in into[n]
      BY <1>4, <3>1
    <3>2. CASE e \notin into[n]
      <4>1. PICK c \in into[n] : c \in Transparent(v) /\ e \in succs[c]
        BY <2>1, <2>2, <3>2
      <4>2. c \in Block /\ (LiveAtEntry(o, c) => Met)
        BY <1>4, <4>1
      <4>3. LiveAtEntry(o, e) => LiveAtEntry(o, c)
        BY <4>1, <4>2, PassesOn
      <4> QED BY <1>2, <4>1, <4>2, <4>3
    <3> QED BY <3>1, <3>2
  <2>3. n + 1 \in 0 .. NBlocks
    BY <1>1, <1>4
  <2> QED BY <2>2, <2>3
<1>5. NBlocks \in S
  <2>1. \A n \in 0 .. NBlocks : n < NBlocks /\ n \in S => n + 1 \in S
    BY <1>4
  <2> HIDE DEF S
  <2> QED BY <1>1, <1>3, <2>1, CountingUp
<1> QED BY <1>5

LEMMA LiveOutIs ==
  ASSUME TypeOK, ExactAtEnd, phase = "done", NEW b \in Block
  PROVE  \A o : o \in liveOut[b] <=> o \in UseOperands /\ \E s \in succs[b] : LiveAtEntry(o, s)
<1>1. liveOut[b] = UNION {TrulyLive(s) : s \in succs[b]}
  BY DEF ExactAtEnd
<1> QED BY <1>1 DEF TrulyLive

LEMMA LiveInIs ==
  ASSUME TypeOK, ExactAtEnd, phase = "done", NEW b \in Block
  PROVE  \A o : o \in liveIn[b] <=> o \in UseOperands /\ LiveAtEntry(o, b)
<1>1. liveIn[b] = TrulyLive(b)
  BY DEF ExactAtEnd
<1> QED BY <1>1 DEF TrulyLive

LEMMA ChainFacts ==
  ASSUME TypeOK, ExactAtEnd, phase = "done", NEW d \in Definitions, NEW o \in Chain(d)
  PROVE  /\ o \in UseOperands /\ o[3] = RegOf(d)
         /\ (o[1] = d[1] /\ d[2] < o[2]) \/ o \in liveOut[d[1]]
<1>1. d[1] \in Block
  BY DefinitionFacts
<1>2. liveOut[d[1]] \subseteq UseOperands
  BY <1>1, LiveOutIs
<1> QED BY <1>2 DEF Chain

\* A use further down in the block, with no definition in between.
LEMMA ChainInBlock ==
  ASSUME TypeOK, NEW d \in Definitions, NEW o \in UseOperands, o[3] = RegOf(d),
         o[1] = d[1], d[2] < o[2], Clear(d[1], d[2] + 1, o[2], RegOf(d))
  PROVE  o \in Chain(d)
<1> DEFINE b == d[1]
           v == RegOf(d)
           later == {k \in Insts(b) : k > d[2] /\ v \in code[b][k].defs}
           reach == IF later = {} THEN Len(code[b]) ELSE MinOf(later)
<1>1. b \in Block /\ d[2] \in Insts(b) /\ o[2] \in Insts(b)
  BY DefinitionFacts, OperandFacts
<1>2. Insts(b) = 1 .. Len(code[b]) /\ Len(code[b]) \in Nat
  BY <1>1, InstsOfBlock
<1>3. o[2] <= reach
  <2>1. CASE later = {}
    BY <1>1, <1>2, <2>1
  <2>2. CASE later # {}
    <3>1. PICK e : e \in later
      BY <2>2
    <3>2. later \subseteq -1 .. Len(code[b])
      BY <1>2
    <3>3. MinOf(later) \in later
      <4> HIDE DEF later
      <4> QED BY <1>2, <3>1, <3>2, Extremes
    <3>4. MinOf(later) \in Insts(b) /\ MinOf(later) > d[2] /\ Defines(b, MinOf(later), v)
      BY <3>3 DEF Defines
    <3> DEFINE m == MinOf(later)
    <3>5. m \in Insts(b) /\ m > d[2] /\ Defines(b, m, v)
      BY <3>4
    <3>6. ~(m < o[2])
      <4> HIDE DEF m
      <4> QED BY <1>1, <1>2, <3>5 DEF Clear
    <3>7. reach = m
      BY <2>2
    <3> HIDE DEF m, reach
    <3> QED BY <1>1, <1>2, <3>5, <3>6, <3>7
  <2> QED BY <2>1, <2>2
<1>4. Chain(d) = {u \in UseOperands : u[1] = b /\ u[3] = v /\ d[2] < u[2] /\ u[2] <= reach}
                   \cup (IF later = {} THEN {u \in liveOut[b] : u[3] = v} ELSE {})
  BY DEF Chain
<1> HIDE DEF reach, later
<1> QED BY <1>3, <1>4

\* A use that is live where the block ends, with no definition before that.
LEMMA ChainOutOfBlock ==
  ASSUME TypeOK, NEW d \in Definitions, NEW o \in liveOut[d[1]], o[3] = RegOf(d),
         \A k \in Insts(d[1]) : k > d[2] => ~Defines(d[1], k, RegOf(d))
  PROVE  o \in Chain(d)
<1>1. {k \in Insts(d[1]) : k > d[2] /\ RegOf(d) \in code[d[1]][k].defs} = {}
  BY DEF Defines
<1> QED BY <1>1 DEF Chain

\* Live behind instructions that do not define the register: live before them.
LEMMA LiveFromEntry ==
  ASSUME TypeOK, NEW o \in UseOperands, NEW b \in Block, NEW i \in Insts(b),
         Clear(b, 1, i, o[3]), LiveAtInst(o, b, i)
  PROVE  LiveAtEntry(o, b)
<1>1. Insts(b) = 1 .. Len(code[b]) /\ Len(code[b]) \in Nat
  BY InstsOfBlock
<1>2. CASE o[1] = b /\ i <= o[2] /\ Clear(b, i, o[2], o[3])
  <2>1. o[2] \in Insts(b)
    BY <1>2, OperandFacts
  <2>2. \A k \in 1 .. o[2] - 1 : ~Defines(b, k, o[3])
    BY <1>1, <1>2, <2>1 DEF Clear
  <2>3. b \in Around(b, o[3])[NBlocks]
    BY AroundComplete
  <2> QED BY <1>2, <2>2, <2>3 DEF LiveAtEntry
<1>3. CASE Clear(b, i, Len(code[b]) + 1, o[3]) /\ \E s \in succs[b] : LiveAtEntry(o, s)
  <2>1. b \in Transparent(o[3])
    BY <1>1, <1>3 DEF Clear, Transparent
  <2> QED BY <1>3, <2>1, PassesOn
<1> QED BY <1>2, <1>3 DEF LiveAtInst

LEMMA ChainHas ==
  ASSUME TypeOK, ExactAtEnd, phase = "done", NEW d \in Definitions, NEW o \in UseOperands,
         o[3] = RegOf(d), NEW b \in Block, NEW i \in Insts(b),
         ReachesAt(d, b, i), LiveAtInst(o, b, i)
  PROVE  o \in Chain(d)
<1> DEFINE v == RegOf(d)
<1>1. d[1] \in Block /\ d[2] \in Insts(d[1])
  BY DefinitionFacts
<1>2. \A c \in Block : Insts(c) = 1 .. Len(code[c]) /\ Len(code[c]) \in Nat
  BY InstsOfBlock
<1>3. CASE d[1] = b /\ d[2] < i /\ Clear(b, d[2] + 1, i, v)
  <2>1. CASE o[1] = b /\ i <= o[2] /\ Clear(b, i, o[2], v)
    <3>1. o[2] \in Insts(b)
      BY <2>1, OperandFacts
    <3>2. d[2] < o[2] /\ Clear(b, d[2] + 1, o[2], v)
      BY <1>1, <1>2, <1>3, <2>1, <3>1 DEF Clear
    <3> QED BY <1>3, <2>1, <3>2, ChainInBlock
  <2>2. CASE Clear(b, i, Len(code[b]) + 1, v) /\ \E s \in succs[b] : LiveAtEntry(o, s)
    <3>1. \A k \in Insts(b) : k > d[2] => ~Defines(b, k, v)
      BY <1>1, <1>2, <1>3, <2>2 DEF Clear
    <3>2. o \in liveOut[b]
      BY <2>2, LiveOutIs
    <3> QED BY <1>3, <3>1, <3>2, ChainOutOfBlock
  <2> QED BY <2>1, <2>2 DEF LiveAtInst
<1>4. CASE ReachesEntry(d, b) /\ Clear(b, 1, i, v)
  <2>1. LiveAtEntry(o, b)
    BY <1>4, LiveFromEntry
  <2>2. \E s \in succs[d[1]] : LiveAtEntry(o, s)
    <3>1. b \in Beyond(d[1], o[3])[NBlocks]
      BY <1>4 DEF ReachesEntry
    <3> QED BY <1>1, <2>1, <3>1, PathsMeet
  <2>3. o \in liveOut[d[1]]
    BY <1>1, <2>2, LiveOutIs
  <2> QED BY <1>4, <2>3, ChainOutOfBlock DEF ReachesEntry
<1> QED BY <1>3, <1>4 DEF ReachesAt

-----------------------------------------------------------------------------
(***************************************************************************)
(* What one definition and its chain stretch over.                         *)
(***************************************************************************)
ChainEnd(d) == MaxOf({-1} \cup {No(o[1], o[2]) : o \in Chain(d)})
Starts(d) ==
  {No(d[1], parent[d])} \cup {FirstNo(b) : b \in {c \in Block : Chain(d) \cap liveIn[c] # {}}}
Ends(d) ==
  {ChainEnd(d)} \cup {LastNo(b) : b \in {c \in Block : Chain(d) \cap liveOut[c] # {}}}
    \cup {No(o[1], o[2]) : o \in
            {u \in Chain(d) : Chain(d) \cap liveIn[u[1]] # {} /\ ~(Chain(d) \cap liveOut[u[1]] # {})}}

LEMMA UseNumber ==
  ASSUME TypeOK, NEW o \in UseOperands
  PROVE  No(o[1], o[2]) \in Number
<1>1. o[1] \in Block /\ o[2] \in Insts(o[1])
  BY OperandFacts
<1> QED BY <1>1, NumbersInBlock

LEMMA NumberIs == TypeOK => LastNumber \in Nat /\ -1 \in Number /\ Number = -1 .. LastNumber
BY OffsetsGrow DEF Number

LEMMA ChainEndIs ==
  ASSUME TypeOK, ExactAtEnd, phase = "done", NEW d \in Definitions
  PROVE  /\ ChainEnd(d) \in Number
         /\ \A o \in Chain(d) : No(o[1], o[2]) <= ChainEnd(d)
<1> DEFINE S == {-1} \cup {No(o[1], o[2]) : o \in Chain(d)}
<1>1. LastNumber \in Nat /\ -1 \in Number /\ Number = -1 .. LastNumber
  BY NumberIs
<1>2. \A o \in Chain(d) : No(o[1], o[2]) \in Number
  BY ChainFacts, UseNumber
<1>3. S \subseteq -1 .. LastNumber /\ -1 \in S
  BY <1>1, <1>2
<1>4. MaxOf(S) \in S /\ \A y \in S : y <= MaxOf(S)
  <2> HIDE DEF S
  <2> QED BY <1>1, <1>3, Extremes
<1>5. ChainEnd(d) = MaxOf(S) /\ \A o \in Chain(d) : No(o[1], o[2]) \in S
  BY DEF ChainEnd
<1> HIDE DEF S
<1> QED BY <1>1, <1>3, <1>4, <1>5

LEMMA AloneIs ==
  ASSUME TypeOK, ExactAtEnd, parent \in Parents, phase = "done", NEW d \in Definitions
  PROVE  /\ Alone(d) = [start |-> MinOf(Starts(d)), end |-> MaxOf(Ends(d)),
                        reg |-> RegOf(d), defs |-> {d}, uses |-> Chain(d)]
         /\ Alone(d).start \in Number /\ Alone(d).end \in Number
         /\ \A n \in Starts(d) : Alone(d).start <= n
         /\ \A n \in Ends(d) : n <= Alone(d).end
<1> DEFINE w == [start |-> No(d[1], parent[d]), end |-> ChainEnd(d),
                 reg |-> RegOf(d), defs |-> {d}, uses |-> Chain(d)]
<1>1. FreshOf(d) = w
  BY DEF FreshOf, ChainEnd
<1>2. w.uses = Chain(d) /\ w.start = No(d[1], parent[d]) /\ w.end = ChainEnd(d)
  OBVIOUS
<1>3. \A b : (LiveInTo(w, b) <=> Chain(d) \cap liveIn[b] # {})
             /\ (LiveOutOf(w, b) <=> Chain(d) \cap liveOut[b] # {})
  BY DEF LiveInTo, LiveOutOf
<1>4. Stretched(w) = [start |-> MinOf(Starts(d)), end |-> MaxOf(Ends(d)),
                      reg |-> RegOf(d), defs |-> {d}, uses |-> Chain(d)]
  <2>1. {w.start} \cup {FirstNo(b) : b \in {c \in Block : LiveInTo(w, c)}} = Starts(d)
    <3> HIDE DEF w
    <3> QED BY <1>2, <1>3 DEF Starts
  <2>2. {w.end} \cup {LastNo(b) : b \in {c \in Block : LiveOutOf(w, c)}}
          \cup {No(o[1], o[2]) : o \in {u \in w.uses : LiveInTo(w, u[1]) /\ ~LiveOutOf(w, u[1])}}
          = Ends(d)
    <3> HIDE DEF w
    <3> QED BY <1>2, <1>3 DEF Ends
  <2>3. Stretched(w) = [w EXCEPT !.start = MinOf(Starts(d)), !.end = MaxOf(Ends(d))]
    <3> HIDE DEF w
    <3> QED BY <2>1, <2>2 DEF Stretched
  <2> QED BY <2>3
<1>5. LastNumber \in Nat /\ -1 \in Number /\ Number = -1 .. LastNumber
  BY NumberIs
<1>6. d[1] \in Block /\ parent[d] \in Insts(d[1])
  BY DefinitionFacts, ParentFacts
<1>7. \A b \in Block : FirstNo(b) \in Number /\ LastNo(b) \in Number
  BY NumbersInBlock
<1>8. Starts(d) \subseteq Number /\ No(d[1], parent[d]) \in Starts(d)
  BY <1>6, <1>7, NumbersInBlock DEF Starts
<1>9. Ends(d) \subseteq Number /\ ChainEnd(d) \in Ends(d)
  <2>1. \A o \in Chain(d) : No(o[1], o[2]) \in Number
    BY ChainFacts, UseNumber
  <2>2. ChainEnd(d) \in Number
    BY ChainEndIs
  <2> QED BY <1>7, <2>1, <2>2 DEF Ends
<1>10. MinOf(Starts(d)) \in Starts(d) /\ \A n \in Starts(d) : MinOf(Starts(d)) <= n
  BY <1>5, <1>8, Extremes
<1>11. MaxOf(Ends(d)) \in Ends(d) /\ \A n \in Ends(d) : n <= MaxOf(Ends(d))
  BY <1>5, <1>9, Extremes
<1>12. Alone(d) = [start |-> MinOf(Starts(d)), end |-> MaxOf(Ends(d)),
                   reg |-> RegOf(d), defs |-> {d}, uses |-> Chain(d)]
  BY <1>1, <1>4 DEF Alone
<1> QED BY <1>8, <1>9, <1>10, <1>11, <1>12

\* By itself a definition with its chain covers every instruction where it
\* reaches and a use in the chain is live, from the parent of its operand on.
LEMMA AloneCovers ==
  ASSUME TypeOK, ExactAtEnd, parent \in Parents, phase = "done", NEW d \in Definitions, NEW o \in Chain(d)
  PROVE  /\ Alone(d).start <= No(d[1], parent[d]) /\ No(d[1], parent[d]) <= Alone(d).end
         /\ \A b \in Block : \A i \in Insts(b) :
              ReachesAt(d, b, i) /\ LiveAtInst(o, b, i) /\ ~HandedOn(d, b, i)
                => Alone(d).start <= No(b, i) /\ No(b, i) <= Alone(d).end
<1>1. /\ Alone(d).start \in Number /\ Alone(d).end \in Number
      /\ \A n \in Starts(d) : Alone(d).start <= n
      /\ \A n \in Ends(d) : n <= Alone(d).end
  BY AloneIs
<1>2. LastNumber \in Nat /\ Number = -1 .. LastNumber
  BY NumberIs
<1>3. d[1] \in Block /\ d[2] \in Insts(d[1])
  BY DefinitionFacts
<1>4. o \in UseOperands /\ o[3] = RegOf(d) /\ ((o[1] = d[1] /\ d[2] < o[2]) \/ o \in liveOut[d[1]])
  BY ChainFacts
<1>5. o[1] \in Block /\ o[2] \in Insts(o[1])
  BY <1>4, OperandFacts
<1>6. ChainEnd(d) \in Number /\ No(o[1], o[2]) <= ChainEnd(d)
  BY ChainEndIs
<1>7. No(o[1], o[2]) \in Number /\ No(o[1], o[2]) <= Alone(d).end
  <2>1. No(o[1], o[2]) \in Number
    BY <1>4, UseNumber
  <2>2. ChainEnd(d) <= Alone(d).end
    BY <1>1 DEF Ends
  <2> QED BY <1>1, <1>2, <1>6, <2>1, <2>2
<1>8. ASSUME NEW b \in Block, NEW i \in Insts(b), o \in liveOut[b]
      PROVE  No(b, i) <= Alone(d).end
  <2>1. LastNo(b) \in Ends(d)
    BY <1>8 DEF Ends
  <2>2. LastNo(b) \in Number /\ No(b, i) \in Number /\ No(b, i) <= LastNo(b)
    BY NumbersInBlock
  <2> QED BY <1>1, <1>2, <2>1, <2>2
<1>9. No(d[1], parent[d]) \in Number /\ Alone(d).start <= No(d[1], parent[d])
  <2>1. parent[d] \in Insts(d[1])
    BY ParentFacts
  <2> QED BY <1>1, <1>3, <2>1, NumbersInBlock DEF Starts
<1>10. No(d[1], parent[d]) <= Alone(d).end
  <2>1. CASE parent[d] = d[2] /\ o[1] = d[1] /\ d[2] < o[2]
    <3>1. No(d[1], d[2]) <= No(o[1], o[2])
      <4>1. Insts(d[1]) = 1 .. Len(code[d[1]]) /\ Len(code[d[1]]) \in Nat
        BY <1>3, InstsOfBlock
      <4>2. d[2] <= o[2] /\ o[2] \in Insts(d[1])
        BY <1>3, <1>5, <2>1, <4>1
      <4> QED BY <1>3, <2>1, <4>2, NumbersInBlock
    <3> QED BY <1>1, <1>2, <1>7, <1>9, <2>1, <3>1
  <2>2. CASE parent[d] = d[2] /\ o \in liveOut[d[1]]
    BY <1>3, <1>8, <2>2
  <2>3. CASE parent[d] # d[2]
    <3> DEFINE u == <<d[1], parent[d], RegOf(d)>>
    <3>1. /\ u \in UseOperands /\ u[1] = d[1] /\ u[2] = parent[d] /\ u[3] = RegOf(d)
          /\ d[2] < u[2] /\ Clear(d[1], d[2] + 1, u[2], RegOf(d))
      BY <2>3, ParentFacts
    <3> HIDE DEF u
    <3>2. u \in Chain(d)
      BY <3>1, ChainInBlock
    <3>3. No(u[1], u[2]) <= ChainEnd(d)
      BY <3>2, ChainEndIs
    <3>4. ChainEnd(d) <= Alone(d).end
      BY <1>1 DEF Ends
    <3> QED BY <1>1, <1>2, <1>6, <1>9, <3>1, <3>3, <3>4
  <2> QED BY <1>4, <2>1, <2>2, <2>3
<1>11. ASSUME NEW b \in Block, NEW i \in Insts(b), ReachesAt(d, b, i), LiveAtInst(o, b, i),
              ~HandedOn(d, b, i)
       PROVE  Alone(d).start <= No(b, i) /\ No(b, i) <= Alone(d).end
  <2>1. Insts(b) = 1 .. Len(code[b]) /\ Len(code[b]) \in Nat
    BY InstsOfBlock
  <2>2. No(b, i) \in Number /\ FirstNo(b) \in Number /\ FirstNo(b) <= No(b, i)
    BY NumbersInBlock
  <2>3. No(b, i) <= Alone(d).end
    <3>1. CASE o[1] = b /\ i <= o[2]
      <4>1. No(b, i) <= No(o[1], o[2])
        BY <1>5, <3>1, NumbersInBlock
      <4> QED BY <1>1, <1>2, <1>7, <2>2, <4>1
    <3>2. CASE \E s \in succs[b] : LiveAtEntry(o, s)
      <4>1. o \in liveOut[b]
        BY <1>4, <3>2, LiveOutIs
      <4> QED BY <1>8, <4>1
    <3> QED BY <1>11, <3>1, <3>2 DEF LiveAtInst
  <2>4. Alone(d).start <= No(b, i)
    <3>1. CASE d[1] = b /\ d[2] < i
      <4>1. No(d[1], parent[d]) <= No(b, i)
        <5>1. parent[d] \in Insts(d[1])
          BY ParentFacts
        <5>2. parent[d] <= i
          BY <1>11, <2>1, <3>1, <5>1 DEF HandedOn
        <5> QED BY <1>3, <3>1, <5>1, <5>2, NumbersInBlock
      <4> QED BY <1>1, <1>2, <1>9, <2>2, <4>1
    <3>2. CASE ReachesEntry(d, b) /\ Clear(b, 1, i, RegOf(d))
      <4>1. LiveAtEntry(o, b)
        BY <1>4, <1>11, <3>2, LiveFromEntry
      <4>2. o \in liveIn[b]
        BY <1>4, <4>1, LiveInIs
      <4>3. FirstNo(b) \in Starts(d)
        BY <4>2 DEF Starts
      <4> QED BY <1>1, <1>2, <2>2, <4>3
    <3> QED BY <1>11, <3>1, <3>2 DEF ReachesAt
  <2> QED BY <2>3, <2>4
<1> QED BY <1>9, <1>10, <1>11

-----------------------------------------------------------------------------
(***************************************************************************)
(* The steps.  From the end of the analysis on its variables stand still.  *)
(***************************************************************************)
LEMMA Frozen ==
  ASSUME UNCHANGED <<vars, parent>>
  PROVE  /\ Definitions' = Definitions /\ UseOperands' = UseOperands /\ phase' = phase
         /\ Interval' = Interval /\ Number' = Number
         /\ \A d : /\ Chain(d)' = Chain(d) /\ RegOf(d)' = RegOf(d)
                   /\ FreshOf(d)' = FreshOf(d) /\ Alone(d)' = Alone(d)
<1>0. /\ code' = code /\ liveIn' = liveIn /\ liveOut' = liveOut /\ phase' = phase
      /\ parent' = parent
  BY DEF vars
<1>2. UseOperands' = UseOperands
  BY <1>0 DEF UseOperands, Insts
<1>13. \A d, j : PassedOn(d, j)' <=> PassedOn(d, j)
  <2>1. \A d : RegOf(d)' = RegOf(d)
    BY <1>0 DEF RegOf
  <2>2. \A b : Insts(b)' = Insts(b)
    BY <1>0 DEF Insts
  <2> QED BY <1>0, <1>2, <2>1, <2>2, ZenonT(40) DEF PassedOn
<1>1. Definitions' = Definitions
  <2>1. DefPlaces' = DefPlaces
    BY <1>0 DEF DefPlaces, Insts
  <2> QED BY <1>0, <1>13, <2>1 DEF Definitions
<1>3. Offset' = Offset
  BY <1>0 DEF Offset
<1>4. Number' = Number
  BY <1>3 DEF Number, LastNumber
<1>5. Interval' = Interval
  BY <1>1, <1>2, <1>4 DEF Interval
<1>6. \A d : RegOf(d)' = RegOf(d)
  BY <1>0 DEF RegOf
<1>7. \A d : Chain(d)' = Chain(d)
  <2> TAKE d
  <2>1. RegOf(d)' = RegOf(d) /\ \A b : Insts(b)' = Insts(b)
    BY <1>0, <1>6 DEF Insts
  <2> QED BY <1>0, <1>2, <2>1, ZenonT(40) DEF Chain
<1>8. \A b, i : No(b, i)' = No(b, i) /\ FirstNo(b)' = FirstNo(b) /\ LastNo(b)' = LastNo(b)
  BY <1>3 DEF No, FirstNo, LastNo
<1>9. \A d : FreshOf(d)' = FreshOf(d)
  BY <1>0, <1>6, <1>7, <1>8 DEF FreshOf
<1>10. \A w, b : (LiveInTo(w, b)' <=> LiveInTo(w, b)) /\ (LiveOutOf(w, b)' <=> LiveOutOf(w, b))
  BY <1>0 DEF LiveInTo, LiveOutOf
<1>11. \A w : Stretched(w)' = Stretched(w)
  BY <1>8, <1>10 DEF Stretched
<1>12. \A d : Alone(d)' = Alone(d)
  BY <1>9, <1>11 DEF Alone
<1> QED BY <1>0, <1>1, <1>2, <1>4, <1>5, <1>6, <1>7, <1>9, <1>12

LEMMA IvInitInv == IvInit => IvInv
<1> SUFFICES ASSUME IvInit PROVE IvInv
  OBVIOUS
<1>1. stage = "chains" /\ pairs = {} /\ merged = FALSE
  BY DEF IvInit
<1> QED BY <1>1 DEF IvInv, IvTypeOK, JustBuilt, IntervalsRight, ChainsKept, RoundOk, Apart,
            Filling, Merging

LEMMA AnalysisStep ==
  ASSUME TypeOK, IvInv, Next, UNCHANGED ivVars
  PROVE  IvInv'
<1>1. phase # "done"
  BY DEF Next, ComputeUsePos, ComputeDefUse, BeginIterate, VisitBlock, EndRound
<1>2. stage = "chains"
  BY <1>1 DEF IvInv, IvTypeOK
<1>3. stage' = stage /\ intervals' = intervals /\ members' = members /\ pairs' = pairs /\ merged' = merged
  BY DEF ivVars
<1> QED BY <1>2, <1>3 DEF IvInv, IvTypeOK, JustBuilt, IntervalsRight, ChainsKept, RoundOk, Apart,
            Filling, Merging

LEMMA ChainsStep ==
  ASSUME TypeOK, IvInv, MakeDuChains
  PROVE  IvInv'
<1>1. stage = "chains" /\ stage' = "build" /\ phase = "done" /\ UNCHANGED <<vars, parent>>
  BY DEF MakeDuChains
<1>2. intervals' = intervals /\ pairs' = pairs /\ merged' = merged
  BY DEF MakeDuChains
<1>3. duChains' = [d \in Definitions |-> Chain(d)]
  BY DEF MakeDuChains
<1>4. duChains' = [d \in Definitions' |-> Chain(d)']
  BY <1>1, <1>3, Frozen
<1>5. IvTypeOK'
  BY <1>1, <1>2, <1>4, Frozen DEF IvInv, IvTypeOK, Filling
<1> QED BY <1>1, <1>5 DEF IvInv, JustBuilt, IntervalsRight, ChainsKept, RoundOk, Apart,
            Filling, Merging

LEMMA FreshType ==
  ASSUME TypeOK, ExactAtEnd, parent \in Parents, phase = "done", NEW d \in Definitions
  PROVE  FreshOf(d) \in Interval /\ Alone(d) \in Interval
<1>1. d[1] \in Block /\ d[2] \in Insts(d[1]) /\ RegOf(d) \in VReg
  BY DefinitionFacts
<1>2. No(d[1], parent[d]) \in Number
  BY <1>1, ParentFacts, NumbersInBlock
<1>3. ChainEnd(d) \in Number
  BY ChainEndIs
<1>4. Chain(d) \subseteq UseOperands
  BY ChainFacts
<1>5. FreshOf(d) = [start |-> No(d[1], parent[d]), end |-> ChainEnd(d), reg |-> RegOf(d),
                    defs |-> {d}, uses |-> Chain(d)]
  BY DEF FreshOf, ChainEnd
<1>6. FreshOf(d) \in Interval
  BY <1>1, <1>2, <1>3, <1>4, <1>5 DEF Interval
<1>7. Alone(d) = [start |-> MinOf(Starts(d)), end |-> MaxOf(Ends(d)),
                  reg |-> RegOf(d), defs |-> {d}, uses |-> Chain(d)]
      /\ Alone(d).start \in Number /\ Alone(d).end \in Number
  BY AloneIs
<1>8. Alone(d) \in Interval
  BY <1>1, <1>4, <1>7 DEF Interval
<1> QED BY <1>6, <1>8

LEMMA BuildStep ==
  ASSUME TypeOK, ExactAtEnd, parent \in Parents, IvInv, BuildIntervals
  PROVE  IvInv'
<1>1. stage = "build" /\ stage' = "adjust" /\ UNCHANGED <<vars, parent, duChains, pairs, merged>>
  BY DEF BuildIntervals
<1>2. phase = "done" /\ duChains = [d \in Definitions |-> Chain(d)] /\ pairs = {} /\ merged \in BOOLEAN
  BY <1>1 DEF IvInv, IvTypeOK
<1>3. PICK order \in [1 .. Cardinality(Definitions) -> Definitions] :
        /\ \A d \in Definitions : \E k \in DOMAIN order : order[k] = d
        /\ intervals' = [k \in DOMAIN order |-> Fresh(order[k])]
  BY DEF BuildIntervals
<1>4. DOMAIN order \subseteq Int /\ members' = DOMAIN order
  BY <1>3 DEF BuildIntervals
<1>5. \A d \in Definitions : Fresh(d) = FreshOf(d)
  BY <1>2 DEF Fresh, FreshOf
<1>6. \A k \in DOMAIN order : order[k] \in Definitions
  BY <1>3
<1>7. intervals' = [k \in DOMAIN order |-> FreshOf(order[k])]
  BY <1>3, <1>5, <1>6
<1>8. \A d \in Definitions : FreshOf(d) \in Interval /\ FreshOf(d).defs = {d} /\ FreshOf(d).uses = Chain(d)
  BY <1>2, FreshType DEF FreshOf
<1>9. intervals' \in [DOMAIN order -> Interval] /\ DOMAIN intervals' = DOMAIN order
  BY <1>6, <1>7, <1>8
<1>10. UNCHANGED <<vars, parent>>
  BY <1>1
<1>11. IvTypeOK'
  <2>1. duChains' = [d \in Definitions' |-> Chain(d)']
    BY <1>1, <1>2, <1>10, Frozen
  <2> QED BY <1>1, <1>2, <1>4, <1>9, <1>10, <2>1, Frozen DEF IvTypeOK, Filling
<1>12. JustBuilt'
  BY <1>1, <1>4, <1>6, <1>7, <1>9, <1>10, Frozen DEF JustBuilt
<1>13. ChainsKept'
  <2>1. ASSUME NEW d \in Definitions
        PROVE  \E k \in members' : d \in intervals'[k].defs /\ Chain(d) \subseteq intervals'[k].uses
    <3>1. PICK k \in DOMAIN order : order[k] = d
      BY <1>3
    <3>2. intervals'[k] = FreshOf(d)
      BY <1>7, <3>1
    <3> QED BY <1>4, <1>8, <3>2
  <2> QED BY <1>10, <2>1, Frozen DEF ChainsKept
<1> QED BY <1>1, <1>11, <1>12, <1>13 DEF IvInv, IntervalsRight, RoundOk, Apart, Merging

LEMMA RightStays ==
  ASSUME UNCHANGED <<vars, parent>>, NEW w, RightInterval(w), NEW k, intervals'[k] = w
  PROVE  RightInterval(intervals[k])'
BY Frozen DEF RightInterval

LEMMA AdjustStep ==
  ASSUME TypeOK, ExactAtEnd, parent \in Parents, IvInv, AdjustIntervals
  PROVE  IvInv'
<1>1. stage = "adjust" /\ stage' = "merge" /\ UNCHANGED <<vars, parent, duChains, members, pairs, merged>>
  BY DEF AdjustIntervals
<1>2. IvTypeOK /\ phase = "done" /\ pairs = {}
  BY <1>1 DEF IvInv, IvTypeOK
<1>3. intervals' = [k \in DOMAIN intervals |-> Stretched(intervals[k])]
  BY DEF AdjustIntervals
<1>4. ASSUME NEW k \in DOMAIN intervals
      PROVE  \E d \in Definitions : intervals[k] = FreshOf(d) /\ intervals'[k] = Alone(d)
  <2>1. PICK d \in Definitions : intervals[k] = FreshOf(d)
    BY <1>1 DEF IvInv, JustBuilt
  <2> QED BY <1>3, <2>1 DEF Alone
<1>5. \A d \in Definitions : Alone(d) \in Interval /\ FreshOf(d).uses = Chain(d) /\ FreshOf(d).defs = {d}
  BY <1>2, FreshType DEF FreshOf
<1>6. \A d \in Definitions : /\ Alone(d).uses = Chain(d) /\ Alone(d).defs = {d}
                             /\ Alone(d).reg = RegOf(d)
  BY <1>2, AloneIs
<1>7. UNCHANGED <<vars, parent>> /\ DOMAIN intervals' = DOMAIN intervals
  BY <1>1, <1>3
<1>8. intervals' \in [DOMAIN intervals -> Interval]
  BY <1>3, <1>4, <1>5
<1>9. IvTypeOK'
  <2>1. duChains' = [d \in Definitions' |-> Chain(d)']
    BY <1>1, <1>2, <1>7, Frozen DEF IvTypeOK
  <2> QED BY <1>1, <1>2, <1>7, <1>8, <2>1, Frozen DEF IvTypeOK, Filling
<1>10. ASSUME NEW k \in DOMAIN intervals PROVE RightInterval(intervals[k])'
  <2>1. PICK d \in Definitions : intervals'[k] = Alone(d)
    BY <1>4
  <2>2. RightInterval(Alone(d))
    <3>1. Alone(d).start \in Number /\ Alone(d).end \in Number /\ \A n \in Number : n <= n
      BY <1>2, AloneIs, NumberIs
    <3>2. \A o \in Chain(d) : o[3] = RegOf(d)
      BY <1>2, ChainFacts
    <3> QED BY <1>6, <3>1, <3>2 DEF RightInterval
  <2> QED BY <1>7, <2>1, <2>2, RightStays
<1>11. IntervalsRight'
  BY <1>7, <1>10 DEF IntervalsRight
<1>12. ChainsKept'
  <2>1. ASSUME NEW d \in Definitions
        PROVE  \E k \in members' : d \in intervals'[k].defs /\ Chain(d) \subseteq intervals'[k].uses
    <3>1. PICK k \in members : d \in intervals[k].defs /\ Chain(d) \subseteq intervals[k].uses
      BY <1>1 DEF IvInv, ChainsKept, Filling
    <3>2. k \in DOMAIN intervals
      BY <1>1, <1>2 DEF IvTypeOK, Filling
    <3>3. PICK e \in Definitions : intervals[k] = FreshOf(e) /\ intervals'[k] = Alone(e)
      BY <1>4, <3>2
    <3>4. intervals'[k].defs = intervals[k].defs /\ intervals'[k].uses = intervals[k].uses
      BY <1>5, <1>6, <3>3
    <3> QED BY <1>1, <3>1, <3>4
  <2> QED BY <1>7, <2>1, Frozen DEF ChainsKept
<1> QED BY <1>1, <1>9, <1>11, <1>12 DEF IvInv, JustBuilt, RoundOk, Apart

LEMMA StartRoundStep ==
  ASSUME IvInv, StartRound
  PROVE  IvInv'
<1>1. /\ stage = "merge" /\ stage' = "round" /\ merged' = FALSE
      /\ UNCHANGED <<vars, parent>> /\ duChains' = duChains /\ intervals' = intervals /\ members' = members
  BY DEF StartRound
<1>2. pairs' = {p \in members \X members : p[1] < p[2]}
  BY DEF StartRound
<1>3. IvTypeOK /\ members \subseteq DOMAIN intervals
  BY <1>1 DEF IvInv, IvTypeOK, Filling
<1>4. IvTypeOK'
  <2>1. duChains' = [d \in Definitions' |-> Chain(d)']
    BY <1>1, <1>3, Frozen DEF IvTypeOK
  <2> QED BY <1>1, <1>2, <1>3, <2>1, Frozen DEF IvTypeOK, Filling
<1>5. IntervalsRight'
  <2>1. \A k \in DOMAIN intervals : RightInterval(intervals[k])
    BY <1>1 DEF IvInv, IntervalsRight, Merging
  <2>2. \A k \in DOMAIN intervals : RightInterval(intervals[k])'
    BY <1>1, <2>1, RightStays
  <2> QED BY <1>1, <2>2 DEF IntervalsRight
<1>6. ChainsKept'
  BY <1>1, Frozen DEF IvInv, ChainsKept, Filling
<1>7. \A i, j : <<i, j>> \in pairs' <=> i \in members /\ j \in members /\ i < j
  BY <1>2
<1>8. RoundOk'
  <2>1. Triangle'
    <3> SUFFICES ASSUME NEW r \in DOMAIN intervals, NEW q \in DOMAIN intervals,
                        NEW j \in DOMAIN intervals, q < j, <<r, q>> \in pairs'
                 PROVE  <<r, j>> \in pairs' <=> <<q, j>> \in pairs'
      BY <1>1 DEF Triangle
    <3>1. r \in Int /\ q \in Int /\ j \in Int
      BY <1>1, <1>3 DEF IvTypeOK, Filling
    <3> QED BY <1>7, <3>1
  <2>2. ErasedClosed'
    BY <1>1, <1>7 DEF ErasedClosed
  <2>3. ApartSoFar'
    BY <1>1, <1>7 DEF ApartSoFar
  <2> QED BY <2>1, <2>2, <2>3 DEF RoundOk
<1> QED BY <1>1, <1>4, <1>5, <1>6, <1>8 DEF IvInv, JustBuilt, Apart

LEMMA EndRoundStep ==
  ASSUME IvInv, EndMergeRound
  PROVE  IvInv'
<1>1. /\ stage = "round" /\ pairs = {} /\ stage' = IF merged THEN "merge" ELSE "ready"
      /\ UNCHANGED <<vars, parent>> /\ UNCHANGED <<duChains, intervals, members, pairs, merged>>
  BY DEF EndMergeRound
<1>2. stage' \in {"merge", "ready"} /\ (stage' = "ready" => ~merged)
  BY <1>1 DEF IvInv, IvTypeOK
<1>3. IvTypeOK'
  <2>1. duChains' = [d \in Definitions' |-> Chain(d)']
    BY <1>1, Frozen DEF IvInv, IvTypeOK
  <2> QED BY <1>1, <1>2, <2>1, Frozen DEF IvInv, IvTypeOK, Filling
<1>4. IntervalsRight'
  <2>1. \A k \in DOMAIN intervals : RightInterval(intervals[k])
    BY <1>1 DEF IvInv, IntervalsRight, Merging
  <2>2. \A k \in DOMAIN intervals : RightInterval(intervals[k])'
    BY <1>1, <2>1, RightStays
  <2> QED BY <1>1, <2>2 DEF IntervalsRight
<1>5. ChainsKept'
  BY <1>1, Frozen DEF IvInv, ChainsKept, Filling
<1>6. Apart'
  BY <1>1, <1>2 DEF IvInv, RoundOk, ApartSoFar, Apart
<1> QED BY <1>1, <1>2, <1>3, <1>4, <1>5, <1>6 DEF IvInv, JustBuilt, RoundOk

-----------------------------------------------------------------------------
\* A pair that does not merge.
LEMMA FirstPair ==
  ASSUME IvTypeOK, stage = "round", NEW i, NEW j, IsFirst(<<i, j>>)
  PROVE  /\ i \in DOMAIN intervals /\ j \in DOMAIN intervals /\ i < j
         /\ <<i, j>> \in pairs
         /\ DOMAIN intervals \subseteq Int
         /\ \A a, b : <<a, b>> \in pairs =>
              /\ a \in DOMAIN intervals /\ b \in DOMAIN intervals /\ a < b
              /\ i < a \/ (i = a /\ j <= b)
<1>1. <<i, j>> \in pairs /\ DOMAIN intervals \subseteq Int
  BY DEF IsFirst, IvTypeOK, Filling
<1>2. \A a, b : <<a, b>> \in pairs =>
        a \in DOMAIN intervals /\ b \in DOMAIN intervals /\ a < b
  BY DEF IvTypeOK
<1>3. \A a, b : <<a, b>> \in pairs => i < a \/ (i = a /\ j <= b)
  BY DEF IsFirst
<1> QED BY <1>1, <1>2, <1>3

LEMMA TriangleStays ==
  ASSUME IvTypeOK, stage = "round", Triangle, NEW i, NEW j, IsFirst(<<i, j>>),
         pairs' = pairs \ {<<i, j>>}, DOMAIN intervals' = DOMAIN intervals
  PROVE  Triangle'
<1> SUFFICES ASSUME NEW r \in DOMAIN intervals, NEW q \in DOMAIN intervals,
                    NEW k \in DOMAIN intervals, q < k, <<r, q>> \in pairs'
             PROVE  <<r, k>> \in pairs' <=> <<q, k>> \in pairs'
  BY DEF Triangle
<1>1. <<r, k>> \in pairs <=> <<q, k>> \in pairs
  BY DEF Triangle
<1>2. r \in Int /\ q \in Int /\ k \in Int /\ i \in Int /\ j \in Int
  BY FirstPair
<1>3. <<r, q>> \in pairs /\ r < q /\ (i < r \/ (i = r /\ j <= q))
  BY FirstPair
<1>4. <<r, k>> # <<i, j>>
  BY <1>2, <1>3
<1>5. <<q, k>> # <<i, j>>
  BY <1>2, <1>3
<1> QED BY <1>1, <1>4, <1>5

LEMMA PassPairStep ==
  ASSUME IvInv, NEW i, NEW j, MergePair(i, j), ~Mergeable(intervals[i], intervals[j])
  PROVE  IvInv'
<1>1. /\ stage = "round" /\ stage' = "round" /\ IsFirst(<<i, j>>)
      /\ UNCHANGED <<vars, parent>> /\ UNCHANGED <<duChains, intervals, members, merged>>
      /\ pairs' = pairs \ {<<i, j>>}
  BY DEF MergePair
<1>2. IvTypeOK /\ Triangle /\ ErasedClosed /\ ApartSoFar
  BY <1>1 DEF IvInv, RoundOk
<1>3. IvTypeOK'
  <2>1. duChains' = [d \in Definitions' |-> Chain(d)']
    BY <1>1, <1>2, Frozen DEF IvTypeOK
  <2> QED BY <1>1, <1>2, <2>1, Frozen DEF IvTypeOK, Filling
<1>4. \A k \in DOMAIN intervals : RightInterval(intervals[k])
  BY <1>1 DEF IvInv, IntervalsRight, Merging
<1>5. IntervalsRight'
  <2>1. \A k \in DOMAIN intervals : RightInterval(intervals[k])'
    BY <1>1, <1>4, RightStays
  <2> QED BY <1>1, <2>1 DEF IntervalsRight
<1>6. ChainsKept'
  BY <1>1, Frozen DEF IvInv, ChainsKept, Filling
<1>7. intervals[i].uses \cap intervals[j].uses = {}
  <2>1. i \in DOMAIN intervals /\ j \in DOMAIN intervals
    BY <1>1, <1>2, FirstPair
  <2>2. intervals[i].reg = intervals[j].reg \/ intervals[i].uses \cap intervals[j].uses = {}
    BY <1>4, <2>1 DEF RightInterval
  <2> QED BY <2>2 DEF Mergeable
<1>8. Triangle'
  BY <1>1, <1>2, TriangleStays
<1>9. ErasedClosed'
  <2> SUFFICES ASSUME NEW a \in DOMAIN intervals, NEW b \in DOMAIN intervals,
                      <<a, b>> \in pairs', a \notin members,
                      intervals[a].uses \cap intervals[b].uses # {}, b \in members
               PROVE  \E h \in DOMAIN intervals :
                        /\ h < a /\ <<h, b>> \in pairs' /\ Current(h)'
                        /\ intervals[a].uses \subseteq intervals[h].uses
    BY <1>1 DEF ErasedClosed
  <2>1. PICK h \in DOMAIN intervals :
          /\ h < a /\ <<h, b>> \in pairs /\ Current(h)
          /\ intervals[a].uses \subseteq intervals[h].uses
    BY <1>1, <1>2 DEF ErasedClosed
  <2>2. <<h, b>> # <<i, j>>
    BY <1>7, <2>1
  <2>3. Current(h)'
    BY <1>1, <2>1 DEF Current
  <2> QED BY <1>1, <2>1, <2>2, <2>3
<1>10. ApartSoFar'
  BY <1>1, <1>2, <1>7 DEF ApartSoFar
<1> QED BY <1>1, <1>3, <1>5, <1>6, <1>8, <1>9, <1>10 DEF IvInv, JustBuilt, RoundOk, Apart

-----------------------------------------------------------------------------
\* A pair that merges.
LEMMA AbsorbIs ==
  ASSUME TypeOK, NEW u \in Interval, NEW w \in Interval
  PROVE  /\ Absorb(u, w) \in Interval
         /\ Absorb(u, w).reg = u.reg
         /\ Absorb(u, w).defs = u.defs \cup w.defs
         /\ Absorb(u, w).uses = u.uses \cup w.uses
         /\ Absorb(u, w).start <= u.start /\ Absorb(u, w).start <= w.start
         /\ u.end <= Absorb(u, w).end /\ w.end <= Absorb(u, w).end
<1> DEFINE ends == {u.start, u.end, w.start, w.end}
<1>1. LastNumber \in Nat /\ Number = -1 .. LastNumber
  BY NumberIs
<1>2. ends \subseteq -1 .. LastNumber /\ u.start \in ends
  BY <1>1 DEF Interval
<1>3. /\ MaxOf(ends) \in ends /\ \A y \in ends : y <= MaxOf(ends)
      /\ MinOf(ends) \in ends /\ \A y \in ends : MinOf(ends) <= y
  <2> HIDE DEF ends
  <2> QED BY <1>1, <1>2, Extremes
<1>4. MaxOf(ends) \in Number /\ MinOf(ends) \in Number
  <2> HIDE DEF ends
  <2> QED BY <1>1, <1>2, <1>3
<1>5. Absorb(u, w) = [u EXCEPT !.start = MinOf(ends), !.end = MaxOf(ends),
                               !.defs = @ \cup w.defs, !.uses = @ \cup w.uses]
  BY DEF Absorb
<1>6. Absorb(u, w) = [start |-> MinOf(ends), end |-> MaxOf(ends), reg |-> u.reg,
                      defs |-> u.defs \cup w.defs, uses |-> u.uses \cup w.uses]
  <2> HIDE DEF ends
  <2> QED BY <1>5 DEF Interval
<1>7. u.defs \cup w.defs \subseteq Definitions /\ u.uses \cup w.uses \subseteq UseOperands /\ u.reg \in VReg
  BY DEF Interval
<1>8. Absorb(u, w) \in Interval
  <2> HIDE DEF ends
  <2> QED BY <1>4, <1>6, <1>7 DEF Interval
<1> QED BY <1>3, <1>6, <1>8

LEMMA RightAbsorb ==
  ASSUME TypeOK, ExactAtEnd, parent \in Parents, phase = "done", NEW u \in Interval, NEW w \in Interval,
         RightInterval(u), RightInterval(w), Mergeable(u, w)
  PROVE  RightInterval(Absorb(u, w))
<1> DEFINE m == Absorb(u, w)
<1>1. /\ m \in Interval /\ m.reg = u.reg
      /\ m.defs = u.defs \cup w.defs /\ m.uses = u.uses \cup w.uses
      /\ m.start <= u.start /\ m.start <= w.start /\ u.end <= m.end /\ w.end <= m.end
  BY AbsorbIs
<1>2. u.reg = w.reg /\ u.uses # {} /\ w.uses # {}
  BY DEF Mergeable
<1>3. \A x \in Interval : x.start \in Number /\ x.end \in Number /\ x.defs \subseteq Definitions
  BY DEF Interval
<1>4. Number = -1 .. LastNumber /\ LastNumber \in Nat
  BY NumberIs
<1>5. ASSUME NEW d \in m.defs
      PROVE  /\ RegOf(d) = m.reg /\ Chain(d) # {}
             /\ m.start <= Alone(d).start /\ Alone(d).end <= m.end
  <2>1. d \in Definitions
    BY <1>1, <1>3
  <2>2. Alone(d).start \in Number /\ Alone(d).end \in Number
    BY <2>1, AloneIs
  <2>3. \/ RegOf(d) = u.reg /\ Chain(d) # {} /\ u.start <= Alone(d).start /\ Alone(d).end <= u.end
        \/ RegOf(d) = w.reg /\ Chain(d) # {} /\ w.start <= Alone(d).start /\ Alone(d).end <= w.end
    BY <1>1, <1>2, <1>5 DEF RightInterval
  <2>4. /\ m.start \in Number /\ m.end \in Number /\ u.start \in Number /\ u.end \in Number
        /\ w.start \in Number /\ w.end \in Number
    BY <1>1, <1>3
  <2> HIDE DEF m
  <2> QED BY <1>1, <1>2, <1>4, <2>2, <2>3, <2>4
<1>6. \A o \in m.uses : o[3] = m.reg
  BY <1>1, <1>2 DEF RightInterval
<1> HIDE DEF m
<1>7. RightInterval(m)
  BY <1>5, <1>6 DEF RightInterval
<1> QED BY <1>7 DEF m

LEMMA MergePairStep ==
  ASSUME TypeOK, ExactAtEnd, parent \in Parents, IvInv, NEW i, NEW j, MergePair(i, j),
         Mergeable(intervals[i], intervals[j])
  PROVE  IvInv'
<1>1. /\ stage = "round" /\ stage' = "round" /\ IsFirst(<<i, j>>)
      /\ UNCHANGED <<vars, parent>> /\ duChains' = duChains
      /\ intervals' = [intervals EXCEPT ![i] = Absorb(intervals[i], intervals[j])]
      /\ members' = members \ {j} /\ merged' = TRUE
      /\ pairs' = pairs \ {<<i, j>>}
  BY DEF MergePair
<1>2. IvTypeOK /\ Triangle /\ ErasedClosed /\ phase = "done"
  BY <1>1 DEF IvInv, RoundOk, IvTypeOK
<1>3. /\ i \in DOMAIN intervals /\ j \in DOMAIN intervals /\ i < j
      /\ <<i, j>> \in pairs
      /\ DOMAIN intervals \subseteq Int
      /\ \A a, b : <<a, b>> \in pairs =>
           /\ a \in DOMAIN intervals /\ b \in DOMAIN intervals /\ a < b
           /\ i < a \/ (i = a /\ j <= b)
  BY <1>1, <1>2, FirstPair
<1>4. intervals \in [DOMAIN intervals -> Interval] /\ members \subseteq DOMAIN intervals
  BY <1>1, <1>2 DEF IvTypeOK, Filling
<1> DEFINE m == Absorb(intervals[i], intervals[j])
<1>5. /\ m \in Interval /\ m.defs = intervals[i].defs \cup intervals[j].defs
      /\ m.uses = intervals[i].uses \cup intervals[j].uses
  BY <1>3, <1>4, AbsorbIs
<1>6. \A k \in DOMAIN intervals : intervals'[k] = IF k = i THEN m ELSE intervals[k]
  BY <1>1
<1>7. DOMAIN intervals' = DOMAIN intervals /\ intervals' \in [DOMAIN intervals -> Interval]
  <2> HIDE DEF m
  <2>1. intervals' = [intervals EXCEPT ![i] = m]
    BY <1>1 DEF m
  <2> QED BY <1>4, <1>5, <2>1
<1> HIDE DEF m
<1>8. IvTypeOK'
  <2>1. duChains' = [d \in Definitions' |-> Chain(d)']
    BY <1>1, <1>2, Frozen DEF IvTypeOK
  <2>2. members' \subseteq DOMAIN intervals /\ pairs' \subseteq pairs
    BY <1>1, <1>4
  <2> QED BY <1>1, <1>2, <1>3, <1>7, <2>1, <2>2, Frozen DEF IvTypeOK, Filling
<1>9. \A k \in DOMAIN intervals : RightInterval(intervals[k])
  BY <1>1 DEF IvInv, IntervalsRight, Merging
<1>10. IntervalsRight'
  <2>1. RightInterval(m)
    BY <1>2, <1>3, <1>4, <1>9, RightAbsorb DEF m
  <2>2. \A k \in DOMAIN intervals : RightInterval(intervals[k])'
    BY <1>1, <1>6, <1>9, <2>1, RightStays
  <2> QED BY <1>7, <2>2 DEF IntervalsRight
\* Only the row of i is under way.
<1>11. ASSUME NEW h, NEW b, <<h, b>> \in pairs, Current(h) PROVE h = i
  <2>1. h <= i
    BY <1>3, <1>11 DEF Current
  <2> QED BY <1>3, <1>11, <2>1
\* An erased i meets erased intervals only.
<1>12. ASSUME i \notin members, NEW b, <<i, b>> \in pairs,
              intervals[i].uses \cap intervals[b].uses # {}
       PROVE  b \notin members
  <2>1. ASSUME NEW h \in DOMAIN intervals, h < i, <<h, b>> \in pairs, Current(h) PROVE FALSE
    BY <1>3, <1>11, <2>1
  <2> QED BY <1>2, <1>3, <1>12, <2>1 DEF ErasedClosed
<1>13. j \in members => i \in members
  BY <1>3, <1>12 DEF Mergeable
<1>14. ChainsKept'
  <2>1. ASSUME NEW d \in Definitions
        PROVE  \E k \in members' : d \in intervals'[k].defs /\ Chain(d) \subseteq intervals'[k].uses
    <3>1. PICK k \in members : d \in intervals[k].defs /\ Chain(d) \subseteq intervals[k].uses
      BY <1>1 DEF IvInv, ChainsKept, Filling
    <3>2. CASE k = j
      <4>1. i \in members' /\ intervals'[i] = m
        BY <1>1, <1>3, <1>6, <1>13, <3>2
      <4> QED BY <1>5, <3>1, <3>2, <4>1
    <3>3. CASE k # j
      <4>1. k \in members' /\ k \in DOMAIN intervals
        BY <1>1, <1>4, <3>3
      <4> QED BY <1>5, <1>6, <3>1, <4>1
    <3> QED BY <3>2, <3>3
  <2> QED BY <1>1, <2>1, Frozen DEF ChainsKept
<1>15. Triangle'
  BY <1>1, <1>2, <1>7, TriangleStays
<1>16. ErasedClosed'
  <2> SUFFICES ASSUME NEW a \in DOMAIN intervals, NEW b \in DOMAIN intervals,
                      <<a, b>> \in pairs', a \notin members',
                      intervals'[a].uses \cap intervals'[b].uses # {}, b \in members'
               PROVE  \E h \in DOMAIN intervals :
                        /\ h < a /\ <<h, b>> \in pairs' /\ Current(h)'
                        /\ intervals'[a].uses \subseteq intervals'[h].uses
    BY <1>7 DEF ErasedClosed
  <2>1. <<a, b>> \in pairs /\ a < b /\ (i < a \/ (i = a /\ j <= b)) /\ b # j /\ b \in members
    BY <1>1, <1>3
  <2>2. b # i /\ intervals'[b] = intervals[b]
    BY <1>3, <1>6, <2>1
  <2>3. Current(i)'
    <3>1. \A p \in pairs : i <= p[1]
      <4> TAKE p \in pairs
      <4>1. p = <<p[1], p[2]>> /\ p[1] \in Int /\ i \in Int
        BY <1>2, <1>3 DEF IvTypeOK
      <4> QED BY <1>3, <4>1
    <3> QED BY <1>1, <3>1 DEF Current
  <2>4. CASE a = i
    <3>1. i \notin members
      BY <1>1, <1>3, <2>4
    <3>2. intervals[i].uses \cap intervals[b].uses = {}
      BY <1>12, <2>1, <2>4, <3>1
    <3>3. intervals[j].uses \cap intervals[b].uses # {}
      BY <1>5, <1>6, <2>2, <2>4, <3>2
    <3>4. j < b
      BY <1>3, <2>1, <2>4
    <3>5. <<j, b>> \in pairs
      BY <1>2, <1>3, <2>1, <2>4, <3>4 DEF Triangle
    <3>6. j \notin members
      BY <1>13, <3>1
    <3>7. PICK h \in DOMAIN intervals :
            <<h, b>> \in pairs /\ Current(h) /\ intervals[j].uses \subseteq intervals[h].uses
      BY <1>2, <1>3, <2>1, <3>3, <3>5, <3>6 DEF ErasedClosed
    <3>8. h = i
      BY <1>11, <3>7
    <3> QED BY <3>2, <3>3, <3>7, <3>8
  <2>5. CASE a = j
    <3>1. <<i, b>> \in pairs
      BY <1>2, <1>3, <2>1, <2>5 DEF Triangle
    <3>2. <<i, b>> \in pairs'
      BY <1>1, <2>1, <3>1
    <3>3. intervals'[a].uses \subseteq intervals'[i].uses
      BY <1>3, <1>5, <1>6, <2>5
    <3> QED BY <1>3, <2>3, <2>5, <3>2, <3>3
  <2>6. CASE a # i /\ a # j
    <3>1. a \notin members /\ intervals'[a] = intervals[a]
      BY <1>1, <1>6, <2>6
    <3>2. PICK h \in DOMAIN intervals :
            /\ h < a /\ <<h, b>> \in pairs /\ Current(h)
            /\ intervals[a].uses \subseteq intervals[h].uses
      BY <1>2, <2>1, <2>2, <3>1 DEF ErasedClosed
    <3>3. h = i
      BY <1>11, <3>2
    <3>4. <<i, b>> \in pairs' /\ i < a
      BY <1>1, <2>1, <3>2, <3>3
    <3>5. intervals'[a].uses \subseteq intervals'[i].uses
      BY <1>3, <1>5, <1>6, <3>1, <3>2, <3>3
    <3> QED BY <1>3, <2>3, <3>4, <3>5
  <2> QED BY <2>4, <2>5, <2>6
<1>17. ApartSoFar'
  BY <1>1 DEF ApartSoFar
<1> QED BY <1>1, <1>8, <1>10, <1>14, <1>15, <1>16, <1>17 DEF IvInv, JustBuilt, RoundOk, Apart

-----------------------------------------------------------------------------
LEMMA IvIsAnalysis == IvSpec => Spec
<1>1. IvInit => Init
  BY DEF IvInit
<1>2. [IvNext]_allVars => [Next]_vars
  BY DEF IvNext, allVars, MakeDuChains, BuildIntervals, AdjustIntervals, StartRound, MergePair,
         EndMergeRound
<1> QED BY <1>1, <1>2, PTL DEF IvSpec, Spec

LEMMA IvStutter ==
  ASSUME IvInv, UNCHANGED allVars
  PROVE  IvInv'
<1>1. UNCHANGED <<vars, parent>> /\ UNCHANGED <<duChains, intervals, members, pairs, merged, stage>>
  BY DEF allVars, ivVars
<1>2. IvTypeOK'
  <2>1. stage # "chains" => duChains' = [d \in Definitions' |-> Chain(d)']
    BY <1>1, Frozen DEF IvInv, IvTypeOK
  <2> QED BY <1>1, <2>1, Frozen DEF IvInv, IvTypeOK
<1>3. JustBuilt'
  BY <1>1, Frozen DEF IvInv, JustBuilt
<1>4. IntervalsRight'
  <2> SUFFICES ASSUME stage \in Merging PROVE \A k \in DOMAIN intervals : RightInterval(intervals[k])'
    BY <1>1 DEF IntervalsRight
  <2>1. \A k \in DOMAIN intervals : RightInterval(intervals[k])
    BY DEF IvInv, IntervalsRight
  <2> QED BY <1>1, <2>1, RightStays
<1>5. ChainsKept'
  BY <1>1, Frozen DEF IvInv, ChainsKept
<1>6. RoundOk'
  <2>1. Triangle' <=> Triangle
    BY <1>1 DEF Triangle
  <2>2. \A h : Current(h)' <=> Current(h)
    BY <1>1 DEF Current
  <2>3. ErasedClosed' <=> ErasedClosed
    BY <1>1, <2>2 DEF ErasedClosed
  <2>4. ApartSoFar' <=> ApartSoFar
    BY <1>1 DEF ApartSoFar
  <2> QED BY <1>1, <2>1, <2>3, <2>4 DEF IvInv, RoundOk
<1>7. Apart'
  BY <1>1 DEF IvInv, Apart
<1> QED BY <1>7, <1>2, <1>3, <1>4, <1>5, <1>6 DEF IvInv

\* The parents stay as code generation left them.
LEMMA ParentsStay == IvSpec => [](parent \in Parents)
<1>1. IvInit => parent \in Parents
  BY DEF IvInit
<1>2. parent \in Parents /\ [IvNext]_allVars => (parent \in Parents)'
  <2> SUFFICES ASSUME parent \in Parents, [IvNext]_allVars PROVE parent' \in Parents'
    OBVIOUS
  <2>1. parent' = parent /\ code' = code
    BY DEF IvNext, Next, ComputeUsePos, ComputeDefUse, BeginIterate, VisitBlock, EndRound,
           MakeDuChains, BuildIntervals, AdjustIntervals, StartRound, MergePair, EndMergeRound,
           allVars, vars, ivVars, program
  <2>2. UseOperands' = UseOperands /\ \A b : Insts(b)' = Insts(b)
    BY <2>1 DEF UseOperands, Insts
  <2>3. DefPlaces' = DefPlaces /\ \A d : RegOf(d)' = RegOf(d)
    <3>1. DefPlaces' = DefPlaces
      BY <2>1, <2>2 DEF DefPlaces
    <3>2. \A d : RegOf(d)' = RegOf(d)
      BY <2>1 DEF RegOf
    <3> QED BY <3>1, <3>2
  <2>4. \A d, j : (PassedOn(d, j)' <=> PassedOn(d, j)) /\ (DefinedAgain(d, j)' <=> DefinedAgain(d, j))
    <3>1. \A d, j : PassedOn(d, j)' <=> PassedOn(d, j)
      BY <2>1, <2>2, <2>3, ZenonT(40) DEF PassedOn
    <3>2. \A d, j : DefinedAgain(d, j)' <=> DefinedAgain(d, j)
      BY <2>1, <2>2, <2>3 DEF DefinedAgain
    <3> QED BY <3>1, <3>2
  <2>5. Parents' = Parents
    BY <2>3, <2>4 DEF Parents
  <2> QED BY <2>1, <2>5
<1> QED BY <1>1, <1>2, PTL DEF IvSpec

LEMMA IvInvariant == IvSpec => [](TypeOK /\ ExactAtEnd /\ parent \in Parents /\ IvInv)
<1>1. TypeOK /\ ExactAtEnd /\ parent \in Parents /\ IvInv /\ [IvNext]_allVars => IvInv'
  <2> SUFFICES ASSUME TypeOK, ExactAtEnd, parent \in Parents, IvInv, [IvNext]_allVars PROVE IvInv'
    OBVIOUS
  <2>1. CASE Next /\ UNCHANGED ivVars
    BY <2>1, AnalysisStep
  <2>2. CASE MakeDuChains
    BY <2>2, ChainsStep
  <2>3. CASE BuildIntervals
    BY <2>3, BuildStep
  <2>4. CASE AdjustIntervals
    BY <2>4, AdjustStep
  <2>5. CASE StartRound
    BY <2>5, StartRoundStep
  <2>6. ASSUME NEW i \in DOMAIN intervals, NEW j \in DOMAIN intervals, MergePair(i, j)
        PROVE  IvInv'
    BY <2>6, PassPairStep, MergePairStep
  <2>7. CASE EndMergeRound
    BY <2>7, EndRoundStep
  <2>8. CASE UNCHANGED allVars
    BY <2>8, IvStutter
  <2> QED BY <2>1, <2>2, <2>3, <2>4, <2>5, <2>6, <2>7, <2>8 DEF IvNext
<1>2. Spec => []TypeOK
  BY TypeCorrect
<1>3. Spec => []ExactAtEnd
  BY EndsExact
<1> QED BY <1>1, <1>2, <1>3, ParentsStay, IvInitInv, IvIsAnalysis, PTL DEF IvSpec

\* A finished interval covers every instruction where one of its definitions
\* reaches and one of its uses is still to come, on every path of every
\* control-flow graph; what was handed on to a later instruction it covers
\* from that one.
THEOREM IntervalsCover == IvSpec => []CoversLiveRange
<1>1. TypeOK /\ ExactAtEnd /\ parent \in Parents /\ IvInv => CoversLiveRange
  <2> SUFFICES ASSUME TypeOK, ExactAtEnd, parent \in Parents, IvInv, stage = "ready", NEW k \in members,
                      NEW d \in intervals[k].defs, NEW o \in intervals[k].uses
               PROVE  /\ intervals[k].start <= No(d[1], parent[d]) /\ No(d[1], parent[d]) <= intervals[k].end
                      /\ \A b \in Block : \A i \in Insts(b) :
                           ReachesAt(d, b, i) /\ LiveAtInst(o, b, i) /\ ~HandedOn(d, b, i)
                             => intervals[k].start <= No(b, i) /\ No(b, i) <= intervals[k].end
    BY DEF CoversLiveRange
  <2> DEFINE w == intervals[k]
  <2>1. phase = "done" /\ k \in DOMAIN intervals /\ w \in Interval
    BY DEF IvInv, IvTypeOK, Filling
  <2>2. RightInterval(w)
    BY <2>1 DEF IvInv, IntervalsRight, Merging
  <2>3. d \in Definitions /\ o \in UseOperands /\ w.start \in Number /\ w.end \in Number
    BY <2>1 DEF Interval
  <2>4. o[3] = RegOf(d) /\ Chain(d) # {} /\ w.start <= Alone(d).start /\ Alone(d).end <= w.end
    BY <2>2 DEF RightInterval
  <2>5. Alone(d).start \in Number /\ Alone(d).end \in Number
    BY <2>1, <2>3, AloneIs
  <2>6. Number = -1 .. LastNumber /\ LastNumber \in Nat
    BY NumberIs
  <2>7. \A n \in Number : Alone(d).start <= n /\ n <= Alone(d).end => w.start <= n /\ n <= w.end
    <3> HIDE DEF w
    <3> QED BY <2>3, <2>4, <2>5, <2>6
  <2>8. d[1] \in Block /\ parent[d] \in Insts(d[1])
    BY <2>3, DefinitionFacts, ParentFacts
  <2>9. \A b \in Block : \A i \in Insts(b) : No(b, i) \in Number
    BY NumbersInBlock
  <2>10. PICK u : u \in Chain(d)
    BY <2>4
  <2>11. Alone(d).start <= No(d[1], parent[d]) /\ No(d[1], parent[d]) <= Alone(d).end
    BY <2>1, <2>3, <2>10, AloneCovers
  <2>12. ASSUME NEW b \in Block, NEW i \in Insts(b), ReachesAt(d, b, i), LiveAtInst(o, b, i),
                ~HandedOn(d, b, i)
         PROVE  Alone(d).start <= No(b, i) /\ No(b, i) <= Alone(d).end
    <3>1. o \in Chain(d)
      BY <2>1, <2>3, <2>4, <2>12, ChainHas
    <3> QED BY <2>1, <2>3, <2>12, <3>1, AloneCovers
  <2> QED BY <2>7, <2>8, <2>9, <2>11, <2>12
<1> QED BY <1>1, IvInvariant, PTL

\* A use belongs to one finished interval only, and to the interval of every
\* definition that reaches it, so that the register modifyCode writes into it
\* is the one its definitions got.
THEOREM UsesGoTogether == IvSpec => []UsesPartitioned
<1>1. TypeOK /\ ExactAtEnd /\ IvInv => UsesPartitioned
  <2> SUFFICES ASSUME TypeOK, ExactAtEnd, IvInv, stage = "ready" PROVE UsesPartitioned
    BY DEF UsesPartitioned
  <2>1. phase = "done" /\ members \subseteq Int
    BY DEF IvInv, IvTypeOK, Filling
  <2>2. ASSUME NEW k \in members, NEW l \in members, k # l
        PROVE  intervals[k].uses \cap intervals[l].uses = {}
    <3>1. k < l \/ l < k
      BY <2>1, <2>2
    <3> QED BY <3>1 DEF IvInv, Apart
  <2>3. ASSUME NEW d \in Definitions, NEW o \in UseOperands, o[3] = RegOf(d),
               ReachesAt(d, o[1], o[2])
        PROVE  \E k \in members : d \in intervals[k].defs /\ o \in intervals[k].uses
    <3>1. o[1] \in Block /\ o[2] \in Insts(o[1])
      BY OperandFacts
    <3>2. LiveAtInst(o, o[1], o[2])
      <4>1. Insts(o[1]) = 1 .. Len(code[o[1]]) /\ Len(code[o[1]]) \in Nat
        BY <3>1, InstsOfBlock
      <4> QED BY <3>1, <4>1 DEF LiveAtInst, Clear
    <3>3. o \in Chain(d)
      BY <2>1, <2>3, <3>1, <3>2, ChainHas
    <3>4. PICK k \in members : d \in intervals[k].defs /\ Chain(d) \subseteq intervals[k].uses
      BY DEF IvInv, ChainsKept, Filling
    <3> QED BY <3>3, <3>4
  <2> QED BY <2>2, <2>3 DEF UsesPartitioned
<1> QED BY <1>1, IvInvariant, PTL

=============================================================================

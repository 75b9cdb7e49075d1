--------------------------- MODULE LiveIntervals ----------------------------
(***************************************************************************)
(* LinearScan::computeLiveIntervals (src/src/LinearScan.cpp): def-use      *)
(* chains on top of the live-variable analysis, one interval per           *)
(* definition, stretched over the blocks it is live in, and the merge of   *)
(* intervals that share a use.                                             *)
(*                                                                         *)
(* The sort that ends the function is left to LinearScan, which visits     *)
(* intervals by start.                                                     *)
(***************************************************************************)
EXTENDS LiveVariableAnalysis

VARIABLES
  parent,      \* place of a definition -> the instruction, in its block, that
               \* getParent() gives for the operand defined there; not changed
  duChains,    \* definition <<block, instruction>> -> the uses it reaches
  intervals,   \* what the vector "intervals" holds, by index of its first
               \* filling; entries are only ever erased
  members,     \* the indices still in the vector
  pairs,       \* the pairs of the current merge round still to be compared
  merged,      \* the local "change" of the merge loop
  stage        \* which loop of computeLiveIntervals comes next

ivVars == <<parent, duChains, intervals, members, pairs, merged, stage>>
allVars == <<vars, ivVars>>

Definition == Block \X (1 .. MaxInsts)
DefPlaces == {d \in Definition : d[2] \in Insts(d[1]) /\ code[d[1]][d[2]].defs # {}}
RegOf(d) == CHOOSE v \in code[d[1]][d[2]].defs : TRUE

(***************************************************************************)
(* An operand belongs to the instruction that was constructed with it      *)
(* last.  genMachineCode hands an operand it has defined on in two ways:   *)
(* as the use operand of a later instruction, which ends its life (the     *)
(* quotient and the product of a remainder, the address of a global        *)
(* store); or, of two conditional moves, as what the second defines too.   *)
(***************************************************************************)
PassedOn(d, j) ==
  /\ d[2] < j /\ j \in Insts(d[1]) /\ RegOf(d) \in code[d[1]][j].uses
  /\ \A k \in d[2] + 1 .. j - 1 : RegOf(d) \notin code[d[1]][k].defs \cup code[d[1]][k].uses
  /\ \/ RegOf(d) \in code[d[1]][j].defs
     \/ {o \in UseOperands : o[3] = RegOf(d)} = {<<d[1], j, RegOf(d)>>}
DefinedAgain(d, j) ==
  /\ j = d[2] + 1 /\ j \in Insts(d[1])
  /\ code[d[1]][j].defs = code[d[1]][d[2]].defs /\ code[d[1]][j].uses = {}
Parents ==
  {f \in [DefPlaces -> 1 .. MaxInsts] : \A d \in DefPlaces :
     \/ f[d] = d[2] \/ PassedOn(d, f[d])
     \/ DefinedAgain(d, f[d]) /\ f[<<d[1], f[d]>>] = f[d]}

\* The operands defined, each at the last place where it is.
Definitions == {d \in DefPlaces : parent[d] = d[2] \/ PassedOn(d, parent[d])}

\* Instruction numbers run through the blocks in list order, from 1.
Offset[b \in 1 .. NBlocks + 1] ==
  IF b = 1 THEN 0 ELSE Offset[b - 1] + Len(code[b - 1])
No(b, i) == Offset[b] + i
FirstNo(b) == No(b, 1)
LastNo(b) == Offset[b + 1]

MaxOf(S) == CHOOSE x \in S : \A y \in S : y <= x
MinOf(S) == CHOOSE x \in S : \A y \in S : x <= y

IvInit ==
  /\ Init
  /\ parent \in Parents
  /\ duChains = <<>>
  /\ intervals = <<>>
  /\ members = {}
  /\ pairs = {}
  /\ merged = FALSE
  /\ stage = "chains"

-----------------------------------------------------------------------------
(***************************************************************************)
(* makeDuChains.  Walking a block backwards, liveVar of a register starts  *)
(* as its operands in LiveOut, collects the uses met, and is emptied at    *)
(* each definition (uses minus all uses), so a definition reaches the uses *)
(* up to the next definition, and LiveOut when there is none.              *)
(***************************************************************************)
Chain(d) ==
  LET b == d[1]
      v == RegOf(d)
      later == {k \in Insts(b) : k > d[2] /\ v \in code[b][k].defs}
      reach == IF later = {} THEN Len(code[b]) ELSE MinOf(later)
  IN  {o \in UseOperands :
         o[1] = b /\ o[3] = v /\ d[2] < o[2] /\ o[2] <= reach}
      \cup (IF later = {} THEN {o \in liveOut[b] : o[3] = v} ELSE {})

MakeDuChains ==
  /\ phase = "done" /\ stage = "chains"
  /\ duChains' = [d \in Definitions |-> Chain(d)]
  /\ stage' = "build"
  /\ UNCHANGED <<vars, parent, intervals, members, pairs, merged>>

\* A fresh interval: from the number of the operand's parent to its last use.
Fresh(d) ==
  LET uses == duChains[d]
  IN  [start |-> No(d[1], parent[d]),
       end   |-> MaxOf({-1} \cup {No(o[1], o[2]) : o \in uses}),
       reg   |-> RegOf(d), defs |-> {d}, uses |-> uses]

\* du_chains is ordered by operand addresses: the definitions come in any
\* order.
BuildIntervals ==
  /\ stage = "build"
  /\ \E order \in [1 .. Cardinality(Definitions) -> Definitions] :
       /\ \A d \in Definitions : \E k \in DOMAIN order : order[k] = d
       /\ intervals' = [k \in DOMAIN order |-> Fresh(order[k])]
  /\ members' = 1 .. Cardinality(Definitions)
  /\ stage' = "adjust"
  /\ UNCHANGED <<vars, parent, duChains, pairs, merged>>

-----------------------------------------------------------------------------
(***************************************************************************)
(* The loop over the blocks that stretches an interval: a block where the  *)
(* register is live at both ends is covered whole, one it only leaves is   *)
(* covered to its end, one it only enters from its start to the last use.  *)
(* (The search for a first definition in the second case looks for the     *)
(* interval's first use among the operands defined: the only ones that are *)
(* both are the one use of their interval, and it lives out of no block.)  *)
(***************************************************************************)
LiveInTo(w, b) == w.uses \cap liveIn[b] # {}
LiveOutOf(w, b) == w.uses \cap liveOut[b] # {}

\* Mutant of Stretched: the blocks an interval leaves are not covered.
StretchedToEntries(w) ==
  [w EXCEPT
     !.start = MinOf({@} \cup {FirstNo(b) : b \in {c \in Block : LiveInTo(w, c)}})]

Stretched(w) ==
  [w EXCEPT
     !.start = MinOf({@} \cup {FirstNo(b) : b \in {c \in Block : LiveInTo(w, c)}}),
     !.end = MaxOf({@} \cup {LastNo(b) : b \in {c \in Block : LiveOutOf(w, c)}}
               \cup {No(o[1], o[2]) : o \in
                       {u \in w.uses : LiveInTo(w, u[1]) /\ ~LiveOutOf(w, u[1])}})]

AdjustIntervals ==
  /\ stage = "adjust"
  /\ intervals' = [k \in DOMAIN intervals |-> Stretched(intervals[k])]
  /\ stage' = "merge"
  /\ UNCHANGED <<vars, parent, duChains, members, pairs, merged>>

-----------------------------------------------------------------------------
\* Mutant of Absorb: the uses of w2 are lost.
AbsorbRange(w1, w2) ==
  LET ends == {w1.start, w1.end, w2.start, w2.end}
  IN  [w1 EXCEPT !.start = MinOf(ends), !.end = MaxOf(ends), !.defs = @ \cup w2.defs]

\* w1 takes over the definitions and uses of w2 and covers both.
Absorb(w1, w2) ==
  LET ends == {w1.start, w1.end, w2.start, w2.end}
  IN  [w1 EXCEPT !.start = MinOf(ends), !.end = MaxOf(ends),
                 !.defs = @ \cup w2.defs, !.uses = @ \cup w2.uses]

Mergeable(w1, w2) == w1.reg = w2.reg /\ w1.uses \cap w2.uses # {}

\* Mutant of StartRound: change is not reset.
StartRoundWithoutReset ==
  /\ stage = "merge"
  /\ pairs' = {p \in members \X members : p[1] < p[2]}
  /\ stage' = "round"
  /\ UNCHANGED <<vars, parent, duChains, intervals, members, merged>>

\* A round of the while (change) loop starts with a copy of the vector.
StartRound ==
  /\ stage = "merge"
  /\ pairs' = {p \in members \X members : p[1] < p[2]}
  /\ merged' = FALSE
  /\ stage' = "round"
  /\ UNCHANGED <<vars, parent, duChains, intervals, members>>

IsFirst(p) ==
  p \in pairs /\ \A q \in pairs : p[1] < q[1] \/ (p[1] = q[1] /\ p[2] <= q[2])

(***************************************************************************)
(* The body of the two inner loops.  The copy keeps intervals that were    *)
(* erased since: such a one can still absorb a later interval.             *)
(***************************************************************************)
MergePair(i, j) ==
  /\ stage = "round"
  /\ IsFirst(<<i, j>>)
  /\ IF Mergeable(intervals[i], intervals[j])
     THEN /\ intervals' = [intervals EXCEPT ![i] = Absorb(@, intervals[j])]
          /\ members' = members \ {j}
          /\ merged' = TRUE
     ELSE UNCHANGED <<intervals, members, merged>>
  /\ pairs' = pairs \ {<<i, j>>}
  /\ UNCHANGED <<vars, parent, duChains, stage>>

EndMergeRound ==
  /\ stage = "round" /\ pairs = {}
  /\ stage' = IF merged THEN "merge" ELSE "ready"
  /\ UNCHANGED <<vars, parent, duChains, intervals, members, pairs, merged>>

IvNext ==
  \/ Next /\ UNCHANGED ivVars
  \/ MakeDuChains
  \/ BuildIntervals
  \/ AdjustIntervals
  \/ StartRound
  \/ \E i, j \in DOMAIN intervals : MergePair(i, j)
  \/ EndMergeRound

IvSpec == IvInit /\ [][IvNext]_allVars

-----------------------------------------------------------------------------
(***************************************************************************)
(* Reaching definitions from the paths alone, as LiveAtEntry is for uses:  *)
(* d reaches the entry of b when a path from d to b defines the register   *)
(* nowhere in between.                                                     *)
(***************************************************************************)
\* The blocks that paths of at most n + 1 edges from the end of b enter.
Beyond(b, v) ==
  LET into[n \in 0 .. NBlocks] ==
        IF n = 0 THEN succs[b]
        ELSE into[n - 1] \cup UNION {succs[c] : c \in into[n - 1] \cap Transparent(v)}
  IN  into

ReachesEntry(d, b) ==
  /\ \A k \in Insts(d[1]) : k > d[2] => ~Defines(d[1], k, RegOf(d))
  /\ b \in Beyond(d[1], RegOf(d))[NBlocks]

\* No definition of v in block b from instruction i up to, not including, j.
Clear(b, i, j, v) == \A k \in i .. j - 1 : ~Defines(b, k, v)

\* d reaches the start of instruction i of b; o is live there.
ReachesAt(d, b, i) ==
  \/ d[1] = b /\ d[2] < i /\ Clear(b, d[2] + 1, i, RegOf(d))
  \/ ReachesEntry(d, b) /\ Clear(b, 1, i, RegOf(d))
LiveAtInst(o, b, i) ==
  \/ o[1] = b /\ i <= o[2] /\ Clear(b, i, o[2], o[3])
  \/ /\ Clear(b, i, Len(code[b]) + 1, o[3])
     /\ \E s \in succs[b] : LiveAtEntry(o, s)

(***************************************************************************)
(* A finished interval covers every instruction where one of its           *)
(* definitions reaches and one of its uses is still to come: linear scan   *)
(* may not give the register away in between, over any loop or join.  Only *)
(* a definition whose operand was handed on to a later instruction is      *)
(* covered from there; what lies between the two is left open.             *)
(***************************************************************************)
HandedOn(d, b, i) == b = d[1] /\ d[2] < i /\ i < parent[d]

CoversLiveRange ==
  stage = "ready" => \A k \in members : LET w == intervals[k] IN
    \A d \in w.defs : \A o \in w.uses :
      /\ w.start <= No(d[1], parent[d]) /\ No(d[1], parent[d]) <= w.end
      /\ \A b \in Block : \A i \in Insts(b) :
           ReachesAt(d, b, i) /\ LiveAtInst(o, b, i) /\ ~HandedOn(d, b, i)
             => w.start <= No(b, i) /\ No(b, i) <= w.end

\* modifyCode writes one register into each use: a use belongs to one interval
\* only, and to the interval of every definition that reaches it.
UsesPartitioned ==
  stage = "ready" =>
    /\ \A k, l \in members :
         k # l => intervals[k].uses \cap intervals[l].uses = {}
    /\ \A d \in Definitions : \A o \in UseOperands :
         o[3] = RegOf(d) /\ ReachesAt(d, o[1], o[2]) =>
           \E k \in members : d \in intervals[k].defs /\ o \in intervals[k].uses

\* The merge loop comes to rest.
IntervalsReady == <>(stage = "ready")

=============================================================================

---------------------------- MODULE UnitPasses ------------------------------
(***************************************************************************)
(* What src/src/Unit.cpp does to the code of a function once it is linked: *)
(* samebboptimize, which replaces loads of variables used in one block     *)
(* only, removeUnusedAlloca, and ~Unit with ~Function and ~BasicBlock when *)
(* the program ends.  Containers of pointers without an order of their own *)
(* are walked in any order.                                                *)
(***************************************************************************)
EXTENDS IRObjects

CONSTANT MaxPasses   \* bound: passes before the end

VARIABLES
  plan,     \* what a pass found in a block and has yet to do
  passes,   \* passes done
  before    \* history: what the code did before the passes

vars == <<objects, making, stage, bb, cursor, plan, passes, before>>

Null == 0
NoPlan == [allocas |-> <<>>, vals |-> <<>>, replace |-> {}, stores |-> {}, loads |-> {}]

-----------------------------------------------------------------------------
(***************************************************************************)
(* Reading the code, block after block: what an operand holds.             *)
(***************************************************************************)
Undefined == -1     \* nothing in the code defines it
Unset == -2         \* loaded from a variable that was never stored to

Path == FlattenSeq([b \in Block |-> Contents[b]])

StoresBefore(path, l) ==
  LET at == CHOOSE k \in DOMAIN path : path[k] = l
  IN  Those(path, {k \in 1 .. at - 1 : /\ Kind(path[k]) = "store"
                                      /\ insts[path[k]].operands[1] = insts[l].operands[2]})

Values(path) ==
  LET V[o \in DOMAIN insts] ==
        IF Kind(o) = "store" THEN o
        ELSE IF o \notin ToSet(path) THEN Undefined
        ELSE IF Kind(o) = "call" THEN o
        ELSE IF Kind(o) = "tobool" THEN V[insts[o].fields[1]]
        ELSE IF insts[o].operands[2] \notin ToSet(path) THEN Undefined
        ELSE IF StoresBefore(path, o) = <<>> THEN Unset
        ELSE V[insts[Last(StoresBefore(path, o))].operands[2]]
  IN  V

Observers(path) == {i \in ToSet(path) : Kind(i) \in {"call", "tobool", "ret", "cond"}}
Reads(i) == ToSet(insts[i].operands) \cup ToSet(insts[i].fields)

\* The value stored last to what o was loaded from was itself loaded.
Copied(path, o) ==
  /\ Kind(o) = "load" /\ StoresBefore(path, o) # <<>>
  /\ Kind(insts[Last(StoresBefore(path, o))].operands[2]) = "load"

Meaning ==
  LET path == Path
      V == Values(path)
  IN  [observed |-> [i \in Observers(path) |-> {V[o] : o \in Reads(i)}],
       copied |-> {i \in Observers(path) : \E o \in Reads(i) : Copied(path, o)},
       unset |-> \E o \in ToSet(path) : Kind(o) = "load" /\ V[o] = Unset]

-----------------------------------------------------------------------------
Start ==
  /\ Init
  /\ plan = NoPlan /\ passes = 0 /\ before = <<>>

Generate == (GenCode \/ Link) /\ UNCHANGED <<plan, passes, before>>

BeginPass ==
  /\ stage = "linked" /\ passes < MaxPasses
  /\ before' = IF passes = 0 THEN Meaning ELSE before
  /\ bb' = 1
  /\ UNCHANGED <<objects, making>>

Samebboptimize ==
  /\ BeginPass
  /\ stage' = "samebb"
  /\ UNCHANGED <<cursor, plan, passes>>

\* Phase one: variables all of whose users are in the block.
InOneBlock(b) ==
  LET ring == Ring(b)
  IN  Those(ring, {k \in DOMAIN ring : /\ Kind(ring[k]) = "alloca"
                                       /\ \A i \in ToSet(uses[ring[k]]) : insts[i].parent = b})

Accesses(b, kind) ==
  {i \in ToSet(Ring(b)) : Kind(i) = kind /\
     insts[i].operands[IF kind = "store" THEN 1 ELSE 2] \in ToSet(InOneBlock(b))}

\* Mutant of CurrentVal: the value at the end of the block.
FinalVal(b, l) ==
  LET stores == SelectSeq(Ring(b), LAMBDA s : Kind(s) = "store" /\ insts[s].operands[1] = insts[l].operands[2])
  IN  IF stores = <<>> THEN Null ELSE insts[Last(stores)].operands[2]
\* currentVals when the walk meets a load; the map makes a null where it has none.
CurrentVal(b, l) ==
  LET stores == StoresBefore(Ring(b), l)
  IN  IF stores = <<>> THEN Null ELSE insts[Last(stores)].operands[2]

NextBlock ==
  IF bb = NumBlocks THEN stage' = "linked" /\ passes' = passes + 1 /\ bb' = 1 ELSE
     stage' = stage /\ passes' = passes /\ bb' = bb + 1

\* Phases one and two.
Collect ==
  /\ stage = "samebb" /\ plan = NoPlan
  /\ IF InOneBlock(bb) = <<>>
     THEN NextBlock /\ UNCHANGED plan
     ELSE /\ plan' = [allocas |-> InOneBlock(bb),
                      vals |-> [l \in Accesses(bb, "load") |-> CurrentVal(bb, l)],
                      replace |-> Accesses(bb, "load"),
                      stores |-> Accesses(bb, "store"), loads |-> Accesses(bb, "load")]
          /\ UNCHANGED <<stage, bb, passes>>
  /\ UNCHANGED <<objects, making, cursor, before>>

\* Phase three, for one load: Instruction::replaceUse of all its users.  The old
\* operand keeps its users, fields behind the operands keep the old operand.
Replaced(l, v) ==
  [i \in DOMAIN insts |->
     IF i \in ToSet(uses[l])
     THEN [insts[i] EXCEPT !.operands = [k \in DOMAIN @ |-> IF @[k] = l THEN v ELSE @[k]]]
     ELSE insts[i]]

Users(l) == Those(uses[l], {k \in DOMAIN uses[l] : l \in ToSet(insts[uses[l][k]].operands)})

\* Mutant of UsesAfter: the use of the old operand is removed.
UsesMoved(l, v) == [uses EXCEPT ![v] = @ \o Users(l), ![l] = SelectSeq(@, LAMBDA i : i \notin ToSet(Users(l)))]
UsesAfter(l, v) == [uses EXCEPT ![v] = @ \o Users(l)]

Replace(l) ==
  /\ stage = "samebb" /\ l \in plan.replace
  /\ plan' = [plan EXCEPT !.replace = @ \ {l}]
  /\ IF uses[l] = <<>> THEN UNCHANGED <<objects, stage>>
     ELSE IF plan.vals[l] = Null THEN stage' = "crashed" /\ UNCHANGED objects
     ELSE /\ insts' = Replaced(l, plan.vals[l])
          /\ uses' = UsesAfter(l, plan.vals[l])
          /\ touched' = touched \cup Touches("instruction", ToSet(uses[l]), freed)
                          \cup Touches("operand", {l, plan.vals[l]}, freedOps)
          /\ UNCHANGED <<prev, next, loadUses, freed, freedOps, succ, pred, stage>>
  /\ UNCHANGED <<making, bb, cursor, passes, before>>

\* Phases four and five.
Deleting == stage = "samebb" /\ plan.replace = {}
DeleteStore(s) ==
  /\ Deleting /\ s \in plan.stores
  /\ Delete(s)
  /\ plan' = [plan EXCEPT !.stores = @ \ {s}]
  /\ UNCHANGED <<making, stage, bb, cursor, passes, before>>

DeleteLoad(l) ==
  /\ Deleting /\ plan.stores = {} /\ l \in plan.loads
  /\ Delete(l)
  /\ plan' = [plan EXCEPT !.loads = @ \ {l}]
  /\ UNCHANGED <<making, stage, bb, cursor, passes, before>>

DeleteAlloca ==
  /\ Deleting /\ plan.stores = {} /\ plan.loads = {} /\ plan.allocas # <<>>
  /\ IF uses[Head(plan.allocas)] = <<>> THEN Delete(Head(plan.allocas)) ELSE UNCHANGED objects
  /\ IF Len(plan.allocas) > 1
     THEN plan' = [plan EXCEPT !.allocas = Tail(@)] /\ UNCHANGED <<stage, bb, passes>>
     ELSE plan' = NoPlan /\ NextBlock
  /\ UNCHANGED <<making, cursor, before>>

-----------------------------------------------------------------------------
\* removeUnusedAlloca; its first walk finds the stores of the function.
RemoveUnusedAlloca ==
  /\ BeginPass
  /\ stage' = "unused"
  /\ cursor' = next[Dummy(1)]
  /\ plan' = [NoPlan EXCEPT !.stores = {s \in ToSet(Path) : Kind(s) = "store"}]
  /\ UNCHANGED passes

StoresTo(a) ==
  LET path == Path
  IN  Those(path, {k \in DOMAIN path : path[k] \in plan.stores /\ insts[path[k]].operands[1] = a})

\* The walk goes on from the instruction it has deleted.
Unused ==
  /\ stage = "unused"
  /\ IF cursor = Dummy(bb)
     THEN /\ NextBlock
          /\ cursor' = IF bb = NumBlocks THEN 0 ELSE next[Dummy(bb + 1)]
          /\ plan' = IF bb = NumBlocks THEN NoPlan ELSE plan
          /\ UNCHANGED objects
     ELSE /\ IF Kind(cursor) = "alloca" /\ loadUses[cursor] = 0
             THEN DeleteAnd(cursor, StoresTo(cursor), {cursor})
             ELSE UNCHANGED objects
          /\ cursor' = next'[cursor]
          /\ UNCHANGED <<stage, bb, passes, plan>>
  /\ UNCHANGED <<making, before>>

-----------------------------------------------------------------------------
\* main has returned: ~Unit, ~Function, and ~BasicBlock for block after block.
Destroy ==
  /\ stage = "linked"
  /\ stage' = "ending" /\ bb' = 1
  /\ UNCHANGED <<objects, making, cursor, plan, passes, before>>

DestroyInst ==
  /\ stage = "ending" /\ next[Dummy(bb)] # Dummy(bb)
  /\ Delete(next[Dummy(bb)])
  /\ UNCHANGED <<making, stage, bb, cursor, plan, passes, before>>

\* removeSucc and removePred erase what find finds, which has to be something.
Count(seq, x) == Cardinality({k \in DOMAIN seq : seq[k] = x})
Without(seq, x, n) ==
  LET After[k \in 0 .. n] == IF k = 0 THEN seq ELSE RemoveFirst(After[k - 1], x)
  IN  After[n]
DestroyBlock ==
  /\ stage = "ending" /\ next[Dummy(bb)] = Dummy(bb)
  /\ succ' = [b \in Block |-> Without(succ[b], bb, Count(pred[bb], b))]
  /\ pred' = [b \in Block |-> Without(pred[b], bb, Count(succ'[bb], b))]
  /\ touched' = touched
       \cup Touches("block", ToSet(pred[bb]) \cup ToSet(succ'[bb]), 1 .. bb - 1)
       \cup Touches("edge", {b \in Block : \/ Count(succ[b], bb) < Count(pred[bb], b)
                                           \/ Count(pred[b], bb) < Count(succ'[bb], b)}, Block)
  /\ IF bb = NumBlocks THEN stage' = "over" /\ UNCHANGED bb ELSE bb' = bb + 1 /\ UNCHANGED stage
  /\ UNCHANGED <<insts, prev, next, uses, loadUses, freed, freedOps, making, cursor, plan, passes, before>>

Next ==
  \/ Generate
  \/ Samebboptimize \/ Collect \/ DeleteAlloca
  \/ \E i \in DOMAIN insts : Replace(i) \/ DeleteStore(i) \/ DeleteLoad(i)
  \/ RemoveUnusedAlloca \/ Unused
  \/ Destroy \/ DestroyInst \/ DestroyBlock

Spec == Start /\ [][Next]_vars

-----------------------------------------------------------------------------
(***************************************************************************)
(* The rings are lists: whatever is made, removed or deleted, and in       *)
(* whatever order a pass deletes, the others stay where they were, read    *)
(* forward and backward.                                                   *)
(***************************************************************************)
Lists == INSTANCE BlockContents WITH contents <- Contents
ImplementsContents == Lists!Spec

(***************************************************************************)
(* Neither the passes nor the destructors read or write what was deleted,  *)
(* or look for an edge that is not there, but for the walk of              *)
(* removeUnusedAlloca, which goes on from the alloca it has deleted.       *)
(***************************************************************************)
OnlyWalkTouchesDeleted ==
  \A t \in touched : t.k = "instruction" /\ Kind(t.id) = "alloca" /\ loadUses[t.id] = 0

(***************************************************************************)
(* A pass leaves every call, branch and return, and what they read has the *)
(* value it had, or lost its definition: the latter only where a variable  *)
(* was copied to another one within the block, or where a call or a        *)
(* conversion keeps its operand in a field replaceUse does not see.  A     *)
(* pass crashes only on a variable that is read before it is set.          *)
(***************************************************************************)
HeldApart(i) ==
  \/ Kind(i) \in {"call", "tobool"}
  \/ Kind(i) = "cond" /\ Kind(insts[i].operands[1]) = "tobool"

PassesKeepValues ==
  /\ stage = "linked" /\ passes > 0 =>
       LET path == Path
           V == Values(path)
       IN  /\ Observers(path) = DOMAIN before.observed
           /\ \A i \in Observers(path) : \A o \in Reads(i) :
                \/ {V[o]} = before.observed[i]
                \/ V[o] = Undefined /\ i \in before.copied
                \/ V[o] = Undefined /\ HeldApart(i) /\ (o \in ToSet(insts[i].fields) \/ Kind(i) = "cond")
  /\ stage = "crashed" => before.unset

=============================================================================

---------------------------- MODULE ControlFlow -----------------------------
(***************************************************************************)
(* Does the control flow that GenCode builds do what the source says?  The *)
(* finished function runs beside the meaning of its source: both must ask  *)
(* for the same conditions, do the same assignments and return, in step.   *)
(* The outcome of every condition is left open.                            *)
(***************************************************************************)
EXTENDS GenCode

VARIABLES
  rest,      \* source: the statements still to be executed
  pc,        \* code: block and index of the next instruction
  outcome    \* code: what the last condition came out as

runVars == <<rest, pc, outcome>>
vars == <<genVars, runVars>>

Skip == StmtList(<<>>)
Again(w) == [k |-> "again", s |-> w]    \* the end of a loop's body

(***************************************************************************)
(* The meaning of the source: how the first statement unfolds until it is  *)
(* an assignment, a condition to evaluate, or a return.                    *)
(***************************************************************************)
LoopEnd(stmts) ==
  LET ends == {i \in DOMAIN stmts : stmts[i].k = "again"}
  IN  IF ends = {} THEN Len(stmts) + 1 ELSE CHOOSE i \in ends : \A j \in ends : i <= j
From(stmts, i) == SubSeq(stmts, i, Len(stmts))

Observable(s) ==
  s.k \in {"assign", "return"} \/ (s.k = "ifElse" /\ s.c.k = "leaf")

Unfolded(stmts) ==
  LET s == Head(stmts)
      others == Tail(stmts)
  IN  CASE s.k = "seq" -> s.stmts \o others
        [] s.k = "assignNot" -> <<IfElse(Leaf(s.id), Skip, Skip), Assign(s.id)>> \o others
        [] s.k = "if" -> <<IfElse(s.c, s.s, Skip)>> \o others
        [] s.k = "while" -> <<IfElse(s.c, StmtList(<<s.s, Again(s)>>), Skip)>> \o others
        [] s.k = "again" -> <<s.s>> \o others
        [] s.k = "break" -> From(others, LoopEnd(others) + 1)
        [] s.k = "continue" -> From(others, LoopEnd(others))
        [] s.k = "ifElse" /\ s.c.k = "and" ->
             <<IfElse(s.c.l, IfElse(s.c.r, s.s, s.e), s.e)>> \o others
        [] s.k = "ifElse" /\ s.c.k = "or" ->
             <<IfElse(s.c.l, s.s, IfElse(s.c.r, s.s, s.e))>> \o others

SourceReady == rest # <<>> => Observable(Head(rest))
SourceEvent ==
  IF rest = <<>> \/ Head(rest).k = "return" THEN <<"return">>
  ELSE IF Head(rest).k = "assign" THEN <<"assign", Head(rest).id>>
  ELSE <<"condition", Head(rest).c.id>>

Inst == blocks[pc[1]][pc[2]]
CodeReady == Inst.op \in {"do", "eval", "ret"}
CodeEvent ==
  CASE Inst.op = "ret" -> <<"return">>
    [] Inst.op = "do" -> <<"assign", Inst.id>>
    [] Inst.op = "eval" -> <<"condition", Inst.id>>

-----------------------------------------------------------------------------
CFInit == Init /\ rest = <<program>> /\ pc = <<1, 1>> /\ outcome = TRUE

Generate == GenNext /\ UNCHANGED runVars

UnfoldSource ==
  /\ GraphDone /\ ~SourceReady
  /\ rest' = Unfolded(rest)
  /\ UNCHANGED <<genVars, pc, outcome>>

FollowBranch ==
  /\ GraphDone /\ SourceReady /\ ~CodeReady
  /\ pc' = <<IF Inst.op = "br" \/ outcome THEN Inst.to ELSE Inst.other, 1>>
  /\ UNCHANGED <<genVars, rest, outcome>>

InBoth == GraphDone /\ SourceReady /\ CodeReady /\ SourceEvent = CodeEvent
NextPc == <<pc[1], pc[2] + 1>>

DoAssign ==
  /\ InBoth /\ Inst.op = "do"
  /\ rest' = Tail(rest)
  /\ pc' = NextPc
  /\ UNCHANGED <<genVars, outcome>>

EvalCondition(o) ==
  /\ InBoth /\ Inst.op = "eval"
  /\ rest' = <<IF o THEN Head(rest).s ELSE Head(rest).e>> \o Tail(rest)
  /\ pc' = NextPc
  /\ outcome' = o
  /\ UNCHANGED genVars

CFNext ==
  \/ Generate
  \/ UnfoldSource
  \/ FollowBranch
  \/ DoAssign
  \/ \E o \in BOOLEAN : EvalCondition(o)

CFSpec == CFInit /\ [][CFNext]_vars
FairCFSpec == CFSpec /\ WF_vars(CFNext)

\* The code asks, assigns and returns exactly when the source does: no
\* condition is skipped or asked twice, no branch is lost in the cleaning,
\* nothing runs on into a placeholder.
InStep == GraphDone /\ SourceReady /\ CodeReady => SourceEvent = CodeEvent

\* The code never runs around in empty blocks: it always gets to its next
\* condition, assignment or return, however long the loops go on.
NeverStalls == GraphDone ~> (SourceReady /\ CodeReady)

=============================================================================

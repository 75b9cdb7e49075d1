--------------------------- MODULE MCControlFlow ----------------------------
(***************************************************************************)
(* Function bodies for ControlFlow: every shape of condition the grammar   *)
(* gives up to three leaves, statements nested two deep, and a statement   *)
(* behind them that tells an early exit from a normal one.                 *)
(***************************************************************************)
EXTENDS ControlFlow

RECURSIVE Within(_)    \* a tree and the trees inside it
Within(x) ==
  {x} \cup UNION {Within(y) : y \in
    CASE x.k = "seq" -> ToSet(x.stmts)
      [] x.k \in {"if", "while"} -> {x.c, x.s}
      [] x.k = "ifElse" -> {x.c, x.s, x.e}
      [] x.k = "assignNot" -> {Leaf(x.id)}
      [] x.k \in {"and", "or"} -> {x.l, x.r}
      [] OTHER -> {}}
IsCondition(x) == x.k \in {"leaf", "and", "or"}

SmallConds(i) == {Leaf(i), And(Leaf(i), Leaf(i + 1)), Or(Leaf(i), Leaf(i + 1))}
Conds(i) ==
  SmallConds(i) \cup
  {And(And(Leaf(i), Leaf(i + 1)), Leaf(i + 2)), Or(Or(Leaf(i), Leaf(i + 1)), Leaf(i + 2)),
   Or(And(Leaf(i), Leaf(i + 1)), Leaf(i + 2)), Or(Leaf(i), And(Leaf(i + 1), Leaf(i + 2)))}

Simple(i) == {Assign(i), AssignNot(i), Return}

Inner(i) ==
  Simple(i) \cup {If(c, s) : c \in SmallConds(i), s \in Simple(i + 3)}
    \cup {IfElse(c, s, e) : c \in SmallConds(i), s \in Simple(i + 3), e \in Simple(i + 4)}
    \cup {While(Leaf(i), s) : s \in Simple(i + 3)}

Body(i) == {StmtList(<<s, Assign(i + 9)>>) : s \in Inner(i)}

Outer ==
  {If(c, s) : c \in Conds(1), s \in Body(10)}
    \cup {IfElse(c, s, e) : c \in Conds(1), s \in Body(10), e \in Simple(20)}
    \cup {While(Leaf(1), s) : s \in Body(10)}

\* A continue that ends a body has nothing to skip.
LastContinue ==
  {While(Leaf(1), StmtList(<<s, Continue>>)) : s \in Inner(10)}

MCProgram ==
  {StmtList(<<s, Assign(0)>>) : s \in Outer \cup LastContinue}
    \cup {StmtList(<<s>>) : s \in Inner(1)}
MCTrees == UNION {Within(p) : p \in MCProgram}
MCConditions == {x \in MCTrees : IsCondition(x)}
MCStatements == MCTrees \ MCConditions

\* test/functional_test/Basic/complex_test2.sy:50, a loop over "j<5 && i%100 == 1".
WhileAndProgram == {StmtList(<<While(And(Leaf(1), Leaf(2)), Assign(3)), Assign(0)>>)}
WhileAndTrees == UNION {Within(p) : p \in WhileAndProgram}
WhileAndConditions == {x \in WhileAndTrees : IsCondition(x)}
WhileAndStatements == WhileAndTrees \ WhileAndConditions
=============================================================================

---------------------------- MODULE MCUnitPasses ----------------------------
\* An instance of UnitPasses: a block that branches, one that loops, one that
\* ends; functions of four statements over two variables.
EXTENDS UnitPasses

MCBranches == <<<<2, 3>>, <<3, 2>>, <<>>>>

Node(op, v) == [op |-> op, var |-> v]
Set(v) == <<Node("assign", v)>>
Copy(v, w) == <<Node("id", w), Node("assign", v)>>
Use(v) == <<Node("id", v), Node("call", v), Node("drop", v)>>
Result(v, w) == <<Node("id", w), Node("call", w), Node("assign", v)>>
Read(v) == <<Node("id", v), Node("drop", v)>>
Return(v) == <<Node("id", v), Node("ret", v)>>
Not(v) == <<Node("id", v), Node("tobool", v), Node("cond", v)>>
If(v) == Not(v) \o <<Node("next", v)>>
Jump == <<Node("br", "x"), Node("next", "x")>>
Void == <<Node("ret", "x")>>

First == {Set("x"), Use("x"), Copy("y", "x")}
Middle == {Set("x"), Set("y"), Copy("x", "y"), Copy("y", "x"), Use("x"), Use("y"), Result("y", "x"),
           Read("x"), Not("x"), If("x"), Jump, Void, Return("x")}
Final == {Use("x"), Use("y"), Return("y"), Set("y")}

MCPrograms ==
  {FlattenSeq(<<<<Node("decl", "x"), Node("decl", "y")>>, a, b, c, d>>) :
     a \in First, b \in Middle, c \in Middle, d \in Final}
=============================================================================

------------------------------ MODULE TypeCheck ------------------------------
(***************************************************************************)
(* The semantic checks: the typeCheck methods of the syntax tree           *)
(* (src/src/Ast.cpp) with the two checks for void that the parser makes    *)
(* (src/src/parser.y).  Nodes are visited in postfix order, the order in   *)
(* which typeCheck comes back from them; a node keeps whether its own      *)
(* typeCheck would stop the compiler, since not every statement calls it.  *)
(* Next to what the compiler knows of a tree stands what its source text   *)
(* means: its value, if that is constant, and the errors in it.            *)
(*                                                                         *)
(* A type is int or void: bool and float are treated like int here.  The   *)
(* parser's checks happen in the same pass, which changes only the error   *)
(* that is reported first.  exit(EXIT_FAILURE) and the trap of a constant  *)
(* remainder by zero are both "rejected".  Names are module Scopes' part.  *)
(***************************************************************************)
EXTENDS Integers, SequencesExt

CONSTANTS
  Literals,      \* literals of the program
  Named,         \* values of identifiers declared const
  Signatures,    \* <<return type, number of parameters>> of functions to call
  MaxOperands,   \* bound: subtrees that wait for their parent
  MaxNodes,      \* bound: nodes of an expression
  MaxChecked,    \* bound: statements
  MaxFuncs       \* bound: function definitions

\* Programs are made of numbers and of the language's two types.
ASSUME SourceAssumption ==
  /\ Literals \subseteq Int /\ Named \subseteq Int
  /\ Signatures \subseteq {"int", "void"} \X Nat
  /\ MaxOperands \in Nat

VARIABLES
  operands,      \* the subtrees that wait for their parent, innermost last
  returnType,    \* of the function checked last; "null" at first
  funcReturned,  \* set by a return statement
  current,       \* the function around the statement, as the source says
  hasMain, intFuncs, funcs,  \* the definitions: main, those of type int, all
  errors,        \* the errors of the source so far
  verdict,       \* "open", "rejected" or "accepted"
  nodes, stmts   \* counters for the bounds

checkVars == <<operands, returnType, funcReturned, current, hasMain, intFuncs, funcs,
               errors, verdict, nodes, stmts>>

NoFunction == [ret |-> "none", returned |-> FALSE]

CheckInit ==
  /\ operands = <<>>
  /\ returnType = "null"
  /\ funcReturned = FALSE
  /\ current = NoFunction
  /\ hasMain = FALSE /\ intFuncs = 0 /\ funcs = 0
  /\ errors = {}
  /\ verdict = "open"
  /\ nodes = 0 /\ stmts = 0

-----------------------------------------------------------------------------
(***************************************************************************)
(* Subtrees.  Compiler: type, cbcai (a constant), cbcaivalue, stops.       *)
(* Source: constant, value, named (through a const identifier), errors.    *)
(***************************************************************************)
Tree(sym, type, stops, found) ==   \* one that is not constant
  [sym |-> sym, type |-> type, cbcai |-> FALSE, cbcaivalue |-> 0, stops |-> stops,
   constant |-> FALSE, value |-> 0, named |-> FALSE, errors |-> found]

Top == Last(operands)
Second == operands[Len(operands) - 1]
Below(n) == SubSeq(operands, 1, Len(operands) - n)

\* A subtree takes the place of the n topmost.
Reduce(n, t) ==
  /\ verdict = "open" /\ nodes < MaxNodes
  /\ Len(operands) >= n /\ Len(operands) - n < MaxOperands
  /\ operands' = Append(Below(n), t)
  /\ nodes' = nodes + 1
  /\ UNCHANGED <<returnType, funcReturned, current, hasMain, intFuncs, funcs, errors, verdict, stmts>>

ConstantTree(v) ==
  [sym |-> "const", type |-> "int", cbcai |-> TRUE, cbcaivalue |-> v, stops |-> FALSE,
   constant |-> TRUE, value |-> v, named |-> FALSE, errors |-> {}]

Constant == \E v \in Literals : Reduce(0, ConstantTree(v))

\* The type of a const identifier is that of a variable, so that Id::typeCheck
\* takes none of them for a constant.
ConstIdTree(v) ==
  [sym |-> "id", type |-> "int", cbcai |-> FALSE, cbcaivalue |-> 0, stops |-> FALSE,
   constant |-> TRUE, value |-> v, named |-> TRUE, errors |-> {}]

Id == Reduce(0, Tree("id", "int", FALSE, {})) \/ \E v \in Named : Reduce(0, ConstIdTree(v))

Magnitude(a) == IF a < 0 THEN -a ELSE a
Quotient(a, b) ==
  IF b = 0 THEN 0
  ELSE LET q == Magnitude(a) \div Magnitude(b) IN IF (a < 0) = (b < 0) THEN q ELSE -q
Meaning(op, a, b) ==
  CASE op = "add" -> a + b
    [] op = "sub" -> a - b
    [] op = "mul" -> a * b
    [] op = "div" -> Quotient(a, b)
    [] op = "mod" -> a - b * Quotient(a, b)
Operators == {"add", "sub", "mul", "div", "mod"}

\* Mutant of Fold: the operands of a difference the other way round.
FoldSwapped(op, a, b) == IF op = "sub" THEN b - a ELSE Meaning(op, a, b)

\* The value BinaryExpr::typeCheck computes.
Fold(op, a, b) == Meaning(op, a, b)

ByZero(op, r) == op \in {"div", "mod"} /\ r.constant /\ r.value = 0
\* An error the checker cannot see: a name is not a constant to it, and a
\* remainder is looked at only if both of its operands are constants.
ZeroError(op, l, r) ==
  IF r.named \/ (op = "mod" /\ (~l.constant \/ l.named)) THEN "hidden zero divisor" ELSE "zero divisor"

BinaryErrors(op, l, r) ==
  l.errors \cup r.errors
    \cup (IF "void" \in {l.type, r.type} THEN {"void operand"} ELSE {})
    \cup (IF ByZero(op, r) THEN {ZeroError(op, l, r)} ELSE {})

BinaryStops(op, l, r) ==
  \/ l.stops \/ r.stops
  \/ op = "div" /\ r.cbcai /\ r.cbcaivalue = 0
  \/ op = "mod" /\ l.cbcai /\ r.cbcai /\ r.cbcaivalue = 0
  \/ "void" \in {l.type, r.type}

ParserRejects(op, l, r) == op = "add" /\ "void" \in {l.type, r.type}

BinaryTree(op, l, r) ==
  [sym |-> "temp", type |-> "int",
   cbcai |-> l.cbcai /\ r.cbcai,
   cbcaivalue |-> IF l.cbcai /\ r.cbcai THEN Fold(op, l.cbcaivalue, r.cbcaivalue) ELSE 0,
   stops |-> BinaryStops(op, l, r),
   constant |-> l.constant /\ r.constant /\ ~ByZero(op, r),
   value |-> IF l.constant /\ r.constant THEN Meaning(op, l.value, r.value) ELSE 0,
   named |-> l.named \/ r.named,
   errors |-> BinaryErrors(op, l, r)]

BinaryExpr(op) ==
  /\ Len(operands) >= 2 /\ "rel" \notin {Top.sym, Second.sym}
  /\ ~ParserRejects(op, Second, Top)
  /\ Reduce(2, BinaryTree(op, Second, Top))

\* A comparison, && or ||: only a condition contains one, so that its value
\* never is a divisor.
CondTree(l, r) == Tree("rel", "int", BinaryStops("rel", l, r), BinaryErrors("rel", l, r))

CondExpr == Len(operands) >= 2 /\ Reduce(2, CondTree(Second, Top))

\* The check for void of the rule for +, while the tree is built.
VoidSum ==
  /\ verdict = "open" /\ Len(operands) >= 2 /\ ParserRejects("add", Second, Top)
  /\ "rel" \notin {Top.sym, Second.sym}
  /\ errors' = errors \cup {"void operand"}
  /\ verdict' = "rejected" /\ operands' = <<>> /\ nodes' = 0
  /\ UNCHANGED <<returnType, funcReturned, current, hasMain, intFuncs, funcs, stmts>>

SignOf(f, v) == CASE f = "neg" -> -v [] f = "pos" -> v [] f = "not" -> IF v = 0 THEN 1 ELSE 0

\* Mutant of FoldUnary: "not" keeps its operand.
FoldUnaryNot(f, v) == IF f = "neg" THEN -v ELSE v

FoldUnary(f, v) == SignOf(f, v)

\* The parser folds the sign of a literal and drops that of an identifier.
UnaryTree(f, t) ==
  [sym |-> IF f # "not" /\ t.sym # "temp" THEN t.sym ELSE "temp", type |-> "int",
   cbcai |-> t.cbcai, cbcaivalue |-> IF t.cbcai THEN FoldUnary(f, t.cbcaivalue) ELSE 0,
   stops |-> t.stops \/ t.type = "void",
   constant |-> t.constant, value |-> IF t.constant THEN SignOf(f, t.value) ELSE 0, named |-> t.named,
   errors |-> t.errors \cup (IF t.type = "void" THEN {"void operand"} ELSE {})]

UnaryExpr(f) == operands # <<>> /\ Top.sym # "rel" /\ Reduce(1, UnaryTree(f, Top))

\* Mutant of Mismatch: parameters that get no argument are not missed.
TooManyOnly(sig, args) == Len(args) > sig[2] \/ \E a \in ToSet(args) : a.type = "void"

\* The number of arguments, and none of them void.  Type::isValid accepts
\* every int.
Mismatch(sig, args) == Len(args) # sig[2] \/ \E a \in ToSet(args) : a.type = "void"

CallTree(sig, args) ==
  Tree("temp", sig[1],
       Mismatch(sig, args) \/ \E a \in ToSet(args) : a.stops,
       (UNION {a.errors : a \in ToSet(args)}) \cup
         (IF Len(args) # sig[2] \/ \E a \in ToSet(args) : a.type = "void" THEN {"arguments"} ELSE {}))

FuncCallExp(sig, n) ==
  LET args == SubSeq(operands, Len(operands) - n + 1, Len(operands))
  IN  /\ Len(operands) >= n /\ \A a \in ToSet(args) : a.sym # "rel"
      /\ Reduce(n, CallTree(sig, args))

-----------------------------------------------------------------------------
(***************************************************************************)
(* Statements.  A statement with a body is its condition here: what stands *)
(* in the body comes next.                                                 *)
(***************************************************************************)
Statement(stops, found) ==
  /\ verdict = "open" /\ stmts < MaxChecked
  /\ stmts' = stmts + 1 /\ nodes' = 0 /\ operands' = <<>>
  /\ verdict' = IF stops THEN "rejected" ELSE "open"
  /\ errors' = errors \cup found
  /\ UNCHANGED <<hasMain, intFuncs, funcs>>
Inside == current # NoFunction
OneTree == Len(operands) = 1
OneExp == OneTree /\ operands[1].sym # "rel"
VoidIs(name) == Top.errors \cup (IF Top.type = "void" THEN {name} ELSE {})
KeepFunction == UNCHANGED <<returnType, funcReturned, current>>

ExprStmt ==
  Inside /\ OneExp /\ Statement(Top.stops, Top.errors) /\ KeepFunction

\* AssignStmt looks for a tree of function type, which a call does not have.
AssignStmt ==
  Inside /\ OneExp /\ Statement(Top.stops, VoidIs("void assigned")) /\ KeepFunction

\* The parser looks at the type of an initialiser; DeclStmt::typeCheck looks at
\* it again and visits nothing.
CheckDeclStmt ==
  /\ OneExp
  /\ Statement(Top.type = "void", (IF Top.errors # {} THEN {"in initialiser"} ELSE {})
                                    \cup (IF Top.type = "void" THEN {"void initialiser"} ELSE {}))
  /\ KeepFunction

IfStmt ==
  Inside /\ OneTree /\ Statement(Top.stops \/ Top.type = "void", VoidIs("void condition")) /\ KeepFunction

IfElseStmt ==
  Inside /\ OneTree /\ Statement(Top.stops, VoidIs("void alternative")) /\ KeepFunction

WhileStmt ==
  Inside /\ OneTree /\ Statement(Top.stops, VoidIs("void loop condition")) /\ KeepFunction

\* What is wrong about a return where it stands.
ReturnErrors ==
  VoidIs("void returned") \cup
  (CASE current.ret = "void" -> {"value from void function"}
     [] current.ret = "int" -> {}
     [] current = NoFunction -> IF intFuncs = 0 THEN {"return outside"} ELSE {"return behind"})

\* In the code, "outside" means before any function.
ReturnStmt ==
  /\ OneExp
  /\ Statement(returnType # "int" \/ Top.stops \/ Top.type = "void", ReturnErrors)
  /\ funcReturned' = TRUE
  /\ current' = IF Inside THEN [current EXCEPT !.returned = TRUE] ELSE current
  /\ UNCHANGED returnType

-----------------------------------------------------------------------------
FunctionType(ret, params) == [kind |-> "func", ret |-> ret, params |-> params]

\* Mutant of RetType: the type of the symbol, not of what a call returns.
SymbolType(type) == type.kind

RetType(type) == type.ret

\* funcReturned keeps its value: the assignment is commented out.
FunctionDef(ret, params, isMain) ==
  LET badMain == isMain /\ (ret # "int" \/ params # 0)
  IN  /\ verdict = "open" /\ current = NoFunction /\ operands = <<>> /\ funcs < MaxFuncs
      /\ isMain => ~hasMain
      /\ returnType' = RetType(FunctionType(ret, params))
      /\ current' = [ret |-> ret, returned |-> FALSE]
      /\ hasMain' = (hasMain \/ isMain)
      /\ funcs' = funcs + 1
      /\ errors' = errors \cup (IF badMain THEN {"main"} ELSE {})
      /\ verdict' = IF badMain THEN "rejected" ELSE "open"
      /\ UNCHANGED <<operands, funcReturned, intFuncs, nodes, stmts>>

\* The end of FunctionDef::typeCheck, behind the body.  The statement made for
\* a void function is used by nobody.
EndFunction ==
  /\ verdict = "open" /\ Inside /\ operands = <<>>
  /\ verdict' = IF ~funcReturned /\ returnType # "void" THEN "rejected" ELSE "open"
  /\ errors' = errors \cup
       (IF current.ret = "int" /\ ~current.returned
          THEN IF intFuncs = 0 THEN {"no return"} ELSE {"later no return"} ELSE {})
  /\ current' = NoFunction
  /\ intFuncs' = IF current.ret = "int" THEN intFuncs + 1 ELSE intFuncs
  /\ UNCHANGED <<operands, returnType, funcReturned, hasMain, funcs, nodes, stmts>>

EndProgram ==
  /\ verdict = "open" /\ current = NoFunction /\ operands = <<>>
  /\ verdict' = IF hasMain THEN "accepted" ELSE "rejected"
  /\ errors' = errors \cup (IF hasMain THEN {} ELSE {"no main"})
  /\ UNCHANGED <<operands, returnType, funcReturned, current, hasMain, intFuncs, funcs, nodes, stmts>>

CheckNext ==
  \/ Constant \/ Id \/ VoidSum \/ CondExpr
  \/ \E op \in Operators : BinaryExpr(op)
  \/ \E f \in {"neg", "pos", "not"} : UnaryExpr(f)
  \/ \E sig \in Signatures, n \in 0 .. MaxOperands : FuncCallExp(sig, n)
  \/ ExprStmt \/ AssignStmt \/ CheckDeclStmt \/ ReturnStmt
  \/ IfStmt \/ IfElseStmt \/ WhileStmt
  \/ \E ret \in {"int", "void"}, params \in 0 .. 1, isMain \in BOOLEAN :
       FunctionDef(ret, params, isMain)
  \/ EndFunction \/ EndProgram

CheckSpec == CheckInit /\ [][CheckNext]_checkVars

-----------------------------------------------------------------------------
TreeErrors == {"void operand", "arguments", "zero divisor", "hidden zero divisor"}
Subtrees ==
  [sym : {"const", "id", "temp", "rel"}, type : {"int", "void"}, cbcai : BOOLEAN,
   cbcaivalue : Int, stops : BOOLEAN, constant : BOOLEAN, value : Int, named : BOOLEAN,
   errors : SUBSET TreeErrors]

(***************************************************************************)
(* Subtrees have their fields; the type to return is known exactly when a  *)
(* function has been seen, and inside a function it is that function's.    *)
(***************************************************************************)
TypeOK ==
  /\ \A i \in DOMAIN operands : operands[i] \in Subtrees
  /\ Len(operands) <= MaxOperands
  /\ returnType \in {"null", "int", "void"}
  /\ (returnType = "null") = (funcs = 0)
  /\ Inside => returnType = current.ret
  /\ verdict \in {"open", "rejected", "accepted"}

(***************************************************************************)
(* The constants of the checker (BinaryExpr, UnaryExpr, Constant and Id    *)
(* ::typeCheck) are the constant expressions of the source that use no     *)
(* identifier, with the value they have there.                             *)
(***************************************************************************)
FoldingIsRight ==
  \A i \in DOMAIN operands : LET t == operands[i] IN
    ~t.stops /\ t.errors = {} =>
      /\ t.cbcai = (t.constant /\ ~t.named)
      /\ t.cbcai => t.cbcaivalue = t.value

(***************************************************************************)
(* A program is rejected only for an error it has: exit(EXIT_FAILURE) is   *)
(* not reached for a correct one.                                          *)
(***************************************************************************)
RejectsOnlyWrong == verdict = "rejected" => errors # {}

Unseen == {"hidden zero divisor", "in initialiser", "void assigned", "void alternative",
           "void loop condition", "return behind", "later no return"}

(***************************************************************************)
(* The errors of an accepted program are among those the checks leave out: *)
(* every other one stops the compiler, whatever comes before it and        *)
(* however deep in an expression it is.                                    *)
(***************************************************************************)
AcceptedErrorsAreKnown == verdict = "accepted" => errors \subseteq Unseen

=============================================================================

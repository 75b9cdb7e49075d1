----------------------------- MODULE GlobalData -----------------------------
(***************************************************************************)
(* The words of global variables: from the text to the .data section.      *)
(* IdentifierSymbolEntry::ConstantValue has three writers that know little *)
(* of each other: the sign rules of src/src/parser.y, the constructor of   *)
(* AssignStmt, which runs while the text is still being parsed, and        *)
(* DeclStmt::genCode.  MachineUnit::PrintGlobalDecl prints what is left.   *)
(*                                                                         *)
(* Names are globals, declared before the functions; everything is an int. *)
(* An expression is its tokens in postfix order, the order of reductions.  *)
(* Beside the tokens the compiler has, "text" keeps those of the source,   *)
(* and "run" what straight-line execution of the text would assign.        *)
(***************************************************************************)
EXTENDS Integers, SequencesExt

CONSTANTS
  Half,        \* half the number of words; 2^31 in the code
  Literals,    \* literals of the program
  Binary,      \* operators of the program: among "add", "sub", "mul", "div", "mod"
  Garbage,     \* words that uninitialised memory may hold
  MaxGlobals,  \* bound: global variables
  MaxTokens    \* bound: tokens in the expressions of the program

Word == -Half .. Half - 1

ASSUME WordAssumption ==
  /\ Half \in Nat \ {0}
  /\ Literals \subseteq Word /\ Garbage \subseteq Word
  /\ Binary \subseteq {"add", "sub", "mul", "div", "mod"}

VARIABLES
  phase,      \* "globals", "functions", "genCode", "done"
  entries,    \* the symbol entries of globals: const mark, initialiser, its text
  decls,      \* the declarations: the entries of their declarators
  comma,      \* the declaration may go on
  value,      \* entry -> IdentifierSymbolEntry::ConstantValue
  expr, text, \* the expression being parsed
  tokens,     \* tokens so far
  run,        \* entry -> its value by straight-line execution, or Unknown
  signed,     \* a sign stood in front of something that is not a literal
  insertBB,   \* IRBuilder::insertBB
  irWord,     \* entry -> GlobalVarDefInstruction::value
  globalList, \* MachineUnit::global_list
  crashed     \* what the compiler died of, or "no"

vars == <<phase, entries, decls, comma, value, expr, text, tokens, run, signed,
          insertBB, irWord, globalList, crashed>>

\* Signed overflow of the compiler's int wraps in every build of it.
Wrap(n) == ((n + Half) % (2 * Half)) - Half

Unknown == 2 * Half     \* reference evaluation: not known from the text
Trap == 2 * Half + 1    \* the division instruction of the host traps

Token(k, v) == [k |-> k, v |-> v]
Leaves == {"const", "id", "call"}
Unary == {"pos", "neg", "not"}

Truncated(a, b) ==      \* C's division, b # 0
  LET q == (IF a < 0 THEN -a ELSE a) \div (IF b < 0 THEN -b ELSE b)
  IN  IF (a < 0) = (b < 0) THEN q ELSE -q

\* A binary operator on the host, b # 0 for "div" and "mod".
Compute(op, a, b) ==
  IF Trap \in {a, b} THEN Trap
  ELSE IF Unknown \in {a, b} THEN Unknown
  ELSE CASE op = "add" -> Wrap(a + b)
         [] op = "sub" -> Wrap(a - b)
         [] op = "mul" -> Wrap(a * b)
         [] op = "div" -> IF a = -Half /\ b = -1 THEN Trap ELSE Truncated(a, b)
         [] op = "mod" -> IF a = -Half /\ b = -1 THEN Trap ELSE a - b * Truncated(a, b)

\* The operands wait on a stack for their operator: stack[n] after n tokens.
Evaluate(exp, Leaf(_), Sign(_, _), Apply(_, _, _)) ==
  LET Step(old, t) ==
        CASE t.k \in Leaves -> Append(old, Leaf(t))
          [] t.k \in Unary -> Append(Front(old), Sign(t.k, Last(old)))
          [] OTHER -> Append(Front(Front(old)), Apply(t.k, Last(Front(old)), Last(old)))
      stack[n \in 0 .. Len(exp)] == IF n = 0 THEN <<>> ELSE Step(stack[n - 1], exp[n])
  IN  Last(stack[Len(exp)])

-----------------------------------------------------------------------------
(***************************************************************************)
(* getValue.                                                               *)
(***************************************************************************)
LeafValue(t) ==
  CASE t.k = "const" -> t.v
    [] t.k = "id" -> value[t.v]
    [] t.k = "call" -> -1      \* ExprNode::getValue

\* UnaryExpr has no case for POS.
UnaryValue(op, a) ==
  IF a = Trap THEN Trap
  ELSE CASE op = "pos" -> 0
         [] op = "neg" -> Wrap(-a)
         [] op = "not" -> IF a = 0 THEN 1 ELSE 0

\* Mutants of BinaryValue: the operands are swapped; a zero divisor is not tested.
BinarySwapped(op, a, b) == IF op = "sub" THEN Compute(op, b, a) ELSE IF b = 0 THEN 0 ELSE Compute(op, a, b)
BinaryUntested(op, a, b) == IF op \in {"div", "mod"} /\ b = 0 THEN Trap ELSE Compute(op, a, b)
BinaryValue(op, a, b) ==      \* the dividend is not evaluated when the divisor is 0
  IF op \in {"div", "mod"} /\ b = 0 THEN 0 ELSE Compute(op, a, b)

GetValue(exp) == Evaluate(exp, LeafValue, UnaryValue, BinaryValue)

\* The meaning of the text, with v[s] for the value of s, and "zero" for what
\* a division by 0 gives.
TextLeaf(t, v) == CASE t.k = "const" -> t.v [] t.k = "id" -> v[t.v] [] t.k = "call" -> Unknown
TextSign(op, a) ==
  IF a \in {Trap, Unknown} \/ op = "pos" THEN a
  ELSE IF op = "neg" THEN Wrap(-a) ELSE IF a = 0 THEN 1 ELSE 0
TextApply(op, a, b, zero) ==
  CASE op \in {"div", "mod"} /\ b = 0 -> zero
    [] op \in {"div", "mod"} /\ b = Unknown -> Unknown
    [] OTHER -> Compute(op, a, b)
TextValue(exp, v, zero) ==
  LET Leaf(t) == TextLeaf(t, v)
      Apply(op, a, b) == TextApply(op, a, b, zero)
  IN  Evaluate(exp, Leaf, TextSign, Apply)

-----------------------------------------------------------------------------
Init ==
  /\ phase = "globals"
  /\ entries = <<>> /\ decls = <<>>
  /\ comma = FALSE
  /\ value = <<>>
  /\ expr = <<>> /\ text = <<>>
  /\ tokens = 0
  /\ run = <<>>
  /\ signed = FALSE
  /\ insertBB = "none"      \* there is no builder yet
  /\ irWord = <<>>
  /\ globalList = <<>>
  /\ crashed = "no"

Parsing == phase \in {"globals", "functions"} /\ crashed = "no"
unchangedByExp == <<phase, entries, decls, comma, run, insertBB, irWord,
                    globalList, crashed>>

Operands ==
  Cardinality({i \in DOMAIN expr : expr[i].k \in Leaves})
    - Cardinality({i \in DOMAIN expr : expr[i].k \notin Leaves \cup Unary})
Complete == Operands = 1

\* PrimaryExp
Primary(token) ==
  /\ Parsing /\ tokens + Operands < MaxTokens     \* operators must follow
  /\ expr' = Append(expr, token) /\ text' = Append(text, token)
  /\ tokens' = tokens + 1
  /\ UNCHANGED <<value, signed, unchangedByExp>>

(***************************************************************************)
(* UnaryExp.  The sign of a literal changes the literal; that of an        *)
(* identifier changes the value in its entry and leaves the expression.    *)
(***************************************************************************)
Negated(t) == [t EXCEPT !.v = Wrap(-@)]

Signed(op) ==
  /\ Parsing /\ expr # <<>> /\ tokens + Operands <= MaxTokens
  /\ LET top == Last(expr)
     IN  IF op = "not" \/ top.k \notin {"const", "id"}
         THEN expr' = Append(expr, Token(op, 0)) /\ UNCHANGED value
         ELSE /\ expr' = IF op = "neg" /\ top.k = "const" THEN Front(expr) \o <<Negated(top)>> ELSE expr
              /\ value' = IF op = "neg" /\ top.k = "id"
                          THEN [value EXCEPT ![top.v] = Wrap(-@)] ELSE value
  /\ text' = Append(text, Token(op, 0))
  /\ signed' = (signed \/ (op # "not" /\ Last(expr).k # "const"))
  /\ tokens' = tokens + 1
  /\ UNCHANGED unchangedByExp

\* AddExp, MulExp
Operator(op) ==
  /\ Parsing /\ Operands >= 2
  /\ expr' = Append(expr, Token(op, 0)) /\ text' = Append(text, Token(op, 0))
  /\ tokens' = tokens + 1
  /\ UNCHANGED <<value, signed, unchangedByExp>>

\* DeclStmtNode: the entry keeps the initialiser; its value is not set, and
\* the memory it lies in was not either.
DeclStmtNode(isConst, chain) ==
  /\ Len(entries) < MaxGlobals
  /\ expr = <<>> \/ Complete
  /\ entries' = Append(entries, [const |-> isConst, init |-> expr, text |-> text])
  /\ decls' = chain
  /\ \E g \in Garbage : value' = Append(value, g)
  /\ run' = Append(run, Unknown)
  /\ comma' = TRUE
  /\ expr' = <<>> /\ text' = <<>>
  /\ UNCHANGED <<phase, tokens, signed, insertBB, irWord, globalList, crashed>>

\* DeclStmt, ConstDeclStmt
DeclStmt(isConst) ==
  /\ Parsing /\ phase = "globals"
  /\ DeclStmtNode(isConst, Append(decls, <<Len(entries) + 1>>))

\* DeclStmtNodes: setNext goes to the end of the chain.
CommaDeclarator ==
  /\ Parsing /\ phase = "globals" /\ comma
  /\ DeclStmtNode(Last(entries).const,
                  [decls EXCEPT ![Len(decls)] = Append(@, Len(entries) + 1)])

FuncDef ==
  /\ Parsing /\ phase = "globals" /\ expr = <<>>
  /\ phase' = "functions"
  /\ UNCHANGED <<entries, decls, comma, value, expr, text, tokens, run, signed, insertBB,
                 irWord, globalList, crashed>>

(***************************************************************************)
(* AssignStmt.  The const mark of an entry is not what is tested, so a     *)
(* const global can be assigned too.                                       *)
(***************************************************************************)
Assigned(s, v) == [value EXCEPT ![s] = v]

AssignStmt(s) ==
  /\ Parsing /\ phase = "functions" /\ Complete
  /\ LET v == GetValue(expr)
     IN  IF v = Trap THEN crashed' = "trap" /\ UNCHANGED value
         ELSE value' = Assigned(s, v) /\ UNCHANGED crashed
  /\ run' = [run EXCEPT ![s] = TextValue(text, run, Unknown)]
  /\ expr' = <<>> /\ text' = <<>>
  /\ UNCHANGED <<phase, entries, decls, comma, tokens, signed, insertBB, irWord, globalList>>

\* Any other use of an expression: ExprStmt, ReturnStmt, a condition.
OtherUse ==
  /\ Parsing /\ phase = "functions" /\ Complete
  /\ expr' = <<>> /\ text' = <<>>
  /\ UNCHANGED <<value, tokens, signed, unchangedByExp>>

-----------------------------------------------------------------------------
\* Ast::genCode: IRBuilder's constructor leaves insertBB as the memory was.
StartGenCode ==
  /\ Parsing /\ phase = "functions" /\ expr = <<>>
  /\ phase' = "genCode"
  /\ insertBB' \in {"null", "wild"}
  /\ irWord' = [s \in DOMAIN entries |-> 0]
  /\ UNCHANGED <<entries, decls, comma, value, expr, text, tokens, run, signed,
                 globalList, crashed>>

(***************************************************************************)
(* DeclStmt::genCode.  An initialiser is taken for a ConstantSymbolEntry   *)
(* and read at the place where that keeps its value.  A temporary has its  *)
(* unset stack_offset there and an identifier the address of its name.     *)
(***************************************************************************)
IsLiteral(s) == Len(entries[s].init) = 1 /\ entries[s].init[1].k = "const"
Readable(s) == IF IsLiteral(s) THEN {entries[s].init[1].v} ELSE Garbage

\* Mutant of EntryWords: genCode leaves the entry alone.
EntryWordsUnset(s) == {value[s]}
EntryWords(s) == IF entries[s].init = <<>> THEN {value[s]} ELSE Readable(s)

\* GlobalVarDefInstruction: 0 without initialiser, nothing for a bool.
IRWords(s, word) ==
  IF entries[s].init = <<>> THEN {0}
  ELSE IF Last(entries[s].init).k = "not" THEN Garbage ELSE {word}

\* The declarators of a declaration, "next" before the declaration itself.
\* The instruction goes into insertBB unless that is null.
GenDeclStmt ==
  /\ phase = "genCode" /\ crashed = "no" /\ decls # <<>>
  /\ IF insertBB = "wild"
     THEN crashed' = "wild" /\ UNCHANGED <<decls, value, irWord, globalList>>
     ELSE LET chain == Head(decls)
          IN  /\ value' \in {v \in [DOMAIN entries -> Word] : \A s \in DOMAIN entries :
                               v[s] \in IF s \in ToSet(chain) THEN EntryWords(s) ELSE {value[s]}}
              /\ irWord' \in {v \in [DOMAIN entries -> Word] : \A s \in DOMAIN entries :
                               v[s] \in IF s \in ToSet(chain) THEN IRWords(s, value'[s]) ELSE {irWord[s]}}
              /\ globalList' = globalList \o Reverse(chain)
              /\ decls' = Tail(decls)
              /\ UNCHANGED crashed
  /\ UNCHANGED <<phase, entries, comma, expr, text, tokens, run, signed, insertBB>>

\* FunctionDef::genCode sets insertBB before anything uses it.
GenFunctionDef ==
  /\ phase = "genCode" /\ crashed = "no" /\ decls = <<>>
  /\ phase' = "done"
  /\ insertBB' = "entry"
  /\ UNCHANGED <<entries, decls, comma, value, expr, text, tokens, run, signed, irWord,
                 globalList, crashed>>

Next ==
  \/ \E v \in Literals : Primary(Token("const", v))
  \/ \E s \in DOMAIN entries : Primary(Token("id", s)) \/ AssignStmt(s)
  \/ Primary(Token("call", 0))
  \/ \E op \in Unary : Signed(op)
  \/ \E op \in Binary : Operator(op)
  \/ \E isConst \in BOOLEAN : DeclStmt(isConst)
  \/ CommaDeclarator \/ FuncDef \/ OtherUse
  \/ StartGenCode \/ GenDeclStmt \/ GenFunctionDef

Spec == Init /\ [][Next]_vars

-----------------------------------------------------------------------------
\* MachineUnit::PrintGlobalDecl: variables in .data, then constants in .rodata.
Printed(isConst) ==
  FlattenSeq([i \in DOMAIN globalList |->
                IF entries[globalList[i]].const = isConst THEN <<globalList[i]>> ELSE <<>>])
DataSection ==
  [i \in DOMAIN Printed(FALSE) |-> <<Printed(FALSE)[i], value[Printed(FALSE)[i]]>>]
RodataSection ==
  [i \in DOMAIN Printed(TRUE) |-> <<Printed(TRUE)[i], value[Printed(TRUE)[i]]>>]

(***************************************************************************)
(* A global with a literal for its initialiser, signs included, is printed *)
(* once, in the section of its mark, with the value of the text, and so    *)
(* says the IR: whatever parsing the functions wrote into its entry.       *)
(***************************************************************************)
InitialisersArrive ==
  phase = "done" => \A s \in DOMAIN entries : IsLiteral(s) =>
    LET section == IF entries[s].const THEN RodataSection ELSE DataSection
        other == IF entries[s].const THEN DataSection ELSE RodataSection
    IN  /\ {i \in DOMAIN section : section[i][1] = s} # {}
        /\ \A i \in DOMAIN section : section[i][1] = s =>
             /\ section[i][2] = TextValue(entries[s].text, run, Unknown)
             /\ \A j \in DOMAIN section : section[j][1] = s => i = j
        /\ \A i \in DOMAIN other : other[i][1] # s
        /\ irWord[s] = TextValue(entries[s].text, run, Unknown)

(***************************************************************************)
(* The value an entry gets while the text is parsed is that of running the *)
(* assignments in their order, where the text determines one, unless a     *)
(* sign stood before an identifier or an operator.                         *)
(***************************************************************************)
FoldsStraightLineText ==
  Parsing /\ ~signed => \A s \in DOMAIN run : run[s] # Unknown => value[s] = run[s]

\* The compiler dies of an assignment only where the text divides the smallest
\* word by -1, with 0 for what a division by 0 gives, or where a sign or a value
\* the text does not determine is involved; and of the wild insert block only
\* for a global to generate.
StopsOnlyForReasons ==
  [][ /\ crashed' = "trap" => signed \/ TextValue(text, run, 0) \in {Trap, Unknown}
      /\ crashed' = "wild" => entries # <<>> ]_vars

=============================================================================

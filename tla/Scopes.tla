------------------------------- MODULE Scopes -------------------------------
(***************************************************************************)
(* Names and scopes as the semantic actions of src/src/parser.y keep them: *)
(* the chain of symbol tables under "identifiers", the symbols installed   *)
(* there, and the statements that come out with their names resolved.      *)
(* Beside it, "lexical" keeps the scopes the source text really has.       *)
(*                                                                         *)
(* The parser reads declarators, uses, assignments, blocks and functions   *)
(* in every order the grammar allows, functions at the top level only, a   *)
(* block never empty, a body only without parameters.  Types are left out: *)
(* everything is an int.                                                   *)
(***************************************************************************)
EXTENDS Integers, SequencesExt

CONSTANTS
  Vars,             \* names of variables and parameters
  ConstVars,        \* those that declarations make const
  Funcs,            \* names of functions
  MaxParams,        \* parameters of a function
  MaxDeclarators,   \* declarators of a declaration
  MaxDepth,         \* blocks in a function body, counting the body
  MaxStmts          \* bound: statements in the program

ASSUME BoundAssumption == MaxParams \in Nat

VARIABLES
  symbols,     \* the symbol entries, in order of creation; an entry is an index
  scopes,      \* the tables from "globals" to "identifiers": name -> entry
  program,     \* the statements parsed so far
  comma,       \* a declaration may go on with another declarator
  depth,       \* open braces: 0 outside functions, 1 in a function's body
  rejected,    \* the error the compiler stopped with
  lexical,     \* the scopes of the source text: name -> entry
  answers      \* the tables' answers to the last step's queries, and the right ones

vars == <<symbols, scopes, program, comma, depth, rejected, lexical, answers>>

None == 0                  \* no entry, nullptr
Names == Vars \cup Funcs

\* What SymbolEntry::getName returns for every identifier: its own "name" is
\* hidden by that of IdentifierSymbolEntry and stays empty.
BaseName == ""
ASSUME NamesAssumption == BaseName \notin Names

(***************************************************************************)
(* The tables.                                                             *)
(***************************************************************************)
Level(tables) == Len(tables) - 1

Lookup(tables, name) ==
  LET holding == {i \in DOMAIN tables : name \in DOMAIN tables[i]}
  IN  IF holding = {} THEN None ELSE tables[Max(holding)][name]

InTop(tables, name) ==
  IF name \in DOMAIN Last(tables) THEN Last(tables)[name] ELSE None

Install(tables, name, entry) ==
  [tables EXCEPT ![Len(tables)] =
     [n \in DOMAIN @ \cup {name} |-> IF n = name THEN entry ELSE @[n]]]

\* Mutant of PushTable: a block shares the table of its surroundings.
PushNothing(tables) == tables
PushTable(tables) == Append(tables, <<>>)
PopTable(tables) == Front(tables)

\* "place" is where the source text has the declaration.
Entry(name, tables, place) ==
  [name |-> name, kind |-> "variable", level |-> Level(tables), place |-> place]
IsGlobal(s) == s.level = 0
IsParam(s) == s.level = 1
IsLocal(s) == s.level >= 2
\* SymbolEntry::isConstant, which an identifier's isConst does not reach.
IsConstant(s) == s.kind = "constant"

LookupQuery(name) ==
  [what |-> "lookup", code |-> Lookup(scopes, name), lex |-> Lookup(lexical, name)]
DeclareQuery(name) ==
  [what |-> "declare", code |-> InTop(scopes, name), lex |-> InTop(lexical, name)]
Emit(stmt) == program' = Append(program, stmt)
NextEntry == Len(symbols) + 1
Parsing == rejected = "no" /\ Len(program) < MaxStmts
InFunction == depth > 0

-----------------------------------------------------------------------------
Init ==
  /\ symbols = <<>>
  /\ scopes = << <<>> >>
  /\ program = <<>>
  /\ comma = FALSE
  /\ depth = 0
  /\ rejected = "no"
  /\ lexical = << <<>> >>
  /\ answers = {}

(***************************************************************************)
(* DeclStmtNode.  The initialiser is parsed before the name is installed.  *)
(***************************************************************************)
InstallVar(name) ==
  LET place == IF InFunction THEN "local" ELSE "global"
  IN  /\ symbols' = Append(symbols, Entry(name, scopes, place))
      /\ scopes' = Install(scopes, name, NextEntry)
      /\ lexical' = Install(lexical, name, NextEntry)

Reject(error) ==
  /\ rejected' = error
  /\ UNCHANGED <<symbols, scopes, program, lexical>>

\* Mutant of Redefines: all enclosing scopes are searched.
RedefinesAnywhere(name) == Lookup(scopes, name) # None
Redefines(name) == InTop(scopes, name) # None

DeclStmtNode(name, init, node) ==
  /\ answers' = {DeclareQuery(name)} \cup {LookupQuery(n) : n \in {init} \ {None}}
  /\ IF init # None /\ Lookup(scopes, init) = None THEN Reject("undefined")
     ELSE IF Redefines(name) THEN Reject("redefined")
     ELSE InstallVar(name) /\ node /\ UNCHANGED rejected
  /\ UNCHANGED depth

Node(init) == [sym |-> NextEntry, init |-> IF init = None THEN None ELSE Lookup(scopes, init)]

DeclStmt(name, init) ==
  /\ Parsing
  /\ DeclStmtNode(name, init, Emit([k |-> "decl", nodes |-> <<Node(init)>>]))
  /\ comma' = (MaxDeclarators > 1)

CommaDeclarator(name, init) ==
  /\ rejected = "no" /\ comma
  /\ Len(Last(program).nodes) < MaxDeclarators
  /\ DeclStmtNode(name, init,
                  program' = [program EXCEPT ![Len(program)].nodes = Append(@, Node(init))])
  /\ UNCHANGED comma

\* A name in an expression, or left of an assignment.
LVal(name, kind) ==
  LET s == Lookup(scopes, name)
  IN  /\ answers' = {LookupQuery(name)}
      /\ IF s = None THEN Reject("undefined")
         ELSE IF IsConstant(symbols[s]) THEN Reject("constant")
         ELSE Emit([k |-> kind, sym |-> s]) /\ UNCHANGED <<symbols, scopes, lexical, rejected>>

Use(name) ==
  /\ Parsing /\ InFunction
  /\ LVal(name, "use")
  /\ comma' = FALSE
  /\ UNCHANGED depth

Assign(name) ==
  /\ Parsing /\ InFunction
  /\ LVal(name, "assign")
  /\ comma' = FALSE
  /\ UNCHANGED depth

-----------------------------------------------------------------------------
\* BlockStmt: a table of its own, dropped at the closing brace.
BlockStmtOpen ==
  /\ Parsing /\ InFunction /\ depth < MaxDepth
  /\ scopes' = PushTable(scopes)
  /\ lexical' = Append(lexical, <<>>)
  /\ depth' = depth + 1
  /\ Emit([k |-> "open"])
  /\ comma' = FALSE /\ answers' = {}
  /\ UNCHANGED <<symbols, rejected>>

BlockStmtClose ==
  /\ Parsing /\ depth > 1 /\ Last(program).k # "open"
  /\ scopes' = PopTable(scopes)
  /\ lexical' = Front(lexical)
  /\ depth' = depth - 1
  /\ Emit([k |-> "close"])
  /\ comma' = FALSE /\ answers' = {}
  /\ UNCHANGED <<symbols, rejected>>

\* Mutant of FuncTables: the body shares the table of the parameters.
OneFuncTable(tables, params, body) == Append(tables, body @@ params)
FuncTables(tables, params, body) == Append(Append(tables, params), body)

(***************************************************************************)
(* FuncDef up to the opening brace: the function, a table for FuncDefParams*)
(* and the table of the body, where a copy of every parameter is entered   *)
(* under what getName returns: the last one stays, and no use finds it.    *)
(* In the source text the parameters belong to the outermost block.        *)
(***************************************************************************)
FuncDefOpen(f, params) ==
  /\ Parsing /\ ~InFunction
  /\ LET n == Len(params)
         outer == Install(scopes, f, NextEntry)
         EntryOf(p) == NextEntry + CHOOSE i \in 1 .. n : params[i] = p
         paramTable == [p \in ToSet(params) |-> EntryOf(p)]
         bodyTable == IF n = 0 THEN <<>> ELSE [x \in {BaseName} |-> NextEntry + n + n]
     IN  /\ scopes' = FuncTables(outer, paramTable, bodyTable)
         /\ symbols' = Append(symbols, Entry(f, scopes, "global"))
              \o [i \in 1 .. n |-> Entry(params[i], Append(outer, paramTable), "param")]
              \o [i \in 1 .. n |-> Entry(BaseName, scopes', "local")]
         /\ lexical' = Append(Install(lexical, f, NextEntry), paramTable)
         /\ Emit([k |-> "func", name |-> f, sym |-> NextEntry, params |-> n])
  /\ depth' = 1
  /\ comma' = FALSE /\ answers' = {}
  /\ UNCHANGED rejected

\* FuncDef after the closing brace: the function is looked up by its name,
\* and one table is dropped.
FuncDefClose ==
  /\ Parsing /\ depth = 1
  /\ Last(program).k = "func" => Last(program).params = 0
  /\ LET func == Last(SelectSeq(program, LAMBDA s : s.k = "func"))
     IN  Emit([k |-> "end", func |-> func.sym, sym |-> Lookup(scopes, func.name)])
  /\ scopes' = PopTable(scopes)
  /\ lexical' = Front(lexical)
  /\ depth' = 0
  /\ comma' = FALSE /\ answers' = {}
  /\ UNCHANGED <<symbols, rejected>>

\* Parameter lists without a name twice.
ParamLists == {ps \in UNION {[1 .. n -> Vars] : n \in 0 .. MaxParams} : IsInjective(ps)}

Next ==
  \/ \E name \in Vars, init \in Vars \cup {None} :
       DeclStmt(name, init) \/ CommaDeclarator(name, init)
  \/ \E name \in Vars : Use(name) \/ Assign(name)
  \/ BlockStmtOpen \/ BlockStmtClose
  \/ \E f \in Funcs, params \in ParamLists : FuncDefOpen(f, params)
  \/ FuncDefClose

Spec == Init /\ [][Next]_vars

-----------------------------------------------------------------------------
Stmts(k) == {i \in DOMAIN program : program[i].k = k}
InBody(entry) == entry # None /\ \E i \in 2 .. Len(lexical) : entry \in Range(lexical[i])

(***************************************************************************)
(* The code answers as the source text would, but for the table of the     *)
(* parameters.  It lies outside that of the body, so a body may declare a  *)
(* parameter again.  And it stays open behind the function: a parameter    *)
(* may then answer for a name that no body declares, and outside functions *)
(* a redefinition may be missed.  What a body declares, and the parameters *)
(* of its own function, are always found, in their innermost block.        *)
(***************************************************************************)
OnlyParamsLeak ==
  \A q \in answers : q.code # q.lex =>
    \/ /\ q.what = "declare" /\ depth = 1
       /\ q.code = None /\ symbols[q.lex].place = "param"
    \/ /\ Stmts("end") # {}
       /\ ~InBody(q.lex)
       /\ \/ q.code # None /\ symbols[q.code].place = "param"
          \/ q.code = None /\ q.what = "declare" /\ depth = 0

\* The compiler gives up on a name only for an error the program has, or
\* because a leaked parameter holds the name outside functions.
RejectsOnlyErrors ==
  /\ rejected = "undefined" => \E q \in answers : q.code = None /\ q.lex = None
  /\ rejected = "redefined" => \E q \in answers :
       /\ q.what = "declare" /\ q.code # None
       /\ q.lex # None \/ (depth = 0 /\ symbols[q.code].place = "param")

\* A body is parsed two tables below "globals" at least, however many tables
\* leaked or were dropped: its variables live on the stack.
LocalsAreLocal ==
  \A i \in DOMAIN symbols : symbols[i].place = "local" => IsLocal(symbols[i])

=============================================================================

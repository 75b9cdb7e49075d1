------------------------------ MODULE Storage -------------------------------
(***************************************************************************)
(* Where genCode of src/src/Ast.cpp puts the variables of a parsed program *)
(* and what its loads and stores then name: DeclStmt::genCode gives every  *)
(* symbol entry an address, from right to left within a declaration, and   *)
(* Id::genCode and AssignStmt::genCode take it from the entry.             *)
(***************************************************************************)
EXTENDS Scopes

VARIABLES
  generating,  \* parsing is over
  next,        \* the statement genCode works on
  left,        \* its declarators that are still to come
  func,        \* the function of builder->getInsertBB()
  addr,        \* symbol entry -> its address, IdentifierSymbolEntry::addr
  accesses     \* the entries the last step loaded or stored

storageVars == <<generating, next, left, func, addr, accesses>>
allVars == <<vars, storageVars>>

NullAddr == [at |-> "null"]
GlobalAddr == [at |-> "global"]
StackAddr(f) == [at |-> "stack", func |-> f]       \* the dst of an alloca in f
ValueAddr(f) == [at |-> "value", func |-> f]       \* a temporary, never a pointer

StorageInit ==
  /\ Init
  /\ generating = FALSE
  /\ next = 1
  /\ left = 0
  /\ func = None
  /\ addr = <<>>
  /\ accesses = {}

Parse == ~generating /\ Next /\ UNCHANGED storageVars

Declarators(i) ==
  IF i \in DOMAIN program /\ program[i].k = "decl" THEN Len(program[i].nodes) ELSE 0

StartGenCode ==
  /\ ~generating /\ rejected = "no" /\ depth = 0 /\ program # <<>>
  /\ generating' = TRUE
  /\ left' = Declarators(1)
  /\ addr' = [s \in DOMAIN symbols |-> NullAddr]
  /\ UNCHANGED <<vars, next, func, accesses>>

AtStmt(k) == generating /\ next \in DOMAIN program /\ program[next].k = k
Stmt == program[next]
Advance == next' = next + 1 /\ left' = Declarators(next + 1)

(***************************************************************************)
(* DeclStmt::genCode for one entry in function f: the address it sets.     *)
(***************************************************************************)
\* Mutant of AddrOf: parameters are given stack slots too.
AddrOfParamOnStack(s, f) == IF IsGlobal(symbols[s]) THEN GlobalAddr ELSE StackAddr(f)
AddrOf(s, f) ==
  CASE IsGlobal(symbols[s]) -> GlobalAddr
    [] IsLocal(symbols[s]) -> StackAddr(f)
    [] IsParam(symbols[s]) -> ValueAddr(f)

\* "next" has generated its code first.  Only the initialiser of a local
\* is evaluated; that of a global is taken as a constant.
GenDeclStmt ==
  /\ AtStmt("decl")
  /\ LET node == Stmt.nodes[left]
         init == IF node.init # None /\ IsLocal(symbols[node.sym]) THEN {node.init} ELSE {}
     IN  /\ addr' = [addr EXCEPT ![node.sym] = AddrOf(node.sym, func)]
         /\ accesses' = init
  /\ IF left > 1 THEN left' = left - 1 /\ UNCHANGED next ELSE Advance
  /\ UNCHANGED <<vars, generating, func>>

(***************************************************************************)
(* FunctionDef::genCode up to the first statement of the source: the       *)
(* parameters get their addresses, then the declarations that FuncDef put  *)
(* in front of the body store each into a slot.  FuncDef looked their      *)
(* entries up by what getName returns, so all are the last copy.           *)
(***************************************************************************)
\* Mutant of Params: the parameters' own declarations are not generated.
NoParams == {}
Params == {Stmt.sym + i : i \in 1 .. Stmt.params}
Copies == IF Stmt.params = 0 THEN {} ELSE {Stmt.sym + Stmt.params + Stmt.params}

GenFunctionDef ==
  /\ AtStmt("func")
  /\ func' = Stmt.sym
  /\ addr' = [s \in DOMAIN symbols |->
                IF s \in Params \cup Copies THEN AddrOf(s, Stmt.sym) ELSE addr[s]]
  /\ accesses' = {}
  /\ Advance
  /\ UNCHANGED <<vars, generating>>

GenAccess ==
  /\ AtStmt("use") \/ AtStmt("assign")
  /\ accesses' = {Stmt.sym}
  /\ Advance
  /\ UNCHANGED <<vars, generating, func, addr>>

GenNothing ==
  /\ AtStmt("open") \/ AtStmt("close") \/ AtStmt("end")
  /\ accesses' = {}
  /\ Advance
  /\ UNCHANGED <<vars, generating, func, addr>>

StorageNext ==
  Parse \/ StartGenCode \/ GenDeclStmt \/ GenFunctionDef \/ GenAccess \/ GenNothing

StorageSpec == StorageInit /\ [][StorageNext]_allVars

-----------------------------------------------------------------------------
\* A load or store may use this entry here: its declaration was generated,
\* for this function or for all.
Usable(s) == addr[s] \in {GlobalAddr, StackAddr(func)}

\* The entry was declared in the declaration being generated.
InThisDeclaration(s) ==
  \E i \in Stmts("decl") :
    /\ s \in {node.sym : node \in Range(program[i].nodes)}
    /\ i = next \/ i = next - 1

(***************************************************************************)
(* Every access works, with four exceptions: an entry of the same          *)
(* declaration; a parameter that is a value (in the first function); a     *)
(* parameter that leaked out of an earlier function; and a variable        *)
(* declared outside functions behind the first of them.                    *)
(***************************************************************************)
ParamElsewhere(s) ==
  /\ symbols[s].place = "param"
  /\ addr[s].at = "value" \/ (addr[s].at = "stack" /\ addr[s].func # func)

AccessesWork ==
  \A s \in accesses :
    \/ Usable(s)
    \/ InThisDeclaration(s)
    \/ ParamElsewhere(s)
    \/ symbols[s].place = "global" /\ ~IsGlobal(symbols[s])

\* The parameters of the first function are values, and no others are: in
\* every later function their table is deeper than PARAM.  (The test program
\* Advanced/088_hanoi.sy expects them in each of its functions.)
OnlyFirstParamsArrive ==
  \A s \in DOMAIN addr :
    symbols[s].place = "param" /\ addr[s] # NullAddr =>
      (addr[s].at = "value" <=> \A i \in Stmts("func") : addr[s].func <= program[i].sym)

=============================================================================

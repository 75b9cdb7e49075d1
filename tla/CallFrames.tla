----------------------------- MODULE CallFrames -----------------------------
(***************************************************************************)
(* Frames of compiled functions, on the machine: what the prologue that    *)
(* MachineFunction::output prints, the code of FuncCallInstruction and     *)
(* RetInstruction (src/src/Instruction.cpp) and the pop that               *)
(* BranchMInstruction::output (src/src/MachineCode.cpp) puts before bx do  *)
(* to registers and stack.  Each of them knows the frame's size from       *)
(* another moment: the prologue from the end of register allocation, a     *)
(* return from the selection of its instructions.                          *)
(*                                                                         *)
(* The body of a function is free to write what the allocation gave it:    *)
(* the registers it saves, its locals and its slots; to call and to return *)
(* anywhere.  Addresses count words; the stack grows down from StackTop.   *)
(***************************************************************************)
EXTENDS Integers, FiniteSets

CONSTANTS
  Func, Main,   \* the functions; the first one called
  Saved,        \* function -> MachineFunction::saved_regs
  Locals,       \* function -> words allocated by AllocaInstruction
  Spills,       \* function -> words allocated by genSpillCode
  Site,         \* calls in a function
  Value,        \* data
  StackTop,     \* words of the stack
  MaxDepth      \* bound: activations

NoSite == "none"
Nobody == "nobody"      \* the C runtime, which calls Main

\* MachineFunction::AllocSpace(0), when instructions are selected and at the end.
\* Mutant of SizeAtSelection: the last local is not there yet.
SizeOneShort(f) == IF Locals[f] > 1 THEN Locals[f] - 1 ELSE Locals[f]
SizeAtSelection(f) == Locals[f]
FinalSize(f) == Locals[f] + Spills[f]

\* The words of a whole frame: the saved registers, fp, lr, locals and slots.
FrameSize(f) == Cardinality(Saved[f]) + 2 + FinalSize(f)

ASSUME FrameAssumption ==
  /\ Main \in Func /\ Nobody \notin Func
  /\ \A f \in Func : Locals[f] \in Nat /\ Spills[f] \in Nat /\ Saved[f] \subseteq 4 .. 10
  /\ Value # {}
  /\ StackTop \in Nat /\ MaxDepth \in Nat \ {0}

\* The stack has room for MaxDepth frames, Main's and the largest others.
ASSUME StackAssumption ==
  \E largest \in 0 .. StackTop :
    /\ \A f \in Func : FrameSize(f) <= largest
    /\ FrameSize(Main) + (MaxDepth - 1) * largest <= StackTop

Reg == UNION {Saved[f] : f \in Func}
Address == 1 .. StackTop

Data(v) == [k |-> "data", v |-> v]
Computed == {Data(v) : v \in Value}
Pointer(a) == [k |-> "pointer", a |-> a]
ReturnTo(f, s) == [k |-> "return", func |-> f, site |-> s]
Word ==
  {Data(v) : v \in Value} \cup {Pointer(a) : a \in 0 .. StackTop + 1}
    \cup {ReturnTo(f, s) : f \in Func, s \in Site} \cup {ReturnTo(Nobody, NoSite)}

VARIABLES
  pc,       \* "body", "entry" behind a bl, "exit" before the pop, "over", "wild"
  func,     \* the function whose code runs, or Nobody
  regs, r0, fp, sp, lr,
  mem,      \* the words of the stack
  depth,    \* history: activations
  trusted   \* history: no function with spilled registers has returned

vars == <<pc, func, regs, r0, fp, sp, lr, mem, depth, trusted>>

-----------------------------------------------------------------------------
\* Mutant of SavedRegs: the largest register is not saved.
SavedButOne(f) == {r \in Saved[f] : \E q \in Saved[f] : q > r}
\* getSavedRegs, a std::set of register numbers.
SavedRegs(f) == Saved[f]

(***************************************************************************)
(* push {saved, fp, lr} and pop {saved, fp, lr}: the registers take the    *)
(* words from the smallest address on in ascending order, then fp, then    *)
(* lr.                                                                     *)
(***************************************************************************)
PlaceOf(f, r) == Cardinality({q \in SavedRegs(f) : q < r})
FpPlace(f) == Cardinality(SavedRegs(f))
LrPlace(f) == FpPlace(f) + 1
Width(f) == FpPlace(f) + 2

Pushed(f) ==
  [i \in 0 .. Width(f) - 1 |->
     CASE i = FpPlace(f) -> Pointer(fp)
       [] i = LrPlace(f) -> lr
       [] OTHER -> regs[CHOOSE r \in SavedRegs(f) : PlaceOf(f, r) = i]]

Load(a) == IF a \in Address THEN mem[a] ELSE Data(CHOOSE v \in Value : TRUE)
RegsPopped(f) ==
  [r \in Reg |-> IF r \in SavedRegs(f) THEN Load(sp + PlaceOf(f, r)) ELSE regs[r]]

-----------------------------------------------------------------------------
Init ==
  /\ pc = "entry"
  /\ func = Main
  /\ regs \in [Reg -> {Data(CHOOSE v \in Value : TRUE)}]
  /\ r0 = Data(CHOOSE v \in Value : TRUE)
  /\ fp = StackTop + 1 /\ sp = StackTop + 1
  /\ lr = ReturnTo(Nobody, NoSite)
  /\ mem = [a \in Address |-> Data(CHOOSE v \in Value : TRUE)]
  /\ depth = 0
  /\ trusted = TRUE

InBody == pc = "body"

\* MachineFunction::output: push, mov fp, sp, sub sp, sp, #AllocSpace(0)
Prologue ==
  /\ pc = "entry"
  /\ LET base == sp - Width(func)
     IN  /\ mem' = [a \in Address |-> IF a \in base .. sp - 1 THEN Pushed(func)[a - base] ELSE mem[a]]
         /\ fp' = base
         /\ sp' = base - FinalSize(func)
  /\ pc' = "body"
  /\ depth' = depth + 1
  /\ UNCHANGED <<func, regs, r0, lr, trusted>>

\* Code of the body: computes into its registers, loads and stores.
WriteReg ==
  /\ InBody
  /\ \E r \in Saved[func], v \in Value : regs' = [regs EXCEPT ![r] = Data(v)]
  /\ UNCHANGED <<pc, func, r0, fp, sp, lr, mem, depth, trusted>>

\* Mutant of OffsetOf: the first word is at the frame pointer itself.
OffsetFromZero(i) == 1 - i
\* AllocaInstruction::genMachineCode, genSpillCode: word i at [fp, #-4i]
OffsetOf(i) == -i

WriteWord ==
  /\ InBody
  /\ \E i \in 1 .. FinalSize(func), v \in Value :
       mem' = [mem EXCEPT ![fp + OffsetOf(i)] = Data(v)]
  /\ UNCHANGED <<pc, func, regs, r0, fp, sp, lr, depth, trusted>>

\* FuncCallInstruction: up to four arguments go to r0 and further, then bl.
Call ==
  /\ InBody /\ depth < MaxDepth
  /\ \E f \in Func, s \in Site :
       /\ func' = f
       /\ lr' = ReturnTo(func, s)
  /\ r0' \in {r0} \cup Computed
  /\ pc' = "entry"
  /\ UNCHANGED <<regs, fp, sp, mem, depth, trusted>>

\* A function of the runtime library keeps r4 to fp and sp.
LibraryCall ==
  /\ InBody
  /\ r0' \in Computed
  /\ \E s \in Site : lr' = ReturnTo(func, s)
  /\ UNCHANGED <<pc, func, regs, fp, sp, mem, depth, trusted>>

\* RetInstruction: mov r0 if there is a result, add sp, sp, #AllocSpace(0)
\* as it was then
Ret ==
  /\ InBody
  /\ r0' \in {r0} \cup Computed
  /\ sp' = sp + SizeAtSelection(func)
  /\ pc' = "exit"
  /\ UNCHANGED <<func, regs, fp, lr, mem, depth, trusted>>

\* BranchMInstruction::output: pop, bx lr.  A word that is no return address
\* or a frame pointer that is none leads nowhere.
Bx ==
  /\ pc = "exit"
  /\ LET frame == Load(sp + FpPlace(func))
         link == Load(sp + LrPlace(func))
     IN  /\ regs' = RegsPopped(func)
         /\ sp' = sp + Width(func)
         /\ lr' = link
         /\ fp' = IF frame.k = "pointer" THEN frame.a ELSE 0
         /\ func' = IF link.k = "return" THEN link.func ELSE func
         /\ pc' = IF link.k # "return" \/ frame.k # "pointer" THEN "wild"
                  ELSE IF link.func = Nobody THEN "over" ELSE "body"
  /\ depth' = depth - 1
  /\ trusted' = (trusted /\ Spills[func] = 0)
  /\ UNCHANGED <<r0, mem>>

Next == Prologue \/ WriteReg \/ WriteWord \/ Call \/ LibraryCall \/ Ret \/ Bx

Spec == Init /\ [][Next]_vars

-----------------------------------------------------------------------------
(***************************************************************************)
(* The activations, found by unwinding: a frame holds the words of its     *)
(* function and, above them, what its caller had in the registers it saved.*)
(***************************************************************************)
View(f, file, base, site) == [func |-> f, file |-> file, base |-> base, site |-> site]

\* Behind a bl the callee has no frame yet: its caller is on top.
Current == View(IF pc = "entry" THEN lr.func ELSE func, regs, fp, NoSite)

CallerOf(v) ==
  LET n == Cardinality(Saved[v.func])
      frame == Load(v.base + n)
      link == Load(v.base + n + 1)
  IN  View(IF link.k = "return" THEN link.func ELSE Nobody,
           [r \in Reg |-> IF r \in Saved[v.func]
                          THEN Load(v.base + Cardinality({q \in Saved[v.func] : q < r}))
                          ELSE v.file[r]],
           IF frame.k = "pointer" THEN frame.a ELSE 0,
           IF link.k = "return" THEN link.site ELSE NoSite)

\* (A set of one element, so that TLC evaluates every frame once.)
Unwound[n \in Nat] ==
  IF n = 0 THEN Current
  ELSE CHOOSE c \in {IF v.func \in Func THEN CallerOf(v) ELSE v : v \in {Unwound[n - 1]}} : TRUE

Activation(v) ==
  IF v.func \in Func
  THEN [func |-> v.func, regs |-> [r \in Saved[v.func] |-> v.file[r]],
        words |-> [i \in 1 .. FinalSize(v.func) |-> Load(v.base - i)], site |-> v.site]
  ELSE [func |-> Nobody, regs |-> <<>>, words |-> <<>>, site |-> v.site]

Stack ==
  IF trusted
  THEN [i \in 1 .. depth |-> CHOOSE a \in {Activation(v) : v \in {Unwound[depth - i]}} : TRUE]
  ELSE <<>>

(***************************************************************************)
(* Activations keep what is theirs across calls of every depth, also of    *)
(* their own function, and go on where they called.                        *)
(***************************************************************************)
Promise == INSTANCE Activations WITH stack <- Stack, result <- r0
ImplementsActivations == Promise!Spec

\* Each frame ends where that of its caller begins, and the outermost begins
\* at the stack of the C runtime: none overlaps and none leaves a gap.
Bottom(v) == v.base - FinalSize(v.func)
FramesAdjoin ==
  trusted =>
    /\ pc = "body" => sp = Bottom(Current)
    /\ pc = "exit" => sp = fp - Spills[func]
    /\ \A n \in 0 .. depth - 1 :
         LET v == Unwound[n]
             top == v.base + Cardinality(Saved[v.func]) + 2
         IN  top = IF n = depth - 1 THEN StackTop + 1 ELSE Bottom(Unwound[n + 1])

\* What the C runtime had in r4 to r10 and fp is where it will be taken from
\* when Main returns, and at the end it is in the registers again.
Runtime == Unwound[depth]
RuntimeUntouched == [][trusted' => Runtime' = Runtime]_vars

=============================================================================

---------------------------- MODULE Activations -----------------------------
(***************************************************************************)
(* What calls and returns of a compiled program promise, whatever lies in  *)
(* memory: every activation of a function has registers and words of its   *)
(* own, nobody else changes them while it waits for a call to return, and  *)
(* it goes on where it called.  The promise ends when a function with      *)
(* registers spilled to memory returns.                                    *)
(***************************************************************************)
EXTENDS Integers, SequencesExt

CONSTANTS
  Func, Main,  \* the functions of the program, the one that is called first
  Saved,       \* function -> the callee-saved registers it uses
  Locals,      \* function -> words of its local variables
  Spills,      \* function -> words of its spilled registers
  Site,        \* places of calls within a function
  Word         \* what a register or a word of memory may hold

NoSite == "none"

VARIABLES
  stack,    \* the activations, innermost last
  result,   \* the register that hands over results
  trusted

Frame(f) == [func : {f}, regs : [Saved[f] -> Word], words : [1 .. Locals[f] + Spills[f] -> Word],
             site : {NoSite}]

Init ==
  /\ stack = <<>>
  /\ result \in Word
  /\ trusted = TRUE

Top == Len(stack)

Waiting == SubSeq(stack, 1, Top - 1)

\* Instructions that do not call: only the innermost activation changes.
Compute ==
  /\ trusted
  /\ Len(stack') = Top
  /\ stack # <<>> =>
       /\ Front(stack') = Waiting
       /\ Last(stack') \in Frame(Last(stack).func)
  /\ result' \in Word
  /\ UNCHANGED trusted

\* The caller waits at a site; what the callee finds is not promised.
Call ==
  /\ trusted
  /\ Len(stack') = Top + 1
  /\ stack = <<>> => Last(stack').func = Main
  /\ stack # <<>> => \E site \in Site :
       Front(stack') = Append(Waiting, [Last(stack) EXCEPT !.site = site])
  /\ \E f \in Func : Last(stack') \in Frame(f)
  /\ UNCHANGED <<result, trusted>>

\* The caller finds what it had, and goes on.
Return ==
  /\ trusted /\ stack # <<>>
  /\ IF Spills[stack[Top].func] > 0
     THEN trusted' = FALSE
     ELSE /\ stack' = IF Top = 1 THEN <<>> ELSE [Waiting EXCEPT ![Top - 1].site = NoSite]
          /\ UNCHANGED <<result, trusted>>

NothingPromised == ~trusted /\ ~trusted'

Next == Compute \/ Call \/ Return \/ NothingPromised

Spec == Init /\ [][Next]_<<stack, result, trusted>>

=============================================================================

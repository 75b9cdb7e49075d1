----------------------------- MODULE LinearScan -----------------------------
(***************************************************************************)
(* One call of LinearScan::linearScanRegisterAllocation                    *)
(* (src/src/LinearScan.cpp): the live intervals of one function are        *)
(* visited by increasing start, expired intervals give their register      *)
(* back, and the visited interval takes the lowest free register or, when  *)
(* there is none, somebody is marked for spilling.                         *)
(*                                                                         *)
(* The vectors "intervals", "actives" and "regs" are only ever read at an  *)
(* end after a sort, so they are modelled by their contents: todo is what  *)
(* is left of "intervals", actives is a set (nobody enters it twice), and  *)
(* regs a multiset, since the same number can be pushed twice.  std::sort  *)
(* leaves ties in any order, hence the quantifiers over equal keys.        *)
(***************************************************************************)
EXTENDS Integers, FiniteSets

CONSTANTS
  Interval,           \* identities of the live intervals
  FirstReg, LastReg,  \* the allocatable registers; 4 and 10 in the code
  MaxNo               \* the largest instruction number

ASSUME IntervalAssumption == IsFiniteSet(Interval)
ASSUME RegAssumption == /\ FirstReg \in Nat \ {0}
                        /\ LastReg \in Nat
                        /\ FirstReg <= LastReg
ASSUME MaxNoAssumption == MaxNo \in Nat \ {0}

Reg == FirstReg .. LastReg
NoReg == 0                \* Interval::rreg of a freshly built interval
NoUse == -1               \* Interval::end of a definition without a use

VARIABLES
  start, end,   \* Interval::start and Interval::end, fixed during the scan
  todo,         \* the intervals the loop has not visited yet
  actives,      \* the intervals that hold a register
  regs,         \* how often a register is in the pool of free registers
  rreg,         \* Interval::rreg
  spill,        \* Interval::spill
  flag,         \* the result: nobody had to be spilled
  savedRegs     \* MachineFunction::saved_regs

scanVars == <<start, end, todo, actives, regs, rreg, spill, flag, savedRegs>>

\* The vectors and fields of the scan; nobody is active before it is visited,
\* and an active interval holds a register.
TypeOK ==
  /\ start \in [Interval -> 1 .. MaxNo]
  /\ end \in [Interval -> {NoUse} \cup 1 .. MaxNo]
  /\ todo \in SUBSET Interval
  /\ actives \in SUBSET (Interval \ todo)
  /\ regs \in [Reg -> Nat]
  /\ rreg \in [Interval -> Reg \cup {NoReg}]
  /\ \A j \in actives : rreg[j] \in Reg
  /\ spill \in [Interval -> BOOLEAN]
  /\ flag \in BOOLEAN
  /\ savedRegs \in SUBSET Reg

Visited == Interval \ todo

(***************************************************************************)
(* The start of a scan: every register is free, no interval holds one.     *)
(***************************************************************************)
ScanReset ==
  /\ actives = {}
  /\ regs = [r \in Reg |-> 1]
  /\ rreg = [i \in Interval |-> NoReg]
  /\ spill = [i \in Interval |-> FALSE]
  /\ flag = TRUE

Init ==
  /\ start \in [Interval -> 1 .. MaxNo]
  /\ end \in [Interval -> {NoUse} \cup 1 .. MaxNo]
  /\ \A i \in Interval : end[i] = NoUse \/ start[i] <= end[i]
  /\ todo = Interval
  /\ ScanReset
  /\ savedRegs = {}

\* Mutant of IsNext: computeLiveIntervals did not sort the intervals.
IsNextUnsorted(i) == i \in todo

\* i is the interval the loop visits next.
IsNext(i) == i \in todo /\ \A k \in todo : start[i] <= start[k]

\* j can be actives.front(), or actives.back(), after sorting by end.
IsFront(j) == j \in actives /\ \A k \in actives : end[j] <= end[k]
IsBack(j) == j \in actives /\ \A k \in actives : end[k] <= end[j]

\* Mutant of ExpireOldInterval: the register is not pushed back.
ExpireWithoutPush(j) ==
  /\ IsFront(j)
  /\ \E i \in todo : IsNext(i) /\ end[j] < start[i]
  /\ actives' = actives \ {j}
  /\ UNCHANGED <<start, end, todo, regs, rreg, spill, flag, savedRegs>>

(***************************************************************************)
(* One turn of the loop of expireOldIntervals: the interval that ends      *)
(* first has ended before the next interval starts.                        *)
(***************************************************************************)
ExpireOldInterval(j) ==
  /\ IsFront(j)
  /\ \E i \in todo : IsNext(i) /\ end[j] < start[i]
  /\ regs' = [regs EXCEPT ![rreg[j]] = @ + 1]
  /\ actives' = actives \ {j}
  /\ UNCHANGED <<start, end, todo, rreg, spill, flag, savedRegs>>

\* Mutant of ExpiryDone: expireOldIntervals may stop at any time.
ExpiryCutShort(i) == i \in todo

\* expireOldIntervals has returned: whoever ends first ends late enough.
ExpiryDone(i) == \A j \in actives : end[j] >= start[i]

\* Mutant of IsLowestFree: the pool is not asked whether it is empty.
IsLowestUnchecked(r) == \A q \in Reg : r <= q

\* regs.front() of the sorted pool.
IsLowestFree(r) == regs[r] > 0 /\ \A q \in Reg : regs[q] > 0 => r <= q

NoFreeReg == \A r \in Reg : regs[r] = 0

Allocate(i, r) ==
  /\ IsNext(i) /\ ExpiryDone(i)
  /\ IsLowestFree(r)
  /\ rreg' = [rreg EXCEPT ![i] = r]
  /\ regs' = [regs EXCEPT ![r] = @ - 1]
  /\ actives' = actives \cup {i}
  /\ todo' = todo \ {i}
  /\ UNCHANGED <<start, end, spill, flag, savedRegs>>

\* Mutant of SpillActive: the scan does not report that it spilled.
SpillActiveUnreported(i, victim) ==
  /\ IsNext(i) /\ ExpiryDone(i)
  /\ NoFreeReg
  /\ IsBack(victim) /\ end[victim] > end[i]
  /\ spill' = [spill EXCEPT ![victim] = TRUE]
  /\ rreg' = [rreg EXCEPT ![i] = rreg[victim]]
  /\ savedRegs' = savedRegs \cup {rreg[victim]}
  /\ actives' = actives \cup {i}
  /\ todo' = todo \ {i}
  /\ UNCHANGED <<start, end, regs, flag>>

(***************************************************************************)
(* spillAtInterval, when the active interval that ends last ends after i:  *)
(* it is marked and i takes its register.  It stays in actives.            *)
(***************************************************************************)
SpillActive(i, victim) ==
  /\ IsNext(i) /\ ExpiryDone(i)
  /\ NoFreeReg
  /\ IsBack(victim) /\ end[victim] > end[i]
  /\ spill' = [spill EXCEPT ![victim] = TRUE]
  /\ rreg' = [rreg EXCEPT ![i] = rreg[victim]]
  /\ savedRegs' = savedRegs \cup {rreg[victim]}
  /\ actives' = actives \cup {i}
  /\ todo' = todo \ {i}
  /\ flag' = FALSE
  /\ UNCHANGED <<start, end, regs>>

\* spillAtInterval, when i itself ends last.
SpillCurrent(i, back) ==
  /\ IsNext(i) /\ ExpiryDone(i)
  /\ NoFreeReg
  /\ IsBack(back) /\ end[back] <= end[i]
  /\ spill' = [spill EXCEPT ![i] = TRUE]
  /\ todo' = todo \ {i}
  /\ flag' = FALSE
  /\ UNCHANGED <<start, end, actives, regs, rreg, savedRegs>>

Next ==
  \/ \E j \in Interval : ExpireOldInterval(j)
  \/ \E i \in Interval : \E r \in Reg : Allocate(i, r)
  \/ \E i, victim \in Interval : SpillActive(i, victim)
  \/ \E i, back \in Interval : SpillCurrent(i, back)

Spec == Init /\ [][Next]_scanVars

ScanDone == todo = {}

-----------------------------------------------------------------------------
(***************************************************************************)
(* i is written while j is live or the other way round.  A definition that *)
(* is never used (end = NoUse) is still written at its start; two          *)
(* intervals that start at one instruction only matter when both are used. *)
(***************************************************************************)
WrittenDuring(i, j) ==
  /\ start[j] <= start[i] /\ start[i] <= end[j]
  /\ start[i] = start[j] => end[i] # NoUse

Interferes(i, j) == WrittenDuring(i, j) \/ WrittenDuring(j, i)

\* While no interval was spilled, two intervals that interfere hold different
\* registers: the register given out never belongs to somebody still live,
\* whatever the order of equal starts and ends (the promise of flag = true,
\* on which modifyCode rewrites the code).
NoSharing ==
  flag => \A i, j \in Visited : i # j /\ Interferes(i, j) => rreg[i] # rreg[j]

\* A register is free or held by an active interval, also after spills: the
\* pool never loses one, so actives.back() in spillAtInterval always exists.
NoRegisterLost ==
  \A r \in Reg : regs[r] > 0 \/ \E j \in actives : rreg[j] = r

\* The scan fails exactly when it marked somebody: genSpillCode after a failed
\* scan always has work to do, and a successful one leaves nothing spilled.
FailureSpills == flag <=> \A i \in Interval : ~spill[i]

\* The intervals that need a register at instruction number p.
LiveAt(p) ==
  {i \in Interval : start[i] <= p /\ (p <= end[i] \/ p = start[i])}

\* Some instruction needs more registers than exist.
Crowded == \E p \in 1 .. MaxNo : Cardinality(LiveAt(p)) > Cardinality(Reg)

\* The scan gives up only under pressure.
SpillOnlyUnderPressure == ~flag => Crowded

(***************************************************************************)
(* The scan implements the promise of RegisterAssignment: an expiry is not *)
(* seen outside, Allocate gives a register for good, and the first spill   *)
(* gives up.                                                               *)
(***************************************************************************)
Conflicts == {p \in Interval \X Interval : p[1] # p[2] /\ Interferes(p[1], p[2])}

Promise == INSTANCE RegisterAssignment
             WITH Register <- Reg, None <- NoReg, conflict <- Conflicts,
                  crowded <- Crowded, assigned <- rreg, ok <- flag

ImplementsAssignment == Promise!Spec

=============================================================================

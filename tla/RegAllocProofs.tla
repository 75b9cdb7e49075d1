--------------------------- MODULE RegAllocProofs ---------------------------
(***************************************************************************)
(* What LinearScan guarantees for every set of intervals, every register   *)
(* file and every order in which std::sort leaves equal keys, and what     *)
(* allocateRegisters guarantees for every block of code, every number of   *)
(* registers and however many rounds it takes: what holds of one scan      *)
(* holds in every round, the code that is returned saves the registers it  *)
(* writes, and every operand still gets its value.                         *)
(***************************************************************************)
EXTENDS RegAlloc, Stepwise

(***************************************************************************)
(* The inductive strengthening of NoSharing.  The loop visits intervals by *)
(* increasing start (VisitOrder), whatever has left actives is over before *)
(* anything that is still to come (ExpiredIsOver), and as long as nothing  *)
(* was spilled the pool and the registers of actives are disjoint, without *)
(* duplicates (PoolDisjoint).                                              *)
(***************************************************************************)
WellFormed == \A i \in Interval : end[i] = NoUse \/ start[i] <= end[i]

VisitOrder == \A i \in Visited : \A k \in todo : start[i] <= start[k]

ExpiredIsOver ==
  flag => \A j \in Visited \ actives : \A k \in todo : end[j] < start[k]

PoolDisjoint ==
  flag => /\ \A i, j \in actives : i # j => rreg[i] # rreg[j]
          /\ \A r \in Reg : regs[r] <= 1
          /\ \A j \in actives : regs[rreg[j]] = 0

ScanInv ==
  TypeOK /\ WellFormed /\ VisitOrder /\ ExpiredIsOver /\ PoolDisjoint
         /\ NoSharing

LEMMA NumberFacts ==
  /\ Reg \subseteq Nat
  /\ NoReg \notin Reg
  /\ 1 .. MaxNo \subseteq Int
  /\ NoUse \in Int /\ NoUse < 1
BY RegAssumption, MaxNoAssumption DEF Reg, NoReg, NoUse

-----------------------------------------------------------------------------
LEMMA TypeStep ==
  ASSUME TypeOK, [Next]_scanVars
  PROVE  TypeOK'
<1> USE NumberFacts DEF TypeOK
<1>1. ASSUME NEW j \in Interval, ExpireOldInterval(j) PROVE TypeOK'
  <2>1. rreg[j] \in Reg
    BY <1>1 DEF ExpireOldInterval, IsFront
  <2>2. regs[rreg[j]] \in Nat
    BY <2>1
  <2>3. regs' \in [Reg -> Nat]
    <3> DEFINE r == rreg[j]
    <3>1. r \in Reg /\ regs[r] + 1 \in Nat
      BY <2>1, <2>2
    <3>2. regs' = [regs EXCEPT ![r] = regs[r] + 1]
      BY <1>1 DEF ExpireOldInterval
    <3> HIDE DEF r
    <3> QED BY <3>1, <3>2
  <2> QED BY <1>1, <2>3 DEF ExpireOldInterval
<1>2. ASSUME NEW i \in Interval, NEW r \in Reg, Allocate(i, r) PROVE TypeOK'
  <2>1. regs' \in [Reg -> Nat]
    BY <1>2 DEF Allocate, IsLowestFree
  <2>2. /\ rreg' \in [Interval -> Reg \cup {NoReg}]
        /\ \A j \in actives' : rreg'[j] \in Reg
    BY <1>2 DEF Allocate
  <2> QED BY <1>2, <2>1, <2>2 DEF Allocate, IsNext
<1>3. ASSUME NEW i \in Interval, NEW victim \in Interval,
             SpillActive(i, victim)
      PROVE  TypeOK'
  <2>1. rreg[victim] \in Reg
    BY <1>3 DEF SpillActive, IsBack
  <2>2. /\ rreg' \in [Interval -> Reg \cup {NoReg}]
        /\ \A j \in actives' : rreg'[j] \in Reg
    BY <1>3, <2>1 DEF SpillActive
  <2> QED BY <1>3, <2>1, <2>2 DEF SpillActive, IsNext
<1>4. ASSUME NEW i \in Interval, NEW back \in Interval,
             SpillCurrent(i, back)
      PROVE  TypeOK'
  BY <1>4 DEF SpillCurrent, IsNext
<1>5. CASE UNCHANGED scanVars
  BY <1>5 DEF scanVars
<1> QED BY <1>1, <1>2, <1>3, <1>4, <1>5 DEF Next

\* Every variable of the scan keeps its type; an interval in actives has a
\* real register, so the index regs[rreg[j]] of the expiry exists.
THEOREM TypeCorrect == Spec => []TypeOK
<1>1. Init => TypeOK
  BY NumberFacts DEF Init, ScanReset, TypeOK
<1>2. TypeOK /\ [Next]_scanVars => TypeOK'
  BY TypeStep
<1> QED BY <1>1, <1>2, PTL DEF Spec

-----------------------------------------------------------------------------
\* What the visit of interval i does to the order facts, whether i ends up in
\* actives (Allocate, SpillActive) or not (SpillCurrent).
LEMMA VisitKeepsOrder ==
  ASSUME TypeOK, VisitOrder, NEW i \in Interval, IsNext(i),
         todo' = todo \ {i}, UNCHANGED start
  PROVE  VisitOrder'
BY DEF TypeOK, VisitOrder, IsNext, Visited

LEMMA InvInit == Init => ScanInv
BY NumberFacts DEF Init, ScanReset, ScanInv, TypeOK, WellFormed, VisitOrder,
   ExpiredIsOver, PoolDisjoint, NoSharing, Visited

LEMMA InvExpire ==
  ASSUME ScanInv, TypeOK', NEW j \in Interval, ExpireOldInterval(j)
  PROVE  ScanInv'
<1> USE DEF ScanInv, Visited
<1>1. WellFormed' /\ VisitOrder' /\ NoSharing'
  BY DEF ExpireOldInterval, WellFormed, VisitOrder, NoSharing, Interferes,
         WrittenDuring
<1>2. ExpiredIsOver'
  <2> SUFFICES ASSUME flag, NEW e \in Visited \ actives', NEW k \in todo
               PROVE  end[e] < start[k]
    BY DEF ExpireOldInterval, ExpiredIsOver
  <2>1. PICK i \in todo : IsNext(i) /\ end[j] < start[i]
    BY DEF ExpireOldInterval
  <2>2. CASE e = j
    BY <2>1, <2>2, NumberFacts DEF IsNext, TypeOK
  <2>3. CASE e # j
    BY <2>3 DEF ExpireOldInterval, ExpiredIsOver
  <2> QED BY <2>2, <2>3
<1>3. PoolDisjoint'
  <2>1. j \in actives /\ rreg[j] \in Reg
    BY DEF ExpireOldInterval, IsFront, TypeOK
  <2> QED BY <2>1, NumberFacts DEF ExpireOldInterval, PoolDisjoint, TypeOK
<1> QED BY <1>1, <1>2, <1>3

\* The register taken from the pool differs from that of every visited
\* interval that interferes with i: the active ones hold other registers, the
\* expired ones are over.
LEMMA AllocateIsFresh ==
  ASSUME ScanInv, NEW i \in Interval, NEW r \in Reg, Allocate(i, r), flag,
         NEW j \in Visited, Interferes(i, j)
  PROVE  rreg[j] # r
<1> USE DEF ScanInv, Visited
<1>1. CASE j \in actives
  BY <1>1, NumberFacts DEF PoolDisjoint, Allocate, IsLowestFree, TypeOK
<1>2. CASE j \notin actives
  <2>1. i \in todo /\ end[j] < start[i] /\ start[j] <= start[i]
    BY <1>2 DEF Allocate, IsNext, ExpiredIsOver, VisitOrder
  <2>2. /\ start[i] \in Int /\ start[j] \in Int
        /\ end[i] \in Int /\ end[j] \in Int
    BY NumberFacts DEF TypeOK
  <2>3. end[j] = NoUse \/ start[j] <= end[j]
    BY DEF WellFormed
  <2> QED BY <2>1, <2>2, <2>3 DEF Interferes, WrittenDuring
<1> QED BY <1>1, <1>2

LEMMA InvAllocate ==
  ASSUME ScanInv, TypeOK', NEW i \in Interval, NEW r \in Reg, Allocate(i, r)
  PROVE  ScanInv'
<1> USE DEF ScanInv, Visited
<1>1. WellFormed' /\ VisitOrder'
  BY VisitKeepsOrder DEF Allocate, WellFormed
<1>2. ExpiredIsOver'
  BY DEF Allocate, ExpiredIsOver
<1>3. PoolDisjoint'
  <2> SUFFICES ASSUME flag PROVE PoolDisjoint'
    BY DEF PoolDisjoint, Allocate
  <2>1. \A j \in actives : rreg'[j] = rreg[j] /\ rreg[j] # r
    BY NumberFacts DEF Allocate, PoolDisjoint, IsLowestFree, IsNext, TypeOK
  <2>2. rreg'[i] = r
    BY DEF Allocate, TypeOK
  <2>3. regs[r] = 1
    BY NumberFacts DEF Allocate, IsLowestFree, PoolDisjoint, TypeOK
  <2>4. \A q \in Reg : regs'[q] = IF q = r THEN 0 ELSE regs[q]
    BY <2>3 DEF Allocate, TypeOK
  <2>5. \A a \in actives' : a = i \/ a \in actives
    BY DEF Allocate
  <2>6. \A a, b \in actives' : a # b => rreg'[a] # rreg'[b]
    BY <2>1, <2>2, <2>5 DEF PoolDisjoint
  <2>7. \A q \in Reg : regs'[q] <= 1
    BY <2>4, NumberFacts DEF PoolDisjoint
  <2>8. \A a \in actives' : regs'[rreg'[a]] = 0
    BY <2>1, <2>2, <2>4, <2>5 DEF PoolDisjoint, TypeOK
  <2> QED BY <2>6, <2>7, <2>8 DEF PoolDisjoint
<1>4. NoSharing'
  <2> SUFFICES ASSUME flag, NEW a \in Visited', NEW b \in Visited', a # b,
                      Interferes(a, b)
               PROVE  rreg'[a] # rreg'[b]
    BY DEF Allocate, NoSharing, Interferes, WrittenDuring
  <2>1. \A c \in Visited : rreg'[c] = rreg[c]
    BY DEF Allocate, IsNext, TypeOK
  <2>2. rreg'[i] = r
    BY DEF Allocate, TypeOK
  <2>3. \A c \in Visited' : c = i \/ c \in Visited
    BY DEF Allocate
  <2>4. Interferes(b, a)
    BY DEF Interferes
  <2>5. CASE a \in Visited /\ b \in Visited
    BY <2>1, <2>5 DEF NoSharing
  <2>6. CASE a = i /\ b \in Visited
    BY <2>1, <2>2, <2>6, AllocateIsFresh
  <2>7. CASE b = i /\ a \in Visited
    BY <2>1, <2>2, <2>4, <2>7, AllocateIsFresh
  <2> QED BY <2>3, <2>5, <2>6, <2>7
<1> QED BY <1>1, <1>2, <1>3, <1>4

\* Once a spill has happened only the order facts are still claimed.
LEMMA InvSpill ==
  ASSUME ScanInv, TypeOK', NEW i \in Interval, NEW b \in Interval,
         SpillActive(i, b) \/ SpillCurrent(i, b)
  PROVE  ScanInv'
<1>1. /\ flag' = FALSE
      /\ IsNext(i) /\ todo' = todo \ {i}
      /\ UNCHANGED <<start, end>>
  BY DEF SpillActive, SpillCurrent
<1>2. WellFormed' /\ VisitOrder'
  BY <1>1, VisitKeepsOrder DEF ScanInv, WellFormed
<1> QED
  BY <1>1, <1>2 DEF ScanInv, ExpiredIsOver, PoolDisjoint, NoSharing

LEMMA InvStep ==
  ASSUME ScanInv, [Next]_scanVars
  PROVE  ScanInv'
<1>1. CASE UNCHANGED scanVars
  BY <1>1 DEF scanVars, ScanInv, TypeOK, WellFormed, VisitOrder,
     ExpiredIsOver, PoolDisjoint, NoSharing, Interferes, WrittenDuring,
     Visited
<1>2. TypeOK'
  BY TypeStep DEF ScanInv
<1> QED BY <1>1, <1>2, InvExpire, InvAllocate, InvSpill DEF Next

LEMMA ScanInvariant == Spec => []ScanInv
BY InvInit, InvStep, PTL DEF Spec

\* As long as the scan has not spilled, no two visited intervals that
\* interfere share a register; in particular when it returns true.
THEOREM NeverShares == Spec => []NoSharing
<1>1. ScanInv => NoSharing
  BY DEF ScanInv
<1> QED BY <1>1, ScanInvariant, PTL

-----------------------------------------------------------------------------
LEMMA PoolStep ==
  ASSUME TypeOK, NoRegisterLost, [Next]_scanVars
  PROVE  NoRegisterLost'
<1> SUFFICES ASSUME NEW q \in Reg
             PROVE  regs'[q] > 0 \/ \E j \in actives' : rreg'[j] = q
  BY DEF NoRegisterLost
<1> USE NumberFacts DEF TypeOK
<1>0. regs[q] > 0 \/ \E j \in actives : rreg[j] = q
  BY DEF NoRegisterLost
<1>1. ASSUME NEW j \in Interval, ExpireOldInterval(j)
      PROVE  regs'[q] > 0 \/ \E k \in actives' : rreg'[k] = q
  <2>1. j \in actives /\ rreg[j] \in Reg /\ regs[rreg[j]] \in Nat
    BY <1>1 DEF ExpireOldInterval, IsFront
  <2>2. CASE q = rreg[j]
    BY <1>1, <2>1, <2>2 DEF ExpireOldInterval
  <2>3. CASE q # rreg[j]
    BY <1>0, <1>1, <2>1, <2>3 DEF ExpireOldInterval
  <2> QED BY <2>2, <2>3
<1>2. ASSUME NEW i \in Interval, NEW r \in Reg, Allocate(i, r)
      PROVE  regs'[q] > 0 \/ \E k \in actives' : rreg'[k] = q
  <2>1. i \in actives' /\ rreg'[i] = r /\ actives \subseteq actives'
    BY <1>2 DEF Allocate
  <2>2. \A k \in actives : rreg'[k] = rreg[k]
    BY <1>2 DEF Allocate, IsNext
  <2>3. q # r => regs'[q] = regs[q]
    BY <1>2 DEF Allocate
  <2> QED BY <1>0, <2>1, <2>2, <2>3
<1>3. ASSUME NEW i \in Interval, NEW victim \in Interval,
             SpillActive(i, victim)
      PROVE  regs'[q] > 0 \/ \E k \in actives' : rreg'[k] = q
  <2>1. \A k \in actives : k \in actives' /\ rreg'[k] = rreg[k]
    BY <1>3 DEF SpillActive, IsNext
  <2> QED BY <1>0, <1>3, <2>1 DEF SpillActive
<1>4. ASSUME NEW i \in Interval, NEW back \in Interval,
             SpillCurrent(i, back)
      PROVE  regs'[q] > 0 \/ \E k \in actives' : rreg'[k] = q
  BY <1>0, <1>4 DEF SpillCurrent
<1>5. CASE UNCHANGED scanVars
  BY <1>0, <1>5 DEF scanVars
<1> QED BY <1>1, <1>2, <1>3, <1>4, <1>5 DEF Next

\* Every register stays in the pool or with an active interval, with and
\* without spills, so spillAtInterval always finds an actives.back().
THEOREM PoolComplete == Spec => []NoRegisterLost
<1>1. Init => NoRegisterLost
  BY DEF Init, ScanReset, NoRegisterLost
<1> QED BY <1>1, PoolStep, TypeCorrect, PTL DEF Spec

-----------------------------------------------------------------------------
LEMMA FailureStep ==
  ASSUME TypeOK, FailureSpills, [Next]_scanVars
  PROVE  FailureSpills'
BY DEF TypeOK, FailureSpills, Next, ExpireOldInterval, Allocate, SpillActive,
   SpillCurrent, IsNext, IsBack, scanVars

\* Nobody is marked before the first failure, and a failed scan has marked
\* somebody: the loop of allocateRegisters never rewrites for nothing.
THEOREM FailureMeansSpill == Spec => []FailureSpills
<1>1. Init => FailureSpills
  BY DEF Init, ScanReset, FailureSpills
<1> QED BY <1>1, FailureStep, TypeCorrect, PTL DEF Spec

-----------------------------------------------------------------------------
(***************************************************************************)
(* The scan only gives up under pressure.  At the first spill the pool is  *)
(* empty, so every register belongs to an active interval; these all cover *)
(* the start of the visited interval, which needs one register more.       *)
(***************************************************************************)
LEMMA FirstSpillPressure ==
  ASSUME ScanInv, NoRegisterLost, NEW i \in Interval,
         IsNext(i), ExpiryDone(i), NoFreeReg
  PROVE  Cardinality(LiveAt(start[i])) > Cardinality(Reg)
<1> USE DEF ScanInv
<1> DEFINE live == LiveAt(start[i])
<1> DEFINE holder == [j \in actives |-> rreg[j]]
<1>1. /\ IsFiniteSet(live) /\ live \subseteq Interval
      /\ IsFiniteSet(actives)
  BY IntervalAssumption, FS_Subset DEF LiveAt, TypeOK
<1>2. holder \in Surjection(actives, Reg)
  <2>1. \A r \in Reg : \E j \in actives : rreg[j] = r
    BY NumberFacts DEF NoRegisterLost, NoFreeReg
  <2> QED BY <2>1 DEF Surjection, TypeOK
<1>3. Cardinality(Reg) <= Cardinality(actives)
  BY <1>1, <1>2, FS_Surjection
<1>4. i \in live /\ i \notin actives
  BY NumberFacts DEF IsNext, LiveAt, TypeOK
<1>5. actives \subseteq live
  <2> SUFFICES ASSUME NEW j \in actives PROVE j \in live
    OBVIOUS
  <2>1. start[j] <= start[i] /\ j \in Interval
    BY DEF IsNext, VisitOrder, Visited, TypeOK
  <2>2. start[i] <= end[j]
    BY <2>1, NumberFacts DEF ExpiryDone, TypeOK
  <2> QED BY <2>1, <2>2 DEF LiveAt
<1>6. /\ IsFiniteSet(actives \cup {i})
      /\ Cardinality(actives \cup {i}) = Cardinality(actives) + 1
  BY <1>1, <1>4, FS_AddElement
<1>7. Cardinality(actives \cup {i}) <= Cardinality(live)
  BY <1>1, <1>4, <1>5, FS_Subset
<1>8. /\ Cardinality(actives) \in Nat
      /\ Cardinality(live) \in Nat
      /\ Cardinality(Reg) \in Nat
  BY <1>1, <1>2, FS_CardinalityType, FS_Surjection
<1> HIDE DEF live
<1>9. Cardinality(live) > Cardinality(Reg)
  BY <1>3, <1>6, <1>7, <1>8
<1> QED BY <1>9 DEF live

\* If the scan fails, some instruction really needs more registers than there
\* are: no spill code for a function that fits.
THEOREM SpillsOnlyUnderPressure == Spec => []SpillOnlyUnderPressure
<1>1. Init => SpillOnlyUnderPressure
  BY DEF Init, ScanReset, SpillOnlyUnderPressure
<1>2. ScanInv /\ NoRegisterLost /\ SpillOnlyUnderPressure /\ [Next]_scanVars
      => SpillOnlyUnderPressure'
  <2> SUFFICES ASSUME ScanInv, NoRegisterLost, SpillOnlyUnderPressure,
                      [Next]_scanVars, ~flag'
               PROVE  SpillOnlyUnderPressure'
    BY DEF SpillOnlyUnderPressure
  <2>0. UNCHANGED <<start, end>>
    BY DEF Next, scanVars, ExpireOldInterval, Allocate, SpillActive,
       SpillCurrent
  <2>1. CASE ~flag
    BY <2>0, <2>1 DEF SpillOnlyUnderPressure, Crowded, LiveAt
  <2>2. CASE flag
    <3>1. PICK i \in Interval : IsNext(i) /\ ExpiryDone(i) /\ NoFreeReg
      BY <2>2 DEF Next, scanVars, ExpireOldInterval, Allocate, SpillActive,
         SpillCurrent
    <3>2. start[i] \in 1 .. MaxNo
      BY DEF ScanInv, TypeOK
    <3>3. Cardinality(LiveAt(start[i])) > Cardinality(Reg)
      BY <3>1, FirstSpillPressure
    <3> QED BY <2>0, <3>2, <3>3 DEF SpillOnlyUnderPressure, Crowded, LiveAt
  <2> QED BY <2>1, <2>2
<1> QED BY <1>1, <1>2, ScanInvariant, PoolComplete, PTL DEF Spec

-----------------------------------------------------------------------------
(***************************************************************************)
(* The refinement.  Nobody holds a register before it is visited, so what  *)
(* Allocate fills in was open, and its freshness against visited intervals *)
(* is freshness against all.                                               *)
(***************************************************************************)
TodoUnassigned == \A i \in todo : rreg[i] = NoReg

LEMMA TodoStaysUnassigned == Spec => []TodoUnassigned
<1>1. Init => TodoUnassigned
  BY DEF Init, ScanReset, TodoUnassigned
<1>2. TypeOK /\ TodoUnassigned /\ [Next]_scanVars => TodoUnassigned'
  BY DEF TypeOK, TodoUnassigned, Next, ExpireOldInterval, Allocate, SpillActive,
     SpillCurrent, scanVars
<1> QED BY <1>1, <1>2, TypeCorrect, PTL DEF Spec

LEMMA RangesStay ==
  ASSUME UNCHANGED <<start, end>>
  PROVE  UNCHANGED <<Conflicts, Crowded>>
BY DEF Conflicts, Crowded, LiveAt, Interferes, WrittenDuring

LEMMA AllocateAssigns ==
  ASSUME ScanInv, TodoUnassigned, flag,
         NEW i \in Interval, NEW r \in Reg, Allocate(i, r)
  PROVE  Promise!Assign(i, r)
<1>1. i \in todo /\ rreg[i] = NoReg
  BY DEF Allocate, IsNext, TodoUnassigned
<1>2. ASSUME NEW j \in Interval, Promise!InConflict(i, j) PROVE rreg[j] # r
  <2>1. Interferes(i, j)
    BY <1>2 DEF Promise!InConflict, Conflicts, Interferes
  <2>2. CASE j \in todo
    BY <2>2, NumberFacts DEF TodoUnassigned
  <2>3. CASE j \notin todo
    BY <2>1, <2>3, AllocateIsFresh DEF Visited
  <2> QED BY <2>2, <2>3
<1>3. UNCHANGED <<Conflicts, Crowded>>
  BY RangesStay DEF Allocate
<1> QED BY <1>1, <1>2, <1>3 DEF Allocate, Promise!Assign

\* Every scan is a behaviour of RegisterAssignment: a register given stays
\* given, no conflict is ever created, giving up is justified.
THEOREM ScanKeepsPromise == Spec => ImplementsAssignment
<1>1. Init => Promise!Init
  BY DEF Init, ScanReset, Promise!Init, Conflicts, Crowded
<1>2. ScanInv /\ NoRegisterLost /\ TodoUnassigned /\ [Next]_scanVars
      => [Promise!Next]_(Promise!vars)
  <2> SUFFICES ASSUME ScanInv, NoRegisterLost, TodoUnassigned, [Next]_scanVars
               PROVE  Promise!Next \/ UNCHANGED Promise!vars
    OBVIOUS
  <2>0. UNCHANGED <<start, end>>
    BY DEF Next, scanVars, ExpireOldInterval, Allocate, SpillActive, SpillCurrent
  <2>1. UNCHANGED <<Conflicts, Crowded>>
    BY <2>0, RangesStay
  <2>2. CASE UNCHANGED scanVars
    BY <2>1, <2>2 DEF scanVars, Promise!vars
  <2>3. ASSUME NEW j \in Interval, ExpireOldInterval(j) PROVE UNCHANGED Promise!vars
    BY <2>1, <2>3 DEF ExpireOldInterval, Promise!vars
  <2>4. CASE ~flag /\ ~flag'
    BY <2>1, <2>4 DEF Promise!Next, Promise!GivenUp
  <2>5. ASSUME NEW i \in Interval, NEW r \in Reg, Allocate(i, r), flag
        PROVE  Promise!Next
    BY <2>5, AllocateAssigns DEF Promise!Next
  <2>6. ASSUME NEW i \in Interval, NEW b \in Interval,
               SpillActive(i, b) \/ SpillCurrent(i, b), flag
        PROVE  Promise!Next
    <3>1. IsNext(i) /\ ExpiryDone(i) /\ NoFreeReg /\ flag' = FALSE
      BY <2>6 DEF SpillActive, SpillCurrent
    <3>2. Cardinality(LiveAt(start[i])) > Cardinality(Reg)
      BY <3>1, FirstSpillPressure
    <3>3. start[i] \in 1 .. MaxNo
      BY DEF ScanInv, TypeOK
    <3>4. Crowded
      BY <3>2, <3>3 DEF Crowded
    <3> QED BY <2>1, <2>6, <3>1, <3>4 DEF Promise!Next, Promise!GiveUp
  <2>7. flag \in BOOLEAN
    BY DEF ScanInv, TypeOK
  <2>8. ~flag => ~flag' \/ UNCHANGED scanVars
    BY <2>7 DEF Next, scanVars, ExpireOldInterval, Allocate, SpillActive, SpillCurrent
  <2> QED BY <2>2, <2>3, <2>4, <2>5, <2>6, <2>7, <2>8 DEF Next
<1> QED
  BY <1>1, <1>2, ScanInvariant, PoolComplete, TodoStaysUnassigned, PTL
     DEF Spec, ImplementsAssignment, Promise!Spec

-----------------------------------------------------------------------------
ProperInv ==
  /\ Promise!Proper
  /\ Conflicts \subseteq {p \in Interval \X Interval : p[1] # p[2]}
  /\ flag => rreg \in [Interval -> Reg \cup {NoReg}]

\* The promise is what modifyCode relies on: whatever keeps to it hands out a
\* proper assignment.
THEOREM AlwaysProper == Promise!Spec => []Promise!Proper
<1> USE DEF Promise!InConflict
<1>1. Promise!Init => ProperInv
  BY DEF Promise!Init, ProperInv, Promise!Proper
<1>2. ProperInv /\ [Promise!Next]_(Promise!vars) => ProperInv'
  <2> SUFFICES ASSUME ProperInv, [Promise!Next]_(Promise!vars) PROVE ProperInv'
    OBVIOUS
  <2>1. ASSUME NEW i \in Interval, NEW r \in Reg, Promise!Assign(i, r) PROVE ProperInv'
    <3>1. flag /\ rreg \in [Interval -> Reg \cup {NoReg}] /\ rreg' = [rreg EXCEPT ![i] = r]
          /\ UNCHANGED <<Conflicts, flag>>
      BY <2>1 DEF Promise!Assign, ProperInv
    <3>2. rreg' \in [Interval -> Reg \cup {NoReg}]
      BY <3>1
    <3>3. \A k \in Interval : rreg'[k] = IF k = i THEN r ELSE rreg[k]
      BY <3>1
    <3>4. ASSUME NEW k \in Interval, NEW l \in Interval, Promise!InConflict(k, l), rreg'[k] # NoReg
          PROVE  rreg'[k] # rreg'[l]
      <4>1. k # l
        BY <3>4 DEF ProperInv
      <4>2. Promise!InConflict(l, k)
        BY <3>4
      <4>3. CASE k = i
        BY <2>1, <3>3, <3>4, <4>1, <4>3 DEF Promise!Assign
      <4>4. CASE l = i
        BY <2>1, <3>3, <4>1, <4>2, <4>4 DEF Promise!Assign
      <4>5. CASE k # i /\ l # i
        BY <3>1, <3>3, <3>4, <4>5 DEF ProperInv, Promise!Proper
      <4> QED BY <4>3, <4>4, <4>5
    <3>5. Promise!Proper'
      BY <3>1, <3>4 DEF Promise!Proper
    <3> QED BY <3>1, <3>2, <3>5 DEF ProperInv
  <2>2. CASE Promise!GiveUp \/ Promise!GivenUp
    BY <2>2 DEF Promise!GiveUp, Promise!GivenUp, ProperInv, Promise!Proper
  <2>3. CASE UNCHANGED Promise!vars
    BY <2>3 DEF Promise!vars, ProperInv, Promise!Proper
  <2> QED BY <2>1, <2>2, <2>3 DEF Promise!Next
<1>3. ProperInv => Promise!Proper
  BY DEF ProperInv
<1> QED BY <1>1, <1>2, <1>3, PTL DEF Promise!Spec

-----------------------------------------------------------------------------
Instruction ==
  [op : {"op", "pass", "first", "ldr", "str", "addr"}, def : Nat, uses : SUBSET Nat, slot : Nat]

CodeTypeOK ==
  /\ code \in Seq(Instruction) /\ Len(code) \in 0 .. MaxNo
  /\ phase # "select" => Len(code) >= 1
  /\ frame \in Nat
  /\ phase \in {"select", "intervals", "scan", "done"}

(***************************************************************************)
(* A round after computeLiveIntervals: the ranges are those of the code,   *)
(* the scan has its own invariant, and what it has visited holds a         *)
(* register (VisitedHold) as long as it has not given up.                  *)
(***************************************************************************)
RangesRight ==
  /\ start = [i \in Interval |-> IF i \in Defining THEN Parent(i) ELSE 1]
  /\ end = [i \in Interval |->
              IF i \in Defining THEN MaxOf({NoUse} \cup ReachedUses(i)) ELSE NoUse]

VisitedHold == flag => \A i \in Defining \ todo : rreg[i] \in Reg

SpilledDefine == \A i \in Interval : spill[i] => i \in Defining

RoundInv ==
  /\ RangesRight
  /\ todo \subseteq Defining /\ actives \subseteq Defining
  /\ ScanInv /\ NoRegisterLost /\ FailureSpills
  /\ VisitedHold /\ SpilledDefine

Finished == phase = "done" => todo = {} /\ flag /\ \A i \in Defining : rreg[i] \in savedRegs

RAInv ==
  /\ TypeOK /\ CodeTypeOK
  /\ phase \in {"scan", "done"} => RoundInv
  /\ Finished

(***************************************************************************)
(* The code between two rounds, while every slot is near: an operand has a *)
(* definition before it, and a reload reads a slot that was stored before  *)
(* and that only ever gets the register the reload defines.                *)
(***************************************************************************)
NearShape(c, size) ==
  \/ /\ c.op \in {"op", "pass", "first"}
     /\ c.uses \subseteq VReg /\ c.def \in VReg \cup {NoVReg}
  \/ c.op = "ldr" /\ c.def \in VReg /\ c.uses = {} /\ c.slot \in 1 .. size
  \/ c.op = "str" /\ c.def = NoVReg /\ c.slot \in 1 .. size /\ \E v \in VReg : c.uses = {v}

IsStore(p, slot) == code[p].op = "str" /\ code[p].slot = slot

DefinedBefore(p) == \A v \in code[p].uses : \E d \in 1 .. p - 1 : code[d].def = v

LoadMatches(p) ==
  code[p].op = "ldr" =>
    /\ \E s \in 1 .. p - 1 : IsStore(s, code[p].slot)
    /\ \A s \in 1 .. Len(code) : IsStore(s, code[p].slot) => code[s].uses = {code[p].def}

CodeRight ==
  frame <= NearSlots =>
    \A p \in 1 .. Len(code) : NearShape(code[p], frame) /\ DefinedBefore(p) /\ LoadMatches(p)

(***************************************************************************)
(* The code between two rounds, far slots included: each instruction       *)
(* defines and uses what its kind may; what was spilled is used directly   *)
(* behind its reload, or stored directly behind its definition (Close),    *)
(* and an address only ever serves the store behind it (Sourced).          *)
(***************************************************************************)
Bound(size) == (size + 2) * (MaxNo + 1)

KindRight(c, old, size) ==
  /\ c.op \in {"op", "pass", "first"} =>
       /\ c.def \in VReg \cup {NoVReg} /\ c.uses \subseteq VReg
       /\ Cardinality(c.uses) <= MaxUses \/ Cardinality(c.uses) <= 2
  /\ c.op \in {"pass", "first"} => c.def # NoVReg
  /\ c.op = "ldr" => c.def \in old /\ c.uses \cap VReg = {}
  /\ c.op = "addr" => c.def \notin VReg \cup {NoVReg} /\ c.uses = {}
  /\ c.op = "str" => c.def = NoVReg /\ c.uses \cap VReg \subseteq old /\ Cardinality(c.uses) <= 2
  /\ IsFiniteSet(c.uses) /\ NoVReg \notin c.uses
  /\ \A v \in {c.def} \cup c.uses : v < Bound(size)

Quiet(p) == code[p].op \in {"ldr", "addr"}
Close(r, q) == r < q /\ \A e \in r + 1 .. q - 1 : Quiet(e)

Sourced(q, v) ==
  /\ v \in VReg \ spilledVRegs =>
       Selected(q) /\ \E d \in 1 .. q - 1 : Selected(d) /\ code[d].def = v
  /\ v \in spilledVRegs =>
       \E r \in 1 .. Len(code) :
         /\ Close(r, q) /\ code[r].def = v
         /\ code[r].op \in IF Selected(q) THEN {"ldr", "pass"} ELSE {"op"}
  /\ v \notin VReg =>
       \A d \in 1 .. Len(code) : code[d].def = v => d > q \/ (code[q].op = "str" /\ Close(d, q))

(***************************************************************************)
(* An operand handed on serves the next selected instruction and no other; *)
(* of two conditional moves the second follows at once; the plain          *)
(* definition of a register is the last the selected code has of it, and   *)
(* spill code for the register comes later still; every reload is of use.  *)
(***************************************************************************)
HandedOn(p) ==
  code[p].op = "pass" =>
    \E h \in 1 .. Len(code) : Selected(h) /\ Close(p, h) /\ ReachedUses(p) = {h}

BothMoves(p) ==
  code[p].op = "first" =>
    /\ p + 1 \in 1 .. Len(code) /\ code[p + 1].op = "op"
    /\ code[p + 1].def = code[p].def /\ code[p + 1].uses = {}

IsLast(p) ==
  \A q \in 1 .. Len(code) :
    code[p].op = "op" /\ Selected(q) /\ code[q].def = code[p].def /\ code[p].def # NoVReg => q <= p

SpillLast(p) ==
  code[p].op \in {"ldr", "str"} =>
    \A q \in 1 .. Len(code) :
      Selected(q) /\ code[q].def \in VReg \cap ({code[p].def} \cup code[p].uses) => q < p

ReloadUsed(p) == code[p].op = "ldr" => ReachedUses(p) # {}

SpillShape ==
  /\ spilledVRegs \subseteq VReg
  /\ \A p \in 1 .. Len(code) :
       /\ KindRight(code[p], spilledVRegs, frame) /\ \A v \in code[p].uses : Sourced(p, v)
       /\ HandedOn(p) /\ BothMoves(p) /\ IsLast(p) /\ SpillLast(p) /\ ReloadUsed(p)

(***************************************************************************)
(* What a scan marks is a plain definition of a register that was never    *)
(* marked before.                                                          *)
(***************************************************************************)
FreshDef(i) ==
  i \in Defining /\ code[i].op = "op" /\ code[i].def \in VReg \ spilledVRegs
SpillsFresh == phase = "scan" => \A i \in Interval : spill[i] => FreshDef(i)

\* While instructions are selected a register has the number of its last place.
Selecting ==
  phase = "select" =>
    /\ spilledVRegs = {} /\ Len(code) <= Length
    /\ \A p \in 1 .. Len(code) :
         /\ Selected(p)
         /\ code[p].def # NoVReg => p <= code[p].def /\ code[p].def <= Len(code)
         /\ code[p].op = "op" => code[p].def \in {NoVReg, p}

SpillInv == RAInv /\ CodeRight /\ SpillShape /\ SpillsFresh /\ Selecting

-----------------------------------------------------------------------------
LEMMA Greatest ==
  ASSUME NEW m \in Nat, NEW S, S \subseteq -1 .. m, NEW e \in S
  PROVE  MaxOf(S) \in S /\ \A y \in S : y <= MaxOf(S)
BY GreatestExists DEF MaxOf

LEMMA CodeFacts ==
  ASSUME CodeTypeOK
  PROVE  /\ Len(code) \in Nat /\ Len(code) \in 0 .. MaxNo
         /\ 1 .. Len(code) \subseteq Interval
         /\ Defining \subseteq 1 .. Len(code)
         /\ \A p \in 1 .. Len(code) : code[p] \in Instruction
<1>1. Len(code) \in Nat /\ Len(code) \in 0 .. MaxNo
  BY DEF CodeTypeOK
<1>2. 1 .. Len(code) \subseteq Interval
  BY <1>1, IntervalsAreNumbers, MaxNoAssumption
<1>3. \A p \in 1 .. Len(code) : code[p] \in Instruction
  <2> HIDE DEF Instruction
  <2> QED BY DEF CodeTypeOK
<1> QED BY <1>1, <1>2, <1>3 DEF Defining

\* The end of the range of a definition: not before it, and no use it reaches
\* is later.
LEMMA EndOfRange ==
  ASSUME CodeTypeOK, NEW i \in Defining
  PROVE  LET e == MaxOf({NoUse} \cup ReachedUses(i))
         IN  /\ e = NoUse \/ (e \in ReachedUses(i) /\ e \in i + 1 .. Len(code))
             /\ \A q \in ReachedUses(i) : q <= e
<1>1. Len(code) \in Nat /\ i \in 1 .. Len(code)
  BY CodeFacts
<1>2. ReachedUses(i) \subseteq i + 1 .. Len(code)
  BY DEF ReachedUses
<1> DEFINE S == {NoUse} \cup ReachedUses(i)
<1>3. S \subseteq -1 .. Len(code) /\ NoUse \in S
  BY <1>1, <1>2 DEF NoUse
<1>4. MaxOf(S) \in S /\ \A y \in S : y <= MaxOf(S)
  <2> HIDE DEF S
  <2> QED BY <1>1, <1>3, Greatest
<1> QED BY <1>2, <1>4

\* The parent of an operand is its own instruction, or the one use it has.
LEMMA ParentFacts ==
  ASSUME CodeTypeOK, SpillShape, NEW p \in 1 .. Len(code)
  PROVE  /\ Parent(p) \in 1 .. Len(code) /\ p <= Parent(p)
         /\ code[p].op # "pass" => Parent(p) = p
         /\ code[p].op = "pass" =>
              /\ Selected(Parent(p)) /\ Close(p, Parent(p)) /\ ReachedUses(p) = {Parent(p)}
<1>1. Len(code) \in Nat /\ p \in Nat
  BY CodeFacts
<1>2. CASE code[p].op # "pass"
  BY <1>1, <1>2 DEF Parent
<1>3. CASE code[p].op = "pass"
  <2>1. PICK h \in 1 .. Len(code) : Selected(h) /\ Close(p, h) /\ ReachedUses(p) = {h}
    BY <1>3 DEF SpillShape, HandedOn
  <2> DEFINE Heir(q) == Selected(q) /\ \A k \in p + 1 .. q - 1 : ~Selected(k)
  <2>2. p < h /\ h \in p + 1 .. Len(code) /\ h \in Nat
    BY <1>1, <2>1 DEF Close
  <2>3. Heir(h)
    BY <2>1 DEF Close, Quiet, Selected
  <2>4. ASSUME NEW q \in p + 1 .. Len(code), Heir(q) PROVE q = h
    <3>1. ~(q < h)
      <4>1. ASSUME q < h PROVE FALSE
        <5>1. q \in p + 1 .. h - 1
          BY <1>1, <2>2, <4>1
        <5> QED BY <2>3, <2>4, <5>1
      <4> QED BY <4>1
    <3>2. ~(h < q)
      <4>1. ASSUME h < q PROVE FALSE
        <5>1. h \in p + 1 .. q - 1
          BY <1>1, <2>2, <4>1
        <5> QED BY <2>3, <2>4, <5>1
      <4> QED BY <4>1
    <3> QED BY <1>1, <2>2, <3>1, <3>2
  <2>5. Parent(p) = CHOOSE q \in p + 1 .. Len(code) : Heir(q)
    BY <1>3 DEF Parent
  <2> HIDE DEF Heir
  <2>6. Parent(p) = h
    BY <2>2, <2>3, <2>4, <2>5
  <2> QED BY <1>1, <1>3, <2>1, <2>2, <2>6
<1> QED BY <1>2, <1>3

-----------------------------------------------------------------------------
\* What a step leaves alone as long as it does not touch the code.
LEMMA SameCode ==
  ASSUME CodeTypeOK, UNCHANGED <<code, frame>>
  PROVE  /\ Defining' = Defining /\ \A p : ReachedUses(p)' = ReachedUses(p) /\ Parent(p)' = Parent(p)
         /\ CodeRight => CodeRight'
         /\ Len(code') = Len(code) /\ code' \in Seq(Instruction) /\ frame' \in Nat
         /\ Len(code') \in 0 .. MaxNo
BY DEF Defining, CodeTypeOK, CodeRight, NearShape, DefinedBefore, LoadMatches, IsStore,
       ReachedUses, Parent, Selected

\* computeLiveIntervals leaves the scan where LinearScan!Init would put it,
\* with the numbers of this code's ranges.
LEMMA InvCompute ==
  ASSUME RAInv, SpillShape, ComputeLiveIntervals
  PROVE  RAInv'
<1> USE DEF RAInv
<1>1. /\ UNCHANGED <<savedRegs, code, frame, spilledVRegs>>
      /\ todo' = Defining /\ actives' = {} /\ regs' = [r \in Reg |-> 1]
      /\ rreg' = [i \in Interval |-> NoReg] /\ spill' = [i \in Interval |-> FALSE]
      /\ flag' = TRUE /\ phase' = "scan"
  BY DEF ComputeLiveIntervals
<1>2. /\ start' = [i \in Interval |-> IF i \in Defining THEN Parent(i) ELSE 1]
      /\ end' = [i \in Interval |->
                   IF i \in Defining THEN MaxOf({NoUse} \cup ReachedUses(i)) ELSE NoUse]
  BY DEF ComputeLiveIntervals
<1>14. Len(code) >= 1
  <2>1. phase # "select" \/ code # <<>>
    BY DEF ComputeLiveIntervals
  <2> QED BY <2>1 DEF CodeTypeOK
<1>3. /\ Defining' = Defining /\ CodeTypeOK' /\ Finished'
      /\ \A p : ReachedUses(p)' = ReachedUses(p) /\ Parent(p)' = Parent(p)
  BY <1>1, <1>14, SameCode DEF CodeTypeOK, Finished
<1>4. Len(code) \in 1 .. MaxNo /\ Len(code) \in Nat /\ Defining \subseteq 1 .. Len(code) /\ Defining \subseteq Interval
  BY <1>14, CodeFacts, MaxNoAssumption
<1>5. ASSUME NEW i \in Interval
      PROVE  /\ start'[i] \in 1 .. MaxNo
             /\ end'[i] \in {NoUse} \cup 1 .. MaxNo
             /\ end'[i] = NoUse \/ start'[i] <= end'[i]
             /\ i \notin Defining => start'[i] = 1 /\ end'[i] = NoUse
  <2>1. CASE i \in Defining
    <3> DEFINE e == MaxOf({NoUse} \cup ReachedUses(i))
    <3>1. e = NoUse \/ (e \in ReachedUses(i) /\ e \in i + 1 .. Len(code))
      BY <2>1, EndOfRange
    <3>2. start'[i] = Parent(i) /\ end'[i] = e
      BY <1>2, <2>1
    <3>3. Parent(i) \in 1 .. Len(code)
      BY <1>4, <2>1, ParentFacts
    <3>4. e # NoUse => Parent(i) <= e
      <4>1. CASE code[i].op = "pass"
        <5>1. ReachedUses(i) = {Parent(i)}
          BY <1>4, <2>1, <4>1, ParentFacts
        <5> QED BY <1>4, <3>1, <3>3, <5>1
      <4>2. CASE code[i].op # "pass"
        <5>1. Parent(i) = i
          BY <1>4, <2>1, <4>2, ParentFacts
        <5> HIDE DEF e
        <5> QED BY <1>4, <2>1, <3>1, <5>1
      <4> QED BY <4>1, <4>2
    <3> HIDE DEF e
    <3> QED BY <1>4, <2>1, <3>1, <3>2, <3>3, <3>4, MaxNoAssumption
  <2>2. CASE i \notin Defining
    BY <1>2, <2>2, MaxNoAssumption
  <2> QED BY <2>1, <2>2
<1>6. TypeOK'
  <2>1. start' \in [Interval -> 1 .. MaxNo]
    BY <1>2, <1>5
  <2>2. end' \in [Interval -> {NoUse} \cup 1 .. MaxNo]
    BY <1>2, <1>5
  <2>3. todo' \in SUBSET Interval
    BY <1>1, <1>4
  <2> QED BY <1>1, <2>1, <2>2, <2>3, NumberFacts DEF TypeOK
<1>7. WellFormed'
  BY <1>5 DEF WellFormed
<1>8. VisitOrder' /\ ExpiredIsOver'
  <2> SUFFICES ASSUME NEW i \in Interval, i \notin Defining, NEW k \in Defining
               PROVE  start'[i] <= start'[k] /\ end'[i] < start'[k]
    BY <1>1 DEF VisitOrder, ExpiredIsOver, Visited
  <2>1. start'[k] \in 1 .. MaxNo /\ start'[i] = 1 /\ end'[i] = NoUse
    BY <1>4, <1>5
  <2> QED BY <2>1, MaxNoAssumption DEF NoUse
<1>9. PoolDisjoint' /\ NoRegisterLost' /\ FailureSpills' /\ SpilledDefine'
  BY <1>1, NumberFacts DEF PoolDisjoint, NoRegisterLost, FailureSpills, SpilledDefine
<1>10. NoSharing'
  <2> SUFFICES ASSUME NEW i \in Interval, i \notin Defining, NEW j \in Interval, j \notin Defining,
                      Interferes(i, j)'
               PROVE  FALSE
    BY <1>1 DEF NoSharing, Visited
  <2>1. start'[i] = 1 /\ end'[i] = NoUse /\ start'[j] = 1 /\ end'[j] = NoUse
    BY <1>5
  <2> QED BY <2>1 DEF Interferes, WrittenDuring, NoUse
<1>11. RangesRight' /\ todo' \subseteq Defining' /\ actives' \subseteq Defining'
  BY <1>1, <1>2, <1>3 DEF RangesRight
<1>12. VisitedHold'
  BY <1>1, <1>3 DEF VisitedHold
<1>13. RoundInv'
  BY <1>6, <1>7, <1>8, <1>9, <1>10, <1>11, <1>12 DEF RoundInv, ScanInv
<1> QED BY <1>3, <1>6, <1>13

\* The scan keeps its own invariant, and only visits definitions.
LEMMA InvScan ==
  ASSUME RAInv, Scan
  PROVE  RAInv'
<1> USE DEF RAInv
<1>1. phase = "scan" /\ Next /\ UNCHANGED <<code, frame, spilledVRegs, phase>>
  BY DEF Scan
<1>2. RoundInv /\ TypeOK /\ [Next]_scanVars
  BY <1>1
<1>3. TypeOK' /\ ScanInv' /\ NoRegisterLost' /\ FailureSpills'
  BY <1>2, TypeStep, InvStep, PoolStep, FailureStep DEF RoundInv
<1>4. UNCHANGED <<start, end>> /\ todo' \subseteq todo
  BY <1>1 DEF Next, ExpireOldInterval, Allocate, SpillActive, SpillCurrent
<1>5. /\ Defining' = Defining /\ CodeTypeOK' /\ Finished'
      /\ \A p : ReachedUses(p)' = ReachedUses(p) /\ Parent(p)' = Parent(p)
  BY <1>1, SameCode DEF CodeTypeOK, Finished
<1>6. RangesRight' /\ todo' \subseteq Defining'
  BY <1>2, <1>4, <1>5 DEF RangesRight, RoundInv
<1>7. VisitedHold' /\ SpilledDefine' /\ actives' \subseteq Defining'
  <2> DEFINE Kept == VisitedHold' /\ SpilledDefine' /\ actives' \subseteq Defining'
  <2>0. /\ VisitedHold /\ SpilledDefine
        /\ todo \subseteq Defining /\ actives \subseteq Defining /\ Defining \subseteq Interval
    BY <1>2, CodeFacts DEF RoundInv
  <2> USE DEF VisitedHold, SpilledDefine
  <2>1. ASSUME NEW j \in Interval, ExpireOldInterval(j) PROVE Kept
    BY <1>5, <2>0, <2>1 DEF ExpireOldInterval
  <2>2. ASSUME NEW i \in Interval, NEW r \in Reg, Allocate(i, r) PROVE Kept
    <3>1. \A k \in Interval : rreg'[k] = IF k = i THEN r ELSE rreg[k]
      BY <2>2 DEF Allocate, TypeOK
    <3> QED BY <1>5, <2>0, <2>2, <3>1 DEF Allocate, IsNext
  <2>3. ASSUME NEW i \in Interval, NEW victim \in Interval, SpillActive(i, victim) PROVE Kept
    <3>1. victim \in Defining /\ i \in Defining
      BY <2>0, <2>3 DEF SpillActive, IsBack, IsNext
    <3>2. \A k \in Interval : spill'[k] => k = victim \/ spill[k]
      BY <2>3 DEF SpillActive, TypeOK
    <3> QED BY <1>5, <2>0, <2>3, <3>1, <3>2 DEF SpillActive
  <2>4. ASSUME NEW i \in Interval, NEW back \in Interval, SpillCurrent(i, back) PROVE Kept
    <3>1. \A k \in Interval : spill'[k] => k = i \/ spill[k]
      BY <2>4 DEF SpillCurrent, TypeOK
    <3> QED BY <1>5, <2>0, <2>4, <3>1 DEF SpillCurrent, IsNext
  <2> QED BY <1>1, <2>1, <2>2, <2>3, <2>4 DEF Next
<1>8. RoundInv'
  BY <1>3, <1>6, <1>7 DEF RoundInv
<1> QED BY <1>3, <1>5, <1>8

\* modifyCode: whatever an operand is rewritten to is in saved_regs.
LEMMA InvModify ==
  ASSUME RAInv, ModifyCode
  PROVE  RAInv'
<1> USE DEF RAInv
<1>1. /\ phase = "scan" /\ todo = {} /\ flag
      /\ savedRegs' = savedRegs \cup {rreg[i] : i \in Defining} /\ phase' = "done"
      /\ UNCHANGED <<start, end, todo, actives, regs, rreg, spill, flag, code, frame, spilledVRegs>>
  BY DEF ModifyCode, ScanDone
<1>2. RoundInv
  BY <1>1
<1>3. /\ Defining' = Defining /\ CodeTypeOK'
      /\ \A p : ReachedUses(p)' = ReachedUses(p) /\ Parent(p)' = Parent(p)
  BY <1>1, SameCode DEF CodeTypeOK
<1>4. \A i \in Defining : rreg[i] \in Reg
  BY <1>1, <1>2 DEF RoundInv, VisitedHold
<1>5. TypeOK'
  BY <1>1, <1>4 DEF TypeOK
<1>6. ScanInv' /\ NoRegisterLost' /\ FailureSpills'
  BY <1>1, <1>2, <1>5 DEF RoundInv, ScanInv, WellFormed, VisitOrder, ExpiredIsOver, PoolDisjoint,
     NoSharing, Interferes, WrittenDuring, Visited, NoRegisterLost, FailureSpills
<1>7. RangesRight' /\ VisitedHold' /\ SpilledDefine'
  BY <1>1, <1>2, <1>3 DEF RoundInv, RangesRight, VisitedHold, SpilledDefine
<1>8. RoundInv'
  BY <1>1, <1>2, <1>3, <1>6, <1>7 DEF RoundInv
<1>9. Finished'
  BY <1>1, <1>3 DEF Finished
<1> QED BY <1>1, <1>3, <1>5, <1>8, <1>9

-----------------------------------------------------------------------------
(***************************************************************************)
(* genSpillCode: slots are never shared, and the new code is the old one   *)
(* with a reload before some uses and a store after some definitions.      *)
(***************************************************************************)
LEMMA SlotFacts ==
  ASSUME TypeOK, CodeTypeOK
  PROVE  /\ Spilled \subseteq Defining
         /\ Cardinality(Spilled) \in Nat
         /\ \A i \in Spilled : SlotOf(i) \in frame + 1 .. frame + Cardinality(Spilled)
         /\ \A i, k \in Spilled : SlotOf(i) = SlotOf(k) => i = k
<1>1. /\ Spilled \subseteq Defining /\ Spilled \subseteq 1 .. Len(code)
      /\ Len(code) \in Nat /\ frame \in Nat
  BY CodeFacts DEF Spilled, CodeTypeOK
<1>2. IsFiniteSet(Spilled)
  <2>1. IsFiniteSet(1 .. Len(code))
    BY <1>1, FS_Interval
  <2> QED BY <1>1, <2>1, FS_Subset
<1> DEFINE UpTo(i) == {k \in Spilled : k <= i}
<1>3. ASSUME NEW X, NEW Y \in SUBSET Spilled, X \subseteq Y
      PROVE  /\ IsFiniteSet(X) /\ Cardinality(X) \in Nat /\ Cardinality(Y) \in Nat
             /\ Cardinality(X) <= Cardinality(Y)
             /\ Cardinality(X) = Cardinality(Y) => X = Y
  <2>1. IsFiniteSet(Y)
    BY <1>2, FS_Subset
  <2> QED BY <1>3, <2>1, FS_Subset, FS_CardinalityType
<1>4. ASSUME NEW i \in Spilled
      PROVE  SlotOf(i) \in frame + 1 .. frame + Cardinality(Spilled)
  <2>1. {i} \subseteq UpTo(i) /\ UpTo(i) \in SUBSET Spilled
    BY <1>1
  <2>2. Cardinality({i}) = 1
    BY FS_Singleton
  <2>3. Cardinality({i}) <= Cardinality(UpTo(i)) /\ Cardinality(UpTo(i)) \in Nat
    BY <1>3, <2>1
  <2>4. Cardinality(UpTo(i)) <= Cardinality(Spilled) /\ Cardinality(Spilled) \in Nat
    BY <1>3
  <2> HIDE DEF UpTo
  <2>5. frame + Cardinality(UpTo(i)) \in frame + 1 .. frame + Cardinality(Spilled)
    BY <1>1, <2>2, <2>3, <2>4
  <2> QED BY <2>5 DEF SlotOf, UpTo
<1>5. ASSUME NEW i \in Spilled, NEW k \in Spilled, SlotOf(i) = SlotOf(k), i < k PROVE FALSE
  <2>0. Spilled \subseteq Nat
    BY <1>1
  <2>1. UpTo(i) \subseteq UpTo(k) /\ UpTo(k) \in SUBSET Spilled
    <3>1. ASSUME NEW x \in Spilled, x <= i PROVE x <= k
      BY <1>5, <2>0, <3>1
    <3> QED BY <3>1
  <2>2. k \in UpTo(k) /\ k \notin UpTo(i)
    BY <1>1, <1>5
  <2>3. Cardinality(UpTo(i)) \in Nat /\ Cardinality(UpTo(k)) \in Nat
    BY <1>3, <2>1
  <2>4. Cardinality(UpTo(i)) = Cardinality(UpTo(k))
    <3>1. frame + Cardinality(UpTo(i)) = frame + Cardinality(UpTo(k))
      BY <1>5 DEF SlotOf
    <3> HIDE DEF UpTo
    <3> QED BY <1>1, <2>3, <3>1
  <2> QED BY <1>3, <2>1, <2>2, <2>4
<1>6. ASSUME NEW i \in Spilled, NEW k \in Spilled, SlotOf(i) = SlotOf(k) PROVE i = k
  <2>1. i \in Nat /\ k \in Nat
    BY <1>1
  <2> QED BY <1>5, <1>6, <2>1
<1> QED BY <1>1, <1>2, <1>4, <1>6, FS_CardinalityType

Load(i) == Instr("ldr", code[i].def, {}, SlotOf(i))
Store(i) == Instr("str", NoVReg, {code[i].def}, SlotOf(i))
Near == \A i \in Spilled : ~IsFar(SlotOf(i))

LoadsAt(p) ==
  FlattenSeq([i \in 1 .. Len(code) |->
                IF i \in Spilled /\ p \in ReachedUses(i) THEN LoadsFor(i, p) ELSE <<>>])
StoresAt(p) == IF p \in Spilled THEN StoresFor(p) ELSE <<>>

OnlyFresh == \A i \in Spilled : FreshDef(i)

\* A plain definition is its operand's parent: the stores come right behind it.
LEMMA StoresBehind ==
  ASSUME OnlyFresh, NEW p
  PROVE  Expand(p) = (LoadsAt(p) \o <<code[p]>>) \o StoresAt(p)
<1> DEFINE defs == {i \in Spilled : Parent(i) = p}
<1>1. \A i \in Spilled : Parent(i) = i
  BY DEF OnlyFresh, FreshDef, Parent
<1>2. defs = IF p \in Spilled THEN {p} ELSE {}
  BY <1>1
<1>3. (IF defs = {} THEN <<>> ELSE StoresFor(CHOOSE i \in defs : TRUE)) = StoresAt(p)
  <2> HIDE DEF defs
  <2> QED BY <1>2 DEF StoresAt
<1> QED BY <1>3 DEF Expand, LoadsAt

LEMMA SpillCodeTypes ==
  ASSUME TypeOK, CodeTypeOK, NEW i \in Spilled
  PROVE  /\ StoresFor(i) \in Seq(Instruction)
         /\ \A p \in 1 .. Len(code) : LoadsFor(i, p) \in Seq(Instruction)
         /\ Near => StoresFor(i) = <<Store(i)>> /\ \A p : LoadsFor(i, p) = <<Load(i)>>
<1>1. SlotOf(i) \in Nat
  BY SlotFacts DEF CodeTypeOK
<1>2. i \in 1 .. Len(code)
  BY SlotFacts, CodeFacts
<1>3. code[i].def \in Nat /\ NoVReg \in Nat
  BY <1>2, CodeFacts DEF Instruction, NoVReg
<1>4. ASSUME NEW p \in Nat PROVE AddrVReg(SlotOf(i), p) \in Nat
  BY <1>1, MaxNoAssumption DEF AddrVReg
<1>5. ASSUME NEW op \in {"ldr", "str", "addr"}, NEW d \in Nat, NEW u \in SUBSET Nat
      PROVE  Instr(op, d, u, SlotOf(i)) \in Instruction
  BY <1>1 DEF Instr, Instruction
<1>6. StoresFor(i) \in Seq(Instruction)
  <2>1. AddrVReg(SlotOf(i), 0) \in Nat
    BY <1>4
  <2>2. /\ Instr("addr", AddrVReg(SlotOf(i), 0), {}, SlotOf(i)) \in Instruction
        /\ Instr("str", NoVReg, {code[i].def, AddrVReg(SlotOf(i), 0)}, SlotOf(i)) \in Instruction
        /\ Instr("str", NoVReg, {code[i].def}, SlotOf(i)) \in Instruction
    BY <1>3, <1>5, <2>1
  <2> QED BY <2>2 DEF StoresFor
<1>7. ASSUME NEW p \in 1 .. Len(code) PROVE LoadsFor(i, p) \in Seq(Instruction)
  <2>1. AddrVReg(SlotOf(i), p) \in Nat
    BY <1>4
  <2>2. /\ Instr("addr", AddrVReg(SlotOf(i), p), {}, SlotOf(i)) \in Instruction
        /\ Instr("ldr", code[i].def, {AddrVReg(SlotOf(i), p)}, SlotOf(i)) \in Instruction
        /\ Instr("ldr", code[i].def, {}, SlotOf(i)) \in Instruction
    BY <1>3, <1>5, <2>1
  <2> QED BY <2>2 DEF LoadsFor
<1>8. Near => StoresFor(i) = <<Store(i)>> /\ \A p : LoadsFor(i, p) = <<Load(i)>>
  BY DEF Near, StoresFor, LoadsFor, Store, Load
<1> QED BY <1>6, <1>7, <1>8

LEMMA LoadsFacts ==
  ASSUME TypeOK, CodeTypeOK, NEW p \in 1 .. Len(code)
  PROVE  /\ LoadsAt(p) \in Seq(Instruction)
         /\ Near => \A x \in 1 .. Len(LoadsAt(p)) :
              \E i \in Spilled : p \in ReachedUses(i) /\ LoadsAt(p)[x] = Load(i)
<1> DEFINE n == Len(code)
           ss == [i \in 1 .. n |->
                    IF i \in Spilled /\ p \in ReachedUses(i) THEN LoadsFor(i, p) ELSE <<>>]
<1>1. n \in Nat /\ n >= 1
  BY CodeFacts
<1>2. ss \in [1 .. n -> Seq(Instruction)]
  <2>1. <<>> \in Seq(Instruction)
    OBVIOUS
  <2>2. \A i \in Spilled : LoadsFor(i, p) \in Seq(Instruction)
    BY SpillCodeTypes
  <2> HIDE DEF Instruction
  <2> QED BY <2>1, <2>2
<1>3. LoadsAt(p) = FlattenSeq(ss)
  BY DEF LoadsAt
<1>4. ASSUME Near, NEW k \in 1 .. n, NEW o \in 1 .. Len(ss[k])
      PROVE  k \in Spilled /\ p \in ReachedUses(k) /\ ss[k][o] = Load(k)
  <2>1. CASE k \in Spilled /\ p \in ReachedUses(k)
    <3>1. LoadsFor(k, p) = <<Load(k)>>
      BY <1>4, <2>1, SpillCodeTypes
    <3>2. ss[k] = <<Load(k)>>
      BY <2>1, <3>1
    <3>3. o = 1
      <4>1. Len(ss[k]) = 1
        BY <3>2
      <4>2. o \in 1 .. Len(ss[k])
        OBVIOUS
      <4> HIDE DEF ss
      <4> QED BY <4>1, <4>2
    <3> QED BY <2>1, <3>2, <3>3
  <2>2. CASE ~(k \in Spilled /\ p \in ReachedUses(k))
    <3>1. ss[k] = <<>>
      BY <2>2
    <3>2. o \in 1 .. 0
      BY <1>4, <3>1
    <3> QED BY <3>2
  <2> QED BY <2>1, <2>2
<1> HIDE DEF n, ss
<1>5. FlattenSeq(ss) \in Seq(Instruction)
  BY <1>1, <1>2, FlattenPlaces
<1>6. PICK at : Places(FlattenSeq(ss), ss, n, at)
  BY <1>1, <1>2, FlattenPlaces
<1>7. ASSUME Near, NEW x \in 1 .. Len(FlattenSeq(ss))
      PROVE  \E i \in Spilled : p \in ReachedUses(i) /\ FlattenSeq(ss)[x] = Load(i)
  <2>1. PICK k \in 1 .. n : at[k - 1] < x /\ x <= at[k]
    BY <1>6 DEF Places
  <2> DEFINE o == x - at[k - 1]
  <2>2. k \in 0 .. n /\ k - 1 \in 0 .. n
    BY <1>1
  <2>3. at[k - 1] \in Nat /\ at[k] \in Nat /\ at[k] = at[k - 1] + Len(ss[k]) /\ Len(ss[k]) \in Nat
    <3>1. Len(ss[k]) \in Nat
      <4>1. ss[k] \in Seq(Instruction)
        BY <1>2
      <4> QED BY <4>1
    <3> QED BY <1>6, <2>2, <3>1 DEF Places
  <2> DEFINE b == at[k - 1]
             c == Len(ss[k])
  <2>4. o \in 1 .. Len(ss[k]) /\ at[k - 1] + o = x
    <3>1. b \in Nat /\ c \in Nat /\ b < x /\ x <= b + c /\ x \in Int
      BY <2>1, <2>3
    <3> HIDE DEF b, c
    <3>2. x - b \in 1 .. c /\ b + (x - b) = x
      BY <3>1
    <3> QED BY <3>2 DEF b, c
  <2>5. FlattenSeq(ss)[at[k - 1] + o] = ss[k][o]
    <3> HIDE DEF o
    <3> QED BY <1>6, <2>4 DEF Places
  <2> HIDE DEF o
  <2> QED BY <1>4, <1>7, <2>4, <2>5
<1> QED BY <1>3, <1>5, <1>7

LEMMA Concatenation ==
  ASSUME NEW T, NEW s \in Seq(T), NEW t \in Seq(T)
  PROVE  /\ s \o t \in Seq(T) /\ Len(s \o t) = Len(s) + Len(t)
         /\ \A x \in 1 .. Len(s) : (s \o t)[x] = s[x]
         /\ \A x \in 1 .. Len(t) : (s \o t)[Len(s) + x] = t[x]
OBVIOUS

LEMMA ExpandFacts ==
  ASSUME TypeOK, CodeTypeOK, OnlyFresh, NEW p \in 1 .. Len(code)
  PROVE  /\ Expand(p) \in Seq(Instruction) /\ Len(Expand(p)) >= 1
         /\ Near => \E m \in 1 .. Len(Expand(p)) :
              /\ Expand(p)[m] = code[p]
              /\ p \in Spilled => m + 1 \in 1 .. Len(Expand(p)) /\ Expand(p)[m + 1] = Store(p)
              /\ \A x \in 1 .. Len(Expand(p)) :
                   \/ x = m
                   \/ x = m + 1 /\ p \in Spilled
                   \/ \E i \in Spilled : p \in ReachedUses(i) /\ Expand(p)[x] = Load(i)
<1> DEFINE a == LoadsAt(p)
           b == <<code[p]>>
           c == StoresAt(p)
           l == Len(a)
<1>1. Expand(p) = (a \o b) \o c
  BY StoresBehind
<1>2. a \in Seq(Instruction) /\ b \in Seq(Instruction) /\ c \in Seq(Instruction)
  <2>1. code[p] \in Instruction
    BY CodeFacts
  <2>2. c \in Seq(Instruction)
    <3>1. CASE p \in Spilled
      BY <3>1, SpillCodeTypes DEF StoresAt
    <3>2. CASE p \notin Spilled
      BY <3>2 DEF StoresAt
    <3> QED BY <3>1, <3>2
  <2> HIDE DEF Instruction
  <2> QED BY <2>1, <2>2, LoadsFacts
<1>3. Len(b) = 1 /\ b[1] = code[p] /\ l \in Nat /\ Len(c) \in Nat
  BY <1>2
<1>4. Near => c = (IF p \in Spilled THEN <<Store(p)>> ELSE <<>>)
  BY SpillCodeTypes DEF StoresAt
<1>5. Near => \A x \in 1 .. l : \E i \in Spilled : p \in ReachedUses(i) /\ a[x] = Load(i)
  BY LoadsFacts
<1> HIDE DEF a, b, c
<1> DEFINE ab == a \o b
           e == ab \o c
<1>6. /\ ab \in Seq(Instruction) /\ Len(ab) = l + Len(b)
      /\ \A x \in 1 .. l : ab[x] = a[x]
      /\ \A x \in 1 .. Len(b) : ab[l + x] = b[x]
  BY <1>2, Concatenation
<1> HIDE DEF ab
<1>7. /\ e \in Seq(Instruction) /\ Len(e) = Len(ab) + Len(c)
      /\ \A x \in 1 .. Len(ab) : e[x] = ab[x]
      /\ \A x \in 1 .. Len(c) : e[Len(ab) + x] = c[x]
  <2>1. ab \in Seq(Instruction) /\ c \in Seq(Instruction)
    BY <1>2, <1>6
  <2> QED BY <2>1, Concatenation
<1> HIDE DEF e, l
<1>8. e \in Seq(Instruction) /\ Len(e) = l + 1 + Len(c) /\ Len(ab) = l + 1
  BY <1>3, <1>6, <1>7
<1>9. e[l + 1] = code[p] /\ \A x \in 1 .. l : e[x] = a[x]
  <2>1. ab[l + 1] = b[1] /\ l + 1 \in 1 .. Len(ab)
    BY <1>3, <1>8, <1>6
  <2>2. \A x \in 1 .. l : x \in 1 .. Len(ab)
    BY <1>3, <1>8
  <2> QED BY <1>3, <1>6, <1>7, <2>1, <2>2
<1>10. Len(c) = 1 => e[l + 2] = c[1]
  <2>1. Len(ab) + 1 = l + 2
    BY <1>3, <1>8
  <2> QED BY <1>7, <2>1
<1>11. ASSUME Near, p \in Spilled PROVE Len(c) = 1 /\ c[1] = Store(p)
  BY <1>4, <1>11
<1>12. ASSUME Near, p \notin Spilled PROVE Len(c) = 0
  BY <1>4, <1>12
<1>13. ASSUME Near
       PROVE  \E m \in 1 .. Len(e) :
                /\ e[m] = code[p]
                /\ p \in Spilled => m + 1 \in 1 .. Len(e) /\ e[m + 1] = Store(p)
                /\ \A x \in 1 .. Len(e) :
                     \/ x = m
                     \/ x = m + 1 /\ p \in Spilled
                     \/ \E i \in Spilled : p \in ReachedUses(i) /\ e[x] = Load(i)
  <2>1. l + 1 \in 1 .. Len(e) /\ e[l + 1] = code[p]
    BY <1>3, <1>8, <1>9
  <2>2. p \in Spilled => (l + 1) + 1 \in 1 .. Len(e) /\ e[(l + 1) + 1] = Store(p)
    <3>1. (l + 1) + 1 = l + 2
      BY <1>3
    <3>2. ASSUME p \in Spilled PROVE Len(c) = 1 /\ c[1] = Store(p)
      BY <1>11, <1>13, <3>2
    <3>3. ASSUME p \in Spilled PROVE l + 2 \in 1 .. Len(e) /\ e[l + 2] = Store(p)
      <4>1. l \in Nat /\ Len(e) = l + 1 + 1
        BY <1>3, <1>8, <3>2, <3>3
      <4>2. l + 2 \in 1 .. Len(e)
        BY <4>1
      <4> QED BY <1>10, <3>2, <3>3, <4>2
    <3> QED BY <3>1, <3>3
  <2>3. ASSUME NEW x \in 1 .. Len(e)
        PROVE  \/ x = l + 1
               \/ x = (l + 1) + 1 /\ p \in Spilled
               \/ \E i \in Spilled : p \in ReachedUses(i) /\ e[x] = Load(i)
    <3>1. CASE x \in 1 .. l
      BY <1>5, <1>9, <1>13, <3>1
    <3>2. CASE x \notin 1 .. l /\ p \in Spilled
      <4>1. Len(e) = l + 2
        <5>1. l \in Nat /\ Len(e) = l + 1 + Len(c) /\ Len(c) = 1
          BY <1>3, <1>8, <1>11, <1>13, <3>2
        <5> QED BY <5>1
      <4> QED BY <1>3, <3>2, <4>1
    <3>3. CASE x \notin 1 .. l /\ p \notin Spilled
      BY <1>3, <1>8, <1>12, <1>13, <3>3
    <3> QED BY <3>1, <3>2, <3>3
  <2> QED BY <2>1, <2>2, <2>3
<1>14. Expand(p) = e /\ Len(e) >= 1
  BY <1>1, <1>3, <1>8 DEF e, ab
<1> QED BY <1>8, <1>13, <1>14

\* at[k] is the last place of what instruction k became.
Within(at, x, p) == at[p - 1] < x /\ x <= at[p]

(***************************************************************************)
(* Where the instructions of the new code come from, and where those of    *)
(* the old code went.                                                      *)
(***************************************************************************)
ComesFrom(new, x, p) ==
  \/ new[x] = code[p]
  \/ \E i \in Spilled : p \in ReachedUses(i) /\ new[x] = Load(i)
  \/ p \in Spilled /\ new[x] = Store(p) /\ \E y \in 1 .. x - 1 : new[y] = code[p]

Rewritten(new, at) ==
  /\ \A x \in 1 .. Len(new) :
       \E p \in 1 .. Len(code) : Within(at, x, p) /\ ComesFrom(new, x, p)
  /\ \A p \in 1 .. Len(code) : \E x \in 1 .. Len(new) : Within(at, x, p) /\ new[x] = code[p]
  /\ \A p \in Spilled : \E x \in 1 .. Len(new) : Within(at, x, p) /\ new[x] = Store(p)
  /\ \A p, q \in 1 .. Len(code) : \A x, y \in 1 .. Len(new) :
       p < q /\ Within(at, x, p) /\ Within(at, y, q) => x < y

LEMMA NewCode ==
  ASSUME TypeOK, CodeTypeOK, OnlyFresh, Len(code) >= 1
  PROVE  LET new == FlattenSeq([p \in 1 .. Len(code) |-> Expand(p)])
         IN  new \in Seq(Instruction) /\ Len(new) >= 1 /\ (Near => \E at : Rewritten(new, at))
<1> DEFINE n == Len(code)
           ss == [p \in 1 .. n |-> Expand(p)]
           new == FlattenSeq(ss)
<1>1. n \in Nat /\ n >= 1 /\ Spilled \subseteq 1 .. n
  BY CodeFacts, SlotFacts
<1>2. \A p \in 1 .. n : Expand(p) \in Seq(Instruction) /\ Len(Expand(p)) >= 1
  BY ExpandFacts
<1>3. ss \in [1 .. n -> Seq(Instruction)] /\ \A p \in 1 .. n : ss[p] = Expand(p)
  BY <1>2
<1> HIDE DEF ss
<1>4. new \in Seq(Instruction)
  <2> HIDE DEF n
  <2> QED BY <1>1, <1>3, FlattenPlaces
<1>5. PICK at : Places(new, ss, n, at)
  <2> HIDE DEF n
  <2> QED BY <1>1, <1>3, FlattenPlaces
<1> HIDE DEF new, n
<1>6. /\ at \in [0 .. n -> Nat] /\ at[0] = 0 /\ at[n] = Len(new)
      /\ \A j, k \in 0 .. n : j <= k => at[j] <= at[k]
  BY <1>5 DEF Places
<1>7. ASSUME NEW p \in 1 .. n
      PROVE  /\ p \in 0 .. n /\ p - 1 \in 0 .. n /\ at[p] \in Nat /\ at[p - 1] \in Nat
             /\ at[p] = at[p - 1] + Len(Expand(p)) /\ Len(Expand(p)) \in Nat
             /\ at[p] <= Len(new)
  <2>1. p \in 0 .. n /\ p - 1 \in 0 .. n /\ n \in 0 .. n /\ p <= n
    BY <1>1
  <2>2. at[p] = at[p - 1] + Len(Expand(p))
    BY <1>3, <1>5 DEF Places
  <2>3. at[p] <= at[n]
    BY <1>6, <2>1
  <2>4. Len(Expand(p)) \in Nat
    <3>1. Expand(p) \in Seq(Instruction)
      BY <1>2
    <3> QED BY <3>1
  <2> QED BY <1>6, <2>1, <2>2, <2>3, <2>4
<1>8. ASSUME NEW p \in 1 .. n, NEW o \in 1 .. Len(Expand(p))
      PROVE  /\ at[p - 1] + o \in 1 .. Len(new) /\ Within(at, at[p - 1] + o, p)
             /\ new[at[p - 1] + o] = Expand(p)[o]
  <2>1. new[at[p - 1] + o] = Expand(p)[o]
    BY <1>3, <1>5 DEF Places
  <2>2. Len(new) \in Nat
    BY <1>4
  <2>3. at[p - 1] + o \in 1 .. Len(new) /\ at[p - 1] < at[p - 1] + o /\ at[p - 1] + o <= at[p]
    <3> DEFINE b == at[p - 1]
               l == Len(Expand(p))
    <3>1. b \in Nat /\ l \in Nat /\ at[p] = b + l /\ b + l <= Len(new) /\ o \in 1 .. l
      BY <1>7
    <3> HIDE DEF b, l
    <3>2. b + o \in 1 .. Len(new) /\ b < b + o /\ b + o <= at[p]
      BY <2>2, <3>1
    <3> QED BY <3>2 DEF b
  <2> QED BY <2>1, <2>3 DEF Within
<1>9. Len(new) >= 1
  <2>1. 1 \in 1 .. n
    BY <1>1
  <2>2. 1 \in 1 .. Len(Expand(1))
    BY <1>2, <1>7, <2>1
  <2>3. at[1 - 1] + 1 \in 1 .. Len(new)
    BY <1>8, <2>1, <2>2
  <2> QED BY <1>4, <2>3
<1>10. ASSUME Near
       PROVE  Rewritten(new, at)
  <2>1. ASSUME NEW p \in 1 .. n
        PROVE  \E m \in 1 .. Len(Expand(p)) :
                 /\ Expand(p)[m] = code[p]
                 /\ p \in Spilled => m + 1 \in 1 .. Len(Expand(p)) /\ Expand(p)[m + 1] = Store(p)
                 /\ \A x \in 1 .. Len(Expand(p)) :
                      \/ x = m
                      \/ x = m + 1 /\ p \in Spilled
                      \/ \E i \in Spilled : p \in ReachedUses(i) /\ Expand(p)[x] = Load(i)
    BY <1>10, ExpandFacts DEF n
  <2>2. ASSUME NEW x \in 1 .. Len(new)
        PROVE  \E p \in 1 .. n : Within(at, x, p) /\ ComesFrom(new, x, p)
    <3>1. PICK p \in 1 .. n : at[p - 1] < x /\ x <= at[p]
      BY <1>5 DEF Places
    <3> DEFINE o == x - at[p - 1]
    <3>2. o \in 1 .. Len(Expand(p)) /\ x = at[p - 1] + o
      BY <1>7, <3>1
    <3> HIDE DEF o
    <3>3. new[x] = Expand(p)[o]
      BY <1>8, <3>2
    <3>4. PICK m \in 1 .. Len(Expand(p)) :
            /\ Expand(p)[m] = code[p]
            /\ p \in Spilled => m + 1 \in 1 .. Len(Expand(p)) /\ Expand(p)[m + 1] = Store(p)
            /\ \/ o = m
               \/ o = m + 1 /\ p \in Spilled
               \/ \E i \in Spilled : p \in ReachedUses(i) /\ Expand(p)[o] = Load(i)
      BY <2>1, <3>2
    <3>5. CASE o = m
      BY <3>1, <3>3, <3>4, <3>5 DEF Within, ComesFrom
    <3>6. CASE o = m + 1 /\ p \in Spilled
      <4>1. new[at[p - 1] + m] = code[p]
        BY <1>8, <3>4
      <4>2. at[p - 1] + m \in 1 .. x - 1
        BY <1>7, <3>2, <3>6
      <4> QED BY <3>1, <3>3, <3>4, <3>6, <4>1, <4>2 DEF Within, ComesFrom
    <3>7. CASE \E i \in Spilled : p \in ReachedUses(i) /\ Expand(p)[o] = Load(i)
      BY <3>1, <3>3, <3>7 DEF Within, ComesFrom
    <3> QED BY <3>4, <3>5, <3>6, <3>7
  <2>3. ASSUME NEW p \in 1 .. n
        PROVE  \E x \in 1 .. Len(new) : Within(at, x, p) /\ new[x] = code[p]
    BY <1>8, <2>1
  <2>4. ASSUME NEW p \in Spilled
        PROVE  \E x \in 1 .. Len(new) : Within(at, x, p) /\ new[x] = Store(p)
    <3>1. p \in 1 .. n
      BY <1>1
    <3>2. PICK m \in Nat : m \in 1 .. Len(Expand(p)) /\ Expand(p)[m] = Store(p)
      BY <2>1, <3>1
    <3> QED BY <1>8, <3>1, <3>2
  <2>5. ASSUME NEW p \in 1 .. n, NEW q \in 1 .. n, NEW x \in 1 .. Len(new), NEW y \in 1 .. Len(new),
               p < q, Within(at, x, p), Within(at, y, q)
        PROVE  x < y
    <3>1. p <= q - 1 /\ p \in 0 .. n /\ q - 1 \in 0 .. n
      BY <1>7, <2>5
    <3>2. at[p] <= at[q - 1] /\ at[p] \in Nat /\ at[q - 1] \in Nat
      BY <1>6, <1>7, <3>1
    <3> QED BY <2>5, <3>2 DEF Within
  <2> QED BY <2>2, <2>3, <2>4, <2>5 DEF Rewritten, n
<1> QED BY <1>4, <1>9, <1>10 DEF new, ss, n

\* The new code has the structure of the old one: operands are defined before,
\* the new slots belong to one register each, and the old ones are left alone.
LEMMA RewrittenRight ==
  ASSUME TypeOK, CodeTypeOK, CodeRight, OnlyFresh, NEW at, Rewritten(code', at),
         frame' = frame + Cardinality(Spilled), frame' <= NearSlots
  PROVE  CodeRight'
<1> DEFINE n == Len(code)
           m == Len(code')
<1>1. /\ frame \in Nat /\ Cardinality(Spilled) \in Nat /\ NearSlots \in Nat
      /\ Spilled \subseteq Defining /\ Defining \subseteq 1 .. n /\ n \in Nat
  BY SlotFacts, CodeFacts, FrameAssumption DEF CodeTypeOK
<1>2. frame <= NearSlots /\ frame <= frame'
  BY <1>1
<1>3. \A p \in 1 .. n : NearShape(code[p], frame) /\ DefinedBefore(p) /\ LoadMatches(p)
  BY <1>2 DEF CodeRight
<1>4. \A i \in Spilled : SlotOf(i) \in 1 .. frame' /\ SlotOf(i) > frame
  BY <1>1, SlotFacts
<1>5. \A i, k \in Spilled : SlotOf(i) = SlotOf(k) => i = k
  BY SlotFacts
<1>6. \A i \in Spilled : code[i].def \in VReg
  <2> SUFFICES ASSUME NEW i \in Spilled PROVE code[i].def \in VReg
    OBVIOUS
  <2>1. i \in 1 .. n /\ code[i].def # NoVReg /\ NearShape(code[i], frame)
    BY <1>1, <1>3 DEF Defining
  <2> QED BY <2>1 DEF NearShape
<1>7. ASSUME NEW i \in Spilled
      PROVE  /\ Load(i).op = "ldr" /\ Load(i).def = code[i].def /\ Load(i).uses = {}
             /\ Load(i).slot = SlotOf(i)
             /\ Store(i).op = "str" /\ Store(i).def = NoVReg /\ Store(i).uses = {code[i].def}
             /\ Store(i).slot = SlotOf(i)
  BY DEF Load, Store, Instr
<1>8. /\ \A x \in 1 .. m : \E p \in 1 .. n : Within(at, x, p) /\ ComesFrom(code', x, p)
      /\ \A p \in 1 .. n : \E x \in 1 .. m : Within(at, x, p) /\ code'[x] = code[p]
      /\ \A p \in Spilled : \E x \in 1 .. m : Within(at, x, p) /\ code'[x] = Store(p)
      /\ \A p, q \in 1 .. n : \A x, y \in 1 .. m :
           p < q /\ Within(at, x, p) /\ Within(at, y, q) => x < y
  BY DEF Rewritten
<1> HIDE DEF n, m
<1>9. ASSUME NEW x \in 1 .. m, NEW p \in 1 .. n, Within(at, x, p), NEW q \in 1 .. n, q < p
      PROVE  \E y \in 1 .. x - 1 : code'[y] = code[q]
  <2>1. PICK y \in 1 .. m : Within(at, y, q) /\ code'[y] = code[q]
    BY <1>8
  <2>2. y < x
    BY <1>8, <1>9, <2>1
  <2>3. y \in 1 .. x - 1
    BY <2>2
  <2> QED BY <2>1, <2>3
<1>10. ASSUME NEW x \in 1 .. m, NEW p \in 1 .. n, Within(at, x, p), NEW i \in Spilled, i < p
       PROVE  \E y \in 1 .. x - 1 : code'[y] = Store(i)
  <2>1. PICK y \in 1 .. m : Within(at, y, i) /\ code'[y] = Store(i)
    BY <1>8
  <2>2. i \in 1 .. n
    BY <1>1 DEF n
  <2>3. y < x
    BY <1>8, <1>10, <2>1, <2>2
  <2>4. y \in 1 .. x - 1
    BY <2>3
  <2> QED BY <2>1, <2>4
<1>11. ASSUME NEW i, NEW p \in ReachedUses(i), i \in 1 .. n PROVE i < p
  BY <1>11 DEF ReachedUses, n
<1>12. \A x \in 1 .. m : NearShape(code'[x], frame')
  <2> SUFFICES ASSUME NEW x \in 1 .. m PROVE NearShape(code'[x], frame')
    OBVIOUS
  <2>1. PICK p \in 1 .. n : ComesFrom(code', x, p)
    BY <1>8
  <2>2. CASE code'[x] = code[p]
    <3>1. NearShape(code[p], frame)
      BY <1>3 DEF n
    <3>2. 1 .. frame \subseteq 1 .. frame'
      BY <1>1, <1>2
    <3> QED BY <2>2, <3>1, <3>2 DEF NearShape
  <2>3. ASSUME NEW i \in Spilled, code'[x] = Load(i) PROVE NearShape(code'[x], frame')
    BY <1>4, <1>6, <1>7, <2>3 DEF NearShape
  <2>4. ASSUME p \in Spilled, code'[x] = Store(p) PROVE NearShape(code'[x], frame')
    BY <1>4, <1>6, <1>7, <2>4 DEF NearShape
  <2> QED BY <2>1, <2>2, <2>3, <2>4 DEF ComesFrom
<1>13. \A x \in 1 .. m : DefinedBefore(x)'
  <2> SUFFICES ASSUME NEW x \in 1 .. m, NEW v \in code'[x].uses
               PROVE  \E d \in 1 .. x - 1 : code'[d].def = v
    BY DEF DefinedBefore
  <2>1. PICK p \in 1 .. n : Within(at, x, p) /\ ComesFrom(code', x, p)
    BY <1>8
  <2>2. CASE code'[x] = code[p]
    <3>1. PICK d \in 1 .. p - 1 : code[d].def = v
      BY <1>3, <2>2 DEF DefinedBefore, n
    <3>2. d \in 1 .. n /\ d < p
      <4>1. n \in Nat
        BY <1>1 DEF n
      <4> QED BY <4>1
    <3> QED BY <1>9, <2>1, <3>1, <3>2
  <2>3. ASSUME NEW i \in Spilled, code'[x] = Load(i) PROVE FALSE
    BY <1>7, <2>3
  <2>4. ASSUME p \in Spilled, code'[x] = Store(p), NEW y \in 1 .. x - 1, code'[y] = code[p]
        PROVE  code'[y].def = v
    BY <1>7, <2>4
  <2> QED BY <2>1, <2>2, <2>3, <2>4 DEF ComesFrom
<1>14. \A x \in 1 .. m : LoadMatches(x)'
  <2> SUFFICES ASSUME NEW x \in 1 .. m, code'[x].op = "ldr"
               PROVE  /\ \E s \in 1 .. x - 1 : IsStore(s, code[x].slot)'
                      /\ \A s \in 1 .. m : IsStore(s, code[x].slot)' => code'[s].uses = {code'[x].def}
    BY DEF LoadMatches, m
  <2>1. PICK p \in 1 .. n : Within(at, x, p) /\ ComesFrom(code', x, p)
    BY <1>8
  <2>2. CASE code'[x] = code[p]
    <3>1. code[p].op = "ldr" /\ LoadMatches(p) /\ NearShape(code[p], frame)
      BY <1>3, <2>2 DEF n
    <3>2. code[p].slot \in 1 .. frame
      BY <3>1 DEF NearShape
    <3>3. PICK s \in 1 .. p - 1 : IsStore(s, code[p].slot)
      BY <3>1 DEF LoadMatches
    <3>4. PICK y \in 1 .. x - 1 : code'[y] = code[s]
      <4>1. s \in 1 .. n /\ s < p
        <5>1. n \in Nat
          BY <1>1 DEF n
        <5> QED BY <5>1
      <4> QED BY <1>9, <2>1, <4>1
    <3>5. ASSUME NEW z \in 1 .. m, IsStore(z, code[x].slot)' PROVE code'[z].uses = {code'[x].def}
      <4>1. code'[z].op = "str" /\ code'[z].slot = code[p].slot
        BY <2>2, <3>5 DEF IsStore
      <4>2. PICK q \in 1 .. n : ComesFrom(code', z, q)
        BY <1>8
      <4>3. CASE code'[z] = code[q]
        <5>1. IsStore(q, code[p].slot)
          BY <4>1, <4>3 DEF IsStore
        <5> QED BY <2>2, <3>1, <4>3, <5>1 DEF LoadMatches, n
      <4>4. ASSUME NEW i \in Spilled, code'[z] = Load(i) PROVE FALSE
        BY <1>7, <4>1, <4>4
      <4>5. ASSUME q \in Spilled, code'[z] = Store(q) PROVE FALSE
        BY <1>1, <1>4, <1>7, <3>2, <4>1, <4>5
      <4> QED BY <4>2, <4>3, <4>4, <4>5 DEF ComesFrom
    <3>6. IsStore(y, code[x].slot)'
      BY <2>2, <3>3, <3>4 DEF IsStore
    <3> QED BY <3>5, <3>6
  <2>3. ASSUME NEW i \in Spilled, p \in ReachedUses(i), code'[x] = Load(i)
        PROVE  /\ \E s \in 1 .. x - 1 : IsStore(s, code[x].slot)'
               /\ \A s \in 1 .. m : IsStore(s, code[x].slot)' => code'[s].uses = {code'[x].def}
    <3>1. i \in 1 .. n /\ i < p
      BY <1>1, <1>11, <2>3 DEF n
    <3>2. PICK y \in 1 .. x - 1 : code'[y] = Store(i)
      BY <1>10, <2>1, <3>1
    <3>3. IsStore(y, code[x].slot)'
      BY <1>7, <2>3, <3>2 DEF IsStore
    <3>4. ASSUME NEW z \in 1 .. m, IsStore(z, code[x].slot)' PROVE code'[z].uses = {code'[x].def}
      <4>1. code'[z].op = "str" /\ code'[z].slot = SlotOf(i)
        BY <1>7, <2>3, <3>4 DEF IsStore
      <4>2. PICK q \in 1 .. n : ComesFrom(code', z, q)
        BY <1>8
      <4>3. CASE code'[z] = code[q]
        <5>1. NearShape(code[q], frame) /\ code[q].op = "str"
          BY <1>3, <4>1, <4>3 DEF n
        <5>2. code[q].slot \in 1 .. frame
          BY <5>1 DEF NearShape
        <5> QED BY <1>1, <1>4, <4>1, <4>3, <5>2
      <4>4. ASSUME NEW k \in Spilled, code'[z] = Load(k) PROVE FALSE
        BY <1>7, <4>1, <4>4
      <4>5. ASSUME q \in Spilled, code'[z] = Store(q) PROVE code'[z].uses = {code'[x].def}
        <5>1. q = i
          BY <1>5, <1>7, <4>1, <4>5
        <5> QED BY <1>7, <2>3, <4>5, <5>1
      <4> QED BY <4>2, <4>3, <4>4, <4>5 DEF ComesFrom
    <3> QED BY <3>3, <3>4
  <2>4. ASSUME p \in Spilled, code'[x] = Store(p) PROVE FALSE
    BY <1>7, <2>4
  <2> QED BY <2>1, <2>2, <2>3, <2>4 DEF ComesFrom
<1> QED BY <1>12, <1>13, <1>14 DEF CodeRight, m

LEMMA InvGenSpillCode ==
  ASSUME RAInv, CodeRight, OnlyFresh, GenSpillCode
  PROVE  RAInv' /\ CodeRight'
<1> DEFINE new == FlattenSeq([p \in 1 .. Len(code) |-> Expand(p)])
<1>1. /\ code' = new /\ Len(code') <= MaxNo
      /\ frame' = frame + Cardinality(Spilled)
      /\ phase = "scan" /\ phase' = "intervals" /\ UNCHANGED scanVars
  BY DEF GenSpillCode
<1>2. TypeOK /\ CodeTypeOK /\ CodeRight /\ Len(code) >= 1
  BY <1>1 DEF RAInv, CodeTypeOK
<1>3. new \in Seq(Instruction) /\ Len(new) >= 1 /\ (Near => \E at : Rewritten(new, at))
  BY <1>2, NewCode
<1> HIDE DEF new
<1>4. TypeOK'
  BY <1>1, <1>2 DEF TypeOK, scanVars
<1>5. frame \in Nat /\ Cardinality(Spilled) \in Nat
  BY <1>2, SlotFacts DEF CodeTypeOK
<1>6. CodeTypeOK'
  <2>1. Len(new) \in Nat
    BY <1>3
  <2>2. Len(code') \in 0 .. MaxNo /\ Len(code') >= 1
    BY <1>1, <1>3, <2>1, MaxNoAssumption
  <2> QED BY <1>1, <1>3, <1>5, <2>2 DEF CodeTypeOK
<1>7. CodeRight'
  <2>1. ASSUME frame' <= NearSlots PROVE CodeRight'
    <3>1. Near
      <4> SUFFICES ASSUME NEW i \in Spilled PROVE SlotOf(i) <= NearSlots
        BY FrameAssumption, <1>2, <1>5, SlotFacts DEF Near, IsFar
      <4>1. SlotOf(i) \in frame + 1 .. frame + Cardinality(Spilled)
        BY <1>2, SlotFacts
      <4> QED BY <1>1, <1>5, <2>1, <4>1, FrameAssumption
    <3>2. PICK at : Rewritten(new, at)
      BY <1>3, <3>1
    <3> QED BY <1>1, <1>2, <2>1, <3>2, RewrittenRight
  <2>2. ASSUME ~(frame' <= NearSlots) PROVE CodeRight'
    BY <2>2 DEF CodeRight
  <2> QED BY <2>1, <2>2
<1> QED BY <1>1, <1>4, <1>6, <1>7 DEF RAInv, Finished

LEMMA InvStart == RAInit => SpillInv
<1> SUFFICES ASSUME RAInit PROVE SpillInv
  OBVIOUS
<1>1. /\ code = <<>> /\ Len(code) = 0 /\ phase = "select" /\ frame \in Nat /\ spilledVRegs = {}
  BY FrameAssumption DEF RAInit
<1>2. TypeOK
  BY NumberFacts, IntervalsAreNumbers, MaxNoAssumption DEF RAInit, ScanReset, TypeOK
<1>3. CodeTypeOK
  BY <1>1, MaxNoAssumption DEF CodeTypeOK
<1>4. RAInv /\ CodeRight /\ SpillsFresh
  BY <1>1, <1>2, <1>3 DEF RAInv, Finished, CodeRight, SpillsFresh
<1>5. SpillShape /\ Selecting
  BY <1>1, LengthAssumption, MaxNoAssumption DEF SpillShape, Selecting
<1> QED BY <1>4, <1>5 DEF SpillInv

-----------------------------------------------------------------------------
(***************************************************************************)
(* Instruction selection: whatever it appends has the shape that the       *)
(* rounds of allocation rely on.                                           *)
(***************************************************************************)
LEMMA Times ==
  ASSUME NEW a \in Nat, NEW b \in Nat, NEW m \in Nat, a <= b
  PROVE  a * m <= b * m /\ a * m \in Nat
<1>1. PICK d \in Nat : b = a + d
  <2>1. b - a \in Nat /\ b = a + (b - a)
    OBVIOUS
  <2> QED BY <2>1
<1>2. b * m = a * m + d * m /\ d * m \in Nat /\ a * m \in Nat
  BY <1>1
<1> QED BY <1>2

\* Registers of the selected code are below all addresses.
LEMMA BelowBound ==
  ASSUME frame \in Nat
  PROVE  \A v \in 0 .. Length : v < Bound(frame)
<1>1. Length \in Nat /\ Length <= MaxNo /\ MaxNo \in Nat
  BY LengthAssumption, MaxNoAssumption
<1> DEFINE b == (frame + 2) * (MaxNo + 1)
<1>2. 1 * (MaxNo + 1) <= b /\ b \in Nat
  <2>1. 1 <= frame + 2 /\ frame + 2 \in Nat /\ MaxNo + 1 \in Nat
    BY <1>1
  <2>2. 1 \in Nat /\ frame + 2 <= frame + 2
    BY <2>1
  <2>3. 1 * (MaxNo + 1) <= b
    BY <2>1, <2>2, Times
  <2>4. b \in Nat
    BY <2>1, <2>2, Times
  <2> QED BY <2>3, <2>4
<1>3. 1 * (MaxNo + 1) = MaxNo + 1 /\ Bound(frame) = b
  BY <1>1 DEF Bound
<1> HIDE DEF b
<1> QED BY <1>1, <1>2, <1>3

LEMMA SmallSets ==
  ASSUME NEW a, NEW b
  PROVE  /\ IsFiniteSet({}) /\ Cardinality({}) <= 2
         /\ IsFiniteSet({a, b}) /\ Cardinality({a, b}) <= 2
<1>1. IsFiniteSet({}) /\ Cardinality({}) = 0
  BY FS_EmptySet
<1>2. IsFiniteSet({a}) /\ Cardinality({a}) = 1
  BY FS_Singleton
<1>3. {a, b} = {a} \cup {b}
  OBVIOUS
<1> DEFINE S == {a, b}
<1>4. IsFiniteSet(S) /\ (Cardinality(S) = 1 \/ Cardinality(S) = 1 + 1)
  <2>1. S = {a} \cup {b}
    BY <1>3
  <2> HIDE DEF S
  <2> QED BY <1>2, <2>1, FS_AddElement
<1>5. Cardinality(S) <= 2
  <2> HIDE DEF S
  <2> QED BY <1>4
<1> QED BY <1>1, <1>4, <1>5

(***************************************************************************)
(* What selection appends to n instructions: operands are known before,    *)
(* and what a piece defines on the way it uses itself.                     *)
(***************************************************************************)
GoodOperands(new, n, x) ==
  /\ new[x].uses \subseteq Nat \ {NoVReg} /\ IsFiniteSet(new[x].uses)
  /\ Cardinality(new[x].uses) <= MaxUses \/ Cardinality(new[x].uses) <= 2
  /\ \A v \in new[x].uses : v \in Known \/ \E d \in n + 1 .. x - 1 : new[d].def = v

GoodDefinition(new, n, x) ==
  /\ new[x].op \in {"op", "pass", "first"} /\ new[x].slot = 0 /\ new[x].def \in Nat
  /\ new[x].def # NoVReg => x <= new[x].def /\ new[x].def <= Len(new)
  /\ new[x].op = "op" => new[x].def \in {NoVReg, x}
  /\ new[x].op = "pass" =>
       /\ new[x].def # NoVReg /\ x + 1 \in 1 .. Len(new) /\ new[x].def \in new[x + 1].uses
       /\ \A q \in x + 2 .. Len(new) :
            new[x].def \in new[q].uses => \E k \in x + 1 .. q - 1 : new[k].def = new[x].def
  /\ new[x].op = "first" =>
       /\ new[x].def # NoVReg /\ x + 1 \in 1 .. Len(new) /\ new[x + 1].op = "op"
       /\ new[x + 1].def = new[x].def /\ new[x + 1].uses = {}

Grown(new) ==
  LET n == Len(code)
  IN  /\ Len(new) \in Nat /\ n < Len(new)
      /\ \A x \in 1 .. n : new[x] = code[x]
      /\ \A x \in n + 1 .. Len(new) : /\ new[x] = Instr(new[x].op, new[x].def, new[x].uses, new[x].slot)
                                      /\ GoodOperands(new, n, x) /\ GoodDefinition(new, n, x)

LEMMA KnownFacts ==
  ASSUME CodeTypeOK, Selecting, phase = "select"
  PROVE  \A v \in Known : v \in 1 .. Len(code) /\ code[v].op = "op" /\ code[v].def = v
BY CodeFacts DEF Selecting, Known, NoVReg

\* Where the instructions of the piece are.
LEMMA AppendFacts ==
  ASSUME CodeTypeOK, NEW piece \in Seq(Instruction)
  PROVE  LET new == code \o piece
         IN  /\ new \in Seq(Instruction)
             /\ Len(new) = Len(code) + Len(piece) /\ Len(piece) \in Nat
             /\ \A x \in 1 .. Len(code) : new[x] = code[x]
             /\ \A k \in 1 .. Len(piece) : new[Len(code) + k] = piece[k]
<1> DEFINE new == code \o piece
<1>1. code \in Seq(Instruction)
  BY DEF CodeTypeOK
<1> HIDE DEF Instruction
<1>2. /\ new \in Seq(Instruction) /\ Len(new) = Len(code) + Len(piece)
      /\ \A x \in 1 .. Len(code) : new[x] = code[x]
      /\ \A k \in 1 .. Len(piece) : new[Len(code) + k] = piece[k]
  BY <1>1, Concatenation
<1>3. Len(code) \in Nat /\ Len(piece) \in Nat
  BY <1>1
<1> QED BY <1>2, <1>3

LEMMA PlainGrows ==
  ASSUME CodeTypeOK, Selecting, phase = "select", NEW piece \in Plain(Len(code))
  PROVE  piece \in Seq(Instruction) /\ Grown(code \o piece)
<1> DEFINE n == Len(code)
           new == code \o piece
<1>1. n \in Nat /\ \A v \in Known : v \in 1 .. n
  BY CodeFacts, KnownFacts
<1>2. PICK def \in {NoVReg, n + 1}, uses \in {S \in SUBSET Known : Cardinality(S) <= MaxUses} :
        piece = <<Instr("op", def, uses, 0)>>
  BY DEF Plain
<1>3. IsFiniteSet(uses) /\ uses \subseteq Nat \ {NoVReg} /\ def \in Nat /\ uses \subseteq Known /\ Cardinality(uses) <= MaxUses
  <2>1. IsFiniteSet(1 .. n)
    BY <1>1, FS_Interval
  <2>2. uses \subseteq 1 .. n
    BY <1>1
  <2>3. IsFiniteSet(uses)
    BY <2>1, <2>2, FS_Subset
  <2> QED BY <1>1, <2>2, <2>3 DEF NoVReg
<1>4. Instr("op", def, uses, 0) \in Instruction
  BY <1>3 DEF Instr, Instruction
<1>5. piece \in Seq(Instruction) /\ Len(piece) = 1 /\ piece[1] = Instr("op", def, uses, 0)
  <2> HIDE DEF Instruction
  <2> QED BY <1>2, <1>4
<1>6. /\ Len(new) = n + 1 /\ \A x \in 1 .. n : new[x] = code[x]
      /\ new[n + 1] = Instr("op", def, uses, 0)
  <2>1. /\ Len(new) = n + Len(piece) /\ \A x \in 1 .. n : new[x] = code[x]
        /\ \A k \in 1 .. Len(piece) : new[n + k] = piece[k]
    BY <1>5, AppendFacts
  <2> HIDE DEF new, n
  <2> QED BY <1>1, <1>5, <2>1
<1> HIDE DEF new, n
<1>7. ASSUME NEW x \in n + 1 .. Len(new)
      PROVE  /\ new[x] = Instr(new[x].op, new[x].def, new[x].uses, new[x].slot)
             /\ GoodOperands(new, n, x) /\ GoodDefinition(new, n, x)
  <2>1. x = n + 1
    BY <1>1, <1>6
  <2>2. /\ new[x] = Instr("op", def, uses, 0) /\ new[x].op = "op" /\ new[x].def = def
        /\ new[x].uses = uses /\ new[x].slot = 0
    BY <1>6, <2>1 DEF Instr
  <2>3. GoodOperands(new, n, x)
    BY <1>3, <2>2 DEF GoodOperands
  <2>4. GoodDefinition(new, n, x)
    BY <1>1, <1>2, <1>3, <1>6, <2>1, <2>2 DEF GoodDefinition, n
  <2> QED BY <2>2, <2>3, <2>4
<1>8. Grown(new)
  BY <1>1, <1>6, <1>7 DEF Grown, n
<1> QED BY <1>5, <1>8 DEF new

LEMMA GlobalStoreGrows ==
  ASSUME CodeTypeOK, Selecting, phase = "select", NEW piece \in GlobalStore(Len(code))
  PROVE  piece \in Seq(Instruction) /\ Grown(code \o piece)
<1> DEFINE n == Len(code)
           new == code \o piece
<1>1. n \in Nat /\ \A v \in Known : v \in 1 .. n
  BY CodeFacts, KnownFacts
<1>2. PICK a \in Known :
        piece = <<Instr("pass", n + 1, {}, 0), Instr("op", NoVReg, {a, n + 1}, 0)>>
  BY DEF GlobalStore
<1>3. a \in Nat /\ a # NoVReg /\ a \in Known /\ n + 1 \in Nat /\ NoVReg \in Nat /\ n + 1 # NoVReg
  BY <1>1 DEF NoVReg
<1>4. Instr("pass", n + 1, {}, 0) \in Instruction /\ Instr("op", NoVReg, {a, n + 1}, 0) \in Instruction
  BY <1>3 DEF Instr, Instruction
<1>5. /\ piece \in Seq(Instruction) /\ Len(piece) = 2
      /\ piece[1] = Instr("pass", n + 1, {}, 0) /\ piece[2] = Instr("op", NoVReg, {a, n + 1}, 0)
  <2> HIDE DEF Instruction
  <2> QED BY <1>2, <1>4
<1>6. /\ Len(new) = n + 2 /\ \A x \in 1 .. n : new[x] = code[x]
      /\ new[n + 1] = Instr("pass", n + 1, {}, 0) /\ new[n + 2] = Instr("op", NoVReg, {a, n + 1}, 0)
  <2>1. /\ Len(new) = n + Len(piece) /\ \A x \in 1 .. n : new[x] = code[x]
        /\ \A k \in 1 .. Len(piece) : new[n + k] = piece[k]
    BY <1>5, AppendFacts
  <2> HIDE DEF new, n
  <2> QED BY <1>1, <1>5, <2>1
<1> HIDE DEF new, n
<1>7. /\ new[n + 1].op = "pass" /\ new[n + 1].def = n + 1 /\ new[n + 1].uses = {} /\ new[n + 1].slot = 0
      /\ new[n + 2].op = "op" /\ new[n + 2].def = NoVReg /\ new[n + 2].uses = {a, n + 1} /\ new[n + 2].slot = 0
  BY <1>6 DEF Instr
<1>8. GoodOperands(new, n, n + 1) /\ GoodDefinition(new, n, n + 1)
  <2>1. (n + 1) + 1 = n + 2
    BY <1>1
  <2>2. GoodOperands(new, n, n + 1)
    BY <1>7, SmallSets DEF GoodOperands
  <2>3. /\ n + 1 <= Len(new) /\ (n + 1) + 1 \in 1 .. Len(new) /\ (n + 1) + 2 > Len(new)
        /\ \A q \in (n + 1) + 2 .. Len(new) : FALSE
    BY <1>1, <1>6
  <2> QED BY <1>3, <1>7, <2>1, <2>2, <2>3 DEF GoodDefinition
<1>9. GoodOperands(new, n, n + 2) /\ GoodDefinition(new, n, n + 2)
  <2>1. n + 1 \in n + 1 .. (n + 2) - 1
    BY <1>1
  <2>2. GoodOperands(new, n, n + 2)
    <3>1. IsFiniteSet({a, n + 1}) /\ Cardinality({a, n + 1}) <= 2
      BY SmallSets
    <3> QED BY <1>3, <1>7, <2>1, <3>1 DEF GoodOperands
  <2> QED BY <1>3, <1>7, <2>2 DEF GoodDefinition
<1>10. \A x \in n + 1 .. Len(new) : x = n + 1 \/ x = n + 2
  BY <1>1, <1>6
<1>11. \A x \in n + 1 .. Len(new) : /\ new[x] = Instr(new[x].op, new[x].def, new[x].uses, new[x].slot)
                                    /\ GoodOperands(new, n, x) /\ GoodDefinition(new, n, x)
  BY <1>6, <1>7, <1>8, <1>9, <1>10
<1>12. Grown(new)
  BY <1>1, <1>6, <1>11 DEF Grown, n
<1> QED BY <1>5, <1>12 DEF new

LEMMA ConditionGrows ==
  ASSUME CodeTypeOK, Selecting, phase = "select", NEW piece \in Condition(Len(code))
  PROVE  piece \in Seq(Instruction) /\ Grown(code \o piece)
<1> DEFINE n == Len(code)
           new == code \o piece
<1>1. n \in Nat
  BY CodeFacts
<1>2. piece = <<Instr("first", n + 2, {}, 0), Instr("op", n + 2, {}, 0)>>
  BY DEF Condition
<1>3. n + 2 \in Nat /\ n + 2 # NoVReg
  BY <1>1 DEF NoVReg
<1>4. Instr("first", n + 2, {}, 0) \in Instruction /\ Instr("op", n + 2, {}, 0) \in Instruction
  BY <1>3 DEF Instr, Instruction
<1>5. /\ piece \in Seq(Instruction) /\ Len(piece) = 2
      /\ piece[1] = Instr("first", n + 2, {}, 0) /\ piece[2] = Instr("op", n + 2, {}, 0)
  <2> HIDE DEF Instruction
  <2> QED BY <1>2, <1>4
<1>6. /\ Len(new) = n + 2 /\ \A x \in 1 .. n : new[x] = code[x]
      /\ new[n + 1] = Instr("first", n + 2, {}, 0) /\ new[n + 2] = Instr("op", n + 2, {}, 0)
  <2>1. /\ Len(new) = n + Len(piece) /\ \A x \in 1 .. n : new[x] = code[x]
        /\ \A k \in 1 .. Len(piece) : new[n + k] = piece[k]
    BY <1>5, AppendFacts
  <2> HIDE DEF new, n
  <2> QED BY <1>1, <1>5, <2>1
<1> HIDE DEF new, n
<1>7. /\ new[n + 1].op = "first" /\ new[n + 1].def = n + 2 /\ new[n + 1].uses = {} /\ new[n + 1].slot = 0
      /\ new[n + 2].op = "op" /\ new[n + 2].def = n + 2 /\ new[n + 2].uses = {} /\ new[n + 2].slot = 0
  BY <1>6 DEF Instr
<1>8. GoodOperands(new, n, n + 1) /\ GoodDefinition(new, n, n + 1)
  <2>1. (n + 1) + 1 = n + 2 /\ n + 1 <= n + 2 /\ n + 2 \in 1 .. Len(new)
    BY <1>1, <1>6
  <2>2. GoodOperands(new, n, n + 1)
    BY <1>7, SmallSets DEF GoodOperands
  <2> QED BY <1>3, <1>6, <1>7, <2>1, <2>2 DEF GoodDefinition
<1>9. GoodOperands(new, n, n + 2) /\ GoodDefinition(new, n, n + 2)
  <2>2. GoodOperands(new, n, n + 2)
    BY <1>7, SmallSets DEF GoodOperands
  <2> QED BY <1>3, <1>6, <1>7, <2>2 DEF GoodDefinition
<1>10. \A x \in n + 1 .. Len(new) : x = n + 1 \/ x = n + 2
  BY <1>1, <1>6
<1>11. \A x \in n + 1 .. Len(new) : /\ new[x] = Instr(new[x].op, new[x].def, new[x].uses, new[x].slot)
                                    /\ GoodOperands(new, n, x) /\ GoodDefinition(new, n, x)
  BY <1>6, <1>7, <1>8, <1>9, <1>10
<1>12. Grown(new)
  BY <1>1, <1>6, <1>11 DEF Grown, n
<1> QED BY <1>5, <1>12 DEF new

LEMMA RemainderGrows ==
  ASSUME CodeTypeOK, Selecting, phase = "select", NEW piece \in Remainder(Len(code))
  PROVE  piece \in Seq(Instruction) /\ Grown(code \o piece)
<1> DEFINE n == Len(code)
           new == code \o piece
<1>1. n \in Nat /\ \A v \in Known : v \in 1 .. n
  BY CodeFacts, KnownFacts
<1>2. PICK a \in Known, b \in Known :
        piece = <<Instr("pass", n + 3, {a, b}, 0), Instr("pass", n + 3, {n + 3, b}, 0),
                  Instr("op", n + 3, {a, n + 3}, 0)>>
  BY Zenon DEF Remainder
<1>3. a \in Nat /\ b \in Nat /\ a # NoVReg /\ b # NoVReg /\ a \in Known /\ b \in Known /\ n + 3 \in Nat /\ n + 3 # NoVReg
      /\ a < n + 3 /\ b < n + 3
  BY <1>1 DEF NoVReg
<1>4. /\ Instr("pass", n + 3, {a, b}, 0) \in Instruction
      /\ Instr("pass", n + 3, {n + 3, b}, 0) \in Instruction
      /\ Instr("op", n + 3, {a, n + 3}, 0) \in Instruction
  BY <1>3 DEF Instr, Instruction
<1>5. /\ piece \in Seq(Instruction) /\ Len(piece) = 3
      /\ piece[1] = Instr("pass", n + 3, {a, b}, 0) /\ piece[2] = Instr("pass", n + 3, {n + 3, b}, 0)
      /\ piece[3] = Instr("op", n + 3, {a, n + 3}, 0)
  <2> HIDE DEF Instruction
  <2> QED BY <1>2, <1>4
<1>6. /\ Len(new) = n + 3 /\ \A x \in 1 .. n : new[x] = code[x]
      /\ new[n + 1] = Instr("pass", n + 3, {a, b}, 0) /\ new[n + 2] = Instr("pass", n + 3, {n + 3, b}, 0)
      /\ new[n + 3] = Instr("op", n + 3, {a, n + 3}, 0)
  <2>1. /\ Len(new) = n + Len(piece) /\ \A x \in 1 .. n : new[x] = code[x]
        /\ \A k \in 1 .. Len(piece) : new[n + k] = piece[k]
    BY <1>5, AppendFacts
  <2> HIDE DEF new, n
  <2> QED BY <1>1, <1>5, <2>1
<1> HIDE DEF new, n
<1>7. /\ new[n + 1].op = "pass" /\ new[n + 1].def = n + 3 /\ new[n + 1].uses = {a, b} /\ new[n + 1].slot = 0
      /\ new[n + 2].op = "pass" /\ new[n + 2].def = n + 3 /\ new[n + 2].uses = {n + 3, b} /\ new[n + 2].slot = 0
      /\ new[n + 3].op = "op" /\ new[n + 3].def = n + 3 /\ new[n + 3].uses = {a, n + 3} /\ new[n + 3].slot = 0
  BY <1>6 DEF Instr
<1>8. GoodOperands(new, n, n + 1) /\ GoodDefinition(new, n, n + 1)
  <2>1. (n + 1) + 1 = n + 2 /\ n + 1 <= n + 3 /\ n + 2 \in 1 .. Len(new) /\ n + 3 <= Len(new)
    BY <1>1, <1>6
  <2>2. GoodOperands(new, n, n + 1)
    <3>1. IsFiniteSet({a, b}) /\ Cardinality({a, b}) <= 2
      BY SmallSets
    <3> QED BY <1>3, <1>7, <3>1 DEF GoodOperands
  <2>3. ASSUME NEW q \in (n + 1) + 2 .. Len(new)
        PROVE  \E k \in (n + 1) + 1 .. q - 1 : new[k].def = new[n + 1].def
    <3>1. n + 2 \in (n + 1) + 1 .. q - 1
      BY <1>1, <1>6
    <3> QED BY <1>7, <3>1
  <2> QED BY <1>3, <1>6, <1>7, <2>1, <2>2, <2>3 DEF GoodDefinition
<1>9. GoodOperands(new, n, n + 2) /\ GoodDefinition(new, n, n + 2)
  <2>1. (n + 2) + 1 = n + 3 /\ n + 2 <= n + 3 /\ n + 3 \in 1 .. Len(new) /\ n + 3 <= Len(new) /\ n + 1 \in n + 1 .. (n + 2) - 1
    BY <1>1, <1>6
  <2>2. GoodOperands(new, n, n + 2)
    <3>1. IsFiniteSet({n + 3, b}) /\ Cardinality({n + 3, b}) <= 2
      BY SmallSets
    <3> QED BY <1>3, <1>7, <2>1, <3>1 DEF GoodOperands
  <2>3. \A q \in (n + 2) + 2 .. Len(new) : FALSE
    BY <1>1, <1>6
  <2> QED BY <1>3, <1>6, <1>7, <2>1, <2>2, <2>3 DEF GoodDefinition
<1>10. GoodOperands(new, n, n + 3) /\ GoodDefinition(new, n, n + 3)
  <2>1. n + 1 \in n + 1 .. (n + 3) - 1 /\ n + 3 <= Len(new)
    BY <1>1, <1>6
  <2>2. GoodOperands(new, n, n + 3)
    <3>1. IsFiniteSet({a, n + 3}) /\ Cardinality({a, n + 3}) <= 2
      BY SmallSets
    <3> QED BY <1>3, <1>7, <2>1, <3>1 DEF GoodOperands
  <2> QED BY <1>3, <1>7, <2>1, <2>2 DEF GoodDefinition
<1>11. \A x \in n + 1 .. Len(new) : x = n + 1 \/ x = n + 2 \/ x = n + 3
  BY <1>1, <1>6
<1>12. \A x \in n + 1 .. Len(new) : /\ new[x] = Instr(new[x].op, new[x].def, new[x].uses, new[x].slot)
                                    /\ GoodOperands(new, n, x) /\ GoodDefinition(new, n, x)
  BY <1>6, <1>7, <1>8, <1>9, <1>10, <1>11
<1>13. Grown(new)
  BY <1>1, <1>6, <1>12 DEF Grown, n
<1> QED BY <1>5, <1>13 DEF new

LEMMA SelectGrows ==
  ASSUME RAInv, Selecting, Select
  PROVE  /\ code' \in Seq(Instruction) /\ Grown(code') /\ Len(code') <= Length
         /\ phase = "select" /\ UNCHANGED <<scanVars, frame, spilledVRegs, phase>>
<1>1. /\ phase = "select" /\ UNCHANGED <<scanVars, frame, spilledVRegs, phase>> /\ CodeTypeOK
      /\ Len(code) \in Nat
  BY CodeFacts DEF Select, RAInv
<1>2. PICK piece \in Plain(Len(code)) \cup GlobalStore(Len(code)) \cup Condition(Len(code))
                       \cup Remainder(Len(code)) :
        Len(code) + Len(piece) <= Length /\ code' = code \o piece
  BY DEF Select
<1>3. piece \in Seq(Instruction) /\ Grown(code')
  BY <1>1, <1>2, PlainGrows, GlobalStoreGrows, ConditionGrows, RemainderGrows
<1>4. Len(code') = Len(code) + Len(piece) /\ code' \in Seq(Instruction)
  BY <1>1, <1>2, <1>3, AppendFacts
<1> QED BY <1>1, <1>2, <1>3, <1>4

LEMMA SelectShape ==
  ASSUME SpillInv, Select
  PROVE  SpillInv'
<1> DEFINE n == Len(code)
           m == Len(code')
<1>1. /\ code' \in Seq(Instruction) /\ Grown(code') /\ m <= Length
      /\ phase = "select" /\ UNCHANGED <<scanVars, frame, spilledVRegs, phase>>
      /\ CodeTypeOK /\ TypeOK /\ spilledVRegs = {} /\ spilledVRegs' = {}
  BY SelectGrows DEF SpillInv, RAInv, Selecting
<1>2. /\ n \in Nat /\ m \in Nat /\ n < m /\ m <= Length /\ Length <= MaxNo /\ Length \in Nat
      /\ MaxNo \in Nat /\ frame \in Nat
  BY <1>1, CodeFacts, LengthAssumption, MaxNoAssumption DEF Grown, CodeTypeOK
<1>3. /\ \A x \in 1 .. n : x \in 1 .. m /\ code'[x] = code[x]
      /\ \A x \in n + 1 .. m : /\ x \in 1 .. m /\ GoodOperands(code', n, x) /\ GoodDefinition(code', n, x)
      /\ \A x \in 1 .. m : x \in 1 .. n \/ x \in n + 1 .. m
  BY <1>1, <1>2 DEF Grown
<1>4. \A x \in 1 .. n :
        /\ Selected(x) /\ (code[x].def # NoVReg => x <= code[x].def /\ code[x].def <= n)
        /\ code[x].op = "op" => code[x].def \in {NoVReg, x}
        /\ KindRight(code[x], spilledVRegs, frame) /\ \A v \in code[x].uses : Sourced(x, v)
        /\ HandedOn(x) /\ BothMoves(x) /\ IsLast(x) /\ code[x].def \in Nat
  BY <1>1, CodeFacts DEF SpillInv, Selecting, SpillShape, Instruction
<1>5. \A v \in Known : v \in 1 .. n /\ code[v].op = "op" /\ code[v].def = v
  BY <1>1, KnownFacts DEF SpillInv
<1> HIDE DEF n, m
\* A register is defined up to its number, on the same side of the seam.
<1>6. \A x \in 1 .. m :
        /\ code'[x].op \in {"op", "pass", "first"} /\ code'[x].def \in Nat
        /\ code'[x].def # NoVReg => x <= code'[x].def /\ code'[x].def <= m
        /\ code'[x].op = "op" => code'[x].def \in {NoVReg, x}
        /\ x \in 1 .. n /\ code'[x].def # NoVReg => code'[x].def <= n
  <2> SUFFICES ASSUME NEW x \in 1 .. m
               PROVE  /\ code'[x].op \in {"op", "pass", "first"} /\ code'[x].def \in Nat
                      /\ code'[x].def # NoVReg => x <= code'[x].def /\ code'[x].def <= m
                      /\ code'[x].op = "op" => code'[x].def \in {NoVReg, x}
                      /\ x \in 1 .. n /\ code'[x].def # NoVReg => code'[x].def <= n
    OBVIOUS
  <2>1. CASE x \in 1 .. n
    <3>1. code'[x] = code[x] /\ Selected(x) /\ code[x].def \in Nat
          /\ (code[x].def # NoVReg => x <= code[x].def /\ code[x].def <= n)
          /\ (code[x].op = "op" => code[x].def \in {NoVReg, x})
      BY <1>3, <1>4, <2>1
    <3> QED BY <1>2, <3>1 DEF Selected, n, m
  <2>2. CASE x \in n + 1 .. m
    <3>1. GoodDefinition(code', n, x) /\ x \notin 1 .. n
      BY <1>2, <1>3, <2>2 DEF n
    <3> QED BY <3>1 DEF GoodDefinition, m
  <2> QED BY <1>3, <2>1, <2>2
<1>7. ASSUME NEW x \in n + 1 .. m, NEW v \in code'[x].uses
      PROVE  /\ v \in VReg /\ v # NoVReg /\ v \in 0 .. Length
             /\ \E d \in 1 .. x - 1 : code'[d].def = v
             /\ v <= n => v \in 1 .. n /\ code'[v].op = "op" /\ code'[v].def = v
  <2>1. (v \in Known \/ \E d \in n + 1 .. x - 1 : code'[d].def = v) /\ v # NoVReg
    BY <1>3 DEF GoodOperands
  <2>2. CASE v \in Known
    <3>1. v \in 1 .. n /\ code'[v].op = "op" /\ code'[v].def = v
      BY <1>3, <1>5, <2>2
    <3>2. v \in 1 .. x - 1 /\ v \in 1 .. Length
      BY <1>2, <3>1 DEF n, m
    <3> QED BY <1>2, <3>1, <3>2 DEF VReg, NoVReg
  <2>3. ASSUME NEW d \in n + 1 .. x - 1, code'[d].def = v
        PROVE  /\ v \in VReg /\ v # NoVReg /\ v \in 0 .. Length /\ ~(v <= n)
               /\ d \in 1 .. x - 1
    <3>1. d \in n + 1 .. m /\ d \in 1 .. x - 1 /\ d \in 1 .. m
      BY <1>2 DEF n, m
    <3>4. d <= v /\ v <= m /\ v \in Nat /\ v # NoVReg
      BY <1>6, <2>3, <2>1, <3>1
    <3> QED BY <1>2, <3>1, <3>4 DEF VReg, NoVReg, n, m
  <2> QED BY <2>1, <2>2, <2>3
<1>8. ASSUME NEW x \in 1 .. m
      PROVE  KindRight(code'[x], spilledVRegs', frame')
  <2>1. CASE x \in 1 .. n
    BY <1>1, <1>3, <1>4, <2>1
  <2>2. CASE x \in n + 1 .. m
    <3>1. /\ code'[x].op \in {"op", "pass", "first"} /\ code'[x].def \in 0 .. Length
          /\ code'[x].def \in VReg \cup {NoVReg}
      BY <1>2, <1>6 DEF VReg, NoVReg, m
    <3>2. code'[x].uses \subseteq VReg /\ code'[x].uses \subseteq 0 .. Length /\ NoVReg \notin code'[x].uses
      BY <1>7, <2>2
    <3>3. /\ IsFiniteSet(code'[x].uses)
          /\ Cardinality(code'[x].uses) <= MaxUses \/ Cardinality(code'[x].uses) <= 2
          /\ code'[x].op \in {"pass", "first"} => code'[x].def # NoVReg
      BY <1>3, <2>2 DEF GoodOperands, GoodDefinition
    <3>4. \A v \in {code'[x].def} \cup code'[x].uses : v < Bound(frame)
      BY <1>2, <3>1, <3>2, BelowBound
    <3> QED BY <1>1, <3>1, <3>2, <3>3, <3>4 DEF KindRight
  <2> QED BY <1>3, <2>1, <2>2
<1>9. ASSUME NEW x \in 1 .. m, NEW v \in code'[x].uses
      PROVE  /\ v \in VReg /\ \E d \in 1 .. x - 1 : code'[d].def = v
             /\ Sourced(x, v)'
  <2>1. v \in VReg /\ \E d \in 1 .. x - 1 : code'[d].def = v
    <3>1. CASE x \in 1 .. n
      <4>1. code'[x] = code[x] /\ Selected(x) /\ KindRight(code[x], spilledVRegs, frame) /\ Sourced(x, v)
        BY <1>3, <1>4, <3>1
      <4>2. v \in VReg
        BY <4>1 DEF KindRight, Selected
      <4>3. PICK d \in 1 .. x - 1 : code[d].def = v
        BY <1>1, <4>1, <4>2 DEF Sourced
      <4>4. d \in 1 .. n
        BY <1>2, <3>1
      <4> QED BY <1>3, <4>2, <4>3, <4>4
    <3>2. CASE x \in n + 1 .. m
      BY <1>7, <3>2
    <3> QED BY <1>3, <3>1, <3>2
  <2>2. PICK d \in 1 .. x - 1 : code'[d].def = v
    BY <2>1
  <2>3. d \in 1 .. m
    BY <1>2 DEF m
  <2>4. Selected(d)' /\ Selected(x)'
    BY <1>6, <2>3 DEF Selected
  <2> QED BY <1>1, <2>1, <2>2, <2>4 DEF Sourced
\* What is handed on in the selected code is defined again before it could
\* reach what was appended.
<1>10. ASSUME NEW p \in 1 .. n, code[p].op = "pass"
       PROVE  ReachedUses(p)' = ReachedUses(p)
  <2> DEFINE v == code[p].def
  <2>1. code'[p] = code[p] /\ v # NoVReg /\ p <= v /\ v <= n /\ v \in Nat
    BY <1>3, <1>4, <1>10 DEF KindRight
  <2>2. ASSUME NEW q \in ReachedUses(p)' PROVE q \in ReachedUses(p)
    <3>1. /\ q \in p + 1 .. m /\ v \in code'[q].uses
          /\ \A k \in p + 1 .. q - 1 : code'[k].def # v
      BY <2>1 DEF ReachedUses, m
    <3>2. CASE q \in 1 .. n
      <4>1. \A k \in p + 1 .. q - 1 : k \in 1 .. n
        BY <1>2, <3>2
      <4>2. \A k \in p + 1 .. q - 1 : code[k].def # v
        BY <1>3, <3>1, <4>1
      <4>3. q \in p + 1 .. n /\ v \in code[q].uses
        BY <1>2, <1>3, <3>1, <3>2
      <4> QED BY <4>2, <4>3 DEF ReachedUses, n
    <3>3. CASE q \in n + 1 .. m
      <4>1. v \in 1 .. n /\ code'[v].op = "op" /\ code'[v].def = v
        BY <1>7, <2>1, <3>1, <3>3
      <4>2. v # p
        BY <1>10, <2>1, <4>1
      <4>3. v \in p + 1 .. q - 1
        BY <1>2, <2>1, <3>3, <4>1, <4>2
      <4> QED BY <3>1, <4>1, <4>3
    <3>4. q \in 1 .. m
      BY <1>2, <3>1
    <3> QED BY <1>3, <3>2, <3>3, <3>4
  <2>3. ASSUME NEW q \in ReachedUses(p) PROVE q \in ReachedUses(p)'
    <3>1. /\ q \in p + 1 .. n /\ v \in code[q].uses
          /\ \A k \in p + 1 .. q - 1 : code[k].def # v
      BY DEF ReachedUses, n
    <3>2. q \in 1 .. n /\ q \in p + 1 .. m /\ \A k \in p + 1 .. q - 1 : k \in 1 .. n
      BY <1>2, <3>1
    <3>3. code'[q] = code[q] /\ \A k \in p + 1 .. q - 1 : code'[k].def # v
      BY <1>3, <3>1, <3>2
    <3> QED BY <2>1, <3>1, <3>2, <3>3 DEF ReachedUses, m
  <2> QED BY <2>2, <2>3
<1>11. ASSUME NEW x \in 1 .. m PROVE HandedOn(x)'
  <2>1. CASE x \in 1 .. n
    <3> SUFFICES ASSUME code'[x].op = "pass"
                 PROVE  \E h \in 1 .. m : Selected(h)' /\ Close(x, h)' /\ ReachedUses(x)' = {h}
      BY DEF HandedOn, m
    <3>1. code[x].op = "pass" /\ HandedOn(x)
      BY <1>3, <1>4, <2>1
    <3>2. PICK h \in 1 .. n : Selected(h) /\ Close(x, h) /\ ReachedUses(x) = {h}
      BY <3>1 DEF HandedOn, n
    <3>3. h \in 1 .. m /\ Selected(h)'
      BY <1>3, <1>6 DEF Selected
    <3>4. Close(x, h)'
      <4>1. \A e \in x + 1 .. h - 1 : e \in 1 .. n
        BY <1>2, <2>1
      <4>2. \A e \in x + 1 .. h - 1 : code'[e] = code[e]
        BY <1>3, <4>1
      <4> QED BY <3>2, <4>2 DEF Close, Quiet
    <3> QED BY <1>10, <2>1, <3>1, <3>2, <3>3, <3>4
  <2>2. CASE x \in n + 1 .. m
    <3> SUFFICES ASSUME code'[x].op = "pass"
                 PROVE  \E h \in 1 .. m : Selected(h)' /\ Close(x, h)' /\ ReachedUses(x)' = {h}
      BY DEF HandedOn, m
    <3>1. /\ x + 1 \in 1 .. m /\ code'[x].def \in code'[x + 1].uses
          /\ \A q \in x + 2 .. m :
               code'[x].def \in code'[q].uses => \E k \in x + 1 .. q - 1 : code'[k].def = code'[x].def
      BY <1>3, <2>2 DEF GoodDefinition, m
    <3>2. Selected(x + 1)'
      BY <1>6, <3>1 DEF Selected
    <3>3. Close(x, x + 1)'
      BY <1>2 DEF Close
    <3>4. x + 1 \in ReachedUses(x)'
      <4>1. x + 1 \in x + 1 .. m /\ \A k \in x + 1 .. (x + 1) - 1 : FALSE
        BY <1>2, <3>1
      <4> QED BY <3>1, <4>1 DEF ReachedUses, m
    <3>5. ASSUME NEW q \in ReachedUses(x)' PROVE q = x + 1
      <4>1. /\ q \in x + 1 .. m /\ code'[x].def \in code'[q].uses
            /\ \A k \in x + 1 .. q - 1 : code'[k].def # code'[x].def
        BY DEF ReachedUses, m
      <4>2. q = x + 1 \/ q \in x + 2 .. m
        BY <1>2, <4>1
      <4> QED BY <3>1, <4>1, <4>2
    <3> QED BY <3>1, <3>2, <3>3, <3>4, <3>5
  <2> QED BY <1>3, <2>1, <2>2
<1>12. ASSUME NEW x \in 1 .. m PROVE BothMoves(x)'
  <2>1. CASE x \in 1 .. n
    <3>1. BothMoves(x) /\ code'[x] = code[x]
      BY <1>3, <1>4, <2>1
    <3> QED BY <1>3, <3>1 DEF BothMoves, n, m
  <2>2. CASE x \in n + 1 .. m
    <3>1. GoodDefinition(code', n, x)
      BY <1>3, <2>2
    <3> QED BY <3>1 DEF GoodDefinition, BothMoves
  <2> QED BY <1>3, <2>1, <2>2
<1>13. ASSUME NEW x \in 1 .. m PROVE IsLast(x)'
  <2> SUFFICES ASSUME NEW q \in 1 .. m, code'[x].op = "op", code'[q].def = code'[x].def, code'[x].def # NoVReg
               PROVE  q <= x
    BY DEF IsLast, m
  <2> QED BY <1>6
<1>14. \A x \in 1 .. m : SpillLast(x)' /\ ReloadUsed(x)'
  <2>1. \A x \in 1 .. m : code'[x].op # "ldr" /\ code'[x].op # "str"
    BY <1>6
  <2> QED BY <2>1 DEF SpillLast, ReloadUsed
<1>15. SpillShape'
  BY <1>1, <1>8, <1>9, <1>11, <1>12, <1>13, <1>14 DEF SpillShape, m
<1>16. Selecting'
  <2>1. \A x \in 1 .. m :
          /\ Selected(x)' /\ (code'[x].def # NoVReg => x <= code'[x].def /\ code'[x].def <= m)
          /\ code'[x].op = "op" => code'[x].def \in {NoVReg, x}
    BY <1>6 DEF Selected
  <2> QED BY <1>1, <2>1 DEF Selecting, m
<1>17. CodeRight'
  <2> SUFFICES ASSUME NEW x \in 1 .. m PROVE NearShape(code'[x], frame') /\ DefinedBefore(x)' /\ LoadMatches(x)'
    BY DEF CodeRight, m
  <2>1. NearShape(code'[x], frame')
    BY <1>6, <1>8, <1>9 DEF NearShape, KindRight
  <2>2. DefinedBefore(x)'
    BY <1>9 DEF DefinedBefore
  <2>3. LoadMatches(x)'
    BY <1>6 DEF LoadMatches
  <2> QED BY <2>1, <2>2, <2>3
<1>18. RAInv'
  <2>1. TypeOK'
    BY <1>1 DEF TypeOK, scanVars
  <2>2. m \in 0 .. MaxNo
    BY <1>2
  <2>3. CodeTypeOK'
    BY <1>1, <1>2, <2>2 DEF CodeTypeOK, m
  <2> QED BY <1>1, <2>1, <2>3 DEF RAInv, Finished
<1> QED BY <1>1, <1>15, <1>16, <1>17, <1>18 DEF SpillInv, SpillsFresh
-----------------------------------------------------------------------------
\* Between a reload and its use, and between a definition and its store,
\* nobody uses anything that is defined.
LEMMA QuietUnused ==
  ASSUME CodeTypeOK, SpillShape, NEW d \in Defining, NEW e \in 1 .. Len(code), Quiet(e)
  PROVE  e \notin ReachedUses(d)
<1> SUFFICES ASSUME e \in ReachedUses(d) PROVE FALSE
  OBVIOUS
<1>1. /\ d \in 1 .. Len(code) /\ Len(code) \in Nat /\ d < e /\ code[d].def \in code[e].uses
      /\ KindRight(code[e], spilledVRegs, frame)
  BY CodeFacts DEF ReachedUses, SpillShape
<1>2. code[e].op = "ldr" /\ code[d].def \notin VReg
  BY <1>1 DEF KindRight, Quiet
<1>3. d > e \/ code[e].op = "str"
  BY <1>1, <1>2 DEF SpillShape, Sourced
<1> QED BY <1>1, <1>2, <1>3

\* The range of an address, of a register that was spilled or of an operand
\* that is handed on is short.
LEMMA ShortRange ==
  ASSUME CodeTypeOK, SpillShape, NEW p \in Defining, ~FreshDef(p), NEW q \in ReachedUses(p)
  PROVE  Close(p, q) /\ (code[p].op = "op" => code[q].op = "str")
<1> DEFINE v == code[p].def
<1>1. /\ p \in 1 .. Len(code) /\ Len(code) \in Nat /\ q \in 1 .. Len(code) /\ p < q /\ v \in code[q].uses
      /\ \A k \in p + 1 .. q - 1 : code[k].def # v
      /\ code[p].op \in {"op", "pass", "ldr", "str", "addr"} /\ v # NoVReg
  BY CodeFacts DEF ReachedUses, Defining, Instruction
<1>2. KindRight(code[p], spilledVRegs, frame) /\ KindRight(code[q], spilledVRegs, frame) /\ Sourced(q, v)
  BY <1>1 DEF SpillShape
<1>3. CASE v \notin VReg
  <2>1. Close(p, q) /\ code[q].op = "str"
    BY <1>1, <1>2, <1>3 DEF Sourced
  <2> QED BY <2>1
<1>4. CASE v \in spilledVRegs
  <2>1. PICK r \in 1 .. Len(code) :
          /\ Close(r, q) /\ code[r].def = v
          /\ code[r].op \in IF Selected(q) THEN {"ldr", "pass"} ELSE {"op"}
    BY <1>2, <1>4 DEF Sourced
  <2>2. r <= p
    BY <1>1, <2>1 DEF Close
  <2>3. r < p => Quiet(p)
    BY <1>1, <2>1 DEF Close
  <2>4. Close(p, q)
    BY <1>1, <2>1, <2>2 DEF Close
  <2>5. ASSUME code[p].op = "op" PROVE code[q].op = "str"
    <3>1. r = p
      BY <1>1, <2>2, <2>3, <2>5 DEF Quiet
    <3>2. ~Selected(q)
      BY <2>1, <2>5, <3>1
    <3>3. ~Quiet(q)
      BY <1>1, QuietUnused
    <3>4. code[q].op \in {"op", "pass", "first", "ldr", "str", "addr"}
      BY <1>1, CodeFacts DEF Instruction
    <3> QED BY <3>2, <3>3, <3>4 DEF Quiet, Selected
  <2> QED BY <2>4, <2>5
<1>5. CASE v \in VReg \ spilledVRegs
  <2>1. code[p].op = "pass"
    BY <1>1, <1>2, <1>5 DEF KindRight, FreshDef
  <2>2. q = Parent(p) /\ Close(p, Parent(p))
    BY <1>1, <2>1, ParentFacts
  <2> QED BY <2>1, <2>2
<1> QED BY <1>3, <1>4, <1>5

\* Definitions of what one instruction uses are no more than its operands.
LEMMA OperandsOf ==
  ASSUME CodeTypeOK, SpillShape, NEW c \in 1 .. Len(code), NEW A \in SUBSET Defining,
         \A j \in A : c \in ReachedUses(j)
  PROVE  IsFiniteSet(A) /\ Cardinality(A) <= Cardinality(code[c].uses)
<1> DEFINE of == [j \in A |-> code[j].def]
<1>1. IsFiniteSet(code[c].uses)
  BY DEF SpillShape, KindRight
<1>2. Defining \subseteq 1 .. Len(code) /\ Len(code) \in Nat
  BY CodeFacts
<1>3. of \in Injection(A, code[c].uses)
  <2>1. of \in [A -> code[c].uses]
    BY DEF ReachedUses
  <2>2. ASSUME NEW j \in A, NEW k \in A, of[j] = of[k], j < k PROVE FALSE
    <3>1. /\ j \in 1 .. Len(code) /\ k \in 1 .. Len(code) /\ k < c
          /\ code[k].def = code[j].def /\ c \in ReachedUses(j)
      BY <1>2, <2>2 DEF ReachedUses
    <3>2. \A x \in j + 1 .. c - 1 : code[x].def # code[j].def
      BY <3>1 DEF ReachedUses
    <3>3. k \in j + 1 .. c - 1
      BY <1>2, <2>2, <3>1
    <3> QED BY <3>1, <3>2, <3>3
  <2>3. ASSUME NEW j \in A, NEW k \in A, of[j] = of[k] PROVE j = k
    <3>1. j \in Nat /\ k \in Nat
      BY <1>2
    <3> QED BY <2>2, <2>3, <3>1
  <2> HIDE DEF of
  <2> QED BY <2>1, <2>3 DEF Injection, IsInjective
<1> QED BY <1>1, <1>3, FS_Injection

LEMMA FewOperands ==
  ASSUME CodeTypeOK, SpillShape, NEW c \in 1 .. Len(code), ~Quiet(c)
  PROVE  Cardinality(code[c].uses) \in Nat /\ Cardinality(code[c].uses) < Cardinality(Reg)
<1>1. code[c].op \in {"op", "pass", "first", "str"}
  BY CodeFacts DEF Quiet, Instruction
<1>2. IsFiniteSet(code[c].uses) /\ (Cardinality(code[c].uses) <= MaxUses \/ Cardinality(code[c].uses) <= 2)
  BY <1>1 DEF SpillShape, KindRight
<1>3. Cardinality(Reg) = LastReg - FirstReg + 1
  <2>1. FirstReg \in Int /\ LastReg \in Int /\ FirstReg <= LastReg
    BY RegAssumption
  <2>2. Cardinality(FirstReg .. LastReg) = IF FirstReg > LastReg THEN 0 ELSE LastReg - FirstReg + 1
    BY <2>1, FS_Interval
  <2> QED BY <2>1, <2>2 DEF Reg
<1>4. Cardinality(code[c].uses) \in Nat
  BY <1>2, FS_CardinalityType
<1> QED BY <1>2, <1>3, <1>4, OperandsFit, FrameAssumption, RegAssumption

(***************************************************************************)
(* The intervals that are live at s and end within a short range are few:  *)
(* they are operands of the one instruction that uses it, or of its        *)
(* definition.                                                             *)
(***************************************************************************)
LEMMA Crowd ==
  ASSUME CodeTypeOK, SpillShape, NEW p \in Defining, ~FreshDef(p),
         NEW c \in ReachedUses(p), NEW s \in Nat, Parent(p) <= s, NEW A \in SUBSET Defining,
         \A j \in A : Parent(j) <= s /\ \E e \in ReachedUses(j) : s <= e /\ e <= c,
         s = p => p \notin A \/ \E i \in Defining \ A : p \in ReachedUses(i)
  PROVE  IsFiniteSet(A) /\ Cardinality(A) < Cardinality(Reg)
<1>1. /\ p \in 1 .. Len(code) /\ Len(code) \in Nat /\ c \in 1 .. Len(code) /\ p < c
      /\ Defining \subseteq 1 .. Len(code)
  BY CodeFacts DEF ReachedUses
<1>2. Close(p, c) /\ (code[p].op = "op" => code[c].op = "str") /\ ~Quiet(c)
  BY <1>1, ShortRange, QuietUnused
<1>3. ASSUME NEW x \in 1 .. Len(code), ~Quiet(x), NEW B \in SUBSET Defining, \A j \in B : x \in ReachedUses(j)
      PROVE  IsFiniteSet(B) /\ Cardinality(B) \in Nat /\ Cardinality(B) < Cardinality(Reg)
  <2>1. IsFiniteSet(B) /\ Cardinality(B) <= Cardinality(code[x].uses)
    BY <1>3, OperandsOf
  <2>2. Cardinality(code[x].uses) \in Nat /\ Cardinality(code[x].uses) < Cardinality(Reg)
    BY <1>3, FewOperands
  <2>3. Cardinality(B) \in Nat /\ Cardinality(Reg) \in Nat
    <3>1. FirstReg \in Int /\ LastReg \in Int
      BY RegAssumption
    <3>2. IsFiniteSet(Reg)
      BY <3>1, FS_Interval DEF Reg
    <3> QED BY <2>1, <3>2, FS_CardinalityType
  <2> QED BY <2>1, <2>2, <2>3
<1>4. ASSUME NEW j \in A, NEW e \in ReachedUses(j), s <= e, e <= c
      PROVE  e = c \/ (e = p /\ s = p)
  <2>1. j \in Defining /\ e \in 1 .. Len(code) /\ ~Quiet(e)
    <3>1. j \in Defining
      OBVIOUS
    <3>2. e \in 1 .. Len(code)
      BY <1>1, <3>1 DEF ReachedUses
    <3> QED BY <3>1, <3>2, QuietUnused
  <2>2. e \notin p + 1 .. c - 1
    BY <1>2, <2>1 DEF Close
  <2>3. p <= Parent(p) /\ Parent(p) \in Nat
    BY <1>1, ParentFacts
  <2> QED BY <1>1, <1>4, <2>1, <2>2, <2>3
<1>5. CASE \A j \in A : c \in ReachedUses(j)
  BY <1>1, <1>2, <1>3, <1>5
<1>6. CASE \E j \in A : c \notin ReachedUses(j)
  <2>1. PICK k \in A : c \notin ReachedUses(k)
    BY <1>6
  <2>2. p \in ReachedUses(k) /\ s = p
    BY <1>4, <2>1
  <2>3. ~Quiet(p)
    BY <1>1, <2>2, QuietUnused
  <2>4. code[p].op = "op" /\ code[c].op = "str"
    <3>1. code[p].op # "str" /\ code[p].op # "first"
      BY <1>1 DEF SpillShape, KindRight, Defining
    <3>2. code[p].op # "pass"
      BY <1>1, <2>2, ParentFacts DEF Close
    <3>3. code[p].op \in {"op", "pass", "first", "ldr", "str", "addr"}
      BY <1>1, CodeFacts DEF Instruction
    <3> QED BY <1>2, <2>3, <3>1, <3>2, <3>3 DEF Quiet
  <2>5. ASSUME NEW j \in A, j # p PROVE p \in ReachedUses(j)
    <3>1. ASSUME c \in ReachedUses(j) PROVE FALSE
      <4>1. j \in Defining /\ j \in 1 .. Len(code) /\ j < p
        <5>1. j \in 1 .. Len(code) /\ Parent(j) <= p
          BY <1>1, <2>2
        <5>2. j <= Parent(j) /\ Parent(j) \in 1 .. Len(code)
          BY <5>1, ParentFacts
        <5> QED BY <1>1, <2>5, <5>1, <5>2
      <4>2. code[j].def \in code[c].uses
        BY <3>1 DEF ReachedUses
      <4>3. ~FreshDef(j)
        BY <1>1, <2>4, <4>2 DEF SpillShape, KindRight, FreshDef
      <4>4. Close(j, c)
        BY <3>1, <4>1, <4>3, ShortRange
      <4>5. p \in j + 1 .. c - 1
        BY <1>1, <4>1
      <4> QED BY <2>3, <4>4, <4>5 DEF Close
    <3> QED BY <1>4, <3>1
  <2>6. CASE p \notin A
    BY <1>1, <1>3, <2>3, <2>5, <2>6
  <2>7. CASE p \in A
    <3>1. PICK i \in Defining \ A : p \in ReachedUses(i)
      BY <2>2, <2>7
    <3> DEFINE rest == A \ {p}
               B == rest \cup {i}
    <3>2. B \in SUBSET Defining /\ \A j \in B : p \in ReachedUses(j)
      BY <2>5, <3>1
    <3>3. IsFiniteSet(B) /\ Cardinality(B) \in Nat /\ Cardinality(B) < Cardinality(Reg)
      <4> HIDE DEF B
      <4> QED BY <1>1, <1>3, <2>3, <3>2
    <3>4. IsFiniteSet(A)
      <4>1. IsFiniteSet(1 .. Len(code))
        BY <1>1, FS_Interval
      <4> QED BY <1>1, <4>1, FS_Subset
    <3>5. IsFiniteSet(rest) /\ Cardinality(rest) = Cardinality(A) - 1
      BY <2>7, <3>4, FS_RemoveElement
    <3>6. i \notin rest
      OBVIOUS
    <3>7. Cardinality(B) = Cardinality(rest) + 1
      <4> HIDE DEF rest
      <4> QED BY <3>5, <3>6, FS_AddElement
    <3>8. Cardinality(A) \in Nat
      BY <3>4, FS_CardinalityType
    <3> QED BY <3>3, <3>4, <3>5, <3>7, <3>8
  <2> QED BY <2>6, <2>7
<1> QED BY <1>5, <1>6

LEMMA HoldersEnough ==
  ASSUME TypeOK, NoRegisterLost, NoFreeReg, IsFiniteSet(actives)
  PROVE  Cardinality(Reg) <= Cardinality(actives) /\ Cardinality(Reg) \in Nat /\ Cardinality(actives) \in Nat
<1> DEFINE holder == [j \in actives |-> rreg[j]]
<1>1. holder \in Surjection(actives, Reg)
  <2>1. \A r \in Reg : \E j \in actives : rreg[j] = r
    BY NumberFacts DEF NoRegisterLost, NoFreeReg
  <2> QED BY <2>1 DEF Surjection, TypeOK
<1>2. IsFiniteSet(Reg) /\ Cardinality(Reg) <= Cardinality(actives)
  BY <1>1, FS_Surjection
<1> QED BY <1>2, FS_CardinalityType

-----------------------------------------------------------------------------
\* A range starts at the parent of its operand and ends with a use, if it has any.
LEMMA EndIsUse ==
  ASSUME CodeTypeOK, RangesRight, NEW i \in Defining
  PROVE  start[i] = Parent(i) /\ (end[i] = NoUse \/ end[i] \in ReachedUses(i))
<1>1. i \in Interval
  BY CodeFacts
<1>2. start[i] = Parent(i) /\ end[i] = MaxOf({NoUse} \cup ReachedUses(i))
  BY <1>1 DEF RangesRight
<1> QED BY <1>2, EndOfRange

\* spillAtInterval never picks an address, an operand handed on or a register
\* that was spilled: its range is so short that all who end within it are
\* operands of one instruction, and so are fewer than the registers.
LEMMA PickedIsFresh ==
  ASSUME RAInv, SpillShape, phase = "scan", NEW i \in Interval,
         IsNext(i), ExpiryDone(i), NoFreeReg, NEW back \in Interval, IsBack(back)
  PROVE  /\ end[back] > end[i] => FreshDef(back)
         /\ end[back] <= end[i] => FreshDef(i)
<1>1. TypeOK /\ CodeTypeOK /\ RoundInv
  BY DEF RAInv
<1>2. /\ RangesRight /\ ScanInv /\ NoRegisterLost
      /\ todo \subseteq Defining /\ actives \subseteq Defining /\ Defining \subseteq Nat
      /\ Defining \subseteq 1 .. Len(code) /\ Len(code) \in Nat
  BY <1>1, CodeFacts DEF RoundInv
<1>3. i \in Defining /\ back \in actives /\ i \in Nat /\ start[i] = Parent(i) /\ i >= 1
      /\ i \notin actives /\ start[i] \in Nat /\ start[i] >= 1
  <2>1. i \in Defining /\ back \in actives /\ i \in todo
    BY <1>2 DEF IsNext, IsBack
  <2>2. i \notin actives
    BY <1>1, <2>1 DEF TypeOK
  <2>3. start[i] = Parent(i) /\ Parent(i) \in 1 .. Len(code)
    BY <1>1, <1>2, <2>1, EndIsUse, ParentFacts
  <2> QED BY <1>2, <2>1, <2>2, <2>3
<1> DEFINE s == start[i]
<1>4. ASSUME NEW j \in actives
      PROVE  /\ Parent(j) <= s /\ end[j] \in ReachedUses(j) /\ s <= end[j] /\ end[j] <= end[back]
             /\ end[j] \in Int
  <2>1. j \in Interval \ todo /\ j \in Defining /\ i \in todo
    BY <1>1, <1>2 DEF TypeOK, IsNext
  <2>2. start[j] = Parent(j) /\ (end[j] = NoUse \/ end[j] \in ReachedUses(j))
    BY <1>1, <1>2, <2>1, EndIsUse
  <2>3. start[j] <= start[i]
    BY <1>2, <2>1 DEF ScanInv, VisitOrder, Visited
  <2>4. end[j] >= start[i] /\ end[j] <= end[back]
    BY <1>3 DEF ExpiryDone, IsBack
  <2>7. end[j] \in Int
    BY <1>1, <2>1 DEF TypeOK, NoUse
  <2>6. end[j] # NoUse
    BY <1>3, <2>4, <2>7 DEF NoUse
  <2> QED BY <1>3, <2>2, <2>3, <2>4, <2>6, <2>7
<1>5. IsFiniteSet(actives)
  BY <1>1, IntervalAssumption, FS_Subset DEF TypeOK
<1>6. ~(Cardinality(actives) < Cardinality(Reg))
  <2>1. Cardinality(Reg) <= Cardinality(actives) /\ Cardinality(Reg) \in Nat /\ Cardinality(actives) \in Nat
    BY <1>1, <1>2, <1>5, HoldersEnough
  <2> QED BY <2>1
<1>7. ASSUME end[back] > end[i], ~FreshDef(back) PROVE FALSE
  <2>1. back \in Defining
    BY <1>2, <1>3
  <2>2. end[back] \in ReachedUses(back) /\ Parent(back) <= s
    BY <1>3, <1>4
  <2>3. ASSUME s = back PROVE back \in ReachedUses(i)
    <3>1. Parent(i) = back /\ i # back
      BY <1>3, <2>3
    <3>2. code[i].op = "pass"
      BY <1>1, <1>2, <1>3, <3>1, ParentFacts
    <3> QED BY <1>1, <1>2, <1>3, <3>1, <3>2, ParentFacts
  <2>4. \A j \in actives : Parent(j) <= s /\ \E e \in ReachedUses(j) : s <= e /\ e <= end[back]
    BY <1>4
  <2>5. s = back => back \notin actives \/ \E k \in Defining \ actives : back \in ReachedUses(k)
    BY <1>3, <2>3
  <2>6. s \in Nat /\ actives \in SUBSET Defining
    BY <1>2, <1>3
  <2> HIDE DEF s
  <2> QED BY <1>1, <1>6, <1>7, <2>1, <2>2, <2>4, <2>5, <2>6, Crowd
<1>8. ASSUME end[back] <= end[i], ~FreshDef(i) PROVE FALSE
  <2>2. end[i] \in Int /\ NoUse = -1
    BY <1>1 DEF TypeOK, NoUse
  <2>3. end[i] # NoUse
    <3>1. s <= end[back] /\ end[back] \in Int
      BY <1>3, <1>4
    <3> QED BY <1>3, <1>8, <2>2, <3>1
  <2>4. end[i] \in ReachedUses(i)
    BY <1>1, <1>2, <1>3, <2>3, EndIsUse
  <2>5. ASSUME NEW j \in actives PROVE Parent(j) <= s /\ \E e \in ReachedUses(j) : s <= e /\ e <= end[i]
    <3>1. end[j] <= end[back] /\ end[j] \in Int /\ end[back] \in Int
      BY <1>3, <1>4
    <3>2. end[j] <= end[i]
      BY <1>8, <2>2, <3>1
    <3> QED BY <1>4, <3>2
  <2>6. s \in Nat /\ actives \in SUBSET Defining /\ i \in Defining /\ Parent(i) <= s /\ i \notin actives
    BY <1>2, <1>3
  <2> HIDE DEF s
  <2> QED BY <1>1, <1>6, <1>8, <2>4, <2>5, <2>6, Crowd
<1> QED BY <1>7, <1>8

LEMMA SameShape ==
  ASSUME SpillShape, UNCHANGED <<code, frame, spilledVRegs>>
  PROVE  SpillShape' /\ Defining' = Defining /\ \A i : FreshDef(i)' <=> FreshDef(i)
<1>1. /\ \A p : code'[p] = code[p] /\ (Selected(p)' <=> Selected(p)) /\ (Quiet(p)' <=> Quiet(p))
      /\ Len(code') = Len(code)
  BY DEF Selected, Quiet
<1>2. /\ \A p, q : Close(p, q)' <=> Close(p, q)
      /\ \A p : ReachedUses(p)' = ReachedUses(p)
  BY <1>1 DEF Close, ReachedUses
<1>3. \A p, v : Sourced(p, v)' <=> Sourced(p, v)
  BY <1>1, <1>2 DEF Sourced
<1>4. \A p : /\ HandedOn(p)' <=> HandedOn(p)
             /\ BothMoves(p)' <=> BothMoves(p)
             /\ ReloadUsed(p)' <=> ReloadUsed(p)
  BY <1>1, <1>2 DEF HandedOn, BothMoves, ReloadUsed
<1>5. \A p : (IsLast(p)' <=> IsLast(p)) /\ (SpillLast(p)' <=> SpillLast(p))
  BY <1>1 DEF IsLast, SpillLast
<1>6. \A p : KindRight(code'[p], spilledVRegs', frame') <=> KindRight(code[p], spilledVRegs, frame)
  BY <1>1
<1>7. SpillShape'
  BY <1>1, <1>3, <1>4, <1>5, <1>6 DEF SpillShape
<1> QED BY <1>7 DEF FreshDef, Defining

LEMMA FreshStep ==
  ASSUME SpillInv, [RANext]_vars, ~GenSpillCode, ~Select
  PROVE  SpillShape' /\ SpillsFresh' /\ Selecting' /\ CodeRight'
<1>1. UNCHANGED <<code, frame, spilledVRegs>> /\ (phase' = phase \/ phase' # "select")
  BY DEF RANext, ComputeLiveIntervals, Scan, ModifyCode, vars
<1>2. CodeTypeOK /\ CodeRight /\ SpillShape /\ SpillsFresh /\ Selecting /\ RAInv
  BY DEF SpillInv, RAInv
<1>3. SpillShape' /\ \A i : FreshDef(i)' <=> FreshDef(i)
  BY <1>1, <1>2, SameShape
<1>4. CodeRight' /\ Selecting'
  BY <1>1, <1>2, SameCode DEF Selecting, Selected
<1>5. SpillsFresh'
  <2>1. CASE ComputeLiveIntervals
    BY <2>1 DEF ComputeLiveIntervals, SpillsFresh
  <2>2. CASE Scan
    <3>1. phase = "scan" /\ Next /\ TypeOK
      BY <1>2, <2>2 DEF Scan, RAInv
    <3>2. \A i \in Interval : spill[i] => FreshDef(i)
      BY <1>2, <3>1 DEF SpillsFresh
    <3>3. ASSUME NEW k \in Interval, spill'[k], ~spill[k] PROVE FreshDef(k)
      <4>1. ASSUME NEW i \in Interval, NEW victim \in Interval, SpillActive(i, victim) PROVE FreshDef(k)
        <5>1. k = victim
          BY <3>1, <3>3, <4>1 DEF SpillActive, TypeOK
        <5> QED BY <1>2, <3>1, <4>1, <5>1, PickedIsFresh DEF SpillActive
      <4>2. ASSUME NEW i \in Interval, NEW back \in Interval, SpillCurrent(i, back) PROVE FreshDef(k)
        <5>1. k = i
          BY <3>1, <3>3, <4>2 DEF SpillCurrent, TypeOK
        <5> QED BY <1>2, <3>1, <4>2, <5>1, PickedIsFresh DEF SpillCurrent
      <4>3. ASSUME UNCHANGED spill PROVE FALSE
        BY <3>3, <4>3
      <4> QED BY <3>1, <4>1, <4>2, <4>3 DEF Next, ExpireOldInterval, Allocate
    <3> QED BY <1>3, <3>2, <3>3 DEF SpillsFresh
  <2>3. CASE ModifyCode
    BY <2>3 DEF ModifyCode, SpillsFresh
  <2>4. CASE UNCHANGED vars
    <3>1. phase' = phase /\ spill' = spill
      BY <2>4 DEF vars, scanVars
    <3> QED BY <1>2, <1>3, <3>1 DEF SpillsFresh
  <2> QED BY <2>1, <2>2, <2>3, <2>4 DEF RANext
<1> QED BY <1>3, <1>4, <1>5

-----------------------------------------------------------------------------
(***************************************************************************)
(* What genSpillCode inserts, slots far and near.                          *)
(***************************************************************************)
Address(i, p) == IF IsFar(SlotOf(i)) THEN {AddrVReg(SlotOf(i), p)} ELSE {}
ReloadOf(i, p) == Instr("ldr", code[i].def, Address(i, p), SlotOf(i))
AddressOf(i, p) == Instr("addr", AddrVReg(SlotOf(i), p), {}, SlotOf(i))
StoreOf(i) == Instr("str", NoVReg, {code[i].def} \cup Address(i, 0), SlotOf(i))

LEMMA SpillCodeShape ==
  ASSUME NEW i, NEW p
  PROVE  /\ LoadsFor(i, p) = (IF IsFar(SlotOf(i)) THEN <<ReloadOf(i, p), AddressOf(i, p)>> ELSE <<ReloadOf(i, p)>>)
         /\ StoresFor(i) = (IF IsFar(SlotOf(i)) THEN <<AddressOf(i, 0), StoreOf(i)>> ELSE <<StoreOf(i)>>)
<1>1. CASE IsFar(SlotOf(i))
  <2>1. {code[i].def} \cup {AddrVReg(SlotOf(i), 0)} = {code[i].def, AddrVReg(SlotOf(i), 0)}
    OBVIOUS
  <2> QED BY <1>1, <2>1 DEF LoadsFor, StoresFor, ReloadOf, AddressOf, StoreOf, Address
<1>2. CASE ~IsFar(SlotOf(i))
  BY <1>2 DEF LoadsFor, StoresFor, ReloadOf, AddressOf, StoreOf, Address
<1> QED BY <1>1, <1>2

\* A reload of the loads before p, or the address that follows its reload.
LoadAt(s, x, p) ==
  \E i \in Spilled :
    /\ p \in ReachedUses(i)
    /\ \/ s[x] = ReloadOf(i, p)
       \/ /\ IsFar(SlotOf(i)) /\ s[x] = AddressOf(i, p)
          /\ \A y \in 1 .. Len(s) : s[y] = ReloadOf(i, p) => y < x

LEMMA LoadsShape ==
  ASSUME TypeOK, CodeTypeOK, NEW p \in 1 .. Len(code)
  PROVE  LET s == LoadsAt(p)
         IN  /\ s \in Seq(Instruction) /\ Len(s) \in Nat
             /\ \A x \in 1 .. Len(s) : LoadAt(s, x, p)
             /\ \A i \in Spilled : p \in ReachedUses(i) => \E x \in 1 .. Len(s) : s[x] = ReloadOf(i, p)
             /\ \A i \in Spilled : \A x, y \in 1 .. Len(s) :
                  s[x] = ReloadOf(i, p) /\ s[y] = ReloadOf(i, p) => x = y
<1> DEFINE n == Len(code)
           ss == [i \in 1 .. n |->
                    IF i \in Spilled /\ p \in ReachedUses(i) THEN LoadsFor(i, p) ELSE <<>>]
           s == FlattenSeq(ss)
<1>1. n \in Nat /\ n >= 1 /\ Spilled \subseteq 1 .. n
  BY CodeFacts, SlotFacts
<1>2. ss \in [1 .. n -> Seq(Instruction)]
  <2>1. <<>> \in Seq(Instruction)
    OBVIOUS
  <2>2. \A i \in Spilled : LoadsFor(i, p) \in Seq(Instruction)
    BY SpillCodeTypes
  <2> HIDE DEF Instruction
  <2> QED BY <2>1, <2>2
<1>3. LoadsAt(p) = s
  BY DEF LoadsAt
<1>4. ASSUME NEW k \in 1 .. n, NEW o \in 1 .. Len(ss[k])
      PROVE  /\ k \in Spilled /\ p \in ReachedUses(k)
             /\ \/ o = 1 /\ ss[k][o] = ReloadOf(k, p)
                \/ o = 2 /\ IsFar(SlotOf(k)) /\ ss[k][o] = AddressOf(k, p)
  <2>1. CASE k \in Spilled /\ p \in ReachedUses(k)
    <3>1. ss[k] = LoadsFor(k, p)
      BY <2>1
    <3>2. CASE IsFar(SlotOf(k))
      <4>1. ss[k] = <<ReloadOf(k, p), AddressOf(k, p)>>
        BY <3>1, <3>2, SpillCodeShape
      <4>3. o \in 1 .. Len(ss[k])
        OBVIOUS
      <4> HIDE DEF ss
      <4>2. Len(ss[k]) = 2 /\ ss[k][1] = ReloadOf(k, p) /\ ss[k][2] = AddressOf(k, p)
        BY <4>1
      <4>4. o = 1 \/ o = 2
        BY <4>2, <4>3
      <4> QED BY <2>1, <3>2, <4>2, <4>4
    <3>3. CASE ~IsFar(SlotOf(k))
      <4>1. ss[k] = <<ReloadOf(k, p)>>
        BY <3>1, <3>3, SpillCodeShape
      <4>3. o \in 1 .. Len(ss[k])
        OBVIOUS
      <4> HIDE DEF ss
      <4>2. Len(ss[k]) = 1 /\ ss[k][1] = ReloadOf(k, p)
        BY <4>1
      <4>4. o = 1
        BY <4>2, <4>3
      <4> QED BY <2>1, <4>2, <4>4
    <3> QED BY <3>2, <3>3
  <2>2. CASE ~(k \in Spilled /\ p \in ReachedUses(k))
    <3>1. ss[k] = <<>>
      BY <2>2
    <3>2. o \in 1 .. 0
      BY <1>4, <3>1
    <3> QED BY <3>2
  <2> QED BY <2>1, <2>2
<1>5. ASSUME NEW k \in Spilled, p \in ReachedUses(k)
      PROVE  1 \in 1 .. Len(ss[k]) /\ ss[k][1] = ReloadOf(k, p)
  <2>1. ss[k] = LoadsFor(k, p)
    BY <1>1, <1>5
  <2>2. ss[k] = <<ReloadOf(k, p), AddressOf(k, p)>> \/ ss[k] = <<ReloadOf(k, p)>>
    BY <2>1, SpillCodeShape
  <2> HIDE DEF ss
  <2>3. CASE ss[k] = <<ReloadOf(k, p), AddressOf(k, p)>>
    BY <2>3
  <2>4. CASE ss[k] = <<ReloadOf(k, p)>>
    BY <2>4
  <2> QED BY <2>2, <2>3, <2>4
<1> HIDE DEF n, ss
<1>6. s \in Seq(Instruction)
  BY <1>1, <1>2, FlattenPlaces
<1>7. PICK at : Places(s, ss, n, at)
  BY <1>1, <1>2, FlattenPlaces
<1>8. Len(s) \in Nat
  BY <1>6
<1>9. ASSUME NEW k \in 1 .. n
      PROVE  /\ at[k - 1] \in Nat /\ at[k] \in Nat /\ at[k] = at[k - 1] + Len(ss[k]) /\ Len(ss[k]) \in Nat
             /\ at[k] <= Len(s)
  <2>1. k \in 0 .. n /\ k - 1 \in 0 .. n /\ n \in 0 .. n /\ k <= n
    BY <1>1
  <2>2. Len(ss[k]) \in Nat
    <3>1. ss[k] \in Seq(Instruction)
      BY <1>2
    <3> QED BY <3>1
  <2>3. at[k] <= at[n] /\ at[n] = Len(s)
    BY <1>7, <2>1 DEF Places
  <2> QED BY <1>7, <2>1, <2>2, <2>3 DEF Places
<1>10. ASSUME NEW x \in 1 .. Len(s)
       PROVE  \E k \in 1 .. n : \E o \in 1 .. Len(ss[k]) : x = at[k - 1] + o /\ s[x] = ss[k][o]
  <2>1. PICK k \in 1 .. n : at[k - 1] < x /\ x <= at[k]
    BY <1>7 DEF Places
  <2> DEFINE o == x - at[k - 1]
             b == at[k - 1]
             c == Len(ss[k])
  <2>2. o \in 1 .. Len(ss[k]) /\ x = at[k - 1] + o
    <3>1. b \in Nat /\ c \in Nat /\ b < x /\ x <= b + c /\ x \in Int
      BY <1>9, <2>1
    <3> HIDE DEF b, c
    <3>2. x - b \in 1 .. c /\ x = b + (x - b)
      BY <3>1
    <3> QED BY <3>2 DEF b, c
  <2> HIDE DEF o
  <2>3. s[at[k - 1] + o] = ss[k][o]
    BY <1>7, <2>2 DEF Places
  <2> QED BY <2>2, <2>3
<1>13. ASSUME NEW i \in Spilled, NEW y \in 1 .. Len(s), s[y] = ReloadOf(i, p)
       PROVE  y = at[i - 1] + 1
  <2>1. PICK l \in 1 .. n : \E u \in 1 .. Len(ss[l]) : y = at[l - 1] + u /\ s[y] = ss[l][u]
    BY <1>10
  <2>2. PICK u \in 1 .. Len(ss[l]) : y = at[l - 1] + u /\ s[y] = ss[l][u]
    BY <2>1
  <2>3. l \in Spilled /\ (ss[l][u] = ReloadOf(l, p) \/ ss[l][u] = AddressOf(l, p)) /\ (u = 1 \/ ss[l][u] = AddressOf(l, p))
    BY <1>4
  <2>4. ss[l][u] # AddressOf(l, p)
    BY <1>13, <2>2 DEF ReloadOf, AddressOf, Instr
  <2>5. SlotOf(l) = SlotOf(i)
    BY <1>13, <2>2, <2>3, <2>4 DEF ReloadOf, Instr
  <2>6. l = i /\ u = 1
    BY <2>3, <2>4, <2>5, SlotFacts
  <2> QED BY <2>2, <2>6
<1>11. ASSUME NEW x \in 1 .. Len(s) PROVE LoadAt(s, x, p)
  <2>1. PICK k \in 1 .. n : \E o \in 1 .. Len(ss[k]) : x = at[k - 1] + o /\ s[x] = ss[k][o]
    BY <1>10
  <2>2. PICK o \in 1 .. Len(ss[k]) : x = at[k - 1] + o /\ s[x] = ss[k][o]
    BY <2>1
  <2>3. /\ k \in Spilled /\ p \in ReachedUses(k)
        /\ \/ o = 1 /\ ss[k][o] = ReloadOf(k, p)
           \/ o = 2 /\ IsFar(SlotOf(k)) /\ ss[k][o] = AddressOf(k, p)
    BY <1>4
  <2>4. CASE o = 1 /\ ss[k][o] = ReloadOf(k, p)
    BY <2>2, <2>3, <2>4 DEF LoadAt
  <2>5. ASSUME o = 2, IsFar(SlotOf(k)), ss[k][o] = AddressOf(k, p), NEW y \in 1 .. Len(s), s[y] = ReloadOf(k, p)
        PROVE  y < x
    <3>1. y = at[k - 1] + 1
      BY <1>13, <2>3, <2>5
    <3> QED BY <1>9, <2>2, <2>5, <3>1
  <2> QED BY <2>2, <2>3, <2>4, <2>5 DEF LoadAt
<1>12. ASSUME NEW k \in Spilled, p \in ReachedUses(k) PROVE \E x \in 1 .. Len(s) : s[x] = ReloadOf(k, p)
  <2>1. 1 \in 1 .. Len(ss[k]) /\ ss[k][1] = ReloadOf(k, p) /\ k \in 1 .. n
    BY <1>1, <1>5, <1>12
  <2>2. s[at[k - 1] + 1] = ss[k][1]
    BY <1>7, <2>1 DEF Places
  <2>3. at[k - 1] + 1 \in 1 .. Len(s)
    BY <1>8, <1>9, <2>1
  <2> QED BY <2>1, <2>2, <2>3
<1>14. \A i \in Spilled : \A x, y \in 1 .. Len(s) :
          s[x] = ReloadOf(i, p) /\ s[y] = ReloadOf(i, p) => x = y
  BY <1>13
<1> HIDE DEF s
<1> QED BY <1>3, <1>6, <1>8, <1>11, <1>12, <1>14

\* The store behind the definition p, or the address it needs, in e, where
\* p is at place k.
StoredAt(e, x, k, p) ==
  /\ p \in Spilled
  /\ \/ IsFar(SlotOf(p)) /\ x = k + 1 /\ e[x] = AddressOf(p, 0)
     \/ e[x] = StoreOf(p) /\ (x = k + 1 \/ (x = k + 2 /\ e[k + 1] = AddressOf(p, 0)))

LEMMA ExpandShape ==
  ASSUME TypeOK, CodeTypeOK, OnlyFresh, NEW p \in 1 .. Len(code)
  PROVE  LET e == Expand(p)
             l == Len(LoadsAt(p))
         IN  /\ e \in Seq(Instruction) /\ Len(e) \in Nat /\ l \in Nat /\ l + 1 <= Len(e)
             /\ \A x \in 1 .. l : e[x] = LoadsAt(p)[x]
             /\ e[l + 1] = code[p]
             /\ \A x \in l + 2 .. Len(e) : StoredAt(e, x, l + 1, p)
<1> DEFINE a == LoadsAt(p)
           b == <<code[p]>>
           c == StoresAt(p)
           l == Len(a)
<1>1. Expand(p) = (a \o b) \o c
  BY StoresBehind
<1>2. a \in Seq(Instruction) /\ b \in Seq(Instruction) /\ c \in Seq(Instruction)
  <2>1. code[p] \in Instruction
    BY CodeFacts
  <2>2. c \in Seq(Instruction)
    <3>1. CASE p \in Spilled
      BY <3>1, SpillCodeTypes DEF StoresAt
    <3>2. CASE p \notin Spilled
      BY <3>2 DEF StoresAt
    <3> QED BY <3>1, <3>2
  <2> HIDE DEF Instruction
  <2> QED BY <2>1, <2>2, LoadsShape
<1>3. Len(b) = 1 /\ b[1] = code[p] /\ l \in Nat /\ Len(c) \in Nat
  BY <1>2
<1>4. \/ Len(c) = 0
      \/ p \in Spilled /\ Len(c) = 1 /\ c[1] = StoreOf(p)
      \/ p \in Spilled /\ IsFar(SlotOf(p)) /\ Len(c) = 2 /\ c[1] = AddressOf(p, 0) /\ c[2] = StoreOf(p)
  <2>1. CASE p \notin Spilled
    BY <2>1 DEF StoresAt
  <2>2. CASE p \in Spilled /\ IsFar(SlotOf(p))
    <3>1. c = <<AddressOf(p, 0), StoreOf(p)>>
      BY <2>2, SpillCodeShape DEF StoresAt
    <3> HIDE DEF c
    <3> QED BY <2>2, <3>1
  <2>3. CASE p \in Spilled /\ ~IsFar(SlotOf(p))
    <3>1. c = <<StoreOf(p)>>
      BY <2>3, SpillCodeShape DEF StoresAt
    <3> HIDE DEF c
    <3> QED BY <2>3, <3>1
  <2> QED BY <2>1, <2>2, <2>3
<1> HIDE DEF a, b, c
<1> DEFINE ab == a \o b
           e == ab \o c
<1>5. /\ ab \in Seq(Instruction) /\ Len(ab) = l + Len(b)
      /\ \A x \in 1 .. l : ab[x] = a[x]
      /\ \A x \in 1 .. Len(b) : ab[l + x] = b[x]
  BY <1>2, Concatenation
<1> HIDE DEF ab
<1>6. /\ e \in Seq(Instruction) /\ Len(e) = Len(ab) + Len(c)
      /\ \A x \in 1 .. Len(ab) : e[x] = ab[x]
      /\ \A x \in 1 .. Len(c) : e[Len(ab) + x] = c[x]
  <2>1. ab \in Seq(Instruction) /\ c \in Seq(Instruction)
    BY <1>2, <1>5
  <2> QED BY <2>1, Concatenation
<1> HIDE DEF e, l
<1>7. Len(e) = l + 1 + Len(c) /\ Len(ab) = l + 1 /\ Len(e) \in Nat
  BY <1>3, <1>5, <1>6
<1>8. e[l + 1] = code[p] /\ \A x \in 1 .. l : e[x] = a[x]
  <2>1. ab[l + 1] = b[1] /\ l + 1 \in 1 .. Len(ab)
    BY <1>3, <1>5, <1>7
  <2>2. \A x \in 1 .. l : x \in 1 .. Len(ab)
    BY <1>3, <1>7
  <2> QED BY <1>3, <1>5, <1>6, <2>1, <2>2
<1>9. ASSUME NEW x \in l + 2 .. Len(e) PROVE StoredAt(e, x, l + 1, p)
  <2>1. l \in Nat /\ Len(c) \in Nat /\ x \in Nat /\ x >= l + 2 /\ x <= l + 1 + Len(c)
    BY <1>3, <1>7
  <2>2. (l + 1) + 1 = l + 2 /\ (l + 1) + 2 = l + 3
    BY <2>1
  <2>3. ASSUME Len(c) >= 1 PROVE e[l + 2] = c[1]
    <3>1. 1 \in 1 .. Len(c)
      BY <1>3, <2>3
    <3>2. e[Len(ab) + 1] = c[1]
      BY <1>6, <3>1
    <3> QED BY <1>7, <2>2, <3>2
  <2>4. ASSUME Len(c) = 2 PROVE e[l + 3] = c[2]
    <3>1. 2 \in 1 .. Len(c)
      BY <2>4
    <3>2. e[Len(ab) + 2] = c[2]
      BY <1>6, <3>1
    <3> QED BY <1>7, <2>2, <3>2
  <2>5. CASE Len(c) = 0
    BY <2>1, <2>5
  <2>6. CASE p \in Spilled /\ Len(c) = 1 /\ c[1] = StoreOf(p)
    <3>1. x = l + 2
      BY <2>1, <2>6
    <3> QED BY <2>2, <2>3, <2>6, <3>1 DEF StoredAt
  <2>7. CASE p \in Spilled /\ IsFar(SlotOf(p)) /\ Len(c) = 2 /\ c[1] = AddressOf(p, 0) /\ c[2] = StoreOf(p)
    <3>1. x = l + 2 \/ x = l + 3
      BY <2>1, <2>7
    <3>2. e[l + 2] = AddressOf(p, 0) /\ e[l + 3] = StoreOf(p)
      BY <2>3, <2>4, <2>7
    <3> QED BY <2>2, <2>7, <3>1, <3>2 DEF StoredAt
  <2> QED BY <1>4, <2>5, <2>6, <2>7
<1>10. Expand(p) = e
  BY <1>1 DEF e, ab
<1>11. e \in Seq(Instruction) /\ l + 1 <= Len(e)
  BY <1>3, <1>6, <1>7
<1> QED BY <1>3, <1>7, <1>8, <1>9, <1>10, <1>11 DEF l, a

-----------------------------------------------------------------------------
(***************************************************************************)
(* pos[p] is where instruction p went.  Everything else is a load before   *)
(* an instruction or a store behind one.                                   *)
(***************************************************************************)
Before(pos, x, p) == x < pos[p] /\ \A q \in 1 .. p - 1 : pos[q] < x
After(pos, x, p) == pos[p] < x /\ \A q \in p + 1 .. Len(code) : x < pos[q]

LoadPlaced(new, pos, x, p) ==
  /\ Before(pos, x, p)
  /\ \E i \in Spilled :
       /\ p \in ReachedUses(i)
       /\ \/ new[x] = ReloadOf(i, p)
          \/ /\ IsFar(SlotOf(i)) /\ new[x] = AddressOf(i, p)
             /\ \A y \in 1 .. Len(new) : Before(pos, y, p) /\ new[y] = ReloadOf(i, p) => y < x

Placed(new, pos) ==
  /\ pos \in [1 .. Len(code) -> 1 .. Len(new)]
  /\ \A p, q \in 1 .. Len(code) : p < q => pos[p] < pos[q]
  /\ \A p \in 1 .. Len(code) : new[pos[p]] = code[p]
  /\ \A x \in 1 .. Len(new) : \E p \in 1 .. Len(code) :
       x = pos[p] \/ LoadPlaced(new, pos, x, p) \/ (After(pos, x, p) /\ StoredAt(new, x, pos[p], p))
  /\ \A i \in Spilled : \A p \in ReachedUses(i) : \E x \in 1 .. Len(new) :
       /\ Before(pos, x, p) /\ new[x] = ReloadOf(i, p)
       /\ \A y \in x + 1 .. pos[p] - 1 : new[y].op \in {"ldr", "addr"}
  /\ \A i \in Spilled : \A p \in ReachedUses(i) : \A x, y \in 1 .. Len(new) :
       (/\ Before(pos, x, p) /\ new[x] = ReloadOf(i, p)
        /\ Before(pos, y, p) /\ new[y] = ReloadOf(i, p)) => x = y

LEMMA NewPlaced ==
  ASSUME TypeOK, CodeTypeOK, OnlyFresh, Len(code) >= 1
  PROVE  LET new == FlattenSeq([p \in 1 .. Len(code) |-> Expand(p)])
         IN  new \in Seq(Instruction) /\ \E pos : Placed(new, pos)
<1> DEFINE n == Len(code)
           ss == [p \in 1 .. n |-> Expand(p)]
           new == FlattenSeq(ss)
<1>1. n \in Nat /\ n >= 1 /\ Spilled \subseteq 1 .. n /\ \A i \in Spilled : ReachedUses(i) \subseteq 1 .. n
  BY CodeFacts, SlotFacts DEF ReachedUses
<1> DEFINE l(p) == Len(LoadsAt(p))
<1>2. ASSUME NEW p \in 1 .. n
      PROVE  /\ ss[p] = Expand(p) /\ ss[p] \in Seq(Instruction)
             /\ Len(ss[p]) \in Nat /\ l(p) \in Nat /\ l(p) + 1 <= Len(ss[p])
             /\ \A x \in 1 .. l(p) : ss[p][x] = LoadsAt(p)[x]
             /\ ss[p][l(p) + 1] = code[p]
             /\ \A x \in l(p) + 2 .. Len(ss[p]) : StoredAt(ss[p], x, l(p) + 1, p)
  <2>1. ss[p] = Expand(p)
    OBVIOUS
  <2> HIDE DEF ss
  <2> QED BY <2>1, ExpandShape
<1>3. ss \in [1 .. n -> Seq(Instruction)]
  BY <1>2
<1> HIDE DEF ss
<1>4. new \in Seq(Instruction)
  <2> HIDE DEF n
  <2> QED BY <1>1, <1>3, FlattenPlaces
<1>5. PICK at : Places(new, ss, n, at)
  <2> HIDE DEF n
  <2> QED BY <1>1, <1>3, FlattenPlaces
<1> HIDE DEF new, n
<1>6. Len(new) \in Nat
  BY <1>4
<1>7. ASSUME NEW p \in 1 .. n
      PROVE  /\ at[p - 1] \in Nat /\ at[p] \in Nat /\ at[p] = at[p - 1] + Len(ss[p]) /\ at[p] <= Len(new)
             /\ \A q \in 1 .. n : p < q => at[p] <= at[q - 1]
  <2>1. p \in 0 .. n /\ p - 1 \in 0 .. n /\ n \in 0 .. n /\ p <= n
    BY <1>1
  <2>2. at[p] <= at[n] /\ at[n] = Len(new)
    BY <1>5, <2>1 DEF Places
  <2>3. ASSUME NEW q \in 1 .. n, p < q PROVE at[p] <= at[q - 1]
    <3>1. p <= q - 1 /\ q - 1 \in 0 .. n
      BY <1>1, <2>3
    <3> QED BY <1>5, <2>1, <3>1 DEF Places
  <2> QED BY <1>5, <2>1, <2>2, <2>3 DEF Places
<1>8. ASSUME NEW p \in 1 .. n, NEW o \in 1 .. Len(ss[p])
      PROVE  /\ at[p - 1] + o \in 1 .. Len(new) /\ new[at[p - 1] + o] = ss[p][o]
  <2>1. new[at[p - 1] + o] = ss[p][o]
    BY <1>5 DEF Places
  <2> DEFINE b == at[p - 1]
             k == Len(ss[p])
  <2>2. b \in Nat /\ k \in Nat /\ b + k <= Len(new) /\ o \in 1 .. k
    <3>1. at[p] = b + k /\ at[p] <= Len(new) /\ b \in Nat
      BY <1>7
    <3>2. k \in Nat
      BY <1>2
    <3> QED BY <3>1, <3>2
  <2> HIDE DEF b, k
  <2>3. b + o \in 1 .. Len(new)
    BY <1>6, <2>2
  <2> QED BY <2>1, <2>3 DEF b
<1> DEFINE pos == [p \in 1 .. n |-> at[p - 1] + (l(p) + 1)]
<1> HIDE DEF l
<1>9. ASSUME NEW p \in 1 .. n
      PROVE  /\ pos[p] = at[p - 1] + (l(p) + 1) /\ pos[p] \in 1 .. Len(new) /\ new[pos[p]] = code[p]
             /\ at[p - 1] < pos[p] /\ pos[p] <= at[p] /\ l(p) + 1 \in 1 .. Len(ss[p])
             /\ l(p) \in Nat /\ at[p - 1] \in Nat /\ at[p] \in Nat /\ at[p] = at[p - 1] + Len(ss[p])
             /\ Len(ss[p]) \in Nat
  <2>1. pos[p] = at[p - 1] + (l(p) + 1)
    OBVIOUS
  <2>2. l(p) \in Nat /\ Len(ss[p]) \in Nat /\ l(p) + 1 <= Len(ss[p]) /\ at[p - 1] \in Nat /\ at[p] = at[p - 1] + Len(ss[p])
    BY <1>2, <1>7
  <2> DEFINE k == l(p) + 1
  <2>3. k \in 1 .. Len(ss[p]) /\ k \in Nat
    BY <2>2
  <2>4. at[p - 1] + k \in 1 .. Len(new) /\ new[at[p - 1] + k] = code[p]
    BY <1>2, <1>8, <2>3
  <2>5. at[p - 1] < at[p - 1] + k /\ at[p - 1] + k <= at[p]
    BY <2>2, <2>3
  <2>6. at[p] \in Nat
    BY <1>7
  <2> QED BY <2>1, <2>2, <2>3, <2>4, <2>5, <2>6
<1> HIDE DEF pos
<1>10. \A p, q \in 1 .. n : p < q => at[p] <= at[q - 1] /\ pos[p] <= at[q - 1] /\ at[p] < pos[q]
  <2> SUFFICES ASSUME NEW p \in 1 .. n, NEW q \in 1 .. n, p < q
               PROVE  at[p] <= at[q - 1] /\ pos[p] <= at[q - 1] /\ at[p] < pos[q]
    OBVIOUS
  <2>1. at[p] <= at[q - 1] /\ at[p] \in Nat /\ at[q - 1] \in Nat
    BY <1>7, <1>9
  <2>2. pos[p] <= at[p] /\ pos[p] \in 1 .. Len(new)
    BY <1>9
  <2>3. at[q - 1] < pos[q] /\ pos[q] \in 1 .. Len(new)
    BY <1>9
  <2>4. pos[p] \in Nat /\ pos[q] \in Nat
    BY <1>6, <2>2, <2>3
  <2> QED BY <2>1, <2>2, <2>3, <2>4
<1>17. \A b, k, s, x \in Nat : b + (k + 1) < x /\ x <= b + s =>
         x - b \in k + 2 .. s /\ x = b + (x - b) /\ x - b \in 1 .. s
  OBVIOUS
\* The loads of p are the places from at[p - 1] + 1 to pos[p] - 1.
<1>11. ASSUME NEW p \in 1 .. n, NEW x \in 1 .. Len(new), at[p - 1] < x, x < pos[p]
       PROVE  Before(pos, x, p) /\ \E o \in 1 .. l(p) : x = at[p - 1] + o /\ new[x] = LoadsAt(p)[o]
  <2>1. ASSUME NEW q \in 1 .. p - 1 PROVE pos[q] < x
    <3>1. q \in 1 .. n /\ q < p
      BY <1>1
    <3>2. pos[q] <= at[p - 1] /\ pos[q] \in Nat /\ at[p - 1] \in Nat
      BY <1>6, <1>9, <1>10, <3>1
    <3> QED BY <1>11, <3>2
  <2> DEFINE o == x - at[p - 1]
  <2>2. o \in 1 .. l(p) /\ x = at[p - 1] + o /\ o \in 1 .. Len(ss[p])
    BY <1>9, <1>11, SMTT(20)
  <2> HIDE DEF o
  <2>3. new[x] = LoadsAt(p)[o]
    <3>1. new[x] = ss[p][o]
      BY <1>8, <2>2
    <3>2. ss[p][o] = LoadsAt(p)[o]
      BY <1>2, <2>2 DEF l
    <3> QED BY <3>1, <3>2
  <2> QED BY <1>11, <2>1, <2>2, <2>3 DEF Before
<1>12. ASSUME NEW p \in 1 .. n, NEW y \in 1 .. Len(new), Before(pos, y, p), new[y].op = "ldr",
              NEW i \in Spilled, p \in ReachedUses(i), new[y] = ReloadOf(i, p), ~(at[p - 1] < y)
       PROVE  FALSE
  <2>1. PICK q \in 1 .. n : at[q - 1] < y /\ y <= at[q]
    BY <1>5 DEF Places
  <2>2. q < p
    <3>1. ASSUME p <= q PROVE FALSE
      <4>1. at[p - 1] <= at[q - 1] /\ at[p - 1] \in Nat /\ at[q - 1] \in Nat
        <5>1. p - 1 \in 0 .. n /\ q - 1 \in 0 .. n /\ p - 1 <= q - 1
          BY <1>1, <3>1
        <5> QED BY <1>5, <5>1 DEF Places
      <4> QED BY <1>12, <2>1, <4>1
    <3> QED BY <1>1, <3>1
  <2>3. pos[q] < y
    <3>1. q \in 1 .. p - 1
      BY <1>1, <2>2
    <3> QED BY <1>12, <3>1 DEF Before
  <2> DEFINE o == y - at[q - 1]
  <2>4. o \in l(q) + 2 .. Len(ss[q]) /\ y = at[q - 1] + o /\ o \in 1 .. Len(ss[q])
    <3>1. /\ at[q - 1] \in Nat /\ l(q) \in Nat /\ Len(ss[q]) \in Nat
          /\ pos[q] = at[q - 1] + (l(q) + 1) /\ at[q] = at[q - 1] + Len(ss[q])
      BY <1>9
    <3>2. y \in Nat
      BY <1>6
    <3>3. at[q - 1] + (l(q) + 1) < y /\ y <= at[q - 1] + Len(ss[q])
      BY <2>1, <2>3, <3>1
    <3> QED BY <1>17, <3>1, <3>2, <3>3
  <2> HIDE DEF o
  <2>5. new[y] = ss[q][o] /\ StoredAt(ss[q], o, l(q) + 1, q)
    BY <1>2, <1>8, <2>4 DEF l
  <2>6. ss[q][o].op # "ldr"
    BY <2>5 DEF StoredAt, AddressOf, StoreOf, Instr
  <2> QED BY <1>12, <2>5, <2>6
<1>13. ASSUME NEW x \in 1 .. Len(new)
       PROVE  \E p \in 1 .. n :
                x = pos[p] \/ LoadPlaced(new, pos, x, p) \/ (After(pos, x, p) /\ StoredAt(new, x, pos[p], p))
  <2>1. PICK p \in 1 .. n : at[p - 1] < x /\ x <= at[p]
    BY <1>5 DEF Places
  <2>2. pos[p] \in Nat /\ x \in Nat
    BY <1>6, <1>9
  <2>3. CASE x < pos[p]
    <3>1. Before(pos, x, p)
      BY <1>11, <2>1, <2>3
    <3>2. PICK o \in 1 .. l(p) : x = at[p - 1] + o /\ new[x] = LoadsAt(p)[o]
      BY <1>11, <2>1, <2>3
    <3>3. LoadAt(LoadsAt(p), o, p)
      BY <3>2, LoadsShape DEF l, n
    <3>4. PICK i \in Spilled :
            /\ p \in ReachedUses(i)
            /\ \/ LoadsAt(p)[o] = ReloadOf(i, p)
               \/ /\ IsFar(SlotOf(i)) /\ LoadsAt(p)[o] = AddressOf(i, p)
                  /\ \A y \in 1 .. Len(LoadsAt(p)) : LoadsAt(p)[y] = ReloadOf(i, p) => y < o
      BY <3>3 DEF LoadAt
    <3>5. ASSUME \A y \in 1 .. Len(LoadsAt(p)) : LoadsAt(p)[y] = ReloadOf(i, p) => y < o,
                 NEW y \in 1 .. Len(new), Before(pos, y, p), new[y] = ReloadOf(i, p)
          PROVE  y < x
      <4>1. new[y].op = "ldr"
        BY <3>5 DEF ReloadOf, Instr
      <4>2. at[p - 1] < y /\ y < pos[p]
        BY <1>12, <3>4, <3>5, <4>1 DEF Before
      <4>3. PICK u \in 1 .. l(p) : y = at[p - 1] + u /\ new[y] = LoadsAt(p)[u]
        BY <1>11, <4>2
      <4>4. u < o
        BY <3>5, <4>3 DEF l
      <4>5. at[p - 1] \in Nat
        BY <1>9
      <4>6. l(p) \in Nat
        BY <1>9
      <4>7. u \in Nat /\ o \in Nat
        BY <3>2, <4>3, <4>6
      <4>8. at[p - 1] + u < at[p - 1] + o
        BY <4>4, <4>5, <4>7
      <4> QED BY <3>2, <4>3, <4>8
    <3> QED BY <3>1, <3>2, <3>4, <3>5 DEF LoadPlaced
  <2>4. CASE x > pos[p]
    <3>1. ASSUME NEW q \in p + 1 .. Len(code) PROVE x < pos[q]
      <4>1. q \in 1 .. n /\ p < q
        BY <1>1 DEF n
      <4>2. at[p] < pos[q]
        BY <1>10, <4>1
      <4>3. at[p] \in Nat /\ pos[q] \in 1 .. Len(new)
        BY <1>9, <4>1
      <4>4. pos[q] \in Nat
        BY <1>6, <4>3
      <4> QED BY <2>1, <2>2, <4>2, <4>3, <4>4
    <3> DEFINE o == x - at[p - 1]
    <3>2. o \in l(p) + 2 .. Len(ss[p]) /\ x = at[p - 1] + o /\ o \in 1 .. Len(ss[p])
      <4>1. /\ at[p - 1] \in Nat /\ l(p) \in Nat /\ Len(ss[p]) \in Nat
            /\ pos[p] = at[p - 1] + (l(p) + 1) /\ at[p] = at[p - 1] + Len(ss[p])
        BY <1>9
      <4>2. at[p - 1] + (l(p) + 1) < x
        <5>1. pos[p] < x
          BY <2>2, <2>4
        <5> QED BY <4>1, <5>1
      <4>3. x <= at[p - 1] + Len(ss[p])
        BY <2>1, <4>1
      <4> QED BY <1>17, <2>2, <4>1, <4>2, <4>3
    <3> HIDE DEF o
    <3>3. new[x] = ss[p][o] /\ StoredAt(ss[p], o, l(p) + 1, p)
      BY <1>2, <1>8, <3>2 DEF l
    <3> DEFINE b == at[p - 1]
               k == l(p)
    <3>7. b \in Nat /\ k \in Nat /\ pos[p] = b + (k + 1) /\ x = b + o /\ o \in Nat
      BY <1>9, <3>2
    <3>8. /\ o = k + 1 + 1 => x = pos[p] + 1
          /\ o = k + 1 + 2 => x = pos[p] + 2
          /\ b + (k + 1 + 1) = pos[p] + 1
      <4> HIDE DEF b, k
      <4>1. ASSUME o = k + 1 + 1 PROVE b + o = b + (k + 1) + 1
        BY <3>7, <4>1
      <4>2. ASSUME o = k + 1 + 2 PROVE b + o = b + (k + 1) + 2
        BY <3>7, <4>2
      <4>3. b + (k + 1 + 1) = b + (k + 1) + 1
        BY <3>7
      <4> QED BY <3>7, <4>1, <4>2, <4>3
    <3>4. o = l(p) + 1 + 1 => x = pos[p] + 1
      BY <3>8
    <3>5. o = l(p) + 1 + 2 => x = pos[p] + 2 /\ new[pos[p] + 1] = ss[p][l(p) + 1 + 1]
      <4>1. ASSUME o = l(p) + 1 + 2 PROVE l(p) + 1 + 1 \in 1 .. Len(ss[p])
        <5>1. Len(ss[p]) \in Nat
          BY <1>9
        <5>2. k + 1 + 2 <= Len(ss[p])
          BY <3>2, <4>1
        <5>3. ASSUME NEW w \in Nat PROVE k + 1 + 2 <= w => k + 1 + 1 \in 1 .. w
          <6> HIDE DEF k
          <6> QED BY <3>7
        <5> QED BY <5>1, <5>2, <5>3
      <4>2. ASSUME o = l(p) + 1 + 2 PROVE new[at[p - 1] + (l(p) + 1 + 1)] = ss[p][l(p) + 1 + 1]
        BY <1>8, <4>1, <4>2
      <4>3. at[p - 1] + (l(p) + 1 + 1) = pos[p] + 1
        BY <3>8
      <4> QED BY <3>8, <4>2, <4>3
    <3>6. StoredAt(new, x, pos[p], p)
      BY <3>3, <3>4, <3>5 DEF StoredAt
    <3> QED BY <2>4, <3>1, <3>6 DEF After
  <2> QED BY <2>2, <2>3, <2>4
<1>14. ASSUME NEW i \in Spilled, NEW p \in ReachedUses(i)
       PROVE  \E x \in 1 .. Len(new) :
                /\ Before(pos, x, p) /\ new[x] = ReloadOf(i, p)
                /\ \A y \in x + 1 .. pos[p] - 1 : new[y].op \in {"ldr", "addr"}
  <2>1. p \in 1 .. n
    BY <1>1
  <2>2. PICK o \in 1 .. l(p) : LoadsAt(p)[o] = ReloadOf(i, p)
    BY <2>1, LoadsShape DEF l, n
  <2> DEFINE x == at[p - 1] + o
  <2>3. o \in 1 .. Len(ss[p]) /\ at[p - 1] < x /\ x < pos[p]
    <3> DEFINE k == l(p)
               b == at[p - 1]
               w == Len(ss[p])
    <3>1. k \in Nat /\ b \in Nat /\ w \in Nat /\ o \in 1 .. k
      BY <1>9, <2>1
    <3>2. k + 1 \in 1 .. w /\ pos[p] = b + (k + 1)
      BY <1>9, <2>1
    <3> HIDE DEF k, b, w
    <3>3. o \in 1 .. w /\ b < b + o /\ b + o < b + (k + 1)
      BY <3>1, <3>2
    <3> QED BY <3>2, <3>3 DEF b, w
  <2>4. x \in 1 .. Len(new)
    BY <1>8, <2>1, <2>3
  <2>5. Before(pos, x, p)
    BY <1>11, <2>1, <2>3, <2>4
  <2>6. new[x] = ReloadOf(i, p)
    <3>1. new[x] = ss[p][o]
      BY <1>8, <2>1, <2>3
    <3>2. ss[p][o] = LoadsAt(p)[o]
      BY <1>2, <2>1 DEF l
    <3> QED BY <2>2, <3>1, <3>2
  <2>7. ASSUME NEW y \in x + 1 .. pos[p] - 1 PROVE new[y].op \in {"ldr", "addr"}
    <3>1. y \in 1 .. Len(new) /\ at[p - 1] < y /\ y < pos[p]
      <4>1. x \in Nat /\ pos[p] \in Nat /\ pos[p] <= Len(new) /\ at[p - 1] < x /\ at[p - 1] \in Nat
        <5>1. pos[p] \in 1 .. Len(new) /\ at[p - 1] \in Nat /\ at[p - 1] < x
          BY <1>9, <2>1, <2>3
        <5> HIDE DEF x
        <5> QED BY <1>6, <2>4, <5>1
      <4> HIDE DEF x
      <4> QED BY <1>6, <4>1
    <3>2. PICK u \in 1 .. l(p) : new[y] = LoadsAt(p)[u]
      BY <1>11, <2>1, <3>1
    <3>3. LoadAt(LoadsAt(p), u, p)
      BY <2>1, LoadsShape DEF l, n
    <3> QED BY <3>2, <3>3 DEF LoadAt, ReloadOf, AddressOf, Instr
  <2> HIDE DEF x
  <2> QED BY <2>4, <2>5, <2>6, <2>7
<1>15. pos \in [1 .. n -> 1 .. Len(new)]
  <2>1. \A p \in 1 .. n : pos[p] \in 1 .. Len(new)
    BY <1>9
  <2> QED BY <2>1 DEF pos
<1>16. \A p, q \in 1 .. n : p < q => pos[p] < pos[q]
  <2> SUFFICES ASSUME NEW p \in 1 .. n, NEW q \in 1 .. n, p < q PROVE pos[p] < pos[q]
    OBVIOUS
  <2>1. pos[p] <= at[p] /\ at[p] < pos[q] /\ at[p] \in Nat
    BY <1>9, <1>10
  <2>2. pos[p] \in 1 .. Len(new) /\ pos[q] \in 1 .. Len(new)
    BY <1>9
  <2> QED BY <1>6, <2>1, <2>2
<1>19. ASSUME NEW i \in Spilled, NEW p \in ReachedUses(i), NEW x \in 1 .. Len(new), NEW y \in 1 .. Len(new),
              Before(pos, x, p), new[x] = ReloadOf(i, p), Before(pos, y, p), new[y] = ReloadOf(i, p)
       PROVE  x = y
  <2>1. p \in 1 .. n
    BY <1>1
  <2>2. new[x].op = "ldr" /\ new[y].op = "ldr"
    BY <1>19 DEF ReloadOf, Instr
  <2>3. at[p - 1] < x /\ x < pos[p] /\ at[p - 1] < y /\ y < pos[p]
    BY <1>12, <1>19, <2>1, <2>2 DEF Before
  <2>4. PICK o \in 1 .. l(p) : x = at[p - 1] + o /\ new[x] = LoadsAt(p)[o]
    BY <1>11, <2>1, <2>3
  <2>5. PICK u \in 1 .. l(p) : y = at[p - 1] + u /\ new[y] = LoadsAt(p)[u]
    BY <1>11, <2>1, <2>3
  <2>6. o = u
    BY <1>19, <2>1, <2>4, <2>5, LoadsShape DEF l, n
  <2> QED BY <2>4, <2>5, <2>6
<1>18. Placed(new, pos)
  BY <1>9, <1>13, <1>14, <1>15, <1>16, <1>19 DEF Placed, n
<1> QED BY <1>4, <1>18 DEF new, ss, n

-----------------------------------------------------------------------------
\* Addresses are registers of their own: of one slot and one instruction each.
LEMMA AddressFacts ==
  ASSUME TypeOK, CodeTypeOK, frame' = frame + Cardinality(Spilled),
         NEW i \in Spilled, NEW p \in 0 .. MaxNo
  PROVE  LET a == AddrVReg(SlotOf(i), p)
         IN  /\ a \in Nat /\ a >= Bound(frame) /\ a < Bound(frame')
             /\ \A k \in Spilled : \A q \in 0 .. MaxNo : a = AddrVReg(SlotOf(k), q) => k = i /\ q = p
<1> DEFINE m == MaxNo + 1
<1>1. m \in Nat /\ m >= 1 /\ p \in Nat /\ p < m /\ \A q \in 0 .. MaxNo : q \in Nat /\ q < m
  BY MaxNoAssumption
<1>2. /\ frame \in Nat /\ frame' \in Nat
      /\ \A k \in Spilled : SlotOf(k) \in Nat /\ frame + 1 <= SlotOf(k) /\ SlotOf(k) <= frame'
  <2>1. frame \in Nat /\ Cardinality(Spilled) \in Nat
    BY SlotFacts DEF CodeTypeOK
  <2>2. \A k \in Spilled : SlotOf(k) \in frame + 1 .. frame + Cardinality(Spilled)
    BY SlotFacts
  <2> QED BY <2>1, <2>2
<1>3. \A s, q : AddrVReg(s, q) = (s + 1) * m + q
  BY DEF AddrVReg
<1>4. Bound(frame) = (frame + 2) * m /\ Bound(frame') = (frame' + 2) * m
  BY DEF Bound
<1> HIDE DEF m
<1>5. ASSUME NEW s \in Nat
      PROVE  (s + 1) * m \in Nat /\ (s + 2) * m = (s + 1) * m + m
  <2>1. s + 2 = (s + 1) + 1
    OBVIOUS
  <2>2. ((s + 1) + 1) * m = (s + 1) * m + m
    BY <1>1
  <2>3. (s + 1) * m \in Nat
    BY <1>1, Times
  <2> QED BY <2>1, <2>2, <2>3
<1>6. ASSUME NEW s \in Nat, NEW t \in Nat, s < t, NEW q \in Nat, q < m
      PROVE  (s + 1) * m + q < (t + 1) * m /\ (s + 1) * m + q \in Nat /\ (t + 1) * m \in Nat
  <2>1. (s + 2) * m <= (t + 1) * m
    <3>1. s + 2 \in Nat /\ t + 1 \in Nat /\ s + 2 <= t + 1
      BY <1>6
    <3> QED BY <1>1, <3>1, Times
  <2>2. (s + 2) * m = (s + 1) * m + m /\ (s + 1) * m \in Nat /\ (t + 1) * m \in Nat
    BY <1>5
  <2> QED BY <1>1, <1>6, <2>1, <2>2
<1>7. AddrVReg(SlotOf(i), p) >= Bound(frame)
  <2>1. frame + 2 \in Nat /\ SlotOf(i) + 1 \in Nat /\ frame + 2 <= SlotOf(i) + 1
    BY <1>2
  <2>2. (frame + 2) * m <= (SlotOf(i) + 1) * m /\ (frame + 2) * m \in Nat /\ (SlotOf(i) + 1) * m \in Nat
    BY <1>1, <2>1, Times
  <2> QED BY <1>1, <1>3, <1>4, <2>2
<1>8. AddrVReg(SlotOf(i), p) < Bound(frame') /\ AddrVReg(SlotOf(i), p) \in Nat
  <2>1. frame' + 1 \in Nat /\ SlotOf(i) < frame' + 1 /\ (frame' + 1) + 1 = frame' + 2
    BY <1>2
  <2>2. (SlotOf(i) + 1) * m + p < ((frame' + 1) + 1) * m /\ (SlotOf(i) + 1) * m + p \in Nat
    BY <1>1, <1>2, <1>6, <2>1
  <2> QED BY <1>3, <1>4, <2>1, <2>2
<1>9. ASSUME NEW k \in Spilled, NEW q \in 0 .. MaxNo, AddrVReg(SlotOf(i), p) = AddrVReg(SlotOf(k), q)
      PROVE  k = i /\ q = p
  <2>1. (SlotOf(i) + 1) * m + p = (SlotOf(k) + 1) * m + q
    BY <1>3, <1>9
  <2>2. SlotOf(i) \in Nat /\ SlotOf(k) \in Nat /\ q \in Nat /\ q < m
    BY <1>1, <1>2
  <2>3. ~(SlotOf(i) < SlotOf(k))
    BY <1>1, <1>6, <2>1, <2>2
  <2>4. ~(SlotOf(k) < SlotOf(i))
    BY <1>1, <1>6, <2>1, <2>2
  <2>5. SlotOf(i) = SlotOf(k)
    BY <2>2, <2>3, <2>4
  <2>6. (SlotOf(i) + 1) * m \in Nat
    BY <1>5, <2>2
  <2>7. p = q
    BY <1>1, <2>1, <2>2, <2>5, <2>6
  <2> QED BY <2>5, <2>7, SlotFacts
<1> QED BY <1>7, <1>8, <1>9

LEMMA InsertedFacts ==
  ASSUME NEW i, NEW p
  PROVE  /\ ReloadOf(i, p).op = "ldr" /\ ReloadOf(i, p).def = code[i].def
         /\ ReloadOf(i, p).uses = Address(i, p)
         /\ AddressOf(i, p).op = "addr" /\ AddressOf(i, p).def = AddrVReg(SlotOf(i), p)
         /\ AddressOf(i, p).uses = {}
         /\ StoreOf(i).op = "str" /\ StoreOf(i).def = NoVReg
         /\ StoreOf(i).uses = {code[i].def} \cup Address(i, 0)
BY DEF ReloadOf, AddressOf, StoreOf, Instr

\* What is spilled for the first time: its plain definition is the last one,
\* and a use that it does not reach is that of an operand handed on.
LEMMA FreshFacts ==
  ASSUME CodeTypeOK, SpillShape, NEW i \in Spilled, FreshDef(i)
  PROVE  /\ i \in 1 .. Len(code) /\ code[i].op = "op" /\ code[i].def \in VReg \ spilledVRegs
         /\ \A q \in 1 .. Len(code) :
              code[q].def = code[i].def => Selected(q) /\ q <= i /\ (code[q].op = "op" => q = i)
         /\ \A q \in 1 .. Len(code) :
              code[i].def \in code[q].uses =>
                /\ Selected(q)
                /\ \/ q \in ReachedUses(i)
                   \/ \E p \in 1 .. Len(code) :
                        code[p].op = "pass" /\ code[p].def = code[i].def /\ q \in ReachedUses(p)
<1> DEFINE v == code[i].def
<1>1. /\ i \in 1 .. Len(code) /\ v \in VReg \ spilledVRegs /\ v # NoVReg /\ Len(code) \in Nat
      /\ code[i].op = "op"
  BY CodeFacts DEF FreshDef, Defining
<1>2. ASSUME NEW q \in 1 .. Len(code), code[q].def = v
      PROVE  Selected(q) /\ q <= i /\ (code[q].op = "op" => q = i)
  <2>1. code[q].op \in {"op", "pass", "first", "ldr", "str", "addr"} /\ KindRight(code[q], spilledVRegs, frame)
    BY CodeFacts DEF Instruction, SpillShape
  <2>2. Selected(q)
    BY <1>1, <1>2, <2>1 DEF KindRight, Selected
  <2>3. IsLast(i) /\ IsLast(q) /\ Selected(i)
    BY <1>1 DEF SpillShape, Selected
  <2>4. q <= i
    BY <1>1, <1>2, <2>2, <2>3 DEF IsLast
  <2>5. code[q].op = "op" => i <= q
    BY <1>1, <1>2, <2>3 DEF IsLast
  <2> QED BY <1>1, <2>2, <2>4, <2>5
<1>3. ASSUME NEW q \in 1 .. Len(code), v \in code[q].uses
      PROVE  /\ Selected(q)
             /\ \/ q \in ReachedUses(i)
                \/ \E p \in 1 .. Len(code) : code[p].op = "pass" /\ code[p].def = v /\ q \in ReachedUses(p)
  <2> DEFINE S == {d \in 1 .. q - 1 : code[d].def = v}
  <2>1. Selected(q) /\ S # {}
    BY <1>1, <1>3 DEF SpillShape, Sourced
  <2>2. S \subseteq -1 .. q /\ q \in Nat
    BY <1>1
  <2>3. PICK d \in S : \A y \in S : y <= d
    <3>1. PICK e : e \in S
      BY <2>1
    <3> HIDE DEF S
    <3> QED BY <2>2, <3>1, Greatest
  <2>4. /\ d \in 1 .. Len(code) /\ d < q /\ code[d].def = v
        /\ \A k \in d + 1 .. q - 1 : code[k].def # v
    BY <1>1, <2>3
  <2>5. q \in ReachedUses(d)
    BY <1>1, <1>3, <2>4 DEF ReachedUses
  <2>6. code[d].op # "first"
    <3>1. ASSUME code[d].op = "first" PROVE FALSE
      <4>1. code[d + 1].def = v /\ code[d + 1].uses = {}
        BY <2>4, <3>1 DEF SpillShape, BothMoves
      <4>2. d + 1 # q
        BY <1>3, <4>1
      <4>3. d + 1 \in d + 1 .. q - 1
        BY <1>1, <2>4, <4>2
      <4> QED BY <2>4, <4>1, <4>3
    <3> QED BY <3>1
  <2>7. Selected(d) /\ (code[d].op = "op" => d = i)
    BY <1>2, <2>4
  <2> QED BY <2>1, <2>4, <2>5, <2>6, <2>7 DEF Selected
<1> QED BY <1>1, <1>2, <1>3

LEMMA ShapeKept ==
  ASSUME TypeOK, CodeTypeOK, CodeTypeOK', SpillShape, OnlyFresh,
         NEW pos, Placed(code', pos), frame' = frame + Cardinality(Spilled),
         spilledVRegs' = spilledVRegs \cup {code[i].def : i \in Spilled}
  PROVE  SpillShape'
<1> DEFINE n == Len(code)
           m == Len(code')
           Beside(r, q) == r < q /\ \A e \in r + 1 .. q - 1 : code'[e].op \in {"ldr", "addr"}
<1>1. /\ n \in Nat /\ m \in Nat /\ n <= MaxNo /\ MaxNo \in Nat
      /\ \A p \in 1 .. n : p \in 0 .. MaxNo /\ p \in Nat /\ p # 0
      /\ \A x \in 1 .. m : code'[x] \in Instruction
  <2>1. n \in Nat /\ n <= MaxNo /\ MaxNo \in Nat
    BY CodeFacts, MaxNoAssumption
  <2>2. m \in Nat /\ code' \in Seq(Instruction)
    BY DEF CodeTypeOK
  <2>3. \A x \in 1 .. m : code'[x] \in Instruction
    <3> HIDE DEF Instruction
    <3> QED BY <2>2
  <2> QED BY <2>1, <2>2, <2>3
<1>2. /\ \A p \in 1 .. n : pos[p] \in 1 .. m /\ pos[p] \in Nat /\ code'[pos[p]] = code[p]
      /\ \A p, q \in 1 .. n : p < q => pos[p] < pos[q]
      /\ \A p, q \in 1 .. n : pos[p] < pos[q] => p < q
  <2>1. \A p \in 1 .. n : pos[p] \in 1 .. m /\ code'[pos[p]] = code[p]
    BY DEF Placed
  <2>2. \A p, q \in 1 .. n : p < q => pos[p] < pos[q]
    BY DEF Placed
  <2>3. \A p \in 1 .. n : pos[p] \in Nat
    BY <1>1, <2>1
  <2>4. ASSUME NEW p \in 1 .. n, NEW q \in 1 .. n, pos[p] < pos[q] PROVE p < q
    <3>1. p = q \/ q < p \/ p < q
      BY <1>1
    <3> QED BY <2>2, <2>3, <2>4, <3>1
  <2> QED BY <2>1, <2>2, <2>3, <2>4
<1>3. \A i \in Spilled :
        /\ i \in 1 .. n /\ code[i].op = "op" /\ code[i].def \in VReg \ spilledVRegs
        /\ \A q \in 1 .. n :
             code[q].def = code[i].def => Selected(q) /\ q <= i /\ (code[q].op = "op" => q = i)
        /\ \A q \in 1 .. n :
             code[i].def \in code[q].uses =>
               /\ Selected(q)
               /\ \/ q \in ReachedUses(i)
                  \/ \E p \in 1 .. n :
                       code[p].op = "pass" /\ code[p].def = code[i].def /\ q \in ReachedUses(p)
        /\ \A q \in ReachedUses(i) : q \in 1 .. n
  <2>1. \A i \in 1 .. n : \A q \in ReachedUses(i) : q \in 1 .. n
    BY <1>1 DEF ReachedUses
  <2> QED BY <2>1, FreshFacts DEF OnlyFresh
<1>4. /\ \A p \in 1 .. n : /\ KindRight(code[p], spilledVRegs, frame) /\ \A v \in code[p].uses : Sourced(p, v)
                           /\ HandedOn(p) /\ BothMoves(p) /\ IsLast(p) /\ SpillLast(p) /\ ReloadUsed(p)
      /\ spilledVRegs \subseteq spilledVRegs' /\ spilledVRegs' \subseteq VReg
      /\ \A i \in Spilled : code[i].def \in spilledVRegs'
  BY <1>3 DEF SpillShape
<1>5. /\ \A i \in Spilled : \A p \in 0 .. MaxNo :
           LET a == AddrVReg(SlotOf(i), p)
           IN  /\ a \in Nat /\ a >= Bound(frame) /\ a < Bound(frame')
               /\ \A k \in Spilled : \A q \in 0 .. MaxNo : a = AddrVReg(SlotOf(k), q) => k = i /\ q = p
  BY AddressFacts
<1>6. Bound(frame) \in Nat /\ Bound(frame') \in Nat /\ Bound(frame) <= Bound(frame') /\ \A v \in VReg : v < Bound(frame) /\ v \in Nat /\ v # NoVReg
  <2>1. frame \in Nat /\ frame' \in Nat /\ frame <= frame'
    BY SlotFacts DEF CodeTypeOK
  <2>2. frame + 2 \in Nat /\ frame' + 2 \in Nat /\ frame + 2 <= frame' + 2 /\ 1 <= frame + 2 /\ MaxNo + 1 \in Nat
    BY <1>1, <2>1
  <2>3. (frame + 2) * (MaxNo + 1) <= (frame' + 2) * (MaxNo + 1) /\ (frame + 2) * (MaxNo + 1) \in Nat
    BY <2>2, Times
  <2>4. (frame' + 2) * (MaxNo + 1) \in Nat
    BY <2>2, Times
  <2>5. 1 * (MaxNo + 1) <= (frame + 2) * (MaxNo + 1)
    BY <2>2, Times
  <2>6. \A v \in VReg : v \in Nat /\ v <= MaxNo /\ v # 0
    BY LengthAssumption, <1>1 DEF VReg
  <2> QED BY <1>1, <2>3, <2>4, <2>5, <2>6 DEF Bound, NoVReg
<1>7. ASSUME NEW i \in Spilled, NEW p \in 0 .. MaxNo
      PROVE  AddrVReg(SlotOf(i), p) \notin VReg \cup {NoVReg}
  <2> DEFINE a == AddrVReg(SlotOf(i), p)
  <2>1. a \in Nat /\ a >= Bound(frame)
    BY <1>5
  <2>2. 1 \in VReg
    BY LengthAssumption DEF VReg
  <2>3. 1 < Bound(frame) /\ NoVReg \in Nat /\ NoVReg < 1
    BY <1>6, <2>2 DEF NoVReg
  <2> HIDE DEF a
  <2>4. a \notin VReg /\ a # NoVReg
    BY <1>6, <2>1, <2>3
  <2> QED BY <2>4 DEF a
\* Every new instruction is one of five.
<1>8. ASSUME NEW x \in 1 .. m
      PROVE  \/ \E p \in 1 .. n : x = pos[p] /\ code'[x] = code[p]
             \/ \E p \in 1 .. n : \E i \in Spilled :
                  p \in ReachedUses(i) /\ Before(pos, x, p) /\ code'[x] = ReloadOf(i, p)
             \/ \E p \in 1 .. n : \E i \in Spilled :
                  /\ p \in ReachedUses(i) /\ Before(pos, x, p) /\ code'[x] = AddressOf(i, p)
                  /\ \A y \in 1 .. m : Before(pos, y, p) /\ code'[y] = ReloadOf(i, p) => y < x
             \/ \E p \in Spilled : After(pos, x, p) /\ code'[x] = AddressOf(p, 0) /\ x = pos[p] + 1
             \/ \E p \in Spilled : After(pos, x, p) /\ code'[x] = StoreOf(p)
                  /\ (x = pos[p] + 1 \/ (x = pos[p] + 2 /\ code'[pos[p] + 1] = AddressOf(p, 0)))
  <2>1. PICK p \in 1 .. n :
          x = pos[p] \/ LoadPlaced(code', pos, x, p) \/ (After(pos, x, p) /\ StoredAt(code', x, pos[p], p))
    BY DEF Placed
  <2>2. CASE x = pos[p]
    BY <1>2, <2>2
  <2>3. CASE LoadPlaced(code', pos, x, p)
    BY <2>3 DEF LoadPlaced
  <2>4. CASE After(pos, x, p) /\ StoredAt(code', x, pos[p], p)
    BY <2>4 DEF StoredAt
  <2> QED BY <2>1, <2>2, <2>3, <2>4
<1> HIDE DEF n, m
\* Who defines an old register, or an address.
<1>9. ASSUME NEW y \in 1 .. m, code'[y].def \notin VReg \cup {NoVReg}, code'[y].def < Bound(frame)
      PROVE  \E d \in 1 .. n : y = pos[d] /\ code'[y] = code[d]
  <2>1. ASSUME NEW i \in Spilled, NEW p \in 0 .. MaxNo, code'[y] = AddressOf(i, p) PROVE FALSE
    <3>1. code'[y].def \in Nat /\ code'[y].def >= Bound(frame)
      BY <1>5, <2>1, InsertedFacts
    <3> QED BY <1>6, <1>9, <3>1
  <2>2. ASSUME NEW i \in Spilled, NEW p, code'[y] = ReloadOf(i, p) PROVE FALSE
    BY <1>3, <1>9, <2>2, InsertedFacts
  <2>3. ASSUME NEW i \in Spilled, code'[y] = StoreOf(i) PROVE FALSE
    BY <1>9, <2>3, InsertedFacts
  <2>4. 0 \in 0 .. MaxNo
    BY <1>1
  <2> QED BY <1>1, <1>8, <2>1, <2>2, <2>3, <2>4
<1>10. ASSUME NEW i \in Spilled, NEW p \in 0 .. MaxNo, NEW y \in 1 .. m,
              code'[y].def = AddrVReg(SlotOf(i), p)
       PROVE  \/ /\ p # 0 /\ code'[y] = AddressOf(i, p)
                 /\ \A z \in 1 .. m : Before(pos, z, p) /\ code'[z] = ReloadOf(i, p) => z < y
              \/ p = 0 /\ code'[y] = AddressOf(i, 0) /\ y = pos[i] + 1
  <2> DEFINE a == AddrVReg(SlotOf(i), p)
  <2>1. a \notin VReg \cup {NoVReg} /\ a \in Nat /\ a >= Bound(frame)
    BY <1>5, <1>7
  <2>2. ASSUME NEW d \in 1 .. n, code'[y] = code[d] PROVE FALSE
    <3>1. code[d].def < Bound(frame)
      BY <1>4 DEF KindRight, n
    <3> QED BY <1>6, <1>10, <2>1, <2>2, <3>1
  <2>3. ASSUME NEW k \in Spilled, NEW q, code'[y] = ReloadOf(k, q) PROVE FALSE
    BY <1>3, <1>10, <2>1, <2>3, InsertedFacts
  <2>4. ASSUME NEW k \in Spilled, code'[y] = StoreOf(k) PROVE FALSE
    BY <1>10, <2>1, <2>4, InsertedFacts
  <2>5. ASSUME NEW k \in Spilled, NEW q \in 0 .. MaxNo, code'[y] = AddressOf(k, q) PROVE k = i /\ q = p
    <3>1. AddrVReg(SlotOf(i), p) = AddrVReg(SlotOf(k), q)
      BY <1>10, <2>5, InsertedFacts
    <3> QED BY <1>5, <3>1
  <2>6. CASE \E q \in 1 .. n : \E k \in Spilled :
               /\ q \in ReachedUses(k) /\ code'[y] = AddressOf(k, q)
               /\ \A z \in 1 .. m : Before(pos, z, q) /\ code'[z] = ReloadOf(k, q) => z < y
    <3>1. PICK q \in 1 .. n, k \in Spilled :
               /\ q \in ReachedUses(k) /\ code'[y] = AddressOf(k, q)
               /\ \A z \in 1 .. m : Before(pos, z, q) /\ code'[z] = ReloadOf(k, q) => z < y
      BY <2>6
    <3>2. k = i /\ q = p /\ q # 0
      BY <1>1, <2>5, <3>1 DEF n
    <3> QED BY <3>1, <3>2
  <2>7. CASE \E q \in Spilled : After(pos, y, q) /\ code'[y] = AddressOf(q, 0) /\ y = pos[q] + 1
    <3>1. PICK q \in Spilled : code'[y] = AddressOf(q, 0) /\ y = pos[q] + 1
      BY <2>7
    <3>2. q = i /\ p = 0
      BY <1>1, <2>5, <3>1
    <3> QED BY <3>1, <3>2
  <2> QED BY <1>8, <2>2, <2>3, <2>4, <2>6, <2>7
\* What was close stays close.
<1>11. ASSUME NEW r \in 1 .. n, NEW q \in 1 .. n, Close(r, q), r \notin Spilled
       PROVE  Beside(pos[r], pos[q])
  <2>1. r < q /\ pos[r] < pos[q] /\ \A e \in 1 .. n : r < e /\ e < q => Quiet(e)
    <3>1. \A e \in 1 .. n : r < e /\ e < q => e \in r + 1 .. q - 1
      BY <1>1
    <3> QED BY <1>2, <1>11, <3>1 DEF Close, n, m
  <2>2. ASSUME NEW x \in pos[r] + 1 .. pos[q] - 1 PROVE code'[x].op \in {"ldr", "addr"}
    <3>1. x \in 1 .. m /\ x \in Nat /\ pos[r] < x /\ x < pos[q] /\ pos[r] \in Nat /\ pos[q] \in Nat
      <4>1. pos[r] \in 1 .. m /\ pos[q] \in 1 .. m /\ m \in Nat
        BY <1>1, <1>2 DEF n, m
      <4> QED BY <4>1
    <3>2. CASE \E p \in 1 .. n : x = pos[p] /\ code'[x] = code[p]
      <4>1. PICK p \in 1 .. n : x = pos[p] /\ code'[x] = code[p]
        BY <3>2
      <4>2. r < p /\ p < q
        BY <1>2, <3>1, <4>1 DEF n, m
      <4> QED BY <2>1, <4>1, <4>2 DEF Quiet
    <3>3. ASSUME NEW p \in Spilled, After(pos, x, p) PROVE FALSE
      <4>1. p \in 1 .. n /\ pos[p] < x /\ \A k \in p + 1 .. n : x < pos[k]
        BY <1>3, <3>3 DEF After, n
      <4>2. p < q
        <5>1. pos[p] < pos[q] /\ pos[p] \in Nat
          BY <1>2, <3>1, <4>1 DEF n, m
        <5> QED BY <1>2, <4>1, <5>1 DEF n, m
      <4>3. ~(p < r)
        <5>1. ASSUME p < r PROVE FALSE
          <6>1. r \in p + 1 .. n
            BY <1>1, <4>1, <5>1 DEF n
          <6> QED BY <3>1, <4>1, <6>1
        <5> QED BY <5>1
      <4>4. p # r /\ ~Quiet(p)
        BY <1>3, <1>11, <3>3 DEF Quiet
      <4>5. r < p
        BY <1>1, <4>1, <4>3, <4>4 DEF n
      <4> QED BY <2>1, <4>1, <4>2, <4>4, <4>5
    <3> QED BY <1>8, <3>1, <3>2, <3>3, InsertedFacts
  <2> QED BY <2>1, <2>2
<1>12. ASSUME NEW x \in 1 .. m PROVE KindRight(code'[x], spilledVRegs', frame')
  <2>1. ASSUME NEW p \in 1 .. n, code'[x] = code[p] PROVE KindRight(code'[x], spilledVRegs', frame')
    <3>1. KindRight(code[p], spilledVRegs, frame) /\ code[p] \in Instruction
      BY <1>4, CodeFacts DEF n
    <3>2. \A v \in {code[p].def} \cup code[p].uses : v \in Nat
      BY <3>1 DEF Instruction
    <3>3. \A v \in {code[p].def} \cup code[p].uses : v < Bound(frame')
      <4>1. \A v \in {code[p].def} \cup code[p].uses : v < Bound(frame)
        BY <3>1 DEF KindRight
      <4> QED BY <1>6, <3>2, <4>1
    <3> QED BY <1>4, <2>1, <3>1, <3>3 DEF KindRight
  <2>2. ASSUME NEW i \in Spilled, NEW p \in 0 .. MaxNo
        PROVE  /\ IsFiniteSet(Address(i, p)) /\ Address(i, p) \cap VReg = {} /\ NoVReg \notin Address(i, p)
               /\ \A v \in Address(i, p) : v < Bound(frame')
               /\ code[i].def \in spilledVRegs' /\ code[i].def \in VReg /\ code[i].def < Bound(frame')
               /\ code[i].def # NoVReg
    <3>1. IsFiniteSet(Address(i, p))
      BY FS_EmptySet, FS_Singleton DEF Address
    <3>2. code[i].def \in VReg
      BY <1>3
    <3>3. code[i].def < Bound(frame') /\ code[i].def # NoVReg
      BY <1>6, <3>2
    <3> QED BY <1>4, <1>5, <1>7, <3>1, <3>2, <3>3 DEF Address
  <2>3. ASSUME NEW i \in Spilled, NEW p \in 0 .. MaxNo, code'[x] = ReloadOf(i, p)
        PROVE  KindRight(code'[x], spilledVRegs', frame')
    BY <2>2, <2>3, InsertedFacts DEF KindRight
  <2>4. ASSUME NEW i \in Spilled, NEW p \in 0 .. MaxNo, code'[x] = AddressOf(i, p)
        PROVE  KindRight(code'[x], spilledVRegs', frame')
    <3> DEFINE a == AddrVReg(SlotOf(i), p)
    <3>1. a < Bound(frame') /\ a \notin VReg \cup {NoVReg}
      BY <1>5, <1>7
    <3>2. code'[x].op = "addr" /\ code'[x].def = a /\ code'[x].uses = {}
      BY <2>4, InsertedFacts
    <3> HIDE DEF a
    <3> QED BY <3>1, <3>2, FS_EmptySet DEF KindRight
  <2>5. ASSUME NEW i \in Spilled, code'[x] = StoreOf(i)
        PROVE  KindRight(code'[x], spilledVRegs', frame')
    <3> DEFINE u == {code[i].def} \cup Address(i, 0)
    <3>1. 0 \in 0 .. MaxNo
      BY <1>1
    <3>2. IsFiniteSet(u) /\ Cardinality(u) <= 2
      <4>1. IsFiniteSet({code[i].def}) /\ Cardinality({code[i].def}) = 1
        BY FS_Singleton
      <4>2. CASE Address(i, 0) = {}
        <5>1. u = {code[i].def}
          BY <4>2
        <5> HIDE DEF u
        <5> QED BY <4>1, <5>1
      <4>3. ASSUME NEW a, Address(i, 0) = {a} PROVE IsFiniteSet(u) /\ Cardinality(u) <= 2
        <5>1. u = {code[i].def} \cup {a}
          BY <4>3
        <5>2. IsFiniteSet(u) /\ (Cardinality(u) = 1 \/ Cardinality(u) = 1 + 1)
          <6> HIDE DEF u
          <6> QED BY <4>1, <5>1, FS_AddElement
        <5> HIDE DEF u
        <5> QED BY <5>2
      <4> QED BY <4>2, <4>3 DEF Address
    <3>3. /\ Address(i, 0) \cap VReg = {} /\ NoVReg \notin Address(i, 0)
          /\ \A v \in Address(i, 0) : v < Bound(frame')
          /\ code[i].def \in spilledVRegs' /\ code[i].def < Bound(frame') /\ code[i].def # NoVReg
      BY <2>2, <3>1
    <3>4. u \cap VReg \subseteq spilledVRegs' /\ NoVReg \notin u /\ \A v \in u : v < Bound(frame')
      BY <3>3
    <3>5. NoVReg < Bound(frame')
      <4>1. NoVReg < code[i].def
        <5>1. code[i].def \in VReg
          BY <1>3
        <5> QED BY <5>1, LengthAssumption DEF VReg, NoVReg
      <4>2. code[i].def \in Nat /\ NoVReg \in Nat
        <5>1. code[i].def \in VReg
          BY <1>3
        <5> QED BY <1>6, <5>1 DEF NoVReg
      <4> QED BY <1>6, <3>3, <4>1, <4>2
    <3>6. code'[x].op = "str" /\ code'[x].def = NoVReg /\ code'[x].uses = u
      BY <2>5, InsertedFacts
    <3> HIDE DEF u
    <3> QED BY <3>2, <3>4, <3>5, <3>6 DEF KindRight
  <2>6. \A p \in 1 .. n : p \in 0 .. MaxNo
    BY <1>1 DEF n
  <2>7. 0 \in 0 .. MaxNo
    BY <1>1
  <2> QED BY <1>8, <2>1, <2>3, <2>4, <2>5, <2>6, <2>7
<1> DEFINE Giver(selected) == IF selected THEN {"ldr", "pass"} ELSE {"op"}
           Source(x, v) ==
             /\ v \in VReg \ spilledVRegs' =>
                  Selected(x)' /\ \E d \in 1 .. x - 1 : Selected(d)' /\ code'[d].def = v
             /\ v \in spilledVRegs' =>
                  \E r \in 1 .. m : /\ Beside(r, x) /\ code'[r].def = v
                                    /\ code'[r].op \in Giver(Selected(x)')
             /\ v \notin VReg =>
                  \A d \in 1 .. m : code'[d].def = v => d > x \/ (code'[x].op = "str" /\ Beside(d, x))
<1> HIDE DEF Beside
<1>13. ASSUME NEW q \in 1 .. n, NEW v \in code[q].uses PROVE Source(pos[q], v)
  <2> DEFINE x == pos[q]
  <2>1. /\ x \in 1 .. m /\ code'[x] = code[q] /\ Sourced(q, v)
        /\ v # NoVReg /\ v < Bound(frame) /\ (v \in spilledVRegs => v \in VReg)
    BY <1>2, <1>4 DEF n, KindRight
  <2>2. ASSUME v \in VReg \ spilledVRegs'
        PROVE  Selected(x)' /\ \E d \in 1 .. x - 1 : Selected(d)' /\ code'[d].def = v
    <3>1. v \in VReg \ spilledVRegs
      BY <1>4, <2>2
    <3>2. Selected(q) /\ \E d \in 1 .. q - 1 : Selected(d) /\ code[d].def = v
      BY <2>1, <3>1 DEF Sourced
    <3>3. PICK d \in 1 .. q - 1 : Selected(d) /\ code[d].def = v
      BY <3>2
    <3>4. d \in 1 .. n /\ d < q
      BY <1>1, <3>3 DEF n
    <3>5. pos[d] < x /\ pos[d] \in 1 .. m /\ code'[pos[d]] = code[d]
      BY <1>2, <3>4 DEF n, m
    <3>6. pos[d] \in 1 .. x - 1
      BY <1>1, <2>1, <3>5 DEF m
    <3> QED BY <2>1, <3>2, <3>3, <3>5, <3>6 DEF Selected
  <2>3. ASSUME v \in spilledVRegs
        PROVE  \E r \in 1 .. m : /\ Beside(r, x) /\ code'[r].def = v
                                 /\ code'[r].op \in Giver(Selected(x)')
    <3>1. PICK r \in 1 .. n : /\ Close(r, q) /\ code[r].def = v
                              /\ code[r].op \in Giver(Selected(q))
      BY <2>1, <2>3 DEF Sourced, n
    <3>2. r \notin Spilled
      BY <1>3, <2>3, <3>1
    <3>3. Beside(pos[r], x) /\ pos[r] \in 1 .. m /\ code'[pos[r]] = code[r]
      BY <1>2, <1>11, <3>1, <3>2 DEF n, m
    <3> QED BY <2>1, <3>1, <3>3 DEF Selected
  <2>4. ASSUME v \in spilledVRegs' \ spilledVRegs
        PROVE  \E r \in 1 .. m : /\ Beside(r, x) /\ code'[r].def = v
                                 /\ code'[r].op \in Giver(Selected(x)')
    <3>1. PICK i \in Spilled : code[i].def = v
      BY <2>4
    <3>2. Selected(q) /\ Selected(x)'
      BY <1>3, <2>1, <3>1 DEF Selected, n
    <3>3. CASE q \in ReachedUses(i)
      <4>1. PICK r \in 1 .. m : /\ Before(pos, r, q) /\ code'[r] = ReloadOf(i, q)
                                /\ \A y \in r + 1 .. pos[q] - 1 : code'[y].op \in {"ldr", "addr"}
        BY <3>3 DEF Placed, m
      <4>2. Beside(r, x)
        BY <4>1 DEF Beside, Before
      <4> QED BY <3>1, <3>2, <4>1, <4>2, InsertedFacts
    <3>4. ASSUME NEW d \in 1 .. n, code[d].op = "pass", code[d].def = v, q \in ReachedUses(d)
          PROVE  \E r \in 1 .. m : /\ Beside(r, x) /\ code'[r].def = v
                                   /\ code'[r].op \in Giver(Selected(x)')
      <4>1. Close(d, q)
        <5>1. HandedOn(d)
          BY <1>4
        <5>2. PICK h \in 1 .. n : Close(d, h) /\ ReachedUses(d) = {h}
          BY <3>4, <5>1 DEF HandedOn, n
        <5> QED BY <3>4, <5>2
      <4>2. d \notin Spilled
        BY <1>3, <3>4
      <4>3. Beside(pos[d], x) /\ pos[d] \in 1 .. m /\ code'[pos[d]] = code[d]
        BY <1>2, <1>11, <4>1, <4>2 DEF n, m
      <4> QED BY <3>2, <3>4, <4>3
    <3>5. q \in ReachedUses(i) \/ \E d \in 1 .. n : code[d].op = "pass" /\ code[d].def = v /\ q \in ReachedUses(d)
      BY <1>3, <3>1 DEF n
    <3> QED BY <3>3, <3>4, <3>5
  <2>5. ASSUME v \notin VReg, NEW y \in 1 .. m, code'[y].def = v
        PROVE  y > x \/ (code'[x].op = "str" /\ Beside(y, x))
    <3>1. PICK d \in 1 .. n : y = pos[d] /\ code'[y] = code[d]
      <4>1. code'[y].def \notin VReg \cup {NoVReg} /\ code'[y].def < Bound(frame)
        BY <2>1, <2>5
      <4> QED BY <1>9, <4>1 DEF n, m
    <3>2. d > q \/ (code[q].op = "str" /\ Close(d, q))
      BY <2>1, <2>5, <3>1 DEF Sourced, n
    <3>3. CASE d > q
      <4>1. q < d
        BY <1>1, <3>3 DEF n
      <4>2. pos[q] < pos[d] /\ pos[q] \in Nat /\ pos[d] \in Nat
        BY <1>2, <4>1 DEF n, m
      <4> QED BY <3>1, <4>2
    <3>4. CASE code[q].op = "str" /\ Close(d, q)
      <4>1. d \notin Spilled
        BY <1>3, <2>5, <3>1
      <4> QED BY <1>11, <2>1, <3>1, <3>4, <4>1 DEF n, m
    <3> QED BY <3>2, <3>3, <3>4
  <2> HIDE DEF x
  <2>6. v \in spilledVRegs' => v \in spilledVRegs \/ v \in spilledVRegs' \ spilledVRegs
    OBVIOUS
  <2> QED BY <2>2, <2>3, <2>4, <2>5, <2>6 DEF x
<1>14. ASSUME NEW x \in 1 .. m, NEW i \in Spilled, NEW p \in 1 .. n, Before(pos, x, p),
              code'[x] = ReloadOf(i, p), NEW v \in code'[x].uses
       PROVE  Source(x, v)
  <2>1. v = AddrVReg(SlotOf(i), p) /\ p \in 0 .. MaxNo /\ p # 0
    <3>1. p \in 0 .. MaxNo /\ p # 0
      BY <1>1 DEF n
    <3>2. code'[x].uses = Address(i, p)
      BY <1>14, InsertedFacts
    <3>3. \A a \in Address(i, p) : a = AddrVReg(SlotOf(i), p)
      BY DEF Address
    <3> QED BY <3>1, <3>2, <3>3
  <2>2. v \notin VReg
    BY <1>7, <2>1
  <2>3. ASSUME NEW y \in 1 .. m, code'[y].def = v PROVE y > x
    <3>1. \A z \in 1 .. m : Before(pos, z, p) /\ code'[z] = ReloadOf(i, p) => z < y
      BY <1>10, <2>1, <2>3 DEF m
    <3>2. x < y /\ x \in Nat /\ y \in Nat
      BY <1>1, <1>14, <3>1 DEF m
    <3> QED BY <3>2
  <2> QED BY <1>4, <2>2, <2>3
<1>15. ASSUME NEW x \in 1 .. m, NEW i \in Spilled, NEW v \in code'[x].uses, code'[x] = StoreOf(i),
              x = pos[i] + 1 \/ (x = pos[i] + 2 /\ code'[pos[i] + 1] = AddressOf(i, 0))
       PROVE  Source(x, v)
  <2>1. /\ i \in 1 .. n /\ pos[i] \in 1 .. m /\ pos[i] \in Nat /\ code'[pos[i]] = code[i]
        /\ code'[x].op = "str" /\ code[i].op = "op" /\ code[i].def \in VReg
        /\ code[i].def \in spilledVRegs' /\ 0 \in 0 .. MaxNo
    <3>1. i \in 1 .. n /\ code[i].op = "op" /\ code[i].def \in VReg /\ code[i].def \in spilledVRegs'
      BY <1>3, <1>4
    <3>2. pos[i] \in 1 .. m /\ pos[i] \in Nat /\ code'[pos[i]] = code[i]
      BY <1>2, <3>1 DEF n, m
    <3>3. code'[x].op = "str"
      BY <1>15, InsertedFacts
    <3>4. 0 \in 0 .. MaxNo
      BY <1>1
    <3> QED BY <3>1, <3>2, <3>3, <3>4
  <2>2. CASE v = code[i].def
    <3>1. pos[i] < x
      BY <1>15, <2>1
    <3>2. ASSUME NEW e \in pos[i] + 1 .. x - 1 PROVE code'[e].op \in {"ldr", "addr"}
      <4>1. x = pos[i] + 2 /\ e = pos[i] + 1
        BY <1>15, <2>1
      <4> QED BY <1>15, <2>1, <4>1, InsertedFacts
    <3>3. Beside(pos[i], x)
      BY <3>1, <3>2 DEF Beside
    <3> QED BY <1>4, <2>1, <2>2, <3>3 DEF Selected
  <2>3. CASE v \in Address(i, 0)
    <3>1. v = AddrVReg(SlotOf(i), 0) /\ v \notin VReg \cup {NoVReg}
      BY <1>7, <2>1, <2>3 DEF Address
    <3>2. ASSUME NEW y \in 1 .. m, code'[y].def = v PROVE Beside(y, x)
      <4>1. y = pos[i] + 1
        BY <1>10, <2>1, <3>1, <3>2 DEF m
      <4>2. x # y
        BY <1>15, <3>1, <3>2, InsertedFacts
      <4>3. y < x /\ \A e \in y + 1 .. x - 1 : FALSE
        BY <1>15, <2>1, <4>1, <4>2
      <4> QED BY <4>3 DEF Beside
    <3> QED BY <1>4, <2>1, <3>1, <3>2
  <2> QED BY <1>15, <2>2, <2>3, InsertedFacts
<1>16. ASSUME NEW x \in 1 .. m, NEW v \in code'[x].uses PROVE Source(x, v)
  <2>1. CASE \E p \in 1 .. n : x = pos[p] /\ code'[x] = code[p]
    BY <1>13, <2>1
  <2>2. CASE \E p \in 1 .. n : \E i \in Spilled :
               p \in ReachedUses(i) /\ Before(pos, x, p) /\ code'[x] = ReloadOf(i, p)
    BY <1>14, <2>2
  <2>3. ASSUME NEW i, NEW p, code'[x] = AddressOf(i, p) PROVE FALSE
    BY <1>16, <2>3, InsertedFacts
  <2>4. CASE \E p \in Spilled : After(pos, x, p) /\ code'[x] = StoreOf(p)
               /\ (x = pos[p] + 1 \/ (x = pos[p] + 2 /\ code'[pos[p] + 1] = AddressOf(p, 0)))
    BY <1>15, <2>4
  <2> HIDE DEF Source
  <2> QED BY <1>8, <2>1, <2>2, <2>3, <2>4 DEF n, m
<1>17. ASSUME NEW x \in 1 .. m, NEW v \in code'[x].uses PROVE Sourced(x, v)'
  <2>1. Source(x, v)
    BY <1>16
  <2> QED BY <2>1 DEF Sourced, Close, Quiet, Beside, m
<1>18. ASSUME NEW x \in 1 .. m, Selected(x)'
       PROVE  \E p \in 1 .. n : x = pos[p] /\ code'[x] = code[p] /\ Selected(p)
  <2>1. code'[x].op \in {"op", "pass", "first"}
    BY <1>18 DEF Selected
  <2> QED BY <1>8, <2>1, InsertedFacts DEF Selected
\* A register that is not defined between two old places is at most reloaded
\* between the new ones.
<1>19. ASSUME NEW p \in 1 .. n, NEW q \in 1 .. n, NEW v \in VReg, \A k \in p + 1 .. q - 1 : code[k].def # v,
              NEW y \in 1 .. m, pos[p] < y, y < pos[q], code'[y].def = v
       PROVE  \E i \in Spilled : /\ code[i].def = v
                                 /\ \E k \in ReachedUses(i) :
                                      /\ p < k /\ k <= q /\ k \in 1 .. n
                                      /\ Before(pos, y, k) /\ code'[y] = ReloadOf(i, k)
  <2>1. v # NoVReg /\ y \in Nat /\ pos[p] \in Nat /\ pos[q] \in Nat /\ p \in Nat /\ q \in Nat
    <3>1. v # NoVReg
      BY <1>6
    <3>2. pos[p] \in Nat /\ pos[q] \in Nat
      BY <1>2
    <3>3. y \in Nat /\ p \in Nat /\ q \in Nat
      OBVIOUS
    <3> QED BY <3>1, <3>2, <3>3
  <2>2. ASSUME NEW k \in 1 .. n, y = pos[k], code'[y] = code[k] PROVE FALSE
    <3>1. p < k /\ k < q
      BY <1>2, <1>19, <2>2 DEF n, m
    <3>2. k \in p + 1 .. q - 1
      BY <1>1, <2>1, <3>1 DEF n
    <3> QED BY <1>19, <2>2, <3>2
  <2>3. ASSUME NEW i \in Spilled, NEW k \in 0 .. MaxNo, code'[y] = AddressOf(i, k) PROVE FALSE
    BY <1>7, <1>19, <2>3, InsertedFacts
  <2>4. ASSUME NEW i \in Spilled, code'[y] = StoreOf(i) PROVE FALSE
    BY <1>19, <2>1, <2>4, InsertedFacts
  <2>5. ASSUME NEW k \in 1 .. n, NEW i \in Spilled, k \in ReachedUses(i), Before(pos, y, k),
               code'[y] = ReloadOf(i, k)
        PROVE  code[i].def = v /\ p < k /\ k <= q
    <3>1. code[i].def = v /\ y < pos[k] /\ k \in Nat /\ pos[k] \in Nat
      BY <1>1, <1>2, <1>19, <2>5, InsertedFacts DEF Before, n, m
    <3>2. pos[p] < pos[k]
      BY <1>19, <2>1, <3>1
    <3>3. p < k
      BY <1>2, <3>2 DEF n, m
    <3>4. ~(q < k)
      <4>1. ASSUME q < k PROVE FALSE
        <5>1. q \in 1 .. k - 1
          BY <2>1, <3>1, <4>1
        <5> QED BY <1>19, <2>1, <2>5, <5>1 DEF Before
      <4> QED BY <4>1
    <3> QED BY <2>1, <3>1, <3>3, <3>4
  <2>6. 0 \in 0 .. MaxNo /\ \A k \in 1 .. n : k \in 0 .. MaxNo
    BY <1>1 DEF n
  <2> QED BY <1>8, <2>2, <2>3, <2>4, <2>5, <2>6
<1>20. ASSUME NEW x \in 1 .. m PROVE HandedOn(x)'
  <2> SUFFICES ASSUME code'[x].op = "pass"
               PROVE  \E h \in 1 .. m : Selected(h)' /\ Close(x, h)' /\ ReachedUses(x)' = {h}
    BY DEF HandedOn, m
  <2>1. PICK p \in 1 .. n : x = pos[p] /\ code'[x] = code[p] /\ code[p].op = "pass"
    BY <1>18 DEF Selected
  <2> DEFINE v == code[p].def
  <2>2. HandedOn(p) /\ KindRight(code[p], spilledVRegs, frame) /\ IsLast(p)
    BY <1>4
  <2>3. PICK h \in 1 .. n : Selected(h) /\ Close(p, h) /\ ReachedUses(p) = {h}
    BY <2>1, <2>2 DEF HandedOn, n
  <2>4. v \in VReg /\ v # NoVReg /\ p \notin Spilled
    BY <1>3, <1>6, <2>1, <2>2 DEF KindRight
  <2>5. /\ pos[h] \in 1 .. m /\ code'[pos[h]] = code[h] /\ Beside(x, pos[h])
        /\ x \in Nat /\ pos[h] \in Nat
    BY <1>2, <1>11, <2>1, <2>3, <2>4 DEF n, m
  <2>6. Selected(pos[h])' /\ Close(x, pos[h])'
    BY <2>3, <2>5 DEF Selected, Close, Quiet, Beside
  <2>7. /\ h \in p + 1 .. n /\ v \in code[h].uses /\ \A k \in p + 1 .. h - 1 : code[k].def # v
        /\ h \in ReachedUses(p)
    BY <2>3 DEF ReachedUses, n
  <2>8. pos[h] \in ReachedUses(x)'
    <3>1. ASSUME NEW y \in x + 1 .. pos[h] - 1, code'[y].def = v PROVE FALSE
      <4>1. y \in 1 .. m /\ pos[p] < y /\ y < pos[h]
        <5>1. x \in 1 .. m /\ x \in Nat /\ pos[h] \in 1 .. m /\ pos[h] \in Nat /\ m \in Nat
          BY <1>1, <2>5
        <5>2. x < y /\ y < pos[h] /\ y \in Int
          BY <5>1
        <5>3. y \in 1 .. m
          BY <5>1, <5>2
        <5> QED BY <2>1, <5>2, <5>3
      <4>9. PICK i \in Spilled : /\ code[i].def = v
                                 /\ \E k \in ReachedUses(i) : p < k /\ k <= h /\ k \in 1 .. n
        BY <1>19, <2>4, <2>7, <3>1, <4>1
      <4>2. PICK k \in ReachedUses(i) : code[i].def = v /\ p < k /\ k <= h /\ k \in 1 .. n
        BY <4>9
      <4>3. i \in Defining /\ i \in 1 .. n /\ i \in Nat /\ i # p /\ k \in Nat /\ h \in Nat /\ p \in Nat
        BY <1>1, <1>3, <2>1, <4>2 DEF Spilled, n
      <4>4. ~Quiet(k)
        BY <4>2, <4>3, QuietUnused DEF n
      <4>5. k \notin p + 1 .. h - 1
        BY <2>3, <4>4 DEF Close
      <4>6. k = h
        BY <4>2, <4>3, <4>5
      <4>7. p < i
        BY <1>3, <2>1, <4>2, <4>3
      <4>8. i < k /\ i \in p + 1 .. h - 1
        BY <4>2, <4>3, <4>6, <4>7 DEF ReachedUses
      <4> QED BY <2>7, <4>2, <4>8
    <3>2. pos[h] \in x + 1 .. m /\ code'[x].def = v /\ v \in code'[pos[h]].uses
      BY <1>1, <2>1, <2>5, <2>7 DEF Beside, m
    <3> QED BY <3>1, <3>2 DEF ReachedUses, m
  <2>9. ASSUME NEW y \in ReachedUses(x)' PROVE y = pos[h]
    <3>1. /\ y \in x + 1 .. m /\ v \in code'[y].uses /\ y \in 1 .. m /\ y \in Nat /\ x < y
          /\ \A k \in x + 1 .. y - 1 : code'[k].def # v
      <4>1. /\ y \in x + 1 .. m /\ v \in code'[y].uses
            /\ \A k \in x + 1 .. y - 1 : code'[k].def # v
        BY <2>1 DEF ReachedUses, m
      <4> QED BY <1>1, <2>5, <4>1 DEF m
    <3>2. ASSUME NEW i \in Spilled, NEW k \in 0 .. MaxNo PROVE v \notin Address(i, k)
      <4>1. AddrVReg(SlotOf(i), k) # v
        BY <1>7, <2>4
      <4> QED BY <4>1 DEF Address
    <3>3. ASSUME NEW q \in 1 .. n, y = pos[q], code'[y] = code[q] PROVE y = pos[h]
      <4>1. p < q /\ p \in Nat /\ q \in Nat
        BY <1>1, <1>2, <2>1, <3>1, <3>3 DEF n, m
      <4>2. ASSUME NEW k \in p + 1 .. q - 1 PROVE code[k].def # v
        <5>1. k \in 1 .. n /\ p < k /\ k < q
          BY <1>1, <4>1 DEF n
        <5>2. pos[k] \in Nat /\ pos[p] < pos[k] /\ pos[k] < pos[q] /\ code'[pos[k]] = code[k]
          BY <1>2, <5>1 DEF n, m
        <5>3. pos[k] \in x + 1 .. y - 1
          BY <2>1, <2>5, <3>1, <3>3, <5>2
        <5> QED BY <3>1, <5>2, <5>3
      <4>3. q \in p + 1 .. n
        BY <1>1, <4>1 DEF n
      <4>4. q \in ReachedUses(p)
        BY <3>1, <3>3, <4>2, <4>3 DEF ReachedUses, n
      <4> QED BY <2>3, <3>3, <4>4
    <3>4. ASSUME NEW i \in Spilled, After(pos, y, i), code'[y] = StoreOf(i) PROVE FALSE
      <4>1. 0 \in 0 .. MaxNo
        BY <1>1
      <4>2. code[i].def = v
        BY <3>1, <3>2, <3>4, <4>1, InsertedFacts
      <4>3. i \in 1 .. n /\ p <= i /\ i # p
        BY <1>3, <2>1, <4>2
      <4>4. p < i
        BY <1>1, <4>3 DEF n
      <4>5. pos[p] < pos[i] /\ pos[i] < y /\ pos[i] \in Nat /\ code'[pos[i]] = code[i]
        BY <1>2, <3>4, <4>3, <4>4 DEF After, n, m
      <4>6. pos[i] \in x + 1 .. y - 1
        BY <2>1, <2>5, <3>1, <4>5
      <4> QED BY <3>1, <4>2, <4>5, <4>6
    <3>5. ASSUME NEW i, NEW k, code'[y] = AddressOf(i, k) PROVE FALSE
      BY <3>1, <3>5, InsertedFacts
    <3>6. ASSUME NEW i \in Spilled, NEW k \in 1 .. n, code'[y] = ReloadOf(i, k) PROVE FALSE
      <4>1. k \in 0 .. MaxNo
        BY <1>1 DEF n
      <4> QED BY <3>1, <3>2, <3>6, <4>1, InsertedFacts
    <3> QED BY <1>8, <3>1, <3>3, <3>4, <3>5, <3>6
  <2> QED BY <2>5, <2>6, <2>8, <2>9
\* Nothing comes between two conditional moves.
<1>21. ASSUME NEW x \in 1 .. m PROVE BothMoves(x)'
  <2> SUFFICES ASSUME code'[x].op = "first"
               PROVE  /\ x + 1 \in 1 .. m /\ code'[x + 1].op = "op"
                      /\ code'[x + 1].def = code'[x].def /\ code'[x + 1].uses = {}
    BY DEF BothMoves, m
  <2>1. PICK p \in 1 .. n : x = pos[p] /\ code'[x] = code[p] /\ code[p].op = "first"
    BY <1>18 DEF Selected
  <2>2. BothMoves(p)
    BY <1>4
  <2>3. /\ p + 1 \in 1 .. n /\ code[p + 1].op = "op" /\ code[p + 1].def = code[p].def
        /\ code[p + 1].uses = {} /\ p \in Nat
    BY <1>1, <2>1, <2>2 DEF BothMoves, n
  <2> DEFINE z == pos[p + 1]
  <2>4. z \in 1 .. m /\ code'[z] = code[p + 1] /\ x < z /\ x \in Nat /\ z \in Nat
    <3>1. p < p + 1
      BY <2>3
    <3> QED BY <1>2, <2>1, <2>3, <3>1 DEF n, m
  <2>5. ASSUME x + 1 # z PROVE FALSE
    <3> DEFINE y == x + 1
    <3>1. y \in 1 .. m /\ x < y /\ y < z /\ y \in Nat
      BY <1>1, <2>4, <2>5 DEF m
    <3> HIDE DEF y, z
    <3>2. ASSUME NEW q \in 1 .. n, y = pos[q] PROVE FALSE
      <4>1. p < q /\ q < p + 1 /\ q \in Nat
        BY <1>1, <1>2, <2>1, <2>3, <3>1, <3>2 DEF n, m, z
      <4> QED BY <2>3, <4>1
    <3>3. ASSUME NEW q \in 1 .. n, NEW i \in Spilled, q \in ReachedUses(i), Before(pos, y, q) PROVE FALSE
      <4>1. y < pos[q] /\ \A k \in 1 .. q - 1 : pos[k] < y
        BY <3>3 DEF Before
      <4>2. pos[q] \in Nat /\ q \in Nat
        BY <1>1, <1>2 DEF n, m
      <4>3. p < q
        <5>1. pos[p] < pos[q]
          BY <2>1, <2>4, <3>1, <4>1, <4>2
        <5> QED BY <1>2, <5>1 DEF n, m
      <4>4. q = p + 1
        <5>1. ASSUME p + 1 < q PROVE FALSE
          <6>1. p + 1 \in 1 .. q - 1
            BY <2>3, <4>2, <5>1
          <6> QED BY <2>4, <3>1, <4>1, <6>1 DEF z
        <5> QED BY <2>3, <4>2, <4>3, <5>1
      <4>5. code[q].uses # {}
        BY <3>3 DEF ReachedUses
      <4> QED BY <2>3, <4>4, <4>5
    <3>4. ASSUME NEW i \in Spilled, After(pos, y, i) PROVE FALSE
      <4>1. i \in 1 .. n /\ pos[i] < y /\ \A q \in i + 1 .. n : y < pos[q]
        BY <1>3, <3>4 DEF After, n
      <4>2. pos[i] \in Nat /\ i \in Nat
        BY <1>1, <1>2, <4>1 DEF n, m
      <4>3. ~(i < p)
        <5>1. ASSUME i < p PROVE FALSE
          <6>1. p \in i + 1 .. n
            BY <1>1, <2>3, <4>2, <5>1 DEF n
          <6> QED BY <2>1, <2>4, <3>1, <4>1, <6>1
        <5> QED BY <5>1
      <4>4. i # p
        BY <1>3, <2>1
      <4>5. i < p + 1
        <5>1. pos[i] < pos[p + 1]
          BY <2>4, <3>1, <4>1, <4>2 DEF z
        <5> QED BY <1>2, <2>3, <4>1, <5>1 DEF n, m
      <4> QED BY <2>3, <4>2, <4>3, <4>4, <4>5
    <3> QED BY <1>8, <3>1, <3>2, <3>3, <3>4
  <2> QED BY <2>1, <2>3, <2>4, <2>5
<1>22. ASSUME NEW x \in 1 .. m PROVE IsLast(x)'
  <2> SUFFICES ASSUME NEW y \in 1 .. m, code'[x].op = "op", Selected(y)', code'[y].def = code'[x].def,
                      code'[x].def # NoVReg
               PROVE  y <= x
    BY DEF IsLast, m
  <2>1. PICK p \in 1 .. n : x = pos[p] /\ code'[x] = code[p] /\ code[p].op = "op"
    BY <1>18 DEF Selected
  <2>2. PICK q \in 1 .. n : y = pos[q] /\ code'[y] = code[q] /\ Selected(q)
    BY <1>18
  <2>3. q <= p
    <3>1. IsLast(p)
      BY <1>4
    <3> QED BY <2>1, <2>2, <3>1 DEF IsLast, n
  <2>4. q = p \/ q < p
    BY <1>1, <2>3 DEF n
  <2> QED BY <1>1, <1>2, <2>1, <2>2, <2>4 DEF n, m
<1>23. ASSUME NEW x \in 1 .. m PROVE SpillLast(x)'
  <2> SUFFICES ASSUME code'[x].op \in {"ldr", "str"}, NEW y \in 1 .. m, Selected(y)',
                      code'[y].def \in VReg \cap ({code'[x].def} \cup code'[x].uses)
               PROVE  y < x
    BY DEF SpillLast, m
  <2>1. PICK q \in 1 .. n : y = pos[q] /\ code'[y] = code[q] /\ Selected(q)
    BY <1>18
  <2> DEFINE v == code'[y].def
  <2>2. v \in VReg /\ v # NoVReg /\ v = code[q].def
    BY <1>6, <2>1
  <2>3. ASSUME NEW i \in Spilled, NEW k \in 0 .. MaxNo PROVE v \notin Address(i, k)
    <3>1. AddrVReg(SlotOf(i), k) # v
      BY <1>7, <2>2
    <3> QED BY <3>1 DEF Address
  <2>4. ASSUME NEW i \in Spilled, code[i].def = v, pos[i] < x PROVE y < x
    <3>1. q <= i /\ i \in 1 .. n
      BY <1>3, <2>1, <2>4
    <3>2. q = i \/ q < i
      BY <1>1, <3>1 DEF n
    <3>3. y <= pos[i] /\ pos[i] \in Nat /\ y \in Nat /\ x \in Nat
      BY <1>1, <1>2, <2>1, <3>1, <3>2 DEF n, m
    <3> QED BY <2>4, <3>3
  <2>5. ASSUME NEW p \in 1 .. n, x = pos[p], code'[x] = code[p] PROVE y < x
    <3>1. SpillLast(p)
      BY <1>4
    <3>2. q < p
      BY <2>1, <2>5, <3>1 DEF SpillLast, n
    <3> QED BY <1>2, <2>1, <2>5, <3>2 DEF n, m
  <2>6. ASSUME NEW p \in 1 .. n, NEW i \in Spilled, p \in ReachedUses(i), Before(pos, x, p),
               code'[x] = ReloadOf(i, p)
        PROVE  y < x
    <3>1. p \in 0 .. MaxNo
      BY <1>1 DEF n
    <3>2. code[i].def = v
      BY <2>3, <2>6, <3>1, InsertedFacts
    <3>3. i \in 1 .. p - 1
      BY <1>1, <1>3, <2>6 DEF ReachedUses, n
    <3> QED BY <2>4, <2>6, <3>2, <3>3 DEF Before
  <2>7. ASSUME NEW i \in Spilled, After(pos, x, i), code'[x] = StoreOf(i) PROVE y < x
    <3>1. 0 \in 0 .. MaxNo
      BY <1>1
    <3>2. code[i].def = v
      BY <2>2, <2>3, <2>7, <3>1, InsertedFacts
    <3> QED BY <2>4, <2>7, <3>2 DEF After
  <2>8. ASSUME NEW i, NEW p, code'[x] = AddressOf(i, p) PROVE FALSE
    BY <2>8, InsertedFacts
  <2> QED BY <1>8, <2>5, <2>6, <2>7, <2>8
<1>24. ASSUME NEW x \in 1 .. m PROVE ReloadUsed(x)'
  <2> SUFFICES ASSUME code'[x].op = "ldr" PROVE ReachedUses(x)' # {}
    BY DEF ReloadUsed
  <2>1. CASE \E p \in 1 .. n : x = pos[p] /\ code'[x] = code[p]
    <3>1. PICK p \in 1 .. n : x = pos[p] /\ code'[x] = code[p]
      BY <2>1
    <3> DEFINE v == code[p].def
    <3>2. ReloadUsed(p) /\ KindRight(code[p], spilledVRegs, frame) /\ code[p].op = "ldr"
      BY <1>4, <3>1
    <3>3. PICK q : q \in ReachedUses(p)
      BY <3>2 DEF ReloadUsed
    <3>4. /\ q \in p + 1 .. n /\ v \in code[q].uses /\ \A k \in p + 1 .. q - 1 : code[k].def # v
          /\ v \in VReg /\ v \in spilledVRegs
      BY <1>4, <3>2, <3>3 DEF ReachedUses, KindRight, n
    <3>5. q \in 1 .. n /\ p < q
      BY <1>1, <3>4 DEF n
    <3>6. pos[q] \in 1 .. m /\ code'[pos[q]] = code[q] /\ x < pos[q] /\ x \in Nat /\ pos[q] \in Nat
      BY <1>2, <3>1, <3>5 DEF n, m
    <3>7. ASSUME NEW y \in x + 1 .. pos[q] - 1, code'[y].def = v PROVE FALSE
      <4>1. y \in 1 .. m /\ pos[p] < y /\ y < pos[q]
        <5>1. x < y /\ y < pos[q] /\ y \in Int
          BY <3>6
        <5>2. pos[q] <= m /\ 1 <= x
          BY <1>1, <3>6
        <5>3. y \in 1 .. m
          BY <1>1, <3>6, <5>1, <5>2
        <5> QED BY <3>1, <5>1, <5>3
      <4>2. PICK i \in Spilled : code[i].def = v
        BY <1>19, <3>4, <3>5, <3>7, <4>1
      <4> QED BY <1>3, <3>4, <4>2
    <3>8. pos[q] \in x + 1 .. m /\ code'[x].def = v /\ v \in code'[pos[q]].uses
      BY <1>1, <3>1, <3>4, <3>6 DEF m
    <3>9. pos[q] \in ReachedUses(x)'
      BY <3>7, <3>8 DEF ReachedUses, m
    <3> QED BY <3>9
  <2>2. CASE \E p \in 1 .. n : \E i \in Spilled :
               p \in ReachedUses(i) /\ Before(pos, x, p) /\ code'[x] = ReloadOf(i, p)
    <3>1. PICK p \in 1 .. n : \E i \in Spilled :
               p \in ReachedUses(i) /\ Before(pos, x, p) /\ code'[x] = ReloadOf(i, p)
      BY <2>2
    <3>2. PICK i \in Spilled : p \in ReachedUses(i) /\ Before(pos, x, p) /\ code'[x] = ReloadOf(i, p)
      BY <3>1
    <3> DEFINE v == code[i].def
    <3>3. /\ v \in code[p].uses /\ i \in 1 .. n /\ i < p /\ v \in VReg /\ v # NoVReg /\ code[i].op = "op"
          /\ p \in Nat /\ i \in Nat
      BY <1>1, <1>3, <1>6, <3>2 DEF ReachedUses, n
    <3>4. pos[p] \in 1 .. m /\ code'[pos[p]] = code[p] /\ x < pos[p] /\ x \in Nat /\ pos[p] \in Nat
      BY <1>1, <1>2, <3>2 DEF Before, n, m
    <3>5. ASSUME NEW y \in x + 1 .. pos[p] - 1, code'[y].def = v PROVE FALSE
      <4>1. y \in 1 .. m /\ x < y /\ y < pos[p]
        BY <1>1, <3>4 DEF m
      <4>2. Before(pos, y, p)
        <5>1. ASSUME NEW k \in 1 .. p - 1 PROVE pos[k] < y
          <6>1. k \in 1 .. n
            BY <1>1, <3>3 DEF n
          <6>2. pos[k] < x /\ pos[k] \in Nat
            BY <1>2, <3>2, <6>1 DEF Before, n, m
          <6> QED BY <3>4, <4>1, <6>2
        <5> QED BY <4>1, <5>1 DEF Before
      <4>3. pos[i] < y /\ i \in 1 .. p - 1
        BY <3>3, <4>2 DEF Before
      <4>4. \A k \in i + 1 .. p - 1 : code[k].def # v
        BY <3>2 DEF ReachedUses
      <4>5. PICK j \in Spilled : /\ code[j].def = v
                                 /\ \E k \in ReachedUses(j) :
                                      /\ i < k /\ k <= p /\ k \in 1 .. n
                                      /\ Before(pos, y, k) /\ code'[y] = ReloadOf(j, k)
        BY <1>19, <3>3, <3>5, <4>1, <4>3, <4>4
      <4>6. PICK k \in ReachedUses(j) : /\ i < k /\ k <= p /\ k \in 1 .. n
                                        /\ Before(pos, y, k) /\ code'[y] = ReloadOf(j, k)
        BY <4>5
      <4>7. j = i
        <5>1. j \in 1 .. n /\ code[j].op = "op"
          BY <1>3
        <5> QED BY <1>3, <4>5, <5>1
      <4>8. k = p
        <5>1. ASSUME k < p PROVE FALSE
          <6>1. k \in Nat
            BY <1>1, <4>6 DEF n
          <6>2. k \in 1 .. p - 1
            BY <3>3, <4>6, <5>1, <6>1
          <6>3. pos[k] < y /\ y < pos[k] /\ pos[k] \in Nat /\ y \in Nat
            BY <1>1, <1>2, <4>1, <4>2, <4>6, <6>2 DEF Before, n, m
          <6> QED BY <6>3
        <5>2. k \in Nat
          BY <1>1, <4>6 DEF n
        <5> QED BY <3>3, <4>6, <5>1, <5>2
      <4>9. x = y
        BY <3>2, <4>1, <4>6, <4>7, <4>8 DEF Placed, m
      <4> QED BY <3>4, <4>1, <4>9
    <3>6. pos[p] \in x + 1 .. m /\ code'[x].def = v /\ v \in code'[pos[p]].uses
      BY <1>1, <3>2, <3>3, <3>4, InsertedFacts DEF m
    <3>7. pos[p] \in ReachedUses(x)'
      BY <3>5, <3>6 DEF ReachedUses, m
    <3> QED BY <3>7
  <2>3. ASSUME NEW i, NEW p, code'[x] = AddressOf(i, p) \/ code'[x] = StoreOf(i) PROVE FALSE
    BY <2>3, InsertedFacts
  <2> QED BY <1>8, <2>1, <2>2, <2>3
<1>25. spilledVRegs' \subseteq VReg
  BY <1>4
<1> QED BY <1>12, <1>17, <1>20, <1>21, <1>22, <1>23, <1>24, <1>25 DEF SpillShape, m

\* Nor does a stuttering step touch the invariant.
LEMMA InvUnchanged ==
  ASSUME RAInv, UNCHANGED vars
  PROVE  RAInv'
<1>1. UNCHANGED scanVars /\ UNCHANGED <<code, frame, spilledVRegs, phase>> /\ CodeTypeOK
  BY DEF vars, RAInv
<1>2. RAInv /\ [Next]_scanVars
  BY <1>1
<1>3. TypeOK'
  BY <1>2, TypeStep DEF RAInv
<1>4. /\ Defining' = Defining /\ CodeTypeOK' /\ \A p : ReachedUses(p)' = ReachedUses(p) /\ Parent(p)' = Parent(p)
  BY <1>1, SameCode DEF CodeTypeOK
<1>5. Finished'
  BY <1>1, <1>2, <1>4 DEF scanVars, RAInv, Finished
<1>6. RoundInv => ScanInv' /\ NoRegisterLost' /\ FailureSpills'
  BY <1>2, InvStep, PoolStep, FailureStep DEF RAInv, RoundInv
<1>7. RoundInv => RangesRight' /\ VisitedHold' /\ SpilledDefine'
  BY <1>1, <1>4 DEF scanVars, RoundInv, RangesRight, VisitedHold, SpilledDefine
<1>8. RoundInv => RoundInv'
  BY <1>1, <1>4, <1>6, <1>7 DEF scanVars, RoundInv
<1> QED BY <1>1, <1>2, <1>3, <1>4, <1>5, <1>8 DEF RAInv

-----------------------------------------------------------------------------
LEMMA ShapeRewritten ==
  ASSUME SpillInv, GenSpillCode
  PROVE  SpillInv'
<1>1. RAInv /\ TypeOK /\ CodeTypeOK /\ CodeRight /\ SpillShape /\ SpillsFresh
  BY DEF SpillInv, RAInv
<1>2. /\ phase = "scan" /\ phase' = "intervals"
      /\ code' = FlattenSeq([p \in 1 .. Len(code) |-> Expand(p)])
      /\ frame' = frame + Cardinality(Spilled)
      /\ spilledVRegs' = spilledVRegs \cup {code[i].def : i \in Spilled}
  BY DEF GenSpillCode
<1>3. OnlyFresh
  <2>1. Spilled \subseteq Interval /\ \A i \in Spilled : spill[i]
    BY <1>1, CodeFacts DEF Spilled
  <2> QED BY <1>1, <1>2, <2>1 DEF SpillsFresh, OnlyFresh
<1>4. RAInv' /\ CodeRight' /\ CodeTypeOK'
  BY <1>1, <1>3, InvGenSpillCode DEF RAInv
<1>5. PICK pos : Placed(code', pos)
  <2>1. Len(code) >= 1
    BY <1>1, <1>2 DEF CodeTypeOK
  <2> QED BY <1>1, <1>2, <1>3, <2>1, NewPlaced
<1>6. SpillShape'
  BY <1>1, <1>2, <1>3, <1>4, <1>5, ShapeKept
<1> QED BY <1>2, <1>4, <1>6 DEF SpillInv, SpillsFresh, Selecting

LEMMA Spilling == RASpec => []SpillInv
<1>1. ASSUME SpillInv, [RANext]_vars PROVE SpillInv'
  <2>1. CASE Select
    BY <1>1, <2>1, SelectShape
  <2>2. CASE GenSpillCode
    BY <1>1, <2>2, ShapeRewritten
  <2>3. CASE ~Select /\ ~GenSpillCode
    <3>1. RAInv /\ SpillShape
      BY <1>1 DEF SpillInv
    <3>2. SpillShape' /\ SpillsFresh' /\ Selecting' /\ CodeRight'
      BY <1>1, <2>3, FreshStep
    <3>3. RAInv'
      <4>1. CASE UNCHANGED vars
        BY <3>1, <4>1, InvUnchanged
      <4>2. CASE ~(UNCHANGED vars)
        BY <1>1, <2>3, <3>1, <4>2, InvCompute, InvScan, InvModify DEF RANext
      <4> QED BY <4>1, <4>2
    <3> QED BY <3>2, <3>3 DEF SpillInv
  <2> QED BY <2>1, <2>2, <2>3
<1>2. SpillInv /\ [RANext]_vars => SpillInv'
  BY <1>1
<1> QED BY <1>2, InvStart, PTL DEF RASpec

\* What is shown of one scan holds in every round: until a scan
\* gives up, intervals that interfere hold different registers.
THEOREM RoundsNeverShare == RASpec => [](phase \in {"scan", "done"} => NoSharing)
<1>1. SpillInv => (phase \in {"scan", "done"} => NoSharing)
  BY DEF SpillInv, RAInv, RoundInv, ScanInv
<1> QED BY <1>1, Spilling, PTL

\* genSpillCode always has something to spill: no round rewrites the code into
\* itself, which would be repeated for ever.
THEOREM RoundsSpill == RASpec => [][GenSpillCode => Spilled # {}]_vars
<1>1. SpillInv /\ GenSpillCode => Spilled # {}
  BY DEF SpillInv, RAInv, RoundInv, GenSpillCode, FailureSpills, SpilledDefine, Spilled
<1>2. SpillInv /\ [RANext]_vars => [GenSpillCode => Spilled # {}]_vars
  BY <1>1
<1> QED BY <1>2, Spilling, PTL DEF RASpec

\* The prologue and the epilogue save and restore every register of 4 .. 10
\* that the finished code writes, whichever round gave it out.
THEOREM WritesAreSaved == RASpec => []WrittenRegsAreSaved
<1>1. ASSUME SpillInv, phase = "done", NEW p \in 1 .. Len(code), code[p].def # NoVReg
      PROVE  rreg[Named(p)] \in savedRegs
  <2>1. Named(p) \in Defining
    <3>1. CASE code[p].op = "first"
      <4>1. p + 1 \in 1 .. Len(code) /\ code[p + 1].op = "op" /\ code[p + 1].def # NoVReg
        BY <1>1, <3>1 DEF SpillInv, SpillShape, BothMoves
      <4> QED BY <3>1, <4>1 DEF Named, Defining
    <3>2. CASE code[p].op # "first"
      BY <1>1, <3>2 DEF Named, Defining
    <3> QED BY <3>1, <3>2
  <2> QED BY <1>1, <2>1 DEF SpillInv, RAInv, Finished
<1>2. SpillInv => WrittenRegsAreSaved
  BY <1>1 DEF WrittenRegsAreSaved
<1> QED BY <1>2, Spilling, PTL

\* The reloads and stores of spill code are never what a later scan gives up:
\* no register gets a second stack slot, and no operand that the next
\* instruction has too is stored behind that one.
THEOREM SpilledOnce == RASpec => []SpilledOnlyOnce
<1>1. SpillInv => SpilledOnlyOnce
  <2> SUFFICES ASSUME SpillInv, phase = "scan", NEW i \in Defining, spill[i]
               PROVE  code[i].def \notin spilledVRegs /\ code[i].op # "pass"
    BY DEF SpilledOnlyOnce
  <2>1. i \in Interval
    BY CodeFacts DEF SpillInv, RAInv
  <2>2. FreshDef(i)
    BY <2>1 DEF SpillInv, SpillsFresh
  <2> QED BY <2>2 DEF FreshDef
<1> QED BY <1>1, Spilling, PTL

\* Every round of the while loop of allocateRegisters that fails leaves fewer
\* registers to spill: there are at most as many as the selected code has.
THEOREM RoundsAreFew ==
  RASpec => [][GenSpillCode => /\ Cardinality(VReg \ spilledVRegs) \in Nat
                               /\ Cardinality(VReg \ spilledVRegs') < Cardinality(VReg \ spilledVRegs)]_vars
<1>1. ASSUME SpillInv, GenSpillCode
      PROVE  /\ Cardinality(VReg \ spilledVRegs) \in Nat
             /\ Cardinality(VReg \ spilledVRegs') < Cardinality(VReg \ spilledVRegs)
  <2> DEFINE left == VReg \ spilledVRegs
  <2>1. Spilled # {} /\ Spilled \subseteq Interval
    BY <1>1, CodeFacts
       DEF SpillInv, RAInv, RoundInv, GenSpillCode, FailureSpills, SpilledDefine, Spilled, Defining
  <2>2. PICK i \in Spilled : code[i].def \in left
    <3>1. PICK i \in Spilled : TRUE
      BY <2>1
    <3>2. FreshDef(i)
      BY <1>1, <2>1, <3>1 DEF SpillInv, SpillsFresh, GenSpillCode, Spilled
    <3> QED BY <3>2 DEF FreshDef
  <2>3. spilledVRegs' = spilledVRegs \cup {code[k].def : k \in Spilled}
    BY <1>1 DEF GenSpillCode
  <2>4. VReg \ spilledVRegs' \in SUBSET left /\ VReg \ spilledVRegs' # left
    BY <2>2, <2>3
  <2>5. IsFiniteSet(left)
    <3>1. IsFiniteSet(VReg)
      <4>1. 1 \in Int /\ Length \in Int
        BY LengthAssumption
      <4> QED BY <4>1, FS_Interval DEF VReg
    <3> QED BY <3>1, FS_Subset
  <2> DEFINE remain == VReg \ spilledVRegs'
  <2>6. remain \in SUBSET left /\ remain # left
    BY <2>4
  <2> HIDE DEF left, remain
  <2>7. IsFiniteSet(remain) /\ Cardinality(remain) <= Cardinality(left) /\ Cardinality(remain) # Cardinality(left)
    BY <2>5, <2>6, FS_Subset
  <2>8. Cardinality(remain) \in Nat /\ Cardinality(left) \in Nat
    BY <2>5, <2>7, FS_CardinalityType
  <2>9. Cardinality(remain) < Cardinality(left)
    BY <2>7, <2>8
  <2> QED BY <2>8, <2>9 DEF left, remain
<1>2. SpillInv /\ [RANext]_vars =>
        [GenSpillCode => /\ Cardinality(VReg \ spilledVRegs) \in Nat
                         /\ Cardinality(VReg \ spilledVRegs') < Cardinality(VReg \ spilledVRegs)]_vars
  BY <1>1
<1> QED BY <1>2, Spilling, PTL DEF RASpec

-----------------------------------------------------------------------------
(***************************************************************************)
(* The finished code.  Between a definition and a use it reaches nobody    *)
(* else writes its register, for that would be interference with a range   *)
(* that holds the same register; so every operand finds what its           *)
(* definition computed, and a reload what was stored.                      *)
(***************************************************************************)
LEMMA LastFacts ==
  ASSUME NEW m \in Nat, NEW S \in SUBSET (1 .. m)
  PROVE  /\ LastOf(S) = 0 <=> S = {}
         /\ S # {} => LastOf(S) \in S /\ \A y \in S : y <= LastOf(S)
<1>1. CASE S = {}
  BY <1>1 DEF LastOf
<1>2. CASE S # {}
  <2>1. PICK e : e \in S
    BY <1>2
  <2>2. S \subseteq -1 .. m
    OBVIOUS
  <2>3. MaxOf(S) \in S /\ \A y \in S : y <= MaxOf(S)
    BY <2>1, <2>2, Greatest
  <2>4. LastOf(S) = MaxOf(S)
    BY <1>2 DEF LastOf
  <2>5. LastOf(S) # 0
    BY <2>3, <2>4
  <2> QED BY <1>2, <2>3, <2>4, <2>5
<1> QED BY <1>1, <1>2

\* The code is finished, and its slots are near.
NearlyDone == SpillInv /\ phase = "done" /\ frame <= NearSlots

\* The definition that reaches a use, and its range.
LEMMA ReachesUse ==
  ASSUME NearlyDone, NEW p \in 1 .. Len(code), NEW v \in code[p].uses
  PROVE  LET d == ReachingDef(p, v)
         IN  /\ d \in Defining /\ d \in 1 .. p - 1 /\ code[d].def = v /\ v \in VReg
             /\ p \in ReachedUses(d)
             /\ \A k \in d + 1 .. p - 1 : code[k].def # v
<1> DEFINE n == Len(code)
           d == ReachingDef(p, v)
           Defs == {q \in 1 .. p - 1 : code[q].def = v}
<1>1. /\ n \in Nat /\ CodeTypeOK /\ SpillShape
      /\ NearShape(code[p], frame) /\ DefinedBefore(p)
  BY CodeFacts DEF NearlyDone, SpillInv, RAInv, CodeRight
<1>2. v \in VReg /\ v # NoVReg
  BY <1>1 DEF NearShape, VReg, NoVReg
<1>3. Defs # {} /\ Defs \in SUBSET (1 .. n)
  BY <1>1 DEF DefinedBefore
<1>4. d \in Defs /\ \A y \in Defs : y <= d
  <2>1. d = LastOf(Defs)
    BY DEF ReachingDef
  <2> HIDE DEF Defs, d
  <2> QED BY <1>1, <1>3, <2>1, LastFacts
<1>5. d \in 1 .. p - 1 /\ d \in 1 .. n /\ code[d].def = v
  BY <1>1, <1>4
<1>6. \A k \in d + 1 .. p - 1 : code[k].def # v
  <2> SUFFICES ASSUME NEW k \in d + 1 .. p - 1, code[k].def = v PROVE FALSE
    OBVIOUS
  <2>1. k \in Defs /\ k > d
    BY <1>5
  <2> HIDE DEF Defs, d
  <2> QED BY <1>4, <1>5, <2>1
<1> HIDE DEF d, Defs
<1>7. code[d].op # "first"
  <2> SUFFICES ASSUME code[d].op = "first" PROVE FALSE
    OBVIOUS
  <2>1. code[d + 1].def = v /\ code[d + 1].uses = {}
    BY <1>1, <1>5 DEF SpillShape, BothMoves
  <2>2. d + 1 = p \/ d + 1 \in d + 1 .. p - 1
    BY <1>5
  <2> QED BY <1>6, <2>1, <2>2
<1>8. d \in Defining
  BY <1>2, <1>5, <1>7 DEF Defining
<1>9. p \in ReachedUses(d)
  BY <1>1, <1>5, <1>6 DEF ReachedUses
<1> QED BY <1>2, <1>5, <1>6, <1>8, <1>9 DEF d

\* Until the use nobody else writes the register of the definition.
LEMMA HoldsUntilUse ==
  ASSUME NearlyDone, NEW d \in Defining, NEW p \in ReachedUses(d),
         NEW k \in Defining, d < k, k < p
  PROVE  rreg[k] # rreg[d]
<1> DEFINE n == Len(code)
<1>1. /\ n \in Nat /\ Defining \subseteq 1 .. n /\ Defining \subseteq Interval
      /\ CodeTypeOK /\ SpillShape /\ RoundInv /\ todo = {} /\ flag
      /\ NearShape(code[k], frame)
  BY CodeFacts DEF NearlyDone, SpillInv, RAInv, Finished, CodeRight
<1>2. d \in 1 .. n /\ k \in 1 .. n /\ p \in d + 1 .. n /\ p \in 1 .. n
  BY <1>1 DEF ReachedUses
<1>3. /\ start[d] = Parent(d) /\ end[d] = MaxOf({NoUse} \cup ReachedUses(d))
      /\ start[k] = Parent(k) /\ end[k] = MaxOf({NoUse} \cup ReachedUses(k))
  BY <1>1 DEF RoundInv, RangesRight
<1>4. end[d] \in d + 1 .. n /\ p <= end[d]
  <2>1. p <= end[d] /\ (end[d] = NoUse \/ end[d] \in d + 1 .. n)
    BY <1>1, <1>3, EndOfRange
  <2> QED BY <1>2, <2>1 DEF NoUse
<1>5. ~Quiet(p)
  BY <1>1, <1>2, QuietUnused
<1>6. Interferes(d, k)
  <2>1. CASE code[d].op # "pass"
    <3>1. start[d] = d
      BY <1>1, <1>2, <1>3, <2>1, ParentFacts
    <3>2. start[k] \in k .. p
      <4>1. CASE code[k].op # "pass"
        <5>1. start[k] = k
          BY <1>1, <1>2, <1>3, <4>1, ParentFacts
        <5> QED BY <1>2, <5>1
      <4>2. CASE code[k].op = "pass"
        <5>1. Parent(k) \in 1 .. n /\ k <= Parent(k) /\ Close(k, Parent(k))
          BY <1>1, <1>2, <4>2, ParentFacts
        <5>2. ~(p < Parent(k))
          BY <1>2, <1>5, <5>1 DEF Close
        <5> QED BY <1>2, <1>3, <5>1, <5>2
      <4> QED BY <4>1, <4>2
    <3>3. start[d] <= start[k] /\ start[k] <= end[d] /\ start[k] # start[d]
      BY <1>2, <1>4, <3>1, <3>2
    <3> QED BY <3>3 DEF Interferes, WrittenDuring
  <2>2. CASE code[d].op = "pass"
    <3>1. Close(d, Parent(d)) /\ p = Parent(d)
      BY <1>1, <1>2, <2>2, ParentFacts
    <3>2. Quiet(k)
      BY <1>2, <3>1 DEF Close
    <3>3. code[k].op = "ldr"
      BY <1>1, <3>2 DEF Quiet, NearShape
    <3>4. start[k] = k
      BY <1>1, <1>2, <1>3, <3>3, ParentFacts
    <3>5. PICK q \in ReachedUses(k) : TRUE
      BY <1>1, <1>2, <3>3 DEF SpillShape, ReloadUsed
    <3>6. q \in k + 1 .. n /\ ~Quiet(q)
      <4>1. q \in k + 1 .. n
        BY DEF ReachedUses
      <4>2. q \in 1 .. n
        BY <1>2, <4>1
      <4> QED BY <1>1, <4>1, <4>2, QuietUnused
    <3>7. p <= q
      BY <1>2, <3>1, <3>6 DEF Close
    <3>8. q <= end[k] /\ (end[k] = NoUse \/ end[k] \in k + 1 .. n)
      BY <1>1, <1>3, EndOfRange
    <3>9. start[k] <= start[d] /\ start[d] <= end[k] /\ start[k] # start[d]
      BY <1>2, <1>3, <3>1, <3>4, <3>6, <3>7, <3>8 DEF NoUse
    <3> QED BY <3>9 DEF Interferes, WrittenDuring
  <2> QED BY <2>1, <2>2
<1>7. d \in Visited /\ k \in Visited /\ d # k
  BY <1>1, <1>2 DEF Visited
<1> QED BY <1>1, <1>6, <1>7 DEF RoundInv, ScanInv, NoSharing

\* The use at p of v reads what its definition wrote, or the conditional move
\* in front of it that defines the same operand.
LEMMA ReadsItsDefinition ==
  ASSUME NearlyDone, NEW T \in SUBSET Firsts,
         NEW p \in 1 .. Len(code), NEW v \in code[p].uses
  PROVE  LET d == ReachingDef(p, v)
             w == LastWriter(T, p, rreg[d])
         IN  /\ w \in 1 .. p - 1 /\ Named(w) = d /\ code[w].def # NoVReg
             /\ w # d => Selected(w) /\ Selected(d)
             /\ \A values : Read(T, values, p, v) = values[w]
<1> DEFINE n == Len(code)
           d == ReachingDef(p, v)
           r == rreg[d]
           Writers == {q \in 1 .. p - 1 : code[q].def # NoVReg /\ Executes(T, q) /\ rreg[Named(q)] = r}
           w == LastWriter(T, p, r)
<1>1. n \in Nat /\ CodeTypeOK /\ SpillShape /\ Defining \subseteq 1 .. n
  BY CodeFacts DEF NearlyDone, SpillInv, RAInv
<1>2. /\ d \in Defining /\ d \in 1 .. p - 1 /\ d \in 1 .. n /\ d # 0
      /\ p \in ReachedUses(d) /\ Named(d) = d /\ code[d].op # "first" /\ code[d].def # NoVReg
  BY <1>1, ReachesUse DEF Named, Defining
<1> HIDE DEF d
<1>3. PICK a : a \in Writers /\ d - 1 <= a /\ (Executes(T, d) => a = d)
  <2>1. CASE d - 1 \notin T
    <3>1. Executes(T, d)
      BY <1>2, <2>1 DEF Executes, Firsts
    <3> QED BY <1>2, <3>1
  <2>2. CASE d - 1 \in T
    <3>1. d - 1 \in 1 .. n /\ d - 1 \in Firsts /\ code[d - 1].op = "first"
      BY <2>2 DEF Firsts
    <3>2. Named(d - 1) = d /\ Executes(T, d - 1)
      BY <1>2, <2>2, <3>1 DEF Named, Executes
    <3>3. code[d - 1].def # NoVReg
      BY <1>1, <3>1 DEF SpillShape, KindRight
    <3>4. d - 1 \in 1 .. p - 1
      BY <1>2, <3>1
    <3>5. ~Executes(T, d)
      BY <1>2, <2>2 DEF Executes, Firsts
    <3> QED BY <1>2, <3>2, <3>3, <3>4, <3>5
  <2> QED BY <2>1, <2>2
<1>4. w \in Writers /\ a <= w
  <2>1. Writers \in SUBSET (1 .. n) /\ Writers # {}
    BY <1>1, <1>3
  <2>2. w = LastOf(Writers)
    BY DEF LastWriter
  <2> HIDE DEF Writers, w
  <2> QED BY <1>1, <1>3, <2>1, <2>2, LastFacts
<1> HIDE DEF w
<1>5. w \in 1 .. p - 1 /\ w \in 1 .. n /\ code[w].def # NoVReg /\ rreg[Named(w)] = rreg[d] /\ Executes(T, w)
  BY <1>1, <1>4
<1>6. Named(w) \in Defining /\ Named(w) < p /\ Named(w) \in {w, w + 1}
  <2>1. CASE code[w].op = "first"
    <3>1. /\ w + 1 \in 1 .. n /\ code[w + 1].op = "op"
          /\ code[w + 1].def = code[w].def /\ code[w + 1].uses = {}
      BY <1>1, <1>5, <2>1 DEF SpillShape, BothMoves
    <3>2. w + 1 # p
      BY <3>1
    <3> QED BY <1>5, <2>1, <3>1, <3>2 DEF Named, Defining
  <2>2. CASE code[w].op # "first"
    BY <1>5, <2>2 DEF Named, Defining
  <2> QED BY <2>1, <2>2
<1>7. ~(d < Named(w))
  <2> SUFFICES ASSUME d < Named(w) PROVE FALSE
    OBVIOUS
  <2>1. rreg[Named(w)] # rreg[d]
    BY <1>2, <1>6, HoldsUntilUse
  <2> QED BY <1>5, <2>1
<1>8. w = d \/ (w = d - 1 /\ ~Executes(T, d))
  <2>1. w <= d /\ (Executes(T, d) => a = d)
    BY <1>2, <1>3, <1>5, <1>6, <1>7
  <2>2. a \in 1 .. n
    BY <1>1, <1>3
  <2> QED BY <1>2, <1>3, <1>4, <1>5, <2>1, <2>2
<1>9. Named(w) = d /\ (w # d => Selected(w) /\ Selected(d))
  <2>1. CASE w = d
    BY <1>2, <2>1
  <2>2. CASE w # d
    <3>1. w = d - 1 /\ d - 1 \in T
      BY <1>2, <1>8, <2>2 DEF Executes, Firsts
    <3>2. code[w].op = "first"
      BY <3>1 DEF Firsts
    <3>3. Named(w) = d /\ code[d].op = "op"
      <4>1. w + 1 = d
        BY <1>2, <1>5, <3>1
      <4>2. code[w + 1].op = "op" /\ Named(w) = w + 1
        BY <1>1, <1>5, <3>2 DEF Named, SpillShape, BothMoves
      <4> QED BY <4>1, <4>2
    <3> QED BY <3>2, <3>3 DEF Selected
  <2> QED BY <2>1, <2>2
<1>10. \A values : Read(T, values, p, v) = values[w]
  BY <1>2, <1>5 DEF Read, d, w
<1> QED BY <1>5, <1>9, <1>10 DEF d, w

\* What each place gives to its register: the selected code its own place, a
\* reload what the selected code gave to the register last.
Given(q) == IF Selected(q) THEN Named(q) ELSE Origin(q, code[q].def)
GivenBefore(values, p) == \A q \in 1 .. p - 1 : code[q].def # NoVReg => values[q] = Given(q)

LEMMA SameOrigin ==
  ASSUME NEW p \in Nat, NEW s \in Nat, NEW v, s <= p,
         \A q \in s .. p - 1 : ~(Selected(q) /\ code[q].def = v)
  PROVE  Origin(p, v) = Origin(s, v)
<1>1. {q \in 1 .. p - 1 : Selected(q) /\ code[q].def = v} = {q \in 1 .. s - 1 : Selected(q) /\ code[q].def = v}
  OBVIOUS
<1> QED BY <1>1 DEF Origin

LEMMA ReadsOrigin ==
  ASSUME NearlyDone, NEW T \in SUBSET Firsts,
         NEW p \in 1 .. Len(code), NEW v \in code[p].uses,
         NEW values, GivenBefore(values, p)
  PROVE  Read(T, values, p, v) = Origin(p, v)
<1> DEFINE d == ReachingDef(p, v)
           w == LastWriter(T, p, rreg[d])
<1>1. /\ w \in 1 .. p - 1 /\ Named(w) = d /\ code[w].def # NoVReg
      /\ w # d => Selected(w) /\ Selected(d)
      /\ Read(T, values, p, v) = values[w]
  BY ReadsItsDefinition
<1>2. /\ d \in 1 .. p - 1 /\ code[d].def = v
      /\ \A k \in d + 1 .. p - 1 : code[k].def # v
  BY ReachesUse
<1>3. p \in Nat /\ Len(code) \in Nat
  BY CodeFacts DEF NearlyDone, SpillInv, RAInv
<1> HIDE DEF d, w
<1>4. Read(T, values, p, v) = Given(w)
  BY <1>1 DEF GivenBefore
<1>5. CASE Selected(d)
  <2>1. Given(w) = d
    BY <1>1, <1>5 DEF Given
  <2> DEFINE S == {q \in 1 .. p - 1 : Selected(q) /\ code[q].def = v}
  <2>2. d \in S /\ S \in SUBSET (1 .. p)
    BY <1>2, <1>3, <1>5
  <2>3. \A y \in S : y <= d
    <3> SUFFICES ASSUME NEW y \in S, y > d PROVE FALSE
      BY <1>2
    <3>1. y \in d + 1 .. p - 1 /\ code[y].def = v
      BY <1>2
    <3> QED BY <1>2, <3>1
  <2>4. Origin(p, v) = LastOf(S)
    BY DEF Origin
  <2>5. LastOf(S) \in S /\ d <= LastOf(S)
    <3> HIDE DEF S
    <3> QED BY <1>3, <2>2, LastFacts
  <2>6. LastOf(S) = d
    <3>1. LastOf(S) <= d /\ LastOf(S) \in Int
      BY <2>3, <2>5
    <3> HIDE DEF S
    <3> QED BY <1>2, <2>5, <3>1
  <2> QED BY <1>4, <2>1, <2>4, <2>6
<1>6. CASE ~Selected(d)
  <2>1. w = d /\ Given(w) = Origin(d, v)
    BY <1>1, <1>2, <1>6 DEF Given
  <2>2. \A q \in d .. p - 1 : ~(Selected(q) /\ code[q].def = v)
    BY <1>2, <1>6
  <2>3. Origin(p, v) = Origin(d, v)
    BY <1>2, <1>3, <2>2, SameOrigin
  <2> QED BY <1>4, <2>1, <2>3
<1> QED BY <1>5, <1>6

\* An instruction computes what it is to give when the ones before it did.
LEMMA ComputesItsValue ==
  ASSUME NearlyDone, NEW T \in SUBSET Firsts,
         NEW p \in 1 .. Len(code), code[p].def # NoVReg,
         NEW values, GivenBefore(values, p)
  PROVE  Computed(T, values, p) = Given(p)
<1>1. /\ Len(code) \in Nat /\ NearShape(code[p], frame) /\ LoadMatches(p) /\ SpillShape
      /\ \A q \in 1 .. Len(code) : code[q] \in Instruction
  BY CodeFacts DEF NearlyDone, SpillInv, RAInv, CodeRight
<1>2. CASE Selected(p)
  <2>1. code[p].op # "addr" /\ code[p].op # "ldr"
    BY <1>2 DEF Selected
  <2>2. Computed(T, values, p) = Named(p)
    BY <1>2, <2>1 DEF Computed
  <2> QED BY <1>2, <2>2 DEF Given
<1>3. CASE code[p].op = "ldr"
  <2> DEFINE slot == code[p].slot
             Stores == {q \in 1 .. p - 1 : code[q].op = "str" /\ code[q].slot = slot}
             s == LastStore(p, slot)
             v == code[p].def
  <2>1. Stores # {} /\ Stores \in SUBSET (1 .. Len(code))
    BY <1>1, <1>3 DEF LoadMatches, IsStore
  <2>2. s \in Stores
    <3>1. s = LastOf(Stores)
      BY DEF LastStore
    <3> HIDE DEF Stores, s
    <3> QED BY <1>1, <2>1, <3>1, LastFacts
  <2>3. s \in 1 .. Len(code) /\ s < p /\ s # 0 /\ IsStore(s, slot)
    BY <1>1, <2>2 DEF IsStore
  <2> HIDE DEF s
  <2>4. code[s].uses = {v} /\ code[s].op = "str"
    BY <1>1, <1>3, <2>3 DEF LoadMatches, IsStore
  <2>5. v \in VReg /\ code[p].uses = {}
    BY <1>1, <1>3 DEF NearShape
  <2>6. Read(T, values, s, v) = Origin(s, v)
    <3>1. GivenBefore(values, s)
      BY <2>3 DEF GivenBefore
    <3> QED BY <2>3, <2>4, <3>1, ReadsOrigin
  <2>7. Origin(p, v) = Origin(s, v)
    <3>1. \A q \in 1 .. Len(code) : Selected(q) /\ code[q].def = v => q < s
      BY <1>1, <2>3, <2>4, <2>5 DEF SpillShape, SpillLast
    <3>2. ASSUME NEW q \in s .. p - 1, Selected(q), code[q].def = v PROVE FALSE
      <4>1. q \in 1 .. Len(code) /\ ~(q < s)
        BY <1>1, <2>3
      <4> QED BY <3>1, <3>2, <4>1
    <3> QED BY <2>3, <3>2, SameOrigin
  <2>8. ~Selected(p)
    BY <1>3 DEF Selected
  <2>9. (CHOOSE u \in code[s].uses : u \in VReg) = v
    BY <2>4, <2>5
  <2>10. code[s].uses \ VReg = {}
    BY <2>4, <2>5
  <2>11. Computed(T, values, p) = Origin(p, v)
    BY <1>3, <2>3, <2>5, <2>6, <2>7, <2>8, <2>9, <2>10 DEF Computed, s
  <2> QED BY <2>8, <2>11 DEF Given
<1>4. code[p].op # "str"
  BY <1>1 DEF NearShape
<1> QED BY <1>1, <1>2, <1>3, <1>4 DEF NearShape, Selected

\* What an instruction computes depends on what the places before it that
\* define something computed, and on nothing else.
LEMMA DependsOnDefinitions ==
  ASSUME CodeTypeOK, NEW T, NEW f, NEW g,
         \A q \in 1 .. Len(code) : code[q].def # NoVReg => f[q] = g[q]
  PROVE  \A p \in 1 .. Len(code) : Computed(T, f, p) = Computed(T, g, p)
<1>0. Len(code) \in Nat
  BY CodeFacts
<1>1. ASSUME NEW p \in 0 .. Len(code), NEW r, LastWriter(T, p, r) # 0
      PROVE  LastWriter(T, p, r) \in 1 .. Len(code) /\ code[LastWriter(T, p, r)].def # NoVReg
  <2> DEFINE Writers ==
        {q \in 1 .. p - 1 : code[q].def # NoVReg /\ Executes(T, q) /\ rreg[Named(q)] = r}
  <2>1. Writers \in SUBSET (1 .. Len(code)) /\ \A q \in Writers : code[q].def # NoVReg
    BY <1>0
  <2>2. LastWriter(T, p, r) = LastOf(Writers)
    BY DEF LastWriter
  <2> HIDE DEF Writers
  <2>3. LastOf(Writers) \in Writers
    BY <1>0, <1>1, <2>1, <2>2, LastFacts
  <2> QED BY <2>1, <2>2, <2>3
<1>2. ASSUME NEW p \in 0 .. Len(code), NEW v PROVE Read(T, f, p, v) = Read(T, g, p, v)
  <2> DEFINE w == LastWriter(T, p, rreg[ReachingDef(p, v)])
  <2>1. w = 0 \/ f[w] = g[w]
    BY <1>1
  <2> QED BY <2>1 DEF Read
<1>3. ASSUME NEW p \in 1 .. Len(code), NEW slot PROVE LastStore(p, slot) \in 0 .. Len(code)
  <2> DEFINE Stores == {q \in 1 .. p - 1 : code[q].op = "str" /\ code[q].slot = slot}
  <2>1. Stores \in SUBSET (1 .. Len(code))
    BY <1>0
  <2>2. LastStore(p, slot) = LastOf(Stores)
    BY DEF LastStore
  <2> HIDE DEF Stores
  <2>3. LastOf(Stores) = 0 \/ LastOf(Stores) \in Stores
    BY <1>0, <2>1, LastFacts
  <2>4. 0 \in 0 .. Len(code) /\ Stores \subseteq 0 .. Len(code)
    BY <1>0, <2>1
  <2> QED BY <2>2, <2>3, <2>4
<1> SUFFICES ASSUME NEW p \in 1 .. Len(code) PROVE Computed(T, f, p) = Computed(T, g, p)
  OBVIOUS
<1> DEFINE s == LastStore(p, code[p].slot)
<1>4. s \in 0 .. Len(code) /\ p \in 0 .. Len(code)
  BY <1>0, <1>3
<1>5. \A v : Read(T, f, p, v) = Read(T, g, p, v) /\ Read(T, f, s, v) = Read(T, g, s, v)
  BY <1>2, <1>4
<1> QED BY <1>5 DEF Computed

LEMMA ValueIs ==
  ASSUME NearlyDone, NEW T \in SUBSET Firsts
  PROVE  \A p \in 1 .. Len(code) : code[p].def # NoVReg => Values(T)[p] = Given(p)
<1> DEFINE n == Len(code)
           Path(f) == f = [p \in 1 .. n |-> Computed(T, f, p)]
<1>1. CodeTypeOK /\ n \in Nat
  BY CodeFacts DEF NearlyDone, SpillInv, RAInv
<1>2. \E f : Path(f)
  <2> DEFINE h == [p \in 1 .. n |-> IF code[p].def # NoVReg THEN Given(p) ELSE Garbage]
             g == [p \in 1 .. n |-> Computed(T, h, p)]
  <2>1. \A q \in 1 .. n : code[q].def # NoVReg => h[q] = Given(q)
    OBVIOUS
  <2> HIDE DEF h
  <2>2. ASSUME NEW q \in 1 .. n, code[q].def # NoVReg PROVE g[q] = h[q]
    <3>1. GivenBefore(h, q)
      BY <1>1, <2>1 DEF GivenBefore
    <3>2. Computed(T, h, q) = Given(q)
      BY <2>2, <3>1, ComputesItsValue
    <3> QED BY <2>1, <2>2, <3>2
  <2>3. g = [p \in 1 .. n |-> Computed(T, h, p)]
    OBVIOUS
  <2> HIDE DEF g
  <2>4. \A p \in 1 .. n : Computed(T, g, p) = Computed(T, h, p)
    BY <1>1, <2>2, DependsOnDefinitions
  <2>5. Path(g)
    BY <2>3, <2>4
  <2> QED BY <2>5
<1>3. Values(T) = CHOOSE f : Path(f)
  BY DEF Values
<1>4. Path(Values(T))
  <2> HIDE DEF Path
  <2> QED BY <1>2, <1>3
<1> DEFINE value == Values(T)
<1>5. \A p \in 1 .. n : value[p] = Computed(T, value, p)
  BY <1>4
<1> HIDE DEF value
<1> DEFINE S == {k \in 0 .. n : \A q \in 1 .. n : q <= k /\ code[q].def # NoVReg => value[q] = Given(q)}
<1>6. 0 \in S
  BY <1>1
<1>7. ASSUME NEW k \in 0 .. n, k < n, k \in S PROVE k + 1 \in S
  <2> SUFFICES ASSUME NEW q \in 1 .. n, q <= k + 1, code[q].def # NoVReg PROVE value[q] = Given(q)
    BY <1>1, <1>7
  <2>1. GivenBefore(value, q)
    <3> SUFFICES ASSUME NEW o \in 1 .. q - 1, code[o].def # NoVReg PROVE value[o] = Given(o)
      BY DEF GivenBefore
    <3>1. o \in 1 .. n /\ o <= k
      BY <1>1
    <3> QED BY <1>7, <3>1
  <2>2. Computed(T, value, q) = Given(q)
    BY <2>1, ComputesItsValue
  <2> QED BY <1>5, <2>2
<1>8. n \in S
  <2>1. \A k \in 0 .. n : k < n /\ k \in S => k + 1 \in S
    BY <1>7
  <2>2. n \in 0 .. n /\ n \in Nat
    BY <1>1
  <2> HIDE DEF S, n
  <2> QED BY <1>6, <2>1, <2>2, CountingUp
<1> QED BY <1>1, <1>8 DEF value

\* Whatever was spilled, reloaded, spilled again and shared on the way, and
\* whichever conditional moves execute: in the finished code every operand of
\* the selected instructions reads the value its register was given last, as
\* long as every slot is near.
THEOREM OperandsKeepTheirValues == RASpec => []ValuesPreserved
<1>1. SpillInv => ValuesPreserved
  <2> SUFFICES ASSUME NearlyDone, NEW T \in SUBSET Firsts,
                      NEW p \in 1 .. Len(code), NEW v \in code[p].uses
               PROVE  Read(T, Values(T), p, v) = Origin(p, v)
    BY DEF ValuesPreserved, NearlyDone
  <2>1. GivenBefore(Values(T), p)
    <3>1. \A q \in 1 .. p - 1 : q \in 1 .. Len(code)
      BY CodeFacts DEF NearlyDone, SpillInv, RAInv
    <3> QED BY <3>1, ValueIs DEF GivenBefore
  <2> QED BY <2>1, ReadsOrigin
<1> QED BY <1>1, Spilling, PTL

=============================================================================

------------------------- MODULE RegisterAssignment -------------------------
(***************************************************************************)
(* What a register allocator promises its caller, whatever its strategy:   *)
(* intervals get registers one after another, a register once given is     *)
(* kept, intervals in conflict never get the same one, and giving up is    *)
(* allowed only when registers really are too few.  After that nothing is  *)
(* promised: the caller throws the assignment away.                        *)
(***************************************************************************)
CONSTANTS
  Interval,   \* who wants a register
  Register,   \* what there is to give
  None        \* no register yet

VARIABLES
  conflict,   \* the pairs of intervals that may not share a register
  crowded,    \* somewhere more registers are needed than there are
  assigned,   \* the register of each interval
  ok          \* the allocator has not given up

vars == <<conflict, crowded, assigned, ok>>

Init ==
  /\ conflict \in SUBSET {p \in Interval \X Interval : p[1] # p[2]}
  /\ crowded \in BOOLEAN
  /\ assigned = [i \in Interval |-> None]
  /\ ok = TRUE

InConflict(i, j) == <<i, j>> \in conflict \/ <<j, i>> \in conflict

Assign(i, r) ==
  /\ ok /\ assigned[i] = None
  /\ \A j \in Interval : InConflict(i, j) => assigned[j] # r
  /\ assigned' = [assigned EXCEPT ![i] = r]
  /\ UNCHANGED <<conflict, crowded, ok>>

GiveUp ==
  /\ ok /\ crowded
  /\ ok' = FALSE
  /\ UNCHANGED <<conflict, crowded>>

\* The rest of a scan that failed.
GivenUp ==
  /\ ~ok /\ ~ok'
  /\ UNCHANGED <<conflict, crowded>>

Next == GiveUp \/ GivenUp \/ \E i \in Interval, r \in Register : Assign(i, r)

Spec == Init /\ [][Next]_vars

-----------------------------------------------------------------------------
\* What modifyCode relies on: no two intervals in conflict hold one register.
Proper ==
  ok => \A i, j \in Interval :
          InConflict(i, j) /\ assigned[i] # None => assigned[i] # assigned[j]

=============================================================================

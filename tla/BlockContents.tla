--------------------------- MODULE BlockContents ----------------------------
(***************************************************************************)
(* What the instruction list of a basic block promises: it is a sequence.  *)
(* An instruction is put at one end of one block, once, and whatever is    *)
(* taken out leaves the others where they were.                            *)
(***************************************************************************)
EXTENDS Naturals, SequencesExt

CONSTANT Block

VARIABLE contents

Everywhere(lists) == UNION {ToSet(lists[b]) : b \in Block}

Init == contents = [b \in Block |-> <<>>]

InsertFront(old, new, b) ==
  /\ new[b] # <<>> /\ Head(new[b]) \notin Everywhere(old)
  /\ new = [old EXCEPT ![b] = <<Head(new[b])>> \o @]

InsertBack(old, new, b) ==
  /\ new[b] # <<>> /\ Last(new[b]) \notin Everywhere(old)
  /\ new = [old EXCEPT ![b] = Append(@, Last(new[b]))]

InOrderOf(list, i, j) == \E k, l \in DOMAIN list : k < l /\ list[k] = i /\ list[l] = j

TakeOut(old, new) ==
  \A b \in Block :
    /\ ToSet(new[b]) \subseteq ToSet(old[b])
    /\ \A k \in 1 .. Len(new[b]) - 1 : InOrderOf(old[b], new[b][k], new[b][k + 1])

\* (Sets of one element, so that TLC evaluates the lists once.)
Next ==
  \E old \in {contents}, new \in {contents'} :
    \/ TakeOut(old, new)
    \/ \E b \in Block : InsertFront(old, new, b) \/ InsertBack(old, new, b)

Spec == Init /\ [][Next]_contents

=============================================================================

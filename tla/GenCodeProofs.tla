--------------------------- MODULE GenCodeProofs ----------------------------
(***************************************************************************)
(* What code generation guarantees.  For every set of syntax trees: a      *)
(* condition that is still in use names placeholders of its own, and the   *)
(* linked graph is the code of the cleaned blocks.  For every expression:  *)
(* the instructions selected for it compute what its tree says.            *)
(***************************************************************************)
EXTENDS ControlFlow, InstructionSelection, Stepwise

-----------------------------------------------------------------------------
(***************************************************************************)
(* Types: instructions and tasks of a function of n blocks.                *)
(***************************************************************************)
Ids ==
  {s.id : s \in {s \in Statements : s.k \in {"assign", "assignNot"}}}
    \cup {c.id : c \in {c \in Conditions : c.k = "leaf"}}

Instructions(n) ==
  [op : {"do", "eval"}, id : Ids] \cup [op : {"cond"}, to : 1 .. n, other : 1 .. n]
    \cup [op : {"br"}, to : 1 .. n] \cup [op : {"ret"}]

Tasks(n) ==
  [t : {"stmt"}, s : Statements] \cup [t : {"cond"}, c : Conditions]
    \cup [t : {"store"}, id : Ids]
    \cup [t : {"branch"}, yes : 1 .. n, no : 1 .. n]
    \cup [t : {"jump"}, to : 1 .. n, next : 1 .. n]
    \cup [t : {"loop"}, yes : 1 .. n, no : 1 .. n, s : Statements]
    \cup [t : {"left"}, op : {"and", "or"}, bb : 1 .. n]
    \cup [t : {"right"}, op : {"and", "or"}]

AllPlaces == Nat \X Nat

GenTypeOK ==
  /\ agenda \in Seq(Tasks(Len(blocks)))
  /\ blocks \in Seq(Seq(Instructions(Len(blocks))))
  /\ insertBB \in 1 .. Len(blocks)
  /\ lists \in Seq([t : SUBSET AllPlaces, f : SUBSET AllPlaces])
  /\ linked \in 0 .. Len(blocks)

(***************************************************************************)
(* What a task takes from "lists" and gives back, and the lists there are  *)
(* whenever a task's turn comes.                                           *)
(***************************************************************************)
Takes(task) ==
  IF task.t = "right" THEN 2
  ELSE IF task.t \in {"store", "branch", "loop", "left"} THEN 1 ELSE 0
Gives(task) == IF task.t \in {"cond", "left", "right"} THEN 1 ELSE 0

Heights(tasks, h) ==
  /\ h \in [1 .. Len(tasks) + 1 -> Nat]
  /\ \A i \in 1 .. Len(tasks) :
       h[i] >= Takes(tasks[i]) /\ h[i + 1] + Takes(tasks[i]) = h[i] + Gives(tasks[i])

\* From "before" lists, the tasks come to "after" lists.
Balance(tasks, before, after) ==
  \E h : Heights(tasks, h) /\ h[1] = before /\ h[Len(tasks) + 1] = after

Balanced == Balance(agenda, Len(lists), 0)

(***************************************************************************)
(* A place whose branch is not decided: it goes to a placeholder of its    *)
(* own, which no task names.                                               *)
(***************************************************************************)
Named(task) ==
  CASE task.t \in {"branch", "loop"} -> {task.yes, task.no}
    [] task.t = "jump" -> {task.to, task.next}
    [] task.t = "left" -> {task.bb}
    [] OTHER -> {}

Branches(inst) == inst.op \in {"br", "cond"}
At(p) == blocks[p[1]][p[2]]

Undecided(p) ==
  /\ p[1] \in Blocks /\ p[2] \in DOMAIN blocks[p[1]]
  /\ Branches(At(p))
  /\ blocks[At(p).to] = <<>> /\ At(p).to # insertBB
  /\ \A b \in Blocks : \A i \in DOMAIN blocks[b] :
       /\ Branches(blocks[b][i]) /\ <<b, i>> # p => blocks[b][i].to # At(p).to
       /\ blocks[b][i].op = "cond" => blocks[b][i].other # At(p).to
  /\ \A i \in DOMAIN agenda : At(p).to \notin Named(agenda[i])

ListedBy(n) == lists[n].t \cup lists[n].f

ListsApart ==
  \A n \in DOMAIN lists :
    /\ lists[n].t \cap lists[n].f = {}
    /\ \A m \in DOMAIN lists : m # n => ListedBy(m) \cap ListedBy(n) = {}

ListsUndecided == \A n \in DOMAIN lists : \A p \in ListedBy(n) : Undecided(p)

(***************************************************************************)
(* Linking: what holds of the blocks that are linked.                      *)
(***************************************************************************)
EndsOnce(insts) ==
  \A i \in DOMAIN insts : (IsTerminator(insts[i]) \/ ~NotCond(insts[i])) <=> i = Len(insts)

Linking ==
  /\ agenda # <<>> => linked = 0
  /\ Len(succs) = linked /\ succs \in Seq(SUBSET Nat)
  /\ \A b \in 1 .. linked : EndsOnce(blocks[b]) /\ succs[b] = Targets(blocks[b])
  /\ IF linked = 0 THEN preds = <<>>
     ELSE preds = [x \in Blocks |-> {a \in 1 .. linked : x \in succs[a]}]

GenInv == GenTypeOK /\ Balanced /\ ListsApart /\ ListsUndecided /\ Linking
-----------------------------------------------------------------------------
(***************************************************************************)
(* Types grow with the number of blocks; what the agenda becomes.          *)
(***************************************************************************)
LEMMA MoreBlocks ==
  ASSUME NEW m \in Nat, NEW n \in Nat, m <= n
  PROVE  /\ 1 .. m \subseteq 1 .. n
         /\ Instructions(m) \subseteq Instructions(n)
         /\ Tasks(m) \subseteq Tasks(n)
<1>1. 1 .. m \subseteq 1 .. n
  OBVIOUS
<1>2. Instructions(m) \subseteq Instructions(n)
  <2> HIDE DEF Ids
  <2> QED BY <1>1 DEF Instructions
<1>3. Tasks(m) \subseteq Tasks(n)
  <2> HIDE DEF Ids
  <2> QED BY <1>1 DEF Tasks
<1> QED BY <1>1, <1>2, <1>3

LEMMA SeqOfMore ==
  ASSUME NEW S, NEW T, S \subseteq T, NEW s \in Seq(S)
  PROVE  s \in Seq(T)
OBVIOUS

LEMMA SeqOfSeqs ==
  ASSUME NEW S, NEW s \in Seq(Seq(S))
  PROVE  /\ DOMAIN s = 1 .. Len(s) /\ Len(s) \in Nat
         /\ \A b \in DOMAIN s : /\ s[b] \in Seq(S) /\ Len(s[b]) \in Nat /\ DOMAIN s[b] = 1 .. Len(s[b])
                               /\ \A i \in DOMAIN s[b] : s[b][i] \in S
OBVIOUS

LEMMA Joined ==
  ASSUME NEW S, NEW s \in Seq(S), NEW t \in Seq(S)
  PROVE  /\ s \o t \in Seq(S) /\ Len(s \o t) = Len(s) + Len(t) /\ Len(s) \in Nat /\ Len(t) \in Nat
         /\ \A i \in 1 .. Len(s) : (s \o t)[i] = s[i]
         /\ \A i \in Len(s) + 1 .. Len(s) + Len(t) : (s \o t)[i] = t[i - Len(s)]
OBVIOUS

LEMMA AgendaGoesOn ==
  ASSUME NEW T, NEW old \in Seq(T), old # <<>>, NEW tasks \in Seq(T)
  PROVE  LET new == tasks \o Tail(old)
         IN  /\ new \in Seq(T) /\ Len(new) = Len(tasks) + Len(old) - 1
             /\ \A i \in 1 .. Len(new) :
                  \/ i \in 1 .. Len(tasks) /\ new[i] = tasks[i]
                  \/ /\ i > Len(tasks) /\ i - Len(tasks) + 1 \in 2 .. Len(old)
                     /\ new[i] = old[i - Len(tasks) + 1]
<1> DEFINE new == tasks \o Tail(old)
           n == Len(tasks)
<1>1. Tail(old) \in Seq(T) /\ Len(Tail(old)) = Len(old) - 1 /\ n \in Nat /\ Len(old) \in Nat
  OBVIOUS
<1>2. new \in Seq(T) /\ Len(new) = n + Len(old) - 1
  BY <1>1
<1>3. ASSUME NEW i \in 1 .. Len(new)
      PROVE  \/ i \in 1 .. n /\ new[i] = tasks[i]
             \/ /\ i > n /\ i - n + 1 \in 2 .. Len(old)
                /\ new[i] = old[i - n + 1]
  <2>1. CASE i <= n
    BY <1>1, <1>2, <2>1
  <2>2. CASE i > n
    <3>1. i - n \in 1 .. Len(Tail(old)) /\ i - n + 1 \in 2 .. Len(old)
      BY <1>1, <1>2, <2>2
    <3>2. new[i] = Tail(old)[i - n]
      BY <1>1, <1>2, <2>2, <3>1
    <3>3. Tail(old)[i - n] = old[i - n + 1]
      BY <1>1, <3>1
    <3> QED BY <2>2, <3>1, <3>2, <3>3
  <2> QED BY <1>1, <1>2, <2>1, <2>2
<1> QED BY <1>2, <1>3

\* The first task was done, "tasks" are to be done in its place.
LEMMA BalanceGoesOn ==
  ASSUME NEW T, NEW old \in Seq(T), old # <<>>, NEW tasks \in Seq(T),
         NEW a, NEW b, Balance(old, a, b),
         NEW c, NEW d, Balance(tasks, c, d), d + Takes(old[1]) = a + Gives(old[1])
  PROVE  Balance(tasks \o Tail(old), c, b)
<1>1. PICK h : Heights(old, h) /\ h[1] = a /\ h[Len(old) + 1] = b
  BY DEF Balance
<1>2. PICK g : Heights(tasks, g) /\ g[1] = c /\ g[Len(tasks) + 1] = d
  BY DEF Balance
<1> DEFINE n == Len(tasks)
           m == Len(old)
           seq == tasks \o Tail(old)
           new == [i \in 1 .. Len(seq) + 1 |-> IF i <= n THEN g[i] ELSE h[i - n + 1]]
<1>3. n \in Nat /\ m \in Nat /\ m >= 1 /\ Len(seq) = n + m - 1 /\ Len(seq) \in Nat
  BY AgendaGoesOn
<1>4. \A i \in 1 .. Len(seq) :
        \/ i \in 1 .. n /\ seq[i] = tasks[i]
        \/ i > n /\ i - n + 1 \in 2 .. m /\ seq[i] = old[i - n + 1]
  BY AgendaGoesOn
<1>5. /\ h \in [1 .. m + 1 -> Nat] /\ g \in [1 .. n + 1 -> Nat]
      /\ \A i \in 1 .. m : h[i] >= Takes(old[i]) /\ h[i + 1] + Takes(old[i]) = h[i] + Gives(old[i])
      /\ \A i \in 1 .. n : g[i] >= Takes(tasks[i]) /\ g[i + 1] + Takes(tasks[i]) = g[i] + Gives(tasks[i])
  BY <1>1, <1>2 DEF Heights
<1>6. g[n + 1] = h[2]
  <2>1. 1 \in 1 .. m /\ 2 \in 1 .. m + 1 /\ n + 1 \in 1 .. n + 1
    BY <1>3
  <2>2. h[1 + 1] + Takes(old[1]) = h[1] + Gives(old[1]) /\ h[2] \in Nat /\ g[n + 1] \in Nat
    BY <1>5, <2>1
  <2>3. Takes(old[1]) \in Nat
    BY DEF Takes
  <2> QED BY <1>1, <1>2, <2>2, <2>3
<1> HIDE DEF n, m, seq
<1>7. new \in [1 .. Len(seq) + 1 -> Nat]
  BY <1>3, <1>5
<1>8. \A i \in 1 .. n + 1 : i \in 1 .. Len(seq) + 1 /\ new[i] = g[i]
  <2> SUFFICES ASSUME NEW i \in 1 .. n + 1 PROVE i \in 1 .. Len(seq) + 1 /\ new[i] = g[i]
    OBVIOUS
  <2>1. i \in 1 .. Len(seq) + 1
    BY <1>3
  <2>2. CASE i <= n
    BY <2>1, <2>2
  <2>3. CASE i > n
    <3>1. i = n + 1 /\ i - n + 1 = 2
      BY <1>3, <2>3
    <3> QED BY <1>3, <1>6, <2>1, <3>1
  <2> QED BY <1>3, <2>2, <2>3
<1>9. \A i \in 1 .. Len(seq) + 1 : i > n => new[i] = h[i - n + 1]
  BY <1>3
<1>10. ASSUME NEW i \in 1 .. Len(seq)
      PROVE  new[i] >= Takes(seq[i]) /\ new[i + 1] + Takes(seq[i]) = new[i] + Gives(seq[i])
  <2>0. i \in 1 .. Len(seq) + 1 /\ i + 1 \in 1 .. Len(seq) + 1
    BY <1>3
  <2> HIDE DEF new
  <2>1. CASE i \in 1 .. n /\ seq[i] = tasks[i]
    <3>1. i \in 1 .. n + 1 /\ i + 1 \in 1 .. n + 1
      BY <1>3, <2>1
    <3> QED BY <1>5, <1>8, <2>1, <3>1
  <2>2. CASE i > n /\ i - n + 1 \in 2 .. m /\ seq[i] = old[i - n + 1]
    <3>1. i - n + 1 \in 1 .. m /\ (i + 1) - n + 1 = (i - n + 1) + 1 /\ i + 1 > n
      BY <1>3, <2>2
    <3>2. new[i] = h[i - n + 1] /\ new[i + 1] = h[(i - n + 1) + 1]
      BY <1>9, <2>0, <2>2, <3>1
    <3> QED BY <1>5, <2>2, <3>1, <3>2
  <2> QED BY <1>4, <2>1, <2>2
<1>11. Heights(seq, new)
  BY <1>7, <1>10 DEF Heights
<1> HIDE DEF new
<1>12. new[1] = g[1]
  <2>1. 1 \in 1 .. n + 1
    BY <1>3
  <2> QED BY <1>8, <2>1
<1>13. new[Len(seq) + 1] = h[m + 1]
  <2> DEFINE e == Len(seq) + 1
  <2>1. e \in 1 .. Len(seq) + 1 /\ e > n /\ e - n + 1 = m + 1
    BY <1>3
  <2> HIDE DEF e
  <2>2. new[e] = h[e - n + 1]
    BY <1>9, <2>1
  <2> QED BY <2>1, <2>2 DEF e
<1> QED BY <1>1, <1>2, <1>11, <1>12, <1>13 DEF seq, m, Balance

-----------------------------------------------------------------------------
(***************************************************************************)
(* Blocks that nobody waits for: where code goes, what tasks name, and     *)
(* blocks to come.  A step adds branches to those only, so that a place    *)
(* that stays as it is stays undecided.                                    *)
(***************************************************************************)
Settled ==
  {x \in Nat : x > Len(blocks)} \cup {insertBB} \cup UNION {Named(agenda[i]) : i \in DOMAIN agenda}

Had(b, i) == b \in Blocks /\ i \in DOMAIN blocks[b]
Grown(bs) ==
  /\ Len(blocks) <= Len(bs)
  /\ \A b \in Blocks : blocks[b] = <<>> /\ b \notin Settled => bs[b] = <<>>
  /\ \A b \in DOMAIN bs : \A i \in DOMAIN bs[b] :
       \/ Had(b, i) /\ bs[b][i] = blocks[b][i]
       \/ /\ Branches(bs[b][i]) => bs[b][i].to \in Settled
          /\ bs[b][i].op = "cond" =>
               \/ bs[b][i].other \in Settled
               \/ Had(b, i) /\ blocks[b][i].op = "cond" /\ bs[b][i].other = blocks[b][i].other

LEMMA BranchTypes ==
  ASSUME NEW n \in Nat, NEW inst \in Instructions(n)
  PROVE  /\ Branches(inst) => inst.to \in 1 .. n
         /\ inst.op = "cond" => Branches(inst) /\ inst.other \in 1 .. n
  BY DEF Branches, Instructions

LEMMA BlockFacts ==
  ASSUME GenTypeOK
  PROVE  /\ Len(blocks) \in Nat /\ Blocks = 1 .. Len(blocks)
         /\ \A b \in Blocks : /\ blocks[b] \in Seq(Instructions(Len(blocks)))
                               /\ Len(blocks[b]) \in Nat /\ DOMAIN blocks[b] = 1 .. Len(blocks[b])
         /\ \A b \in Blocks : \A i \in DOMAIN blocks[b] : blocks[b][i] \in Instructions(Len(blocks))
         /\ Len(agenda) \in Nat /\ DOMAIN agenda = 1 .. Len(agenda)
         /\ Len(lists) \in Nat /\ DOMAIN lists = 1 .. Len(lists)
         /\ insertBB \in Blocks
<1> DEFINE T == Instructions(Len(blocks))
<1>1. blocks \in Seq(Seq(T))
  BY DEF GenTypeOK
<1>2. Len(blocks) \in Nat /\ Blocks = 1 .. Len(blocks)
  BY <1>1 DEF Blocks
<1>3. \A b \in Blocks : blocks[b] \in Seq(T)
  BY <1>1, <1>2
<1> HIDE DEF T
<1>4. \A b \in Blocks : /\ Len(blocks[b]) \in Nat /\ DOMAIN blocks[b] = 1 .. Len(blocks[b])
                        /\ \A i \in DOMAIN blocks[b] : blocks[b][i] \in T
  BY <1>3
<1>5. Len(agenda) \in Nat /\ DOMAIN agenda = 1 .. Len(agenda)
  BY DEF GenTypeOK
<1>6. Len(lists) \in Nat /\ DOMAIN lists = 1 .. Len(lists)
  BY DEF GenTypeOK
<1>7. insertBB \in Blocks
  BY <1>2 DEF GenTypeOK
<1> QED BY <1>2, <1>3, <1>4, <1>5, <1>6, <1>7 DEF T

LEMMA UndecidedFacts ==
  ASSUME GenTypeOK, NEW p, Undecided(p)
  PROVE  /\ p[1] \in Blocks /\ p[2] \in DOMAIN blocks[p[1]]
         /\ Branches(At(p)) /\ At(p).to \in Blocks /\ At(p).to \notin Settled
         /\ blocks[At(p).to] = <<>>
<1>1. p[1] \in Blocks /\ p[2] \in DOMAIN blocks[p[1]] /\ Branches(At(p))
  BY DEF Undecided
<1>2. At(p) \in Instructions(Len(blocks))
  BY <1>1, BlockFacts DEF At
<1>3. At(p).to \in 1 .. Len(blocks)
  BY <1>1, <1>2, BlockFacts, BranchTypes
<1>4. At(p).to # insertBB /\ \A i \in DOMAIN agenda : At(p).to \notin Named(agenda[i])
  BY DEF Undecided
<1>5. At(p).to \notin Settled
  BY <1>3, <1>4, BlockFacts DEF Settled
<1>6. blocks[At(p).to] = <<>>
  BY DEF Undecided
<1> QED BY <1>1, <1>3, <1>5, <1>6, BlockFacts

LEMMA Kept ==
  ASSUME GenTypeOK, NEW p, Undecided(p),
         NEW bs, bs = blocks', bs \in Seq(Seq(Instructions(Len(bs)))), Grown(bs),
         p[2] \in DOMAIN bs[p[1]], bs[p[1]][p[2]] = At(p), insertBB' \in Settled,
         \A i \in DOMAIN agenda' : Named(agenda'[i]) \subseteq Settled
  PROVE  Undecided(p)'
<1> DEFINE x == At(p).to
<1>1. /\ p[1] \in Blocks /\ p[2] \in DOMAIN blocks[p[1]] /\ Branches(At(p))
      /\ x \in Blocks /\ x \notin Settled /\ blocks[x] = <<>>
  BY UndecidedFacts
<1>2. \A b \in Blocks : \A i \in DOMAIN blocks[b] :
        /\ Branches(blocks[b][i]) /\ <<b, i>> # p => blocks[b][i].to # x
        /\ blocks[b][i].op = "cond" => blocks[b][i].other # x
  BY DEF Undecided
<1>3. At(p)' = At(p)
  BY DEF At
<1>4. p[1] \in DOMAIN bs
  BY <1>1, BlockFacts DEF Grown
<1>5. bs[x] = <<>> /\ insertBB' # x
  BY <1>1 DEF Grown
<1> HIDE DEF x
<1>6. ASSUME NEW b \in DOMAIN bs, NEW i \in DOMAIN bs[b]
      PROVE  /\ Branches(bs[b][i]) /\ <<b, i>> # p => bs[b][i].to # x
             /\ bs[b][i].op = "cond" => bs[b][i].other # x
  <2>1. CASE Had(b, i) /\ bs[b][i] = blocks[b][i]
    BY <1>2, <2>1 DEF Had
  <2>2. CASE ~(Had(b, i) /\ bs[b][i] = blocks[b][i])
    <3>1. /\ Branches(bs[b][i]) => bs[b][i].to \in Settled
          /\ bs[b][i].op = "cond" =>
               \/ bs[b][i].other \in Settled
               \/ Had(b, i) /\ blocks[b][i].op = "cond" /\ bs[b][i].other = blocks[b][i].other
      BY <2>2 DEF Grown
    <3> QED BY <1>1, <1>2, <3>1 DEF Had
  <2> QED BY <2>1, <2>2
<1>7. ASSUME NEW i \in DOMAIN agenda' PROVE x \notin Named(agenda'[i])
  BY <1>1
<1>8. \A i \in DOMAIN agenda' : x \notin Named(agenda[i])'
  BY <1>7 DEF Named
<1>9. Blocks' = DOMAIN bs
  BY DEF Blocks
<1> QED BY <1>1, <1>3, <1>4, <1>5, <1>6, <1>8, <1>9 DEF Undecided, x, Branches

\* Instructions at the end of the insert block, and k empty blocks.
Extended(bs, insts, k) ==
  /\ bs \in Seq(Seq(Instructions(Len(bs)))) /\ Len(bs) = Len(blocks) + k
  /\ \A b \in Blocks : bs[b] = IF b = insertBB THEN blocks[b] \o insts ELSE blocks[b]
  /\ \A b \in Len(blocks) + 1 .. Len(blocks) + k : bs[b] = <<>>

LEMMA Extends ==
  ASSUME GenTypeOK, NEW k \in Nat, NEW insts \in Seq(Instructions(Len(blocks) + k))
  PROVE  Extended(WithNew(Emit(blocks, insts), k), insts, k)
<1> DEFINE n == Len(blocks)
           T == Instructions(n + k)
           emitted == Emit(blocks, insts)
           new == [i \in 1 .. k |-> <<>>]
           bs == emitted \o new
<1>1. n \in Nat /\ n + k \in Nat /\ Blocks = 1 .. n /\ insertBB \in 1 .. n /\ blocks \in Seq(Seq(Instructions(n)))
  BY BlockFacts DEF GenTypeOK
<1>2. Instructions(n) \subseteq T
  BY <1>1, MoreBlocks
<1>3. blocks \in Seq(Seq(T)) /\ insts \in Seq(T)
  <2> HIDE DEF T
  <2>1. Seq(Instructions(n)) \subseteq Seq(T)
    BY <1>2, SeqOfMore
  <2>2. insts \in Seq(T)
    BY DEF T
  <2> QED BY <1>1, <2>1, <2>2, SeqOfMore
<1> HIDE DEF T, n
<1>4. blocks \in [1 .. n -> Seq(T)] /\ blocks[insertBB] \o insts \in Seq(T)
  BY <1>1, <1>3 DEF n
<1>5. /\ emitted \in Seq(Seq(T)) /\ Len(emitted) = n
      /\ \A b \in 1 .. n : emitted[b] = IF b = insertBB THEN blocks[b] \o insts ELSE blocks[b]
  <2>1. emitted = [b \in 1 .. n |-> IF b = insertBB THEN blocks[b] \o insts ELSE blocks[b]]
    BY <1>1, <1>4 DEF Emit
  <2>2. emitted \in [1 .. n -> Seq(T)]
    BY <1>4, <2>1
  <2> HIDE DEF emitted
  <2> QED BY <1>1, <2>1, <2>2
<1>6. new \in Seq(Seq(T)) /\ Len(new) = k
  <2>1. <<>> \in Seq(T)
    OBVIOUS
  <2> HIDE DEF T
  <2> QED BY <2>1
<1>7. \A i \in 1 .. k : new[i] = <<>>
  OBVIOUS
<1> HIDE DEF emitted, new
<1>8. /\ bs \in Seq(Seq(T)) /\ Len(bs) = n + k
      /\ \A b \in 1 .. n : bs[b] = emitted[b]
      /\ \A b \in n + 1 .. n + k : bs[b] = new[b - n]
  <2> DEFINE S == Seq(T)
  <2>1. emitted \in Seq(S) /\ new \in Seq(S)
    BY <1>5, <1>6
  <2> HIDE DEF S
  <2>2. /\ bs \in Seq(S) /\ Len(bs) = Len(emitted) + Len(new)
        /\ \A b \in 1 .. Len(emitted) : bs[b] = emitted[b]
        /\ \A b \in Len(emitted) + 1 .. Len(emitted) + Len(new) : bs[b] = new[b - Len(emitted)]
    BY <2>1, Joined
  <2> HIDE DEF bs
  <2> QED BY <1>5, <1>6, <2>2 DEF S
<1>9. ASSUME NEW b \in n + 1 .. n + k PROVE bs[b] = <<>>
  <2>1. bs[b] = new[b - n] /\ b - n \in 1 .. k
    BY <1>1, <1>8
  <2> QED BY <1>7, <2>1
<1>10. bs = WithNew(Emit(blocks, insts), k)
  BY DEF WithNew, emitted, new
<1> HIDE DEF bs
<1>11. Extended(bs, insts, k)
  BY <1>1, <1>5, <1>8, <1>9 DEF Extended, T, n
<1> QED BY <1>10, <1>11

LEMMA EmitOnly ==
  ASSUME GenTypeOK, NEW insts \in Seq(Instructions(Len(blocks)))
  PROVE  Extended(Emit(blocks, insts), insts, 0)
<1> DEFINE T == Instructions(Len(blocks))
           bs == Emit(blocks, insts)
<1>1. blocks \in [Blocks -> Seq(T)] /\ insertBB \in Blocks /\ Blocks = 1 .. Len(blocks) /\ Len(blocks) \in Nat
  BY BlockFacts DEF GenTypeOK
<1> HIDE DEF T
<1>2. bs = [b \in Blocks |-> IF b = insertBB THEN blocks[b] \o insts ELSE blocks[b]]
  BY <1>1 DEF Emit
<1>3. bs \in [Blocks -> Seq(T)]
  BY <1>1, <1>2 DEF T
<1> HIDE DEF bs
<1>4. bs \in Seq(Seq(T)) /\ Len(bs) = Len(blocks)
  BY <1>1, <1>3
<1>5. \A b \in Len(blocks) + 1 .. Len(blocks) + 0 : FALSE
  BY <1>1
<1>6. Extended(bs, insts, 0)
  BY <1>1, <1>2, <1>4, <1>5 DEF Extended, T
<1> QED BY <1>6 DEF bs

LEMMA NewOnly ==
  ASSUME GenTypeOK, NEW k \in Nat
  PROVE  Extended(WithNew(blocks, k), <<>>, k)
<1>1. <<>> \in Seq(Instructions(Len(blocks) + k))
  OBVIOUS
<1>2. Emit(blocks, <<>>) = blocks
  <2> DEFINE T == Instructions(Len(blocks))
  <2>1. blocks \in [Blocks -> Seq(T)] /\ insertBB \in Blocks
    BY BlockFacts DEF GenTypeOK
  <2> HIDE DEF T
  <2>2. blocks[insertBB] \o <<>> = blocks[insertBB]
    BY <2>1
  <2> QED BY <2>1, <2>2 DEF Emit
<1> QED BY <1>1, <1>2, Extends

LEMMA ExtendedGrows ==
  ASSUME GenTypeOK, NEW k \in Nat, NEW bs, NEW insts, insts \in Seq(Instructions(Len(bs))), Extended(bs, insts, k),
         \A i \in DOMAIN insts :
           /\ Branches(insts[i]) => insts[i].to \in Settled
           /\ insts[i].op = "cond" => insts[i].other \in Settled
  PROVE  /\ Grown(bs)
         /\ \A b \in Blocks : \A i \in DOMAIN blocks[b] : i \in DOMAIN bs[b] /\ bs[b][i] = blocks[b][i]
<1> DEFINE n == Len(blocks)
           T == Instructions(Len(bs))
<1>1. /\ n \in Nat /\ Blocks = 1 .. n /\ DOMAIN bs = 1 .. n + k /\ Len(bs) = n + k
      /\ \A b \in Blocks : bs[b] = IF b = insertBB THEN blocks[b] \o insts ELSE blocks[b]
      /\ \A b \in n + 1 .. n + k : bs[b] = <<>>
  BY BlockFacts DEF Extended
<1>2. \A b \in Blocks : blocks[b] \in Seq(T)
  <2>1. Instructions(n) \subseteq T
    BY <1>1, MoreBlocks
  <2> HIDE DEF T, n
  <2> QED BY <2>1, BlockFacts, SeqOfMore DEF n
<1>3. ASSUME NEW b \in Blocks, NEW i \in DOMAIN bs[b]
      PROVE  \/ i \in DOMAIN blocks[b] /\ bs[b][i] = blocks[b][i]
             \/ \E j \in DOMAIN insts : bs[b][i] = insts[j]
  <2>1. CASE b = insertBB
    <3>1. bs[b] = blocks[b] \o insts /\ blocks[b] \in Seq(T) /\ insts \in Seq(T)
      BY <1>1, <1>2, <2>1
    <3> HIDE DEF T
    <3>2. CASE i <= Len(blocks[b])
      BY <3>1, <3>2
    <3>3. CASE i > Len(blocks[b])
      <4>1. i - Len(blocks[b]) \in DOMAIN insts /\ bs[b][i] = insts[i - Len(blocks[b])]
        BY <3>1, <3>3
      <4> QED BY <4>1
    <3> QED BY <3>1, <3>2, <3>3
  <2>2. CASE b # insertBB
    BY <1>1, <2>2
  <2> QED BY <2>1, <2>2
<1>4. ASSUME NEW b \in Blocks, NEW i \in DOMAIN blocks[b]
      PROVE  i \in DOMAIN bs[b] /\ bs[b][i] = blocks[b][i]
  <2>1. CASE b = insertBB
    <3>1. bs[b] = blocks[b] \o insts /\ blocks[b] \in Seq(T) /\ insts \in Seq(T)
      BY <1>1, <1>2, <2>1
    <3> HIDE DEF T
    <3> QED BY <3>1
  <2>2. CASE b # insertBB
    BY <1>1, <2>2
  <2> QED BY <2>1, <2>2
<1>5. ASSUME NEW b \in DOMAIN bs, NEW i \in DOMAIN bs[b]
      PROVE  \/ Had(b, i) /\ bs[b][i] = blocks[b][i]
             \/ /\ Branches(bs[b][i]) => bs[b][i].to \in Settled
                /\ bs[b][i].op = "cond" => bs[b][i].other \in Settled
  <2>1. CASE b \in Blocks
    BY <1>3, <2>1 DEF Had
  <2>2. CASE b \notin Blocks
    <3>1. b \in n + 1 .. n + k
      BY <1>1, <2>2
    <3> QED BY <1>1, <3>1
  <2> QED BY <2>1, <2>2
<1>6. \A b \in Blocks : blocks[b] = <<>> /\ b \notin Settled => bs[b] = <<>>
  BY <1>1 DEF Settled
<1>7. Grown(bs)
  BY <1>1, <1>5, <1>6 DEF Grown
<1> QED BY <1>4, <1>7

\* The branches at some places go to x and y now.
Patched(bs, places, x, y) ==
  /\ bs \in Seq(Seq(Instructions(Len(bs)))) /\ Len(bs) = Len(blocks)
  /\ \A b \in Blocks : DOMAIN bs[b] = DOMAIN blocks[b]
  /\ \A b \in Blocks : \A i \in DOMAIN blocks[b] :
       IF <<b, i>> \in places
       THEN /\ bs[b][i].op = blocks[b][i].op /\ bs[b][i].to \in {x, y}
            /\ bs[b][i].op = "cond" => bs[b][i].other = blocks[b][i].other
       ELSE bs[b][i] = blocks[b][i]

\* All the places are branches, and now they go to x.
AreBranches(bs, places) ==
  \A b \in DOMAIN bs : \A i \in DOMAIN bs[b] : <<b, i>> \in places => Branches(bs[b][i])

GoTo(new, bs, places, x) ==
  /\ \A b \in DOMAIN bs : DOMAIN new[b] = DOMAIN bs[b]
  /\ \A b \in DOMAIN bs : \A i \in DOMAIN bs[b] :
       IF <<b, i>> \in places
       THEN /\ new[b][i].op = bs[b][i].op /\ new[b][i].to = x
            /\ new[b][i].op = "cond" => new[b][i].other = bs[b][i].other
       ELSE new[b][i] = bs[b][i]

LEMMA PatchOnce ==
  ASSUME NEW n \in Nat, NEW bs \in Seq(Seq(Instructions(n))), Len(bs) = n, NEW places, NEW x \in 1 .. n,
         AreBranches(bs, places)
  PROVE  LET new == BackPatch(bs, places, x)
         IN  new \in Seq(Seq(Instructions(n))) /\ Len(new) = n /\ GoTo(new, bs, places, x)
<1> DEFINE new == BackPatch(bs, places, x)
           T == Instructions(n)
<1>1. /\ DOMAIN bs = 1 .. n
      /\ \A b \in 1 .. n : /\ bs[b] \in Seq(T) /\ Len(bs[b]) \in Nat /\ DOMAIN bs[b] = 1 .. Len(bs[b])
                           /\ \A i \in DOMAIN bs[b] : bs[b][i] \in T
  BY SeqOfSeqs
<1>2. ASSUME NEW b \in 1 .. n, NEW i \in DOMAIN bs[b], <<b, i>> \in places
      PROVE  /\ [bs[b][i] EXCEPT !.to = x] \in T
             /\ [bs[b][i] EXCEPT !.to = x].op = bs[b][i].op
             /\ [bs[b][i] EXCEPT !.to = x].to = x
             /\ bs[b][i].op = "cond" => [bs[b][i] EXCEPT !.to = x].other = bs[b][i].other
  <2> DEFINE inst == bs[b][i]
  <2>1. inst \in T
    <3> HIDE DEF T
    <3> QED BY <1>1
  <2>5. Branches(inst)
    <3>1. \A c \in DOMAIN bs : \A k \in DOMAIN bs[c] : <<c, k>> \in places => Branches(bs[c][k])
      BY DEF AreBranches
    <3> QED BY <1>1, <1>2, <3>1, Zenon
  <2> HIDE DEF inst
  <2>2. inst \in [op : {"cond"}, to : 1 .. n, other : 1 .. n] \cup [op : {"br"}, to : 1 .. n]
    BY <2>1, <2>5 DEF Instructions, Branches, T
  <2>3. CASE inst \in [op : {"cond"}, to : 1 .. n, other : 1 .. n]
    <3>1. [inst EXCEPT !.to = x] \in [op : {"cond"}, to : 1 .. n, other : 1 .. n]
      BY <2>3
    <3> QED BY <2>3, <3>1 DEF inst, Instructions
  <2>4. CASE inst \in [op : {"br"}, to : 1 .. n]
    <3>1. [inst EXCEPT !.to = x] \in [op : {"br"}, to : 1 .. n]
      BY <2>4
    <3> QED BY <2>4, <3>1 DEF inst, Instructions
  <2> QED BY <2>2, <2>3, <2>4
<1> HIDE DEF T
<1>3. new = [b \in 1 .. n |-> [i \in DOMAIN bs[b] |->
               IF <<b, i>> \in places THEN [bs[b][i] EXCEPT !.to = x] ELSE bs[b][i]]]
  BY <1>1 DEF BackPatch
<1>4. \A b \in 1 .. n : DOMAIN new[b] = DOMAIN bs[b]
  BY <1>3
<1>5. \A b \in 1 .. n : \A i \in DOMAIN bs[b] :
        new[b][i] = IF <<b, i>> \in places THEN [bs[b][i] EXCEPT !.to = x] ELSE bs[b][i]
  BY <1>3
<1>6. ASSUME NEW b \in 1 .. n PROVE new[b] \in Seq(T)
  <2>1. \A i \in DOMAIN bs[b] : new[b][i] \in T
    <3> SUFFICES ASSUME NEW i \in DOMAIN bs[b] PROVE new[b][i] \in T
      OBVIOUS
    <3> HIDE DEF new
    <3>1. CASE <<b, i>> \in places
      BY <1>2, <1>5, <3>1
    <3>2. CASE <<b, i>> \notin places
      BY <1>1, <1>5, <3>2
    <3> QED BY <3>1, <3>2
  <2>2. new[b] = [i \in DOMAIN bs[b] |-> new[b][i]]
    BY <1>3
  <2>3. DOMAIN bs[b] = 1 .. Len(bs[b]) /\ Len(bs[b]) \in Nat
    BY <1>1
  <2> HIDE DEF new
  <2> QED BY <2>1, <2>2, <2>3
<1>7. new \in [1 .. n -> Seq(T)]
  BY <1>3, <1>6
<1> HIDE DEF new
<1>8. new \in Seq(Seq(T)) /\ Len(new) = n
  BY <1>7
<1>9. \A b \in 1 .. n : \A i \in DOMAIN bs[b] :
        IF <<b, i>> \in places
        THEN /\ new[b][i].op = bs[b][i].op /\ new[b][i].to = x
             /\ new[b][i].op = "cond" => new[b][i].other = bs[b][i].other
        ELSE new[b][i] = bs[b][i]
  <2> SUFFICES ASSUME NEW b \in 1 .. n, NEW i \in DOMAIN bs[b]
               PROVE  IF <<b, i>> \in places
                      THEN /\ new[b][i].op = bs[b][i].op /\ new[b][i].to = x
                           /\ new[b][i].op = "cond" => new[b][i].other = bs[b][i].other
                      ELSE new[b][i] = bs[b][i]
    OBVIOUS
  <2>1. CASE <<b, i>> \in places
    <3> DEFINE v == [bs[b][i] EXCEPT !.to = x]
    <3>1. v.op = bs[b][i].op /\ v.to = x /\ (bs[b][i].op = "cond" => v.other = bs[b][i].other)
      BY <1>2, <2>1
    <3>2. new[b][i] = v
      BY <1>5, <2>1
    <3> HIDE DEF v
    <3> QED BY <2>1, <3>1, <3>2
  <2>2. CASE <<b, i>> \notin places
    BY <1>5, <2>2
  <2> QED BY <2>1, <2>2
<1> QED BY <1>1, <1>4, <1>8, <1>9 DEF T, new, GoTo

LEMMA PatchOne ==
  ASSUME GenTypeOK, NEW P, NEW x \in Blocks,
         \A b \in Blocks : \A i \in DOMAIN blocks[b] : <<b, i>> \in P => Branches(blocks[b][i])
  PROVE  Patched(BackPatch(blocks, P, x), P, x, x)
<1> DEFINE n == Len(blocks)
           bs == BackPatch(blocks, P, x)
<1>1. /\ n \in Nat /\ Blocks = 1 .. n /\ x \in 1 .. n
      /\ blocks \in Seq(Seq(Instructions(n))) /\ Len(blocks) = n /\ DOMAIN blocks = 1 .. n
  BY BlockFacts DEF GenTypeOK
<1>2. /\ bs \in Seq(Seq(Instructions(n))) /\ Len(bs) = n
      /\ \A b \in Blocks : DOMAIN bs[b] = DOMAIN blocks[b]
      /\ \A b \in Blocks : \A i \in DOMAIN blocks[b] :
           IF <<b, i>> \in P
           THEN /\ bs[b][i].op = blocks[b][i].op /\ bs[b][i].to = x
                /\ bs[b][i].op = "cond" => bs[b][i].other = blocks[b][i].other
           ELSE bs[b][i] = blocks[b][i]
  <2> HIDE DEF n
  <2>1. AreBranches(blocks, P)
    BY <1>1 DEF AreBranches
  <2>2. bs \in Seq(Seq(Instructions(n))) /\ Len(bs) = n /\ GoTo(bs, blocks, P, x)
    BY <1>1, <2>1, PatchOnce
  <2> HIDE DEF bs
  <2> QED BY <1>1, <2>2 DEF GoTo
<1> HIDE DEF bs
<1>3. Patched(bs, P, x, x)
  BY <1>1, <1>2 DEF Patched
<1> QED BY <1>3 DEF bs

LEMMA PatchTwice ==
  ASSUME GenTypeOK, NEW P, NEW Q, NEW x \in Blocks, NEW y \in Blocks, P \cap Q = {},
         \A b \in Blocks : \A i \in DOMAIN blocks[b] : <<b, i>> \in P \cup Q => Branches(blocks[b][i])
  PROVE  Patched(BackPatch(BackPatch(blocks, P, x), Q, y), P \cup Q, x, y)
<1> DEFINE n == Len(blocks)
           first == BackPatch(blocks, P, x)
           bs == BackPatch(first, Q, y)
<1>1. /\ n \in Nat /\ Blocks = 1 .. n /\ x \in 1 .. n /\ y \in 1 .. n
      /\ blocks \in Seq(Seq(Instructions(n))) /\ Len(blocks) = n /\ DOMAIN blocks = 1 .. n
  BY BlockFacts DEF GenTypeOK
<1>2. /\ first \in Seq(Seq(Instructions(n))) /\ Len(first) = n
      /\ \A b \in Blocks : DOMAIN first[b] = DOMAIN blocks[b]
      /\ \A b \in Blocks : \A i \in DOMAIN blocks[b] :
           IF <<b, i>> \in P
           THEN /\ first[b][i].op = blocks[b][i].op /\ first[b][i].to = x
                /\ first[b][i].op = "cond" => first[b][i].other = blocks[b][i].other
           ELSE first[b][i] = blocks[b][i]
  <2> HIDE DEF n
  <2>1. AreBranches(blocks, P)
    BY <1>1 DEF AreBranches
  <2>2. first \in Seq(Seq(Instructions(n))) /\ Len(first) = n /\ GoTo(first, blocks, P, x)
    BY <1>1, <2>1, PatchOnce
  <2> HIDE DEF first
  <2> QED BY <1>1, <2>2 DEF GoTo
<1> HIDE DEF first
<1>3. DOMAIN first = 1 .. n
  BY <1>1, <1>2, SeqOfSeqs
<1>4. \A b \in DOMAIN first : \A i \in DOMAIN first[b] : <<b, i>> \in Q => Branches(first[b][i])
  BY <1>1, <1>2, <1>3 DEF Branches
<1>5. /\ bs \in Seq(Seq(Instructions(n))) /\ Len(bs) = n
      /\ \A b \in Blocks : DOMAIN bs[b] = DOMAIN first[b]
      /\ \A b \in Blocks : \A i \in DOMAIN first[b] :
           IF <<b, i>> \in Q
           THEN /\ bs[b][i].op = first[b][i].op /\ bs[b][i].to = y
                /\ bs[b][i].op = "cond" => bs[b][i].other = first[b][i].other
           ELSE bs[b][i] = first[b][i]
  <2> HIDE DEF n
  <2>1. AreBranches(first, Q)
    BY <1>4 DEF AreBranches
  <2>2. bs \in Seq(Seq(Instructions(n))) /\ Len(bs) = n /\ GoTo(bs, first, Q, y)
    BY <1>1, <1>2, <1>3, <2>1, PatchOnce
  <2> HIDE DEF bs
  <2> QED BY <1>1, <1>3, <2>2 DEF GoTo
<1> HIDE DEF bs
<1>6. ASSUME NEW b \in Blocks, NEW i \in DOMAIN blocks[b]
      PROVE  IF <<b, i>> \in P \cup Q
             THEN /\ bs[b][i].op = blocks[b][i].op /\ bs[b][i].to \in {x, y}
                  /\ bs[b][i].op = "cond" => bs[b][i].other = blocks[b][i].other
             ELSE bs[b][i] = blocks[b][i]
  <2>1. i \in DOMAIN first[b]
    BY <1>2
  <2>2. CASE <<b, i>> \in P
    <3>1. <<b, i>> \notin Q
      BY <2>2
    <3> QED BY <1>2, <1>5, <2>1, <2>2, <3>1
  <2>3. CASE <<b, i>> \in Q
    <3>1. <<b, i>> \notin P
      BY <2>3
    <3> QED BY <1>2, <1>5, <2>1, <2>3, <3>1
  <2>4. CASE <<b, i>> \notin P \cup Q
    BY <1>2, <1>5, <2>1, <2>4
  <2> QED BY <2>2, <2>3, <2>4
<1>7. \A b \in Blocks : DOMAIN bs[b] = DOMAIN blocks[b]
  BY <1>2, <1>5
<1>8. Patched(bs, P \cup Q, x, y)
  BY <1>5, <1>6, <1>7 DEF Patched
<1> QED BY <1>8 DEF bs, first

LEMMA PatchedGrows ==
  ASSUME GenTypeOK, NEW bs, NEW places, NEW x \in Settled, NEW y \in Settled, Patched(bs, places, x, y)
  PROVE  /\ Grown(bs)
         /\ \A b \in Blocks : \A i \in DOMAIN blocks[b] :
              <<b, i>> \notin places => i \in DOMAIN bs[b] /\ bs[b][i] = blocks[b][i]
<1>1. DOMAIN bs = Blocks /\ Len(bs) = Len(blocks) /\ Len(blocks) \in Nat
  BY BlockFacts, SeqOfSeqs DEF Patched
<1>2. \A b \in Blocks : /\ DOMAIN bs[b] = DOMAIN blocks[b] /\ DOMAIN bs[b] = 1 .. Len(bs[b])
                        /\ bs[b] \in Seq(Instructions(Len(bs)))
  BY <1>1, SeqOfSeqs DEF Patched
<1>3. ASSUME NEW b \in Blocks, blocks[b] = <<>> PROVE bs[b] = <<>>
  <2>1. DOMAIN bs[b] = {}
    BY <1>2, <1>3
  <2> DEFINE T == Instructions(Len(bs))
             s == bs[b]
  <2>2. s \in Seq(T) /\ DOMAIN s = {}
    BY <1>2, <2>1
  <2> HIDE DEF T, s
  <2>3. s = <<>>
    BY <2>2
  <2> QED BY <2>3 DEF s
<1>4. ASSUME NEW b \in DOMAIN bs, NEW i \in DOMAIN bs[b]
      PROVE  \/ Had(b, i) /\ bs[b][i] = blocks[b][i]
             \/ /\ Branches(bs[b][i]) => bs[b][i].to \in Settled
                /\ bs[b][i].op = "cond" =>
                     \/ bs[b][i].other \in Settled
                     \/ Had(b, i) /\ blocks[b][i].op = "cond" /\ bs[b][i].other = blocks[b][i].other
  <2>1. Had(b, i)
    BY <1>1, <1>2 DEF Had
  <2>2. CASE <<b, i>> \in places
    <3>1. /\ bs[b][i].op = blocks[b][i].op /\ bs[b][i].to \in {x, y}
          /\ bs[b][i].op = "cond" => bs[b][i].other = blocks[b][i].other
      BY <2>1, <2>2 DEF Patched, Had
    <3> QED BY <2>1, <3>1
  <2>3. CASE <<b, i>> \notin places
    BY <2>1, <2>3 DEF Patched, Had
  <2> QED BY <2>2, <2>3
<1>5. Grown(bs)
  BY <1>1, <1>3, <1>4 DEF Grown
<1>6. \A b \in Blocks : \A i \in DOMAIN blocks[b] :
        <<b, i>> \notin places => i \in DOMAIN bs[b] /\ bs[b][i] = blocks[b][i]
  BY <1>2 DEF Patched
<1> QED BY <1>5, <1>6

-----------------------------------------------------------------------------
(***************************************************************************)
(* A step of genCode, as a whole: what its parts must show.                *)
(***************************************************************************)
PlaceSets == [t : SUBSET AllPlaces, f : SUBSET AllPlaces]

\* The first task is over and has left others.
Replaced(tasks) ==
  /\ agenda # <<>> /\ agenda' = tasks \o Tail(agenda)
  /\ tasks \in Seq(Tasks(Len(blocks')))
  /\ \A i \in DOMAIN tasks : Named(tasks[i]) \subseteq Settled
  /\ \E after : /\ Balance(tasks, Len(lists'), after)
                /\ after + Takes(agenda[1]) = Len(lists) + Gives(agenda[1])

Rewritten ==
  /\ blocks' \in Seq(Seq(Instructions(Len(blocks')))) /\ Grown(blocks')
  /\ insertBB' \in Settled /\ insertBB' \in 1 .. Len(blocks')

\* Places stay in their lists, are dropped, or are new.
Relisted ==
  /\ lists' \in Seq(PlaceSets) /\ ListsApart'
  /\ \A n \in DOMAIN lists' : \A p \in lists'[n].t \cup lists'[n].f :
       \/ /\ \E m \in DOMAIN lists : p \in ListedBy(m)
          /\ p[2] \in DOMAIN blocks'[p[1]] /\ blocks'[p[1]][p[2]] = At(p)
       \/ Undecided(p)'

LEMMA NewAgenda ==
  ASSUME GenTypeOK, Len(blocks) <= Len(blocks'), Len(blocks') \in Nat, NEW tasks, Replaced(tasks)
  PROVE  /\ agenda' \in Seq(Tasks(Len(blocks')))
         /\ \A i \in DOMAIN agenda' : Named(agenda'[i]) \subseteq Settled
<1> DEFINE T == Tasks(Len(blocks'))
<1>1. agenda \in Seq(T) /\ tasks \in Seq(T) /\ agenda # <<>> /\ agenda' = tasks \o Tail(agenda)
  <2>1. Tasks(Len(blocks)) \subseteq T
    BY BlockFacts, MoreBlocks
  <2> HIDE DEF T
  <2> QED BY <2>1, SeqOfMore DEF GenTypeOK, Replaced, T
<1> HIDE DEF T
<1>2. agenda' \in Seq(T)
  BY <1>1, AgendaGoesOn
<1>3. ASSUME NEW i \in DOMAIN agenda' PROVE Named(agenda'[i]) \subseteq Settled
  <2>1. i \in 1 .. Len(agenda')
    BY <1>2
  <2>2. \/ i \in 1 .. Len(tasks) /\ agenda'[i] = tasks[i]
        \/ \E j \in 2 .. Len(agenda) : agenda'[i] = agenda[j]
    <3>1. \A k \in 1 .. Len(tasks \o Tail(agenda)) :
             \/ k \in 1 .. Len(tasks) /\ (tasks \o Tail(agenda))[k] = tasks[k]
             \/ /\ k > Len(tasks) /\ k - Len(tasks) + 1 \in 2 .. Len(agenda)
                /\ (tasks \o Tail(agenda))[k] = agenda[k - Len(tasks) + 1]
      BY <1>1, AgendaGoesOn
    <3> QED BY <1>1, <2>1, <3>1
  <2>3. CASE i \in 1 .. Len(tasks) /\ agenda'[i] = tasks[i]
    <3>1. i \in DOMAIN tasks
      BY <1>1, <2>3
    <3> QED BY <2>3, <3>1 DEF Replaced
  <2>4. CASE \E j \in 2 .. Len(agenda) : agenda'[i] = agenda[j]
    <3>1. PICK j \in 2 .. Len(agenda) : agenda'[i] = agenda[j]
      BY <2>4
    <3>2. j \in DOMAIN agenda
      BY <1>1
    <3> QED BY <3>1, <3>2 DEF Settled
  <2> QED BY <2>2, <2>3, <2>4
<1> QED BY <1>2, <1>3 DEF T

LEMMA NewBalance ==
  ASSUME GenTypeOK, Balanced, Len(blocks) <= Len(blocks'), Len(blocks') \in Nat, NEW tasks, Replaced(tasks)
  PROVE  Balanced'
<1> DEFINE T == Tasks(Len(blocks'))
<1>1. agenda \in Seq(T) /\ tasks \in Seq(T) /\ agenda # <<>> /\ agenda' = tasks \o Tail(agenda)
  <2>1. Tasks(Len(blocks)) \subseteq T
    BY BlockFacts, MoreBlocks
  <2> HIDE DEF T
  <2> QED BY <2>1, SeqOfMore DEF GenTypeOK, Replaced, T
<1>2. PICK d : Balance(tasks, Len(lists'), d) /\ d + Takes(agenda[1]) = Len(lists) + Gives(agenda[1])
  BY DEF Replaced
<1>3. Balance(agenda, Len(lists), 0)
  BY DEF Balanced
<1> HIDE DEF T
<1>4. Balance(tasks \o Tail(agenda), Len(lists'), 0)
  BY <1>1, <1>2, <1>3, BalanceGoesOn
<1>5. ASSUME NEW a, a = agenda' PROVE Balance(a, Len(lists'), 0)
  BY <1>1, <1>4, <1>5
<1>6. Balance(agenda, Len(lists), 0)'
  BY <1>5 DEF Balance, Heights, Takes, Gives
<1> QED BY <1>6 DEF Balanced

LEMMA GenStep ==
  ASSUME GenInv, NEW tasks, Replaced(tasks), Rewritten, Relisted, UNCHANGED cfg
  PROVE  GenInv'
<1> USE DEF GenInv
<1>1. /\ Len(blocks) <= Len(blocks') /\ Len(blocks') \in Nat /\ Len(blocks) \in Nat
      /\ DOMAIN blocks' = 1 .. Len(blocks')
  BY BlockFacts, SeqOfSeqs DEF Rewritten, Grown
<1>2. /\ agenda' \in Seq(Tasks(Len(blocks')))
      /\ \A i \in DOMAIN agenda' : Named(agenda'[i]) \subseteq Settled
  BY <1>1, NewAgenda
<1>3. linked' = 0 /\ linked = 0
  BY DEF Linking, Replaced, cfg
<1>4. GenTypeOK'
  BY <1>1, <1>2, <1>3 DEF GenTypeOK, Rewritten, Relisted, PlaceSets
<1>5. Balanced'
  BY <1>1, NewBalance
<1>6. ListsUndecided'
  <2>1. ASSUME NEW n \in DOMAIN lists', NEW p \in lists'[n].t \cup lists'[n].f PROVE Undecided(p)'
    <3>1. CASE /\ \E m \in DOMAIN lists : p \in ListedBy(m)
               /\ p[2] \in DOMAIN blocks'[p[1]] /\ blocks'[p[1]][p[2]] = At(p)
      <4>1. Undecided(p)
        BY <3>1 DEF ListsUndecided
      <4>2. PICK bs : bs = blocks'
        OBVIOUS
      <4>3. bs \in Seq(Seq(Instructions(Len(bs)))) /\ Grown(bs)
        BY <4>2 DEF Rewritten
      <4>4. p[2] \in DOMAIN bs[p[1]] /\ bs[p[1]][p[2]] = At(p) /\ insertBB' \in Settled
        BY <3>1, <4>2 DEF Rewritten
      <4> QED BY <1>2, <4>1, <4>2, <4>3, <4>4, Kept
    <3> QED BY <3>1 DEF Relisted
  <2>2. \A n \in DOMAIN lists' : \A p \in ListedBy(n)' : Undecided(p)'
    BY <2>1 DEF ListedBy
  <2> QED BY <2>2 DEF ListsUndecided
<1>7. Linking'
  BY <1>3 DEF Linking, cfg
<1>8. ListsApart'
  BY DEF Relisted
<1> QED BY <1>4, <1>5, <1>6, <1>7, <1>8

-----------------------------------------------------------------------------
(***************************************************************************)
(* What the steps have in common.                                          *)
(***************************************************************************)
LEMMA HeadTask ==
  ASSUME GenInv, agenda # <<>>
  PROVE  /\ agenda[1] \in Tasks(Len(blocks)) /\ Named(agenda[1]) \subseteq Settled
         /\ Len(lists) \in Nat /\ Len(lists) >= Takes(agenda[1])
<1>1. agenda \in Seq(Tasks(Len(blocks))) /\ Len(agenda) \in Nat /\ 1 \in 1 .. Len(agenda) /\ DOMAIN agenda = 1 .. Len(agenda)
  BY DEF GenInv, GenTypeOK
<1>2. agenda[1] \in Tasks(Len(blocks))
  <2> DEFINE T == Tasks(Len(blocks))
  <2> HIDE DEF T
  <2> QED BY <1>1 DEF T
<1>3. PICK h : Heights(agenda, h) /\ h[1] = Len(lists)
  BY DEF GenInv, Balanced, Balance
<1>4. h[1] >= Takes(agenda[1])
  BY <1>1, <1>3 DEF Heights
<1>5. Len(lists) \in Nat
  BY BlockFacts DEF GenInv
<1> QED BY <1>1, <1>2, <1>3, <1>4, <1>5 DEF Settled

LEMMA TaskTypes ==
  ASSUME GenInv, agenda # <<>>
  PROVE  /\ agenda[1].t = "stmt" => agenda[1].s \in Statements
         /\ agenda[1].t = "cond" => agenda[1].c \in Conditions
         /\ agenda[1].t = "store" => agenda[1].id \in Ids
         /\ agenda[1].t = "branch" => agenda[1].yes \in Blocks /\ agenda[1].no \in Blocks
         /\ agenda[1].t = "jump" => agenda[1].to \in Blocks /\ agenda[1].next \in Blocks
         /\ agenda[1].t = "loop" => agenda[1].yes \in Blocks /\ agenda[1].no \in Blocks /\ agenda[1].s \in Statements
         /\ agenda[1].t = "left" => agenda[1].bb \in Blocks /\ agenda[1].op \in {"and", "or"}
         /\ agenda[1].t = "right" => agenda[1].op \in {"and", "or"}
<1>1. agenda[1] \in Tasks(Len(blocks)) /\ Blocks = 1 .. Len(blocks)
  BY HeadTask, BlockFacts DEF GenInv
<1> HIDE DEF Ids
<1> QED BY <1>1 DEF Tasks

LEMMA NewSettled ==
  ASSUME GenTypeOK, NEW k \in Nat, k >= 1
  PROVE  New(k) \in Settled /\ New(k) \in Nat
BY BlockFacts DEF New, Settled

Keeps(bs, places) ==
  \A b \in Blocks : \A i \in DOMAIN blocks[b] :
    <<b, i>> \notin places => i \in DOMAIN bs[b] /\ bs[b][i] = blocks[b][i]

LEMMA SameBlocks ==
  ASSUME GenInv, blocks' = blocks
  PROVE  blocks' \in Seq(Seq(Instructions(Len(blocks')))) /\ Grown(blocks') /\ Keeps(blocks', {})
<1>1. Grown(blocks) /\ Keeps(blocks, {})
  BY BlockFacts DEF Grown, Keeps, Had, GenInv, Blocks
<1> QED BY <1>1 DEF GenInv, GenTypeOK

LEMMA PlaceFacts ==
  ASSUME GenInv, NEW n \in DOMAIN lists, NEW p \in ListedBy(n)
  PROVE  /\ p = <<p[1], p[2]>> /\ p \in AllPlaces
         /\ p[1] \in Blocks /\ p[2] \in DOMAIN blocks[p[1]] /\ Branches(At(p))
<1>1. lists[n] \in PlaceSets
  <2>1. lists \in Seq(PlaceSets)
    BY DEF GenInv, GenTypeOK, PlaceSets
  <2> HIDE DEF PlaceSets
  <2> QED BY <2>1
<1>2. p \in AllPlaces
  BY <1>1 DEF ListedBy, PlaceSets
<1>3. Undecided(p)
  BY DEF GenInv, ListsUndecided
<1> QED BY <1>2, <1>3 DEF Undecided, AllPlaces

LEMMA Relist ==
  ASSUME GenInv, lists' \in Seq(PlaceSets), ListsApart', NEW places, Keeps(blocks', places),
         \A n \in DOMAIN lists' : \A p \in lists'[n].t \cup lists'[n].f :
           p \notin places /\ \E m \in DOMAIN lists : p \in ListedBy(m)
  PROVE  Relisted
<1>1. ASSUME NEW n \in DOMAIN lists', NEW p \in lists'[n].t \cup lists'[n].f
      PROVE  /\ \E m \in DOMAIN lists : p \in ListedBy(m)
             /\ p[2] \in DOMAIN blocks'[p[1]] /\ blocks'[p[1]][p[2]] = At(p)
  <2>1. PICK m \in DOMAIN lists : p \in ListedBy(m)
    BY <1>1
  <2>2. p = <<p[1], p[2]>> /\ p[1] \in Blocks /\ p[2] \in DOMAIN blocks[p[1]]
    BY <2>1, PlaceFacts
  <2>3. <<p[1], p[2]>> \notin places
    BY <1>1, <2>2
  <2> QED BY <2>1, <2>2, <2>3 DEF Keeps, At
<1> QED BY <1>1 DEF Relisted

LEMMA RelistSame ==
  ASSUME GenInv, lists' = lists, Keeps(blocks', {})
  PROVE  Relisted
<1>1. lists' \in Seq(PlaceSets)
  BY DEF GenInv, GenTypeOK, PlaceSets
<1>2. ListsApart'
  BY DEF GenInv, ListsApart, ListedBy
<1>3. \A n \in DOMAIN lists' : \A p \in lists'[n].t \cup lists'[n].f : \E m \in DOMAIN lists : p \in ListedBy(m)
  BY DEF ListedBy
<1> QED BY <1>1, <1>2, <1>3, Relist

LEMMA RelistTail ==
  ASSUME GenInv, Len(lists) >= 1, lists' = Tail(lists), NEW places, places \subseteq ListedBy(1), Keeps(blocks', places)
  PROVE  Relisted
<1>1. lists \in Seq(PlaceSets) /\ Len(lists) \in Nat /\ DOMAIN lists = 1 .. Len(lists)
  BY BlockFacts DEF GenInv, GenTypeOK, PlaceSets
<1>2. /\ lists' \in Seq(PlaceSets) /\ Len(lists') = Len(lists) - 1 /\ DOMAIN lists' = 1 .. Len(lists')
      /\ \A n \in DOMAIN lists' : n + 1 \in DOMAIN lists /\ n + 1 # 1 /\ lists'[n] = lists[n + 1]
  <2> HIDE DEF PlaceSets
  <2> QED BY <1>1
<1>3. \A n \in DOMAIN lists' : ListedBy(n)' = ListedBy(n + 1)
  BY <1>2 DEF ListedBy
<1>4. ListsApart'
  <2>1. ASSUME NEW n \in DOMAIN lists' PROVE lists'[n].t \cap lists'[n].f = {}
    BY <1>2 DEF GenInv, ListsApart
  <2>2. ASSUME NEW n \in DOMAIN lists', NEW m \in DOMAIN lists', m # n PROVE ListedBy(m)' \cap ListedBy(n)' = {}
    <3>1. m + 1 # n + 1 /\ m + 1 \in DOMAIN lists /\ n + 1 \in DOMAIN lists
      BY <1>1, <1>2, <2>2
    <3> QED BY <1>3, <3>1 DEF GenInv, ListsApart
  <2> QED BY <2>1, <2>2 DEF ListsApart
<1>5. ASSUME NEW n \in DOMAIN lists', NEW p \in lists'[n].t \cup lists'[n].f
      PROVE  p \notin places /\ \E m \in DOMAIN lists : p \in ListedBy(m)
  <2>1. p \in ListedBy(n + 1) /\ n + 1 \in DOMAIN lists /\ n + 1 # 1 /\ 1 \in DOMAIN lists
    BY <1>1, <1>2 DEF ListedBy
  <2>2. ListedBy(1) \cap ListedBy(n + 1) = {}
    BY <2>1 DEF GenInv, ListsApart
  <2> QED BY <2>1, <2>2
<1> QED BY <1>2, <1>4, <1>5, Relist

\* Lists before and after for the tasks that steps leave.
LEMMA NoTasks ==
  ASSUME NEW a \in Nat
  PROVE  Balance(<<>>, a, a)
<1>1. Heights(<<>>, [i \in 1 .. 1 |-> a])
  BY DEF Heights
<1> QED BY <1>1 DEF Balance

LEMMA OneTask ==
  ASSUME NEW x, NEW a \in Nat, a >= Takes(x), NEW b \in Nat, b + Takes(x) = a + Gives(x)
  PROVE  Balance(<<x>>, a, b)
<1>1. Heights(<<x>>, <<a, b>>)
  <2>1. Len(<<x>>) = 1 /\ <<a, b>> \in [1 .. 1 + 1 -> Nat]
    OBVIOUS
  <2>2. \A i \in 1 .. 1 : i = 1
    OBVIOUS
  <2> QED BY <2>1, <2>2 DEF Heights
<1> QED BY <1>1 DEF Balance

LEMMA MoreTasks ==
  ASSUME NEW T, NEW x \in T, NEW tasks \in Seq(T), NEW a \in Nat, a >= Takes(x), NEW b \in Nat,
         b + Takes(x) = a + Gives(x), NEW c, Balance(tasks, b, c)
  PROVE  Balance(<<x>> \o tasks, a, c)
<1>1. <<x>> \in Seq(T) /\ <<x>> # <<>> /\ Tail(<<x, x>>) = <<x>>
  OBVIOUS
<1>2. PICK h : Heights(tasks, h) /\ h[1] = b /\ h[Len(tasks) + 1] = c
  BY DEF Balance
<1> DEFINE n == Len(tasks)
           seq == <<x>> \o tasks
           new == [i \in 1 .. n + 2 |-> IF i = 1 THEN a ELSE h[i - 1]]
<1>3. n \in Nat /\ Len(seq) = n + 1 /\ seq[1] = x /\ \A i \in 2 .. n + 1 : seq[i] = tasks[i - 1]
  OBVIOUS
<1>4. h \in [1 .. n + 1 -> Nat] /\ \A i \in 1 .. n : h[i] >= Takes(tasks[i]) /\ h[i + 1] + Takes(tasks[i]) = h[i] + Gives(tasks[i])
  BY <1>2 DEF Heights
<1> HIDE DEF n, seq
<1>5. new \in [1 .. (n + 1) + 1 -> Nat] /\ new[1] = a /\ \A i \in 2 .. n + 2 : new[i] = h[i - 1]
  BY <1>3, <1>4
<1> HIDE DEF new
<1>6. ASSUME NEW i \in 1 .. n + 1
      PROVE  new[i] >= Takes(seq[i]) /\ new[i + 1] + Takes(seq[i]) = new[i] + Gives(seq[i])
  <2>1. CASE i = 1
    <3>1. 2 \in 2 .. n + 2 /\ 2 - 1 = 1
      BY <1>3
    <3>2. new[2] = h[1]
      BY <1>5, <3>1
    <3> QED BY <1>2, <1>3, <1>5, <2>1, <3>2
  <2>2. CASE i # 1
    <3>1. i \in 2 .. n + 1 /\ i \in 2 .. n + 2 /\ i + 1 \in 2 .. n + 2 /\ i - 1 \in 1 .. n /\ (i - 1) + 1 = i /\ (i + 1) - 1 = i
      BY <1>3, <2>2
    <3>2. new[i] = h[i - 1] /\ new[i + 1] = h[(i + 1) - 1] /\ seq[i] = tasks[i - 1]
      BY <1>3, <1>5, <3>1
    <3>3. h[i - 1] >= Takes(tasks[i - 1]) /\ h[(i - 1) + 1] + Takes(tasks[i - 1]) = h[i - 1] + Gives(tasks[i - 1])
      BY <1>4, <3>1
    <3> QED BY <3>1, <3>2, <3>3
  <2> QED BY <2>1, <2>2
<1>7. Heights(seq, new)
  BY <1>3, <1>5, <1>6 DEF Heights
<1>8. new[Len(seq) + 1] = c
  <2>1. n + 2 \in 2 .. n + 2 /\ (n + 2) - 1 = n + 1 /\ Len(seq) + 1 = n + 2
    BY <1>3
  <2>2. new[n + 2] = h[n + 1]
    BY <1>5, <2>1
  <2> QED BY <1>2, <2>1, <2>2 DEF n
<1> QED BY <1>5, <1>7, <1>8 DEF Balance, seq

-----------------------------------------------------------------------------
(***************************************************************************)
(* The steps of genCode, one by one.                                       *)
(***************************************************************************)
LEMMA StmtParts ==
  ASSUME GenInv, Task("stmt")
  PROVE  LET s == agenda[1].s
         IN  /\ s \in Statements /\ agenda # <<>>
             /\ s.k \in {"assign", "assignNot"} => s.id \in Ids
             /\ s.k = "assignNot" => Leaf(s.id) \in Conditions
             /\ s.k = "seq" => s.stmts \in Seq(Statements)
             /\ s.k \in {"if", "ifElse", "while"} => s.c \in Conditions /\ s.s \in Statements
             /\ s.k = "ifElse" => s.e \in Statements
<1>1. agenda # <<>> /\ agenda[1].s \in Statements
  BY TaskTypes DEF Task
<1> QED BY <1>1, SyntaxAssumption DEF Ids

LEMMA CondParts ==
  ASSUME GenInv, Task("cond")
  PROVE  LET c == agenda[1].c
         IN  /\ c \in Conditions /\ agenda # <<>>
             /\ c.k = "leaf" => c.id \in Ids
             /\ c.k # "leaf" => c.l \in Conditions /\ c.r \in Conditions
<1>1. agenda # <<>> /\ agenda[1].c \in Conditions
  BY TaskTypes DEF Task
<1> QED BY <1>1, SyntaxAssumption DEF Ids

\* A step that emits instructions, and leaves one list less or as many.
LEMMA EmitStep ==
  ASSUME GenInv, NEW insts \in Seq(Instructions(Len(blocks))), blocks' = Emit(blocks, insts),
         \A i \in DOMAIN insts :
           /\ Branches(insts[i]) => insts[i].to \in Settled
           /\ insts[i].op = "cond" => insts[i].other \in Settled,
         insertBB' \in Settled, insertBB' \in Blocks
  PROVE  Rewritten /\ Keeps(blocks', {}) /\ Len(blocks') = Len(blocks)
<1>1. PICK bs : bs = blocks'
  OBVIOUS
<1>2. Extended(bs, insts, 0)
  BY <1>1, EmitOnly DEF GenInv
<1>3. Len(bs) = Len(blocks) /\ Blocks = 1 .. Len(blocks)
  BY <1>2, BlockFacts DEF Extended, GenInv
<1>4. insts \in Seq(Instructions(Len(bs)))
  BY <1>3
<1>5. /\ Grown(bs)
      /\ \A b \in Blocks : \A i \in DOMAIN blocks[b] : i \in DOMAIN bs[b] /\ bs[b][i] = blocks[b][i]
  BY <1>2, <1>4, ExtendedGrows DEF GenInv
<1>6. Keeps(bs, {})
  BY <1>5 DEF Keeps
<1>7. bs \in Seq(Seq(Instructions(Len(bs))))
  BY <1>2 DEF Extended
<1> QED BY <1>1, <1>3, <1>5, <1>6, <1>7 DEF Rewritten

LEMMA InsertSettled == insertBB \in Settled
  BY DEF Settled

LEMMA StepAssign == GenInv /\ GenAssign => GenInv'
<1> SUFFICES ASSUME GenInv, GenAssign PROVE GenInv'
  OBVIOUS
<1> DEFINE insts == <<Do(agenda[1].s.id)>>
<1>1. agenda[1].s.id \in Ids /\ agenda # <<>> /\ agenda[1].t = "stmt"
  BY StmtParts DEF GenAssign, Stmt, Task
<1>2. insts \in Seq(Instructions(Len(blocks))) /\ \A i \in DOMAIN insts : ~Branches(insts[i]) /\ insts[i].op # "cond"
  <2> HIDE DEF Ids
  <2> QED BY <1>1 DEF Do, Instructions, Branches
<1>3. insertBB' \in Settled /\ insertBB' \in Blocks
  BY BlockFacts, InsertSettled DEF GenAssign, GenInv
<1>4. blocks' = Emit(blocks, insts)
  BY DEF GenAssign
<1> HIDE DEF insts
<1>5. Rewritten /\ Keeps(blocks', {})
  BY <1>2, <1>3, <1>4, EmitStep
<1>6. Relisted
  BY <1>5, RelistSame DEF GenAssign
<1>7. Replaced(<<>>)
  <2>1. Balance(<<>>, Len(lists'), Len(lists)) /\ Takes(agenda[1]) = 0 /\ Gives(agenda[1]) = 0 /\ Len(lists) \in Nat
    BY <1>1, HeadTask, NoTasks DEF GenAssign, Takes, Gives
  <2> QED BY <1>1, <2>1 DEF Replaced, GenAssign, Replace
<1> QED BY <1>5, <1>6, <1>7, GenStep DEF GenAssign

LEMMA StepReturn == GenInv /\ GenReturn => GenInv'
<1> SUFFICES ASSUME GenInv, GenReturn PROVE GenInv'
  OBVIOUS
<1> DEFINE insts == <<Ret>>
<1>1. agenda # <<>> /\ agenda[1].t = "stmt"
  BY DEF GenReturn, Stmt, Task
<1>2. insts \in Seq(Instructions(Len(blocks))) /\ \A i \in DOMAIN insts : ~Branches(insts[i]) /\ insts[i].op # "cond"
  BY DEF Ret, Instructions, Branches
<1>3. insertBB' \in Settled /\ insertBB' \in Blocks
  BY BlockFacts, InsertSettled DEF GenReturn, GenInv
<1>4. blocks' = Emit(blocks, insts)
  BY DEF GenReturn
<1> HIDE DEF insts
<1>5. Rewritten /\ Keeps(blocks', {})
  BY <1>2, <1>3, <1>4, EmitStep
<1>6. Relisted
  BY <1>5, RelistSame DEF GenReturn
<1>7. Replaced(<<>>)
  <2>1. Balance(<<>>, Len(lists'), Len(lists)) /\ Takes(agenda[1]) = 0 /\ Gives(agenda[1]) = 0 /\ Len(lists) \in Nat
    BY <1>1, HeadTask, NoTasks DEF GenReturn, Takes, Gives
  <2> QED BY <1>1, <2>1 DEF Replaced, GenReturn, Replace
<1> QED BY <1>5, <1>6, <1>7, GenStep DEF GenReturn

LEMMA StepStore == GenInv /\ StoreNot => GenInv'
<1> SUFFICES ASSUME GenInv, StoreNot PROVE GenInv'
  OBVIOUS
<1> DEFINE insts == <<Do(agenda[1].id)>>
<1>1. agenda[1].id \in Ids /\ agenda # <<>> /\ agenda[1].t = "store" /\ Len(lists) \in Nat /\ Len(lists) >= 1
  BY TaskTypes, HeadTask DEF StoreNot, Task, Takes
<1>2. insts \in Seq(Instructions(Len(blocks))) /\ \A i \in DOMAIN insts : ~Branches(insts[i]) /\ insts[i].op # "cond"
  <2> HIDE DEF Ids
  <2> QED BY <1>1 DEF Do, Instructions, Branches
<1>3. insertBB' \in Settled /\ insertBB' \in Blocks
  BY BlockFacts, InsertSettled DEF StoreNot, GenInv
<1>4. blocks' = Emit(blocks, insts)
  BY DEF StoreNot
<1> HIDE DEF insts
<1>5. Rewritten /\ Keeps(blocks', {})
  BY <1>2, <1>3, <1>4, EmitStep
<1>6. Relisted
  BY <1>1, <1>5, RelistTail DEF StoreNot
<1>7. Replaced(<<>>)
  <2>1. Takes(agenda[1]) = 1 /\ Gives(agenda[1]) = 0 /\ Len(lists') \in Nat /\ Len(lists') + 1 = Len(lists)
    <3>1. Len(Tail(lists)) = Len(lists) - 1
      BY <1>1 DEF GenInv, GenTypeOK
    <3> QED BY <1>1, <3>1 DEF StoreNot, Takes, Gives
  <2>2. Balance(<<>>, Len(lists'), Len(lists'))
    BY <2>1, NoTasks
  <2> QED BY <1>1, <2>1, <2>2 DEF Replaced, StoreNot, Replace
<1> QED BY <1>5, <1>6, <1>7, GenStep DEF StoreNot

LEMMA StepJump == GenInv /\ JumpOn => GenInv'
<1> SUFFICES ASSUME GenInv, JumpOn PROVE GenInv'
  OBVIOUS
<1> DEFINE insts == <<Br(agenda[1].to)>>
<1>1. /\ agenda[1].to \in Blocks /\ agenda[1].next \in Blocks
      /\ agenda[1].to \in Settled /\ agenda[1].next \in Settled
      /\ agenda # <<>> /\ agenda[1].t = "jump" /\ Len(lists) \in Nat
  BY TaskTypes, HeadTask DEF JumpOn, Task, Named
<1>2. insts \in Seq(Instructions(Len(blocks))) /\ \A i \in DOMAIN insts : insts[i].to \in Settled /\ insts[i].op # "cond"
  <2>1. Blocks = 1 .. Len(blocks)
    BY BlockFacts DEF GenInv
  <2> QED BY <1>1, <2>1 DEF Br, Instructions
<1>3. insertBB' \in Settled /\ insertBB' \in Blocks
  BY <1>1 DEF JumpOn
<1>4. blocks' = Emit(blocks, insts)
  BY DEF JumpOn
<1> HIDE DEF insts
<1>5. Rewritten /\ Keeps(blocks', {})
  BY <1>2, <1>3, <1>4, EmitStep
<1>6. Relisted
  BY <1>5, RelistSame DEF JumpOn
<1>7. Replaced(<<>>)
  <2>1. Balance(<<>>, Len(lists'), Len(lists)) /\ Takes(agenda[1]) = 0 /\ Gives(agenda[1]) = 0
    BY <1>1, NoTasks DEF JumpOn, Takes, Gives
  <2> QED BY <1>1, <2>1 DEF Replaced, JumpOn, Replace
<1> QED BY <1>5, <1>6, <1>7, GenStep DEF JumpOn

LEMMA StepJumpStmt == GenInv /\ GenJumpStmt => GenInv'
<1> SUFFICES ASSUME GenInv, GenJumpStmt PROVE GenInv'
  OBVIOUS
<1>1. agenda # <<>> /\ agenda[1].t = "stmt" /\ blocks' = blocks /\ lists' = lists /\ insertBB' = insertBB
  BY DEF GenJumpStmt, Stmt, Task
<1>2. Rewritten /\ Keeps(blocks', {})
  BY <1>1, SameBlocks, BlockFacts, InsertSettled DEF Rewritten, GenInv
<1>3. Relisted
  BY <1>1, <1>2, RelistSame
<1>4. Replaced(<<>>)
  <2>1. Balance(<<>>, Len(lists'), Len(lists)) /\ Takes(agenda[1]) = 0 /\ Gives(agenda[1]) = 0 /\ Len(lists) \in Nat
    BY <1>1, HeadTask, NoTasks DEF Takes, Gives
  <2> QED BY <1>1, <2>1 DEF Replaced, GenJumpStmt, Replace
<1> QED BY <1>2, <1>3, <1>4, GenStep DEF GenJumpStmt

LEMMA StepSeq == GenInv /\ GenSeq => GenInv'
<1> SUFFICES ASSUME GenInv, GenSeq PROVE GenInv'
  OBVIOUS
<1> DEFINE parts == agenda[1].s.stmts
           tasks == [i \in DOMAIN parts |-> [t |-> "stmt", s |-> parts[i]]]
           T == Tasks(Len(blocks'))
<1>1. /\ agenda # <<>> /\ agenda[1].t = "stmt" /\ blocks' = blocks /\ lists' = lists /\ insertBB' = insertBB
      /\ parts \in Seq(Statements) /\ agenda' = tasks \o Tail(agenda)
  BY StmtParts DEF GenSeq, Stmt, Task, Replace
<1>2. Rewritten /\ Keeps(blocks', {})
  BY <1>1, SameBlocks, BlockFacts, InsertSettled DEF Rewritten, GenInv
<1>3. Relisted
  BY <1>1, <1>2, RelistSame
<1> DEFINE n == Len(parts)
<1>4. n \in Nat /\ DOMAIN parts = 1 .. n /\ \A i \in 1 .. n : parts[i] \in Statements
  BY <1>1
<1> HIDE DEF parts
<1>5. tasks \in Seq(T) /\ Len(tasks) = n /\ \A i \in 1 .. n : tasks[i].t = "stmt"
  <2>1. \A i \in 1 .. n : [t |-> "stmt", s |-> parts[i]] \in T
    BY <1>4 DEF Tasks
  <2>2. tasks = [i \in 1 .. n |-> [t |-> "stmt", s |-> parts[i]]]
    BY <1>4
  <2> HIDE DEF T
  <2> QED BY <1>4, <2>1, <2>2
<1> HIDE DEF tasks, n
<1>6. \A i \in 1 .. n : Takes(tasks[i]) = 0 /\ Gives(tasks[i]) = 0 /\ Named(tasks[i]) = {}
  BY <1>5 DEF Takes, Gives, Named
<1>7. Balance(tasks, Len(lists), Len(lists))
  <2> DEFINE h == [i \in 1 .. n + 1 |-> Len(lists)]
  <2>1. Len(lists) \in Nat
    BY HeadTask, <1>1
  <2>2. h \in [1 .. n + 1 -> Nat] /\ \A i \in 1 .. n + 1 : h[i] = Len(lists)
    BY <2>1
  <2> HIDE DEF h
  <2>3. \A i \in 1 .. n : h[i] >= Takes(tasks[i]) /\ h[i + 1] + Takes(tasks[i]) = h[i] + Gives(tasks[i])
    BY <1>4, <1>6, <2>1, <2>2
  <2>4. Heights(tasks, h)
    BY <1>5, <2>2, <2>3 DEF Heights
  <2>5. h[1] = Len(lists) /\ h[n + 1] = Len(lists)
    BY <1>4, <2>2
  <2> QED BY <1>5, <2>4, <2>5 DEF Balance
<1>8. Replaced(tasks)
  <2>1. Takes(agenda[1]) = 0 /\ Gives(agenda[1]) = 0
    BY <1>1 DEF Takes, Gives
  <2>2. DOMAIN tasks = 1 .. n
    BY <1>5
  <2> QED BY <1>1, <1>5, <1>6, <1>7, <2>1, <2>2 DEF Replaced
<1> QED BY <1>2, <1>3, <1>8, GenStep DEF GenSeq

LEMMA StepAssignNot == GenInv /\ GenAssignNot => GenInv'
<1> SUFFICES ASSUME GenInv, GenAssignNot PROVE GenInv'
  OBVIOUS
<1> DEFINE id == agenda[1].s.id
           tasks == <<[t |-> "cond", c |-> Leaf(id)], [t |-> "store", id |-> id]>>
           L == Len(lists)
<1>1. /\ agenda # <<>> /\ agenda[1].t = "stmt" /\ blocks' = blocks /\ lists' = lists /\ insertBB' = insertBB
      /\ Leaf(id) \in Conditions /\ id \in Ids /\ agenda' = tasks \o Tail(agenda)
  BY StmtParts DEF GenAssignNot, Stmt, Task, Replace
<1>2. Rewritten /\ Keeps(blocks', {})
  BY <1>1, SameBlocks, BlockFacts, InsertSettled DEF Rewritten, GenInv
<1>3. Relisted
  BY <1>1, <1>2, RelistSame
<1>4. tasks \in Seq(Tasks(Len(blocks')))
  <2> HIDE DEF Ids, id
  <2> QED BY <1>1 DEF Tasks
<1>5. \A i \in DOMAIN tasks : Named(tasks[i]) \subseteq Settled
  BY DEF Named
<1>6. L \in Nat
  BY HeadTask, <1>1
<1>7. Balance(tasks, L, L)
  <2>1. Heights(tasks, <<L, L + 1, L>>)
    BY <1>6 DEF Heights, Takes, Gives
  <2> QED BY <1>6, <2>1 DEF Balance
<1>8. Replaced(tasks)
  <2>1. Takes(agenda[1]) = 0 /\ Gives(agenda[1]) = 0
    BY <1>1 DEF Takes, Gives
  <2> QED BY <1>1, <1>4, <1>5, <1>7, <2>1 DEF Replaced
<1> QED BY <1>2, <1>3, <1>8, GenStep DEF GenAssignNot

\* A step that makes blocks only.
LEMMA NewStep ==
  ASSUME GenInv, NEW k \in Nat, blocks' = WithNew(blocks, k), insertBB' = insertBB
  PROVE  Rewritten /\ Keeps(blocks', {}) /\ Len(blocks') = Len(blocks) + k
<1>1. PICK bs : bs = blocks'
  OBVIOUS
<1>2. Extended(bs, <<>>, k)
  BY <1>1, NewOnly DEF GenInv
<1>3. Len(bs) = Len(blocks) + k /\ Len(blocks) \in Nat /\ insertBB \in 1 .. Len(blocks)
  BY <1>2, BlockFacts DEF Extended, GenInv
<1>4. /\ Grown(bs)
      /\ \A b \in Blocks : \A i \in DOMAIN blocks[b] : i \in DOMAIN bs[b] /\ bs[b][i] = blocks[b][i]
  <2>1. PICK insts : insts = <<>>
    OBVIOUS
  <2>2. insts \in Seq(Instructions(Len(bs))) /\ Extended(bs, insts, k) /\ GenTypeOK
    BY <1>2, <2>1 DEF GenInv
  <2>3. \A i \in DOMAIN insts :
          /\ Branches(insts[i]) => insts[i].to \in Settled
          /\ insts[i].op = "cond" => insts[i].other \in Settled
    BY <2>1
  <2> QED BY <2>2, <2>3, ExtendedGrows
<1>5. Keeps(bs, {})
  BY <1>4 DEF Keeps
<1>6. bs \in Seq(Seq(Instructions(Len(bs))))
  BY <1>2 DEF Extended
<1>7. insertBB \in Settled /\ insertBB \in 1 .. Len(bs)
  BY <1>3, InsertSettled
<1> QED BY <1>1, <1>3, <1>4, <1>5, <1>6, <1>7 DEF Rewritten

LEMMA StepIf == GenInv /\ GenIf => GenInv'
<1> SUFFICES ASSUME GenInv, GenIf PROVE GenInv'
  OBVIOUS
<1> DEFINE s == agenda[1].s
           L == Len(lists)
<1>1. /\ agenda # <<>> /\ agenda[1].t = "stmt" /\ blocks' = WithNew(blocks, 2) /\ lists' = lists /\ insertBB' = insertBB
      /\ s.c \in Conditions /\ s.s \in Statements /\ L \in Nat
  BY StmtParts, HeadTask DEF GenIf, Stmt, Task
<1>2. Rewritten /\ Keeps(blocks', {}) /\ Len(blocks') = Len(blocks) + 2
  BY <1>1, NewStep
<1>3. Relisted
  BY <1>1, <1>2, RelistSame
<1>4. PICK then, end : then = New(1) /\ end = New(2)
  OBVIOUS
<1>5. then \in Settled /\ end \in Settled /\ then \in 1 .. Len(blocks') /\ end \in 1 .. Len(blocks')
  BY <1>2, <1>4, NewSettled, BlockFacts DEF GenInv, New
<1> DEFINE tasks == <<[t |-> "cond", c |-> s.c],
                      [t |-> "branch", yes |-> then, no |-> end],
                      [t |-> "stmt", s |-> s.s],
                      [t |-> "jump", to |-> end, next |-> end]>>
<1>6. agenda' = tasks \o Tail(agenda)
  BY <1>4 DEF GenIf, Replace
<1>7. tasks \in Seq(Tasks(Len(blocks')))
  <2> HIDE DEF s
  <2> QED BY <1>1, <1>5 DEF Tasks
<1>8. \A i \in DOMAIN tasks : Named(tasks[i]) \subseteq Settled
  <2> HIDE DEF s
  <2> QED BY <1>5 DEF Named
<1>9. Balance(tasks, L, L)
  <2> HIDE DEF s
  <2>1. Heights(tasks, <<L, L + 1, L, L, L>>)
    BY <1>1, SMTT(20) DEF Heights, Takes, Gives
  <2> QED BY <1>1, <2>1 DEF Balance
<1>10. Replaced(tasks)
  <2>1. Takes(agenda[1]) = 0 /\ Gives(agenda[1]) = 0
    BY <1>1 DEF Takes, Gives
  <2> HIDE DEF tasks
  <2> QED BY <1>1, <1>6, <1>7, <1>8, <1>9, <2>1 DEF Replaced
<1> QED BY <1>2, <1>3, <1>10, GenStep DEF GenIf

LEMMA StepIfElse == GenInv /\ GenIfElse => GenInv'
<1> SUFFICES ASSUME GenInv, GenIfElse PROVE GenInv'
  OBVIOUS
<1> DEFINE s == agenda[1].s
           L == Len(lists)
<1>1. /\ agenda # <<>> /\ agenda[1].t = "stmt" /\ blocks' = WithNew(blocks, 3) /\ lists' = lists /\ insertBB' = insertBB
      /\ s.c \in Conditions /\ s.s \in Statements /\ s.e \in Statements /\ L \in Nat
  BY StmtParts, HeadTask DEF GenIfElse, Stmt, Task
<1>2. Rewritten /\ Keeps(blocks', {}) /\ Len(blocks') = Len(blocks) + 3
  BY <1>1, NewStep
<1>3. Relisted
  BY <1>1, <1>2, RelistSame
<1>4. PICK then, else, end : then = New(1) /\ else = New(2) /\ end = New(3)
  OBVIOUS
<1>5. /\ then \in Settled /\ else \in Settled /\ end \in Settled
      /\ then \in 1 .. Len(blocks') /\ else \in 1 .. Len(blocks') /\ end \in 1 .. Len(blocks')
  BY <1>2, <1>4, NewSettled, BlockFacts DEF GenInv, New
<1> DEFINE tasks == <<[t |-> "cond", c |-> s.c], [t |-> "branch", yes |-> then, no |-> else],
                      [t |-> "stmt", s |-> s.s], [t |-> "jump", to |-> end, next |-> else],
                      [t |-> "stmt", s |-> s.e], [t |-> "jump", to |-> end, next |-> end]>>
<1>6. agenda' = tasks \o Tail(agenda)
  BY <1>4 DEF GenIfElse, Replace
<1>7. tasks \in Seq(Tasks(Len(blocks')))
  <2> HIDE DEF s
  <2> QED BY <1>1, <1>5 DEF Tasks
<1>8. \A i \in DOMAIN tasks : Named(tasks[i]) \subseteq Settled
  <2> HIDE DEF s
  <2> QED BY <1>5 DEF Named
<1>9. Balance(tasks, L, L)
  <2> HIDE DEF s
  <2>1. Heights(tasks, <<L, L + 1, L, L, L, L, L>>)
    BY <1>1, SMTT(60) DEF Heights, Takes, Gives
  <2> QED BY <1>1, <2>1 DEF Balance
<1>10. Replaced(tasks)
  <2>1. Takes(agenda[1]) = 0 /\ Gives(agenda[1]) = 0
    BY <1>1 DEF Takes, Gives
  <2> HIDE DEF tasks
  <2> QED BY <1>1, <1>6, <1>7, <1>8, <1>9, <2>1 DEF Replaced
<1> QED BY <1>2, <1>3, <1>10, GenStep DEF GenIfElse

LEMMA StepAndOr == GenInv /\ GenAndOr => GenInv'
<1> SUFFICES ASSUME GenInv, GenAndOr PROVE GenInv'
  OBVIOUS
<1> DEFINE c == agenda[1].c
           L == Len(lists)
<1>1. /\ agenda # <<>> /\ agenda[1].t = "cond" /\ blocks' = WithNew(blocks, 1) /\ lists' = lists /\ insertBB' = insertBB
      /\ c.k \in {"and", "or"} /\ c.l \in Conditions /\ c.r \in Conditions /\ L \in Nat
  BY CondParts, HeadTask DEF GenAndOr, Cond, Task
<1>2. Rewritten /\ Keeps(blocks', {}) /\ Len(blocks') = Len(blocks) + 1
  BY <1>1, NewStep
<1>3. Relisted
  BY <1>1, <1>2, RelistSame
<1>4. PICK bb : bb = New(1)
  OBVIOUS
<1>5. bb \in Settled /\ bb \in 1 .. Len(blocks')
  BY <1>2, <1>4, NewSettled, BlockFacts DEF GenInv, New
<1> DEFINE tasks == <<[t |-> "cond", c |-> c.l], [t |-> "left", op |-> c.k, bb |-> bb],
                      [t |-> "cond", c |-> c.r], [t |-> "right", op |-> c.k]>>
<1>6. agenda' = tasks \o Tail(agenda)
  BY <1>4 DEF GenAndOr, Replace
<1>7. tasks \in Seq(Tasks(Len(blocks')))
  <2> HIDE DEF c
  <2> QED BY <1>1, <1>5 DEF Tasks
<1>8. \A i \in DOMAIN tasks : Named(tasks[i]) \subseteq Settled
  <2> HIDE DEF c
  <2> QED BY <1>5 DEF Named
<1>9. Balance(tasks, L, L + 1)
  <2> HIDE DEF c
  <2>1. Heights(tasks, <<L, L + 1, L + 1, L + 2, L + 1>>)
    BY <1>1 DEF Heights, Takes, Gives
  <2> QED BY <1>1, <2>1 DEF Balance
<1>10. Replaced(tasks)
  <2>1. Takes(agenda[1]) = 0 /\ Gives(agenda[1]) = 1
    BY <1>1 DEF Takes, Gives
  <2> HIDE DEF tasks
  <2> QED BY <1>1, <1>6, <1>7, <1>8, <1>9, <2>1 DEF Replaced
<1> QED BY <1>2, <1>3, <1>10, GenStep DEF GenAndOr

LEMMA StepWhile == GenInv /\ GenWhile => GenInv'
<1> SUFFICES ASSUME GenInv, GenWhile PROVE GenInv'
  OBVIOUS
<1> DEFINE s == agenda[1].s
           L == Len(lists)
<1>1. PICK while, then, end : while = New(1) /\ then = New(2) /\ end = New(3)
  OBVIOUS
<1> DEFINE tasks == <<[t |-> "cond", c |-> s.c], [t |-> "loop", yes |-> then, no |-> end, s |-> s.s]>>
           insts == <<Br(while)>>
<1>2. /\ agenda # <<>> /\ agenda[1].t = "stmt" /\ lists' = lists /\ insertBB' = while
      /\ s.c \in Conditions /\ s.s \in Statements /\ L \in Nat
      /\ blocks' = WithNew(Emit(blocks, insts), 3) /\ agenda' = tasks \o Tail(agenda)
  BY <1>1, StmtParts, HeadTask DEF GenWhile, Stmt, Task, Replace
<1>3. /\ Len(blocks) \in Nat /\ while \in Settled /\ then \in Settled /\ end \in Settled
      /\ \A x \in {while, then, end} : x \in 1 .. Len(blocks) + 3
  BY <1>1, NewSettled, BlockFacts DEF GenInv, New
<1>4. insts \in Seq(Instructions(Len(blocks) + 3))
  BY <1>3 DEF Br, Instructions
<1>5. PICK bs : bs = blocks'
  OBVIOUS
<1>6. Extended(bs, insts, 3)
  <2> HIDE DEF insts
  <2> QED BY <1>2, <1>4, <1>5, Extends DEF GenInv
<1>7. Len(bs) = Len(blocks) + 3
  BY <1>6 DEF Extended
<1>8. \A i \in DOMAIN insts :
        /\ Branches(insts[i]) => insts[i].to \in Settled
        /\ insts[i].op = "cond" => insts[i].other \in Settled
  BY <1>3 DEF Br
<1>9. /\ Grown(bs)
      /\ \A b \in Blocks : \A i \in DOMAIN blocks[b] : i \in DOMAIN bs[b] /\ bs[b][i] = blocks[b][i]
  <2> HIDE DEF insts
  <2>1. insts \in Seq(Instructions(Len(bs)))
    BY <1>4, <1>7
  <2> QED BY <1>6, <1>8, <2>1, ExtendedGrows DEF GenInv
<1>10. Keeps(bs, {})
  BY <1>9 DEF Keeps
<1>11. Rewritten
  <2>1. bs \in Seq(Seq(Instructions(Len(bs))))
    BY <1>6 DEF Extended
  <2> QED BY <1>2, <1>3, <1>5, <1>7, <1>9, <2>1 DEF Rewritten
<1>12. Relisted
  BY <1>2, <1>5, <1>10, RelistSame
<1>13. tasks \in Seq(Tasks(Len(blocks')))
  <2> HIDE DEF s
  <2> QED BY <1>2, <1>3, <1>5, <1>7 DEF Tasks
<1>14. \A i \in DOMAIN tasks : Named(tasks[i]) \subseteq Settled
  <2> HIDE DEF s
  <2> QED BY <1>3 DEF Named
<1>15. Balance(tasks, L, L)
  <2> HIDE DEF s
  <2>1. Heights(tasks, <<L, L + 1, L>>)
    BY <1>2 DEF Heights, Takes, Gives
  <2> QED BY <1>2, <2>1 DEF Balance
<1>16. Replaced(tasks)
  <2>1. Takes(agenda[1]) = 0 /\ Gives(agenda[1]) = 0
    BY <1>2 DEF Takes, Gives
  <2> HIDE DEF tasks
  <2> QED BY <1>2, <1>13, <1>14, <1>15, <2>1 DEF Replaced
<1> QED BY <1>11, <1>12, <1>16, GenStep DEF GenWhile

\* A step that patches places of the first lists.
LEMMA PatchStep ==
  ASSUME GenInv, NEW places, NEW x \in Settled, NEW y \in Settled, Patched(blocks', places, x, y),
         insertBB' \in Settled, insertBB' \in Blocks
  PROVE  Rewritten /\ Keeps(blocks', places) /\ Len(blocks') = Len(blocks)
<1>1. PICK bs : bs = blocks'
  OBVIOUS
<1>2. Patched(bs, places, x, y)
  BY <1>1
<1>3. Grown(bs) /\ Keeps(bs, places)
  BY <1>2, PatchedGrows DEF GenInv, Keeps
<1>4. bs \in Seq(Seq(Instructions(Len(bs)))) /\ Len(bs) = Len(blocks)
  BY <1>2 DEF Patched
<1>5. insertBB' \in 1 .. Len(bs)
  BY <1>4, BlockFacts DEF GenInv
<1> QED BY <1>1, <1>3, <1>4, <1>5 DEF Rewritten

LEMMA FirstPlaces ==
  ASSUME GenInv, Len(lists) >= 1
  PROVE  /\ 1 \in DOMAIN lists /\ lists[1].t \cap lists[1].f = {} /\ lists[1].t \cup lists[1].f = ListedBy(1)
         /\ \A b \in Blocks : \A i \in DOMAIN blocks[b] :
              <<b, i>> \in lists[1].t \cup lists[1].f => Branches(blocks[b][i])
<1>1. 1 \in DOMAIN lists
  BY BlockFacts DEF GenInv
<1>2. ASSUME NEW b \in Blocks, NEW i \in DOMAIN blocks[b], <<b, i>> \in ListedBy(1)
      PROVE  Branches(blocks[b][i])
  <2> DEFINE p == <<b, i>>
  <2>1. Branches(At(p))
    <3> HIDE DEF p
    <3> QED BY <1>1, <1>2, PlaceFacts DEF p
  <2> QED BY <2>1 DEF At
<1> QED BY <1>1, <1>2 DEF GenInv, ListsApart, ListedBy

LEMMA StepBranches == GenInv /\ PatchBranches => GenInv'
<1> SUFFICES ASSUME GenInv, PatchBranches PROVE GenInv'
  OBVIOUS
<1> DEFINE yes == agenda[1].yes
           no == agenda[1].no
<1>1. /\ agenda # <<>> /\ agenda[1].t = "branch" /\ Takes(agenda[1]) = 1 /\ Gives(agenda[1]) = 0
      /\ yes \in Blocks /\ no \in Blocks /\ Len(lists) \in Nat /\ Len(lists) >= 1
  BY TaskTypes, HeadTask DEF PatchBranches, Task, Takes, Gives
<1>2. yes \in Settled /\ no \in Settled
  BY <1>1, HeadTask DEF Named
<1>3. Patched(blocks', ListedBy(1), yes, no)
  BY <1>1, FirstPlaces, PatchTwice DEF PatchBranches, GenInv
<1>4. Rewritten /\ Keeps(blocks', ListedBy(1))
  BY <1>1, <1>2, <1>3, PatchStep DEF PatchBranches
<1>5. Relisted
  BY <1>1, <1>4, RelistTail DEF PatchBranches
<1>6. Replaced(<<>>)
  <2>1. Len(lists') \in Nat /\ Len(lists') + 1 = Len(lists)
    <3>1. Len(Tail(lists)) = Len(lists) - 1
      BY <1>1 DEF GenInv, GenTypeOK
    <3> QED BY <1>1, <3>1 DEF PatchBranches
  <2>2. Balance(<<>>, Len(lists'), Len(lists'))
    BY <2>1, NoTasks
  <2> QED BY <1>1, <2>1, <2>2 DEF Replaced, PatchBranches, Replace
<1> QED BY <1>4, <1>5, <1>6, GenStep DEF PatchBranches

LEMMA StepWhileCond == GenInv /\ WhileCondDone => GenInv'
<1> SUFFICES ASSUME GenInv, WhileCondDone PROVE GenInv'
  OBVIOUS
<1> DEFINE yes == agenda[1].yes
           no == agenda[1].no
           body == agenda[1].s
           tasks == <<[t |-> "stmt", s |-> body], [t |-> "jump", to |-> insertBB, next |-> no]>>
<1>1. /\ agenda # <<>> /\ agenda[1].t = "loop" /\ Takes(agenda[1]) = 1 /\ Gives(agenda[1]) = 0
      /\ yes \in Blocks /\ no \in Blocks /\ body \in Statements /\ Len(lists) \in Nat /\ Len(lists) >= 1
  BY TaskTypes, HeadTask DEF WhileCondDone, Task, Takes, Gives
<1>2. yes \in Settled /\ no \in Settled /\ insertBB \in Settled /\ insertBB \in Blocks
  BY <1>1, HeadTask, InsertSettled, BlockFacts DEF Named, GenInv
<1>3. Patched(blocks', ListedBy(1), yes, no)
  BY <1>1, FirstPlaces, PatchTwice DEF WhileCondDone, GenInv
<1>4. Rewritten /\ Keeps(blocks', ListedBy(1)) /\ Len(blocks') = Len(blocks)
  BY <1>1, <1>2, <1>3, PatchStep DEF WhileCondDone
<1>5. Relisted
  BY <1>1, <1>4, RelistTail DEF WhileCondDone
<1>6. agenda' = tasks \o Tail(agenda) /\ lists' = Tail(lists)
  BY DEF WhileCondDone, Replace
<1>7. tasks \in Seq(Tasks(Len(blocks')))
  <2>1. Blocks = 1 .. Len(blocks')
    BY <1>4, BlockFacts DEF GenInv
  <2> HIDE DEF yes, no, body
  <2> QED BY <1>1, <1>2, <2>1 DEF Tasks
<1>8. \A i \in DOMAIN tasks : Named(tasks[i]) \subseteq Settled
  <2> HIDE DEF no, body
  <2> QED BY <1>2 DEF Named
<1>9. Len(lists') \in Nat /\ Len(lists') + 1 = Len(lists)
  <2>1. Len(Tail(lists)) = Len(lists) - 1
    BY <1>1 DEF GenInv, GenTypeOK
  <2> QED BY <1>1, <1>6, <2>1
<1>10. Balance(tasks, Len(lists'), Len(lists'))
  <2> DEFINE L == Len(lists')
  <2> HIDE DEF no, body, L
  <2>1. L \in Nat
    BY <1>9 DEF L
  <2>2. Heights(tasks, <<L, L, L>>)
    BY <2>1 DEF Heights, Takes, Gives
  <2>3. Balance(tasks, L, L)
    BY <2>1, <2>2 DEF Balance
  <2> QED BY <2>3 DEF L
<1>11. Replaced(tasks)
  <2> HIDE DEF tasks
  <2> QED BY <1>1, <1>6, <1>7, <1>8, <1>9, <1>10 DEF Replaced
<1> QED BY <1>4, <1>5, <1>11, GenStep DEF WhileCondDone

LEMMA StepLeft == GenInv /\ PatchLeft => GenInv'
<1> SUFFICES ASSUME GenInv, PatchLeft PROVE GenInv'
  OBVIOUS
<1>1. /\ agenda # <<>> /\ agenda[1].t = "left" /\ Takes(agenda[1]) = 1 /\ Gives(agenda[1]) = 1
      /\ agenda[1].bb \in Blocks /\ Len(lists) \in Nat /\ Len(lists) >= 1
  BY TaskTypes, HeadTask DEF PatchLeft, Task, Takes, Gives
<1>2. PICK bb : bb = agenda[1].bb /\ bb \in Settled /\ bb \in Blocks
  BY <1>1, HeadTask DEF Named
<1>3. PICK side \in {"t", "f"} : /\ blocks' = BackPatch(blocks, lists[1][side], bb)
                                 /\ lists' = [lists EXCEPT ![1][side] = {}]
  BY <1>2 DEF PatchLeft
<1>4. PICK places : places = lists[1][side]
  OBVIOUS
<1>5. lists \in Seq(PlaceSets) /\ DOMAIN lists = 1 .. Len(lists) /\ lists[1] \in PlaceSets
  <2>1. lists \in Seq(PlaceSets)
    BY DEF GenInv, GenTypeOK, PlaceSets
  <2> HIDE DEF PlaceSets
  <2> QED BY <1>1, <2>1
<1> DEFINE first == [lists[1] EXCEPT ![side] = {}]
<1>6. /\ first \in PlaceSets /\ first.t \cap first.f = {}
      /\ first.t \cup first.f = ListedBy(1) \ places /\ places \subseteq ListedBy(1)
  <2>1. lists[1].t \cap lists[1].f = {}
    BY <1>1, FirstPlaces
  <2>2. CASE side = "t"
    BY <1>4, <1>5, <2>1, <2>2 DEF PlaceSets, ListedBy
  <2>3. CASE side = "f"
    BY <1>4, <1>5, <2>1, <2>3 DEF PlaceSets, ListedBy
  <2> QED BY <2>2, <2>3
<1> HIDE DEF first
<1>7. /\ lists' \in Seq(PlaceSets) /\ Len(lists') = Len(lists) /\ DOMAIN lists' = 1 .. Len(lists)
      /\ \A n \in 1 .. Len(lists) : lists'[n] = IF n = 1 THEN first ELSE lists[n]
  <2>1. lists' = [n \in 1 .. Len(lists) |-> IF n = 1 THEN first ELSE lists[n]]
    BY <1>3, <1>5 DEF first
  <2> HIDE DEF PlaceSets
  <2>2. lists' \in [1 .. Len(lists) -> PlaceSets]
    BY <1>5, <1>6, <2>1
  <2> QED BY <1>1, <2>1, <2>2
<1>8. \A n \in 1 .. Len(lists) : ListedBy(n)' = IF n = 1 THEN ListedBy(1) \ places ELSE ListedBy(n)
  BY <1>6, <1>7 DEF ListedBy
<1>9. ListsApart'
  <2>1. ASSUME NEW n \in 1 .. Len(lists) PROVE lists'[n].t \cap lists'[n].f = {}
    BY <1>5, <1>6, <1>7 DEF GenInv, ListsApart
  <2>2. ASSUME NEW n \in 1 .. Len(lists), NEW m \in 1 .. Len(lists), m # n PROVE ListedBy(m)' \cap ListedBy(n)' = {}
    <3>1. ListedBy(m) \cap ListedBy(n) = {}
      BY <1>5, <2>2 DEF GenInv, ListsApart
    <3>2. ListedBy(m)' \subseteq ListedBy(m) /\ ListedBy(n)' \subseteq ListedBy(n)
      BY <1>8
    <3> QED BY <3>1, <3>2
  <2> QED BY <1>7, <2>1, <2>2 DEF ListsApart
<1>10. ASSUME NEW n \in DOMAIN lists', NEW p \in lists'[n].t \cup lists'[n].f
       PROVE  p \notin places /\ \E m \in DOMAIN lists : p \in ListedBy(m)
  <2>1. CASE n = 1
    BY <1>1, <1>5, <1>6, <1>7, <2>1
  <2>2. CASE n # 1
    <3>1. p \in ListedBy(n) /\ n \in DOMAIN lists /\ 1 \in DOMAIN lists
      BY <1>1, <1>5, <1>7, <2>2 DEF ListedBy
    <3>2. ListedBy(1) \cap ListedBy(n) = {}
      BY <2>2, <3>1 DEF GenInv, ListsApart
    <3> QED BY <1>6, <3>1, <3>2
  <2> QED BY <2>1, <2>2
<1>11. Patched(blocks', places, bb, bb)
  <2>1. \A b \in Blocks : \A i \in DOMAIN blocks[b] : <<b, i>> \in places => Branches(blocks[b][i])
    BY <1>1, <1>6, FirstPlaces
  <2> QED BY <1>2, <1>3, <1>4, <2>1, PatchOne DEF GenInv
<1>12. Rewritten /\ Keeps(blocks', places)
  BY <1>2, <1>11, PatchStep DEF PatchLeft
<1>13. Relisted
  BY <1>7, <1>9, <1>10, <1>12, Relist
<1>14. Replaced(<<>>)
  <2>1. Balance(<<>>, Len(lists'), Len(lists))
    BY <1>1, <1>7, NoTasks
  <2> QED BY <1>1, <2>1 DEF Replaced, PatchLeft, Replace
<1> QED BY <1>12, <1>13, <1>14, GenStep DEF PatchLeft

LEMMA StepMerge == GenInv /\ MergeLists => GenInv'
<1> SUFFICES ASSUME GenInv, MergeLists PROVE GenInv'
  OBVIOUS
<1>1. /\ agenda # <<>> /\ agenda[1].t = "right" /\ Takes(agenda[1]) = 2 /\ Gives(agenda[1]) = 1
      /\ Len(lists) \in Nat /\ Len(lists) >= 2 /\ blocks' = blocks /\ insertBB' = insertBB
  BY HeadTask DEF MergeLists, Task, Takes, Gives
<1>2. lists \in Seq(PlaceSets) /\ DOMAIN lists = 1 .. Len(lists) /\ lists[1] \in PlaceSets /\ lists[2] \in PlaceSets
  <2>1. lists \in Seq(PlaceSets)
    BY DEF GenInv, GenTypeOK, PlaceSets
  <2> HIDE DEF PlaceSets
  <2> QED BY <1>1, <2>1
<1> DEFINE r == lists[1]
           l == lists[2]
           merged == IF agenda[1].op = "and" THEN [t |-> r.t, f |-> l.f \cup r.f]
                                             ELSE [t |-> l.t \cup r.t, f |-> r.f]
           others == SubSeq(lists, 3, Len(lists))
<1>3. merged \in PlaceSets /\ merged.t \cap merged.f = {} /\ merged.t \cup merged.f \subseteq ListedBy(1) \cup ListedBy(2)
  <2>1. r.t \cap r.f = {} /\ ListedBy(1) \cap ListedBy(2) = {}
    BY <1>1, <1>2 DEF GenInv, ListsApart
  <2>2. r \in PlaceSets /\ l \in PlaceSets /\ ListedBy(1) = r.t \cup r.f /\ ListedBy(2) = l.t \cup l.f
    BY <1>2 DEF ListedBy
  <2> HIDE DEF r, l
  <2>3. CASE agenda[1].op = "and"
    BY <2>1, <2>2, <2>3 DEF PlaceSets
  <2>4. CASE agenda[1].op # "and"
    BY <2>1, <2>2, <2>4 DEF PlaceSets
  <2> QED BY <2>3, <2>4
<1>4. lists' = <<merged>> \o others
  BY DEF MergeLists
<1> HIDE DEF merged
<1>5. /\ others \in Seq(PlaceSets) /\ Len(others) = Len(lists) - 2
      /\ \A n \in 1 .. Len(lists) - 2 : others[n] = lists[n + 2]
  <2> HIDE DEF PlaceSets
  <2> QED BY <1>1, <1>2
<1> HIDE DEF others
<1>6. /\ lists' \in Seq(PlaceSets) /\ Len(lists') = Len(lists) - 1 /\ DOMAIN lists' = 1 .. Len(lists) - 1
      /\ lists'[1] = merged
      /\ \A n \in 2 .. Len(lists) - 1 : n + 1 \in DOMAIN lists /\ lists'[n] = lists[n + 1]
  <2>1. <<merged>> \in Seq(PlaceSets) /\ Len(<<merged>>) = 1 /\ <<merged>>[1] = merged
    BY <1>3
  <2> DEFINE one == <<merged>>
  <2> HIDE DEF PlaceSets, one
  <2>2. /\ one \o others \in Seq(PlaceSets) /\ Len(one \o others) = 1 + (Len(lists) - 2)
        /\ \A i \in 1 .. 1 : (one \o others)[i] = one[i]
        /\ \A i \in 1 + 1 .. 1 + (Len(lists) - 2) : (one \o others)[i] = others[i - 1]
    BY <1>5, <2>1, Joined DEF one
  <2>3. lists' = one \o others
    BY <1>4 DEF one
  <2>4. ASSUME NEW n \in 2 .. Len(lists) - 1
        PROVE  n + 1 \in DOMAIN lists /\ lists'[n] = lists[n + 1]
    <3>1. n \in 1 + 1 .. 1 + (Len(lists) - 2) /\ n - 1 \in 1 .. Len(lists) - 2 /\ (n - 1) + 2 = n + 1 /\ n + 1 \in DOMAIN lists
      BY <1>1, <1>2
    <3>2. lists'[n] = others[n - 1] /\ others[n - 1] = lists[(n - 1) + 2]
      BY <1>5, <2>2, <2>3, <3>1
    <3> QED BY <3>1, <3>2
  <2> QED BY <1>1, <2>1, <2>2, <2>3, <2>4 DEF one
<1>7. ASSUME NEW n \in DOMAIN lists'
      PROVE  IF n = 1 THEN ListedBy(n)' \subseteq ListedBy(1) \cup ListedBy(2) ELSE n + 1 \in DOMAIN lists /\ ListedBy(n)' = ListedBy(n + 1)
  BY <1>1, <1>3, <1>6 DEF ListedBy
<1>8. ListsApart'
  <2>1. ASSUME NEW n \in DOMAIN lists' PROVE lists'[n].t \cap lists'[n].f = {}
    <3>1. CASE n = 1
      BY <1>3, <1>6, <3>1
    <3>2. CASE n # 1
      <4>1. n + 1 \in DOMAIN lists /\ lists'[n] = lists[n + 1]
        BY <1>1, <1>6, <3>2
      <4> QED BY <4>1 DEF GenInv, ListsApart
    <3> QED BY <3>1, <3>2
  <2>2. ASSUME NEW n \in DOMAIN lists', NEW m \in DOMAIN lists', m # n PROVE ListedBy(m)' \cap ListedBy(n)' = {}
    <3>0. \A a \in DOMAIN lists : \A b \in DOMAIN lists : a # b => ListedBy(a) \cap ListedBy(b) = {}
      BY DEF GenInv, ListsApart
    <3>1. n \in Nat /\ m \in Nat /\ n >= 1 /\ m >= 1 /\ 1 \in DOMAIN lists /\ 2 \in DOMAIN lists
      BY <1>1, <1>2, <1>6
    <3>2. CASE n = 1
      <4>1. m + 1 \in DOMAIN lists /\ m + 1 # 1 /\ m + 1 # 2 /\ ListedBy(m)' = ListedBy(m + 1)
        BY <1>7, <2>2, <3>1, <3>2
      <4>2. ListedBy(n)' \subseteq ListedBy(1) \cup ListedBy(2)
        BY <1>7, <3>2
      <4>3. ListedBy(1) \cap ListedBy(m + 1) = {} /\ ListedBy(2) \cap ListedBy(m + 1) = {}
        BY <3>0, <3>1, <4>1
      <4> QED BY <4>1, <4>2, <4>3
    <3>3. CASE m = 1
      <4>1. n + 1 \in DOMAIN lists /\ n + 1 # 1 /\ n + 1 # 2 /\ ListedBy(n)' = ListedBy(n + 1)
        BY <1>7, <2>2, <3>1, <3>3
      <4>2. ListedBy(m)' \subseteq ListedBy(1) \cup ListedBy(2)
        BY <1>7, <3>3
      <4>3. ListedBy(1) \cap ListedBy(n + 1) = {} /\ ListedBy(2) \cap ListedBy(n + 1) = {}
        BY <3>0, <3>1, <4>1
      <4> QED BY <4>1, <4>2, <4>3
    <3>4. CASE n # 1 /\ m # 1
      <4>1. /\ n + 1 \in DOMAIN lists /\ m + 1 \in DOMAIN lists /\ n + 1 # m + 1
            /\ ListedBy(n)' = ListedBy(n + 1) /\ ListedBy(m)' = ListedBy(m + 1)
        BY <1>7, <2>2, <3>1, <3>4
      <4> QED BY <3>0, <4>1
    <3> QED BY <3>2, <3>3, <3>4
  <2> QED BY <2>1, <2>2 DEF ListsApart
<1>9. ASSUME NEW n \in DOMAIN lists', NEW p \in lists'[n].t \cup lists'[n].f
      PROVE  p \notin {} /\ \E m \in DOMAIN lists : p \in ListedBy(m)
  <2>1. p \in ListedBy(n)' /\ 1 \in DOMAIN lists /\ 2 \in DOMAIN lists
    BY <1>1, <1>2 DEF ListedBy
  <2> QED BY <1>7, <2>1
<1>10. Rewritten /\ Keeps(blocks', {})
  BY <1>1, SameBlocks, BlockFacts, InsertSettled DEF Rewritten, GenInv
<1>11. Relisted
  BY <1>6, <1>8, <1>9, <1>10, Relist
<1>12. Replaced(<<>>)
  <2>1. Len(lists') \in Nat /\ Len(lists') + 2 = Len(lists) + 1
    BY <1>1, <1>6
  <2>2. Balance(<<>>, Len(lists'), Len(lists'))
    BY <2>1, NoTasks
  <2> QED BY <1>1, <2>1, <2>2 DEF Replaced, MergeLists, Replace
<1> QED BY <1>10, <1>11, <1>12, GenStep DEF MergeLists

LEMMA OldNames ==
  ASSUME GenInv, agenda # <<>>, agenda' = <<>> \o Tail(agenda)
  PROVE  \A i \in DOMAIN agenda' : Named(agenda'[i]) \subseteq Blocks
<1> DEFINE T == Tasks(Len(blocks))
<1>1. ASSUME NEW x \in T PROVE Named(x) \subseteq Blocks
  BY <1>1, BlockFacts DEF Tasks, Named, GenInv
<1>2. agenda \in Seq(T)
  BY DEF GenInv, GenTypeOK
<1> HIDE DEF T
<1>3. agenda' = Tail(agenda)
  BY <1>2
<1>4. \A i \in DOMAIN agenda' : agenda'[i] \in T
  BY <1>2, <1>3
<1> QED BY <1>1, <1>4

LEMMA StepLeaf == GenInv /\ GenLeaf => GenInv'
<1> SUFFICES ASSUME GenInv, GenLeaf PROVE GenInv'
  OBVIOUS
<1>0. PICK n, here, place : n = Len(blocks) /\ here = insertBB /\ place = Len(blocks[insertBB]) + 2
  OBVIOUS
<1> DEFINE insts == <<Eval(agenda[1].c.id), CondBr(n + 1, n + 3)>>
           bs0 == WithNew(Emit(blocks, insts), 3)
           new == [t |-> {<<here, place>>}, f |-> {<<n + 3, 1>>}]
<1>1. /\ agenda # <<>> /\ agenda[1].t = "cond" /\ agenda[1].c.id \in Ids
      /\ Takes(agenda[1]) = 0 /\ Gives(agenda[1]) = 1 /\ insertBB' = here
  BY <1>0, CondParts DEF GenLeaf, Cond, Task, Takes, Gives
<1>2. /\ n \in Nat /\ Blocks = 1 .. n /\ here \in Blocks /\ here \in Settled /\ place \in Nat /\ place - 2 \in Nat
      /\ Len(blocks[here]) = place - 2 /\ DOMAIN blocks[here] = 1 .. place - 2 /\ blocks[here] \in Seq(Instructions(n))
  BY <1>0, BlockFacts, InsertSettled DEF GenInv
<1>3. n + 1 \in Settled /\ n + 2 \in Settled /\ n + 3 \in Settled
  BY <1>0, <1>2 DEF Settled
<1>4. insts \in Seq(Instructions(n + 3)) /\ insts[1].op = "eval" /\ insts[2] = CondBr(n + 1, n + 3) /\ Len(insts) = 2
  <2>1. Eval(agenda[1].c.id) \in Instructions(n + 3) /\ Eval(agenda[1].c.id).op = "eval"
    <3> HIDE DEF Ids
    <3> QED BY <1>1 DEF Eval, Instructions
  <2>2. CondBr(n + 1, n + 3) \in Instructions(n + 3)
    BY <1>2 DEF CondBr, Instructions
  <2> QED BY <2>1, <2>2
<1>5. lists' = <<new>> \o lists /\ blocks' = [bs0 EXCEPT ![n + 3] = <<Br(n + 2)>>]
  BY <1>0 DEF GenLeaf, New
<1> HIDE DEF insts
<1>6. Extended(bs0, insts, 3)
  BY <1>0, <1>2, <1>4, Extends DEF GenInv
<1> HIDE DEF bs0, new
<1>7. PICK bs : bs = blocks'
  OBVIOUS
<1>8. /\ bs0 \in Seq(Seq(Instructions(n + 3))) /\ DOMAIN bs0 = 1 .. n + 3
      /\ \A b \in Blocks : bs0[b] = IF b = here THEN blocks[b] \o insts ELSE blocks[b]
      /\ \A b \in n + 1 .. n + 3 : bs0[b] = <<>>
  BY <1>0, <1>2, <1>6, SeqOfSeqs DEF Extended
<1>9. /\ bs \in Seq(Seq(Instructions(n + 3))) /\ Len(bs) = n + 3 /\ DOMAIN bs = 1 .. n + 3
      /\ \A b \in Blocks : bs[b] = bs0[b]
      /\ bs[n + 1] = <<>> /\ bs[n + 2] = <<>> /\ bs[n + 3] = <<Br(n + 2)>>
  <2> DEFINE S == Seq(Instructions(n + 3))
  <2>1. <<Br(n + 2)>> \in S
    BY <1>2 DEF Br, Instructions
  <2>2. bs0 \in Seq(S) /\ Len(bs0) = n + 3
    BY <1>2, <1>8, SMTT(20)
  <2> HIDE DEF S
  <2>3. bs = [bs0 EXCEPT ![n + 3] = <<Br(n + 2)>>]
    BY <1>5, <1>7
  <2>4. bs = [b \in 1 .. n + 3 |-> IF b = n + 3 THEN <<Br(n + 2)>> ELSE bs0[b]]
    BY <1>8, <2>3
  <2>5. bs \in Seq(S) /\ Len(bs) = n + 3
    BY <1>2, <2>1, <2>2, <2>4
  <2>6. n + 1 \in n + 1 .. n + 3 /\ n + 2 \in n + 1 .. n + 3 /\ n + 3 \in 1 .. n + 3
        /\ n + 1 \in 1 .. n + 3 /\ n + 2 \in 1 .. n + 3 /\ n + 1 # n + 3 /\ n + 2 # n + 3
    BY <1>2
  <2>7. \A b \in Blocks : b \in 1 .. n + 3 /\ b # n + 3
    BY <1>2
  <2> QED BY <1>8, <2>4, <2>5, <2>6, <2>7 DEF S
<1>10. /\ DOMAIN bs[here] = 1 .. place /\ bs[here][place] = CondBr(n + 1, n + 3)
       /\ bs[here][place - 1].op = "eval"
       /\ \A i \in 1 .. place - 2 : bs[here][i] = blocks[here][i]
  <2> DEFINE T == Instructions(n + 3)
             s == blocks[here]
  <2>1. s \in Seq(T)
    <3>1. Instructions(n) \subseteq T
      BY <1>2, MoreBlocks
    <3> HIDE DEF T
    <3> QED BY <1>2, <3>1, SeqOfMore
  <2>2. Len(s) = place - 2 /\ place - 2 \in Nat
    BY <1>2
  <2> HIDE DEF T, s
  <2>3. /\ s \o insts \in Seq(T) /\ Len(s \o insts) = Len(s) + 2
        /\ \A i \in 1 .. Len(s) : (s \o insts)[i] = s[i]
        /\ \A i \in Len(s) + 1 .. Len(s) + 2 : (s \o insts)[i] = insts[i - Len(s)]
    <3>1. insts \in Seq(T) /\ Len(insts) = 2
      BY <1>4 DEF T
    <3>2. /\ s \o insts \in Seq(T) /\ Len(s \o insts) = Len(s) + Len(insts)
          /\ \A i \in 1 .. Len(s) : (s \o insts)[i] = s[i]
          /\ \A i \in Len(s) + 1 .. Len(s) + Len(insts) : (s \o insts)[i] = insts[i - Len(s)]
      BY <2>1, <3>1, Joined
    <3> QED BY <3>1, <3>2
  <2>4. bs[here] = s \o insts
    BY <1>2, <1>8, <1>9 DEF s
  <2>5. Len(s) + 2 = place /\ DOMAIN (s \o insts) = 1 .. place
    BY <1>2, <2>2, <2>3
  <2>6. (s \o insts)[place - 1] = insts[1] /\ (s \o insts)[place] = insts[2]
    <3>1. /\ place - 1 \in Len(s) + 1 .. Len(s) + 2 /\ place \in Len(s) + 1 .. Len(s) + 2
          /\ (place - 1) - Len(s) = 1 /\ place - Len(s) = 2
      BY <1>2, <2>2
    <3> QED BY <2>3, <3>1
  <2> QED BY <1>4, <2>2, <2>3, <2>4, <2>5, <2>6 DEF s
<1>11. ASSUME NEW b \in DOMAIN bs, NEW i \in DOMAIN bs[b]
       PROVE  \/ Had(b, i) /\ bs[b][i] = blocks[b][i]
              \/ bs[b][i].op = "eval"
              \/ <<b, i>> = <<here, place>> /\ bs[b][i] = CondBr(n + 1, n + 3)
              \/ <<b, i>> = <<n + 3, 1>> /\ bs[b][i] = Br(n + 2)
  <2>1. CASE b = here
    <3>1. i \in 1 .. place
      BY <1>10, <2>1
    <3>2. CASE i = place \/ i = place - 1
      BY <1>10, <2>1, <3>2
    <3>3. CASE ~(i = place \/ i = place - 1)
      <4>1. i \in 1 .. place - 2
        BY <1>2, <3>1, <3>3
      <4> QED BY <1>2, <1>10, <2>1, <4>1 DEF Had
    <3> QED BY <3>2, <3>3
  <2>2. CASE b \in Blocks /\ b # here
    BY <1>8, <1>9, <2>2 DEF Had
  <2>3. CASE b \notin Blocks
    <3>1. b \in {n + 1, n + 2, n + 3}
      <4>1. b \in 1 .. n + 3 /\ b \notin 1 .. n
        BY <1>2, <1>9, <2>3
      <4> QED BY <1>2, <4>1
    <3> QED BY <1>9, <3>1
  <2> QED BY <2>1, <2>2, <2>3
<1>12. Keeps(bs, {})
  <2>1. ASSUME NEW b \in Blocks, NEW i \in DOMAIN blocks[b] PROVE i \in DOMAIN bs[b] /\ bs[b][i] = blocks[b][i]
    <3>1. CASE b = here
      <4>1. i \in 1 .. place - 2 /\ i \in 1 .. place
        BY <1>2, <3>1
      <4> QED BY <1>10, <3>1, <4>1
    <3>2. CASE b # here
      BY <1>8, <1>9, <3>2
    <3> QED BY <3>1, <3>2
  <2> QED BY <2>1 DEF Keeps
<1>13. Grown(bs)
  <2>1. n <= Len(bs)
    BY <1>2, <1>9
  <2>2. \A b \in Blocks : b \notin Settled => bs[b] = blocks[b]
    BY <1>2, <1>8, <1>9
  <2>3. ASSUME NEW b \in DOMAIN bs, NEW i \in DOMAIN bs[b]
        PROVE  \/ Had(b, i) /\ bs[b][i] = blocks[b][i]
               \/ /\ Branches(bs[b][i]) => bs[b][i].to \in Settled
                  /\ bs[b][i].op = "cond" => bs[b][i].other \in Settled
    BY <1>3, <1>11 DEF Branches, CondBr, Br
  <2> QED BY <1>0, <2>1, <2>2, <2>3 DEF Grown
<1>14. Rewritten
  BY <1>0, <1>1, <1>2, <1>7, <1>9, <1>13 DEF Rewritten
<1>15. agenda' = <<>> \o Tail(agenda)
  BY DEF GenLeaf, Replace
<1>16. \A i \in DOMAIN agenda' : Named(agenda[i])' \subseteq Blocks
  <2>1. \A i \in DOMAIN agenda' : Named(agenda'[i]) \subseteq Blocks
    BY <1>1, <1>15, OldNames
  <2> QED BY <2>1 DEF Named
<1>17. \A b \in Blocks : \A i \in DOMAIN blocks[b] :
         /\ Branches(blocks[b][i]) => blocks[b][i].to \in 1 .. n
         /\ blocks[b][i].op = "cond" => blocks[b][i].other \in 1 .. n
  BY <1>0, <1>2, BlockFacts, BranchTypes DEF GenInv
<1>18. ASSUME NEW b \in DOMAIN bs, NEW i \in DOMAIN bs[b]
       PROVE  /\ Branches(bs[b][i]) =>
                   \/ bs[b][i].to \in 1 .. n
                   \/ <<b, i>> = <<here, place>> /\ bs[b][i].to = n + 1
                   \/ <<b, i>> = <<n + 3, 1>> /\ bs[b][i].to = n + 2
              /\ bs[b][i].op = "cond" => bs[b][i].other \in 1 .. n \cup {n + 3}
  BY <1>11, <1>17 DEF Had, Branches, CondBr, Br
<1>19. Undecided(<<here, place>>)'
  <2>1. here \in DOMAIN bs /\ place \in DOMAIN bs[here] /\ bs[here][place] = CondBr(n + 1, n + 3)
    <3>1. here \in 1 .. n /\ place \in 1 .. place /\ 1 .. n \subseteq 1 .. n + 3
      BY <1>2
    <3> QED BY <1>9, <1>10, <3>1
  <2>2. CondBr(n + 1, n + 3).to = n + 1 /\ CondBr(n + 1, n + 3).op = "cond"
    BY DEF CondBr
  <2>3. n + 1 \notin 1 .. n /\ n + 1 # here /\ n + 1 # n + 2 /\ n + 1 # n + 3
    BY <1>2
  <2>4. \A b \in DOMAIN bs : \A i \in DOMAIN bs[b] :
          /\ Branches(bs[b][i]) /\ <<b, i>> # <<here, place>> => bs[b][i].to # n + 1
          /\ bs[b][i].op = "cond" => bs[b][i].other # n + 1
    BY <1>18, <2>3
  <2>5. \A i \in DOMAIN agenda' : n + 1 \notin Named(agenda[i])'
    BY <1>2, <1>16, <2>3
  <2> QED BY <1>1, <1>7, <1>9, <2>1, <2>2, <2>3, <2>4, <2>5 DEF Undecided, At, Blocks, Branches
<1>20. Undecided(<<n + 3, 1>>)'
  <2>1. n + 3 \in DOMAIN bs /\ 1 \in DOMAIN bs[n + 3] /\ bs[n + 3][1] = Br(n + 2)
    BY <1>2, <1>9, SMTT(20)
  <2>2. Br(n + 2).to = n + 2 /\ Br(n + 2).op = "br"
    BY DEF Br
  <2>3. n + 2 \notin 1 .. n /\ n + 2 # here /\ n + 1 # n + 2 /\ n + 2 # n + 3
    BY <1>2
  <2>4. \A b \in DOMAIN bs : \A i \in DOMAIN bs[b] :
          /\ Branches(bs[b][i]) /\ <<b, i>> # <<n + 3, 1>> => bs[b][i].to # n + 2
          /\ bs[b][i].op = "cond" => bs[b][i].other # n + 2
    BY <1>18, <2>3
  <2>5. \A i \in DOMAIN agenda' : n + 2 \notin Named(agenda[i])'
    BY <1>2, <1>16, <2>3
  <2> QED BY <1>1, <1>7, <1>9, <2>1, <2>2, <2>3, <2>4, <2>5 DEF Undecided, At, Blocks, Branches
<1>21. lists \in Seq(PlaceSets) /\ Len(lists) \in Nat /\ DOMAIN lists = 1 .. Len(lists)
  BY BlockFacts DEF GenInv, GenTypeOK, PlaceSets
<1>22. /\ new \in PlaceSets /\ new.t \cap new.f = {} /\ new.t \cup new.f = {<<here, place>>, <<n + 3, 1>>}
  <2>1. here # n + 3 /\ here \in Nat /\ n + 3 \in Nat
    BY <1>2
  <2>2. <<here, place>> # <<n + 3, 1>>
    BY <2>1
  <2>3. \A p : ~(p \in new.t /\ p \in new.f)
    BY <2>2 DEF new
  <2>4. new \in [t : SUBSET AllPlaces, f : SUBSET AllPlaces]
    BY <1>2, <2>1 DEF new, AllPlaces
  <2>5. new.t \cap new.f = {}
    <3> HIDE DEF new
    <3> QED BY <2>3
  <2>6. new.t \cup new.f = {<<here, place>>, <<n + 3, 1>>}
    BY DEF new
  <2>7. new \in PlaceSets
    <3> HIDE DEF new
    <3> QED BY <2>4, <2>5 DEF PlaceSets
  <2> QED BY <2>5, <2>6, <2>7
<1>23. /\ lists' \in Seq(PlaceSets) /\ DOMAIN lists' = 1 .. Len(lists) + 1 /\ Len(lists') = Len(lists) + 1
       /\ lists'[1] = new
       /\ \A k \in 2 .. Len(lists) + 1 : k - 1 \in DOMAIN lists /\ lists'[k] = lists[k - 1]
  <2> DEFINE one == <<new>>
  <2>1. one \in Seq(PlaceSets) /\ Len(one) = 1 /\ one[1] = new
    BY <1>22
  <2>2. lists' = one \o lists
    BY <1>5
  <2> HIDE DEF one, PlaceSets
  <2>3. /\ one \o lists \in Seq(PlaceSets) /\ Len(one \o lists) = Len(one) + Len(lists)
        /\ \A i \in 1 .. Len(one) : (one \o lists)[i] = one[i]
        /\ \A i \in Len(one) + 1 .. Len(one) + Len(lists) : (one \o lists)[i] = lists[i - Len(one)]
    BY <1>21, <2>1, Joined
  <2>4. \A k \in 2 .. Len(lists) + 1 : k - 1 \in DOMAIN lists /\ lists'[k] = lists[k - 1]
    BY <1>21, <2>1, <2>2, <2>3
  <2> QED BY <1>21, <2>1, <2>2, <2>3, <2>4
<1>24. \A k \in DOMAIN lists : ListedBy(k) \cap {<<here, place>>, <<n + 3, 1>>} = {}
  <2> SUFFICES ASSUME NEW k \in DOMAIN lists, NEW p \in ListedBy(k), p \in {<<here, place>>, <<n + 3, 1>>} PROVE FALSE
    OBVIOUS
  <2>1. p[1] \in Blocks /\ p[2] \in DOMAIN blocks[p[1]]
    BY PlaceFacts
  <2>2. CASE p = <<here, place>>
    <3>1. place \in 1 .. place - 2
      BY <1>2, <2>1, <2>2
    <3> QED BY <1>2, <3>1
  <2>3. CASE p = <<n + 3, 1>>
    <3>1. n + 3 \in 1 .. n
      BY <1>2, <2>1, <2>3
    <3> QED BY <1>2, <3>1
  <2> QED BY <2>2, <2>3
<1>25. \A k \in DOMAIN lists' : IF k = 1 THEN ListedBy(k)' = {<<here, place>>, <<n + 3, 1>>}
                                         ELSE k - 1 \in DOMAIN lists /\ ListedBy(k)' = ListedBy(k - 1)
  <2> SUFFICES ASSUME NEW k \in DOMAIN lists'
               PROVE  IF k = 1 THEN ListedBy(k)' = {<<here, place>>, <<n + 3, 1>>}
                               ELSE k - 1 \in DOMAIN lists /\ ListedBy(k)' = ListedBy(k - 1)
    OBVIOUS
  <2>1. CASE k = 1
    BY <1>22, <1>23, <2>1 DEF ListedBy
  <2>2. CASE k # 1
    <3>1. k \in 2 .. Len(lists) + 1
      BY <1>21, <1>23, <2>2
    <3> QED BY <1>23, <2>2, <3>1 DEF ListedBy
  <2> QED BY <2>1, <2>2
<1>26. ListsApart'
  <2>0. \A k \in DOMAIN lists : /\ lists[k].t \cap lists[k].f = {}
                                /\ \A m \in DOMAIN lists : m # k => ListedBy(m) \cap ListedBy(k) = {}
    BY DEF GenInv, ListsApart
  <2>1. ASSUME NEW k \in DOMAIN lists' PROVE lists'[k].t \cap lists'[k].f = {}
    <3>1. CASE k = 1
      BY <1>22, <1>23, <3>1
    <3>2. CASE k # 1
      <4>1. k - 1 \in DOMAIN lists /\ lists'[k] = lists[k - 1]
        BY <1>21, <1>23, <3>2
      <4> QED BY <2>0, <4>1
    <3> QED BY <3>1, <3>2
  <2>2. ASSUME NEW k \in DOMAIN lists', NEW m \in DOMAIN lists', m # k PROVE ListedBy(m)' \cap ListedBy(k)' = {}
    <3>1. k \in Nat /\ m \in Nat
      BY <1>21, <1>23
    <3>2. CASE k = 1
      BY <1>24, <1>25, <2>2, <3>2
    <3>3. CASE m = 1
      BY <1>24, <1>25, <2>2, <3>3
    <3>4. CASE k # 1 /\ m # 1
      <4>1. /\ k - 1 \in DOMAIN lists /\ m - 1 \in DOMAIN lists /\ k - 1 # m - 1
            /\ ListedBy(k)' = ListedBy(k - 1) /\ ListedBy(m)' = ListedBy(m - 1)
        BY <1>25, <2>2, <3>1, <3>4
      <4> QED BY <2>0, <4>1
    <3> QED BY <3>2, <3>3, <3>4
  <2> QED BY <2>1, <2>2 DEF ListsApart
<1>27. ASSUME NEW k \in DOMAIN lists', NEW p \in lists'[k].t \cup lists'[k].f
       PROVE  \/ /\ \E m \in DOMAIN lists : p \in ListedBy(m)
                 /\ p[2] \in DOMAIN bs[p[1]] /\ bs[p[1]][p[2]] = At(p)
              \/ Undecided(p)'
  <2>1. p \in ListedBy(k)'
    BY DEF ListedBy
  <2>2. CASE k = 1
    <3>1. p = <<here, place>> \/ p = <<n + 3, 1>>
      BY <1>25, <2>1, <2>2
    <3>2. CASE p = <<here, place>>
      BY <1>19, <3>2 DEF Undecided, At
    <3>3. CASE p = <<n + 3, 1>>
      BY <1>20, <3>3 DEF Undecided, At
    <3> QED BY <3>1, <3>2, <3>3
  <2>3. CASE k # 1
    <3>1. PICK m \in DOMAIN lists : p \in ListedBy(m)
      BY <1>25, <2>1, <2>3
    <3>2. p[1] \in Blocks /\ p[2] \in DOMAIN blocks[p[1]]
      BY <3>1, PlaceFacts
    <3>3. p[2] \in DOMAIN bs[p[1]] /\ bs[p[1]][p[2]] = blocks[p[1]][p[2]]
      BY <1>12, <3>2 DEF Keeps
    <3> QED BY <3>1, <3>3 DEF At
  <2> QED BY <2>2, <2>3
<1>28. Relisted
  BY <1>7, <1>23, <1>26, <1>27 DEF Relisted
<1>29. Replaced(<<>>)
  <2>1. Balance(<<>>, Len(lists'), Len(lists'))
    BY <1>21, <1>23, NoTasks
  <2>2. Len(lists') + Takes(agenda[1]) = Len(lists) + Gives(agenda[1])
    BY <1>1, <1>21, <1>23
  <2> QED BY <1>1, <1>15, <2>1, <2>2 DEF Replaced
<1> QED BY <1>14, <1>28, <1>29, GenStep DEF GenLeaf

-----------------------------------------------------------------------------
(***************************************************************************)
(* Cleaning: what stays keeps its order, so that nothing stands behind a   *)
(* jump, a return or a conditional branch any more.                        *)
(***************************************************************************)
Stayed(c, s, from) ==
  /\ from \in [1 .. Len(c) -> DOMAIN s]
  /\ \A x \in 1 .. Len(c) : Stays(s, from[x]) /\ c[x] = s[from[x]]
  /\ \A x, y \in 1 .. Len(c) : x < y => from[x] < from[y]

LEMMA CleanStays ==
  ASSUME NEW T, NEW s \in Seq(T)
  PROVE  Clean(s) \in Seq(T) /\ \E from : Stayed(Clean(s), s, from)
<1> DEFINE keep == {i \in DOMAIN s : Stays(s, i)}
<1>1. Clean(s) = Chosen(s, keep)
  <2>1. [i \in DOMAIN s |-> IF Stays(s, i) THEN <<s[i]>> ELSE <<>>]
          = [i \in DOMAIN s |-> IF i \in keep THEN <<s[i]>> ELSE <<>>]
    OBVIOUS
  <2> QED BY <2>1, Zenon DEF Clean, Chosen
<1>2. keep \subseteq DOMAIN s
  OBVIOUS
<1>3. Chosen(s, keep) \in Seq(T) /\ \E from : ChosenAt(Chosen(s, keep), s, keep, from)
  <2> HIDE DEF keep
  <2> QED BY <1>2, ChosenFrom
<1>4. PICK c, from : c = Chosen(s, keep) /\ ChosenAt(c, s, keep, from)
  BY <1>3
<1>5. Stayed(c, s, from)
  BY <1>4 DEF Stayed, ChosenAt
<1> QED BY <1>1, <1>3, <1>4, <1>5

LEMMA CleanEnds ==
  ASSUME NEW T, Ret \in T, NEW s \in Seq(T)
  PROVE  LET c == Clean(s)
         IN  Ended(c) \in Seq(T) /\ EndsOnce(Ended(c)) /\ Targets(Ended(c)) = Targets(c)
<1>1. PICK c : c = Clean(s)
  OBVIOUS
<1>2. c \in Seq(T)
  BY <1>1, CleanStays
<1>3. PICK from : Stayed(c, s, from)
  BY <1>1, CleanStays
<1>4. Len(c) \in Nat /\ DOMAIN c = 1 .. Len(c) /\ Len(s) \in Nat /\ DOMAIN s = 1 .. Len(s)
  BY <1>2
<1>5. ASSUME NEW x \in 1 .. Len(c), x # Len(c) PROVE ~IsTerminator(c[x]) /\ NotCond(c[x])
  <2>1. x + 1 \in 1 .. Len(c) /\ x < x + 1
    <3>1. Len(c) \in Nat /\ x \in 1 .. Len(c) /\ x # Len(c)
      BY <1>4, <1>5
    <3> QED BY <3>1
  <2>2. /\ from[x] \in 1 .. Len(s) /\ from[x + 1] \in 1 .. Len(s) /\ from[x] < from[x + 1]
        /\ Stays(s, from[x]) /\ Stays(s, from[x + 1]) /\ c[x] = s[from[x]]
    BY <1>3, <1>4, <2>1 DEF Stayed
  <2>3. PICK i, j : i = from[x] /\ j = from[x + 1]
    OBVIOUS
  <2>4. i \in 1 .. j - 1 /\ i # Len(s)
    BY <1>4, <2>2, <2>3
  <2> QED BY <2>2, <2>3, <2>4 DEF Stays
<1>6. CASE c # <<>> /\ (IsTerminator(Last(c)) \/ ~NotCond(Last(c)))
  <2>1. Ended(c) = c
    BY <1>6 DEF Ended
  <2>2. Last(c) = c[Len(c)] /\ Len(c) \in 1 .. Len(c)
    BY <1>2, <1>6 DEF Last
  <2>3. EndsOnce(c)
    BY <1>4, <1>5, <1>6, <2>2 DEF EndsOnce
  <2> QED BY <1>1, <1>2, <2>1, <2>3
<1>7. CASE ~(c # <<>> /\ (IsTerminator(Last(c)) \/ ~NotCond(Last(c))))
  <2>1. Ended(c) = Append(c, Ret)
    BY <1>7 DEF Ended
  <2>2. PICK e : e = Append(c, Ret)
    OBVIOUS
  <2>3. /\ e \in Seq(T) /\ Len(e) = Len(c) + 1 /\ DOMAIN e = 1 .. Len(c) + 1 /\ e # <<>>
        /\ e[Len(c) + 1] = Ret /\ \A x \in 1 .. Len(c) : e[x] = c[x]
    BY <1>2, <2>2
  <2>4. ASSUME NEW x \in 1 .. Len(c) PROVE ~IsTerminator(c[x]) /\ NotCond(c[x])
    <3>1. CASE x = Len(c)
      <4>1. c # <<>> /\ Last(c) = c[x]
        BY <1>4, <3>1 DEF Last
      <4> QED BY <1>7, <4>1
    <3>2. CASE x # Len(c)
      BY <1>5, <3>2
    <3> QED BY <3>1, <3>2
  <2>5. IsTerminator(Ret) /\ Ret.op = "ret"
    BY DEF IsTerminator, Ret
  <2>6. EndsOnce(e)
    <3> SUFFICES ASSUME NEW x \in DOMAIN e
                 PROVE  (IsTerminator(e[x]) \/ ~NotCond(e[x])) <=> x = Len(e)
      BY DEF EndsOnce
    <3>1. CASE x = Len(c) + 1
      BY <2>3, <2>5, <3>1
    <3>2. CASE x # Len(c) + 1
      <4>1. x \in 1 .. Len(c)
        BY <1>4, <2>3, <3>2
      <4> QED BY <1>4, <2>3, <2>4, <3>2, <4>1
    <3> QED BY <3>1, <3>2
  <2>7. Targets(e) = {}
    <3>1. Last(e) = Ret
      BY <2>3 DEF Last
    <3> QED BY <2>3, <2>5, <3>1 DEF Targets
  <2>8. Targets(c) = {}
    <3>1. CASE c = <<>>
      BY <3>1 DEF Targets
    <3>2. CASE c # <<>>
      <4>1. ~IsTerminator(Last(c)) /\ NotCond(Last(c))
        BY <1>7, <3>2
      <4>2. Last(c).op # "br" /\ Last(c).op # "cond"
        BY <4>1 DEF IsTerminator, NotCond
      <4> QED BY <3>2, <4>2 DEF Targets
    <3> QED BY <3>1, <3>2
  <2> QED BY <1>1, <2>1, <2>2, <2>3, <2>6, <2>7, <2>8
<1> QED BY <1>6, <1>7

\* When the agenda is empty no list is left.
LEMMA NoLists ==
  ASSUME GenInv, agenda = <<>>
  PROVE  lists = <<>>
<1>1. PICK h : h[1] = Len(lists) /\ h[Len(agenda) + 1] = 0
  BY DEF GenInv, Balanced, Balance
<1>2. Len(lists) = 0
  BY <1>1
<1> QED BY <1>2 DEF GenInv, GenTypeOK

LEMMA TargetTypes ==
  ASSUME NEW n \in Nat, NEW s \in Seq(Instructions(n))
  PROVE  Targets(s) \subseteq 1 .. n
<1> DEFINE T == Instructions(n)
<1>1. CASE s = <<>>
  BY <1>1 DEF Targets
<1>2. CASE s # <<>>
  <2>1. Last(s) \in T
    <3>1. s \in Seq(T)
      OBVIOUS
    <3> HIDE DEF T
    <3> QED BY <1>2, <3>1 DEF Last
  <2>2. /\ Branches(Last(s)) => Last(s).to \in 1 .. n
        /\ Last(s).op = "cond" => Last(s).other \in 1 .. n
    BY <2>1, BranchTypes
  <2> QED BY <1>2, <2>2 DEF Targets, Branches
<1> QED BY <1>1, <1>2

LEMMA StepLink == GenInv /\ LinkBlock => GenInv'
<1> SUFFICES ASSUME GenInv, LinkBlock PROVE GenInv'
  OBVIOUS
<1>0. PICK n, b, c, targets :
        n = Len(blocks) /\ b = linked + 1 /\ c = Clean(blocks[b]) /\ targets = Targets(c)
  OBVIOUS
<1> DEFINE T == Instructions(n)
           old == IF preds = <<>> THEN [x \in Blocks |-> {}] ELSE preds
<1>1. /\ blocks' = [blocks EXCEPT ![b] = Ended(c)]
      /\ succs' = Append(succs, targets) /\ linked' = b
      /\ preds' = [x \in Blocks |-> old[x] \cup IF x \in targets THEN {b} ELSE {}]
      /\ agenda = <<>> /\ linked < n /\ UNCHANGED <<agenda, insertBB, lists>>
  BY <1>0 DEF LinkBlock, Generated
<1>2. /\ n \in Nat /\ Blocks = 1 .. n /\ blocks \in [1 .. n -> Seq(T)]
      /\ linked \in Nat /\ b \in Nat /\ b \in 1 .. n /\ insertBB \in 1 .. n
  <2>1. n \in Nat /\ Blocks = 1 .. n /\ insertBB \in 1 .. n /\ \A x \in Blocks : blocks[x] \in Seq(T)
    BY <1>0, BlockFacts DEF GenInv
  <2>2. blocks \in Seq(Seq(T)) /\ linked \in 0 .. n
    BY <1>0 DEF GenInv, GenTypeOK
  <2> HIDE DEF T
  <2>3. blocks \in [1 .. n -> Seq(T)]
    BY <1>0, <2>2
  <2>4. linked \in Nat /\ b \in Nat /\ b \in 1 .. n
    BY <1>0, <1>1, <2>1, <2>2
  <2> QED BY <2>1, <2>3, <2>4
<1>3. Ended(c) \in Seq(T) /\ EndsOnce(Ended(c)) /\ Targets(Ended(c)) = targets /\ targets \subseteq Nat
  <2>1. Ret \in T
    BY DEF Ret, Instructions
  <2>2. blocks[b] \in Seq(T)
    BY <1>2
  <2>3. PICK s : s = blocks[b]
    OBVIOUS
  <2> HIDE DEF T
  <2>4. Ended(c) \in Seq(T) /\ EndsOnce(Ended(c)) /\ Targets(Ended(c)) = Targets(c)
    BY <1>0, <2>1, <2>2, <2>3, CleanEnds
  <2>5. c \in Seq(T)
    BY <1>0, <2>2, CleanStays
  <2>6. targets \subseteq 1 .. n
    BY <1>0, <1>2, <2>5, TargetTypes DEF T
  <2> QED BY <1>0, <1>2, <2>4, <2>6
<1> HIDE DEF T
<1>4. PICK bs : bs = blocks'
  OBVIOUS
<1>5. /\ bs \in Seq(Seq(T)) /\ Len(bs) = n /\ DOMAIN bs = 1 .. n
      /\ \A x \in 1 .. n : bs[x] = IF x = b THEN Ended(c) ELSE blocks[x]
  <2>1. bs = [x \in 1 .. n |-> IF x = b THEN Ended(c) ELSE blocks[x]]
    BY <1>1, <1>2, <1>4
  <2>2. bs \in [1 .. n -> Seq(T)]
    BY <1>2, <1>3, <2>1
  <2> QED BY <1>2, <2>1, <2>2
<1>6. lists = <<>> /\ lists' = <<>>
  BY <1>1, NoLists
<1>7. GenTypeOK'
  <2>1. agenda' \in Seq(Tasks(Len(bs)))
    BY <1>0, <1>1, <1>5 DEF GenInv, GenTypeOK
  <2>2. lists' \in Seq([t : SUBSET AllPlaces, f : SUBSET AllPlaces])
    BY <1>6
  <2>3. bs \in Seq(Seq(Instructions(Len(bs))))
    BY <1>5 DEF T
  <2>4. insertBB' \in 1 .. Len(bs) /\ linked' \in 0 .. Len(bs)
    BY <1>1, <1>2, <1>5
  <2> QED BY <1>4, <2>1, <2>2, <2>3, <2>4 DEF GenTypeOK
<1>8. Balanced'
  <2>1. Balance(agenda, Len(lists), 0)
    BY DEF GenInv, Balanced
  <2>2. agenda' = agenda /\ lists' = lists
    BY <1>1
  <2> QED BY <2>1, <2>2 DEF Balanced
<1>9. ListsApart' /\ ListsUndecided'
  BY <1>6 DEF ListsApart, ListsUndecided
<1>10. /\ Len(succs) = linked /\ succs \in Seq(SUBSET Nat)
       /\ \A x \in 1 .. linked : EndsOnce(blocks[x]) /\ succs[x] = Targets(blocks[x])
       /\ IF linked = 0 THEN preds = <<>>
          ELSE preds = [x \in Blocks |-> {a \in 1 .. linked : x \in succs[a]}]
  BY DEF GenInv, Linking
<1>11. /\ Len(succs') = b /\ succs' \in Seq(SUBSET Nat)
       /\ succs'[b] = targets /\ \A x \in 1 .. linked : succs'[x] = succs[x]
  BY <1>0, <1>1, <1>2, <1>3, <1>10
<1>12. ASSUME NEW x \in 1 .. b PROVE EndsOnce(bs[x]) /\ succs'[x] = Targets(bs[x])
  <2>1. CASE x = b
    BY <1>2, <1>3, <1>5, <1>11, <2>1
  <2>2. CASE x # b
    <3>1. x \in 1 .. linked /\ x \in 1 .. n
      BY <1>0, <1>2, <2>2
    <3> QED BY <1>5, <1>10, <1>11, <2>2, <3>1
  <2> QED BY <2>1, <2>2
<1>13. ASSUME NEW x \in Blocks PROVE old[x] = {a \in 1 .. linked : x \in succs[a]}
  <2>1. CASE linked = 0
    BY <1>10, <2>1
  <2>2. CASE linked # 0
    <3>1. preds = [y \in Blocks |-> {a \in 1 .. linked : y \in succs[a]}]
      BY <1>10, <2>2
    <3>2. preds # <<>>
      BY <1>2, <3>1
    <3> QED BY <3>1, <3>2
  <2> QED BY <2>1, <2>2
<1>14. ASSUME NEW x \in Blocks
       PROVE  old[x] \cup (IF x \in targets THEN {b} ELSE {}) = {a \in 1 .. b : x \in succs'[a]}
  <2>1. 1 .. b = 1 .. linked \cup {b} /\ b \notin 1 .. linked
    BY <1>0, <1>2
  <2> QED BY <1>11, <1>13, <2>1
<1>15. preds' = [x \in Blocks |-> {a \in 1 .. b : x \in succs'[a]}]
  BY <1>1, <1>14
<1>16. Linking'
  <2>1. Blocks' = Blocks /\ b # 0 /\ agenda' = <<>>
    BY <1>1, <1>2, <1>4, <1>5 DEF Blocks
  <2>2. \A x \in 1 .. linked' : EndsOnce(blocks'[x]) /\ succs'[x] = Targets(blocks'[x])
    BY <1>1, <1>4, <1>12
  <2>3. preds' = [x \in Blocks' |-> {a \in 1 .. linked' : x \in succs'[a]}]
    BY <1>1, <1>15, <2>1
  <2>4. linked' # 0 /\ Len(succs') = linked'
    BY <1>1, <1>11, <2>1
  <2> QED BY <1>11, <2>1, <2>2, <2>3, <2>4 DEF Linking, EndsOnce, Targets, IsTerminator, NotCond
<1> QED BY <1>7, <1>8, <1>9, <1>16 DEF GenInv

-----------------------------------------------------------------------------
(***************************************************************************)
(* The invariant and the theorems.                                         *)
(***************************************************************************)
LEMMA GenInit == CFInit => GenInv
<1> SUFFICES ASSUME CFInit PROVE GenInv
  OBVIOUS
<1>1. /\ agenda = <<[t |-> "stmt", s |-> program]>> /\ program \in Statements
      /\ blocks = << <<>> >> /\ insertBB = 1 /\ lists = <<>> /\ linked = 0
      /\ succs = <<>> /\ preds = <<>>
  BY SyntaxAssumption DEF CFInit, Init
<1>2. GenTypeOK
  <2>1. agenda \in Seq(Tasks(Len(blocks)))
    <3>1. [t |-> "stmt", s |-> program] \in Tasks(Len(blocks))
      BY <1>1 DEF Tasks
    <3> QED BY <1>1, <3>1
  <2>2. blocks \in Seq(Seq(Instructions(Len(blocks)))) /\ Len(blocks) = 1
    BY <1>1
  <2> QED BY <1>1, <2>1, <2>2 DEF GenTypeOK
<1>3. Balanced
  <2>1. Heights(agenda, <<0, 0>>)
    BY <1>1 DEF Heights, Takes, Gives
  <2> QED BY <1>1, <2>1 DEF Balanced, Balance
<1>4. ListsApart /\ ListsUndecided
  BY <1>1 DEF ListsApart, ListsUndecided
<1>5. Linking
  BY <1>1 DEF Linking
<1> QED BY <1>2, <1>3, <1>4, <1>5 DEF GenInv

LEMMA GenStutter ==
  ASSUME GenInv, UNCHANGED genVars
  PROVE  GenInv'
<1>1. /\ agenda' = agenda /\ blocks' = blocks /\ insertBB' = insertBB /\ lists' = lists
      /\ linked' = linked /\ succs' = succs /\ preds' = preds
  BY DEF genVars
<1>2. GenTypeOK'
  BY <1>1 DEF GenInv, GenTypeOK
<1>3. Balanced'
  BY <1>1 DEF GenInv, Balanced
<1>4. ListsApart'
  BY <1>1 DEF GenInv, ListsApart, ListedBy
<1>5. ListsUndecided'
  <2>1. ASSUME NEW p, Undecided(p) PROVE Undecided(p)'
    <3>1. At(p)' = At(p) /\ Blocks' = Blocks /\ \A i \in DOMAIN agenda : Named(agenda[i])' = Named(agenda[i])
      BY <1>1 DEF At, Blocks, Named
    <3> QED BY <1>1, <2>1, <3>1 DEF Undecided, Branches
  <2> QED BY <1>1, <2>1 DEF GenInv, ListsUndecided, ListedBy
<1>6. Linking'
  BY <1>1 DEF GenInv, Linking, EndsOnce, Targets, IsTerminator, NotCond, Blocks
<1> QED BY <1>2, <1>3, <1>4, <1>5, <1>6 DEF GenInv

LEMMA GenInvStep == GenInv /\ [CFNext]_vars => GenInv'
<1> SUFFICES ASSUME GenInv, [CFNext]_vars PROVE GenInv'
  OBVIOUS
<1>1. CASE GenNext
  BY <1>1, StepAssign, StepAssignNot, StepStore, StepReturn, StepSeq, StepJumpStmt, StepIf,
     StepIfElse, StepBranches, StepJump, StepWhile, StepWhileCond, StepLeaf, StepAndOr,
     StepLeft, StepMerge, StepLink DEF GenNext
<1>2. CASE UNCHANGED genVars
  BY <1>2, GenStutter
<1>3. GenNext \/ UNCHANGED genVars
  BY DEF CFNext, Generate, UnfoldSource, FollowBranch, DoAssign, EvalCondition, vars
<1> QED BY <1>1, <1>2, <1>3

THEOREM GenInvariant == CFSpec => []GenInv
<1>1. CFInit => GenInv
  BY GenInit
<1>2. GenInv /\ [CFNext]_vars => GenInv'
  BY GenInvStep
<1> QED BY <1>1, <1>2, PTL DEF CFSpec

\* Until it is patched, every branch that a list names has a placeholder of
\* its own: nobody else branches there, and no code goes there.
THEOREM ListsStayUndecided == CFSpec => []ListsNamePlaceholders
<1>1. GenInv => ListsNamePlaceholders
  <2> SUFFICES ASSUME GenInv, NEW n \in DOMAIN lists, NEW p \in ListedBy(n)
               PROVE  LET target == blocks[p[1]][p[2]].to
                      IN  /\ blocks[target] = <<>> /\ target # insertBB
                          /\ \A b \in Blocks : \A i \in DOMAIN blocks[b] :
                               /\ blocks[b][i].op \in {"br", "cond"} /\ <<b, i>> # p => blocks[b][i].to # target
                               /\ blocks[b][i].op = "cond" => blocks[b][i].other # target
    BY DEF ListsNamePlaceholders, ListedBy
  <2>1. Undecided(p)
    BY DEF GenInv, ListsUndecided
  <2> QED BY <2>1 DEF Undecided, At, Branches
<1> QED BY <1>1, GenInvariant, PTL

\* Once every block is linked, each ends in its only branch or return, has
\* the successors that names, and predecessors that are their inverse.
THEOREM GraphIsTheCode == CFSpec => []EdgesMatchCode
<1>1. GenInv => EdgesMatchCode
  <2> SUFFICES ASSUME GenInv, GraphDone, NEW b \in Blocks
               PROVE  /\ EndsOnce(blocks[b])
                      /\ succs[b] = Targets(blocks[b])
                      /\ preds[b] = {a \in Blocks : b \in succs[a]}
    BY DEF EdgesMatchCode, EndsOnce
  <2>1. Blocks = 1 .. linked /\ linked # 0
    <3>1. b \in 1 .. Len(blocks) /\ Blocks = 1 .. Len(blocks) /\ Len(blocks) \in Nat
      BY BlockFacts DEF GenInv
    <3> QED BY <3>1 DEF GraphDone
  <2>2. /\ EndsOnce(blocks[b]) /\ succs[b] = Targets(blocks[b])
        /\ preds = [x \in Blocks |-> {a \in 1 .. linked : x \in succs[a]}]
    BY <2>1 DEF GenInv, Linking
  <2> QED BY <2>1, <2>2
<1> QED BY <1>1, GenInvariant, PTL

-----------------------------------------------------------------------------
(***************************************************************************)
(* Running code.  A piece of code is any sequence of instructions; what it *)
(* does is a sequence of states, one more than instructions.               *)
(***************************************************************************)
IsCode(s) == s \in Seq({s[i] : i \in DOMAIN s})

States(f, m, code) ==
  f[0] = m /\ \A k \in 1 .. Len(code) : f[k] = Exec(f[k - 1], code[k])

LEMMA GreatestOf ==
  ASSUME NEW k \in Nat, NEW S \in SUBSET (1 .. k), k \in S
  PROVE  Max(S) = k
<1>1. \A y \in S : k >= y
  OBVIOUS
<1>2. \A x \in S : (\A y \in S : x >= y) => x = k
  OBVIOUS
<1> QED BY <1>1, <1>2 DEF Max

LEMMA MaxIsIn ==
  ASSUME NEW k \in Nat, NEW S \in SUBSET (1 .. k), S # {}
  PROVE  Max(S) \in S /\ \A y \in S : y <= Max(S)
<1>1. \E x \in S : \A y \in S : x >= y
  <2>1. PICK e \in S : TRUE
    OBVIOUS
  <2>2. S \subseteq -1 .. k
    OBVIOUS
  <2> QED BY <2>1, <2>2, GreatestExists
<1> QED BY <1>1 DEF Max

LEMMA RunStates ==
  ASSUME NEW m, NEW code, IsCode(code)
  PROVE  \E f : States(f, m, code) /\ Run(m, code) = f[Len(code)]
<1> DEFINE n == Len(code)
           Fold(g, S) == g = [s \in SUBSET S |->
                                IF s = {} THEN m ELSE Exec(g[s \ {Max(s)}], code[Max(s)])]
<1>1. n \in Nat /\ DOMAIN code = 1 .. n
  BY DEF IsCode
<1>2. Run(m, code) = (CHOOSE g : Fold(g, 1 .. n))[1 .. n]
  BY <1>1 DEF Run, FoldLeft, MapThenFoldSet
<1> HIDE DEF n
<1> DEFINE K == {k \in 0 .. n : \E g : Fold(g, 1 .. k)}
<1>3. 0 \in K
  <2> DEFINE g == [s \in SUBSET (1 .. 0) |-> m]
  <2>1. \A s \in SUBSET (1 .. 0) : s = {}
    OBVIOUS
  <2>2. Fold(g, 1 .. 0)
    BY <2>1
  <2> QED BY <1>1, <2>2
<1>4. ASSUME NEW k \in 0 .. n, k < n, k \in K PROVE k + 1 \in K
  <2>1. PICK g : Fold(g, 1 .. k)
    BY <1>4
  <2> DEFINE h == [s \in SUBSET (1 .. k + 1) |->
                     IF k + 1 \in s THEN Exec(g[s \ {k + 1}], code[k + 1]) ELSE g[s]]
  <2>2. ASSUME NEW s \in SUBSET (1 .. k + 1)
        PROVE  h[s] = IF s = {} THEN m ELSE Exec(h[s \ {Max(s)}], code[Max(s)])
    <3>1. CASE k + 1 \in s
      <4>1. Max(s) = k + 1
        BY <1>1, <3>1, GreatestOf
      <4>2. s \ {k + 1} \in SUBSET (1 .. k + 1) /\ k + 1 \notin s \ {k + 1}
        OBVIOUS
      <4> QED BY <3>1, <4>1, <4>2
    <3>2. CASE k + 1 \notin s
      <4>1. s \in SUBSET (1 .. k)
        BY <1>1, <3>2
      <4>2. CASE s = {}
        BY <2>1, <3>2, <4>1, <4>2
      <4>3. CASE s # {}
        <5>1. Max(s) \in s
          <6>1. k \in Nat
            BY <1>1
          <6> QED BY <4>1, <4>3, <6>1, MaxIsIn
        <5>2. s \ {Max(s)} \in SUBSET (1 .. k + 1) /\ k + 1 \notin s \ {Max(s)}
          BY <3>2
        <5>3. h[s \ {Max(s)}] = g[s \ {Max(s)}] /\ h[s] = g[s]
          BY <3>2, <5>2
        <5> QED BY <2>1, <4>1, <4>3, <5>3
      <4> QED BY <4>2, <4>3
    <3> QED BY <3>1, <3>2
  <2>3. h = [s \in SUBSET (1 .. k + 1) |-> h[s]]
    OBVIOUS
  <2> HIDE DEF h
  <2>4. Fold(h, 1 .. k + 1)
    BY <2>2, <2>3
  <2>5. k + 1 \in 0 .. n
    BY <1>1, <1>4
  <2> HIDE DEF Fold
  <2> QED BY <2>4, <2>5
<1>5. n \in K
  <2>1. \A k \in 0 .. n : k < n /\ k \in K => k + 1 \in K
    BY <1>4
  <2>2. n \in 0 .. n
    BY <1>1
  <2> HIDE DEF K
  <2> QED BY <1>1, <1>3, <2>1, <2>2, CountingUp
<1> DEFINE g == CHOOSE h : Fold(h, 1 .. n)
<1>6. Fold(g, 1 .. n)
  <2>1. \E h : Fold(h, 1 .. n)
    BY <1>5
  <2> HIDE DEF Fold
  <2> QED BY <2>1
<1>7. Run(m, code) = g[1 .. n]
  BY <1>2
<1> HIDE DEF g
<1> DEFINE f == [k \in 0 .. n |-> g[1 .. k]]
<1>8. f[0] = m
  <2>1. 1 .. 0 = {} /\ {} \in SUBSET (1 .. n) /\ 0 \in 0 .. n
    BY <1>1
  <2> QED BY <1>6, <2>1
<1>9. ASSUME NEW k \in 1 .. n PROVE f[k] = Exec(f[k - 1], code[k])
  <2>1. 1 .. k \in SUBSET (1 .. n) /\ 1 .. k # {} /\ k \in Nat /\ k \in 1 .. k /\ k - 1 \in 0 .. n /\ k \in 0 .. n
    BY <1>1
  <2>2. Max(1 .. k) = k
    BY <2>1, GreatestOf
  <2>3. (1 .. k) \ {k} = 1 .. k - 1
    BY <2>1
  <2>4. g[1 .. k] = Exec(g[(1 .. k) \ {Max(1 .. k)}], code[Max(1 .. k)])
    BY <1>6, <2>1
  <2> QED BY <2>1, <2>2, <2>3, <2>4
<1>10. f[n] = g[1 .. n]
  BY <1>1
<1> HIDE DEF f
<1>11. States(f, m, code)
  BY <1>8, <1>9 DEF States, n
<1> QED BY <1>7, <1>10, <1>11 DEF n

LEMMA OneRun ==
  ASSUME NEW m, NEW code, IsCode(code), NEW f, States(f, m, code)
  PROVE  Run(m, code) = f[Len(code)]
<1> DEFINE n == Len(code)
<1>1. PICK g : States(g, m, code) /\ Run(m, code) = g[n]
  BY RunStates
<1>2. n \in Nat
  BY DEF IsCode
<1> DEFINE K == {k \in 0 .. n : f[k] = g[k]}
<1>3. 0 \in K
  BY <1>1, <1>2 DEF States
<1>4. \A k \in 0 .. n : k < n /\ k \in K => k + 1 \in K
  <2> SUFFICES ASSUME NEW k \in 0 .. n, k < n, k \in K PROVE k + 1 \in K
    OBVIOUS
  <2>1. k + 1 \in 1 .. n /\ (k + 1) - 1 = k
    BY <1>2
  <2>2. f[k + 1] = Exec(f[k], code[k + 1]) /\ g[k + 1] = Exec(g[k], code[k + 1])
    BY <1>1, <2>1 DEF States
  <2> QED BY <1>2, <2>1, <2>2
<1>5. n \in K
  <2> HIDE DEF K, n
  <2> QED BY <1>2, <1>3, <1>4, CountingUp
<1> QED BY <1>1, <1>5

LEMMA CodeShapes ==
  /\ IsCode(<<>>)
  /\ \A a : IsCode(<<a>>)
  /\ \A a, b : IsCode(<<a, b>>)
  /\ \A a, b, c : IsCode(<<a, b, c>>)
<1>1. IsCode(<<>>)
  BY DEF IsCode
<1>2. ASSUME NEW a PROVE IsCode(<<a>>)
  <2> DEFINE s == <<a>>
  <2>1. s[1] = a /\ Len(s) = 1
    OBVIOUS
  <2>2. s \in Seq({a}) /\ {s[i] : i \in DOMAIN s} = {a}
    OBVIOUS
  <2> QED BY <2>2 DEF IsCode
<1>3. ASSUME NEW a, NEW b PROVE IsCode(<<a, b>>)
  <2> DEFINE s == <<a, b>>
  <2>2. s \in Seq({a, b}) /\ {s[i] : i \in DOMAIN s} = {a, b}
    OBVIOUS
  <2> QED BY <2>2 DEF IsCode
<1>4. ASSUME NEW a, NEW b, NEW c PROVE IsCode(<<a, b, c>>)
  <2> DEFINE s == <<a, b, c>>
  <2>2. s \in Seq({a, b, c}) /\ {s[i] : i \in DOMAIN s} = {a, b, c}
    OBVIOUS
  <2> QED BY <2>2 DEF IsCode
<1> QED BY <1>1, <1>2, <1>3, <1>4

LEMMA CodeJoined ==
  ASSUME NEW s, NEW t, IsCode(s), IsCode(t)
  PROVE  /\ IsCode(s \o t) /\ Len(s \o t) = Len(s) + Len(t) /\ Len(s) \in Nat /\ Len(t) \in Nat
         /\ \A i \in 1 .. Len(s) : (s \o t)[i] = s[i]
         /\ \A i \in 1 .. Len(t) : (s \o t)[Len(s) + i] = t[i]
<1> DEFINE S == {s[i] : i \in DOMAIN s}
           T == {t[i] : i \in DOMAIN t}
           U == {(s \o t)[i] : i \in DOMAIN (s \o t)}
<1>1. s \in Seq(S \cup T) /\ t \in Seq(S \cup T)
  <2>1. s \in Seq(S) /\ t \in Seq(T)
    BY DEF IsCode
  <2> HIDE DEF S, T
  <2> QED BY <2>1
<1> HIDE DEF S, T
<1>2. /\ Len(s \o t) = Len(s) + Len(t) /\ Len(s) \in Nat /\ Len(t) \in Nat
      /\ \A i \in 1 .. Len(s) : (s \o t)[i] = s[i]
      /\ \A i \in 1 .. Len(t) : (s \o t)[Len(s) + i] = t[i]
  BY <1>1
<1>3. s \o t \in Seq(U)
  <2> DEFINE st == s \o t
  <2>1. st \in Seq(S \cup T)
    BY <1>1
  <2> HIDE DEF st
  <2>2. Len(st) \in Nat /\ DOMAIN st = 1 .. Len(st) /\ st = [i \in 1 .. Len(st) |-> st[i]]
    <3>1. Len(st) \in Nat /\ st \in [1 .. Len(st) -> S \cup T]
      BY <2>1
    <3>2. DOMAIN st = 1 .. Len(st)
      BY <3>1
    <3> QED BY <3>1, <3>2
  <2>3. st \in [1 .. Len(st) -> {st[i] : i \in DOMAIN st}]
    BY <2>2
  <2>4. st \in Seq({st[i] : i \in DOMAIN st})
    BY <2>2, <2>3
  <2> QED BY <2>4 DEF st
<1> QED BY <1>2, <1>3 DEF IsCode

\* Code that runs behind other code goes on from its state.
LEMMA RunJoined ==
  ASSUME NEW m, NEW s, NEW t, IsCode(s), IsCode(t)
  PROVE  IsCode(s \o t) /\ Run(m, s \o t) = Run(Run(m, s), t)
<1>1. PICK f : States(f, m, s) /\ Run(m, s) = f[Len(s)]
  BY RunStates
<1>2. PICK g : States(g, f[Len(s)], t) /\ Run(f[Len(s)], t) = g[Len(t)]
  BY RunStates
<1> DEFINE a == Len(s)
           b == Len(t)
           st == s \o t
           h == [k \in 0 .. a + b |-> IF k <= a THEN f[k] ELSE g[k - a]]
<1>3. /\ IsCode(st) /\ Len(st) = a + b /\ a \in Nat /\ b \in Nat
      /\ \A i \in 1 .. a : st[i] = s[i]
      /\ \A i \in 1 .. b : st[a + i] = t[i]
  BY CodeJoined
<1>4. f[0] = m /\ g[0] = f[a]
  BY <1>1, <1>2 DEF States
<1> HIDE DEF st
<1>5. ASSUME NEW k \in 1 .. a + b PROVE h[k] = Exec(h[k - 1], st[k])
  <2>1. CASE k <= a
    <3>1. k \in 1 .. a /\ k - 1 \in 0 .. a + b /\ k - 1 <= a /\ k \in 0 .. a + b
      BY <1>3, <2>1
    <3>2. f[k] = Exec(f[k - 1], s[k])
      BY <1>1, <3>1 DEF States
    <3> QED BY <1>3, <2>1, <3>1, <3>2
  <2>2. CASE k = a + 1
    <3>1. 1 \in 1 .. b /\ k - 1 = a /\ k - a = 1 /\ a \in 0 .. a + b /\ k \in 0 .. a + b /\ ~(k <= a)
      BY <1>3, <2>2
    <3>2. g[1] = Exec(g[1 - 1], t[1])
      BY <1>2, <3>1 DEF States
    <3>3. st[k] = t[1] /\ h[k] = g[1] /\ h[k - 1] = g[0]
      BY <1>3, <1>4, <2>2, <3>1
    <3> QED BY <3>2, <3>3
  <2>3. CASE k > a + 1
    <3> DEFINE i == k - a
    <3>1. /\ i \in 1 .. b /\ k = a + i /\ ~(k <= a) /\ ~(k - 1 <= a) /\ (k - 1) - a = i - 1
          /\ k \in 0 .. a + b /\ k - 1 \in 0 .. a + b
      BY <1>3, <2>3
    <3>2. h[k] = g[i] /\ h[k - 1] = g[i - 1]
      BY <3>1
    <3> HIDE DEF i
    <3>3. g[i] = Exec(g[i - 1], t[i])
      BY <1>2, <3>1 DEF States
    <3>4. st[k] = t[i]
      BY <1>3, <3>1
    <3> QED BY <3>2, <3>3, <3>4
  <2> QED BY <1>3, <2>1, <2>2, <2>3
<1>6. h[0] = m /\ h[a + b] = g[b]
  <2>1. h[0] = m
    BY <1>3, <1>4
  <2>2. CASE b = 0
    BY <1>3, <1>4, <2>2
  <2>3. CASE b # 0
    <3>1. ~(a + b <= a) /\ (a + b) - a = b /\ a + b \in 0 .. a + b
      BY <1>3, <2>3
    <3>2. \A k \in 0 .. a + b : ~(k <= a) => h[k] = g[k - a]
      OBVIOUS
    <3> DEFINE c == a + b
    <3>3. c \in 0 .. c /\ ~(c <= a) /\ c - a = b
      BY <3>1
    <3>4. \A k \in 0 .. c : ~(k <= a) => h[k] = g[k - a]
      BY <3>2
    <3> HIDE DEF h, a, b, c
    <3>5. h[c] = g[b]
      BY <3>3, <3>4
    <3> QED BY <2>1, <3>5 DEF c
  <2> QED BY <2>1, <2>2, <2>3
<1> HIDE DEF h
<1>7. States(h, m, st)
  BY <1>3, <1>5, <1>6 DEF States
<1>8. Run(m, st) = h[a + b]
  BY <1>3, <1>7, OneRun, SMTT(20)
<1> QED BY <1>1, <1>2, <1>3, <1>6, <1>8 DEF st

LEMMA EmptyRun == ASSUME NEW m PROVE Run(m, <<>>) = m
<1>1. PICK f : States(f, m, <<>>) /\ Run(m, <<>>) = f[Len(<<>>)]
  BY RunStates, CodeShapes
<1> QED BY <1>1 DEF States

LEMMA RunOne == ASSUME NEW m, NEW i PROVE Run(m, <<i>>) = Exec(m, i)
<1>1. PICK f : States(f, m, <<i>>) /\ Run(m, <<i>>) = f[Len(<<i>>)]
  BY RunStates, CodeShapes
<1>2. Len(<<i>>) = 1 /\ <<i>>[1] = i
  OBVIOUS
<1>3. f[0] = m /\ f[1] = Exec(f[1 - 1], <<i>>[1])
  BY <1>1, <1>2 DEF States
<1> QED BY <1>1, <1>2, <1>3

LEMMA RunTwo ==
  ASSUME NEW m, NEW i, NEW j
  PROVE  Run(m, <<i, j>>) = Exec(Exec(m, i), j)
<1>1. <<i, j>> = <<i>> \o <<j>>
  <2> DEFINE s == <<i>>
             t == <<j>>
             both == <<i, j>>
  <2>1. s \in Seq({i, j}) /\ t \in Seq({i, j}) /\ both \in Seq({i, j})
    OBVIOUS
  <2>2. Len(s) = 1 /\ Len(t) = 1 /\ Len(both) = 2 /\ s[1] = i /\ t[1] = j /\ both[1] = i /\ both[2] = j
    OBVIOUS
  <2> HIDE DEF s, t, both
  <2> DEFINE joined == s \o t
  <2>3. joined \in Seq({i, j})
    BY <2>1
  <2>4. Len(joined) = 1 + 1 /\ joined[1] = i /\ joined[1 + 1] = j
    <3>1. IsCode(s) /\ IsCode(t)
      BY CodeShapes DEF s, t
    <3> QED BY <2>2, <3>1, CodeJoined
  <2> HIDE DEF joined
  <2>5. joined = both
    <3>1. joined \in [1 .. 2 -> {i, j}] /\ both \in [1 .. 2 -> {i, j}]
      BY <2>1, <2>2, <2>3, <2>4
    <3>2. \A k \in 1 .. 2 : joined[k] = both[k]
      BY <2>2, <2>4
    <3> QED BY <3>1, <3>2
  <2> QED BY <2>5 DEF joined, s, t, both
<1>2. Run(m, <<i>> \o <<j>>) = Run(Run(m, <<i>>), <<j>>)
  BY RunJoined, CodeShapes
<1> QED BY <1>1, <1>2, RunOne

LEMMA RunThree ==
  ASSUME NEW m, NEW i, NEW j, NEW k
  PROVE  Run(m, <<i, j, k>>) = Exec(Exec(Exec(m, i), j), k)
<1>1. <<i, j, k>> = <<i, j>> \o <<k>>
  OBVIOUS
<1>2. Run(m, <<i, j>> \o <<k>>) = Run(Run(m, <<i, j>>), <<k>>)
  BY RunJoined, CodeShapes
<1>3. Run(m, <<i, j>>) = Exec(Exec(m, i), j)
  BY RunTwo
<1> QED BY <1>1, <1>2, <1>3, RunOne

(***************************************************************************)
(* What each piece of code that genMachineCode selects does to the machine.*)
(* ChangesOnly: everything but what it writes is as before.                       *)
(***************************************************************************)
IsMachine(m) == m = [regs |-> m.regs, flags |-> m.flags, mem |-> m.mem]

ChangesOnly(m, r, written) ==
  IsMachine(r) /\ r.mem = m.mem /\ \A o : o \notin written => Val(r, o) = Val(m, o)

LEMMA Operands ==
  /\ \A v : IsImm(Imm(v)) /\ Imm(v)[2] = v
  /\ \A t : ~IsImm(VReg(t)) /\ ~IsImm(Internal(t)) /\ ~IsImm(Reg(t))
  /\ \A t, u : VReg(t) # Internal(u) /\ VReg(t) # Reg(u) /\ Internal(t) # Reg(u)
  /\ \A t, u : (VReg(t) = VReg(u) => t = u) /\ (Internal(t) = Internal(u) => t = u) /\ (Reg(t) = Reg(u) => t = u)
  /\ \A t : VReg(t)[2] = t
BY DEF IsImm, Imm, VReg, Internal, Reg

LEMMA ChangesJoined ==
  ASSUME NEW m, NEW r, NEW s, NEW V, NEW W, ChangesOnly(m, r, V), ChangesOnly(r, s, W)
  PROVE  ChangesOnly(m, s, V \cup W)
BY DEF ChangesOnly

LEMMA PutFacts ==
  ASSUME NEW m, IsMachine(m), NEW d, ~IsImm(d), NEW v
  PROVE  LET r == Put(m, d, v)
         IN  ChangesOnly(m, r, {d}) /\ r.flags = m.flags /\ Val(r, d) = v
             /\ d \in DOMAIN r.regs /\ r.regs[d] = v
<1> DEFINE r == Put(m, d, v)
           regs == [o \in DOMAIN m.regs \cup {d} |-> IF o = d THEN v ELSE m.regs[o]]
<1>1. r = [regs |-> regs, flags |-> m.flags, mem |-> m.mem]
  BY DEF IsMachine, Put
<1>2. /\ DOMAIN regs = {d} \cup DOMAIN m.regs /\ regs[d] = v
      /\ \A o \in DOMAIN m.regs : o # d => regs[o] = m.regs[o]
  OBVIOUS
<1> HIDE DEF regs, r
<1>3. r.regs = regs /\ r.flags = m.flags /\ r.mem = m.mem /\ IsMachine(r)
  BY <1>1 DEF IsMachine
<1>4. Val(r, d) = v
  BY <1>2, <1>3 DEF Val
<1>5. ASSUME NEW o, o # d PROVE Val(r, o) = Val(m, o)
  BY <1>2, <1>3, <1>5 DEF Val
<1>6. ChangesOnly(m, r, {d})
  BY <1>3, <1>5 DEF ChangesOnly
<1> QED BY <1>2, <1>3, <1>4, <1>6 DEF r

LEMMA ExecLoadImm == \A m, d, v : Exec(m, LoadImm(d, v)) = Put(m, d, v)
BY DEF Exec, LoadImm

LEMMA ExecLoad == \A m, d, at : Exec(m, Load(d, at)) = Put(m, d, m.mem[Target(m, at)])
BY DEF Exec, Load

LEMMA ExecStore ==
  \A m, s, at : Exec(m, Store(s, at)) = [m EXCEPT !.mem[Target(m, at)] = Val(m, s)]
BY DEF Exec, Store

LEMMA ExecBin ==
  \A m, f, d, a, b : Exec(m, Bin(f, d, a, b)) = Put(m, d, Apply(f, Val(m, a), Val(m, b)))
BY DEF Exec, Bin

LEMMA ExecCmp ==
  \A m, a, b : Exec(m, Cmp(a, b)) = [m EXCEPT !.flags = <<Val(m, a), Val(m, b)>>]
BY DEF Exec, Cmp

LEMMA ExecMov == \A m, d, s : Exec(m, Mov(d, s)) = Put(m, d, Val(m, s))
BY DEF Exec, Mov

LEMMA ExecMovIf ==
  \A m, c, d, s : Exec(m, MovIf(c, d, s)) = PutIf(m, Holds(c, m.flags), d, Val(m, s))
BY DEF Exec, MovIf

LEMMA ExecCall ==
  \A m, v : Exec(m, [op |-> "bl", result |-> v])
              = [Put(m, Reg(0), v) EXCEPT !.flags = <<Undef, Undef>>]
BY DEF Exec

\* Loading an immediate into a register of its own.
LEMMA LoadedRun ==
  ASSUME NEW m, IsMachine(m), NEW o, NEW i
  PROVE  LET r == Run(m, Loaded(o, i))
         IN  /\ IsCode(Loaded(o, i)) /\ ChangesOnly(m, r, {Internal(i)}) /\ r.flags = m.flags
             /\ Val(r, InReg(o, i)) = Val(m, o)
             /\ ~IsImm(InReg(o, i))
<1>1. CASE IsImm(o)
  <2>1. Loaded(o, i) = <<LoadImm(Internal(i), o[2])>> /\ InReg(o, i) = Internal(i) /\ Val(m, o) = o[2]
    BY <1>1 DEF Loaded, InReg, Val
  <2>2. Run(m, Loaded(o, i)) = Put(m, Internal(i), o[2])
    <3>1. Run(m, Loaded(o, i)) = Exec(m, LoadImm(Internal(i), o[2]))
      BY <2>1, RunOne
    <3> QED BY <3>1, ExecLoadImm
  <2> QED BY <2>1, <2>2, CodeShapes, PutFacts, Operands
<1>2. CASE ~IsImm(o)
  <2>1. Loaded(o, i) = <<>> /\ InReg(o, i) = o
    BY <1>2 DEF Loaded, InReg
  <2> QED BY <1>2, <2>1, EmptyRun, CodeShapes DEF ChangesOnly
<1> QED BY <1>1, <1>2

\* A destination and sources that the code may use with registers of its own.
Apart(d, s1, s2) ==
  /\ ~IsImm(d) /\ d # Internal(1) /\ d # Internal(2) /\ d # s1 /\ d # s2
  /\ s1 # Internal(1) /\ s1 # Internal(2) /\ s2 # Internal(1) /\ s2 # Internal(2)

Written(d) == {d, Internal(1), Internal(2)}

LEMMA BinaryRun ==
  ASSUME NEW m, IsMachine(m), NEW f, NEW d, NEW s1, NEW s2,
         Apart(d, s1, s2)
  PROVE  LET r == Run(m, SelectBinary(f, d, s1, s2))
             x == Val(m, s1)
             y == Val(m, s2)
         IN  /\ IsCode(SelectBinary(f, d, s1, s2))
             /\ ChangesOnly(m, r, Written(d)) /\ r.flags = m.flags
             /\ f # "mod" => Val(r, d) = Apply(f, x, y)
             /\ f = "mod" => Val(r, d) = Apply("sub", x, Apply("mul", Apply("div", x, y), y))
<1> DEFINE x == Val(m, s1)
           y == Val(m, s2)
           a == InReg(s1, 1)
           b == InReg(s2, 2)
           others == IF f = "mod" THEN <<Bin("div", d, a, b), Bin("mul", d, d, b), Bin("sub", d, a, d)>>
                                ELSE <<Bin(f, d, a, b)>>
           m1 == Run(m, Loaded(s1, 1))
           m2 == Run(m1, Loaded(s2, 2))
           r == Run(m2, others)
           code == SelectBinary(f, d, s1, s2)
<1>1. code = Loaded(s1, 1) \o Loaded(s2, 2) \o others
  BY DEF SelectBinary
<1>2. IsCode(others)
  BY CodeShapes
<1>3. /\ IsCode(Loaded(s1, 1)) /\ ChangesOnly(m, m1, {Internal(1)}) /\ m1.flags = m.flags
      /\ Val(m1, a) = x /\ ~IsImm(a)
  BY LoadedRun
<1>4. /\ IsCode(Loaded(s2, 2)) /\ ChangesOnly(m1, m2, {Internal(2)}) /\ m2.flags = m1.flags
      /\ Val(m2, b) = Val(m1, s2) /\ ~IsImm(b)
  BY <1>3, LoadedRun DEF ChangesOnly
<1>5. IsCode(code) /\ Run(m, code) = r
  <2>1. IsCode(Loaded(s1, 1) \o Loaded(s2, 2)) /\ Run(m, Loaded(s1, 1) \o Loaded(s2, 2)) = m2
    BY <1>3, <1>4, RunJoined
  <2>2. IsCode((Loaded(s1, 1) \o Loaded(s2, 2)) \o others)
        /\ Run(m, (Loaded(s1, 1) \o Loaded(s2, 2)) \o others) = Run(Run(m, Loaded(s1, 1) \o Loaded(s2, 2)), others)
    <3> HIDE DEF others
    <3> QED BY <1>2, <2>1, RunJoined
  <2> QED BY <1>1, <2>1, <2>2
<1>6. a \notin {Internal(2), d} /\ b \notin {Internal(1), d}
  <2>1. Internal(1) # Internal(2)
    BY Operands
  <2> QED BY <2>1 DEF InReg, Apart
<1>7. Val(m2, a) = x /\ Val(m2, b) = y
  BY <1>3, <1>4, <1>6 DEF ChangesOnly, Apart
<1>a. ~IsImm(d)
  BY DEF Apart
<1>8. IsMachine(m2) /\ ChangesOnly(m, m2, {Internal(1), Internal(2)}) /\ m2.flags = m.flags
  BY <1>3, <1>4, ChangesJoined DEF ChangesOnly
<1> HIDE DEF m1, m2, a, b, x, y
<1>9. CASE f # "mod"
  <2>1. r = Put(m2, d, Apply(f, x, y))
    <3>1. r = Exec(m2, Bin(f, d, a, b))
      BY <1>9, RunOne
    <3>2. Exec(m2, Bin(f, d, a, b)) = Put(m2, d, Apply(f, Val(m2, a), Val(m2, b)))
      BY ExecBin
    <3> QED BY <1>7, <3>1, <3>2
  <2>2. ChangesOnly(m2, r, {d}) /\ r.flags = m2.flags /\ Val(r, d) = Apply(f, x, y)
    BY <1>8, <1>a, <2>1, PutFacts
  <2> QED BY <1>5, <1>8, <1>9, <2>2 DEF ChangesOnly, Written, x, y
<1>10. CASE f = "mod"
  <2> DEFINE q == Apply("div", x, y)
             p == Apply("mul", q, y)
             m3 == Put(m2, d, q)
             m4 == Put(m3, d, p)
             m5 == Put(m4, d, Apply("sub", x, p))
  <2> HIDE DEF q, p
  <2>1. Exec(m2, Bin("div", d, a, b)) = m3
    <3>1. Exec(m2, Bin("div", d, a, b)) = Put(m2, d, Apply("div", Val(m2, a), Val(m2, b)))
      BY ExecBin
    <3> QED BY <1>7, <3>1 DEF q
  <2>2. ChangesOnly(m2, m3, {d}) /\ m3.flags = m2.flags /\ Val(m3, d) = q /\ Val(m3, a) = x /\ Val(m3, b) = y
    <3>1. ChangesOnly(m2, m3, {d}) /\ m3.flags = m2.flags /\ Val(m3, d) = q
      BY <1>8, <1>a, PutFacts
    <3> HIDE DEF m3
    <3> QED BY <1>6, <1>7, <3>1 DEF ChangesOnly
  <2>3. Exec(m3, Bin("mul", d, d, b)) = m4
    <3> HIDE DEF m3
    <3> QED BY <2>2, ExecBin DEF p
  <2>4. ChangesOnly(m3, m4, {d}) /\ m4.flags = m3.flags /\ Val(m4, d) = p /\ Val(m4, a) = x
    <3>1. IsMachine(m3)
      BY <2>2 DEF ChangesOnly
    <3> HIDE DEF m3
    <3>2. ChangesOnly(m3, m4, {d}) /\ m4.flags = m3.flags /\ Val(m4, d) = p
      BY <1>a, <3>1, PutFacts
    <3> HIDE DEF m4
    <3> QED BY <1>6, <2>2, <3>2 DEF ChangesOnly
  <2>5. Exec(m4, Bin("sub", d, a, d)) = m5
    <3> HIDE DEF m4
    <3> QED BY <2>4, ExecBin
  <2>6. ChangesOnly(m4, m5, {d}) /\ m5.flags = m4.flags /\ Val(m5, d) = Apply("sub", x, p)
    <3>1. IsMachine(m4)
      BY <2>4 DEF ChangesOnly
    <3> HIDE DEF m4
    <3> QED BY <1>a, <3>1, PutFacts
  <2> HIDE DEF m3, m4, m5
  <2>7. r = m5
    BY <1>10, <2>1, <2>3, <2>5, RunThree
  <2>8. ChangesOnly(m, r, Written(d)) /\ r.flags = m.flags
    BY <1>8, <2>2, <2>4, <2>6, <2>7 DEF ChangesOnly, Written
  <2> QED BY <1>5, <1>10, <2>6, <2>7, <2>8 DEF x, y, p, q
<1> QED BY <1>9, <1>10

LEMMA WithFlags ==
  ASSUME NEW m, IsMachine(m), NEW flags
  PROVE  LET r == [m EXCEPT !.flags = flags]
         IN  ChangesOnly(m, r, {}) /\ r.flags = flags
<1> DEFINE r == [m EXCEPT !.flags = flags]
<1>1. r = [regs |-> m.regs, flags |-> flags, mem |-> m.mem]
  BY DEF IsMachine
<1> HIDE DEF r
<1>2. r.regs = m.regs /\ r.flags = flags /\ r.mem = m.mem /\ IsMachine(r)
  BY <1>1 DEF IsMachine
<1> QED BY <1>2 DEF ChangesOnly, Val, r

\* What a comparison of x and y leaves in a register.
Decided(c, x, y) == IF Undef \in {x, y} THEN Undef ELSE Bit(Compare(c, x, y))

LEMMA Opposites ==
  ASSUME NEW c \in CmpOps, NEW x \in Int, NEW y \in Int
  PROVE  /\ Opposite[c] \in CmpOps /\ Compare(c, x, y) \in BOOLEAN
         /\ Compare(Opposite[c], x, y) <=> ~Compare(c, x, y)
<1>1. CASE c = "E"
  BY <1>1 DEF Opposite, CmpOps, Compare
<1>2. CASE c = "NE"
  BY <1>2 DEF Opposite, CmpOps, Compare
<1>3. CASE c = "L"
  BY <1>3 DEF Opposite, CmpOps, Compare
<1>4. CASE c = "GE"
  BY <1>4 DEF Opposite, CmpOps, Compare
<1>5. CASE c = "LE"
  BY <1>5 DEF Opposite, CmpOps, Compare
<1>6. CASE c = "G"
  BY <1>6 DEF Opposite, CmpOps, Compare
<1> QED BY <1>1, <1>2, <1>3, <1>4, <1>5, <1>6 DEF CmpOps

LEMMA HoldsIs ==
  ASSUME NEW c \in CmpOps, NEW x \in Int \cup {Undef}, NEW y \in Int \cup {Undef}
  PROVE  /\ Undef \in {x, y} => Holds(c, <<x, y>>) = Undef
         /\ Undef \notin {x, y} => /\ x \in Int /\ y \in Int
                                   /\ Holds(c, <<x, y>>) = Compare(c, x, y)
                                   /\ Holds(c, <<x, y>>) # Undef
<1>1. c # Undef
  BY ValuesAssumption
<1>2. ToSet(<<x, y>>) = {x, y}
  BY DEF ToSet
<1>3. ASSUME Undef \notin {x, y} PROVE Compare(c, x, y) # Undef
  <2>1. Compare(c, x, y) \in BOOLEAN
    BY <1>3, Opposites
  <2> QED BY <2>1, ValuesAssumption
<1> QED BY <1>1, <1>2, <1>3 DEF Holds

\* Two moves under opposite conditions put the outcome into a register.
LEMMA MovesRun ==
  ASSUME NEW m, IsMachine(m), NEW c \in CmpOps, NEW d, ~IsImm(d),
         NEW x \in Int \cup {Undef}, NEW y \in Int \cup {Undef}, m.flags = <<x, y>>
  PROVE  LET r == Exec(Exec(m, MovIf(c, d, Imm(1))), MovIf(Opposite[c], d, Imm(0)))
         IN  ChangesOnly(m, r, {d}) /\ r.flags = m.flags /\ Val(r, d) = Decided(c, x, y)
<1> DEFINE m1 == PutIf(m, Holds(c, m.flags), d, 1)
           r == PutIf(m1, Holds(Opposite[c], m1.flags), d, 0)
<1>1. Exec(Exec(m, MovIf(c, d, Imm(1))), MovIf(Opposite[c], d, Imm(0))) = r
  <2>1. \A k : Val(k, Imm(1)) = 1 /\ Val(k, Imm(0)) = 0
    BY Operands DEF Val
  <2> QED BY <2>1, ExecMovIf
<1>2. Opposite[c] \in CmpOps
  BY DEF Opposite, CmpOps
<1>3. CASE Undef \in {x, y}
  <2>1. m1 = Put(m, d, Undef)
    BY <1>3, HoldsIs DEF PutIf
  <2>2. ChangesOnly(m, m1, {d}) /\ m1.flags = m.flags
    BY <2>1, PutFacts
  <2> HIDE DEF m1
  <2>3. r = Put(m1, d, Undef)
    BY <1>2, <1>3, <2>2, HoldsIs DEF PutIf
  <2>4. ChangesOnly(m1, r, {d}) /\ r.flags = m1.flags /\ Val(r, d) = Undef
    BY <2>2, <2>3, PutFacts DEF ChangesOnly
  <2> HIDE DEF r
  <2> QED BY <1>1, <1>3, <2>2, <2>4 DEF ChangesOnly, Decided
<1>4. CASE Undef \notin {x, y}
  <2>1. /\ x \in Int /\ y \in Int
        /\ Holds(c, m.flags) # Undef /\ Holds(c, m.flags) = Compare(c, x, y)
        /\ Holds(Opposite[c], m.flags) # Undef /\ Holds(Opposite[c], m.flags) = Compare(Opposite[c], x, y)
    BY <1>2, <1>4, HoldsIs
  <2>2. Compare(Opposite[c], x, y) <=> ~Compare(c, x, y)
    BY <2>1, Opposites
  <2>3. CASE Compare(c, x, y)
    <3>1. m1 = Put(m, d, 1)
      BY <2>1, <2>3 DEF PutIf
    <3> DEFINE one == 1
               m0 == Put(m, d, one)
    <3> HIDE DEF one
    <3>a. ChangesOnly(m, m0, {d}) /\ m0.flags = m.flags /\ Val(m0, d) = one
      BY PutFacts
    <3>2. ChangesOnly(m, m1, {d}) /\ m1.flags = m.flags /\ Val(m1, d) = 1
      BY <3>1, <3>a DEF one
    <3> HIDE DEF m1
    <3>3. r = m1
      BY <2>1, <2>2, <2>3, <3>2 DEF PutIf
    <3> HIDE DEF r
    <3> QED BY <1>1, <1>4, <2>3, <3>2, <3>3 DEF Decided, Bit
  <2>4. CASE ~Compare(c, x, y)
    <3>1. m1 = m
      BY <2>1, <2>4 DEF PutIf
    <3> HIDE DEF m1
    <3>2. r = Put(m, d, 0)
      BY <2>1, <2>2, <2>4, <3>1 DEF PutIf
    <3>3. ChangesOnly(m, r, {d}) /\ r.flags = m.flags /\ Val(r, d) = 0
      BY <3>2, PutFacts
    <3> HIDE DEF r
    <3> QED BY <1>1, <1>4, <2>4, <3>3 DEF Decided, Bit
  <2> QED BY <2>3, <2>4
<1> QED BY <1>3, <1>4

\* The flags after a comparison.
Compared(m, s1, s2) == <<Val(m, s1), Val(m, s2)>>

LEMMA CmpRun ==
  ASSUME NEW m, IsMachine(m), NEW c \in CmpOps, NEW d, NEW s1, NEW s2,
         Apart(d, s1, s2),
         Val(m, s1) \in Int \cup {Undef}, Val(m, s2) \in Int \cup {Undef}
  PROVE  LET r == Run(m, SelectCmp(c, d, s1, s2))
         IN  /\ IsCode(SelectCmp(c, d, s1, s2))
             /\ ChangesOnly(m, r, Written(d))
             /\ r.flags = Compared(m, s1, s2)
             /\ Val(r, d) = Decided(c, Val(m, s1), Val(m, s2))
<1> DEFINE x == Val(m, s1)
           y == Val(m, s2)
           a == InReg(s1, 1)
           b == IF IsImm(s2) /\ s2[2] > CmpImmediate THEN Internal(2) ELSE s2
           second == IF b # s2 THEN Loaded(s2, 2) ELSE <<>>
           others == <<Cmp(a, b), MovIf(c, d, Imm(1)), MovIf(Opposite[c], d, Imm(0))>>
           m1 == Run(m, Loaded(s1, 1))
           m2 == Run(m1, second)
           m3 == [m2 EXCEPT !.flags = <<Val(m2, a), Val(m2, b)>>]
           r == Run(m2, others)
<1>1. SelectCmp(c, d, s1, s2) = Loaded(s1, 1) \o second \o others
  BY DEF SelectCmp
<1>2. IsCode(others)
  BY CodeShapes
<1>3. /\ IsCode(Loaded(s1, 1)) /\ ChangesOnly(m, m1, {Internal(1)}) /\ m1.flags = m.flags
      /\ Val(m1, a) = x
  BY LoadedRun
<1>4. IsCode(second) /\ ChangesOnly(m1, m2, {Internal(2)}) /\ Val(m2, b) = Val(m1, s2)
  <2>1. IsMachine(m1)
    BY <1>3 DEF ChangesOnly
  <2> HIDE DEF m1
  <2>2. CASE IsImm(s2) /\ s2[2] > CmpImmediate
    <3>1. b = Internal(2) /\ b # s2 /\ InReg(s2, 2) = b
      BY <2>2, Operands DEF InReg
    <3>2. second = Loaded(s2, 2)
      BY <3>1
    <3> QED BY <2>1, <3>1, <3>2, LoadedRun
  <2>3. CASE ~(IsImm(s2) /\ s2[2] > CmpImmediate)
    <3>1. b = s2 /\ second = <<>>
      BY <2>3
    <3> QED BY <2>1, <3>1, EmptyRun, CodeShapes DEF ChangesOnly
  <2> QED BY <2>2, <2>3
<1>5. a # Internal(2) /\ b # Internal(1)
  <2>1. Internal(1) # Internal(2)
    BY Operands
  <2>2. s1 # Internal(2) /\ s2 # Internal(1)
    BY DEF Apart
  <2>3. a = s1 \/ a = Internal(1)
    BY DEF InReg
  <2>4. b = s2 \/ b = Internal(2)
    OBVIOUS
  <2> QED BY <2>1, <2>2, <2>3, <2>4
<1> HIDE DEF second, others, b, m1, m2, a
<1>6. IsCode(SelectCmp(c, d, s1, s2)) /\ Run(m, SelectCmp(c, d, s1, s2)) = r
  <2>1. IsCode(Loaded(s1, 1) \o second) /\ Run(m, Loaded(s1, 1) \o second) = m2
    BY <1>3, <1>4, RunJoined DEF m1, m2
  <2>2. IsCode((Loaded(s1, 1) \o second) \o others)
        /\ Run(m, (Loaded(s1, 1) \o second) \o others) = Run(Run(m, Loaded(s1, 1) \o second), others)
    BY <1>2, <2>1, RunJoined
  <2> QED BY <1>1, <2>1, <2>2
<1>7. ChangesOnly(m, m2, {Internal(1), Internal(2)}) /\ Val(m2, a) = x /\ Val(m2, b) = y
  <2>1. Val(m2, a) = x
    BY <1>3, <1>4, <1>5 DEF ChangesOnly
  <2>2. Val(m1, s2) = y
    BY <1>3 DEF ChangesOnly, Apart
  <2> QED BY <1>3, <1>4, <2>1, <2>2 DEF ChangesOnly
<1>0. ~IsImm(d)
  BY DEF Apart
<1>8. ChangesOnly(m2, m3, {}) /\ m3.flags = <<x, y>>
  <2>1. IsMachine(m2)
    BY <1>7 DEF ChangesOnly
  <2> QED BY <1>7, <2>1, WithFlags
<1>9. r = Exec(Exec(m3, MovIf(c, d, Imm(1))), MovIf(Opposite[c], d, Imm(0)))
  <2>1. r = Exec(Exec(Exec(m2, Cmp(a, b)), MovIf(c, d, Imm(1))), MovIf(Opposite[c], d, Imm(0)))
    BY RunThree DEF others
  <2>2. Exec(m2, Cmp(a, b)) = m3
    BY ExecCmp
  <2> QED BY <2>1, <2>2
<1> HIDE DEF m3
<1>10. ChangesOnly(m3, r, {d}) /\ r.flags = m3.flags /\ Val(r, d) = Decided(c, x, y)
  <2>1. IsMachine(m3) /\ x \in Int \cup {Undef} /\ y \in Int \cup {Undef}
    BY <1>8 DEF ChangesOnly
  <2> HIDE DEF r, x, y
  <2> DEFINE q == Exec(Exec(m3, MovIf(c, d, Imm(1))), MovIf(Opposite[c], d, Imm(0)))
  <2>2. c \in CmpOps /\ m3.flags = <<x, y>>
    BY <1>8
  <2>3. ChangesOnly(m3, q, {d}) /\ q.flags = m3.flags /\ Val(q, d) = Decided(c, x, y)
    BY ONLY <1>0, <2>1, <2>2, MovesRun, ZenonT(40)
  <2> QED BY <1>9, <2>3
<1> HIDE DEF r
<1> QED BY <1>6, <1>7, <1>8, <1>10 DEF ChangesOnly, Compared, Written

LEMMA XorRun ==
  ASSUME NEW m, IsMachine(m), NEW d, ~IsImm(d),
         NEW x \in Int \cup {Undef}, NEW y \in Int \cup {Undef}, m.flags = <<x, y>>
  PROVE  LET r == Run(m, SelectXor(d))
         IN  /\ IsCode(SelectXor(d)) /\ ChangesOnly(m, r, {d}) /\ r.flags = m.flags
             /\ Val(r, d) = Decided("E", x, y)
<1>1. SelectXor(d) = <<MovIf("E", d, Imm(1)), MovIf(Opposite["E"], d, Imm(0))>> /\ "E" \in CmpOps
  BY DEF SelectXor, Opposite, CmpOps
<1>2. Run(m, SelectXor(d)) = Exec(Exec(m, MovIf("E", d, Imm(1))), MovIf(Opposite["E"], d, Imm(0)))
  BY <1>1, RunTwo
<1>3. IsCode(SelectXor(d))
  BY <1>1, CodeShapes
<1> DEFINE r == Run(m, SelectXor(d))
<1>4. ChangesOnly(m, r, {d}) /\ r.flags = m.flags /\ Val(r, d) = Decided("E", x, y)
  <2> DEFINE e == "E"
  <2>1. r = Exec(Exec(m, MovIf(e, d, Imm(1))), MovIf(Opposite[e], d, Imm(0))) /\ e \in CmpOps
    BY <1>1, <1>2
  <2> HIDE DEF r, e
  <2>2. ChangesOnly(m, r, {d}) /\ r.flags = m.flags /\ Val(r, d) = Decided(e, x, y)
    BY <2>1, MovesRun, ZenonT(40)
  <2> QED BY <2>2 DEF e
<1> QED BY <1>3, <1>4

LEMMA MovRun ==
  ASSUME NEW m, IsMachine(m), NEW d, ~IsImm(d), NEW s
  PROVE  LET r == Run(m, <<Mov(d, s)>>)
         IN  ChangesOnly(m, r, {d}) /\ r.flags = m.flags /\ Val(r, d) = Val(m, s)
<1>1. Run(m, <<Mov(d, s)>>) = Put(m, d, Val(m, s))
  BY RunOne, ExecMov
<1> QED BY <1>1, PutFacts

LEMMA LoadRun ==
  ASSUME NEW m, IsMachine(m), NEW d, ~IsImm(d), d # Internal(1), NEW x
  PROVE  LET r == Run(m, SelectLoad(d, x))
         IN  /\ IsCode(SelectLoad(d, x)) /\ ChangesOnly(m, r, {d, Internal(1)})
             /\ Val(r, d) = m.mem[AddressOf(x)]
<1> DEFINE r == Run(m, SelectLoad(d, x))
<1>1. CASE x \in Globals
  <2> DEFINE l == Label(x)
             m1 == Put(m, Internal(1), l)
             r1 == Put(m1, d, m.mem[l])
  <2>1. SelectLoad(d, x) = <<LoadImm(Internal(1), l), Load(d, Internal(1))>> /\ AddressOf(x) = l
    BY <1>1 DEF SelectLoad, AddressOf
  <2>2. /\ ChangesOnly(m, m1, {Internal(1)}) /\ m1.regs[Internal(1)] = l /\ IsMachine(m1) /\ m1.mem = m.mem
    <3> HIDE DEF l
    <3>1. ChangesOnly(m, m1, {Internal(1)}) /\ m1.regs[Internal(1)] = l
      BY Operands, PutFacts
    <3> QED BY <3>1 DEF ChangesOnly
  <2>3. Target(m1, Internal(1)) = l
    BY <2>2 DEF Target, Internal
  <2>4. r = r1
    <3>1. r = Exec(Exec(m, LoadImm(Internal(1), l)), Load(d, Internal(1)))
      BY <2>1, RunTwo
    <3>2. Exec(m, LoadImm(Internal(1), l)) = m1
      BY ExecLoadImm
    <3> HIDE DEF m1
    <3>3. Exec(m1, Load(d, Internal(1))) = Put(m1, d, m1.mem[Target(m1, Internal(1))])
      BY ExecLoad
    <3> QED BY <2>2, <2>3, <3>1, <3>2, <3>3
  <2>5. ChangesOnly(m1, r1, {d}) /\ Val(r1, d) = m.mem[l]
    <3> HIDE DEF m1
    <3> QED BY <2>2, PutFacts
  <2> HIDE DEF r1, m1, r
  <2> QED BY <2>1, <2>2, <2>4, <2>5, CodeShapes DEF ChangesOnly, r
<1>2. CASE x \notin Globals
  <2> DEFINE l == Slot(x)
             r1 == Put(m, d, m.mem[l])
  <2>1. SelectLoad(d, x) = <<Load(d, l)>> /\ AddressOf(x) = l
    BY <1>2 DEF SelectLoad, AddressOf
  <2>2. Target(m, l) = l
    BY DEF Target, Slot
  <2>3. r = r1
    <3>1. r = Exec(m, Load(d, l))
      BY <2>1, RunOne
    <3> QED BY <2>2, <3>1, ExecLoad
  <2>4. ChangesOnly(m, r1, {d}) /\ Val(r1, d) = m.mem[l]
    BY PutFacts
  <2> HIDE DEF r1, r
  <2> QED BY <2>1, <2>3, <2>4, CodeShapes DEF ChangesOnly, r
<1> QED BY <1>1, <1>2

LEMMA WithMem ==
  ASSUME NEW m, IsMachine(m), NEW at, NEW v
  PROVE  LET r == [m EXCEPT !.mem[at] = v]
         IN  IsMachine(r) /\ r.mem = [m.mem EXCEPT ![at] = v]
<1> DEFINE r == [m EXCEPT !.mem[at] = v]
<1>1. r = [regs |-> m.regs, flags |-> m.flags, mem |-> [m.mem EXCEPT ![at] = v]]
  BY DEF IsMachine
<1> QED BY <1>1 DEF IsMachine

LEMMA StoreRun ==
  ASSUME NEW m, IsMachine(m), NEW x, NEW s, s \notin {Internal(1), Internal(2)}
  PROVE  LET r == Run(m, SelectStore(x, s))
         IN  IsMachine(r) /\ r.mem = [m.mem EXCEPT ![AddressOf(x)] = Val(m, s)]
<1> DEFINE a == InReg(s, 1)
           v == Val(m, s)
           m1 == Run(m, Loaded(s, 1))
           first == Loaded(s, 1)
           r == Run(m, SelectStore(x, s))
<1>1. IsCode(first) /\ ChangesOnly(m, m1, {Internal(1)}) /\ Val(m1, a) = v
  BY LoadedRun
<1>2. IsMachine(m1) /\ m1.mem = m.mem
  BY <1>1 DEF ChangesOnly
<1>3. a # Internal(2)
  <2>1. Internal(1) # Internal(2)
    BY Operands
  <2> QED BY <2>1 DEF InReg
<1>4. CASE x \in Globals
  <2> DEFINE l == Label(x)
             m2 == Put(m1, Internal(2), l)
             others == <<LoadImm(Internal(2), l), Store(a, Internal(2))>>
  <2>1. SelectStore(x, s) = first \o others /\ AddressOf(x) = l
    BY <1>4 DEF SelectStore, AddressOf
  <2>2. ChangesOnly(m1, m2, {Internal(2)}) /\ m2.regs[Internal(2)] = l /\ IsMachine(m2) /\ m2.mem = m.mem /\ Val(m2, a) = v
    <3> HIDE DEF l, m1, a, v
    <3>1. ChangesOnly(m1, m2, {Internal(2)}) /\ m2.regs[Internal(2)] = l
      BY <1>2, Operands, PutFacts
    <3> HIDE DEF m2
    <3> QED BY <1>1, <1>2, <1>3, <3>1 DEF ChangesOnly
  <2>3. Target(m2, Internal(2)) = l
    BY <2>2 DEF Target, Internal
  <2>4. r = Run(m1, others)
    <3>1. IsCode(others)
      BY CodeShapes
    <3> HIDE DEF others, first
    <3> QED BY <1>1, <2>1, <3>1, RunJoined DEF first
  <2>5. Run(m1, others) = Exec(Exec(m1, LoadImm(Internal(2), l)), Store(a, Internal(2)))
    BY RunTwo
  <2>6. Exec(m1, LoadImm(Internal(2), l)) = m2
    BY ExecLoadImm
  <2> HIDE DEF m2, m1, a, v, r, others
  <2>7. Exec(m2, Store(a, Internal(2))) = [m2 EXCEPT !.mem[l] = v]
    BY <2>2, <2>3, ExecStore
  <2>8. r = [m2 EXCEPT !.mem[l] = v]
    BY <2>4, <2>5, <2>6, <2>7
  <2>9. IsMachine(r) /\ r.mem = [m2.mem EXCEPT ![l] = v]
    BY <2>2, <2>8, WithMem
  <2> QED BY <2>1, <2>2, <2>9 DEF r, v
<1>5. CASE x \notin Globals
  <2> DEFINE l == Slot(x)
             others == <<Store(a, l)>>
  <2>1. SelectStore(x, s) = first \o others /\ AddressOf(x) = l
    BY <1>5 DEF SelectStore, AddressOf
  <2>2. Target(m1, l) = l
    BY DEF Target, Slot
  <2>3. r = Run(m1, others)
    <3>1. IsCode(others)
      BY CodeShapes
    <3> HIDE DEF others, first
    <3> QED BY <1>1, <2>1, <3>1, RunJoined DEF first
  <2>4. Run(m1, others) = Exec(m1, Store(a, l))
    BY RunOne
  <2> HIDE DEF m1, a, v, r, others
  <2>5. r = [m1 EXCEPT !.mem[l] = v]
    BY <1>1, <2>2, <2>3, <2>4, ExecStore
  <2>6. IsMachine(r) /\ r.mem = [m1.mem EXCEPT ![l] = v]
    BY <1>2, <2>5, WithMem
  <2> QED BY <1>2, <2>1, <2>6 DEF r, v
<1> QED BY <1>4, <1>5

Registers == {Reg(j) : j \in Nat}

\* Every parameter that has a register is in it before the call.
LEMMA ParamsRun ==
  ASSUME NEW m, IsMachine(m), NEW n \in Nat, NEW params, DOMAIN params = 1 .. n, Len(params) = n,
         \A i \in 1 .. n : params[i] \notin Registers
  PROVE  LET r == Run(m, SelectParams(params))
         IN  /\ IsCode(SelectParams(params)) /\ ChangesOnly(m, r, Registers)
             /\ n <= ArgRegs => \A i \in 1 .. n : Val(r, Reg(i - 1)) = Val(m, params[i])
<1> DEFINE code == SelectParams(params)
           r == Run(m, code)
<1>1. CASE n > ArgRegs
  <2>1. code = <<>>
    BY <1>1 DEF SelectParams
  <2>2. r = m
    BY <2>1, EmptyRun
  <2> QED BY <1>1, <2>1, <2>2, CodeShapes, SizesAssumption DEF ChangesOnly
<1>2. CASE ~(n > ArgRegs)
  <2>1. code = [i \in 1 .. n |-> Mov(Reg(i - 1), params[i])]
    BY <1>2 DEF SelectParams
  <2>2. Len(code) = n /\ DOMAIN code = 1 .. n /\ \A i \in 1 .. n : code[i] = Mov(Reg(i - 1), params[i])
    BY <2>1
  <2>3. IsCode(code)
    <3>1. code = [i \in 1 .. n |-> code[i]]
      BY <2>1, <2>2
    <3> HIDE DEF code
    <3>2. code \in [1 .. n -> {code[i] : i \in DOMAIN code}]
      BY <2>2, <3>1
    <3> DEFINE T == {code[i] : i \in DOMAIN code}
    <3> HIDE DEF T
    <3>3. code \in [1 .. n -> T]
      BY <3>2 DEF T
    <3>4. code \in Seq(T)
      BY <3>3
    <3> QED BY <3>4 DEF IsCode, T
  <2>4. PICK f : States(f, m, code) /\ r = f[n]
    BY <2>2, <2>3, RunStates
  <2> DEFINE Good(k) == /\ ChangesOnly(m, f[k], Registers)
                        /\ \A i \in 1 .. k : Val(f[k], Reg(i - 1)) = Val(m, params[i])
             S == {k \in 0 .. n : Good(k)}
  <2>5. 0 \in S
    BY <2>4 DEF States, ChangesOnly
  <2>6. ASSUME NEW k \in 0 .. n, k < n, k \in S PROVE k + 1 \in S
    <3>1. k \in Nat /\ k + 1 \in 1 .. n /\ (k + 1) - 1 = k /\ k + 1 \in 0 .. n
      BY <2>6
    <3> DEFINE m1 == f[k]
               v == Val(m1, params[k + 1])
    <3>2. f[k + 1] = Put(m1, Reg(k), v)
      <4>1. f[k + 1] = Exec(f[(k + 1) - 1], code[k + 1])
        BY <2>2, <2>4, <3>1 DEF States
      <4>2. code[k + 1] = Mov(Reg(k), params[k + 1])
        BY <2>2, <3>1
      <4> HIDE DEF code
      <4> QED BY <3>1, <4>1, <4>2, ExecMov
    <3>3. Good(k)
      BY <2>6
    <3> DEFINE m2 == Put(m1, Reg(k), v)
    <3>4. ChangesOnly(m1, m2, {Reg(k)}) /\ Val(m2, Reg(k)) = v
      <4>1. IsMachine(m1)
        BY <3>3 DEF ChangesOnly
      <4> HIDE DEF v, m1
      <4> QED BY <4>1, Operands, PutFacts
    <3>5. Reg(k) \in Registers /\ params[k + 1] \notin Registers
      BY <3>1 DEF Registers
    <3>6. v = Val(m, params[k + 1])
      BY <3>3, <3>5 DEF ChangesOnly
    <3> HIDE DEF v, m2
    <3>7. ChangesOnly(m, m2, Registers)
      BY <3>3, <3>4, <3>5 DEF ChangesOnly
    <3>8. ASSUME NEW i \in 1 .. k + 1 PROVE Val(m2, Reg(i - 1)) = Val(m, params[i])
      <4>1. CASE i = k + 1
        BY <3>1, <3>4, <3>6, <4>1
      <4>2. CASE i # k + 1
        <5>1. i \in 1 .. k /\ i - 1 # k
          BY <3>1, <4>2
        <5>2. Reg(i - 1) # Reg(k)
          BY <5>1, Operands
        <5>3. Val(m2, Reg(i - 1)) = Val(m1, Reg(i - 1))
          BY <3>4, <5>2 DEF ChangesOnly
        <5> QED BY <3>3, <5>1, <5>3
      <4> QED BY <4>1, <4>2
    <3> QED BY <3>1, <3>2, <3>7, <3>8 DEF m2
  <2>7. n \in S
    <3>1. \A k \in 0 .. n : k < n /\ k \in S => k + 1 \in S
      BY <2>6
    <3> HIDE DEF S
    <3>2. n \in 0 .. n
      OBVIOUS
    <3> QED BY <2>5, <3>1, <3>2, CountingUp
  <2> QED BY <2>3, <2>4, <2>7
<1> QED BY <1>1, <1>2, SizesAssumption

LEMMA CallRun ==
  ASSUME NEW m, IsMachine(m), NEW n \in Nat, NEW params, DOMAIN params = 1 .. n, Len(params) = n,
         \A i \in 1 .. n : params[i] \notin Registers, NEW v
  PROVE  LET code == SelectParams(params) \o <<[op |-> "bl", result |-> v]>>
             r == Run(m, code)
         IN  IsCode(code) /\ ChangesOnly(m, r, Registers) /\ Val(r, Reg(0)) = v
<1> DEFINE first == SelectParams(params)
           bl == <<[op |-> "bl", result |-> v]>>
           m1 == Run(m, first)
           m2 == Put(m1, Reg(0), v)
           r == Run(m, first \o bl)
<1>1. IsCode(first) /\ ChangesOnly(m, m1, Registers)
  BY ParamsRun
<1>2. IsCode(bl)
  BY CodeShapes
<1>3. IsCode(first \o bl) /\ r = Run(m1, bl)
  <2> HIDE DEF first, bl
  <2> QED BY <1>1, <1>2, RunJoined DEF m1
<1>4. Run(m1, bl) = [m2 EXCEPT !.flags = <<Undef, Undef>>]
  <2>1. Run(m1, bl) = Exec(m1, [op |-> "bl", result |-> v])
    BY RunOne
  <2> QED BY <2>1, ExecCall
<1>5. ChangesOnly(m1, m2, {Reg(0)}) /\ Val(m2, Reg(0)) = v
  <2>1. IsMachine(m1)
    BY <1>1 DEF ChangesOnly
  <2> HIDE DEF m1
  <2> QED BY <2>1, Operands, PutFacts
<1> HIDE DEF m1, m2
<1>6. ChangesOnly(m2, r, {})
  <2>1. IsMachine(m2)
    BY <1>5 DEF ChangesOnly
  <2> HIDE DEF r
  <2> QED BY <1>3, <1>4, <2>1, WithFlags
<1>7. Reg(0) \in Registers
  BY DEF Registers
<1> HIDE DEF r
<1>8. ChangesOnly(m, r, Registers) /\ Val(r, Reg(0)) = v
  BY <1>1, <1>5, <1>6, <1>7 DEF ChangesOnly
<1> QED BY <1>3, <1>8 DEF r

\* Words: Wrap takes a number to the one of its residue class.
LEMMA Residues ==
  ASSUME NEW D \in Nat \ {0}, NEW a \in Int, NEW k \in Int
  PROVE  /\ a % D \in 0 .. D - 1 /\ a \div D \in Int /\ a = D * (a \div D) + (a % D)
         /\ (a + k * D) % D = a % D
<1>1. \A b \in Int : b % D \in 0 .. D - 1 /\ b \div D \in Int /\ b = D * (b \div D) + (b % D)
  <2>1. \A b \in Int : b % D \in 0 .. D - 1 /\ b \div D \in Int
    OBVIOUS
  <2>2. \A b \in Int : b = D * (b \div D) + (b % D)
    OBVIOUS
  <2> QED BY <2>1, <2>2
<1> DEFINE b == a + k * D
           q == a \div D
           p == b \div D
           s == a % D
           t == b % D
<1>2. b \in Int /\ k * D \in Int
  OBVIOUS
<1>3. s \in 0 .. D - 1 /\ q \in Int /\ a = D * q + s
  BY <1>1
<1>4. t \in 0 .. D - 1 /\ p \in Int /\ b = D * p + t
  BY <1>1, <1>2
<1> HIDE DEF q, p, s, t
<1> DEFINE z == p - q - k
<1>5. z \in Int /\ D * z = s - t
  BY <1>3, <1>4
<1>6. z = 0
  <2>1. \A y \in Int : y >= 1 => D * y >= D
    OBVIOUS
  <2>2. \A y \in Int : y <= -1 => D * y <= -D
    OBVIOUS
  <2> HIDE DEF z
  <2>3. s - t < D /\ s - t > -D
    BY <1>3, <1>4
  <2>4. D * z \in Int /\ s - t \in Int
    BY <1>3, <1>4, <1>5
  <2>5. ~(z >= 1)
    BY <1>5, <2>1, <2>3, <2>4
  <2>6. ~(z <= -1)
    BY <1>5, <2>2, <2>3, <2>4
  <2> QED BY <1>5, <2>5, <2>6
<1>7. s = t
  <2>1. D * 0 = 0
    OBVIOUS
  <2> HIDE DEF z
  <2> QED BY <1>3, <1>4, <1>5, <1>6, <2>1
<1> QED BY <1>1, <1>7 DEF s, t, b

LEMMA Wrapped ==
  ASSUME NEW n \in Int
  PROVE  /\ Wrap(n) \in Int
         /\ \E k \in Int : Wrap(n) = n + k * (2 * Half)
         /\ \A k \in Int : Wrap(n + k * (2 * Half)) = Wrap(n)
<1> DEFINE D == 2 * Half
<1>1. Half \in Nat \ {0} /\ D \in Nat \ {0}
  BY SizesAssumption DEF Half
<1>2. Wrap(n) = ((n + Half) % D) - Half /\ \A k \in Int : Wrap(n + k * D) = ((n + k * D + Half) % D) - Half
  BY DEF Wrap
<1> DEFINE H == Half
           a == n + H
<1>3. a \in Int
  BY <1>1
<1> HIDE DEF D, H
<1>4. a % D \in Int /\ a \div D \in Int /\ a = D * (a \div D) + (a % D)
  <2>1. a % D \in 0 .. D - 1 /\ a \div D \in Int /\ a = D * (a \div D) + (a % D)
    <3>1. 0 \in Int
      OBVIOUS
    <3> QED BY <1>1, <1>3, <3>1, Residues
  <2> QED BY <1>1, <2>1
<1>5. Wrap(n) = (a % D) - H
  BY <1>2 DEF H
<1>6. \E k \in Int : Wrap(n) = n + k * D
  <2> DEFINE q == a \div D
             s == a % D
  <2>1. s \in Int /\ q \in Int /\ Wrap(n) = s - H
    BY <1>4, <1>5
  <2>a. n + H = D * q + s
    BY <1>4 DEF a
  <2>b. -q \in Int
    BY <2>1
  <2> HIDE DEF q, s
  <2>2. H \in Int /\ D \in Int
    BY <1>1 DEF H
  <2>3. Wrap(n) = n + (-q) * D
    BY <2>1, <2>a, <2>b, <2>2
  <2> QED BY <2>b, <2>3
<1>7. ASSUME NEW k \in Int PROVE Wrap(n + k * D) = Wrap(n)
  <2>1. n + k * D + H = a + k * D
    BY <1>1 DEF H
  <2>2. (a + k * D) % D = a % D
    BY <1>1, <1>3, Residues
  <2> QED BY <1>2, <1>5, <2>1, <2>2 DEF H
<1>8. Wrap(n) \in Int
  BY <1>1, <1>4, <1>5 DEF H
<1> QED BY <1>6, <1>7, <1>8 DEF D

LEMMA QuotientIsInt == ASSUME NEW a \in Int, NEW b \in Int PROVE Quotient(a, b) \in Int
<1>1. Magnitude(a) \in Nat /\ Magnitude(b) \in Nat
  BY DEF Magnitude
<1>2. b # 0 => Magnitude(b) # 0
  BY DEF Magnitude
<1>3. b # 0 => Magnitude(a) \div Magnitude(b) \in Int
  BY <1>1, <1>2
<1> QED BY <1>3 DEF Quotient

Operators == {"add", "sub", "mul", "div", "mod"}

\* The operators of the source are ints, and pass on what is undefined.
LEMMA Applied ==
  ASSUME NEW f \in Operators
  PROVE  /\ \A a \in Int, b \in Int : Apply(f, a, b) \in Int
         /\ \A a : Apply(f, a, Undef) = Undef /\ Apply(f, Undef, a) = Undef
<1>1. ASSUME NEW a \in Int, NEW b \in Int PROVE Apply(f, a, b) \in Int
  <2>1. Undef \notin {a, b}
    BY ValuesAssumption
  <2>2. Quotient(a, b) \in Int /\ a + b \in Int /\ a - b \in Int /\ a * b \in Int
    BY QuotientIsInt
  <2>3. a - b * Quotient(a, b) \in Int
    BY <2>2
  <2>4. \A n \in Int : Wrap(n) \in Int
    BY Wrapped
  <2>5. CASE f = "add" BY <2>1, <2>2, <2>4, <2>5 DEF Apply
  <2>6. CASE f = "sub" BY <2>1, <2>2, <2>4, <2>6 DEF Apply
  <2>7. CASE f = "mul" BY <2>1, <2>2, <2>4, <2>7 DEF Apply
  <2>8. CASE f = "div" BY <2>1, <2>2, <2>4, <2>8 DEF Apply
  <2>9. CASE f = "mod" BY <2>1, <2>3, <2>4, <2>9 DEF Apply
  <2> QED BY <2>5, <2>6, <2>7, <2>8, <2>9 DEF Operators
<1>2. \A a : Apply(f, a, Undef) = Undef /\ Apply(f, Undef, a) = Undef
  BY DEF Apply
<1> QED BY <1>1, <1>2

\* A remainder is what its three instructions compute, whatever overflows.
LEMMA Remainder ==
  ASSUME NEW a \in Int, NEW b \in Int
  PROVE  Apply("sub", a, Apply("mul", Apply("div", a, b), b)) = Apply("mod", a, b)
<1> DEFINE q == Quotient(a, b)
           D == 2 * Half
           w == Wrap(q)
           p == Wrap(w * b)
<1>1. \A n \in Int : Undef # n
  BY ValuesAssumption
<1>2. q \in Int /\ D \in Int
  BY QuotientIsInt, SizesAssumption DEF Half
<1>3. PICK j \in Int : w = q + j * D /\ w \in Int
  BY <1>2, Wrapped
<1>4. w * b \in Int
  BY <1>3
<1>5. PICK k \in Int : p = w * b + k * D /\ p \in Int
  <2> HIDE DEF w
  <2> QED BY <1>4, Wrapped
<1>6. Apply("div", a, b) = w
  BY <1>1 DEF Apply
<1>7. Apply("mul", w, b) = p
  <2> HIDE DEF w
  <2> QED BY <1>1, <1>3 DEF Apply
<1>8. Apply("sub", a, p) = Wrap(a - p)
  <2> HIDE DEF p
  <2> QED BY <1>1, <1>5 DEF Apply
<1>9. Apply("mod", a, b) = Wrap(a - b * q)
  BY <1>1 DEF Apply
<1> DEFINE n == a - b * q
           i == -(j * b + k)
<1>10. n \in Int /\ i \in Int
  BY <1>2
<1>11. a - p = n + i * D
  <2> HIDE DEF q, D, w, p
  <2>1. p = (q + j * D) * b + k * D
    BY <1>3, <1>5
  <2>2. (q + j * D) * b = b * q + (j * b) * D
    BY <1>2
  <2>3. j * b \in Int /\ b * q \in Int /\ (j * b) * D \in Int /\ k * D \in Int
    BY <1>2
  <2>4. -(j * b + k) * D = -((j * b) * D) - k * D
    BY <1>2, <2>3
  <2> QED BY <1>2, <2>1, <2>2, <2>3, <2>4
<1>12. Wrap(n + i * D) = Wrap(n)
  <2> HIDE DEF n, i
  <2> QED BY <1>10, Wrapped
<1> QED BY <1>6, <1>7, <1>8, <1>9, <1>11, <1>12

\* Every variable has an address of its own.
LEMMA AddressesDiffer ==
  ASSUME NEW x \in Vars, NEW y \in Vars, x # y
  PROVE  AddressOf(x) # AddressOf(y)
<1> DEFINE n == Cardinality(Locals)
           f == SetToSeq(Locals)
           Place(z) == CHOOSE i \in 1 .. n : f[i] = z
<1>1. n \in Nat /\ Cardinality(1 .. n) = n /\ ExistsBijection(1 .. n, Locals)
  <2>1. IsFiniteSet(Locals)
    BY SizesAssumption
  <2>2. n \in Nat /\ ExistsBijection(1 .. n, Locals)
    BY <2>1, FS_CardinalityType
  <2>3. Cardinality(1 .. n) = n
    <3> HIDE DEF n
    <3>1. 1 \in Int /\ n \in Int /\ Cardinality(1 .. n) = IF 1 > n THEN 0 ELSE n - 1 + 1
      BY <2>2, FS_Interval
    <3> QED BY <2>2, <3>1
  <2> QED BY <2>2, <2>3
<1>2. f \in [1 .. n -> Locals] /\ IsInjective(f)
  <2>1. \E g \in [1 .. n -> Locals] : IsInjective(g)
    BY <1>1 DEF ExistsBijection, Bijection, Injection
  <2> QED BY <2>1 DEF SetToSeq
<1>3. f \in Surjection(1 .. n, Locals)
  <2>1. f \in Injection(1 .. n, Locals)
    BY <1>2 DEF Injection
  <2> HIDE DEF f
  <2> QED BY <1>1, <2>1, SizesAssumption, FS_Injection
<1>4. \A z \in Locals : Place(z) \in 1 .. n /\ f[Place(z)] = z
  <2> HIDE DEF f
  <2>1. \A z \in Locals : \E i \in 1 .. n : f[i] = z
    BY <1>3 DEF Surjection
  <2> QED BY <2>1
<1>5. \A z : Slot(z) = <<"fp", -4 * Place(z)>>
  BY DEF Slot
<1> HIDE DEF Place, f
<1>6. CASE x \in Locals /\ y \in Locals /\ x \notin Globals /\ y \notin Globals
  <2>1. Place(x) # Place(y) /\ Place(x) \in Int /\ Place(y) \in Int
    BY <1>1, <1>4, <1>6
  <2>2. -4 * Place(x) # -4 * Place(y)
    BY <2>1
  <2> QED BY <1>5, <1>6, <2>2 DEF AddressOf
<1>7. CASE x \in Globals \/ y \in Globals
  BY <1>5, <1>7 DEF AddressOf, Label
<1> QED BY <1>6, <1>7 DEF Vars

(***************************************************************************)
(* The invariant.                                                          *)
(***************************************************************************)
OrUndef == Int \cup {Undef}
Trees ==
  {e \in [sym : {"constant", "id", "temporary", "rel"}, type : {"int", "bool"},
          op : ({"imm"} \X Int) \cup ({"v"} \X (1 .. MaxNodes)), ast : Int] :
     /\ e.sym = "constant" => e.op = Imm(e.ast)
     /\ IsImm(e.op) => e.op = Imm(e.ast)
     /\ e.sym \in {"constant", "id"} => e.type = "int"
     /\ e.sym = "rel" => e.type = "bool"
     /\ e.type = "bool" => e.ast \in {0, 1}}
Addresses == {AddressOf(x) : x \in Vars}

SelTypeOK ==
  /\ operands \in Seq(Trees)
  /\ nodes \in 0 .. MaxNodes
  /\ \A i \in DOMAIN operands : operands[i].op[1] = "v" => operands[i].op[2] <= nodes
  /\ IsMachine(machine) /\ machine.mem \in [Addresses -> OrUndef]
  /\ DOMAIN machine.regs \subseteq InUse(operands)
  /\ store \in [Vars -> Int]

\* The flags are the ones that decide a bool that was just computed.
Deciding(flags, c, tree, conv) ==
  /\ flags \in OrUndef \X OrUndef /\ c \in CmpOps
  /\ Holds(c, flags) \in {tree.ast # 0, Undef}
  /\ ~conv => Holds(c, flags) # Undef
  /\ tree.sym = "temporary" => c = "NE"

FlagsRight ==
  operands # <<>> /\ Top.type = "bool" => Deciding(machine.flags, cmpOpcode, Top, converted)

SelInv == SelTypeOK /\ FlagsRight /\ ValuesRight /\ EffectsRight /\ UndefinedOnlyAfterConversion

LEMMA TreeFacts ==
  ASSUME NEW e \in Trees
  PROVE  /\ e.ast \in Int /\ e.type \in {"int", "bool"} /\ e.sym \in {"constant", "id", "temporary", "rel"}
         /\ e.op = Imm(e.ast) \/ \E t \in 1 .. MaxNodes : e.op = VReg(t)
         /\ e.sym = "constant" => e.op = Imm(e.ast)
         /\ e.sym \in {"constant", "id"} => e.type = "int"
         /\ e.sym = "rel" => e.type = "bool"
         /\ e.type = "bool" => e.ast \in {0, 1}
         /\ \A i : e.op # Internal(i) /\ e.op # Reg(i)
<1>1. /\ e.ast \in Int /\ e.type \in {"int", "bool"} /\ e.sym \in {"constant", "id", "temporary", "rel"}
      /\ e.op \in ({"imm"} \X Int) \cup ({"v"} \X (1 .. MaxNodes))
      /\ e.sym = "constant" => e.op = Imm(e.ast)
      /\ IsImm(e.op) => e.op = Imm(e.ast)
      /\ e.sym \in {"constant", "id"} => e.type = "int"
      /\ e.sym = "rel" => e.type = "bool"
      /\ e.type = "bool" => e.ast \in {0, 1}
  BY DEF Trees
<1>2. e.op \in {"imm"} \X Int => IsImm(e.op)
  BY DEF IsImm
<1>3. e.op \in {"v"} \X (1 .. MaxNodes) => \E t \in 1 .. MaxNodes : e.op = VReg(t)
  BY DEF VReg
<1>4. \A i : e.op # Internal(i) /\ e.op # Reg(i)
  BY <1>1 DEF Internal, Reg
<1> QED BY <1>1, <1>2, <1>3, <1>4

LEMMA TreeMade ==
  ASSUME NEW sym \in {"temporary", "rel", "id"}, NEW type \in {"int", "bool"}, NEW t \in 1 .. MaxNodes, NEW v \in Int,
         sym = "id" => type = "int", sym = "rel" => type = "bool", type = "bool" => v \in {0, 1}
  PROVE  LET e == Subtree(sym, type, VReg(t), v)
         IN  e \in Trees /\ e.sym = sym /\ e.type = type /\ e.op = VReg(t) /\ e.ast = v
<1> DEFINE e == Subtree(sym, type, VReg(t), v)
<1>1. e.sym = sym /\ e.type = type /\ e.op = VReg(t) /\ e.ast = v
  BY DEF Subtree
<1>2. VReg(t) \in {"v"} \X (1 .. MaxNodes)
  BY DEF VReg
<1>3. ~IsImm(e.op)
  BY <1>1, Operands
<1>4. e \in [sym : {"constant", "id", "temporary", "rel"}, type : {"int", "bool"},
             op : ({"imm"} \X Int) \cup ({"v"} \X (1 .. MaxNodes)), ast : Int]
  BY <1>2 DEF Subtree
<1> HIDE DEF e
<1> QED BY <1>1, <1>3, <1>4 DEF Trees, e

LEMMA ConstantMade ==
  ASSUME NEW v \in Int
  PROVE  LET e == Subtree("constant", "int", Imm(v), v)
         IN  e \in Trees /\ e.sym = "constant" /\ e.type = "int" /\ e.op = Imm(v) /\ e.ast = v
<1> DEFINE e == Subtree("constant", "int", Imm(v), v)
<1>1. e.sym = "constant" /\ e.type = "int" /\ e.op = Imm(v) /\ e.ast = v
  BY DEF Subtree
<1>2. Imm(v) \in {"imm"} \X Int
  BY DEF Imm
<1>3. e \in [sym : {"constant", "id", "temporary", "rel"}, type : {"int", "bool"},
             op : ({"imm"} \X Int) \cup ({"v"} \X (1 .. MaxNodes)), ast : Int]
  BY <1>2 DEF Subtree
<1> HIDE DEF e
<1> QED BY <1>1, <1>3 DEF Trees, e

\* The registers that count.
LEMMA RegistersKept ==
  ASSUME NEW trees, NEW i \in DOMAIN trees, trees[i] \in Trees
  PROVE  IsImm(trees[i].op) \/ trees[i].op \in InUse(trees)
<1>1. CASE IsImm(trees[i].op)
  BY <1>1
<1>2. CASE ~IsImm(trees[i].op)
  <2>1. PICK t \in 1 .. MaxNodes : trees[i].op = VReg(t)
    BY <1>2, TreeFacts, Operands
  <2>2. t \in 1 .. MaxNodes * 3
    BY SizesAssumption
  <2> QED BY <2>1, <2>2 DEF InUse
<1> QED BY <1>1, <1>2

LEMMA Forgotten ==
  ASSUME NEW m, IsMachine(m), NEW trees
  PROVE  LET r == Forget(m, trees)
         IN  /\ IsMachine(r) /\ r.flags = m.flags /\ r.mem = m.mem
             /\ DOMAIN r.regs \subseteq InUse(trees)
             /\ \A o : IsImm(o) \/ o \in InUse(trees) => Val(r, o) = Val(m, o)
<1> DEFINE r == Forget(m, trees)
           D == DOMAIN m.regs \cap InUse(trees)
           regs == [o \in D |-> m.regs[o]]
<1>1. r = [regs |-> regs, flags |-> m.flags, mem |-> m.mem]
  BY DEF IsMachine, Forget, Restrict
<1>2. DOMAIN regs = D /\ \A o \in D : regs[o] = m.regs[o]
  OBVIOUS
<1> HIDE DEF regs, r
<1>3. r.regs = regs /\ r.flags = m.flags /\ r.mem = m.mem /\ IsMachine(r)
  BY <1>1 DEF IsMachine
<1>4. \A o : IsImm(o) \/ o \in InUse(trees) => Val(r, o) = Val(m, o)
  BY <1>2, <1>3 DEF Val
<1> QED BY <1>2, <1>3, <1>4 DEF r

\* A new temporary is not in use: its number is above all that are.
LEMMA TempsAreNew ==
  ASSUME SelTypeOK
  PROVE  \E top \in 0 .. nodes :
           /\ \A i \in Nat : Temp(i) = VReg(i + top)
           /\ \A i \in DOMAIN operands, t \in 1 .. MaxNodes : operands[i].op = VReg(t) => t <= top
<1> DEFINE U == {o[2] : o \in InUse(operands)} \cup {0}
           top == Max(U)
<1>1. nodes \in Nat /\ nodes \in 0 .. MaxNodes /\ MaxNodes \in Nat
  BY SizesAssumption DEF SelTypeOK
<1>2. U \subseteq 0 .. nodes
  <2>1. SUFFICES ASSUME NEW o \in InUse(operands) PROVE o[2] \in 0 .. nodes
    BY <1>1
  <2>2. PICK i \in DOMAIN operands : o = operands[i].op
    BY DEF InUse
  <2>3. PICK t \in 1 .. MaxNodes * 3 : o = VReg(t)
    BY DEF InUse
  <2>4. o[1] = "v" /\ o[2] = t
    BY <2>3 DEF VReg
  <2>5. t <= nodes
    BY <2>2, <2>4 DEF SelTypeOK
  <2> QED BY <1>1, <2>4, <2>5
<1>3. top \in U /\ \A y \in U : y <= top
  <2>1. 0 \in U
    OBVIOUS
  <2>2. \E x \in U : \A y \in U : x >= y
    <3> HIDE DEF U
    <3>1. U \subseteq -1 .. nodes
      BY <1>2
    <3> QED BY <1>1, <2>1, <3>1, GreatestExists
  <2> HIDE DEF U
  <2>3. \A x, y \in U : x >= y <=> y <= x
    BY <1>2
  <2> QED BY <2>2, <2>3 DEF Max
<1>4. ASSUME NEW i \in DOMAIN operands, NEW t \in 1 .. MaxNodes, operands[i].op = VReg(t)
      PROVE  t <= top
  <2>1. VReg(t) \in InUse(operands) /\ VReg(t)[2] = t
    <3>1. t \in 1 .. MaxNodes * 3
      BY <1>1
    <3> QED BY <1>4, <3>1, Operands DEF InUse
  <2>2. t \in U
    BY <2>1
  <2> HIDE DEF U, top
  <2> QED BY <1>3, <2>2
<1>5. \A i \in Nat : Temp(i) = VReg(i + top)
  BY DEF Temp
<1> HIDE DEF top
<1> QED BY <1>2, <1>3, <1>4, <1>5

LEMMA ImmediatesDiffer ==
  \A v, i : Imm(v) # Internal(i) /\ Imm(v) # Reg(i) /\ Imm(v) # VReg(i)
BY DEF Imm, Internal, Reg, VReg

LEMMA Fresh ==
  ASSUME SelTypeOK
  PROVE  /\ Temp(1) # Temp(2) /\ Temp(2) # Temp(3) /\ Temp(1) # Temp(3)
         /\ \E t \in 1 .. nodes + 1 : Temp(1) = VReg(t)
         /\ \A i \in {1, 2, 3} :
              /\ ~IsImm(Temp(i)) /\ Val(machine, Temp(i)) = Undef
              /\ \A k : Temp(i) # Internal(k) /\ Temp(i) # Reg(k)
              /\ \A k \in DOMAIN operands : operands[k].op # Temp(i)
<1>1. PICK top \in 0 .. nodes :
        /\ \A i \in Nat : Temp(i) = VReg(i + top)
        /\ \A i \in DOMAIN operands, t \in 1 .. MaxNodes : operands[i].op = VReg(t) => t <= top
  BY TempsAreNew
<1>2. nodes \in Nat /\ MaxNodes \in Nat /\ top \in Nat /\ nodes <= MaxNodes /\ top <= nodes
  BY <1>1, SizesAssumption DEF SelTypeOK
<1>3. Temp(1) = VReg(1 + top) /\ Temp(2) = VReg(2 + top) /\ Temp(3) = VReg(3 + top)
  BY <1>1
<1>4. 1 + top # 2 + top /\ 2 + top # 3 + top /\ 1 + top # 3 + top /\ 1 + top \in 1 .. nodes + 1
  BY <1>2
<1>5. Temp(1) # Temp(2) /\ Temp(2) # Temp(3) /\ Temp(1) # Temp(3)
  BY <1>3, <1>4, Operands
<1>6. \E t \in 1 .. nodes + 1 : Temp(1) = VReg(t)
  BY <1>3, <1>4
<1>7. ASSUME NEW i \in {1, 2, 3}
      PROVE  /\ ~IsImm(Temp(i)) /\ Val(machine, Temp(i)) = Undef
             /\ \A k : Temp(i) # Internal(k) /\ Temp(i) # Reg(k)
             /\ \A k \in DOMAIN operands : operands[k].op # Temp(i)
  <2>1. Temp(i) = VReg(i + top) /\ i + top > top /\ i + top \in Nat
    BY <1>1, <1>2
  <2>2. ~IsImm(Temp(i)) /\ \A k : Temp(i) # Internal(k) /\ Temp(i) # Reg(k)
    BY <2>1, Operands
  <2>3. ASSUME NEW k \in DOMAIN operands PROVE operands[k].op # Temp(i)
    <3>1. SUFFICES ASSUME operands[k].op = Temp(i) PROVE FALSE
      OBVIOUS
    <3>2. operands[k] \in Trees
      BY DEF SelTypeOK
    <3>3. PICK t \in 1 .. MaxNodes : operands[k].op = VReg(t)
      BY <2>2, <3>1, <3>2, TreeFacts, Operands
    <3>4. t = i + top
      BY <2>1, <3>1, <3>3, Operands
    <3> QED BY <1>1, <2>1, <3>3, <3>4
  <2>4. Temp(i) \notin DOMAIN machine.regs
    <3>1. Temp(i) \notin InUse(operands)
      BY <2>3 DEF InUse
    <3> QED BY <3>1 DEF SelTypeOK
  <2>5. Val(machine, Temp(i)) = Undef
    BY <2>2, <2>4 DEF Val
  <2> QED BY <2>2, <2>3, <2>5
<1> QED BY <1>5, <1>6, <1>7

DefinedNow ==
  ~converted =>
    /\ \A i \in DOMAIN operands : Val(machine, operands[i].op) # Undef
    /\ \A x \in Vars : machine.mem[AddressOf(x)] # Undef

\* What a new subtree must bring along.
LEMMA Growing ==
  ASSUME SelTypeOK, ValuesRight, DefinedNow, nodes < MaxNodes, NEW n \in Nat, n <= Len(operands),
         NEW tree \in Trees, NEW code, Grow(n, tree, code), NEW W,
         ChangesOnly(machine, Run(machine, code), W),
         \A i \in DOMAIN operands : i <= Len(operands) - n => operands[i].op \notin W,
         tree.op[1] = "v" => tree.op[2] <= nodes + 1,
         Val(Run(machine, code), tree.op) \in {tree.ast, Undef},
         ~converted' => ~converted /\ Val(Run(machine, code), tree.op) # Undef
  PROVE  /\ SelTypeOK' /\ ValuesRight' /\ DefinedNow'
         /\ machine'.flags = Run(machine, code).flags /\ operands' # <<>> /\ Top' = tree
<1> DEFINE r == Run(machine, code)
           k == Len(operands) - n
<1>1. /\ operands \in Seq(Trees) /\ Len(operands) \in Nat /\ DOMAIN operands = 1 .. Len(operands)
      /\ nodes \in Nat /\ MaxNodes \in Nat /\ nodes + 1 \in 0 .. MaxNodes
  BY SizesAssumption DEF SelTypeOK
<1>2. k \in Nat /\ k <= Len(operands) /\ \A i \in 1 .. k : i \in DOMAIN operands /\ i <= k
  BY <1>1
<1>3. /\ Below(n) \in Seq(Trees) /\ Len(Below(n)) = k
      /\ \A i \in 1 .. k : Below(n)[i] = operands[i]
  <2>1. Below(n) = SubSeq(operands, 1, k)
    BY DEF Below
  <2> HIDE DEF k
  <2> DEFINE s == SubSeq(operands, 1, k)
  <2>2. s \in Seq(Trees) /\ Len(s) = k /\ \A i \in 1 .. k : s[i] = operands[i]
    BY <1>1, <1>2
  <2> QED BY <2>1, <2>2
<1> DEFINE below == Below(n)
<1>4. /\ operands' = Append(below, tree) /\ machine' = Forget(r, operands')
      /\ nodes' = nodes + 1 /\ store' = store
  BY DEF Grow
<1> HIDE DEF r, k, below
<1>5. below \in Seq(Trees) /\ Len(below) = k /\ \A i \in 1 .. k : below[i] = operands[i]
  BY <1>3 DEF below
<1>6. operands' \in Seq(Trees) /\ Len(operands') = k + 1 /\ DOMAIN operands' = 1 .. k + 1
  BY <1>2, <1>4, <1>5
<1>7. operands'[k + 1] = tree /\ \A i \in 1 .. k : operands'[i] = operands[i]
  BY <1>2, <1>4, <1>5
<1>8. operands' # <<>> /\ Top' = tree
  BY <1>2, <1>6, <1>7 DEF Top, Last
<1>9. /\ IsMachine(r) /\ r.mem = machine.mem
      /\ \A i \in 1 .. k : Val(r, operands[i].op) = Val(machine, operands[i].op)
  <2>1. \A i \in 1 .. k : operands[i].op \notin W
    BY <1>1, <1>2 DEF k
  <2> QED BY <2>1 DEF ChangesOnly, r
<1>10. /\ IsMachine(machine') /\ machine'.flags = r.flags /\ machine'.mem = machine.mem
       /\ DOMAIN machine'.regs \subseteq InUse(operands')
       /\ \A o : IsImm(o) \/ o \in InUse(operands') => Val(machine', o) = Val(r, o)
  BY <1>4, <1>9, Forgotten
<1>11. \A i \in 1 .. k + 1 : Val(machine', operands'[i].op) = Val(r, operands'[i].op)
  <2>1. \A i \in 1 .. k + 1 : i \in DOMAIN operands' /\ operands'[i] \in Trees
    BY <1>2, <1>6
  <2> QED BY <1>10, <2>1, RegistersKept
<1>12. \A i \in 1 .. k + 1 : i = k + 1 \/ i \in 1 .. k
  BY <1>2
<1>13. SelTypeOK'
  <2>1. ASSUME NEW i \in 1 .. k + 1, operands'[i].op[1] = "v" PROVE operands'[i].op[2] <= nodes + 1
    <3>1. CASE i = k + 1
      BY <1>7, <2>1, <3>1
    <3>2. CASE i \in 1 .. k
      <4>1. i \in DOMAIN operands /\ operands'[i] = operands[i]
        BY <1>2, <1>7, <3>2
      <4>2. operands[i].op[2] <= nodes
        BY <2>1, <4>1 DEF SelTypeOK
      <4>3. operands[i].op \in {"v"} \X (1 .. MaxNodes)
        <5>1. operands[i] \in Trees
          BY <1>1, <4>1
        <5>2. operands[i].op \in ({"imm"} \X Int) \cup ({"v"} \X (1 .. MaxNodes))
          BY <5>1 DEF Trees
        <5> QED BY <2>1, <4>1, <5>2
      <4>4. operands[i].op[2] \in Nat
        BY <1>1, <4>3
      <4> QED BY <1>1, <4>1, <4>2, <4>4
    <3> QED BY <1>12, <3>1, <3>2
  <2>2. machine'.mem \in [Addresses -> OrUndef] /\ store' \in [Vars -> Int]
    BY <1>4, <1>10 DEF SelTypeOK
  <2> QED BY <1>1, <1>4, <1>6, <1>10, <2>1, <2>2 DEF SelTypeOK
<1>14. ASSUME NEW i \in 1 .. k + 1
       PROVE  /\ Val(machine', operands'[i].op) \in {operands'[i].ast, Undef}
              /\ ~converted' => Val(machine', operands'[i].op) # Undef
  <2>1. CASE i = k + 1
    BY <1>7, <1>11, <2>1 DEF r
  <2>2. CASE i \in 1 .. k
    <3>1. i \in DOMAIN operands /\ operands'[i] = operands[i]
      BY <1>2, <1>7, <2>2
    <3>2. Val(machine', operands'[i].op) = Val(machine, operands[i].op)
      BY <1>9, <1>11, <2>2, <3>1
    <3> QED BY <3>1, <3>2 DEF ValuesRight, DefinedNow
  <2> QED BY <1>12, <2>1, <2>2
<1>15. ValuesRight'
  BY <1>4, <1>6, <1>10, <1>14 DEF ValuesRight
<1>16. DefinedNow'
  BY <1>6, <1>10, <1>14 DEF DefinedNow
<1> QED BY <1>8, <1>10, <1>13, <1>15, <1>16 DEF r

\* The end of a statement leaves the variables.
LEMMA Ending ==
  ASSUME SelTypeOK, NEW code, EndStmt(code), store' \in [Vars -> Int],
         IsMachine(Run(machine, code)), Run(machine, code).mem \in [Addresses -> OrUndef],
         \A x \in Vars : /\ Run(machine, code).mem[AddressOf(x)] \in {store'[x], Undef}
                         /\ ~converted' => Run(machine, code).mem[AddressOf(x)] # Undef
  PROVE  /\ SelTypeOK' /\ ValuesRight' /\ DefinedNow' /\ FlagsRight'
         /\ machine'.flags = Run(machine, code).flags
<1> DEFINE r == Run(machine, code)
<1>1. machine' = Forget(r, <<>>) /\ operands' = <<>> /\ nodes' = 0
  BY DEF EndStmt
<1>2. /\ IsMachine(machine') /\ machine'.flags = r.flags /\ machine'.mem = r.mem
      /\ DOMAIN machine'.regs \subseteq InUse(operands')
  <2> HIDE DEF r
  <2>1. IsMachine(r)
    BY DEF r
  <2> QED BY <1>1, <2>1, Forgotten
<1> HIDE DEF r
<1>3. operands' \in Seq(Trees) /\ DOMAIN operands' = {}
  BY <1>1
<1>4. SelTypeOK'
  BY <1>1, <1>2, <1>3, SizesAssumption DEF SelTypeOK, r
<1>5. ValuesRight' /\ DefinedNow'
  BY <1>2, <1>3 DEF ValuesRight, DefinedNow, r
<1>6. FlagsRight'
  BY <1>1 DEF FlagsRight
<1> QED BY <1>2, <1>4, <1>5, <1>6 DEF r

LEMMA Quiet == observed = {} /\ DefinedNow => EffectsRight /\ UndefinedOnlyAfterConversion
BY DEF EffectsRight, UndefinedOnlyAfterConversion, DefinedNow

LEMMA OperandValues ==
  ASSUME SelTypeOK, ValuesRight, DefinedNow, NEW i \in DOMAIN operands
  PROVE  /\ operands[i] \in Trees
         /\ Val(machine, operands[i].op) \in {operands[i].ast, Undef}
         /\ Val(machine, operands[i].op) \in OrUndef
         /\ ~converted => Val(machine, operands[i].op) # Undef
<1>1. operands[i] \in Trees
  BY DEF SelTypeOK
<1>2. operands[i].ast \in Int
  BY <1>1, TreeFacts
<1> QED BY <1>1, <1>2 DEF ValuesRight, DefinedNow, OrUndef

\* The same for what an int is made of.
LEMMA AsIntValues ==
  ASSUME SelTypeOK, ValuesRight, DefinedNow, NEW i \in DOMAIN operands, NEW j \in {2, 3}
  PROVE  LET o == AsInt(operands[i], Temp(j))
         IN  /\ Val(machine, o) \in {operands[i].ast, Undef}
             /\ ~converted /\ operands[i].type = "int" => Val(machine, o) # Undef
             /\ o # Temp(1) /\ \A k : o # Internal(k) /\ o # Reg(k)
<1>1. /\ Val(machine, operands[i].op) \in {operands[i].ast, Undef}
      /\ ~converted => Val(machine, operands[i].op) # Undef
  BY OperandValues
<1>2. operands[i].op # Temp(1) /\ Temp(j) # Temp(1) /\ Val(machine, Temp(j)) = Undef
      /\ \A k : Temp(j) # Internal(k) /\ Temp(j) # Reg(k)
  BY Fresh
<1>3. \A k : operands[i].op # Internal(k) /\ operands[i].op # Reg(k)
  BY OperandValues, TreeFacts
<1> QED BY <1>1, <1>2, <1>3 DEF AsInt

Basis == SelTypeOK /\ FlagsRight /\ ValuesRight /\ DefinedNow

\* One step that grows a tree and shows nothing: an int leaves the flags free.
LEMMA TreeGrown ==
  ASSUME SelTypeOK', ValuesRight', DefinedNow', observed' = {},
         Top'.type = "int" \/ Deciding(machine'.flags, cmpOpcode', Top', converted')
  PROVE  SelInv'
<1>1. FlagsRight'
  BY DEF FlagsRight
<1>2. EffectsRight' /\ UndefinedOnlyAfterConversion'
  BY DEF EffectsRight, UndefinedOnlyAfterConversion, DefinedNow
<1> QED BY <1>1, <1>2 DEF SelInv

LEMMA BasisHolds == SelInv => Basis
BY DEF SelInv, Basis, UndefinedOnlyAfterConversion, DefinedNow

LEMMA NewTree ==
  ASSUME SelTypeOK, nodes < MaxNodes, NEW sym \in {"temporary", "rel", "id"}, NEW type \in {"int", "bool"},
         NEW v \in Int, sym = "id" => type = "int", sym = "rel" => type = "bool", type = "bool" => v \in {0, 1}
  PROVE  LET e == Subtree(sym, type, Temp(1), v)
         IN  /\ e \in Trees /\ e.sym = sym /\ e.type = type /\ e.op = Temp(1) /\ e.ast = v
             /\ e.op[1] = "v" => e.op[2] <= nodes + 1
<1>1. PICK t \in 1 .. nodes + 1 : Temp(1) = VReg(t)
  BY Fresh
<1>2. nodes \in Nat /\ MaxNodes \in Nat /\ t \in 1 .. MaxNodes
  BY SizesAssumption DEF SelTypeOK
<1>3. VReg(t)[2] = t /\ t <= nodes + 1
  BY <1>2, Operands
<1> QED BY <1>1, <1>2, <1>3, TreeMade

LEMMA OneConstant ==
  ASSUME Basis, NEW v \in Consts, Constant(v)
  PROVE  SelInv'
<1> DEFINE tree == Subtree("constant", "int", Imm(v), v)
           r == Run(machine, <<>>)
<1>1. /\ SelTypeOK /\ ValuesRight /\ DefinedNow /\ nodes < MaxNodes /\ Grow(0, tree, <<>>)
      /\ observed' = {} /\ converted' = converted /\ v \in Int
  BY ValuesAssumption DEF Basis, Constant, MayGrow
<1>2. tree \in Trees /\ tree.type = "int" /\ tree.op = Imm(v) /\ tree.ast = v
  BY <1>1, ConstantMade
<1>3. r = machine /\ ChangesOnly(machine, r, {})
  <2>1. r = machine
    BY EmptyRun
  <2> QED BY <1>1, <2>1 DEF ChangesOnly, SelTypeOK
<1>4. Val(r, tree.op) = v /\ v # Undef /\ tree.op[1] # "v"
  BY <1>1, <1>2, Operands, ValuesAssumption DEF Val, Imm
<1>5. 0 \in Nat /\ 0 <= Len(operands)
  BY <1>1 DEF SelTypeOK
<1> HIDE DEF tree
<1>6. SelTypeOK' /\ ValuesRight' /\ DefinedNow' /\ Top' = tree
  BY <1>1, <1>2, <1>3, <1>4, <1>5, Growing
<1> QED BY <1>1, <1>2, <1>6, TreeGrown

LEMMA OneId ==
  ASSUME Basis, NEW x \in Vars, Id(x)
  PROVE  SelInv'
<1> DEFINE tree == Subtree("id", "int", Temp(1), store[x])
           code == SelectLoad(Temp(1), x)
           r == Run(machine, code)
           W == {Temp(1), Internal(1)}
<1>1. /\ SelTypeOK /\ ValuesRight /\ DefinedNow /\ nodes < MaxNodes /\ Grow(0, tree, code)
      /\ observed' = {} /\ converted' = converted
  BY DEF Basis, Id, MayGrow
<1>2. IsMachine(machine) /\ store[x] \in Int /\ 0 \in Nat /\ 0 <= Len(operands)
  BY <1>1 DEF SelTypeOK
<1>3. tree \in Trees /\ tree.type = "int" /\ tree.op = Temp(1) /\ tree.ast = store[x]
      /\ (tree.op[1] = "v" => tree.op[2] <= nodes + 1)
  BY <1>1, <1>2, NewTree
<1>4. ChangesOnly(machine, r, W) /\ Val(r, Temp(1)) = machine.mem[AddressOf(x)]
  <2>1. ~IsImm(Temp(1)) /\ Temp(1) # Internal(1)
    BY <1>1, Fresh
  <2> QED BY <1>2, <2>1, LoadRun
<1>5. \A i \in DOMAIN operands : operands[i].op \notin W
  <2>1. \A i \in DOMAIN operands : operands[i].op # Temp(1) /\ operands[i].op # Internal(1)
    BY <1>1, Fresh, OperandValues, TreeFacts
  <2> QED BY <2>1
<1>6. Val(r, tree.op) \in {tree.ast, Undef} /\ (~converted => Val(r, tree.op) # Undef)
  BY <1>1, <1>3, <1>4 DEF ValuesRight, DefinedNow
<1> HIDE DEF tree, code, r, W
<1>7. SelTypeOK' /\ ValuesRight' /\ DefinedNow' /\ Top' = tree
  BY <1>1, <1>2, <1>3, <1>4, <1>5, <1>6, Growing DEF r
<1> QED BY <1>1, <1>3, <1>7, TreeGrown

\* Behind no code at all.
LEMMA BehindNothing ==
  ASSUME NEW m, NEW code, IsCode(code)
  PROVE  IsCode(<<>> \o code) /\ Run(m, <<>> \o code) = Run(m, code)
BY EmptyRun, RunJoined, CodeShapes

LEMMA LastTwo ==
  ASSUME SelTypeOK, Len(operands) >= 2
  PROVE  /\ Len(operands) \in DOMAIN operands /\ Len(operands) - 1 \in DOMAIN operands
         /\ Top = operands[Len(operands)] /\ Second = operands[Len(operands) - 1]
         /\ 2 \in Nat /\ 2 <= Len(operands)
BY DEF SelTypeOK, Top, Second, Last

LEMMA LastOne ==
  ASSUME SelTypeOK, operands # <<>>
  PROVE  /\ Len(operands) \in DOMAIN operands /\ Top = operands[Len(operands)]
         /\ 1 \in Nat /\ 1 <= Len(operands)
BY DEF SelTypeOK, Top, Last

\* What one instruction computes, or the three of a remainder.
LEMMA Computed ==
  ASSUME NEW f \in Operators, NEW a \in Int, NEW b \in Int, NEW x \in {a, Undef}, NEW y \in {b, Undef}
  PROVE  LET v == IF f = "mod" THEN Apply("sub", x, Apply("mul", Apply("div", x, y), y)) ELSE Apply(f, x, y)
         IN  /\ Apply(f, a, b) \in Int
             /\ v \in {Apply(f, a, b), Undef}
             /\ x # Undef /\ y # Undef => v # Undef
<1>1. Apply(f, a, b) \in Int /\ Apply(f, a, b) # Undef
  <2>1. Apply(f, a, b) \in Int
    BY Applied
  <2> QED BY <2>1, ValuesAssumption
<1>2. CASE x = Undef \/ y = Undef
  <2>1. {"sub", "mul", "div"} \subseteq Operators
    BY DEF Operators
  <2>2. Apply("div", x, y) = Undef
    BY <1>2, <2>1, Applied
  <2>3. Apply("mul", Undef, y) = Undef /\ Apply("sub", x, Undef) = Undef
    BY <2>1, Applied
  <2>4. Apply(f, x, y) = Undef
    BY <1>2, Applied
  <2> QED BY <1>1, <1>2, <2>2, <2>3, <2>4
<1>3. CASE x = a /\ y = b
  <2>1. Apply("sub", a, Apply("mul", Apply("div", a, b), b)) = Apply("mod", a, b)
    BY Remainder
  <2> QED BY <1>1, <1>3, <2>1
<1> QED BY <1>2, <1>3

LEMMA OneBinary ==
  ASSUME Basis, NEW f \in Operators, BinaryExpr(f)
  PROVE  SelInv'
<1> DEFINE n == Len(operands)
           v == Apply(f, Second.ast, Top.ast)
           tree == Subtree("temporary", "int", Temp(1), v)
           s1 == AsInt(Second, Temp(2))
           s2 == AsInt(Top, Temp(3))
           code == SelectBinary(f, Temp(1), s1, s2)
           r == Run(machine, code)
           W == {Temp(1), Internal(1), Internal(2)}
<1>1. /\ SelTypeOK /\ ValuesRight /\ DefinedNow /\ nodes < MaxNodes /\ n >= 2
      /\ Grow(2, tree, <<>> \o code)
      /\ observed' = {} /\ converted' = (converted \/ "bool" \in {Top.type, Second.type})
  BY DEF Basis, BinaryExpr, MayGrow, Top2AreArithmetic, SelectTypeConver
<1>2. /\ n \in DOMAIN operands /\ n - 1 \in DOMAIN operands /\ 2 \in Nat /\ 2 <= n
      /\ Top = operands[n] /\ Second = operands[n - 1] /\ IsMachine(machine)
  BY <1>1, LastTwo DEF SelTypeOK
<1>3. Top \in Trees /\ Second \in Trees
  BY <1>1, <1>2, OperandValues
<1>4. /\ Top.ast \in Int /\ Second.ast \in Int /\ Top.type \in {"int", "bool"} /\ Second.type \in {"int", "bool"}
  BY <1>3, TreeFacts
<1>5. /\ Val(machine, s1) \in {Second.ast, Undef} /\ (~converted /\ Second.type = "int" => Val(machine, s1) # Undef)
      /\ s1 # Temp(1) /\ s1 # Internal(1) /\ s1 # Internal(2)
  BY <1>1, <1>2, AsIntValues
<1>6. /\ Val(machine, s2) \in {Top.ast, Undef} /\ (~converted /\ Top.type = "int" => Val(machine, s2) # Undef)
      /\ s2 # Temp(1) /\ s2 # Internal(1) /\ s2 # Internal(2)
  BY <1>1, <1>2, AsIntValues
<1> HIDE DEF n, s1, s2
<1>7. /\ IsCode(code) /\ ChangesOnly(machine, r, W)
      /\ Val(r, Temp(1)) = IF f = "mod"
                           THEN Apply("sub", Val(machine, s1), Apply("mul", Apply("div", Val(machine, s1), Val(machine, s2)), Val(machine, s2)))
                           ELSE Apply(f, Val(machine, s1), Val(machine, s2))
  <2>1. Apart(Temp(1), s1, s2)
    <3>1. ~IsImm(Temp(1)) /\ Temp(1) # Internal(1) /\ Temp(1) # Internal(2)
      BY <1>1, Fresh
    <3> QED BY <1>5, <1>6, <3>1 DEF Apart
  <2> QED BY <1>2, <2>1, BinaryRun DEF Written
<1>8. v \in Int /\ Val(r, Temp(1)) \in {v, Undef}
      /\ (Val(machine, s1) # Undef /\ Val(machine, s2) # Undef => Val(r, Temp(1)) # Undef)
  BY <1>4, <1>5, <1>6, <1>7, Computed
<1> HIDE DEF v
<1>9. tree \in Trees /\ tree.type = "int" /\ tree.op = Temp(1) /\ tree.ast = v
      /\ (tree.op[1] = "v" => tree.op[2] <= nodes + 1)
  BY <1>1, <1>8, NewTree
<1>10. \A i \in DOMAIN operands : operands[i].op \notin W
  <2>1. \A i \in DOMAIN operands : operands[i].op # Temp(1) /\ operands[i].op # Internal(1) /\ operands[i].op # Internal(2)
    BY <1>1, Fresh, OperandValues, TreeFacts
  <2> QED BY <2>1
<1>11. ~converted' => ~converted /\ Val(r, Temp(1)) # Undef
  BY <1>1, <1>4, <1>5, <1>6, <1>8
<1> HIDE DEF tree, code, r, W
<1>12. Run(machine, <<>> \o code) = r
  BY <1>7, BehindNothing DEF r
<1>13. SelTypeOK' /\ ValuesRight' /\ DefinedNow' /\ Top' = tree
  <2> DEFINE all == <<>> \o code
  <2>1. Grow(2, tree, all) /\ Run(machine, all) = r
    BY <1>1, <1>12
  <2> HIDE DEF all
  <2> QED BY <1>1, <1>2, <1>7, <1>8, <1>9, <1>10, <1>11, <2>1, Growing DEF n
<1> QED BY <1>1, <1>9, <1>13, TreeGrown

LEMMA DecidedRight ==
  ASSUME NEW c \in CmpOps, NEW a \in Int, NEW b \in Int, NEW x \in {a, Undef}, NEW y \in {b, Undef}
  PROVE  LET v == Bit(Compare(c, a, b))
         IN  /\ v \in {0, 1} /\ <<x, y>> \in OrUndef \X OrUndef
             /\ Decided(c, x, y) \in {v, Undef}
             /\ Holds(c, <<x, y>>) = Undef \/ Holds(c, <<x, y>>) = (v # 0)
             /\ x # Undef /\ y # Undef => Decided(c, x, y) # Undef /\ Holds(c, <<x, y>>) # Undef
<1>1. Compare(c, a, b) \in BOOLEAN /\ a # Undef /\ b # Undef
  BY Opposites, ValuesAssumption
<1>2. x \in OrUndef /\ y \in OrUndef
  BY DEF OrUndef
<1> DEFINE p == Compare(c, a, b)
<1>3. CASE Undef \in {x, y}
  <2>1. Decided(c, x, y) = Undef /\ Holds(c, <<x, y>>) = Undef
    BY <1>2, <1>3, HoldsIs DEF Decided, OrUndef
  <2> QED BY <1>2, <1>3, <2>1 DEF Bit
<1>4. CASE Undef \notin {x, y}
  <2>1. x = a /\ y = b
    BY <1>4
  <2>2. Decided(c, x, y) = Bit(p)
    BY <1>4, <2>1 DEF Decided
  <2>3. Holds(c, <<x, y>>) = p /\ Holds(c, <<x, y>>) # Undef
    BY <1>2, <1>4, <2>1, HoldsIs DEF OrUndef
  <2> HIDE DEF p
  <2>4. Bit(p) \in {0, 1} /\ (Bit(p) # 0) = p /\ Bit(p) # Undef
    BY <1>1, ValuesAssumption DEF Bit, p
  <2> QED BY <1>2, <2>2, <2>3, <2>4 DEF p
<1> QED BY <1>3, <1>4

LEMMA OneComparison ==
  ASSUME Basis, NEW c \in CmpOps, Comparison(c)
  PROVE  SelInv'
<1> DEFINE v == Bit(Compare(c, Second.ast, Top.ast))
           mixed == Top.type # Second.type
           tree == Subtree("rel", "bool", Temp(1), v)
           s1 == IF mixed THEN AsInt(Second, Temp(2)) ELSE Second.op
           s2 == IF mixed THEN AsInt(Top, Temp(3)) ELSE Top.op
           code == SelectCmp(c, Temp(1), s1, s2)
           r == Run(machine, code)
           W == {Temp(1), Internal(1), Internal(2)}
           x == Val(machine, s1)
           y == Val(machine, s2)
<1>1. /\ SelTypeOK /\ ValuesRight /\ DefinedNow /\ nodes < MaxNodes /\ Len(operands) = 2
      /\ Grow(2, tree, <<>> \o code) /\ cmpOpcode' = c
      /\ observed' = {} /\ converted' = (converted \/ mixed)
  BY DEF Basis, Comparison, MayGrow, SelectTypeConver
<1>2. /\ 2 \in DOMAIN operands /\ 1 \in DOMAIN operands /\ 2 \in Nat /\ 2 <= Len(operands)
      /\ Top = operands[2] /\ Second = operands[1] /\ IsMachine(machine)
  <2>1. Len(operands) >= 2 /\ 2 - 1 = 1
    BY <1>1
  <2> QED BY <1>1, <2>1, LastTwo DEF SelTypeOK
<1>3. Top.ast \in Int /\ Second.ast \in Int
  BY <1>1, <1>2, OperandValues, TreeFacts
<1>4. /\ x \in {Second.ast, Undef} /\ (~converted' => x # Undef)
      /\ s1 # Temp(1) /\ s1 # Internal(1) /\ s1 # Internal(2)
  <2>1. CASE mixed
    <3>1. s1 = AsInt(Second, Temp(2))
      BY <2>1
    <3> QED BY <1>1, <1>2, <2>1, <3>1, AsIntValues
  <2>2. CASE ~mixed
    <3>1. s1 = Second.op
      BY <2>2
    <3> HIDE DEF s1
    <3> QED BY <1>1, <1>2, <2>2, <3>1, OperandValues, TreeFacts, Fresh
  <2> QED BY <2>1, <2>2
<1>5. /\ y \in {Top.ast, Undef} /\ (~converted' => y # Undef)
      /\ s2 # Temp(1) /\ s2 # Internal(1) /\ s2 # Internal(2)
  <2>1. CASE mixed
    <3>1. s2 = AsInt(Top, Temp(3))
      BY <2>1
    <3> QED BY <1>1, <1>2, <2>1, <3>1, AsIntValues
  <2>2. CASE ~mixed
    <3>1. s2 = Top.op
      BY <2>2
    <3> HIDE DEF s2
    <3> QED BY <1>1, <1>2, <2>2, <3>1, OperandValues, TreeFacts, Fresh, ZenonT(40)
  <2> QED BY <2>1, <2>2
<1>a. ~converted' => ~converted
  BY <1>1
<1> HIDE DEF s1, s2, mixed
<1>6. x \in Int \cup {Undef} /\ y \in Int \cup {Undef}
  BY <1>3, <1>4, <1>5
<1>7. IsCode(code) /\ ChangesOnly(machine, r, W) /\ r.flags = <<x, y>> /\ Val(r, Temp(1)) = Decided(c, x, y)
  <2>0. Compared(machine, s1, s2) = <<x, y>>
    BY DEF Compared
  <2>1. Apart(Temp(1), s1, s2)
    <3>1. ~IsImm(Temp(1)) /\ Temp(1) # Internal(1) /\ Temp(1) # Internal(2)
      BY <1>1, Fresh
    <3> QED BY <1>4, <1>5, <3>1 DEF Apart
  <2>3. IsCode(code) /\ ChangesOnly(machine, r, Written(Temp(1))) /\ r.flags = Compared(machine, s1, s2) /\ Val(r, Temp(1)) = Decided(c, x, y)
    BY <1>2, <1>6, <2>1, CmpRun
  <2> QED BY <2>0, <2>3 DEF Written
<1> HIDE DEF x, y
<1>8. /\ v \in {0, 1} /\ <<x, y>> \in OrUndef \X OrUndef
      /\ Decided(c, x, y) \in {v, Undef}
      /\ Holds(c, <<x, y>>) = Undef \/ Holds(c, <<x, y>>) = (v # 0)
      /\ x # Undef /\ y # Undef => Decided(c, x, y) # Undef /\ Holds(c, <<x, y>>) # Undef
  <2> DEFINE a == Second.ast
             b == Top.ast
  <2>1. a \in Int /\ b \in Int /\ x \in {a, Undef} /\ y \in {b, Undef}
    BY <1>3, <1>4, <1>5
  <2> HIDE DEF a, b
  <2>2. Bit(Compare(c, a, b)) \in {0, 1} /\ <<x, y>> \in OrUndef \X OrUndef
    BY <2>1, DecidedRight
  <2>3. Decided(c, x, y) \in {Bit(Compare(c, a, b)), Undef}
    BY <2>1, DecidedRight
  <2>4. Holds(c, <<x, y>>) = Undef \/ Holds(c, <<x, y>>) = (Bit(Compare(c, a, b)) # 0)
    BY <2>1, DecidedRight, ZenonT(40)
  <2>5. x # Undef /\ y # Undef => Decided(c, x, y) # Undef /\ Holds(c, <<x, y>>) # Undef
    BY <2>1, DecidedRight
  <2> QED BY <2>2, <2>3, <2>4, <2>5 DEF a, b
<1> HIDE DEF v
<1>9. v \in Int
  BY <1>8
<1>10. tree \in Trees /\ tree.sym = "rel" /\ tree.op = Temp(1) /\ tree.ast = v
       /\ (tree.op[1] = "v" => tree.op[2] <= nodes + 1)
  BY <1>1, <1>8, <1>9, NewTree
<1>11. \A i \in DOMAIN operands : operands[i].op \notin W
  <2>1. \A i \in DOMAIN operands : operands[i].op # Temp(1) /\ operands[i].op # Internal(1) /\ operands[i].op # Internal(2)
    BY <1>1, Fresh, OperandValues, TreeFacts
  <2> QED BY <2>1
<1>12. Run(machine, <<>> \o code) = r
  <2> HIDE DEF code
  <2> QED BY <1>7, BehindNothing
<1> HIDE DEF tree, code, r, W
<1>13. SelTypeOK' /\ ValuesRight' /\ DefinedNow' /\ Top' = tree /\ machine'.flags = <<x, y>>
  <2> DEFINE all == <<>> \o code
  <2>1. Grow(2, tree, all) /\ Run(machine, all) = r
    BY <1>1, <1>12
  <2> HIDE DEF all
  <2>2. Val(r, tree.op) \in {tree.ast, Undef} /\ (~converted' => ~converted /\ Val(r, tree.op) # Undef)
    BY <1>4, <1>5, <1>7, <1>8, <1>10, <1>a
  <2> QED BY <1>1, <1>2, <1>7, <1>10, <1>11, <2>1, <2>2, Growing
<1>14. Deciding(machine'.flags, cmpOpcode', Top', converted')
  <2>1. tree.sym # "temporary"
    BY <1>10
  <2> QED BY <1>1, <1>4, <1>5, <1>8, <1>10, <1>13, <2>1 DEF Deciding
<1> QED BY <1>1, <1>13, <1>14, TreeGrown

\* A negation: the flags are read, and then set for a branch.
LEMMA NotRun ==
  ASSUME NEW m, NEW first, IsCode(first), IsMachine(Run(m, first)),
         NEW x \in Int \cup {Undef}, NEW y \in Int \cup {Undef}, Run(m, first).flags = <<x, y>>,
         NEW d, NEW e, NEW src, ~IsImm(d), ~IsImm(e), d # e, d # src, e # src,
         \A i : d # Internal(i) /\ e # Internal(i) /\ src # Internal(i),
         Val(Run(m, first), src) \in Int \cup {Undef}
  PROVE  LET code == first \o SelectXor(d) \o SelectCmp("NE", e, src, Imm(1))
             r == Run(m, code)
             m1 == Run(m, first)
         IN  /\ ChangesOnly(m1, r, {d, e, Internal(1), Internal(2)})
             /\ r.flags = <<Val(m1, src), 1>> /\ Val(r, d) = Decided("E", x, y)
<1> DEFINE xor == SelectXor(d)
           cmp == SelectCmp("NE", e, src, Imm(1))
           m1 == Run(m, first)
           m2 == Run(m1, xor)
           r == Run(m2, cmp)
<1>1. IsCode(xor) /\ ChangesOnly(m1, m2, {d}) /\ m2.flags = m1.flags /\ Val(m2, d) = Decided("E", x, y)
  BY XorRun
<1>2. IsMachine(m2) /\ Val(m2, src) = Val(m1, src)
  BY <1>1 DEF ChangesOnly
<1>3. IsCode(cmp) /\ ChangesOnly(m2, r, {e, Internal(1), Internal(2)}) /\ r.flags = <<Val(m1, src), 1>>
  <2>1. Val(m2, Imm(1)) = 1 /\ Imm(1) # Internal(1) /\ Imm(1) # Internal(2) /\ e # Imm(1) /\ "NE" \in CmpOps
    BY Operands, ImmediatesDiffer DEF Val, CmpOps
  <2>2. Apart(e, src, Imm(1))
    BY <2>1 DEF Apart
  <2>3. Val(m2, src) \in Int \cup {Undef} /\ Val(m2, Imm(1)) \in Int \cup {Undef}
    BY <1>2, <2>1
  <2> HIDE DEF m2, m1
  <2> DEFINE one == Imm(1)
             ne == "NE"
             c == SelectCmp(ne, e, src, one)
  <2>4. IsCode(c) /\ ChangesOnly(m2, Run(m2, c), Written(e)) /\ Run(m2, c).flags = Compared(m2, src, one)
    <3>1. ne \in CmpOps /\ Apart(e, src, one)
          /\ Val(m2, one) \in Int \cup {Undef}
      BY <2>1, <2>2, <2>3
    <3> HIDE DEF ne, one
    <3>2. IsMachine(m2) /\ Val(m2, src) \in Int \cup {Undef}
      BY <1>2, <2>3
    <3> QED BY ONLY <3>1, <3>2, CmpRun
  <2>5. Compared(m2, src, one) = <<Val(m1, src), 1>>
    BY <1>2, <2>1 DEF Compared
  <2> QED BY <1>2, <2>4, <2>5 DEF Written
<1>4. Run(m, first \o xor \o cmp) = r
  <2> HIDE DEF xor, cmp
  <2>1. IsCode(first \o xor) /\ Run(m, first \o xor) = m2
    BY <1>1, RunJoined DEF m1
  <2>2. Run(m, (first \o xor) \o cmp) = Run(Run(m, first \o xor), cmp)
    BY <1>3, <2>1, RunJoined
  <2> QED BY <2>1, <2>2
<1> HIDE DEF xor, cmp, m2, r, m1
<1>5. ChangesOnly(m1, r, {d, e, Internal(1), Internal(2)}) /\ Val(r, d) = Decided("E", x, y)
  BY <1>1, <1>3 DEF ChangesOnly
<1> QED BY <1>3, <1>4, <1>5 DEF xor, cmp, m1

LEMMA NotIs ==
  ASSUME NEW a \in Int
  PROVE  Not(a) \in {0, 1} /\ Not(a) \in Int /\ Not(a) # Undef /\ (Not(a) # 0) = (a = 0) /\ Not(a) = Bit(a = 0)
<1>1. a # Undef /\ 0 # Undef /\ 1 # Undef
  BY ValuesAssumption
<1> QED BY <1>1 DEF Not, Bit

\* The flags that decided a bool say what its negation is.
LEMMA NotFromFlags ==
  ASSUME NEW flags, NEW c, NEW tree, NEW conv, Deciding(flags, c, tree, conv),
         tree.sym = "temporary", tree.ast \in Int
  PROVE  \E x \in OrUndef, y \in OrUndef :
           /\ flags = <<x, y>> /\ Decided("E", x, y) \in {Not(tree.ast), Undef}
           /\ ~conv => Decided("E", x, y) # Undef
<1> DEFINE a == tree.ast
<1>1. PICK x \in OrUndef, y \in OrUndef : flags = <<x, y>>
  BY DEF Deciding
<1>2. /\ Holds("NE", <<x, y>>) = (a # 0) \/ Holds("NE", <<x, y>>) = Undef
      /\ ~conv => Holds("NE", <<x, y>>) # Undef
  BY <1>1 DEF Deciding
<1>3. "NE" \in CmpOps
  BY DEF CmpOps
<1> HIDE DEF a
<1>4. CASE Undef \in {x, y}
  <2>1. Holds("NE", <<x, y>>) = Undef
    BY <1>3, <1>4, HoldsIs DEF OrUndef
  <2> QED BY <1>1, <1>2, <1>4, <2>1 DEF Decided
<1>5. CASE Undef \notin {x, y}
  <2>1. x \in Int /\ y \in Int /\ Holds("NE", <<x, y>>) = Compare("NE", x, y) /\ Holds("NE", <<x, y>>) # Undef
    BY <1>3, <1>5, HoldsIs DEF OrUndef
  <2>2. (x # y) = (a # 0)
    BY <1>2, <2>1 DEF Compare
  <2>3. Decided("E", x, y) = Bit(x = y)
    BY <1>5 DEF Decided, Compare
  <2>4. Not(a) = Bit(a = 0) /\ Not(a) # Undef
    BY NotIs DEF a
  <2>5. Decided("E", x, y) = Not(a)
    BY <2>2, <2>3, <2>4 DEF Bit
  <2> QED BY <1>1, <2>4, <2>5 DEF a
<1> QED BY <1>4, <1>5

LEMMA OneNot ==
  ASSUME Basis, NotExpr
  PROVE  SelInv'
<1> DEFINE a == Top.ast
           tree == Subtree("temporary", "bool", Temp(1), Not(a))
           src == IF Top.type = "bool" THEN Top.op ELSE Temp(2)
           first == IF Top.type = "bool" THEN <<>> ELSE SelectCmp("NE", Temp(2), Top.op, Imm(0))
           code == NotCode(Top)
           m1 == Run(machine, first)
           r == Run(machine, code)
           V == {Temp(2), Internal(1), Internal(2)}
           U == {Temp(1), Temp(3), Internal(1), Internal(2)}
           W == V \cup U
           p == Val(m1, src)
<1>1. /\ SelTypeOK /\ ValuesRight /\ DefinedNow /\ FlagsRight /\ nodes < MaxNodes /\ operands # <<>> /\ Top.sym # "rel"
      /\ Grow(1, tree, code) /\ cmpOpcode' = "NE" /\ observed' = {} /\ converted' = converted
  BY DEF Basis, NotExpr, MayGrow
<1>2. Len(operands) \in DOMAIN operands /\ Top = operands[Len(operands)] /\ 1 \in Nat /\ 1 <= Len(operands)
      /\ IsMachine(machine)
  BY <1>1, LastOne DEF SelTypeOK
<1>3. Top \in Trees /\ Val(machine, Top.op) \in {a, Undef} /\ (~converted => Val(machine, Top.op) # Undef)
      /\ Top.op # Temp(1) /\ Top.op # Temp(2) /\ Top.op # Temp(3)
  BY <1>1, <1>2, OperandValues, Fresh
<1>4. /\ a \in Int /\ Top.type \in {"int", "bool"} /\ (Top.type = "bool" => a \in {0, 1} /\ Top.sym = "temporary")
      /\ \A i : Top.op # Internal(i)
  BY <1>1, <1>3, TreeFacts
<1>5. Temp(1) # Temp(2) /\ Temp(2) # Temp(3) /\ Temp(1) # Temp(3)
      /\ ~IsImm(Temp(1)) /\ ~IsImm(Temp(2)) /\ ~IsImm(Temp(3))
      /\ \A i : Temp(1) # Internal(i) /\ Temp(2) # Internal(i) /\ Temp(3) # Internal(i)
  BY <1>1, Fresh
<1>6. code = first \o SelectXor(Temp(1)) \o SelectCmp("NE", Temp(3), src, Imm(1))
  BY DEF NotCode
<1>7. /\ IsCode(first) /\ ChangesOnly(machine, m1, V) /\ p \in {Bit(a # 0), Undef} /\ (~converted => p # Undef)
      /\ \E x \in OrUndef, y \in OrUndef :
           /\ m1.flags = <<x, y>> /\ Decided("E", x, y) \in {Not(a), Undef}
           /\ ~converted => Decided("E", x, y) # Undef
  <2>1. CASE Top.type = "bool"
    <3>1. first = <<>> /\ src = Top.op /\ m1 = machine
      BY <2>1, EmptyRun
    <3> HIDE DEF first, src, m1
    <3>2. Bit(a # 0) = a
      BY <1>4, <2>1 DEF Bit
    <3>3. Deciding(machine.flags, cmpOpcode, Top, converted)
      BY <1>1, <2>1 DEF FlagsRight
    <3>4. \E x \in OrUndef, y \in OrUndef :
           /\ m1.flags = <<x, y>> /\ Decided("E", x, y) \in {Not(a), Undef}
           /\ ~converted => Decided("E", x, y) # Undef
      BY <1>4, <2>1, <3>1, <3>3, NotFromFlags
    <3>5. ChangesOnly(machine, m1, V)
      BY <1>2, <3>1 DEF ChangesOnly
    <3> QED BY <1>3, <3>1, <3>2, <3>4, <3>5, CodeShapes
  <2>2. CASE Top.type # "bool"
    <3> DEFINE ne == "NE"
               zero == Imm(0)
               x == Val(machine, Top.op)
    <3>1. first = SelectCmp(ne, Temp(2), Top.op, zero) /\ src = Temp(2) /\ ne \in CmpOps
      BY <2>2 DEF CmpOps
    <3>2. Val(machine, zero) = 0 /\ zero # Internal(1) /\ zero # Internal(2) /\ IsImm(zero)
      BY Operands, ImmediatesDiffer DEF Val
    <3>3. Apart(Temp(2), Top.op, zero)
          /\ x \in Int \cup {Undef} /\ Val(machine, zero) \in Int \cup {Undef}
      BY <1>3, <1>4, <1>5, <3>2 DEF Apart
    <3> HIDE DEF ne, zero, first, src, x
    <3>4. IsCode(first) /\ ChangesOnly(machine, m1, V) /\ m1.flags = Compared(machine, Top.op, zero)
          /\ Val(m1, src) = Decided(ne, Val(machine, Top.op), Val(machine, zero))
      <4>1. Val(machine, Top.op) \in Int \cup {Undef}
        BY <3>3 DEF x
      <4> DEFINE t == Temp(2)
                 o == Top.op
                 k == SelectCmp(ne, t, o, zero)
                 q == Run(machine, k)
      <4>2. Apart(t, o, zero)
        BY <1>5, <3>3
      <4>3. Val(machine, o) \in Int \cup {Undef} /\ Val(machine, zero) \in Int \cup {Undef} /\ IsMachine(machine) /\ ne \in CmpOps
        BY <1>2, <3>1, <3>3, <4>1
      <4>4. first = k /\ m1 = q /\ src = t
        BY <3>1 DEF m1
      <4> HIDE DEF t, o
      <4>5. IsCode(k) /\ ChangesOnly(machine, q, Written(t)) /\ q.flags = Compared(machine, o, zero)
            /\ Val(q, t) = Decided(ne, Val(machine, o), Val(machine, zero))
        BY ONLY <4>2, <4>3, CmpRun
      <4> HIDE DEF k, q
      <4> QED BY <4>4, <4>5 DEF t, o, Written
    <3>5. m1.flags = <<x, 0>> /\ Val(m1, src) = Decided("NE", x, 0)
      BY <3>2, <3>4 DEF Compared, x, ne
    <3>6. CASE x = Undef
      <4>1. Decided("NE", x, 0) = Undef /\ Decided("E", x, 0) = Undef /\ converted /\ x \in OrUndef /\ 0 \in OrUndef
        BY <1>3, <3>6 DEF Decided, OrUndef, x
      <4> QED BY <3>4, <3>5, <4>1
    <3>7. CASE x # Undef
      <4>1. x = a
        BY <1>3, <3>7 DEF x
      <4>2. Undef \notin {x, 0}
        BY <3>7, ValuesAssumption
      <4>3. Decided("NE", x, 0) = Bit(a # 0) /\ Decided("E", x, 0) = Bit(a = 0)
        BY <4>1, <4>2 DEF Decided, Compare
      <4>4. Bit(a # 0) # Undef /\ Not(a) = Bit(a = 0) /\ Not(a) # Undef
        BY <1>4, NotIs, ValuesAssumption DEF Bit
      <4>5. x \in OrUndef /\ 0 \in OrUndef
        BY <1>4, <4>1 DEF OrUndef
      <4> QED BY <3>4, <3>5, <4>3, <4>4, <4>5
    <3> QED BY <3>6, <3>7
  <2> QED BY <2>1, <2>2
<1>8. PICK x \in OrUndef, y \in OrUndef :
        /\ m1.flags = <<x, y>> /\ Decided("E", x, y) \in {Not(a), Undef}
        /\ ~converted => Decided("E", x, y) # Undef
  BY <1>7
<1>9. src # Temp(1) /\ src # Temp(3) /\ (\A i : src # Internal(i)) /\ p \in Int \cup {Undef} /\ IsMachine(m1)
  <2>1. p \in Int \cup {Undef} /\ IsMachine(m1)
    <3> HIDE DEF p, m1, first, src
    <3>1. Bit(a # 0) \in Int
      BY DEF Bit
    <3> QED BY <1>7, <3>1 DEF ChangesOnly
  <2> QED BY <1>3, <1>4, <1>5, <2>1
<1> HIDE DEF first, src
<1>10. ChangesOnly(m1, r, U) /\ r.flags = <<p, 1>> /\ Val(r, Temp(1)) = Decided("E", x, y)
  <2>1. x \in Int \cup {Undef} /\ y \in Int \cup {Undef}
    BY DEF OrUndef
  <2> DEFINE d == Temp(1)
             e == Temp(3)
             k == first \o SelectXor(d) \o SelectCmp("NE", e, src, Imm(1))
             q == Run(machine, k)
  <2>2. ~IsImm(d) /\ ~IsImm(e) /\ d # e /\ d # src /\ e # src
        /\ \A i : d # Internal(i) /\ e # Internal(i) /\ src # Internal(i)
    BY <1>5, <1>9
  <2>3. r = q
    BY <1>6
  <2> HIDE DEF d, e
  <2>4. IsCode(first) /\ IsMachine(m1) /\ m1.flags = <<x, y>> /\ p \in Int \cup {Undef}
    BY <1>7, <1>8, <1>9
  <2>5. /\ ChangesOnly(m1, q, {d, e, Internal(1), Internal(2)})
        /\ q.flags = <<p, 1>> /\ Val(q, d) = Decided("E", x, y)
    BY ONLY <2>1, <2>2, <2>4, NotRun
  <2> HIDE DEF q
  <2> QED BY <2>3, <2>5 DEF d, e
<1>11. Not(a) \in {0, 1} /\ Not(a) \in Int /\ Not(a) # Undef /\ (Not(a) # 0) = (a = 0)
  BY <1>4, NotIs
<1>12. /\ tree \in Trees /\ tree.sym = "temporary" /\ tree.type = "bool" /\ tree.op = Temp(1) /\ tree.ast = Not(a)
       /\ (tree.op[1] = "v" => tree.op[2] <= nodes + 1)
  <2> DEFINE v == Not(a)
  <2>1. v \in {0, 1} /\ v \in Int
    BY <1>11
  <2> HIDE DEF v
  <2> QED BY <1>1, <2>1, NewTree DEF v
<1> HIDE DEF tree, code, m1, r, p, V, U
<1>13. ChangesOnly(machine, r, W)
  BY <1>7, <1>10, ChangesJoined
<1>14. \A i \in DOMAIN operands : operands[i].op \notin W
  <2>1. \A i \in DOMAIN operands : /\ operands[i].op # Temp(1) /\ operands[i].op # Temp(2) /\ operands[i].op # Temp(3)
                                   /\ operands[i].op # Internal(1) /\ operands[i].op # Internal(2)
    BY <1>1, Fresh, OperandValues, TreeFacts
  <2> QED BY <2>1 DEF U, V
<1>15. Val(r, tree.op) \in {tree.ast, Undef} /\ (~converted' => ~converted /\ Val(r, tree.op) # Undef)
  BY <1>1, <1>8, <1>10, <1>12
<1> HIDE DEF W
<1>16. SelTypeOK' /\ ValuesRight' /\ DefinedNow' /\ Top' = tree /\ machine'.flags = <<p, 1>>
  BY <1>1, <1>2, <1>10, <1>12, <1>13, <1>14, <1>15, Growing DEF r
<1>17. Deciding(<<p, 1>>, "NE", tree, converted)
  <2> DEFINE ne == "NE"
  <2>1. ne \in CmpOps /\ p \in Int \cup {Undef} /\ 1 \in Int \cup {Undef} /\ 1 # Undef
    BY <1>9, ValuesAssumption DEF CmpOps
  <2>2. <<p, 1>> \in OrUndef \X OrUndef
    BY <2>1 DEF OrUndef
  <2>3. CASE p = Undef
    <3>1. Holds(ne, <<p, 1>>) = Undef /\ converted
      <4> HIDE DEF ne
      <4>1. \A z \in Int \cup {Undef} : Holds(ne, <<Undef, z>>) = Undef
        BY <2>1, HoldsIs
      <4> QED BY <1>7, <2>1, <2>3, <4>1
    <3> QED BY <2>1, <2>2, <3>1 DEF Deciding
  <2>4. CASE p # Undef
    <3>1. Holds(ne, <<p, 1>>) = Compare(ne, p, 1) /\ Holds(ne, <<p, 1>>) # Undef
      <4> DEFINE one == 1
      <4>1. one \in Int \cup {Undef} /\ Undef \notin {p, one}
        BY <2>1, <2>4
      <4> HIDE DEF ne, one
      <4>2. Holds(ne, <<p, one>>) = Compare(ne, p, one) /\ Holds(ne, <<p, one>>) # Undef
        BY <2>1, <4>1, HoldsIs
      <4> QED BY <4>2 DEF one
    <3>2. Compare(ne, p, 1) = (p # 1)
      BY DEF Compare
    <3>3. (p # 1) = (Not(a) # 0)
      BY <1>7, <1>11, <2>4 DEF Bit
    <3> QED BY <1>12, <2>1, <2>2, <3>1, <3>2, <3>3 DEF Deciding
  <2> QED BY <2>3, <2>4
<1>18. Deciding(machine'.flags, cmpOpcode', Top', converted')
  BY <1>1, <1>16, <1>17
<1> QED BY <1>1, <1>16, <1>18, TreeGrown

LEMMA OneSignOfConstant ==
  ASSUME Basis, NEW f \in {"add", "sub"}, SignOfConstant(f)
  PROVE  SelInv'
<1> DEFINE v == Apply(f, 0, Top.ast)
           tree == Subtree("constant", "int", Imm(v), v)
           r == Run(machine, <<>>)
<1>1. /\ SelTypeOK /\ ValuesRight /\ DefinedNow /\ nodes < MaxNodes /\ operands # <<>> /\ Grow(1, tree, <<>>)
      /\ observed' = {} /\ converted' = converted
  BY DEF Basis, SignOfConstant, MayGrow
<1>2. Len(operands) \in DOMAIN operands /\ Top = operands[Len(operands)] /\ 1 \in Nat /\ 1 <= Len(operands)
  BY <1>1, LastOne
<1>3. v \in Int
  <2>1. Top.ast \in Int /\ f \in Operators /\ 0 \in Int
    BY <1>1, <1>2, OperandValues, TreeFacts DEF Operators
  <2> QED BY <2>1, Applied
<1> HIDE DEF v
<1>4. tree \in Trees /\ tree.type = "int" /\ tree.op = Imm(v) /\ tree.ast = v
  BY <1>3, ConstantMade
<1>5. ChangesOnly(machine, r, {})
  <2>1. r = machine
    BY EmptyRun
  <2> QED BY <1>1, <2>1 DEF ChangesOnly, SelTypeOK
<1>6. Val(r, tree.op) = v /\ v # Undef /\ tree.op[1] # "v"
  BY <1>3, <1>4, Operands, ValuesAssumption DEF Val, Imm
<1> HIDE DEF tree
<1>7. SelTypeOK' /\ ValuesRight' /\ DefinedNow' /\ Top' = tree
  BY <1>1, <1>2, <1>4, <1>5, <1>6, Growing
<1> QED BY <1>1, <1>4, <1>7, TreeGrown

LEMMA OneSignOfId ==
  ASSUME Basis, SignOfId
  PROVE  SelInv'
<1> DEFINE r == Run(machine, <<>>)
           tree == Top
<1>1. /\ SelTypeOK /\ ValuesRight /\ DefinedNow /\ nodes < MaxNodes /\ operands # <<>> /\ Grow(1, tree, <<>>)
      /\ tree.sym = "id" /\ observed' = {} /\ converted' = converted
  BY DEF Basis, SignOfId, MayGrow
<1>2. Len(operands) \in DOMAIN operands /\ tree = operands[Len(operands)] /\ 1 \in Nat /\ 1 <= Len(operands)
  BY <1>1, LastOne
<1>3. r = machine /\ ChangesOnly(machine, r, {})
  <2>1. r = machine
    BY EmptyRun
  <2> QED BY <1>1, <2>1 DEF ChangesOnly, SelTypeOK
<1>4. /\ tree \in Trees /\ tree.type = "int"
      /\ Val(r, tree.op) \in {tree.ast, Undef} /\ (~converted => Val(r, tree.op) # Undef)
  BY <1>1, <1>2, <1>3, OperandValues, TreeFacts
<1>5. tree.op[1] = "v" => tree.op[2] <= nodes + 1
  <2>1. SUFFICES ASSUME tree.op[1] = "v" PROVE tree.op[2] <= nodes + 1
    OBVIOUS
  <2>2. tree.op[2] <= nodes
    BY <1>1, <1>2, <2>1 DEF SelTypeOK
  <2>3. tree.op \in {"v"} \X (1 .. MaxNodes)
    <3>1. tree.op \in ({"imm"} \X Int) \cup ({"v"} \X (1 .. MaxNodes))
      BY <1>4 DEF Trees
    <3> QED BY <2>1, <3>1
  <2>4. tree.op[2] \in Nat /\ nodes \in Nat
    BY <1>1, <2>3, SizesAssumption DEF SelTypeOK
  <2> QED BY <2>2, <2>4
<1> HIDE DEF tree
<1>6. SelTypeOK' /\ ValuesRight' /\ DefinedNow' /\ Top' = tree
  BY <1>1, <1>2, <1>3, <1>4, <1>5, Growing
<1> QED BY <1>1, <1>4, <1>6, TreeGrown

LEMMA OneSign ==
  ASSUME Basis, NEW f \in {"add", "sub"}, SignExpr(f)
  PROVE  SelInv'
<1> DEFINE a == Top.ast
           v == Apply(f, 0, a)
           tree == Subtree("temporary", "int", Temp(1), v)
           src == AsInt(Top, Temp(2))
           first == IF Top.type = "bool" THEN SelectZext(src, Top.op) ELSE <<>>
           zero == Imm(0)
           last == SelectBinary(f, Temp(1), zero, src)
           m1 == Run(machine, first)
           r == Run(m1, last)
           V == {Temp(2)}
           U == {Temp(1), Internal(1), Internal(2)}
           W == V \cup U
           x == Val(machine, Top.op)
<1>1. /\ SelTypeOK /\ ValuesRight /\ DefinedNow /\ nodes < MaxNodes /\ operands # <<>>
      /\ Grow(1, tree, first \o last) /\ observed' = {} /\ converted' = converted
  BY DEF Basis, SignExpr, MayGrow
<1>2. Len(operands) \in DOMAIN operands /\ Top = operands[Len(operands)] /\ 1 \in Nat /\ 1 <= Len(operands)
      /\ IsMachine(machine)
  BY <1>1, LastOne DEF SelTypeOK
<1>3. Top \in Trees /\ x \in {a, Undef} /\ (~converted => x # Undef) /\ Top.op # Temp(1) /\ Top.op # Temp(2)
  BY <1>1, <1>2, OperandValues, Fresh
<1>4. a \in Int /\ \A i : Top.op # Internal(i)
  BY <1>3, TreeFacts
<1>5. Temp(1) # Temp(2) /\ ~IsImm(Temp(1)) /\ ~IsImm(Temp(2)) /\ \A i : Temp(1) # Internal(i) /\ Temp(2) # Internal(i)
  BY <1>1, Fresh
<1>6. IsCode(first) /\ ChangesOnly(machine, m1, V) /\ Val(m1, src) = x
  <2>1. CASE Top.type = "bool"
    <3>1. first = <<Mov(src, Top.op)>> /\ src = Temp(2)
      BY <2>1 DEF SelectZext, AsInt
    <3> HIDE DEF src, first
    <3> DEFINE t == Temp(2)
               o == Top.op
               q == Run(machine, <<Mov(t, o)>>)
    <3>2. ~IsImm(t) /\ IsMachine(machine) /\ m1 = q
      BY <1>2, <1>5, <3>1
    <3> HIDE DEF t, o
    <3>3. ChangesOnly(machine, q, {t}) /\ Val(q, t) = Val(machine, o)
      BY ONLY <3>2, MovRun
    <3> HIDE DEF q, m1
    <3>4. IsCode(first)
      BY <3>1, CodeShapes
    <3> QED BY <3>1, <3>2, <3>3, <3>4 DEF t, o, x
  <2>2. CASE Top.type # "bool"
    <3>1. first = <<>> /\ src = Top.op /\ m1 = machine
      BY <2>2, EmptyRun DEF AsInt
    <3> HIDE DEF src, first, m1
    <3> QED BY <1>2, <3>1, CodeShapes DEF ChangesOnly
  <2> QED BY <2>1, <2>2
<1>7. src # Temp(1) /\ src # Internal(1) /\ src # Internal(2)
  BY <1>3, <1>4, <1>5 DEF AsInt
<1> HIDE DEF first, src, x
<1>8. /\ IsCode(last) /\ ChangesOnly(m1, r, U) /\ Val(r, Temp(1)) = Apply(f, 0, x)
  <2> DEFINE d == Temp(1)
             k == SelectBinary(f, d, zero, src)
             q == Run(m1, k)
  <2>1. IsMachine(m1) /\ Val(m1, zero) = 0 /\ zero # Internal(1) /\ zero # Internal(2) /\ IsImm(zero) /\ f # "mod"
    BY <1>6, Operands, ImmediatesDiffer DEF ChangesOnly, Val
  <2>2. Apart(d, zero, src)
    BY <1>5, <1>7, <2>1 DEF Apart
  <2>3. k = last /\ q = r
    OBVIOUS
  <2> HIDE DEF d, zero, m1
  <2>4. /\ IsCode(k) /\ ChangesOnly(m1, q, Written(d))
        /\ f # "mod" => Val(q, d) = Apply(f, Val(m1, zero), Val(m1, src))
    BY ONLY <2>1, <2>2, BinaryRun
  <2> HIDE DEF k, q
  <2> QED BY <1>6, <2>1, <2>3, <2>4 DEF d, Written
<1>9. Run(machine, first \o last) = r
  <2> HIDE DEF last
  <2> QED BY <1>6, <1>8, RunJoined
<1>10. v \in Int /\ Apply(f, 0, x) \in {v, Undef} /\ (~converted => Apply(f, 0, x) # Undef)
  <2>1. f \in Operators /\ f # "mod" /\ 0 \in Int /\ 0 \in {0, Undef} /\ 0 # Undef
    BY ValuesAssumption DEF Operators
  <2> DEFINE n == 0
  <2>2. n \in Int /\ n \in {n, Undef} /\ n # Undef
    BY <2>1
  <2> HIDE DEF n, a
  <2>3. a \in Int /\ x \in {a, Undef}
    BY <1>3, <1>4 DEF x, a
  <2> HIDE DEF x
  <2>4. Apply(f, n, a) \in Int
    BY ONLY <2>1, <2>2, <2>3, Computed
  <2>5. Apply(f, n, x) \in {Apply(f, n, a), Undef}
    BY ONLY <2>1, <2>2, <2>3, Computed
  <2>6. x # Undef => Apply(f, n, x) # Undef
    BY ONLY <2>1, <2>2, <2>3, Computed
  <2> QED BY <1>3, <2>4, <2>5, <2>6 DEF n
<1> HIDE DEF v
<1>11. tree \in Trees /\ tree.type = "int" /\ tree.op = Temp(1) /\ tree.ast = v
       /\ (tree.op[1] = "v" => tree.op[2] <= nodes + 1)
  BY <1>1, <1>10, NewTree
<1> HIDE DEF tree, last, m1, r, V, U
<1>12. ChangesOnly(machine, r, W)
  BY <1>6, <1>8, ChangesJoined
<1>13. \A i \in DOMAIN operands : operands[i].op \notin W
  <2>1. \A i \in DOMAIN operands : /\ operands[i].op # Temp(1) /\ operands[i].op # Temp(2)
                                   /\ operands[i].op # Internal(1) /\ operands[i].op # Internal(2)
    BY <1>1, Fresh, OperandValues, TreeFacts
  <2> QED BY <2>1 DEF U, V
<1> HIDE DEF W
<1>14. SelTypeOK' /\ ValuesRight' /\ DefinedNow' /\ Top' = tree
  <2> DEFINE all == first \o last
  <2>1. Grow(1, tree, all) /\ Run(machine, all) = r
    BY <1>1, <1>9
  <2> HIDE DEF all
  <2>2. Val(r, tree.op) \in {tree.ast, Undef} /\ (~converted' => ~converted /\ Val(r, tree.op) # Undef)
    BY <1>1, <1>8, <1>10, <1>11
  <2> QED BY <1>1, <1>2, <1>11, <1>12, <1>13, <2>1, <2>2, Growing
<1> QED BY <1>1, <1>11, <1>14, TreeGrown

\* The operands that a call takes as its parameters.
LEMMA Parameters ==
  ASSUME SelTypeOK, NEW n \in Nat, n <= Len(operands)
  PROVE  LET p == [i \in 1 .. n |-> operands[Len(operands) - n + i].op]
         IN  /\ DOMAIN p = 1 .. n /\ Len(p) = n
             /\ \A i \in 1 .. n : /\ Len(operands) - n + i \in DOMAIN operands
                                  /\ p[i] = operands[Len(operands) - n + i].op
                                  /\ p[i] \notin Registers
<1> DEFINE p == [i \in 1 .. n |-> operands[Len(operands) - n + i].op]
<1>1. Len(operands) \in Nat /\ DOMAIN operands = 1 .. Len(operands) /\ \A i \in DOMAIN operands : operands[i] \in Trees
  BY DEF SelTypeOK
<1>2. DOMAIN p = 1 .. n /\ Len(p) = n /\ \A i \in 1 .. n : p[i] = operands[Len(operands) - n + i].op
  OBVIOUS
<1>3. \A i \in 1 .. n : Len(operands) - n + i \in DOMAIN operands
  BY <1>1
<1> HIDE DEF p
<1>4. \A i \in 1 .. n : p[i] \notin Registers
  <2> SUFFICES ASSUME NEW i \in 1 .. n PROVE \A j : p[i] # Reg(j)
    BY DEF Registers
  <2>1. operands[Len(operands) - n + i] \in Trees
    BY <1>1, <1>3
  <2> QED BY <1>2, <2>1, TreeFacts
<1> QED BY <1>2, <1>3, <1>4 DEF p

\* What a callee sees.
LEMMA ArgumentsRight ==
  ASSUME SelTypeOK, ValuesRight, DefinedNow, NEW n \in Nat, n <= Len(operands), NEW o \in Arguments(n),
         o.what \in {"condition", "result", "parameter"}
  PROVE  o.got \in {o.ast, Undef} /\ (~converted => o.got # Undef)
<1> DEFINE L == Len(operands)
           params == SubSeq(operands, L - n + 1, L)
           p == [i \in 1 .. n |-> operands[L - n + i].op]
           q == [i \in 1 .. n |-> params[i].op]
           r == Run(machine, SelectParams(p))
<1>1. L \in Nat /\ DOMAIN operands = 1 .. L /\ IsMachine(machine) /\ operands \in Seq(Trees)
  BY DEF SelTypeOK
<1>2. \A i \in 1 .. n : params[i] = operands[L - n + i]
  <2> HIDE DEF L
  <2>1. L - n + 1 \in Nat /\ L - n + 1 >= 1 /\ L - (L - n + 1) + 1 = n /\ n <= L
    BY <1>1 DEF L
  <2>2. \A i \in 1 .. n : (L - n + 1) + i - 1 = L - n + i
    BY <1>1
  <2>3. \A i \in 1 .. n : params[i] = operands[(L - n + 1) + i - 1]
    BY <1>1, <2>1 DEF L
  <2> QED BY <2>2, <2>3
<1> HIDE DEF params
<1>3. q = p
  BY <1>2
<1>4. PICK i \in 1 .. n : o = Seen(IF n > ArgRegs THEN "one of many" ELSE "parameter", Val(r, Reg(i - 1)), params[i].ast)
  BY <1>3 DEF Arguments, params
<1>5. n <= ArgRegs
  <2>1. o.what = IF n > ArgRegs THEN "one of many" ELSE "parameter"
    BY <1>4 DEF Seen
  <2>2. ~(n > ArgRegs)
    BY <2>1
  <2>3. ArgRegs \in Nat
    BY SizesAssumption
  <2> QED BY <2>2, <2>3
<1>6. o.got = Val(r, Reg(i - 1)) /\ o.ast = operands[L - n + i].ast
  BY <1>2, <1>4 DEF Seen
<1>7. /\ DOMAIN p = 1 .. n /\ Len(p) = n /\ \A k \in 1 .. n : p[k] \notin Registers
      /\ L - n + i \in DOMAIN operands /\ p[i] = operands[L - n + i].op
  BY Parameters
<1> HIDE DEF p, L, r
<1>8. Val(r, Reg(i - 1)) = Val(machine, p[i])
  <2> DEFINE z == Run(machine, SelectParams(p))
  <2>1. z = r
    BY DEF r
  <2>2. DOMAIN p = 1 .. n /\ Len(p) = n /\ (\A k \in 1 .. n : p[k] \notin Registers) /\ IsMachine(machine) /\ n \in Nat
    BY <1>1, <1>7
  <2>3. n <= ArgRegs => \A k \in 1 .. n : Val(z, Reg(k - 1)) = Val(machine, p[k])
    BY ONLY <2>2, ParamsRun
  <2> HIDE DEF z
  <2> QED BY <1>5, <2>1, <2>3
<1> QED BY <1>6, <1>7, <1>8, OperandValues

\* What a call shows is right.
LEMMA ShownByCall ==
  ASSUME Basis, NEW n \in Nat, n <= Len(operands), observed' = Arguments(n), converted' = converted, DefinedNow'
  PROVE  EffectsRight' /\ UndefinedOnlyAfterConversion'
<1>1. SelTypeOK /\ ValuesRight /\ DefinedNow
  BY DEF Basis
<1>2. ASSUME NEW o \in observed', o.what \in {"condition", "result", "parameter"}
      PROVE  o.got \in {o.ast, Undef} /\ (~converted => o.got # Undef)
  <2>1. o \in Arguments(n)
    OBVIOUS
  <2> QED BY <1>1, <1>2, <2>1, ArgumentsRight
<1>3. EffectsRight'
  BY <1>2 DEF EffectsRight
<1>4. UndefinedOnlyAfterConversion'
  BY <1>2 DEF UndefinedOnlyAfterConversion, DefinedNow
<1> QED BY <1>3, <1>4

LEMMA OneCall ==
  ASSUME Basis, NEW n \in 0 .. MaxOperands, NEW result \in Initial, FuncCallExp(n, result)
  PROVE  SelInv'
<1> DEFINE tree == Subtree("temporary", "int", Temp(1), result)
           p == [i \in 1 .. n |-> operands[Len(operands) - n + i].op]
           first == CallCode(n, result)
           last == <<Mov(Temp(1), Reg(0))>>
           m1 == Run(machine, first)
           r == Run(m1, last)
           W == Registers \cup {Temp(1)}
<1>1. /\ SelTypeOK /\ ValuesRight /\ DefinedNow /\ nodes < MaxNodes /\ n <= Len(operands) /\ n \in Nat
      /\ Grow(n, tree, first \o last)
      /\ observed' = Arguments(n) /\ converted' = converted /\ result \in Int /\ result # Undef
  BY ValuesAssumption, SizesAssumption DEF Basis, FuncCallExp, MayCall, MayGrow
<1>2. IsMachine(machine)
  BY <1>1 DEF SelTypeOK
<1>3. tree \in Trees /\ tree.type = "int" /\ tree.op = Temp(1) /\ tree.ast = result
      /\ (tree.op[1] = "v" => tree.op[2] <= nodes + 1)
  BY <1>1, NewTree
<1>4. /\ ~IsImm(Temp(1)) /\ (\A k : Temp(1) # Internal(k) /\ Temp(1) # Reg(k))
      /\ \A k \in DOMAIN operands : operands[k].op # Temp(1)
  BY <1>1, Fresh
<1>5. IsCode(first) /\ ChangesOnly(machine, m1, Registers) /\ Val(m1, Reg(0)) = result
  <2>1. DOMAIN p = 1 .. n /\ Len(p) = n /\ \A i \in 1 .. n : p[i] \notin Registers
    BY <1>1, Parameters
  <2>2. first = SelectParams(p) \o <<[op |-> "bl", result |-> result]>>
    BY DEF CallCode
  <2> HIDE DEF p
  <2> DEFINE k == SelectParams(p) \o <<[op |-> "bl", result |-> result]>>
             q == Run(machine, k)
  <2>3. n \in Nat /\ IsMachine(machine)
    BY <1>1, <1>2
  <2>4. IsCode(k) /\ ChangesOnly(machine, q, Registers) /\ Val(q, Reg(0)) = result
    BY ONLY <2>1, <2>3, CallRun
  <2>5. first = k /\ m1 = q
    BY <2>2
  <2> HIDE DEF k, q, first, m1
  <2> QED BY <2>4, <2>5
<1>6. IsCode(last) /\ ChangesOnly(m1, r, {Temp(1)}) /\ Val(r, Temp(1)) = result
  <2> DEFINE d == Temp(1)
             s == Reg(0)
             q == Run(m1, <<Mov(d, s)>>)
  <2>1. IsMachine(m1) /\ ~IsImm(d) /\ r = q
    BY <1>4, <1>5 DEF ChangesOnly
  <2> HIDE DEF d, s, m1
  <2>2. ChangesOnly(m1, q, {d}) /\ Val(q, d) = Val(m1, s)
    BY ONLY <2>1, MovRun
  <2> HIDE DEF q, r
  <2> QED BY <1>5, <2>1, <2>2, CodeShapes DEF d, s
<1>7. Run(machine, first \o last) = r
  <2> HIDE DEF last, first
  <2> QED BY <1>5, <1>6, RunJoined DEF m1
<1> HIDE DEF tree, first, last, m1, r
<1>8. ChangesOnly(machine, r, W)
  BY <1>5, <1>6, ChangesJoined
<1>9. \A i \in DOMAIN operands : operands[i].op \notin W
  <2>1. \A i \in DOMAIN operands : operands[i].op # Temp(1) /\ \A k : operands[i].op # Reg(k)
    BY <1>1, <1>4, OperandValues, TreeFacts
  <2> QED BY <2>1 DEF Registers
<1> HIDE DEF W
<1>10. SelTypeOK' /\ ValuesRight' /\ DefinedNow' /\ Top' = tree
  <2> DEFINE all == first \o last
  <2>1. Grow(n, tree, all) /\ Run(machine, all) = r
    BY <1>1, <1>7
  <2> HIDE DEF all
  <2>2. Val(r, tree.op) \in {tree.ast, Undef} /\ (~converted' => ~converted /\ Val(r, tree.op) # Undef)
    BY <1>1, <1>3, <1>6
  <2> QED BY <1>1, <1>3, <1>8, <1>9, <2>1, <2>2, Growing
<1>11. FlagsRight'
  BY <1>3, <1>10 DEF FlagsRight
<1>12. EffectsRight' /\ UndefinedOnlyAfterConversion'
  BY <1>1, <1>10, ShownByCall
<1> QED BY <1>10, <1>11, <1>12 DEF SelInv

LEMMA OneVoidCall ==
  ASSUME Basis, NEW n \in 0 .. MaxOperands, VoidCallStmt(n)
  PROVE  SelInv'
<1> DEFINE p == [i \in 1 .. n |-> operands[Len(operands) - n + i].op]
           code == CallCode(n, Undef)
           r == Run(machine, code)
<1>1. /\ SelTypeOK /\ ValuesRight /\ DefinedNow /\ n <= Len(operands) /\ n \in Nat
      /\ EndStmt(code) /\ observed' = Arguments(n) /\ converted' = converted /\ store' = store
  BY SizesAssumption DEF Basis, VoidCallStmt, MayCall
<1>2. IsMachine(machine) /\ machine.mem \in [Addresses -> OrUndef] /\ store \in [Vars -> Int]
  BY <1>1 DEF SelTypeOK
<1>3. ChangesOnly(machine, r, Registers)
  <2>1. DOMAIN p = 1 .. n /\ Len(p) = n /\ \A i \in 1 .. n : p[i] \notin Registers
    BY <1>1, Parameters
  <2>2. code = SelectParams(p) \o <<[op |-> "bl", result |-> Undef]>>
    BY DEF CallCode
  <2> HIDE DEF p
  <2> DEFINE k == SelectParams(p) \o <<[op |-> "bl", result |-> Undef]>>
             q == Run(machine, k)
  <2>3. n \in Nat /\ IsMachine(machine)
    BY <1>1, <1>2
  <2>4. ChangesOnly(machine, q, Registers)
    BY ONLY <2>1, <2>3, CallRun
  <2>5. code = k /\ r = q
    BY <2>2
  <2> HIDE DEF k, q, code, r
  <2> QED BY <2>4, <2>5
<1> HIDE DEF code
<1>4. IsMachine(r) /\ r.mem = machine.mem
  BY <1>3 DEF ChangesOnly
<1>5. \A x \in Vars : /\ r.mem[AddressOf(x)] \in {store'[x], Undef}
                      /\ ~converted' => r.mem[AddressOf(x)] # Undef
  BY <1>1, <1>4 DEF ValuesRight, DefinedNow
<1>6. SelTypeOK' /\ ValuesRight' /\ DefinedNow' /\ FlagsRight'
  BY <1>1, <1>2, <1>4, <1>5, Ending
<1>7. EffectsRight' /\ UndefinedOnlyAfterConversion'
  BY <1>1, <1>6, ShownByCall
<1> QED BY <1>6, <1>7 DEF SelInv

\* Storing a value that a tree has, or that nobody wrote.
LEMMA Stored ==
  ASSUME Basis, NEW x \in Vars, NEW s, s # Internal(1), s # Internal(2), NEW v \in Int,
         Val(machine, s) \in {v, Undef}, ~converted' => ~converted /\ Val(machine, s) # Undef,
         NEW code, code = SelectStore(x, s), EndStmt(code), store' = [store EXCEPT ![x] = v], observed' = {}
  PROVE  SelInv'
<1> DEFINE w == Val(machine, s)
           r == Run(machine, code)
<1>1. SelTypeOK /\ ValuesRight /\ DefinedNow
  BY DEF Basis
<1>2. IsMachine(machine) /\ machine.mem \in [Addresses -> OrUndef] /\ store \in [Vars -> Int]
  BY <1>1 DEF SelTypeOK
<1>3. IsMachine(r) /\ r.mem = [machine.mem EXCEPT ![AddressOf(x)] = w]
  BY <1>2, StoreRun
<1>4. w \in OrUndef /\ AddressOf(x) \in Addresses /\ \A y \in Vars : AddressOf(y) \in Addresses
  BY DEF OrUndef, Addresses
<1> HIDE DEF r
<1>5. r.mem \in [Addresses -> OrUndef] /\ store' \in [Vars -> Int]
  <2> HIDE DEF w
  <2> QED BY <1>2, <1>3, <1>4
<1>6. r.mem[AddressOf(x)] = w /\ store'[x] = v
  BY <1>2, <1>3, <1>4
<1>7. ASSUME NEW y \in Vars
      PROVE  /\ r.mem[AddressOf(y)] \in {store'[y], Undef}
             /\ ~converted' => r.mem[AddressOf(y)] # Undef
  <2>1. CASE y = x
    BY <1>6, <2>1
  <2>2. CASE y # x
    <3>1. AddressOf(y) # AddressOf(x)
      BY <2>2, AddressesDiffer
    <3>2. r.mem[AddressOf(y)] = machine.mem[AddressOf(y)] /\ store'[y] = store[y]
      BY <1>2, <1>3, <1>4, <2>2, <3>1
    <3> QED BY <1>1, <3>2 DEF ValuesRight, DefinedNow
  <2> QED BY <2>1, <2>2
<1>8. SelTypeOK' /\ ValuesRight' /\ DefinedNow' /\ FlagsRight'
  <2>1. IsMachine(Run(machine, code)) /\ Run(machine, code).mem \in [Addresses -> OrUndef]
    BY <1>3, <1>5 DEF r
  <2>2. \A y \in Vars : /\ Run(machine, code).mem[AddressOf(y)] \in {store'[y], Undef}
                        /\ ~converted' => Run(machine, code).mem[AddressOf(y)] # Undef
    BY <1>7 DEF r
  <2> QED BY <1>1, <1>5, <2>1, <2>2, Ending
<1>9. EffectsRight' /\ UndefinedOnlyAfterConversion'
  BY <1>8 DEF EffectsRight, UndefinedOnlyAfterConversion, DefinedNow
<1> QED BY <1>8, <1>9 DEF SelInv

LEMMA Single ==
  ASSUME Basis, Len(operands) = 1
  PROVE  /\ 1 \in DOMAIN operands /\ Top = operands[1] /\ operands # <<>> /\ Top \in Trees
         /\ SelTypeOK /\ ValuesRight /\ DefinedNow
<1>1. SelTypeOK /\ ValuesRight /\ DefinedNow /\ operands \in Seq(Trees)
  BY DEF Basis, SelTypeOK
<1>2. 1 \in DOMAIN operands /\ Top = operands[1] /\ operands # <<>>
  BY <1>1, SMTT(20) DEF Top, Last
<1> QED BY <1>1, <1>2

LEMMA OneAssign ==
  ASSUME Basis, NEW x \in Vars, AssignStmt(x)
  PROVE  SelInv'
<1> DEFINE s == AsInt(Top, Temp(2))
           v == Top.ast
           code == SelectStore(x, s)
<1>1. /\ Len(operands) = 1 /\ EndStmt(<<>> \o code) /\ store' = [store EXCEPT ![x] = v]
      /\ converted' = (converted \/ Top.type = "bool") /\ observed' = {}
  BY DEF AssignStmt, HasValue, SelectTypeConver
<1>2. /\ 1 \in DOMAIN operands /\ Top = operands[1] /\ Top \in Trees /\ SelTypeOK /\ ValuesRight /\ DefinedNow
  BY <1>1, Single
<1>3. /\ Val(machine, s) \in {v, Undef} /\ (~converted /\ Top.type = "int" => Val(machine, s) # Undef)
      /\ s # Internal(1) /\ s # Internal(2)
  <2>1. 2 \in {2, 3}
    OBVIOUS
  <2> QED BY <1>2, <2>1, AsIntValues
<1>4. v \in Int /\ Top.type \in {"int", "bool"}
  BY <1>2, TreeFacts
<1> HIDE DEF s, v
<1>5. IsCode(code) /\ EndStmt(code)
  <2>1. IsMachine(machine)
    BY <1>2 DEF SelTypeOK
  <2> DEFINE first == Loaded(s, 1)
             others == IF x \in Globals THEN <<LoadImm(Internal(2), Label(x)), Store(InReg(s, 1), Internal(2))>>
                                      ELSE <<Store(InReg(s, 1), Slot(x))>>
  <2>2. IsCode(code)
    <3>1. code = first \o others
      BY DEF SelectStore
    <3>2. IsCode(first)
      BY <2>1, LoadedRun
    <3>3. IsCode(others)
      BY CodeShapes
    <3> HIDE DEF first, others
    <3> QED BY <3>1, <3>2, <3>3, RunJoined
  <2> HIDE DEF code
  <2>3. Run(machine, <<>> \o code) = Run(machine, code)
    BY <2>2, BehindNothing
  <2> QED BY <1>1, <2>2, <2>3 DEF EndStmt
<1>6. ~converted' => ~converted /\ Val(machine, s) # Undef
  BY <1>1, <1>3, <1>4
<1>7. code = SelectStore(x, s)
  OBVIOUS
<1> HIDE DEF code
<1> QED BY <1>1, <1>3, <1>4, <1>5, <1>6, <1>7, Stored

LEMMA OneDecl ==
  ASSUME Basis, NEW x \in Locals, DeclStmt(x)
  PROVE  SelInv'
<1> DEFINE s == Top.op
           v == Top.ast
           code == SelectStore(x, s)
<1>1. /\ Len(operands) = 1 /\ EndStmt(code) /\ store' = [store EXCEPT ![x] = v]
      /\ converted' = converted /\ observed' = {} /\ x \in Vars
  BY DEF DeclStmt, HasValue, Vars
<1>2. /\ 1 \in DOMAIN operands /\ Top = operands[1] /\ Top \in Trees /\ SelTypeOK /\ ValuesRight /\ DefinedNow
  BY <1>1, Single
<1>3. Val(machine, s) \in {v, Undef} /\ (~converted => Val(machine, s) # Undef)
  BY <1>2, OperandValues
<1>4. v \in Int /\ s # Internal(1) /\ s # Internal(2)
  BY <1>2, TreeFacts
<1>5. ~converted' => ~converted /\ Val(machine, s) # Undef
  BY <1>1, <1>3
<1>6. code = SelectStore(x, s)
  OBVIOUS
<1> HIDE DEF s, v, code
<1> QED BY <1>1, <1>3, <1>4, <1>5, <1>6, Stored

LEMMA OneReturn == ASSUME Basis, ReturnStmt PROVE SelInv'
<1> DEFINE s == Top.op
           code == <<Mov(Reg(0), s)>>
           r == Run(machine, code)
           got == Val(r, Reg(0))
<1>1. /\ Len(operands) = 1 /\ EndStmt(code) /\ store' = store /\ converted' = converted
      /\ observed' = {Seen("result", got, Top.ast)}
  BY DEF ReturnStmt, HasValue, SelectRet
<1>2. /\ 1 \in DOMAIN operands /\ Top = operands[1] /\ SelTypeOK /\ ValuesRight /\ DefinedNow
  BY <1>1, Single
<1>3. IsMachine(machine) /\ machine.mem \in [Addresses -> OrUndef] /\ store \in [Vars -> Int]
  BY <1>2 DEF SelTypeOK
<1>4. Val(machine, s) \in {Top.ast, Undef} /\ (~converted => Val(machine, s) # Undef)
  BY <1>2, OperandValues
<1>5. ChangesOnly(machine, r, {Reg(0)}) /\ got = Val(machine, s)
  <2> DEFINE d == Reg(0)
             q == Run(machine, <<Mov(d, s)>>)
  <2>1. IsMachine(machine) /\ ~IsImm(d) /\ r = q
    BY <1>3, Operands
  <2> HIDE DEF d, s
  <2>2. ChangesOnly(machine, q, {d}) /\ Val(q, d) = Val(machine, s)
    BY ONLY <2>1, MovRun
  <2> HIDE DEF q, r
  <2> QED BY <2>1, <2>2 DEF d
<1> HIDE DEF code, r, s
<1>6. IsMachine(r) /\ r.mem = machine.mem
  BY <1>5 DEF ChangesOnly
<1>7. SelTypeOK' /\ ValuesRight' /\ DefinedNow' /\ FlagsRight'
  <2>1. \A x \in Vars : /\ r.mem[AddressOf(x)] \in {store'[x], Undef}
                        /\ ~converted' => r.mem[AddressOf(x)] # Undef
    BY <1>1, <1>2, <1>6 DEF ValuesRight, DefinedNow
  <2> QED BY <1>1, <1>2, <1>3, <1>6, <2>1, Ending DEF r
<1>8. ASSUME NEW o \in observed' PROVE o.got \in {o.ast, Undef} /\ (~converted' => o.got # Undef)
  <2>1. o.got = got /\ o.ast = Top.ast
    BY <1>1 DEF Seen
  <2> QED BY <1>1, <1>4, <1>5, <2>1
<1>9. EffectsRight' /\ UndefinedOnlyAfterConversion'
  BY <1>7, <1>8 DEF EffectsRight, UndefinedOnlyAfterConversion, DefinedNow
<1> QED BY <1>7, <1>9 DEF SelInv

LEMMA OneCondition == ASSUME Basis, Condition PROVE SelInv'
<1> DEFINE got == Holds(cmpOpcode, machine'.flags)
           what == IF Top.type = "bool" THEN "condition" ELSE "int condition"
           r == Run(machine, <<>>)
<1>1. /\ Len(operands) = 1 /\ EndStmt(<<>>) /\ store' = store /\ converted' = converted
      /\ observed' = {Seen(what, got, Top.ast # 0)}
  BY DEF Condition, SelectToBool, BranchTaken
<1>2. /\ operands # <<>> /\ SelTypeOK /\ ValuesRight /\ DefinedNow
  BY <1>1, Single
<1>3. IsMachine(machine) /\ machine.mem \in [Addresses -> OrUndef] /\ store \in [Vars -> Int]
  BY <1>2 DEF SelTypeOK
<1>4. r = machine
  BY EmptyRun
<1>5. SelTypeOK' /\ ValuesRight' /\ DefinedNow' /\ FlagsRight' /\ machine'.flags = machine.flags
  <2>1. \A x \in Vars : /\ r.mem[AddressOf(x)] \in {store'[x], Undef}
                        /\ ~converted' => r.mem[AddressOf(x)] # Undef
    BY <1>1, <1>2, <1>4 DEF ValuesRight, DefinedNow
  <2>2. IsMachine(r) /\ r.mem \in [Addresses -> OrUndef] /\ store' \in [Vars -> Int]
    BY <1>1, <1>3, <1>4
  <2>3. SelTypeOK' /\ ValuesRight' /\ DefinedNow' /\ FlagsRight' /\ machine'.flags = r.flags
    <3> DEFINE code == <<>>
    <3>1. EndStmt(code) /\ r = Run(machine, code)
      BY <1>1
    <3> HIDE DEF code, r
    <3> QED BY <1>2, <2>1, <2>2, <3>1, Ending
  <2> QED BY <1>4, <2>3
<1> HIDE DEF got, what, r
<1>6. ASSUME NEW o \in observed', o.what \in {"condition", "result", "parameter"}
      PROVE  o.got \in {o.ast, Undef} /\ (~converted' => o.got # Undef)
  <2>1. o.got = got /\ o.ast = (Top.ast # 0) /\ o.what = what
    <3>1. o = Seen(what, got, Top.ast # 0)
      BY <1>1
    <3> QED BY <3>1 DEF Seen
  <2>2. Top.type = "bool"
    BY <1>6, <2>1 DEF what
  <2>3. Deciding(machine.flags, cmpOpcode, Top, converted)
    BY <1>2, <2>2 DEF FlagsRight, Basis
  <2>4. got \in {Top.ast # 0, Undef} /\ (~converted => got # Undef)
    BY <1>5, <2>3 DEF Deciding, got
  <2> QED BY <1>1, <2>1, <2>4
<1>7. EffectsRight' /\ UndefinedOnlyAfterConversion'
  BY <1>5, <1>6 DEF EffectsRight, UndefinedOnlyAfterConversion, DefinedNow
<1> QED BY <1>5, <1>7 DEF SelInv

LEMMA SelStart == SelInit => SelInv
<1> SUFFICES ASSUME SelInit PROVE SelInv
  OBVIOUS
<1>1. /\ operands = <<>> /\ observed = {} /\ nodes = 0 /\ machine.regs = <<>> /\ IsMachine(machine)
      /\ machine.mem \in [Addresses -> Initial] /\ store = [x \in Vars |-> machine.mem[AddressOf(x)]]
  <2>1. PICK mem \in [Addresses -> Initial] :
          /\ machine = [regs |-> <<>>, flags |-> <<Undef, Undef>>, mem |-> mem]
          /\ store = [x \in Vars |-> mem[AddressOf(x)]]
    BY DEF SelInit, Addresses
  <2> QED BY <2>1 DEF SelInit, IsMachine
<1>2. \A x \in Vars : machine.mem[AddressOf(x)] \in Int /\ store[x] = machine.mem[AddressOf(x)] /\ store[x] # Undef
  BY <1>1, ValuesAssumption DEF Addresses
<1>3. machine.mem \in [Addresses -> OrUndef] /\ store \in [Vars -> Int]
  BY <1>1, <1>2, ValuesAssumption DEF OrUndef
<1>4. SelTypeOK
  BY <1>1, <1>3, SizesAssumption DEF SelTypeOK
<1>5. ValuesRight /\ EffectsRight /\ UndefinedOnlyAfterConversion /\ FlagsRight
  BY <1>1, <1>2 DEF ValuesRight, EffectsRight, UndefinedOnlyAfterConversion, FlagsRight
<1> QED BY <1>4, <1>5 DEF SelInv

LEMMA SelStep == SelInv /\ [SelNext]_selVars => SelInv'
<1> SUFFICES ASSUME SelInv, [SelNext]_selVars PROVE SelInv'
  OBVIOUS
<1>1. Basis
  BY BasisHolds
<1>2. ASSUME NEW v \in Consts, Constant(v) PROVE SelInv'
  BY <1>1, <1>2, OneConstant
<1>3. ASSUME NEW x \in Vars, Id(x) PROVE SelInv'
  BY <1>1, <1>3, OneId
<1>4. ASSUME NEW f \in {"add", "sub", "mul", "div", "mod"}, BinaryExpr(f) PROVE SelInv'
  BY <1>1, <1>4, OneBinary DEF Operators
<1>5. ASSUME NEW c \in CmpOps, Comparison(c) PROVE SelInv'
  BY <1>1, <1>5, OneComparison
<1>6. CASE NotExpr
  BY <1>1, <1>6, OneNot
<1>7. ASSUME NEW f \in {"add", "sub"}, SignOfConstant(f) PROVE SelInv'
  BY <1>1, <1>7, OneSignOfConstant
<1>8. ASSUME NEW f \in {"add", "sub"}, SignExpr(f) PROVE SelInv'
  BY <1>1, <1>8, OneSign
<1>9. CASE SignOfId
  BY <1>1, <1>9, OneSignOfId
<1>10. ASSUME NEW n \in 0 .. MaxOperands, NEW result \in Initial, FuncCallExp(n, result) PROVE SelInv'
  BY <1>1, <1>10, OneCall
<1>11. ASSUME NEW n \in 0 .. MaxOperands, VoidCallStmt(n) PROVE SelInv'
  BY <1>1, <1>11, OneVoidCall
<1>12. ASSUME NEW x \in Vars, AssignStmt(x) PROVE SelInv'
  BY <1>1, <1>12, OneAssign
<1>13. ASSUME NEW x \in Locals, DeclStmt(x) PROVE SelInv'
  BY <1>1, <1>13, OneDecl
<1>14. CASE ReturnStmt
  BY <1>1, <1>14, OneReturn
<1>15. CASE Condition
  BY <1>1, <1>15, OneCondition
<1>16. CASE UNCHANGED selVars
  <2>1. /\ operands' = operands /\ machine' = machine /\ cmpOpcode' = cmpOpcode /\ store' = store
        /\ observed' = observed /\ converted' = converted /\ nodes' = nodes
    BY <1>16 DEF selVars
  <2>2. SelTypeOK' = SelTypeOK
    BY <2>1 DEF SelTypeOK, InUse
  <2>3. FlagsRight' = FlagsRight
    BY <2>1 DEF FlagsRight, Top
  <2>4. ValuesRight' = ValuesRight /\ EffectsRight' = EffectsRight
        /\ UndefinedOnlyAfterConversion' = UndefinedOnlyAfterConversion
    BY <2>1 DEF ValuesRight, EffectsRight, UndefinedOnlyAfterConversion
  <2> QED BY <2>2, <2>3, <2>4 DEF SelInv
<1> QED BY <1>2, <1>3, <1>4, <1>5, <1>6, <1>7, <1>8, <1>9, <1>10, <1>11, <1>12, <1>13, <1>14, <1>15, <1>16
        DEF SelNext

\* Every subtree is in its operand and every variable in its memory, with the
\* value that the syntax tree gives it, or undefined, never wrong
\* (BinaryExpr::genCode to AssignStmt::genCode, and the genMachineCode of
\* what they emit).
THEOREM OperandsRight == SelSpec => []ValuesRight
<1>1. SelInv => ValuesRight
  BY DEF SelInv
<1> QED BY <1>1, SelStart, SelStep, PTL DEF SelSpec

\* So is what leaves an expression: branches on a comparison or a negation,
\* results and parameters in registers.
THEOREM EffectsAreRight == SelSpec => []EffectsRight
<1>1. SelInv => EffectsRight
  BY DEF SelInv
<1> QED BY <1>1, SelStart, SelStep, PTL DEF SelSpec

\* Only a bool that is used as an int brings a value that nobody wrote.
THEOREM ConversionsToBlame == SelSpec => []UndefinedOnlyAfterConversion
<1>1. SelInv => UndefinedOnlyAfterConversion
  BY DEF SelInv
<1> QED BY <1>1, SelStart, SelStep, PTL DEF SelSpec

=============================================================================

-------------------------- MODULE UnitPassesProofs --------------------------
(***************************************************************************)
(* The rings of IRObjects and UnitPasses are lists: BlockContents is       *)
(* implemented by every step that generates, links, optimises or destroys  *)
(* a function, whatever its blocks and the program are.                    *)
(*                                                                         *)
(* A ring is described by the sequence that is read from it (IsRing): what *)
(* a constructor and BasicBlock::remove do to the pointers is shown to do  *)
(* to that sequence what is meant (InsertRing, RemoveRing, TakeAll), and   *)
(* that it is what walking the pointers finds (RingIs).  Then every action *)
(* only ever takes out what is linked somewhere (ListsInv says where the   *)
(* passes are and what they hold in hand), or takes out again what cannot  *)
(* disturb its former neighbours.                                          *)
(***************************************************************************)
EXTENDS UnitPasses, Stepwise

Node == -NumBlocks .. MaxInsts + NumBlocks
Made == 1 .. Len(insts)

\* Place k of a ring: its dummy head is in front of the first and behind the last.
At(b, s, k) == IF k \in 1 .. Len(s) THEN s[k] ELSE Dummy(b)

IsRing(nx, pv, b, s) ==
  \A k \in 0 .. Len(s) : nx[At(b, s, k)] = At(b, s, k + 1) /\ pv[At(b, s, k + 1)] = At(b, s, k)

\* No instruction is in two places.
AreRings(nx, pv, lists, m) ==
  /\ lists \in [Block -> Seq(1 .. m)]
  /\ \A b \in Block : IsRing(nx, pv, b, lists[b])
  /\ \A b, c \in Block : \A j \in DOMAIN lists[b], k \in DOMAIN lists[c] :
       lists[b][j] = lists[c][k] => b = c /\ j = k

Members(lists) == UNION {ToSet(lists[b]) : b \in Block}

Now == [b \in Block |-> Ring(b)]

-----------------------------------------------------------------------------
(***************************************************************************)
(* The invariant: what holds of the pointers whatever runs,                *)
(***************************************************************************)
RingsRight == AreRings(next, prev, Now, Len(insts))

IsInst(inst) ==
  inst = [kind |-> inst.kind, operands |-> inst.operands, fields |-> inst.fields,
          parent |-> inst.parent, targets |-> inst.targets]

LinksTyped ==
  /\ insts \in Seq({insts[i] : i \in DOMAIN insts})
  /\ \A i \in DOMAIN insts : IsInst(insts[i])
  /\ Len(insts) \in Nat /\ DOMAIN insts = 1 .. Len(insts) /\ Len(insts) <= MaxInsts + NumBlocks
  /\ prev \in [Node -> Node] /\ next \in [Node -> Node]

(***************************************************************************)
(* and what holds of generating, linking and the passes.                   *)
(***************************************************************************)
Stages == {"making", "linking", "linked", "samebb", "unused", "ending", "over", "crashed"}

StageTyped ==
  /\ stage \in Stages /\ bb \in Block /\ cursor \in Node
  /\ stage = "making" => bb = 1

\* What was generated so far is a part of a program.
Generated ==
  /\ stage = "making" =>
       \E p \in Programs : \E n \in 0 .. Len(p) :
         /\ todo = SubSeq(p, n + 1, Len(p))
         /\ Len(insts) <= n
         /\ insertBB = BlockOf(p, n + 1)
  /\ stage = "linking" => Len(insts) <= MaxInsts + bb - 1

\* removeUnusedAlloca may be at an instruction that is not linked any more: the way
\* from there leads over stores to an instruction of the block or to its end.
WayOn ==
  \E way \in SUBSET {i \in Made : Kind(i) = "store"} :
    LET there == way \cup ToSet(Now[bb]) \cup {Dummy(bb)}
    IN  cursor \in there /\ \A i \in way : next[i] \in there

CursorRight ==
  /\ stage = "linking" => cursor \in ToSet(Now[bb]) \cup {Dummy(bb)}
  /\ stage = "unused" => WayOn

\* A plan is about instructions of the block, of the right kinds.
PlanRight ==
  LET Of(set, kind) == set \subseteq {i \in ToSet(Now[bb]) : Kind(i) = kind}
  IN  /\ stage = "samebb" =>
           /\ Of(plan.stores, "store") /\ Of(plan.loads, "load") /\ plan.replace \subseteq plan.loads
           /\ plan.allocas \in Seq(Made) /\ IsInjective(plan.allocas) /\ Of(ToSet(plan.allocas), "alloca")
      /\ stage = "unused" => \A i \in plan.stores : i \in Made /\ Kind(i) = "store"
      /\ stage \in {"making", "linking", "linked"} => plan = NoPlan

PlanShaped ==
  plan = [allocas |-> plan.allocas, vals |-> plan.vals, replace |-> plan.replace,
          stores |-> plan.stores, loads |-> plan.loads]

ListsInv ==
  /\ LinksTyped /\ RingsRight
  /\ StageTyped /\ Generated /\ CursorRight /\ PlanShaped /\ PlanRight

-----------------------------------------------------------------------------
(***************************************************************************)
(* Rings.                                                                  *)
(***************************************************************************)
LEMMA Dummies ==
  /\ Block \subseteq Nat \ {0} /\ \A b \in Block : Dummy(b) = -b /\ Dummy(b) \in Node /\ Dummy(b) < 0
  /\ MaxInsts \in Nat /\ NumBlocks \in Nat /\ Node \subseteq Int /\ Id \subseteq Node
  /\ \A b, c \in Block : Dummy(b) = Dummy(c) => b = c
BY SizeAssumption DEF Block, Dummy, Node, Id

LEMMA AtPlace ==
  ASSUME NEW m \in Nat, m <= MaxInsts + NumBlocks, NEW s \in Seq(1 .. m), NEW b \in Block
  PROVE  /\ \A k \in 1 .. Len(s) : At(b, s, k) = s[k] /\ s[k] \in 1 .. m
         /\ At(b, s, 0) = Dummy(b) /\ At(b, s, Len(s) + 1) = Dummy(b)
         /\ \A k \in Int : At(b, s, k) \in Node
BY Dummies DEF At, Node

LEMMA AtOnce ==
  ASSUME NEW m \in Nat, m <= MaxInsts + NumBlocks, NEW nx, NEW pv, NEW lists, AreRings(nx, pv, lists, m),
         NEW b \in Block, NEW c \in Block
  PROVE  /\ \A j \in 0 .. Len(lists[b]), k \in 0 .. Len(lists[c]) :
              At(b, lists[b], j) = At(c, lists[c], k) => b = c /\ j = k
         /\ \A j \in 0 .. Len(lists[b]), k \in 0 .. Len(lists[c]) :
              At(b, lists[b], j + 1) = At(c, lists[c], k + 1) => b = c /\ j = k
<1> DEFINE s == lists[b]
           t == lists[c]
<1>1. s \in Seq(1 .. m) /\ t \in Seq(1 .. m)
  BY DEF AreRings
<1>2. \A j \in 1 .. Len(s), k \in 1 .. Len(t) : s[j] = t[k] => b = c /\ j = k
  BY <1>1 DEF AreRings
<1>3. Dummy(b) < 0 /\ Dummy(c) < 0 /\ (Dummy(b) = Dummy(c) => b = c)
  BY Dummies
<1>4. \A k \in 1 .. Len(s) : s[k] \in 1 .. m
  BY <1>1
<1>5. \A k \in 1 .. Len(t) : t[k] \in 1 .. m
  BY <1>1
<1>6. Len(s) \in Nat /\ Len(t) \in Nat
  BY <1>1
<1> HIDE DEF s, t
<1>7. \A j \in 0 .. Len(s), k \in 0 .. Len(t) : At(b, s, j) = At(c, t, k) => b = c /\ j = k
  BY <1>2, <1>3, <1>4, <1>5, <1>6 DEF At
<1>8. \A j \in 0 .. Len(s), k \in 0 .. Len(t) : At(b, s, j + 1) = At(c, t, k + 1) => b = c /\ j = k
  <2> SUFFICES ASSUME NEW j \in 0 .. Len(s), NEW k \in 0 .. Len(t), At(b, s, j + 1) = At(c, t, k + 1)
               PROVE  b = c /\ j = k
    OBVIOUS
  <2>1. j + 1 \in 1 .. Len(s) \/ j = Len(s)
    BY <1>6
  <2>2. k + 1 \in 1 .. Len(t) \/ k = Len(t)
    BY <1>6
  <2>3. CASE j + 1 \in 1 .. Len(s) /\ k + 1 \in 1 .. Len(t)
    BY <1>2, <2>3 DEF At
  <2>4. CASE j + 1 \in 1 .. Len(s) /\ k = Len(t)
    BY <1>3, <1>4, <1>6, <2>4 DEF At
  <2>5. CASE j = Len(s) /\ k + 1 \in 1 .. Len(t)
    BY <1>3, <1>5, <1>6, <2>5 DEF At
  <2>6. CASE j = Len(s) /\ k = Len(t)
    <3>1. At(b, s, j + 1) = Dummy(b) /\ At(c, t, k + 1) = Dummy(c)
      BY <1>6, <2>6 DEF At
    <3>2. b = c
      BY <1>3, <3>1
    <3> QED BY <2>6, <3>2 DEF s, t
  <2> QED BY <2>1, <2>2, <2>3, <2>4, <2>5, <2>6
<1> QED BY <1>7, <1>8 DEF s, t

\* x is put in behind place k.
Inserted(s, k, x) ==
  [j \in 1 .. Len(s) + 1 |-> IF j <= k THEN s[j] ELSE IF j = k + 1 THEN x ELSE s[j - 1]]

LEMMA SeqEqual ==
  ASSUME NEW T, NEW s \in Seq(T), NEW t \in Seq(T), Len(s) = Len(t), \A k \in 1 .. Len(s) : s[k] = t[k]
  PROVE  s = t
OBVIOUS

LEMMA InsertedAtEnds ==
  ASSUME NEW T, NEW s \in Seq(T), NEW x \in T
  PROVE  /\ \A k \in 0 .. Len(s) : Inserted(s, k, x) \in Seq(T) /\ Len(Inserted(s, k, x)) = Len(s) + 1
         /\ Inserted(s, 0, x) = <<x>> \o s
         /\ Inserted(s, Len(s), x) = Append(s, x)
<1>1. ASSUME NEW k \in 0 .. Len(s)
      PROVE  Inserted(s, k, x) \in Seq(T) /\ Len(Inserted(s, k, x)) = Len(s) + 1
  <2>1. \A j \in 1 .. Len(s) + 1 : (IF j <= k THEN s[j] ELSE IF j = k + 1 THEN x ELSE s[j - 1]) \in T
    OBVIOUS
  <2>2. Inserted(s, k, x) \in [1 .. Len(s) + 1 -> T]
    BY <2>1 DEF Inserted
  <2> QED BY <2>2
<1>2. Inserted(s, 0, x) = <<x>> \o s
  <2>1. Len(<<x>> \o s) = Len(s) + 1 /\ <<x>> \o s \in Seq(T)
    OBVIOUS
  <2>2. \A j \in 1 .. Len(s) + 1 : (<<x>> \o s)[j] = IF j = 1 THEN x ELSE s[j - 1]
    OBVIOUS
  <2>3. \A j \in 1 .. Len(s) + 1 : Inserted(s, 0, x)[j] = IF j = 1 THEN x ELSE s[j - 1]
    BY DEF Inserted
  <2>4. Inserted(s, 0, x) \in Seq(T) /\ Len(Inserted(s, 0, x)) = Len(s) + 1
    BY <1>1
  <2> QED BY <2>1, <2>2, <2>3, <2>4, SeqEqual
<1>3. Inserted(s, Len(s), x) = Append(s, x)
  <2>1. Len(Append(s, x)) = Len(s) + 1 /\ Append(s, x) \in Seq(T)
    OBVIOUS
  <2>2. \A j \in 1 .. Len(s) + 1 : Append(s, x)[j] = IF j <= Len(s) THEN s[j] ELSE x
    OBVIOUS
  <2>3. \A j \in 1 .. Len(s) + 1 : Inserted(s, Len(s), x)[j] = IF j <= Len(s) THEN s[j] ELSE x
    BY DEF Inserted
  <2>4. Inserted(s, Len(s), x) \in Seq(T) /\ Len(Inserted(s, Len(s), x)) = Len(s) + 1
    BY <1>1
  <2> QED BY <2>1, <2>2, <2>3, <2>4, SeqEqual
<1> QED BY <1>1, <1>2, <1>3

LEMMA InsertRing ==
  ASSUME NEW m \in Nat, m + 1 <= MaxInsts + NumBlocks, NEW nx \in [Node -> Node], NEW pv \in [Node -> Node],
         NEW lists, AreRings(nx, pv, lists, m), NEW b \in Block, NEW k \in 0 .. Len(lists[b]),
         NEW src, src = At(b, lists[b], k + 1)
  PROVE  LET nx2 == [nx EXCEPT ![pv[src]] = m + 1, ![m + 1] = src]
             pv2 == [pv EXCEPT ![m + 1] = pv[src], ![src] = m + 1]
         IN  /\ nx2 \in [Node -> Node] /\ pv2 \in [Node -> Node]
             /\ AreRings(nx2, pv2, [lists EXCEPT ![b] = Inserted(@, k, m + 1)], m + 1)
<1> DEFINE s == lists[b]
           dst == m + 1
           p == At(b, s, k)
           nx2 == [nx EXCEPT ![p] = dst, ![dst] = src]
           pv2 == [pv EXCEPT ![dst] = p, ![src] = dst]
           t == Inserted(s, k, dst)
           new == [lists EXCEPT ![b] = t]
<1>0. m <= MaxInsts + NumBlocks
  BY Dummies
<1>1. /\ lists \in [Block -> Seq(1 .. m)] /\ s \in Seq(1 .. m) /\ Len(s) \in Nat
      /\ \A c \in Block : lists[c] \in Seq(1 .. m) /\ Len(lists[c]) \in Nat
  BY DEF AreRings
<1>2. /\ dst \in Node /\ dst \in Nat /\ p \in Node /\ src \in Node
      /\ \A c \in Block, j \in Int : At(c, lists[c], j) \in Node /\ At(c, lists[c], j) <= m
  <2>1. \A c \in Block, j \in Int : At(c, lists[c], j) \in Node
    BY <1>0, <1>1, AtPlace
  <2>2. dst \in Node /\ dst \in Nat
    BY Dummies DEF Node
  <2>3. \A c \in Block, j \in Int : At(c, lists[c], j) <= m
    <3> SUFFICES ASSUME NEW c \in Block, NEW j \in Int PROVE At(c, lists[c], j) <= m
      OBVIOUS
    <3>1. CASE j \in 1 .. Len(lists[c])
      BY <1>1, <3>1 DEF At
    <3>2. CASE j \notin 1 .. Len(lists[c])
      BY Dummies, <3>2 DEF At
    <3> QED BY <3>1, <3>2
  <2>4. k \in Int /\ k + 1 \in Int
    BY <1>1
  <2> QED BY <2>1, <2>2, <2>3, <2>4
<1>3. pv[src] = p
  BY DEF AreRings, IsRing
<1>4. nx2 \in [Node -> Node] /\ pv2 \in [Node -> Node]
  BY <1>2
<1>5. t \in Seq(1 .. m + 1) /\ Len(t) = Len(s) + 1
  <2>1. s \in Seq(1 .. m + 1) /\ m + 1 \in 1 .. m + 1
    BY <1>1
  <2>2. \A i \in 0 .. Len(s) : Inserted(s, i, m + 1) \in Seq(1 .. m + 1) /\ Len(Inserted(s, i, m + 1)) = Len(s) + 1
    <3> HIDE DEF s
    <3> QED BY <2>1, InsertedAtEnds
  <2> QED BY <2>2
<1>6. new \in [Block -> Seq(1 .. m + 1)]
  <2>1. \A c \in Block : lists[c] \in Seq(1 .. m + 1)
    BY <1>1
  <2> QED BY <1>1, <1>5, <2>1
<1>7. ASSUME NEW c \in Block, c # b PROVE IsRing(nx2, pv2, c, lists[c])
  <2> SUFFICES ASSUME NEW j \in 0 .. Len(lists[c])
               PROVE  /\ nx2[At(c, lists[c], j)] = At(c, lists[c], j + 1)
                      /\ pv2[At(c, lists[c], j + 1)] = At(c, lists[c], j)
    BY DEF IsRing
  <2>1. nx[At(c, lists[c], j)] = At(c, lists[c], j + 1) /\ pv[At(c, lists[c], j + 1)] = At(c, lists[c], j)
    BY DEF AreRings, IsRing
  <2>2. At(c, lists[c], j) # p /\ At(c, lists[c], j + 1) # src
    BY <1>0, <1>7, AtOnce
  <2>3. j \in Int /\ j + 1 \in Int
    OBVIOUS
  <2>4. At(c, lists[c], j) # dst /\ At(c, lists[c], j + 1) # dst /\ At(c, lists[c], j) \in Node /\ At(c, lists[c], j + 1) \in Node
    BY <1>2, <2>3
  <2> HIDE DEF s, p, dst
  <2> QED BY <1>2, <2>1, <2>2, <2>4
<1>8. \A j \in 0 .. Len(t) + 1 :
        At(b, t, j) = IF j <= k THEN At(b, s, j) ELSE IF j = k + 1 THEN dst ELSE At(b, s, j - 1)
  BY <1>1, <1>5 DEF At, Inserted
<1>9. ASSUME NEW j \in 0 .. Len(t)
      PROVE  nx2[At(b, t, j)] = At(b, t, j + 1) /\ pv2[At(b, t, j + 1)] = At(b, t, j)
  <2>1. \A i \in 0 .. Len(s) : nx[At(b, s, i)] = At(b, s, i + 1) /\ pv[At(b, s, i + 1)] = At(b, s, i)
    BY DEF AreRings, IsRing
  <2>2. \A i \in 0 .. Len(s) : i # k => At(b, s, i) # p /\ At(b, s, i + 1) # src
    BY <1>0, AtOnce
  <2>3. \A i \in Int : At(b, s, i) # dst /\ At(b, s, i) \in Node
    BY <1>2
  <2>4. j \in 0 .. Len(t) + 1 /\ j + 1 \in 0 .. Len(t) + 1 /\ (j + 1) - 1 = j
    BY <1>1, <1>5
  <2>5. CASE j < k
    <3>1. At(b, t, j) = At(b, s, j) /\ At(b, t, j + 1) = At(b, s, j + 1)
      BY <1>8, <2>4, <2>5
    <3>2. j \in 0 .. Len(s) /\ j # k /\ j \in Int /\ j + 1 \in Int
      BY <1>1, <2>5
    <3> HIDE DEF s, p, dst, t
    <3> QED BY <1>2, <2>1, <2>2, <2>3, <3>1, <3>2
  <2>6. CASE j = k
    <3>1. At(b, t, j) = p /\ At(b, t, j + 1) = dst
      BY <1>8, <2>4, <2>6
    <3>2. p # dst /\ src # dst
      BY <1>2, <2>3
    <3> HIDE DEF s, p, dst, t
    <3> QED BY <1>2, <3>1, <3>2
  <2>7. CASE j = k + 1
    <3>1. At(b, t, j) = dst /\ At(b, t, j + 1) = src
      BY <1>8, <2>4, <2>7
    <3>2. src # dst
      BY <1>2, <2>3
    <3> HIDE DEF s, p, dst, t
    <3> QED BY <1>2, <3>1, <3>2
  <2>8. CASE j > k + 1
    <3>1. At(b, t, j) = At(b, s, j - 1) /\ At(b, t, j + 1) = At(b, s, j)
      <4>1. ~(j <= k) /\ j # k + 1 /\ ~(j + 1 <= k) /\ j + 1 # k + 1 /\ (j + 1) - 1 = j
        BY <1>1, <1>5, <2>8
      <4> QED BY <1>8, <2>4, <4>1
    <3>2. j - 1 \in 0 .. Len(s) /\ j - 1 # k /\ j - 1 \in Int /\ (j - 1) + 1 = j /\ j \in Int
      BY <1>1, <1>5, <2>8
    <3>3. nx[At(b, s, j - 1)] = At(b, s, j) /\ pv[At(b, s, j)] = At(b, s, j - 1)
      BY <2>1, <3>2
    <3>4. At(b, s, j - 1) # p /\ At(b, s, j) # src
      BY <2>2, <3>2
    <3> HIDE DEF s, p, dst, t
    <3> QED BY <1>2, <2>3, <3>1, <3>2, <3>3, <3>4
  <2> QED BY <1>1, <2>5, <2>6, <2>7, <2>8
<1>10. \A c \in Block : IsRing(nx2, pv2, c, new[c])
  <2> SUFFICES ASSUME NEW c \in Block PROVE IsRing(nx2, pv2, c, new[c])
    OBVIOUS
  <2>1. CASE c = b
    <3>1. new[c] = t
      BY <1>1, <2>1
    <3> HIDE DEF t, nx2, pv2, new
    <3> QED BY <1>9, <2>1, <3>1 DEF IsRing
  <2>2. CASE c # b
    <3>1. new[c] = lists[c]
      BY <1>1, <2>2
    <3> HIDE DEF t, nx2, pv2, new
    <3> QED BY <1>7, <2>2, <3>1
  <2> QED BY <2>1, <2>2
<1>11. \A c, d \in Block : \A i \in DOMAIN new[c], j \in DOMAIN new[d] : new[c][i] = new[d][j] => c = d /\ i = j
  <2>1. \A c, d \in Block : \A i \in 1 .. Len(lists[c]), j \in 1 .. Len(lists[d]) :
          lists[c][i] = lists[d][j] => c = d /\ i = j
    <3>1. \A c \in Block : DOMAIN lists[c] = 1 .. Len(lists[c])
      BY <1>1
    <3>2. \A c, d \in Block : \A i \in DOMAIN lists[c], j \in DOMAIN lists[d] : lists[c][i] = lists[d][j] => c = d /\ i = j
      BY Zenon DEF AreRings
    <3> HIDE DEF s, new
    <3> QED BY <3>1, <3>2
  <2>2. \A c \in Block : \A i \in 1 .. Len(lists[c]) : lists[c][i] <= m /\ lists[c][i] \in Int
    BY <1>1
  <2> DEFINE old(i) == IF i <= k THEN i ELSE i - 1
  <2>3. \A i \in 1 .. Len(t) : /\ i # k + 1 => t[i] = s[old(i)] /\ old(i) \in 1 .. Len(s)
                               /\ i = k + 1 => t[i] = dst
    BY <1>1, <1>5 DEF Inserted
  <2>4. \A i, j \in 1 .. Len(t) : i # k + 1 /\ j # k + 1 /\ old(i) = old(j) => i = j
    <3>1. Len(t) \in Nat /\ k \in Nat
      BY <1>1, <1>5
    <3> HIDE DEF t
    <3> QED BY <3>1
  <2>5. DOMAIN new[b] = 1 .. Len(t) /\ new[b] = t
    BY <1>1, <1>5
  <2>6. \A c \in Block : c # b => new[c] = lists[c] /\ DOMAIN new[c] = 1 .. Len(lists[c])
    BY <1>1
  <2>7. dst > m
    BY <1>2
  <2>12. /\ \A i \in 1 .. Len(t) : i # k + 1 => t[i] # t[k + 1]
         /\ k + 1 \in 1 .. Len(t)
    <3>1. k + 1 \in 1 .. Len(t) /\ t[k + 1] = dst
      BY <1>1, <1>5, <2>3
    <3>2. \A i \in 1 .. Len(t) : i # k + 1 => t[i] <= m /\ t[i] \in Int
      BY <2>2, <2>3
    <3> HIDE DEF t
    <3> QED BY <1>2, <2>7, <3>1, <3>2
  <2> HIDE DEF new, t, old, dst
  <2> SUFFICES ASSUME NEW c \in Block, NEW d \in Block, NEW i \in DOMAIN new[c], NEW j \in DOMAIN new[d],
                      new[c][i] = new[d][j]
               PROVE  c = d /\ i = j
    OBVIOUS
  <2>8. CASE c = b /\ d = b
    <3>1. i \in 1 .. Len(t) /\ j \in 1 .. Len(t) /\ t[i] = t[j]
      BY <2>5, <2>8
    <3>2. CASE i = k + 1 \/ j = k + 1
      BY <2>8, <2>12, <3>1, <3>2
    <3>3. CASE i # k + 1 /\ j # k + 1
      <4>1. s[old(i)] = s[old(j)] /\ old(i) \in 1 .. Len(s) /\ old(j) \in 1 .. Len(s)
        BY <2>3, <3>1, <3>3
      <4>2. old(i) = old(j)
        BY <2>1, <4>1
      <4> QED BY <2>4, <2>8, <3>1, <3>3, <4>2
    <3> QED BY <3>2, <3>3
  <2>9. CASE c = b /\ d # b
    <3>1. i \in 1 .. Len(t) /\ j \in 1 .. Len(lists[d]) /\ t[i] = lists[d][j]
      BY <2>5, <2>6, <2>9
    <3>2. CASE i = k + 1
      BY <1>2, <2>2, <2>3, <2>7, <3>1, <3>2
    <3>3. CASE i # k + 1
      <4>1. t[i] = s[old(i)] /\ old(i) \in 1 .. Len(s)
        BY <2>3, <3>1, <3>3
      <4>2. lists[b][old(i)] = lists[d][j] /\ old(i) \in 1 .. Len(lists[b]) /\ j \in 1 .. Len(lists[d])
        BY <3>1, <4>1
      <4>3. b = d
        BY <2>1, <4>2
      <4> QED BY <2>9, <4>3
    <3> QED BY <3>2, <3>3
  <2>10. CASE c # b /\ d = b
    <3>1. j \in 1 .. Len(t) /\ i \in 1 .. Len(lists[c]) /\ t[j] = lists[c][i]
      BY <2>5, <2>6, <2>10
    <3>2. CASE j = k + 1
      BY <1>2, <2>2, <2>3, <2>7, <3>1, <3>2
    <3>3. CASE j # k + 1
      <4>1. t[j] = s[old(j)] /\ old(j) \in 1 .. Len(s)
        BY <2>3, <3>1, <3>3
      <4>2. lists[b][old(j)] = lists[c][i] /\ old(j) \in 1 .. Len(lists[b]) /\ i \in 1 .. Len(lists[c])
        BY <3>1, <4>1
      <4>3. b = c
        BY <2>1, <4>2
      <4> QED BY <2>10, <4>3
    <3> QED BY <3>2, <3>3
  <2>11. CASE c # b /\ d # b
    <3>1. i \in 1 .. Len(lists[c]) /\ j \in 1 .. Len(lists[d]) /\ lists[c][i] = lists[d][j]
      BY <2>6, <2>11
    <3> QED BY <2>1, <3>1
  <2> QED BY <2>8, <2>9, <2>10, <2>11
<1>12. AreRings(nx2, pv2, new, m + 1)
  <2> HIDE DEF nx2, pv2, new
  <2> QED BY <1>6, <1>10, <1>11 DEF AreRings
<1> QED BY <1>3, <1>4, <1>12

\* What is at place k is taken out.
Removed(s, k) == [j \in 1 .. Len(s) - 1 |-> IF j < k THEN s[j] ELSE s[j + 1]]

Links == [next : [Node -> Node], prev : [Node -> Node]]

LEMMA RemoveRing ==
  ASSUME NEW m \in Nat, m <= MaxInsts + NumBlocks, NEW links \in Links,
         NEW lists, AreRings(links.next, links.prev, lists, m), NEW b \in Block, NEW k \in 1 .. Len(lists[b]),
         NEW i, i = lists[b][k]
  PROVE  LET after == Unlinked(links, i)
             new == [lists EXCEPT ![b] = Removed(@, k)]
         IN  /\ after \in Links /\ AreRings(after.next, after.prev, new, m)
             /\ Unlinked(after, i) = after
             /\ \A x \in Node : x # At(b, lists[b], k - 1) => after.next[x] = links.next[x]
             /\ links.next[i] = At(b, lists[b], k + 1)
<1> DEFINE s == lists[b]
           nx == links.next
           pv == links.prev
           p == At(b, s, k - 1)
           q == At(b, s, k + 1)
           nx2 == [nx EXCEPT ![p] = q]
           pv2 == [pv EXCEPT ![q] = p]
           t == Removed(s, k)
           new == [lists EXCEPT ![b] = t]
<1>1. /\ lists \in [Block -> Seq(1 .. m)] /\ s \in Seq(1 .. m) /\ Len(s) \in Nat
      /\ \A c \in Block : lists[c] \in Seq(1 .. m) /\ Len(lists[c]) \in Nat
      /\ \A j \in 1 .. Len(s) : s[j] \in 1 .. m
  BY DEF AreRings
<1>2. \A j \in Int : At(b, s, j) \in Node
  BY <1>1, AtPlace
<1>3. i \in 1 .. m /\ i \in Node /\ At(b, s, k) = i /\ k \in Int /\ (k - 1) + 1 = k
  BY <1>1, Dummies DEF At, Node
<1>4. /\ \A j \in 0 .. Len(s) : nx[At(b, s, j)] = At(b, s, j + 1) /\ pv[At(b, s, j + 1)] = At(b, s, j)
      /\ nx \in [Node -> Node] /\ pv \in [Node -> Node]
  BY DEF AreRings, IsRing, Links
<1>5. nx[i] = q /\ pv[i] = p
  <2>1. k \in 0 .. Len(s) /\ k - 1 \in 0 .. Len(s)
    BY <1>1
  <2>2. nx[At(b, s, k)] = At(b, s, k + 1) /\ pv[At(b, s, (k - 1) + 1)] = At(b, s, k - 1)
    BY <1>4, <2>1
  <2> QED BY <1>3, <2>2
<1>6. p \in Node /\ q \in Node /\ p # i /\ q # i
  <2>1. k \in 0 .. Len(s) /\ k - 1 \in 0 .. Len(s) /\ k - 1 # k
    BY <1>1
  <2>2. p # i
    BY <1>3, <2>1, AtOnce
  <2>3. At(b, s, k + 1) # At(b, s, (k - 1) + 1)
    <3>1. \A x, y \in 0 .. Len(s) : At(b, s, x + 1) = At(b, s, y + 1) => x = y
      BY AtOnce
    <3> HIDE DEF s
    <3> QED BY <2>1, <3>1
  <2>4. k - 1 \in Int /\ k + 1 \in Int
    OBVIOUS
  <2>5. p \in Node /\ q \in Node
    BY <1>2, <2>4
  <2> QED BY <1>3, <2>2, <2>3, <2>5
<1>7. Unlinked(links, i) = [next |-> nx2, prev |-> pv2]
  BY <1>5 DEF Unlinked
<1>8. nx2 \in [Node -> Node] /\ pv2 \in [Node -> Node]
  BY <1>4, <1>6
<1>9. Unlinked([next |-> nx2, prev |-> pv2], i) = [next |-> nx2, prev |-> pv2]
  <2>1. nx2[i] = q /\ pv2[i] = p
    BY <1>3, <1>4, <1>5, <1>6
  <2>2. [nx2 EXCEPT ![p] = q] = nx2 /\ [pv2 EXCEPT ![q] = p] = pv2
    BY <1>4, <1>6
  <2> HIDE DEF nx2, pv2
  <2> QED BY <2>1, <2>2 DEF Unlinked
<1>10. t \in Seq(1 .. m) /\ Len(t) = Len(s) - 1
  <2>1. \A j \in 1 .. Len(s) - 1 : (IF j < k THEN s[j] ELSE s[j + 1]) \in 1 .. m
    BY <1>1
  <2>2. t \in [1 .. Len(s) - 1 -> 1 .. m]
    <3> HIDE DEF s
    <3> QED BY <2>1 DEF Removed
  <2>3. Len(s) - 1 \in Nat
    BY <1>1
  <2> HIDE DEF t, s
  <2> QED BY <2>2, <2>3
<1>11. new \in [Block -> Seq(1 .. m)]
  BY <1>1, <1>10
<1>12. ASSUME NEW c \in Block, c # b PROVE IsRing(nx2, pv2, c, lists[c])
  <2> SUFFICES ASSUME NEW j \in 0 .. Len(lists[c])
               PROVE  /\ nx2[At(c, lists[c], j)] = At(c, lists[c], j + 1)
                      /\ pv2[At(c, lists[c], j + 1)] = At(c, lists[c], j)
    BY DEF IsRing
  <2>1. nx[At(c, lists[c], j)] = At(c, lists[c], j + 1) /\ pv[At(c, lists[c], j + 1)] = At(c, lists[c], j)
    BY DEF AreRings, IsRing
  <2>2. k - 1 \in 0 .. Len(s) /\ k \in 0 .. Len(s)
    BY <1>1
  <2>3. At(c, lists[c], j) # p /\ At(c, lists[c], j + 1) # q
    BY <1>12, <2>2, AtOnce
  <2>4. j \in Int /\ j + 1 \in Int
    OBVIOUS
  <2>5. At(c, lists[c], j) \in Node /\ At(c, lists[c], j + 1) \in Node
    BY <1>1, <2>4, AtPlace
  <2> HIDE DEF s, p, q, nx, pv
  <2> QED BY <1>4, <2>1, <2>3, <2>5
<1>13. \A j \in 0 .. Len(t) + 1 : At(b, t, j) = IF j < k THEN At(b, s, j) ELSE At(b, s, j + 1)
  BY <1>1, <1>10 DEF At, Removed
<1>14. ASSUME NEW j \in 0 .. Len(t)
       PROVE  nx2[At(b, t, j)] = At(b, t, j + 1) /\ pv2[At(b, t, j + 1)] = At(b, t, j)
  <2>1. \A l \in 0 .. Len(s) : /\ l # k - 1 => At(b, s, l) # p
                               /\ l # k => At(b, s, l + 1) # q
    <3>1. k - 1 \in 0 .. Len(s) /\ k \in 0 .. Len(s)
      BY <1>1
    <3> QED BY <3>1, AtOnce
  <2>2. j \in 0 .. Len(t) + 1 /\ j + 1 \in 0 .. Len(t) + 1 /\ j \in Int
    BY <1>1, <1>10
  <2>3. CASE j + 1 < k
    <3>1. At(b, t, j) = At(b, s, j) /\ At(b, t, j + 1) = At(b, s, j + 1)
      BY <1>13, <2>2, <2>3
    <3>2. j \in 0 .. Len(s) /\ j # k - 1 /\ j # k /\ j + 1 \in Int
      BY <1>1, <2>2, <2>3
    <3> HIDE DEF s, p, q, t, nx, pv
    <3> QED BY <1>2, <1>4, <2>1, <2>2, <3>1, <3>2
  <2>4. CASE j + 1 = k
    <3>1. At(b, t, j) = p /\ At(b, t, j + 1) = q
      <4>1. j = k - 1 /\ j < k /\ ~(j + 1 < k) /\ (j + 1) + 1 = k + 1
        BY <2>2, <2>4
      <4> QED BY <1>13, <2>2, <4>1
    <3> HIDE DEF s, p, q, t, nx, pv
    <3> QED BY <1>4, <1>6, <3>1
  <2>5. CASE j + 1 > k
    <3>1. At(b, t, j) = At(b, s, j + 1) /\ At(b, t, j + 1) = At(b, s, (j + 1) + 1)
      BY <1>13, <2>2, <2>5
    <3>2. j + 1 \in 0 .. Len(s) /\ j + 1 # k - 1 /\ j + 1 # k /\ j + 1 \in Int /\ (j + 1) + 1 \in Int
      BY <1>1, <1>10, <2>2, <2>5
    <3> HIDE DEF s, p, q, t, nx, pv
    <3> QED BY <1>2, <1>4, <2>1, <3>1, <3>2
  <2> QED BY <2>2, <2>3, <2>4, <2>5
<1>15. \A c \in Block : IsRing(nx2, pv2, c, new[c])
  <2> SUFFICES ASSUME NEW c \in Block PROVE IsRing(nx2, pv2, c, new[c])
    OBVIOUS
  <2>1. CASE c = b
    <3>1. new[c] = t
      BY <1>1, <2>1
    <3> HIDE DEF t, nx2, pv2, new
    <3> QED BY <1>14, <2>1, <3>1 DEF IsRing
  <2>2. CASE c # b
    <3>1. new[c] = lists[c]
      BY <1>1, <2>2
    <3> HIDE DEF t, nx2, pv2, new
    <3> QED BY <1>12, <2>2, <3>1
  <2> QED BY <2>1, <2>2
<1>16. \A c, d \in Block : \A x \in DOMAIN new[c], y \in DOMAIN new[d] : new[c][x] = new[d][y] => c = d /\ x = y
  <2> DEFINE old(c, x) == IF c # b \/ x < k THEN x ELSE x + 1
  <2>1. \A c, d \in Block : \A x \in 1 .. Len(lists[c]), y \in 1 .. Len(lists[d]) :
          lists[c][x] = lists[d][y] => c = d /\ x = y
    <3>1. \A c \in Block : DOMAIN lists[c] = 1 .. Len(lists[c])
      BY <1>1
    <3>2. \A c, d \in Block : \A x \in DOMAIN lists[c], y \in DOMAIN lists[d] : lists[c][x] = lists[d][y] => c = d /\ x = y
      BY Zenon DEF AreRings
    <3> HIDE DEF s, new
    <3> QED BY <3>1, <3>2
  <2>2. ASSUME NEW c \in Block, NEW x \in DOMAIN new[c]
        PROVE  old(c, x) \in 1 .. Len(lists[c]) /\ new[c][x] = lists[c][old(c, x)] /\ x \in Int
    <3>1. CASE c = b
      <4>1. new[c] = t /\ x \in 1 .. Len(s) - 1
        <5>1. new[c] = t
          BY <1>1, <3>1
        <5>2. DOMAIN t = 1 .. Len(s) - 1
          BY DEF Removed
        <5> HIDE DEF t, new
        <5> QED BY <5>1, <5>2
      <4>2. t[x] = IF x < k THEN s[x] ELSE s[x + 1]
        BY <4>1 DEF Removed
      <4>3. k \in 1 .. Len(s) /\ Len(s) \in Nat /\ lists[c] = s
        BY <1>1, <3>1
      <4> HIDE DEF t, new, s
      <4>4. x \in Int /\ old(c, x) \in 1 .. Len(s) /\ t[x] = s[old(c, x)]
        BY <3>1, <4>1, <4>2, <4>3
      <4> HIDE DEF old
      <4> QED BY <4>1, <4>3, <4>4
    <3>2. CASE c # b
      BY <1>1, <3>2
    <3> QED BY <3>1, <3>2
  <2>3. \A c \in Block, x, y \in Int : old(c, x) = old(c, y) => x = y
    OBVIOUS
  <2> HIDE DEF new, old
  <2> SUFFICES ASSUME NEW c \in Block, NEW d \in Block, NEW x \in DOMAIN new[c], NEW y \in DOMAIN new[d],
                      new[c][x] = new[d][y]
               PROVE  c = d /\ x = y
    OBVIOUS
  <2>4. lists[c][old(c, x)] = lists[d][old(d, y)]
    BY <2>2
  <2>5. c = d /\ old(c, x) = old(d, y)
    BY <2>1, <2>2, <2>4
  <2> QED BY <2>2, <2>3, <2>5
<1>17. AreRings(nx2, pv2, new, m)
  <2> HIDE DEF nx2, pv2, new
  <2> QED BY <1>11, <1>15, <1>16 DEF AreRings
<1>18. \A x \in Node : x # p => nx2[x] = nx[x]
  BY <1>4
<1>19. [next |-> nx2, prev |-> pv2] \in Links
  BY <1>8 DEF Links
<1> HIDE DEF nx2, pv2
<1> QED BY <1>5, <1>7, <1>9, <1>17, <1>18, <1>19

\* Whatever is left is in the order it had.
Sublists(new, old) ==
  \A b \in Block : \A j, k \in DOMAIN new[b] :
    j < k => \E x, y \in DOMAIN old[b] : x < y /\ old[b][x] = new[b][j] /\ old[b][y] = new[b][k]

LEMMA SublistsTransitive ==
  ASSUME NEW one, NEW two, NEW three, Sublists(one, two), Sublists(two, three)
  PROVE  Sublists(one, three)
<1> SUFFICES ASSUME NEW b \in Block, NEW j \in DOMAIN one[b], NEW k \in DOMAIN one[b], j < k
             PROVE  \E x, y \in DOMAIN three[b] : x < y /\ three[b][x] = one[b][j] /\ three[b][y] = one[b][k]
  BY DEF Sublists
<1>1. PICK u, v \in DOMAIN two[b] : u < v /\ two[b][u] = one[b][j] /\ two[b][v] = one[b][k]
  BY DEF Sublists
<1>2. PICK x, y \in DOMAIN three[b] : x < y /\ three[b][x] = two[b][u] /\ three[b][y] = two[b][v]
  BY <1>1 DEF Sublists
<1> QED BY <1>1, <1>2

LEMMA RemovedParts ==
  ASSUME NEW m \in Nat, NEW s \in Seq(1 .. m), NEW k \in 1 .. Len(s),
         \A x, y \in 1 .. Len(s) : s[x] = s[y] => x = y
  PROVE  /\ ToSet(Removed(s, k)) = ToSet(s) \ {s[k]}
         /\ \A i, j \in DOMAIN Removed(s, k) :
              i < j => \E x, y \in DOMAIN s : x < y /\ s[x] = Removed(s, k)[i] /\ s[y] = Removed(s, k)[j]
<1> DEFINE t == Removed(s, k)
           old(x) == IF x < k THEN x ELSE x + 1
<1>1. Len(s) \in Nat /\ DOMAIN s = 1 .. Len(s)
  OBVIOUS
<1>2. DOMAIN t = 1 .. Len(s) - 1 /\ \A x \in 1 .. Len(s) - 1 : t[x] = s[old(x)] /\ old(x) \in 1 .. Len(s) /\ old(x) # k
  BY <1>1 DEF Removed
<1>3. \A x \in 1 .. Len(s) : x # k => \E y \in 1 .. Len(s) - 1 : old(y) = x
  <2> SUFFICES ASSUME NEW x \in 1 .. Len(s), x # k PROVE \E y \in 1 .. Len(s) - 1 : old(y) = x
    OBVIOUS
  <2>1. CASE x < k
    <3>1. x \in 1 .. Len(s) - 1 /\ old(x) = x
      BY <1>1, <2>1
    <3> QED BY <3>1
  <2>2. CASE ~(x < k)
    <3>1. x - 1 \in 1 .. Len(s) - 1 /\ old(x - 1) = x
      BY <1>1, <2>2
    <3> QED BY <3>1
  <2> QED BY <2>1, <2>2
<1>4. ToSet(t) = ToSet(s) \ {s[k]}
  <2>1. ToSet(t) = {t[x] : x \in 1 .. Len(s) - 1} /\ ToSet(s) = {s[x] : x \in 1 .. Len(s)}
    BY <1>1, <1>2 DEF ToSet
  <2> HIDE DEF t, old
  <2>2. ASSUME NEW e \in ToSet(t) PROVE e \in ToSet(s) \ {s[k]}
    <3>1. PICK x \in 1 .. Len(s) - 1 : e = t[x]
      BY <2>1
    <3>2. e = s[old(x)] /\ old(x) \in 1 .. Len(s) /\ old(x) # k
      BY <1>2, <3>1
    <3> QED BY <2>1, <3>2
  <2>3. ASSUME NEW e \in ToSet(s) \ {s[k]} PROVE e \in ToSet(t)
    <3>1. PICK x \in 1 .. Len(s) : e = s[x]
      BY <2>1
    <3>2. PICK y \in 1 .. Len(s) - 1 : old(y) = x
      BY <1>3, <3>1
    <3>3. e = t[y]
      BY <1>2, <3>1, <3>2
    <3> QED BY <2>1, <3>3
  <2> QED BY <2>2, <2>3
<1>5. \A x, y \in 1 .. Len(s) - 1 : x < y => old(x) < old(y)
  BY <1>1
<1>6. ASSUME NEW i \in DOMAIN t, NEW j \in DOMAIN t, i < j
      PROVE  \E x, y \in DOMAIN s : x < y /\ s[x] = t[i] /\ s[y] = t[j]
  <2> HIDE DEF t, old
  <2>1. old(i) < old(j) /\ s[old(i)] = t[i] /\ s[old(j)] = t[j] /\ old(i) \in DOMAIN s /\ old(j) \in DOMAIN s
    BY <1>1, <1>2, <1>5, <1>6
  <2> QED BY <2>1
<1> QED BY <1>4, <1>6

(***************************************************************************)
(* "gone" was taken out of the lists, i first; what was taken out of the   *)
(* ring of block "home" still leads on in it.                              *)
(***************************************************************************)
Taken(after, new, lists, m, gone, home, i) ==
  /\ after \in Links /\ AreRings(after.next, after.prev, new, m)
  /\ \A b \in Block : ToSet(new[b]) = ToSet(lists[b]) \ gone
  /\ Sublists(new, lists)
  /\ \A x \in gone \cap ToSet(lists[home]) : after.next[x] \in (ToSet(lists[home]) \ {i}) \cup {Dummy(home)}

\* What rings say of the list of one block.
Listed(lists, m, b) ==
  /\ DOMAIN lists[b] = 1 .. Len(lists[b]) /\ Len(lists[b]) \in Nat /\ lists[b] \in Seq(1 .. m)
  /\ \A x : x \in ToSet(lists[b]) <=> \E k \in 1 .. Len(lists[b]) : lists[b][k] = x
  /\ ToSet(lists[b]) \subseteq 1 .. m
  /\ \A c \in Block : c # b => ToSet(lists[b]) \cap ToSet(lists[c]) = {}
  /\ \A j, k \in 1 .. Len(lists[b]) : lists[b][j] = lists[b][k] => j = k

LEMMA ListedPlace ==
  ASSUME NEW m \in Nat, NEW nx, NEW pv, NEW lists, AreRings(nx, pv, lists, m), NEW b \in Block
  PROVE  Listed(lists, m, b)
<1>1. \A c \in Block : /\ lists[c] \in Seq(1 .. m) /\ DOMAIN lists[c] = 1 .. Len(lists[c]) /\ Len(lists[c]) \in Nat
                       /\ \A k \in 1 .. Len(lists[c]) : lists[c][k] \in 1 .. m
  BY DEF AreRings
<1>2. \A c \in Block : \A x : x \in ToSet(lists[c]) <=> \E k \in 1 .. Len(lists[c]) : lists[c][k] = x
  BY <1>1 DEF ToSet
<1>3. \A c, d \in Block : \A x \in DOMAIN lists[c], y \in DOMAIN lists[d] : lists[c][x] = lists[d][y] => c = d /\ x = y
  BY Zenon DEF AreRings
<1>4. \A c, d \in Block : \A x \in 1 .. Len(lists[c]), y \in 1 .. Len(lists[d]) : lists[c][x] = lists[d][y] => c = d /\ x = y
  BY <1>1, <1>3
<1>5. \A c \in Block : c # b => ToSet(lists[b]) \cap ToSet(lists[c]) = {}
  <2> SUFFICES ASSUME NEW c \in Block, c # b, NEW x \in ToSet(lists[b]), x \in ToSet(lists[c]) PROVE FALSE
    OBVIOUS
  <2>1. PICK k \in 1 .. Len(lists[b]) : lists[b][k] = x
    BY <1>2
  <2>2. PICK l \in 1 .. Len(lists[c]) : lists[c][l] = x
    BY <1>2
  <2> QED BY <1>4, <2>1, <2>2
<1>6. ToSet(lists[b]) \subseteq 1 .. m
  <2> SUFFICES ASSUME NEW x \in ToSet(lists[b]) PROVE x \in 1 .. m
    OBVIOUS
  <2>1. PICK k \in 1 .. Len(lists[b]) : lists[b][k] = x
    BY <1>2
  <2> QED BY <1>1, <2>1
<1>7. DOMAIN lists[b] = 1 .. Len(lists[b]) /\ Len(lists[b]) \in Nat /\ lists[b] \in Seq(1 .. m)
  BY <1>1
<1>8. \A j, k \in 1 .. Len(lists[b]) : lists[b][j] = lists[b][k] => j = k
  BY <1>4
<1> QED BY <1>2, <1>5, <1>6, <1>7, <1>8, Zenon DEF Listed

LEMMA TakeOne ==
  ASSUME NEW m \in Nat, m <= MaxInsts + NumBlocks, NEW after, NEW new, NEW lists, NEW gone,
         NEW home \in Block, NEW i, Taken(after, new, lists, m, gone, home, i),
         \A c \in Block : ToSet(lists[c]) \subseteq 1 .. m,
         \A b, c \in Block : b # c => ToSet(lists[b]) \cap ToSet(lists[c]) = {},
         NEW b \in Block, NEW y \in ToSet(new[b]), i \in gone \/ y = i
  PROVE  /\ \E new2 : Taken(Unlinked(after, y), new2, lists, m, gone \cup {y}, home, i)
         /\ Unlinked(Unlinked(after, y), y) = Unlinked(after, y)
<1> DEFINE s == new[b]
           then == Unlinked(after, y)
<1>1. AreRings(after.next, after.prev, new, m) /\ after \in Links
  BY DEF Taken
<1>0. /\ DOMAIN s = 1 .. Len(s) /\ Len(s) \in Nat /\ s \in Seq(1 .. m)
      /\ \A x : x \in ToSet(s) <=> \E j \in 1 .. Len(s) : s[j] = x
      /\ ToSet(s) \subseteq 1 .. m
      /\ \A j, l \in 1 .. Len(s) : s[j] = s[l] => j = l
  <2>1. Listed(new, m, b)
    BY <1>1, ListedPlace
  <2> QED BY <2>1 DEF Listed
<1>2. PICK k \in 1 .. Len(s) : s[k] = y
  BY <1>0
<1> DEFINE new2 == [new EXCEPT ![b] = Removed(@, k)]
<1>3. /\ then \in Links /\ AreRings(then.next, then.prev, new2, m)
      /\ Unlinked(then, y) = then
      /\ \A x \in Node : x # At(b, s, k - 1) => then.next[x] = after.next[x]
      /\ after.next[y] = At(b, s, k + 1)
  BY <1>1, <1>2, RemoveRing
<1>4. /\ s \in Seq(1 .. m) /\ Len(s) \in Nat /\ y \in 1 .. m
      /\ \A j, l \in 1 .. Len(s) : s[j] = s[l] => j = l
  <2>1. y \in ToSet(s)
    OBVIOUS
  <2> HIDE DEF s
  <2> QED BY <1>0, <2>1
<1>5. /\ new2[b] = Removed(s, k)
      /\ \A c \in Block : c # b => new2[c] = new[c]
  <2>1. new \in [Block -> Seq(1 .. m)]
    BY <1>1 DEF AreRings
  <2> QED BY <2>1
<1>6. ToSet(new2[b]) = ToSet(s) \ {y}
  BY <1>2, <1>4, <1>5, RemovedParts
<1>7. \A c \in Block : ToSet(new2[c]) = ToSet(lists[c]) \ (gone \cup {y})
  <2> SUFFICES ASSUME NEW c \in Block PROVE ToSet(new2[c]) = ToSet(lists[c]) \ (gone \cup {y})
    OBVIOUS
  <2>1. ToSet(new[c]) = ToSet(lists[c]) \ gone /\ ToSet(new[b]) = ToSet(lists[b]) \ gone
    BY DEF Taken
  <2>2. CASE c = b
    BY <1>6, <2>1, <2>2
  <2>3. CASE c # b
    <3>1. y \notin ToSet(lists[c])
      BY <2>1, <2>3
    <3> QED BY <1>5, <2>1, <2>3, <3>1
  <2> QED BY <2>2, <2>3
<1>8. Sublists(new2, lists)
  <2>1. Sublists(new2, new)
    <3> SUFFICES ASSUME NEW c \in Block, NEW x \in DOMAIN new2[c], NEW z \in DOMAIN new2[c], x < z
                 PROVE  \E u, v \in DOMAIN new[c] : u < v /\ new[c][u] = new2[c][x] /\ new[c][v] = new2[c][z]
      BY DEF Sublists
    <3>1. CASE c = b
      <4>1. \A u, v \in DOMAIN Removed(s, k) :
              u < v => \E w, z2 \in DOMAIN s : w < z2 /\ s[w] = Removed(s, k)[u] /\ s[z2] = Removed(s, k)[v]
        <5> HIDE DEF s
        <5> QED BY <1>4, RemovedParts
      <4>2. new2[c] = Removed(s, k) /\ new[c] = s
        BY <1>5, <3>1
      <4> HIDE DEF new2, s
      <4> QED BY <4>1, <4>2
    <3>2. CASE c # b
      BY <1>5, <3>2
    <3> QED BY <3>1, <3>2
  <2>2. Sublists(new, lists)
    BY DEF Taken
  <2> HIDE DEF new2
  <2> QED BY <2>1, <2>2, SublistsTransitive
<1>9. ASSUME NEW x \in (gone \cup {y}) \cap ToSet(lists[home])
      PROVE  then.next[x] \in (ToSet(lists[home]) \ {i}) \cup {Dummy(home)}
  <2>1. CASE x = y
    <3>1. b = home
      BY <1>9, <2>1 DEF Taken
    <3>2. y # At(b, s, k - 1) /\ At(b, s, k + 1) # y
      <4>1. k \in 0 .. Len(s) /\ k - 1 \in 0 .. Len(s) /\ k # k - 1 /\ (k - 1) + 1 = k /\ At(b, s, k) = y
        BY <1>2, <1>4 DEF At
      <4>2. \A u, v \in 0 .. Len(s) : At(b, s, u) = At(b, s, v) => u = v
        BY <1>1, AtOnce
      <4>3. \A u, v \in 0 .. Len(s) : At(b, s, u + 1) = At(b, s, v + 1) => u = v
        BY <1>1, AtOnce
      <4>4. At(b, s, k - 1) # At(b, s, k)
        BY <4>1, <4>2
      <4>5. At(b, s, k + 1) # At(b, s, (k - 1) + 1)
        BY <4>1, <4>3
      <4> QED BY <4>1, <4>4, <4>5
    <3>3. y \in Node
      BY <1>4, Dummies DEF Node
    <3>4. then.next[y] = At(b, s, k + 1)
      BY <1>3, <3>2, <3>3
    <3>5. CASE k + 1 \in 1 .. Len(s)
      <4>1. At(b, s, k + 1) = s[k + 1] /\ s[k + 1] \in ToSet(s)
        <5>1. s[k + 1] \in ToSet(s)
          <6> HIDE DEF s
          <6> QED BY <1>0, <3>5
        <5> HIDE DEF s
        <5> QED BY <3>5, <5>1 DEF At
      <4>2. s[k + 1] \in ToSet(lists[home]) /\ s[k + 1] \notin gone
        BY <3>1, <4>1 DEF Taken
      <4>3. s[k + 1] # i
        BY <3>2, <4>1, <4>2
      <4> QED BY <2>1, <3>4, <4>1, <4>2, <4>3
    <3>6. CASE k + 1 \notin 1 .. Len(s)
      BY <2>1, <3>1, <3>4, <3>6 DEF At
    <3> QED BY <3>5, <3>6
  <2>2. CASE x # y
    <3>1. x \in gone /\ x \in ToSet(lists[home]) /\ after.next[x] \in (ToSet(lists[home]) \ {i}) \cup {Dummy(home)}
      BY <1>9, <2>2 DEF Taken
    <3>2. x \in 1 .. m /\ x \in Node
      <4>1. x \in 1 .. m
        BY <3>1
      <4> QED BY <4>1, Dummies DEF Node
    <3>3. x # At(b, s, k - 1)
      <4>1. CASE k - 1 \in 1 .. Len(s)
        <5>1. At(b, s, k - 1) \in ToSet(s)
          <6> HIDE DEF s
          <6> QED BY <1>0, <4>1 DEF At
        <5>2. ToSet(s) \cap gone = {}
          BY DEF Taken
        <5> QED BY <3>1, <5>1, <5>2
      <4>2. CASE k - 1 \notin 1 .. Len(s)
        BY <3>1, <3>2, <4>2, Dummies DEF At
      <4> QED BY <4>1, <4>2
    <3> QED BY <1>3, <3>1, <3>2, <3>3
  <2> QED BY <2>1, <2>2
<1>10. Taken(then, new2, lists, m, gone \cup {y}, home, i)
  <2> HIDE DEF then, new2
  <2> QED BY <1>3, <1>7, <1>8, <1>9 DEF Taken
<1>11. \E w : Taken(then, w, lists, m, gone \cup {y}, home, i)
  <2> HIDE DEF then, new2
  <2> QED BY <1>10
<1> QED BY <1>3, <1>11

LEMMA UnlinkedTypes ==
  ASSUME NEW links \in Links, NEW i \in Node
  PROVE  Unlinked(links, i) \in Links
BY DEF Unlinked, Links

LEMMA UnlinkedSteps ==
  ASSUME NEW links \in Links, NEW seq \in Seq(Node)
  PROVE  \E f \in [0 .. Len(seq) -> Links] :
           /\ f[0] = links /\ \A k \in 1 .. Len(seq) : f[k] = Unlinked(f[k - 1], seq[k])
           /\ UnlinkedAll(links, seq) = f[Len(seq)]
<1> DEFINE n == Len(seq)
           Goes(g) == g = [k \in 0 .. n |-> IF k = 0 THEN links ELSE Unlinked(g[k - 1], seq[k])]
           after == CHOOSE g : Goes(g)
           G == [k \in 1 .. n |-> [x \in Links |-> Unlinked(x, seq[k])]]
<1>1. n \in Nat /\ \A k \in 1 .. n : seq[k] \in Node
  OBVIOUS
<1>2. G \in [1 .. n -> [Links -> Links]]
  BY <1>1, UnlinkedTypes
<1>3. PICK f \in [0 .. n -> Links] : Iterates(f, n, links, G)
  <2> HIDE DEF G, n
  <2> QED BY <1>1, <1>2, IterationExists
<1>4. \A k \in 0 .. n : k # 0 => k \in 1 .. n /\ k - 1 \in 0 .. n /\ f[k - 1] \in Links
  <2>1. \A k \in 0 .. n : k # 0 => k \in 1 .. n /\ k - 1 \in 0 .. n
    BY <1>1
  <2>2. \A k \in 0 .. n : f[k] \in Links
    BY <1>3
  <2> HIDE DEF n
  <2> QED BY <2>1, <2>2
<1>5. Goes(f)
  <2>1. f = [k \in 0 .. n |-> IF k = 0 THEN links ELSE G[k][f[k - 1]]]
    BY <1>3 DEF Iterates
  <2>2. \A k \in 0 .. n : k # 0 => G[k][f[k - 1]] = Unlinked(f[k - 1], seq[k])
    BY <1>4
  <2> HIDE DEF G, n
  <2> QED BY <2>1, <2>2
<1>6. Goes(after)
  <2> HIDE DEF Goes
  <2> QED BY <1>5
<1>7. UnlinkedAll(links, seq) = after[n]
  BY DEF UnlinkedAll
<1> HIDE DEF after
<1>8. after[0] = links /\ \A k \in 1 .. n : after[k] = Unlinked(after[k - 1], seq[k])
  <2>1. after = [k \in 0 .. n |-> IF k = 0 THEN links ELSE Unlinked(after[k - 1], seq[k])]
    BY <1>6
  <2>2. 0 \in 0 .. n /\ \A k \in 1 .. n : k \in 0 .. n /\ k # 0
    BY <1>1
  <2> HIDE DEF n
  <2> QED BY <2>1, <2>2
<1>9. after \in [0 .. n -> Links]
  <2> DEFINE S == {k \in 0 .. n : after[k] \in Links}
  <2>1. 0 \in S
    BY <1>1, <1>8
  <2>2. \A k \in 0 .. n : k < n /\ k \in S => k + 1 \in S
    <3> SUFFICES ASSUME NEW k \in 0 .. n, k < n, after[k] \in Links PROVE after[k + 1] \in Links /\ k + 1 \in 0 .. n
      OBVIOUS
    <3>1. k + 1 \in 1 .. n /\ (k + 1) - 1 = k /\ k + 1 \in 0 .. n
      BY <1>1
    <3>2. after[k + 1] = Unlinked(after[k], seq[k + 1])
      BY <1>8, <3>1
    <3> QED BY <1>1, <3>1, <3>2, UnlinkedTypes
  <2>3. \A k \in 0 .. n : k \in S
    <3> HIDE DEF S, n
    <3> QED BY <1>1, <2>1, <2>2, CountingUp
  <2>4. after = [k \in 0 .. n |-> after[k]]
    <3>1. after = [k \in 0 .. n |-> IF k = 0 THEN links ELSE Unlinked(after[k - 1], seq[k])]
      BY <1>6
    <3> QED BY <3>1
  <2> QED BY <2>3, <2>4
<1> QED BY <1>7, <1>8, <1>9

LEMMA TakeAll ==
  ASSUME NEW m \in Nat, m <= MaxInsts + NumBlocks, NEW links \in Links, NEW lists,
         AreRings(links.next, links.prev, lists, m), NEW home \in Block, NEW i \in ToSet(lists[home]),
         NEW others \in Seq(Members(lists)), IsInjective(others), i \notin ToSet(others)
  PROVE  \E new : Taken(UnlinkedAll(links, <<i, i>> \o others), new, lists, m, {i} \cup ToSet(others), home, i)
<1> DEFINE seq == <<i, i>> \o others
           n == Len(others)
           Gone(k) == {i} \cup {others[j] : j \in 1 .. k}
<1>1. \A b \in Block : Listed(lists, m, b)
  BY ListedPlace
<1>2. /\ \A b \in Block : ToSet(lists[b]) \subseteq 1 .. m
      /\ \A b, c \in Block : b # c => ToSet(lists[b]) \cap ToSet(lists[c]) = {}
  BY <1>1 DEF Listed
<1>3. Members(lists) \subseteq 1 .. m /\ 1 .. m \subseteq Node /\ i \in Members(lists)
  <2>1. 1 .. m \subseteq Node
    BY Dummies DEF Node
  <2> QED BY <1>2, <2>1 DEF Members
<1>4. n \in Nat /\ \A k \in 1 .. n : others[k] \in Members(lists) /\ others[k] # i
  BY DEF ToSet
<1>5. \A j, k \in 1 .. n : others[j] = others[k] => j = k
  BY DEF IsInjective
<1>6. /\ seq \in Seq(Node) /\ Len(seq) = n + 2 /\ seq[1] = i /\ seq[2] = i
      /\ \A k \in 1 .. n : seq[k + 2] = others[k]
  <2>1. others \in Seq(Node) /\ <<i, i>> \in Seq(Node)
    BY <1>3, <1>4
  <2> QED BY <2>1
<1>7. PICK f \in [0 .. n + 2 -> Links] :
        /\ f[0] = links /\ \A k \in 1 .. n + 2 : f[k] = Unlinked(f[k - 1], seq[k])
        /\ UnlinkedAll(links, seq) = f[n + 2]
  <2> HIDE DEF seq, n
  <2>1. \E f \in [0 .. Len(seq) -> Links] :
          /\ f[0] = links /\ \A k \in 1 .. Len(seq) : f[k] = Unlinked(f[k - 1], seq[k])
          /\ UnlinkedAll(links, seq) = f[Len(seq)]
    BY <1>6, UnlinkedSteps
  <2>2. Len(seq) = n + 2
    BY <1>6
  <2> QED BY <2>1, <2>2, Zenon
<1>8. f[1] = Unlinked(links, i) /\ f[2] = Unlinked(f[1], i) /\ \A k \in 1 .. n : f[k + 2] = Unlinked(f[k + 1], others[k])
  <2>1. 1 \in 1 .. n + 2 /\ 2 \in 1 .. n + 2 /\ 1 - 1 = 0 /\ 2 - 1 = 1
    BY <1>4
  <2>2. \A k \in 1 .. n : k + 2 \in 1 .. n + 2 /\ (k + 2) - 1 = k + 1
    BY <1>4
  <2> HIDE DEF seq, n
  <2> QED BY <1>6, <1>7, <2>1, <2>2
<1>9. Taken(links, lists, lists, m, {}, home, i)
  <2>1. Sublists(lists, lists)
    BY DEF Sublists
  <2> QED BY <2>1 DEF Taken
<1>10. (\E new : Taken(f[2], new, lists, m, {i}, home, i))
  <2>1. /\ \E new : Taken(Unlinked(links, i), new, lists, m, {} \cup {i}, home, i)
        /\ Unlinked(Unlinked(links, i), i) = Unlinked(links, i)
    BY <1>2, <1>9, TakeOne
  <2>2. f[2] = Unlinked(links, i) /\ {} \cup {i} = {i}
    BY <1>8, <2>1
  <2> QED BY <2>1, <2>2
<1> DEFINE S == {k \in 0 .. n : \E new : Taken(f[k + 2], new, lists, m, Gone(k), home, i)}
<1>11. 0 \in S
  <2>1. Gone(0) = {i}
    OBVIOUS
  <2>2. f[0 + 2] = f[2] /\ 0 \in 0 .. n
    BY <1>4
  <2> HIDE DEF Gone
  <2> QED BY <1>10, <2>1, <2>2
<1>12. ASSUME NEW k \in 0 .. n, k < n, k \in S PROVE k + 1 \in S
  <2>1. PICK new : Taken(f[k + 2], new, lists, m, Gone(k), home, i)
    BY <1>12
  <2>2. k + 1 \in 1 .. n /\ k + 1 \in 0 .. n /\ (k + 1) + 2 = (k + 2) + 1 /\ (k + 1) + 1 = k + 2
    BY <1>4, <1>12
  <2> DEFINE y == others[k + 1]
  <2>3. PICK b \in Block : y \in ToSet(lists[b])
    BY <1>4, <2>2 DEF Members
  <2>4. y \notin Gone(k)
    <3>1. \A j \in 1 .. k : j \in 1 .. n /\ j # k + 1
      BY <1>4, <1>12
    <3>2. \A j \in 1 .. k : others[j] # others[k + 1]
      BY <1>5, <2>2, <3>1
    <3> QED BY <1>4, <2>2, <3>2
  <2>5. y \in ToSet(new[b])
    BY <2>1, <2>3, <2>4 DEF Taken
  <2>6. i \in Gone(k)
    OBVIOUS
  <2>7. Gone(k) \cup {y} = Gone(k + 1)
    <3>1. 1 .. k + 1 = (1 .. k) \cup {k + 1}
      BY <1>12
    <3> QED BY <3>1
  <2>8. f[(k + 1) + 2] = Unlinked(f[k + 2], y)
    BY <1>8, <2>2
  <2> HIDE DEF Gone, y
  <2>9. \E new2 : Taken(Unlinked(f[k + 2], y), new2, lists, m, Gone(k) \cup {y}, home, i)
    BY <1>2, <2>1, <2>5, <2>6, TakeOne
  <2> QED BY <2>2, <2>7, <2>8, <2>9
<1>13. n \in S
  <2>1. \A k \in 0 .. n : k < n /\ k \in S => k + 1 \in S
    BY <1>12
  <2>2. n \in 0 .. n
    BY <1>4
  <2> HIDE DEF S, n
  <2> QED BY <1>4, <1>11, <2>1, <2>2, CountingUp
<1>14. Gone(n) = {i} \cup ToSet(others)
  BY DEF ToSet
<1>15. \E new : Taken(f[n + 2], new, lists, m, Gone(n), home, i)
  BY <1>13
<1> HIDE DEF Gone, seq
<1>16. \E new : Taken(UnlinkedAll(links, seq), new, lists, m, {i} \cup ToSet(others), home, i)
  BY <1>7, <1>14, <1>15
<1> QED BY <1>16 DEF seq

LEMMA RingsAreShort ==
  ASSUME NEW m \in Nat, NEW s \in Seq(1 .. m), \A j, k \in 1 .. Len(s) : s[j] = s[k] => j = k
  PROVE  Len(s) <= m
<1>1. Len(s) \in Nat /\ s \in [1 .. Len(s) -> 1 .. m]
  OBVIOUS
<1>2. IsFiniteSet(1 .. m) /\ Cardinality(1 .. m) = m /\ IsFiniteSet(1 .. Len(s)) /\ Cardinality(1 .. Len(s)) = Len(s)
  <2>1. \A k \in Nat : IsFiniteSet(1 .. k) /\ Cardinality(1 .. k) = k
    BY FS_Interval
  <2> QED BY <1>1, <2>1
<1>3. s \in Injection(1 .. Len(s), 1 .. m)
  BY <1>1 DEF Injection, IsInjective
<1>4. Cardinality(1 .. Len(s)) <= Cardinality(1 .. m)
  BY <1>2, <1>3, FS_Injection
<1> QED BY <1>2, <1>4

LEMMA OnlyChoice ==
  ASSUME NEW e
  PROVE  (CHOOSE w \in {e} : TRUE) = e
OBVIOUS

LEMMA Prefix ==
  ASSUME NEW T, NEW s \in Seq(T), NEW n \in 0 .. Len(s)
  PROVE  /\ SubSeq(s, 1, n) \in Seq(T) /\ Len(SubSeq(s, 1, n)) = n
         /\ \A k \in 1 .. n : SubSeq(s, 1, n)[k] = s[k]
OBVIOUS

LEMMA RingIs ==
  ASSUME NEW m \in Nat, m <= MaxInsts + NumBlocks, NEW nx \in [Node -> Node], NEW pv, NEW lists,
         AreRings(nx, pv, lists, m), NEW b \in Block
  PROVE  RingOf(nx, m, b) = lists[b]
<1> DEFINE s == lists[b]
           D == Dummy(b)
           full == Append(s, D)
           to(n) == IF n <= Len(s) THEN n + 1 ELSE Len(s) + 1
           step(w) == IF Last(w) = D THEN w ELSE Append(w, nx[Last(w)])
           Goes(g) == g = [n \in 0 .. m + 1 |->
                             IF n = 0 THEN <<nx[D]>>
                             ELSE CHOOSE w \in {IF Last(walked) = D THEN walked ELSE Append(walked, nx[Last(walked)]) :
                                                  walked \in {g[n - 1]}} : TRUE]
           walk == CHOOSE g : Goes(g)
           W == [n \in 0 .. m + 1 |-> SubSeq(full, 1, to(n))]
<1>1. s \in Seq(1 .. m) /\ Len(s) \in Nat /\ Len(s) <= m /\ D < 0 /\ D \in Node
  <2>1. Listed(lists, m, b)
    BY ListedPlace
  <2>2. s \in Seq(1 .. m) /\ Len(s) \in Nat /\ \A j, k \in 1 .. Len(s) : s[j] = s[k] => j = k
    BY <2>1 DEF Listed
  <2>3. Len(s) <= m
    <3> HIDE DEF s
    <3> QED BY <2>2, RingsAreShort
  <2> QED BY <2>2, <2>3, Dummies
<1>2. full \in Seq(Int) /\ Len(full) = Len(s) + 1 /\ full[Len(s) + 1] = D
      /\ \A k \in 1 .. Len(s) : full[k] = s[k] /\ s[k] # D
  BY <1>1, Dummies
<1>to. \A n \in Int : (n <= Len(s) => to(n) = n + 1) /\ (n > Len(s) => to(n) = Len(s) + 1)
  BY <1>1
<1>3. nx[D] = full[1] /\ \A k \in 1 .. Len(s) : nx[full[k]] = full[k + 1]
  <2>1. \A k \in 0 .. Len(s) : nx[At(b, s, k)] = At(b, s, k + 1)
    BY DEF AreRings, IsRing
  <2>2. \A k \in 1 .. Len(s) + 1 : At(b, s, k) = full[k]
    BY <1>1, <1>2 DEF At
  <2>3. At(b, s, 0) = D /\ 0 \in 0 .. Len(s) /\ 1 \in 1 .. Len(s) + 1 /\ 0 + 1 = 1
    BY <1>1 DEF At
  <2>4. \A k \in 1 .. Len(s) : k \in 0 .. Len(s) /\ k \in 1 .. Len(s) + 1 /\ k + 1 \in 1 .. Len(s) + 1
    BY <1>1
  <2> HIDE DEF full, s, D
  <2> QED BY <2>1, <2>2, <2>3, <2>4
<1>4. \A n \in 0 .. m + 1 :
        /\ to(n) \in 1 .. Len(s) + 1 /\ W[n] \in Seq(Int) /\ Len(W[n]) = to(n)
        /\ \A k \in 1 .. to(n) : W[n][k] = full[k]
  <2> SUFFICES ASSUME NEW n \in 0 .. m + 1
               PROVE  /\ to(n) \in 1 .. Len(s) + 1 /\ W[n] \in Seq(Int) /\ Len(W[n]) = to(n)
                      /\ \A k \in 1 .. to(n) : W[n][k] = full[k]
    OBVIOUS
  <2>1. to(n) \in 1 .. Len(s) + 1
    BY <1>1
  <2>2. W[n] = SubSeq(full, 1, to(n))
    OBVIOUS
  <2>3. to(n) \in 0 .. Len(full)
    BY <1>1, <1>2, <2>1
  <2> HIDE DEF W, full, to
  <2> QED BY <1>2, <2>1, <2>2, <2>3, Prefix
<1>5. ASSUME NEW n \in 0 .. m + 1, n # 0 PROVE W[n] = step(W[n - 1])
  <2> DEFINE w == W[n - 1]
             l == to(n - 1)
  <2>1. n - 1 \in 0 .. m + 1
    BY <1>5
  <2>2. w \in Seq(Int) /\ Len(w) = l /\ l \in 1 .. Len(s) + 1 /\ \A k \in 1 .. l : w[k] = full[k]
    BY <1>4, <2>1
  <2>3. Last(w) = full[l]
    BY <2>2 DEF Last
  <2>4. W[n] \in Seq(Int) /\ Len(W[n]) = to(n) /\ \A k \in 1 .. to(n) : W[n][k] = full[k]
    BY <1>4
  <2> HIDE DEF full, to, s
  <2>5. CASE n <= Len(s)
    <3>1. l = n /\ to(n) = n + 1 /\ l \in 1 .. Len(s)
      <4>1. n - 1 \in Int /\ n \in Int /\ n - 1 <= Len(s) /\ (n - 1) + 1 = n /\ n \in 1 .. Len(s)
        BY <1>1, <1>5, <2>5
      <4> QED BY <1>to, <2>5, <4>1
    <3>2. full[l] # D /\ nx[full[l]] = full[l + 1] /\ full[l + 1] \in Int
      <4>1. full[l] = s[l] /\ s[l] # D /\ nx[full[l]] = full[l + 1]
        BY <1>2, <1>3, <3>1
      <4>2. l + 1 \in 1 .. Len(full)
        <5>1. Len(s) \in Nat /\ Len(full) = Len(s) + 1
          BY <1>1, <1>2
        <5> HIDE DEF l
        <5> QED BY <3>1, <5>1
      <4> QED BY <1>2, <4>1, <4>2
    <3>3. step(w) = Append(w, full[n + 1])
      <4> HIDE DEF W, w, l, D
      <4> QED BY <2>3, <3>1, <3>2
    <3> HIDE DEF W, w, full, l, to, step
    <3>4. Append(w, full[n + 1]) \in Seq(Int) /\ Len(Append(w, full[n + 1])) = n + 1
          /\ \A k \in 1 .. n + 1 : Append(w, full[n + 1])[k] = full[k]
      BY <2>2, <3>1, <3>2
    <3>5. W[n] = Append(w, full[n + 1])
      BY <2>4, <3>1, <3>4, SeqEqual
    <3> QED BY <3>3, <3>5 DEF w
  <2>6. CASE n > Len(s)
    <3>1. l = Len(s) + 1 /\ to(n) = Len(s) + 1
      <4>1. n - 1 \in Int /\ n \in Int /\ (n - 1 > Len(s) \/ n - 1 = Len(s))
        BY <1>1, <1>5, <2>6
      <4> QED BY <1>1, <1>to, <2>6, <4>1
    <3>2. step(w) = w
      <4> HIDE DEF W, w, l, D
      <4> QED BY <1>2, <2>3, <3>1
    <3> HIDE DEF W, w, full, l, to, step
    <3>3. W[n] = w
      BY <2>2, <2>4, <3>1, SeqEqual
    <3> QED BY <3>2, <3>3 DEF w
  <2>7. n <= Len(s) \/ n > Len(s)
    BY <1>1
  <2> HIDE DEF W, step
  <2> QED BY <2>5, <2>6, <2>7
<1>6. W[0] = <<nx[D]>>
  <2>1. 0 \in 0 .. m + 1 /\ to(0) = 1
    BY <1>1
  <2>2. W[0] \in Seq(Int) /\ Len(W[0]) = 1 /\ W[0][1] = full[1]
    <3> HIDE DEF W, full, to
    <3>1. W[0] \in Seq(Int) /\ Len(W[0]) = to(0) /\ \A k \in 1 .. to(0) : W[0][k] = full[k]
      BY <1>4, <2>1
    <3> QED BY <2>1, <3>1
  <2> HIDE DEF W, full
  <2> QED BY <1>3, <2>2
<1>7. \A g, n : (CHOOSE w \in {IF Last(walked) = D THEN walked ELSE Append(walked, nx[Last(walked)]) :
                               walked \in {g[n - 1]}} : TRUE) = step(g[n - 1])
  <2> TAKE g, n
  <2>1. {IF Last(walked) = D THEN walked ELSE Append(walked, nx[Last(walked)]) : walked \in {g[n - 1]}} = {step(g[n - 1])}
    OBVIOUS
  <2> HIDE DEF step
  <2> QED BY <2>1, OnlyChoice, Zenon
<1>8. Goes(W)
  <2>1. W = [n \in 0 .. m + 1 |-> IF n = 0 THEN <<nx[D]>> ELSE step(W[n - 1])]
    <3>1. W = [n \in 0 .. m + 1 |-> W[n]]
      OBVIOUS
    <3>2. \A n \in 0 .. m + 1 : W[n] = IF n = 0 THEN <<nx[D]>> ELSE step(W[n - 1])
      <4> HIDE DEF W, step
      <4> QED BY <1>5, <1>6
    <3> HIDE DEF W, step
    <3> QED BY <3>1, <3>2
  <2> HIDE DEF W, step
  <2> QED BY <1>7, <2>1
<1>9. Goes(walk)
  <2> HIDE DEF Goes, W
  <2> QED BY <1>8
<1>10. RingOf(nx, m, b) = Front(walk[m + 1])
  BY DEF RingOf
<1> HIDE DEF walk
<1>11. \A n \in 0 .. m + 1 : walk[n] = IF n = 0 THEN <<nx[D]>> ELSE step(walk[n - 1])
  <2> HIDE DEF step, D
  <2> QED BY <1>7, <1>9
<1>12. \A n \in 0 .. m + 1 : walk[n] = W[n]
  <2> DEFINE S == {n \in 0 .. m + 1 : walk[n] = W[n]}
  <2>1. 0 \in S
    <3>1. 0 \in 0 .. m + 1
      OBVIOUS
    <3> HIDE DEF W, step
    <3> QED BY <1>6, <1>11, <3>1
  <2>2. \A n \in 0 .. m + 1 : n < m + 1 /\ n \in S => n + 1 \in S
    <3> SUFFICES ASSUME NEW n \in 0 .. m + 1, n < m + 1, walk[n] = W[n]
                 PROVE  n + 1 \in 0 .. m + 1 /\ walk[n + 1] = W[n + 1]
      OBVIOUS
    <3>1. n + 1 \in 0 .. m + 1 /\ n + 1 # 0 /\ (n + 1) - 1 = n
      OBVIOUS
    <3> HIDE DEF W, step
    <3>2. walk[n + 1] = step(walk[n])
      BY <1>11, <3>1
    <3>3. W[n + 1] = step(W[n])
      BY <1>5, <3>1
    <3> QED BY <3>1, <3>2, <3>3
  <2>3. m + 1 \in Nat
    OBVIOUS
  <2> HIDE DEF S
  <2>4. \A n \in 0 .. m + 1 : n \in S
    BY <2>1, <2>2, <2>3, CountingUp
  <2> QED BY <2>4 DEF S
<1>13. walk[m + 1] = W[m + 1] /\ to(m + 1) = Len(s) + 1
  <2>1. m + 1 \in 0 .. m + 1 /\ m + 1 > Len(s) /\ m + 1 \in Int
    BY <1>1
  <2> HIDE DEF W, to, s
  <2> QED BY <1>12, <1>to, <2>1
<1>14. Front(W[m + 1]) = s
  <2>1. m + 1 \in 0 .. m + 1
    OBVIOUS
  <2>2. W[m + 1] \in Seq(Int) /\ Len(W[m + 1]) = Len(s) + 1 /\ \A k \in 1 .. Len(s) + 1 : W[m + 1][k] = full[k]
    BY <1>4, <1>13, <2>1
  <2> HIDE DEF W, full
  <2> DEFINE w == W[m + 1]
  <2>3. Front(w) = SubSeq(w, 1, (Len(s) + 1) - 1) /\ (Len(s) + 1) - 1 = Len(s)
    BY <1>1, <2>2 DEF Front
  <2>4. s \in Seq(Int)
    BY <1>1
  <2>5. SubSeq(w, 1, Len(s)) \in Seq(Int) /\ Len(SubSeq(w, 1, Len(s))) = Len(s)
        /\ \A k \in 1 .. Len(s) : SubSeq(w, 1, Len(s))[k] = s[k]
    <3>1. Len(s) \in 0 .. Len(w) /\ w \in Seq(Int)
      BY <1>1, <2>2
    <3>2. \A k \in 1 .. Len(s) : w[k] = s[k]
      BY <1>1, <1>2, <2>2
    <3> HIDE DEF w, s
    <3> QED BY <3>1, <3>2, Prefix
  <2>6. SubSeq(w, 1, Len(s)) = s
    <3> HIDE DEF w, s
    <3> QED BY <2>4, <2>5, SeqEqual
  <2> QED BY <2>3, <2>6
<1> QED BY <1>10, <1>13, <1>14

-----------------------------------------------------------------------------
(***************************************************************************)
(* What the pointers say, once they are known to be rings.                 *)
(***************************************************************************)
InOrderAlong(pv, b, ring) ==
  /\ \A k \in DOMAIN ring : pv[ring[k]] = IF k = 1 THEN Dummy(b) ELSE ring[k - 1]
  /\ pv[Dummy(b)] = IF ring = <<>> THEN Dummy(b) ELSE Last(ring)

ContentsAlong(nx, pv, m) ==
  [b \in Block |->
     CHOOSE c \in {IF InOrderAlong(pv, b, ring) THEN ring ELSE Broken : ring \in {RingOf(nx, m, b)}} : TRUE]

LEMMA ContentsOfRings ==
  ASSUME NEW m \in Nat, m <= MaxInsts + NumBlocks, NEW nx \in [Node -> Node], NEW pv, NEW lists,
         AreRings(nx, pv, lists, m)
  PROVE  [b \in Block |-> RingOf(nx, m, b)] = lists /\ ContentsAlong(nx, pv, m) = lists
<1>1. \A b \in Block : RingOf(nx, m, b) = lists[b]
  BY RingIs
<1>2. lists = [b \in Block |-> lists[b]]
  BY DEF AreRings
<1>3. ASSUME NEW b \in Block PROVE InOrderAlong(pv, b, lists[b])
  <2> DEFINE s == lists[b]
  <2>1. s \in Seq(1 .. m) /\ Len(s) \in Nat /\ DOMAIN s = 1 .. Len(s)
    <3>1. Listed(lists, m, b)
      BY ListedPlace
    <3> QED BY <3>1 DEF Listed
  <2>2. \A k \in 0 .. Len(s) : pv[At(b, s, k + 1)] = At(b, s, k)
    BY DEF AreRings, IsRing
  <2>3. At(b, s, 0) = Dummy(b) /\ At(b, s, Len(s) + 1) = Dummy(b) /\ \A k \in 1 .. Len(s) : At(b, s, k) = s[k]
    <3> HIDE DEF s
    <3> QED BY <2>1, AtPlace
  <2> HIDE DEF s
  <2>4. ASSUME NEW k \in 1 .. Len(s) PROVE pv[s[k]] = IF k = 1 THEN Dummy(b) ELSE s[k - 1]
    <3>1. k - 1 \in 0 .. Len(s) /\ (k - 1) + 1 = k /\ (k # 1 => k - 1 \in 1 .. Len(s)) /\ (k = 1 => k - 1 = 0)
      BY <2>1
    <3>2. pv[At(b, s, k)] = At(b, s, k - 1)
      BY <2>2, <3>1
    <3> QED BY <2>3, <3>1, <3>2
  <2>5. pv[Dummy(b)] = IF s = <<>> THEN Dummy(b) ELSE Last(s)
    <3>1. Len(s) \in 0 .. Len(s)
      BY <2>1
    <3>2. pv[Dummy(b)] = At(b, s, Len(s))
      BY <2>2, <2>3, <3>1
    <3>3. CASE s = <<>>
      BY <2>3, <3>2, <3>3
    <3>4. CASE s # <<>>
      <4>1. Len(s) \in 1 .. Len(s) /\ Last(s) = s[Len(s)]
        BY <2>1, <3>4 DEF Last
      <4> QED BY <2>3, <3>2, <3>4, <4>1
    <3> QED BY <3>3, <3>4
  <2>6. InOrderAlong(pv, b, s)
    BY <2>1, <2>4, <2>5 DEF InOrderAlong
  <2> QED BY <2>6 DEF s
<1>4. ASSUME NEW b \in Block
      PROVE  (CHOOSE c \in {IF InOrderAlong(pv, b, ring) THEN ring ELSE Broken : ring \in {RingOf(nx, m, b)}} : TRUE) = lists[b]
  <2>1. {IF InOrderAlong(pv, b, ring) THEN ring ELSE Broken : ring \in {RingOf(nx, m, b)}} = {lists[b]}
    BY <1>1, <1>3
  <2> QED BY <2>1, OnlyChoice
<1> QED BY <1>1, <1>2, <1>4 DEF ContentsAlong

LEMMA RingsHere ==
  ASSUME LinksTyped, RingsRight
  PROVE  Contents = Now
<1>1. ContentsAlong(next, prev, Len(insts)) = Now
  BY ContentsOfRings DEF LinksTyped, RingsRight
<1> QED BY <1>1 DEF Contents, ContentsAlong, InOrderAlong, InOrder, Ring

LEMMA RingsAfter ==
  ASSUME LinksTyped', NEW lists, AreRings(next', prev', lists, Len(insts'))
  PROVE  Now' = lists /\ Contents' = lists /\ RingsRight'
<1>1. [b \in Block |-> RingOf(next', Len(insts'), b)] = lists /\ ContentsAlong(next', prev', Len(insts')) = lists
  BY ContentsOfRings DEF LinksTyped
<1>2. Now' = lists
  BY <1>1 DEF Now, Ring
<1>3. Contents' = lists
  BY <1>1 DEF Contents, ContentsAlong, InOrderAlong, InOrder, Ring
<1> QED BY <1>2, <1>3 DEF RingsRight

-----------------------------------------------------------------------------
(***************************************************************************)
(* What an instruction that is made, and some that are taken out, do to    *)
(* the lists.                                                              *)
(***************************************************************************)
LEMMA OwnElements ==
  ASSUME NEW T, NEW s \in Seq(T)
  PROVE  s \in Seq({s[i] : i \in DOMAIN s})
<1>1. s \in [1 .. Len(s) -> {s[i] : i \in DOMAIN s}] /\ Len(s) \in Nat
  OBVIOUS
<1> QED BY <1>1

LEMMA MembersKnown ==
  ASSUME RingsRight, Len(insts) \in Nat
  PROVE  /\ \A b \in Block : Listed(Now, Len(insts), b)
         /\ Members(Now) \subseteq Made
         /\ \A b, c \in Block : \A i : i \in ToSet(Now[b]) /\ i \in ToSet(Now[c]) => b = c
<1>1. \A b \in Block : Listed(Now, Len(insts), b)
  BY ListedPlace DEF RingsRight
<1>2. \A b \in Block : ToSet(Now[b]) \subseteq 1 .. Len(insts)
  BY <1>1 DEF Listed
<1>3. \A b, c \in Block : b # c => ToSet(Now[b]) \cap ToSet(Now[c]) = {}
  BY <1>1 DEF Listed
<1> QED BY <1>1, <1>2, <1>3 DEF Members, Made

LEMMA Placed ==
  ASSUME LinksTyped, RingsRight, Len(insts) + 1 <= MaxInsts + NumBlocks,
         NEW b \in Block, NEW inst, NEW src,
         insts' = Append(insts, inst), IsInst(inst), InsertBefore(Len(insts) + 1, src),
         src = Dummy(b) \/ src = next[Dummy(b)]
  PROVE  /\ LinksTyped' /\ RingsRight'
         /\ Len(insts') = Len(insts) + 1 /\ insts'[Len(insts) + 1] = inst
         /\ \A i \in Made : i \in Made' /\ insts'[i] = insts[i]
         /\ src = Dummy(b) => Now' = [Now EXCEPT ![b] = Append(@, Len(insts) + 1)]
         /\ src = next[Dummy(b)] => Now' = [Now EXCEPT ![b] = <<Len(insts) + 1>> \o @]
         /\ Lists!Next
<1> DEFINE m == Len(insts)
           s == Now[b]
<1>1. m \in Nat /\ DOMAIN insts = 1 .. m /\ m + 1 <= MaxInsts + NumBlocks /\ m <= MaxInsts + NumBlocks
  BY Dummies DEF LinksTyped
<1>2. AreRings(next, prev, Now, m) /\ next \in [Node -> Node] /\ prev \in [Node -> Node]
  BY DEF RingsRight, LinksTyped
<1>3. s \in Seq(1 .. m) /\ Len(s) \in Nat /\ s \in Seq(1 .. m + 1) /\ m + 1 \in 1 .. m + 1
      /\ Now = [c \in Block |-> Now[c]] /\ m + 1 \notin Members(Now)
  <2>1. \A c \in Block : Listed(Now, m, c)
    BY <1>2, ListedPlace
  <2>2. s \in Seq(1 .. m) /\ Len(s) \in Nat /\ \A c \in Block : ToSet(Now[c]) \subseteq 1 .. m
    BY <2>1 DEF Listed
  <2>3. s \in Seq(1 .. m + 1)
    BY <1>1, <2>2
  <2>4. m + 1 \notin 1 .. m
    BY <1>1
  <2>5. m + 1 \notin Members(Now)
    BY <2>2, <2>4 DEF Members
  <2>6. Now = [c \in Block |-> Now[c]]
    BY DEF Now
  <2> QED BY <1>1, <2>2, <2>3, <2>5, <2>6
<1>4. /\ insts' \in Seq({insts'[i] : i \in DOMAIN insts'})
      /\ Len(insts') = m + 1 /\ DOMAIN insts' = 1 .. m + 1
      /\ insts'[m + 1] = inst /\ \A i \in 1 .. m : insts'[i] = insts[i]
  <2>1. PICK T : insts \in Seq(T)
    BY Zenon DEF LinksTyped
  <2>2. PICK T2 : T2 = T \cup {inst}
    OBVIOUS
  <2>3. insts \in Seq(T2) /\ inst \in T2
    <3>1. \A i \in 1 .. m : insts[i] \in T2
      BY <1>1, <2>1, <2>2
    <3>2. insts \in [1 .. m -> T2]
      BY <1>1, <2>1, <3>1
    <3> QED BY <1>1, <2>2, <3>2
  <2>4. Len(insts') = m + 1 /\ DOMAIN insts' = 1 .. m + 1 /\ insts' \in Seq(T2)
        /\ insts'[m + 1] = inst /\ \A i \in 1 .. m : insts'[i] = insts[i]
    BY <2>3
  <2>5. \A t : t \in Seq(T2) => t \in Seq({t[i] : i \in DOMAIN t})
    BY OwnElements
  <2>6. insts' \in Seq({insts'[i] : i \in DOMAIN insts'})
    <3>1. PICK s2 : s2 = insts'
      OBVIOUS
    <3>2. s2 \in Seq({s2[i] : i \in DOMAIN s2})
      BY <2>4, <2>5, <3>1
    <3> QED BY <3>1, <3>2, Zenon
  <2> HIDE DEF m
  <2> QED BY <2>4, <2>6, Zenon
<1> HIDE DEF m, s
<1>5. ASSUME NEW k \in 0 .. Len(s), src = At(b, s, k + 1), NEW new, new = [Now EXCEPT ![b] = Inserted(@, k, m + 1)]
      PROVE  LinksTyped' /\ RingsRight' /\ Now' = new /\ Contents' = new
  <2>1. LET nx2 == [next EXCEPT ![prev[src]] = m + 1, ![m + 1] = src]
            pv2 == [prev EXCEPT ![m + 1] = prev[src], ![src] = m + 1]
        IN  /\ nx2 \in [Node -> Node] /\ pv2 \in [Node -> Node]
            /\ AreRings(nx2, pv2, [Now EXCEPT ![b] = Inserted(@, k, m + 1)], m + 1)
    BY <1>1, <1>2, <1>5, InsertRing DEF s
  <2>2. next' \in [Node -> Node] /\ prev' \in [Node -> Node] /\ AreRings(next', prev', new, m + 1)
    BY <1>5, <2>1 DEF InsertBefore, m
  <2>3. LinksTyped'
    <3>1. \A i \in 1 .. m : IsInst(insts[i])
      BY <1>1 DEF LinksTyped
    <3>2. \A i \in 1 .. m + 1 : i = m + 1 \/ i \in 1 .. m
      BY <1>1
    <3>3. \A i \in 1 .. m + 1 : IsInst(insts'[i])
      BY <1>4, <3>1, <3>2
    <3>4. \A i \in DOMAIN insts' : IsInst(insts'[i])
      BY <1>4, <3>3
    <3> QED BY <1>1, <1>4, <2>2, <3>4 DEF LinksTyped
  <2> QED BY <1>4, <2>2, <2>3, RingsAfter
<1>6. Contents = Now
  BY RingsHere
<1>7. Inserted(s, 0, m + 1) = <<m + 1>> \o s /\ Inserted(s, Len(s), m + 1) = Append(s, m + 1)
  BY <1>3, InsertedAtEnds
<1>8. ASSUME src = Dummy(b)
      PROVE  LinksTyped' /\ RingsRight' /\ Now' = [Now EXCEPT ![b] = Append(@, m + 1)] /\ Contents' = Now'
  <2>1. Len(s) \in 0 .. Len(s) /\ src = At(b, s, Len(s) + 1)
    BY <1>1, <1>3, <1>8, AtPlace
  <2>2. [Now EXCEPT ![b] = Inserted(@, Len(s), m + 1)] = [Now EXCEPT ![b] = Append(@, m + 1)]
    BY <1>7 DEF s
  <2>3. PICK new : new = [Now EXCEPT ![b] = Inserted(@, Len(s), m + 1)]
    OBVIOUS
  <2> QED BY <1>5, <2>1, <2>2, <2>3
<1>9. ASSUME src = next[Dummy(b)]
      PROVE  LinksTyped' /\ RingsRight' /\ Now' = [Now EXCEPT ![b] = <<m + 1>> \o @] /\ Contents' = Now'
  <2>1. 0 \in 0 .. Len(s) /\ src = At(b, s, 0 + 1)
    <3>1. At(b, s, 0) = Dummy(b) /\ 0 \in 0 .. Len(s)
      BY <1>1, <1>3, AtPlace
    <3>2. next[At(b, s, 0)] = At(b, s, 0 + 1)
      BY <1>2, <3>1 DEF AreRings, IsRing, s
    <3> QED BY <1>9, <3>1, <3>2
  <2>2. [Now EXCEPT ![b] = Inserted(@, 0, m + 1)] = [Now EXCEPT ![b] = <<m + 1>> \o @]
    BY <1>7 DEF s
  <2>3. PICK new : new = [Now EXCEPT ![b] = Inserted(@, 0, m + 1)]
    OBVIOUS
  <2> QED BY <1>5, <2>1, <2>2, <2>3
<1>10. Lists!Everywhere(Now) = Members(Now)
  BY DEF Lists!Everywhere, Members, Lists!ToSet, ToSet
<1>11. CASE src = Dummy(b)
  <2>1. Lists!InsertBack(Contents, Contents', b)
    <3>1. Contents' = [Now EXCEPT ![b] = Append(@, m + 1)]
      BY <1>8, <1>11
    <3>2. Contents'[b] = Append(s, m + 1)
      BY <1>3, <3>1 DEF s
    <3>3. Append(s, m + 1) # <<>> /\ Last(Append(s, m + 1)) = m + 1
      BY <1>3 DEF Last
    <3> QED BY <1>3, <1>6, <1>10, <3>1, <3>2, <3>3 DEF Lists!InsertBack, Lists!Last, Last
  <2>2. Lists!Next
    BY <2>1 DEF Lists!Next
  <2>3. src = next[Dummy(b)] => Now' = [Now EXCEPT ![b] = <<m + 1>> \o @]
    BY <1>9
  <2> QED BY <1>1, <1>4, <1>8, <1>11, <2>2, <2>3 DEF Made, m
<1>12. CASE src = next[Dummy(b)]
  <2>1. Lists!InsertFront(Contents, Contents', b)
    <3>1. Contents' = [Now EXCEPT ![b] = <<m + 1>> \o @]
      BY <1>9, <1>12
    <3>2. Contents'[b] = <<m + 1>> \o s
      BY <1>3, <3>1 DEF s
    <3>3. <<m + 1>> \o s # <<>> /\ Head(<<m + 1>> \o s) = m + 1
      BY <1>3
    <3> QED BY <1>3, <1>6, <1>10, <3>1, <3>2, <3>3 DEF Lists!InsertFront
  <2>2. Lists!Next
    BY <2>1 DEF Lists!Next
  <2>3. src = Dummy(b) => Now' = [Now EXCEPT ![b] = Append(@, m + 1)]
    BY <1>8
  <2> QED BY <1>1, <1>4, <1>9, <1>12, <2>2, <2>3 DEF Made, m
<1> QED BY <1>11, <1>12

LEMMA TakenOut ==
  ASSUME LinksTyped, RingsRight, UNCHANGED insts, NEW home \in Block, NEW i \in ToSet(Now[home]),
         NEW others \in Seq(Members(Now)), IsInjective(others), i \notin ToSet(others),
         Unlink(<<i, i>> \o others)
  PROVE  /\ LinksTyped' /\ RingsRight' /\ Lists!Next
         /\ \A b \in Block : ToSet(Now'[b]) = ToSet(Now[b]) \ ({i} \cup ToSet(others))
         /\ Sublists(Now', Now)
         /\ \A x \in ({i} \cup ToSet(others)) \cap ToSet(Now[home]) :
              next'[x] \in (ToSet(Now[home]) \ {i}) \cup {Dummy(home)}
<1> DEFINE m == Len(insts)
           links == [next |-> next, prev |-> prev]
           seq == <<i, i>> \o others
           gone == {i} \cup ToSet(others)
           after == UnlinkedAll(links, seq)
<1>1. m \in Nat /\ m <= MaxInsts + NumBlocks /\ links \in Links /\ AreRings(next, prev, Now, m)
      /\ links.next = next /\ links.prev = prev
  BY DEF LinksTyped, RingsRight, Links
<1> HIDE DEF m, links
<1>2. PICK new : Taken(after, new, Now, m, gone, home, i)
  <2>1. AreRings(links.next, links.prev, Now, m)
    BY <1>1
  <2> QED BY <1>1, <2>1, TakeAll
<1>3. next' = after.next /\ prev' = after.prev
  BY DEF Unlink, links
<1> HIDE DEF after, seq, gone
<1>4. /\ after \in Links /\ AreRings(after.next, after.prev, new, m)
      /\ \A b \in Block : ToSet(new[b]) = ToSet(Now[b]) \ gone
      /\ Sublists(new, Now)
      /\ \A x \in gone \cap ToSet(Now[home]) : after.next[x] \in (ToSet(Now[home]) \ {i}) \cup {Dummy(home)}
  BY <1>2 DEF Taken
<1>5. LinksTyped'
  BY <1>3, <1>4 DEF LinksTyped, Links
<1>6. Now' = new /\ Contents' = new /\ RingsRight'
  BY <1>3, <1>4, <1>5, RingsAfter DEF m
<1>7. Contents = Now
  BY RingsHere
<1>8. Lists!TakeOut(Contents, Contents')
  <2> SUFFICES ASSUME NEW b \in Block
               PROVE  /\ ToSet(new[b]) \subseteq ToSet(Now[b])
                      /\ \A k \in 1 .. Len(new[b]) - 1 : Lists!InOrderOf(Now[b], new[b][k], new[b][k + 1])
    <3> SUFFICES \A b \in Block :
                   /\ Lists!ToSet(new[b]) \subseteq Lists!ToSet(Now[b])
                   /\ \A k \in 1 .. Len(new[b]) - 1 : Lists!InOrderOf(Now[b], new[b][k], new[b][k + 1])
      BY <1>6, <1>7 DEF Lists!TakeOut
    <3>1. \A s : Lists!ToSet(s) = ToSet(s)
      BY DEF Lists!ToSet, ToSet
    <3> QED BY <3>1
  <2>1. ToSet(new[b]) \subseteq ToSet(Now[b])
    BY <1>4
  <2>2. Listed(new, m, b)
    BY <1>1, <1>4, ListedPlace
  <2>3. DOMAIN new[b] = 1 .. Len(new[b]) /\ Len(new[b]) \in Nat
    BY <2>2 DEF Listed
  <2>4. ASSUME NEW k \in 1 .. Len(new[b]) - 1 PROVE Lists!InOrderOf(Now[b], new[b][k], new[b][k + 1])
    <3>1. k \in DOMAIN new[b] /\ k + 1 \in DOMAIN new[b] /\ k < k + 1
      BY <2>3
    <3>2. \E x, y \in DOMAIN Now[b] : x < y /\ Now[b][x] = new[b][k] /\ Now[b][y] = new[b][k + 1]
      BY <1>4, <3>1 DEF Sublists
    <3> QED BY <3>2 DEF Lists!InOrderOf
  <2> QED BY <2>1, <2>4
<1>9. Lists!Next
  BY <1>8 DEF Lists!Next
<1> QED BY <1>3, <1>4, <1>5, <1>6, <1>9 DEF gone

-----------------------------------------------------------------------------
(***************************************************************************)
(* The program that is generated.                                          *)
(***************************************************************************)
LEMMA BlockOfNext ==
  ASSUME NEW p, NEW k \in Nat \ {0}
  PROVE  /\ BlockOf(p, k) \in Nat \ {0}
         /\ BlockOf(p, k + 1) = IF p[k].op = "next" THEN BlockOf(p, k) + 1 ELSE BlockOf(p, k)
<1> DEFINE Nexts(n) == {j \in 1 .. n - 1 : p[j].op = "next"}
<1>1. ASSUME NEW n \in Nat PROVE IsFiniteSet(Nexts(n)) /\ Cardinality(Nexts(n)) \in Nat
  <2>1. IsFiniteSet(1 .. n - 1)
    BY FS_Interval
  <2>2. IsFiniteSet(Nexts(n))
    BY <2>1, FS_Subset
  <2> QED BY <2>2, FS_CardinalityType
<1>2. 1 .. (k + 1) - 1 = (1 .. k - 1) \cup {k} /\ k \notin 1 .. k - 1 /\ k + 1 \in Nat
  OBVIOUS
<1>b. \A n \in Nat : BlockOf(p, n) = 1 + Cardinality(Nexts(n))
  BY DEF BlockOf
<1>3. CASE p[k].op = "next"
  <2>1. Nexts(k + 1) = Nexts(k) \cup {k} /\ k \notin Nexts(k)
    BY <1>2, <1>3
  <2> HIDE DEF Nexts
  <2>2. Cardinality(Nexts(k + 1)) = Cardinality(Nexts(k)) + 1
    BY <1>1, <2>1, FS_AddElement
  <2> QED BY <1>1, <1>2, <1>3, <1>b, <2>2
<1>4. CASE p[k].op # "next"
  <2>1. Nexts(k + 1) = Nexts(k)
    BY <1>2, <1>4
  <2> HIDE DEF Nexts
  <2> QED BY <1>1, <1>2, <1>4, <1>b, <2>1
<1> QED BY <1>3, <1>4

LEMMA GeneratedOn ==
  ASSUME Generated, LinksTyped, NEW op, Calls(op)
  PROVE  /\ Len(insts) + 1 <= MaxInsts + NumBlocks
         /\ insertBB \in Block /\ todo[1].op = op /\ todo[1] \in [op : Ops, var : Var]
         /\ op \in {"cond", "br"} => Branches[insertBB] # <<>>
         /\ Len(insts') \in Nat /\ Len(insts') <= Len(insts) + 1
            /\ insertBB' = (IF op = "next" THEN insertBB + 1 ELSE insertBB) => Generated'
<1>1. stage = "making" /\ todo # <<>> /\ todo[1].op = op /\ todo' = Tail(todo) /\ stage' = "making"
  BY DEF Calls
<1>2. PICK p \in Programs : \E n \in 0 .. Len(p) :
        todo = SubSeq(p, n + 1, Len(p)) /\ Len(insts) <= n /\ insertBB = BlockOf(p, n + 1)
  BY <1>1 DEF Generated
<1>3. PICK n \in 0 .. Len(p) :
        todo = SubSeq(p, n + 1, Len(p)) /\ Len(insts) <= n /\ insertBB = BlockOf(p, n + 1)
  BY <1>2
<1>4. /\ p \in Seq([op : Ops, var : Var]) /\ Len(p) \in Nat /\ Len(p) <= MaxInsts
      /\ \A k \in 1 .. Len(p) + 1 : BlockOf(p, k) <= NumBlocks
      /\ \A k \in DOMAIN p : p[k].op \in {"cond", "br"} => Branches[BlockOf(p, k)] # <<>>
  <2>1. p \in Seq([op : Ops, var : Var])
    BY ProgramsAssumption
  <2> QED BY <2>1, ProgramsAssumption
<1>5. n < Len(p) /\ todo[1] = p[n + 1] /\ todo' = SubSeq(p, (n + 1) + 1, Len(p))
  <2>1. n # Len(p)
    BY <1>1, <1>3, <1>4
  <2>2. n < Len(p) /\ Len(todo) = Len(p) - n /\ todo[1] = p[n + 1]
    BY <1>3, <1>4, <2>1
  <2>3. Tail(SubSeq(p, n + 1, Len(p))) = SubSeq(p, (n + 1) + 1, Len(p))
    BY <1>4, <2>2
  <2> QED BY <1>1, <1>3, <2>2, <2>3
<1>6. n + 1 \in DOMAIN p /\ n + 1 \in 1 .. Len(p) + 1 /\ n + 1 \in Nat \ {0} /\ n + 1 \in 0 .. Len(p)
  BY <1>4, <1>5
<1>7. insertBB \in Nat \ {0} /\ insertBB <= NumBlocks /\ NumBlocks \in Nat
  BY <1>3, <1>4, <1>6, BlockOfNext, Dummies
<1>8. insertBB \in Block
  BY <1>7 DEF Block
<1>9. Len(insts) + 1 <= MaxInsts + NumBlocks
  BY <1>3, <1>4, <1>5, Dummies DEF LinksTyped
<1>10. ASSUME Len(insts') \in Nat, Len(insts') <= Len(insts) + 1,
              insertBB' = IF op = "next" THEN insertBB + 1 ELSE insertBB
       PROVE  Generated'
  <2>1. insertBB' = BlockOf(p, (n + 1) + 1)
    BY <1>1, <1>3, <1>5, <1>6, <1>10, BlockOfNext
  <2>2. Len(insts') <= n + 1
    BY <1>3, <1>4, <1>10 DEF LinksTyped
  <2>3. \E k \in 0 .. Len(p) : todo' = SubSeq(p, k + 1, Len(p)) /\ Len(insts') <= k /\ insertBB' = BlockOf(p, k + 1)
    BY <1>5, <1>6, <2>1, <2>2
  <2> QED BY <1>1, <2>3 DEF Generated
<1>11. todo[1] \in [op : Ops, var : Var]
  <2>1. PICK S : S = [op : Ops, var : Var]
    OBVIOUS
  <2>2. p \in Seq(S)
    BY <1>4, <2>1
  <2>3. todo[1] \in S
    BY <1>5, <1>6, <2>2
  <2> QED BY <2>1, <2>3
<1>12. op \in {"cond", "br"} => Branches[insertBB] # <<>>
  BY <1>1, <1>3, <1>4, <1>5, <1>6
<1> QED BY <1>1, <1>8, <1>9, <1>10, <1>11, <1>12

-----------------------------------------------------------------------------
(***************************************************************************)
(* Walking and choosing.                                                   *)
(***************************************************************************)
LEMMA NextOf ==
  ASSUME LinksTyped, RingsRight, NEW b \in Block
  PROVE  /\ next[Dummy(b)] \in ToSet(Now[b]) \cup {Dummy(b)}
         /\ next[Dummy(b)] = Dummy(b) => Now[b] = <<>>
         /\ \A i \in ToSet(Now[b]) : next[i] \in (ToSet(Now[b]) \ {i}) \cup {Dummy(b)}
<1> DEFINE s == Now[b]
           m == Len(insts)
<1>1. m \in Nat /\ m <= MaxInsts + NumBlocks /\ AreRings(next, prev, Now, m)
  BY DEF LinksTyped, RingsRight
<1>2. /\ Len(s) \in Nat /\ s \in Seq(1 .. m) /\ \A j, k \in 1 .. Len(s) : s[j] = s[k] => j = k
      /\ \A x : x \in ToSet(s) <=> \E k \in 1 .. Len(s) : s[k] = x
  <2>1. Listed(Now, m, b)
    BY <1>1, ListedPlace
  <2> QED BY <2>1 DEF Listed
<1>3. \A k \in 0 .. Len(s) : next[At(b, s, k)] = At(b, s, k + 1)
  BY <1>1 DEF AreRings, IsRing
<1> HIDE DEF s, m
<1>4. /\ \A k \in 1 .. Len(s) : At(b, s, k) = s[k] /\ s[k] \in 1 .. m
      /\ At(b, s, 0) = Dummy(b) /\ At(b, s, Len(s) + 1) = Dummy(b)
  BY <1>1, <1>2, AtPlace
<1>5. \A k \in 0 .. Len(s) : At(b, s, k + 1) \in ToSet(s) \cup {Dummy(b)}
  <2> SUFFICES ASSUME NEW k \in 0 .. Len(s) PROVE At(b, s, k + 1) \in ToSet(s) \cup {Dummy(b)}
    OBVIOUS
  <2>1. k + 1 \in 1 .. Len(s) \/ k + 1 = Len(s) + 1
    BY <1>2
  <2> QED BY <1>2, <1>4, <2>1
<1>6. next[Dummy(b)] \in ToSet(s) \cup {Dummy(b)} /\ (next[Dummy(b)] = Dummy(b) => s = <<>>)
  <2>1. 0 \in 0 .. Len(s) /\ 0 + 1 = 1
    BY <1>2
  <2>2. next[Dummy(b)] = At(b, s, 0 + 1)
    BY <1>3, <1>4, <2>1
  <2>3. s # <<>> => 1 \in 1 .. Len(s)
    BY <1>2
  <2>4. s # <<>> => next[Dummy(b)] \in 1 .. m
    BY <1>4, <2>2, <2>3
  <2>5. Dummy(b) \notin 1 .. m
    BY <1>1, Dummies
  <2> QED BY <1>5, <2>1, <2>2, <2>4, <2>5
<1>7. ASSUME NEW i \in ToSet(s) PROVE next[i] \in (ToSet(s) \ {i}) \cup {Dummy(b)}
  <2>1. PICK k \in 1 .. Len(s) : s[k] = i
    BY <1>2
  <2>2. k \in 0 .. Len(s) /\ (k + 1 \in 1 .. Len(s) \/ k + 1 = Len(s) + 1) /\ k # k + 1
    BY <1>2
  <2>3. next[i] = At(b, s, k + 1)
    BY <1>3, <1>4, <2>1, <2>2
  <2>4. CASE k + 1 \in 1 .. Len(s)
    <3>1. next[i] = s[k + 1] /\ s[k + 1] # i
      BY <1>2, <1>4, <2>1, <2>2, <2>3, <2>4
    <3> QED BY <1>2, <2>4, <3>1
  <2>5. CASE k + 1 = Len(s) + 1
    BY <1>4, <2>3, <2>5
  <2> QED BY <2>2, <2>4, <2>5
<1> QED BY <1>6, <1>7 DEF s

LEMMA ThoseFrom ==
  ASSUME NEW T, NEW s \in Seq(T), NEW places, places \subseteq DOMAIN s
  PROVE  /\ Those(s, places) \in Seq(T) /\ ToSet(Those(s, places)) = {s[k] : k \in places}
         /\ IsInjective(s) => IsInjective(Those(s, places))
         /\ \A x, y \in DOMAIN Those(s, places) : x < y =>
              \E j, k \in places : j < k /\ s[j] = Those(s, places)[x] /\ s[k] = Those(s, places)[y]
         /\ Those(s, places) # <<>> =>
              \E k \in places : Last(Those(s, places)) = s[k] /\ \A j \in places : j <= k
<1> DEFINE c == Those(s, places)
<1>1. c = Chosen(s, places)
  BY DEF Those, Chosen
<1> HIDE DEF c
<1>2. c \in Seq(T) /\ \E from : ChosenAt(c, s, places, from)
  BY <1>1, ChosenFrom
<1>3. PICK from : ChosenAt(c, s, places, from)
  BY <1>2
<1>n. DOMAIN c = 1 .. Len(c) /\ Len(c) \in Nat
  BY <1>2
<1>4. /\ from \in [1 .. Len(c) -> places]
      /\ \A x \in 1 .. Len(c) : c[x] = s[from[x]]
      /\ \A x, y \in 1 .. Len(c) : x < y => from[x] < from[y]
      /\ \A i \in places : \E x \in 1 .. Len(c) : from[x] = i
  BY <1>3 DEF ChosenAt
<1>5. DOMAIN s \subseteq Int
  OBVIOUS
<1>6. ToSet(c) = {s[k] : k \in places}
  <2>1. ToSet(c) = {c[x] : x \in 1 .. Len(c)}
    BY <1>4, <1>n DEF ToSet
  <2> QED BY <1>4, <1>n, <2>1
<1>7. ASSUME IsInjective(s) PROVE IsInjective(c)
  <2> SUFFICES ASSUME NEW x \in 1 .. Len(c), NEW y \in 1 .. Len(c), c[x] = c[y] PROVE x = y
    BY <1>4, <1>n DEF IsInjective
  <2>1. from[x] \in DOMAIN s /\ from[y] \in DOMAIN s /\ s[from[x]] = s[from[y]]
    BY <1>4, <1>n
  <2>2. from[x] = from[y]
    BY <1>7, <2>1 DEF IsInjective
  <2>3. ~(x < y) /\ ~(y < x)
    BY <1>4, <1>n, <1>5, <2>1, <2>2
  <2> QED BY <1>4, <1>n, <2>3
<1>8. ASSUME c # <<>> PROVE \E k \in places : Last(c) = s[k] /\ \A j \in places : j <= k
  <2>1. Len(c) \in 1 .. Len(c) /\ Last(c) = c[Len(c)]
    BY <1>2, <1>4, <1>n, <1>8 DEF Last
  <2>2. from[Len(c)] \in places /\ Last(c) = s[from[Len(c)]]
    BY <1>4, <1>n, <2>1
  <2>3. ASSUME NEW j \in places PROVE j <= from[Len(c)]
    <3>1. PICK x \in 1 .. Len(c) : from[x] = j
      BY <1>4, <1>n
    <3>2. x < Len(c) \/ x = Len(c)
      <4>1. \A l \in Nat : x \in 1 .. l => x < l \/ x = l
        OBVIOUS
      <4> QED BY <1>n, <4>1
    <3>3. j \in Int /\ from[Len(c)] \in Int
      BY <1>5, <2>2
    <3>4. CASE x < Len(c)
      <4>1. from[x] < from[Len(c)]
        BY <1>4, <2>1, <3>4
      <4> QED BY <3>1, <3>3, <4>1
    <3>5. CASE x = Len(c)
      BY <3>1, <3>3, <3>5
    <3> QED BY <3>2, <3>4, <3>5
  <2> QED BY <2>2, <2>3
<1>9. ASSUME NEW x \in DOMAIN c, NEW y \in DOMAIN c, x < y
      PROVE  \E j, k \in places : j < k /\ s[j] = c[x] /\ s[k] = c[y]
  <2>1. from[x] \in places /\ from[y] \in places /\ from[x] < from[y]
    BY <1>4, <1>n, <1>9
  <2> QED BY <1>4, <1>n, <2>1
<1> QED BY <1>2, <1>6, <1>7, <1>8, <1>9 DEF c

LEMMA PathIs ==
  ASSUME LinksTyped, RingsRight
  PROVE  Path \in Seq(Members(Now)) /\ ToSet(Path) = Members(Now) /\ IsInjective(Path)
<1> DEFINE ss == [b \in Block |-> Now[b]]
           m == Len(insts)
           S == Members(Now)
<1>1. m \in Nat /\ AreRings(next, prev, Now, m)
  BY DEF LinksTyped, RingsRight
<1>2. \A b \in Block : /\ Len(Now[b]) \in Nat /\ DOMAIN Now[b] = 1 .. Len(Now[b]) /\ Now[b] \in Seq(1 .. m)
                       /\ \A x : x \in ToSet(Now[b]) <=> \E k \in 1 .. Len(Now[b]) : Now[b][k] = x
  <2>1. \A b \in Block : Listed(Now, m, b)
    BY <1>1, ListedPlace
  <2> QED BY <2>1 DEF Listed
<1>3. \A b, c \in Block : \A j \in 1 .. Len(Now[b]), k \in 1 .. Len(Now[c]) : Now[b][j] = Now[c][k] => b = c /\ j = k
  <2>1. \A b, c \in Block : \A j \in DOMAIN Now[b], k \in DOMAIN Now[c] : Now[b][j] = Now[c][k] => b = c /\ j = k
    BY <1>1, Zenon DEF AreRings
  <2> QED BY <1>2, <2>1
<1>4. Path = FlattenSeq(ss)
  BY RingsHere DEF Path
<1> HIDE DEF m
<1>5. Block = 1 .. NumBlocks /\ NumBlocks \in Nat /\ NumBlocks >= 1
  BY SizeAssumption DEF Block
<1>6. \A b \in Block : \A k \in 1 .. Len(Now[b]) : Now[b][k] \in S
  BY <1>2 DEF Members
<1>7. ss \in [1 .. NumBlocks -> Seq(S)] /\ \A b \in 1 .. NumBlocks : ss[b] = Now[b]
  <2>1. \A b \in Block : Now[b] \in [1 .. Len(Now[b]) -> S]
    BY <1>2, <1>6
  <2>2. \A b \in Block : Now[b] \in Seq(S)
    <3> HIDE DEF S
    <3> QED BY <1>2, <2>1
  <2> HIDE DEF S
  <2> QED BY <1>5, <2>2
<1> HIDE DEF ss, S
<1>8. Path \in Seq(S) /\ \E at : Places(Path, ss, NumBlocks, at)
  BY <1>4, <1>5, <1>7, FlattenPlaces
<1>9. PICK at : Places(Path, ss, NumBlocks, at)
  BY <1>8
<1>10. /\ at \in [0 .. NumBlocks -> Nat] /\ Len(Path) \in Nat /\ DOMAIN Path = 1 .. Len(Path)
       /\ \A k \in 1 .. NumBlocks : at[k] = at[k - 1] + Len(Now[k])
       /\ \A x \in 1 .. Len(Path) : \E k \in 1 .. NumBlocks : at[k - 1] < x /\ x <= at[k]
       /\ \A k \in 1 .. NumBlocks : \A o \in 1 .. Len(Now[k]) : Path[at[k - 1] + o] = Now[k][o]
       /\ at[NumBlocks] = Len(Path) /\ \A j, k \in 0 .. NumBlocks : j <= k => at[j] <= at[k]
  BY <1>7, <1>8, <1>9 DEF Places
<1>11. ASSUME NEW x \in 1 .. Len(Path)
       PROVE  \E k \in Block : \E o \in 1 .. Len(Now[k]) : x = at[k - 1] + o /\ Path[x] = Now[k][o]
  <2>1. PICK k \in 1 .. NumBlocks : at[k - 1] < x /\ x <= at[k]
    BY <1>10
  <2>2. at[k - 1] \in Nat /\ at[k] \in Nat /\ at[k] = at[k - 1] + Len(Now[k]) /\ Len(Now[k]) \in Nat
    <3>1. k - 1 \in 0 .. NumBlocks /\ k \in 0 .. NumBlocks
      BY <1>5
    <3> QED BY <1>2, <1>5, <1>10, <3>1
  <2>3. PICK o : o = x - at[k - 1]
    OBVIOUS
  <2>4. o \in 1 .. Len(Now[k]) /\ x = at[k - 1] + o
    BY <2>1, <2>2, <2>3
  <2> QED BY <1>5, <1>10, <2>4
<1>12. IsInjective(Path)
  <2> SUFFICES ASSUME NEW x \in 1 .. Len(Path), NEW y \in 1 .. Len(Path), Path[x] = Path[y] PROVE x = y
    BY <1>10 DEF IsInjective
  <2>1. PICK k \in Block : \E o \in 1 .. Len(Now[k]) : x = at[k - 1] + o /\ Path[x] = Now[k][o]
    BY <1>11
  <2>2. PICK l \in Block : \E q \in 1 .. Len(Now[l]) : y = at[l - 1] + q /\ Path[y] = Now[l][q]
    BY <1>11
  <2> QED BY <1>3, <2>1, <2>2
<1>13. ASSUME NEW b \in Block, NEW o \in 1 .. Len(Now[b]) PROVE \E x \in 1 .. Len(Path) : Path[x] = Now[b][o]
  <2>1. b - 1 \in 0 .. NumBlocks /\ b \in 0 .. NumBlocks /\ NumBlocks \in 0 .. NumBlocks /\ b <= NumBlocks
    BY <1>5
  <2>2. at[b - 1] \in Nat /\ at[b] = at[b - 1] + Len(Now[b]) /\ at[b] <= Len(Path) /\ Len(Now[b]) \in Nat
    BY <1>2, <1>5, <1>10, <2>1
  <2>3. at[b - 1] + o \in 1 .. Len(Path)
    BY <1>10, <2>2
  <2> QED BY <1>5, <1>10, <2>3
<1>14. ToSet(Path) = S
  <2>1. ToSet(Path) = {Path[x] : x \in 1 .. Len(Path)}
    BY <1>10 DEF ToSet
  <2>2. \A x \in 1 .. Len(Path) : Path[x] \in S
    BY <1>8
  <2>3. ASSUME NEW i \in S PROVE \E x \in 1 .. Len(Path) : Path[x] = i
    <3>1. PICK b \in Block : i \in ToSet(Now[b])
      BY DEF S, Members
    <3>2. PICK o \in 1 .. Len(Now[b]) : Now[b][o] = i
      BY <1>2, <3>1
    <3> QED BY <1>13, <3>2
  <2> QED BY <2>1, <2>2, <2>3
<1> QED BY <1>8, <1>12, <1>14 DEF S

-----------------------------------------------------------------------------
(***************************************************************************)
(* The lists are lists while functions are generated and linked.           *)
(***************************************************************************)
\* A step of the abstract lists, or none.
ListsStep == Lists!Next \/ UNCHANGED Contents

LEMMA SameLists ==
  ASSUME LinksTyped, RingsRight, UNCHANGED <<insts, prev, next>>
  PROVE  LinksTyped' /\ RingsRight' /\ Now' = Now /\ Made' = Made /\ (\A i : Kind(i)' = Kind(i)) /\ ListsStep
<1>1. LinksTyped' /\ Made' = Made /\ \A i : Kind(i)' = Kind(i)
  BY DEF LinksTyped, Made, Kind
<1>2. Now' = Now
  BY DEF Now, Ring
<1>3. RingsRight'
  BY <1>2 DEF RingsRight
<1>4. Contents' = Contents
  BY DEF Contents, Ring, InOrder
<1> QED BY <1>1, <1>2, <1>3, <1>4 DEF ListsStep

LEMMA StartsRight ==
  ASSUME Start
  PROVE  ListsInv /\ Lists!Init
<1> DEFINE none == [b \in Block |-> <<>>]
<1>1. insts = <<>> /\ next = prev /\ prev = [i \in Node |-> i]
  BY DEF Start, Init, Node
<1>2. LinksTyped
  <2>1. \A i \in Node : i \in Node
    OBVIOUS
  <2>2. prev \in [Node -> Node] /\ next \in [Node -> Node]
    BY <1>1
  <2>3. insts \in Seq({insts[i] : i \in DOMAIN insts}) /\ DOMAIN insts = {} /\ Len(insts) = 0
    BY <1>1
  <2> QED BY <2>2, <2>3, Dummies DEF LinksTyped
<1>3. AreRings(next, prev, none, Len(insts))
  <2>1. Len(insts) = 0 /\ none \in [Block -> Seq(1 .. Len(insts))]
    BY <1>1
  <2>2. \A b \in Block : none[b] = <<>> /\ Len(none[b]) = 0 /\ DOMAIN none[b] = {}
    OBVIOUS
  <2>3. ASSUME NEW b \in Block PROVE IsRing(next, prev, b, none[b])
    <3>1. ASSUME NEW k \in 0 .. Len(none[b]) PROVE k = 0 /\ At(b, none[b], k) = Dummy(b) /\ At(b, none[b], k + 1) = Dummy(b)
      <4> HIDE DEF none
      <4> QED BY <2>2 DEF At
    <3>2. next[Dummy(b)] = Dummy(b) /\ prev[Dummy(b)] = Dummy(b)
      BY <1>1, Dummies
    <3> HIDE DEF none
    <3> QED BY <3>1, <3>2 DEF IsRing
  <2> HIDE DEF none
  <2> QED BY <2>1, <2>2, <2>3 DEF AreRings
<1>4. Now = none /\ Contents = none
  <2>1. [b \in Block |-> RingOf(next, Len(insts), b)] = none /\ ContentsAlong(next, prev, Len(insts)) = none
    <3> HIDE DEF none
    <3> QED BY <1>2, <1>3, ContentsOfRings DEF LinksTyped
  <2> HIDE DEF none
  <2> QED BY <2>1 DEF Now, Ring, Contents, ContentsAlong, InOrderAlong, InOrder
<1>5. RingsRight
  BY <1>3, <1>4 DEF RingsRight
<1>6. StageTyped
  <2>1. 1 \in Block /\ 0 \in Node
    BY SizeAssumption DEF Block, Node
  <2> QED BY <2>1 DEF StageTyped, Start, Init, Stages
<1>7. Generated
  <2>1. stage = "making" /\ todo \in Programs /\ insertBB = 1
    BY DEF Start, Init
  <2>2. todo \in Seq([op : Ops, var : Var])
    BY <2>1, ProgramsAssumption
  <2>3. todo = SubSeq(todo, 0 + 1, Len(todo)) /\ 0 \in 0 .. Len(todo) /\ Len(insts) <= 0
    BY <1>1, <2>2
  <2>4. BlockOf(todo, 0 + 1) = 1
    <3>1. {j \in 1 .. 1 - 1 : todo[j].op = "next"} = {}
      OBVIOUS
    <3> QED BY <3>1, FS_EmptySet DEF BlockOf
  <2>5. \E n \in 0 .. Len(todo) : todo = SubSeq(todo, n + 1, Len(todo)) /\ Len(insts) <= n /\ insertBB = BlockOf(todo, n + 1)
    BY <2>1, <2>3, <2>4
  <2> QED BY <2>1, <2>5 DEF Generated
<1>8. CursorRight /\ PlanRight /\ PlanShaped
  BY DEF Start, Init, CursorRight, PlanRight, PlanShaped, NoPlan
<1> QED BY <1>2, <1>4, <1>5, <1>6, <1>7, <1>8 DEF ListsInv, Lists!Init

LEMMA MakeOnLists ==
  ASSUME ListsInv, NEW op, Calls(op), op # "next",
         NEW kind, NEW operands, NEW fields, NEW front \in BOOLEAN, Make(kind, operands, fields, front),
         UNCHANGED <<insertBB, plan>>
  PROVE  ListsInv' /\ ListsStep
<1> USE DEF ListsInv
<1>1. Len(insts) + 1 <= MaxInsts + NumBlocks /\ insertBB \in Block
      /\ (Len(insts') \in Nat /\ Len(insts') <= Len(insts) + 1
            /\ insertBB' = (IF op = "next" THEN insertBB + 1 ELSE insertBB) => Generated')
  BY GeneratedOn
<1>2. stage = "making" /\ stage' = "making" /\ bb' = bb /\ cursor' = cursor
  BY DEF Calls
<1> DEFINE b == IF front THEN 1 ELSE insertBB
           src == IF front THEN next[Dummy(b)] ELSE Dummy(b)
           inst == [kind |-> kind, operands |-> operands, fields |-> fields, parent |-> b,
                    targets |-> IF kind \in {"cond", "br"} THEN Branches[b] ELSE <<>>]
<1>3. b \in Block /\ (src = Dummy(b) \/ src = next[Dummy(b)])
  BY <1>1, SizeAssumption DEF Block
<1>4. insts' = Append(insts, inst) /\ InsertBefore(Len(insts) + 1, src)
  BY DEF Make
<1>i. IsInst(inst)
  BY DEF IsInst
<1> HIDE DEF b, src, inst
<1>5. LinksTyped' /\ RingsRight' /\ Len(insts') = Len(insts) + 1 /\ Lists!Next
  BY <1>1, <1>3, <1>4, <1>i, Placed
<1>6. Generated'
  BY <1>1, <1>5 DEF LinksTyped
<1>7. StageTyped' /\ CursorRight' /\ PlanShaped' /\ PlanRight'
  BY <1>2 DEF StageTyped, CursorRight, PlanShaped, PlanRight
<1> QED BY <1>5, <1>6, <1>7 DEF ListsStep

LEMMA GenCodeOnLists ==
  ASSUME ListsInv, GenCode, UNCHANGED plan
  PROVE  ListsInv' /\ ListsStep
<1>1. CASE DeclStmt
  BY <1>1, MakeOnLists DEF DeclStmt
<1>2. CASE IdExpr
  BY <1>2, MakeOnLists DEF IdExpr
<1>3. CASE AssignStmt
  BY <1>3, MakeOnLists DEF AssignStmt
<1>4. CASE FuncCallExp
  BY <1>4, MakeOnLists DEF FuncCallExp
<1>5. CASE ToBool
  BY <1>5, MakeOnLists DEF ToBool
<1>6. CASE CondBr
  BY <1>6, MakeOnLists DEF CondBr
<1>7. CASE UncondBr
  BY <1>7, MakeOnLists DEF UncondBr
<1>8. CASE ReturnStmt
  BY <1>8, MakeOnLists DEF ReturnStmt
<1>9. ASSUME NEW op, Calls(op), UNCHANGED objects,
             insertBB' = IF op = "next" THEN insertBB + 1 ELSE insertBB
      PROVE  ListsInv' /\ ListsStep
  <2> USE DEF ListsInv
  <2>1. stage = "making" /\ stage' = "making" /\ bb' = bb /\ cursor' = cursor
    BY <1>9 DEF Calls
  <2>2. LinksTyped' /\ RingsRight' /\ ListsStep
    BY <1>9, SameLists DEF objects
  <2>3. Generated'
    <3>1. Len(insts') \in Nat /\ Len(insts') <= Len(insts) + 1
      BY <1>9 DEF objects, LinksTyped
    <3> QED BY <1>9, <3>1, GeneratedOn
  <2>4. StageTyped' /\ CursorRight' /\ PlanShaped' /\ PlanRight'
    BY <2>1 DEF StageTyped, CursorRight, PlanShaped, PlanRight
  <2> QED BY <2>2, <2>3, <2>4
<1>10. CASE ExprStmt
  BY <1>9, <1>10 DEF ExprStmt
<1>11. CASE SetInsertBB
  BY <1>9, <1>11 DEF SetInsertBB
<1> QED BY <1>1, <1>2, <1>3, <1>4, <1>5, <1>6, <1>7, <1>8, <1>10, <1>11 DEF GenCode

\* One instruction of a block goes, and nothing else with it.
LEMMA OneTakenOut ==
  ASSUME LinksTyped, RingsRight, NEW home \in Block, NEW i \in ToSet(Now[home]), Delete(i)
  PROVE  /\ LinksTyped' /\ RingsRight' /\ ListsStep /\ UNCHANGED insts
         /\ \A b \in Block : ToSet(Now'[b]) = ToSet(Now[b]) \ {i}
         /\ Sublists(Now', Now)
<1>e. PICK none : none = <<>>
  OBVIOUS
<1>1. UNCHANGED insts /\ Unlink(<<i, i>> \o none)
  BY <1>e DEF Delete, DeleteAnd
<1>2. none \in Seq(Members(Now)) /\ ToSet(none) = {} /\ IsInjective(none)
  BY <1>e DEF ToSet, IsInjective
<1>3. /\ LinksTyped' /\ RingsRight' /\ Lists!Next
      /\ \A b \in Block : ToSet(Now'[b]) = ToSet(Now[b]) \ ({i} \cup ToSet(none))
      /\ Sublists(Now', Now)
  BY <1>1, <1>2, TakenOut
<1>4. {i} \cup ToSet(none) = {i}
  BY <1>2
<1> QED BY <1>1, <1>3, <1>4 DEF ListsStep

LEMMA LinkOnLists ==
  ASSUME ListsInv, Link, UNCHANGED plan
  PROVE  ListsInv' /\ ListsStep
<1> USE DEF ListsInv
<1>0. NumBlocks \in Nat /\ MaxInsts \in Nat /\ bb \in Block /\ 1 \in Block /\ (bb # NumBlocks => bb + 1 \in Block)
      /\ \A b \in Block : b \in Nat /\ b <= NumBlocks /\ Dummy(b) \in Node
  BY SizeAssumption, Dummies DEF Block, StageTyped
<1>1. CASE BeginLink
  <2>1. stage = "making" /\ stage' = "linking" /\ bb' = 1 /\ cursor' = next[Dummy(1)] /\ UNCHANGED <<insts, prev, next>>
    BY <1>1 DEF BeginLink, objects
  <2>2. LinksTyped' /\ RingsRight' /\ Now' = Now /\ ListsStep
    BY <2>1, SameLists
  <2>3. cursor' \in ToSet(Now'[1]) \cup {Dummy(1)} /\ cursor' \in Node
    BY <1>0, <2>1, <2>2, NextOf DEF LinksTyped
  <2>4. Generated'
    <3>1. PICK p \in Programs, n \in Int : n \in 0 .. Len(p) /\ Len(insts) <= n
      BY <2>1 DEF Generated
    <3>2. p \in Seq([op : Ops, var : Var]) /\ Len(p) <= MaxInsts
      BY ProgramsAssumption
    <3>3. Len(insts) <= MaxInsts
      BY <1>0, <3>1, <3>2 DEF LinksTyped
    <3> QED BY <1>0, <2>1, <3>3 DEF Generated, LinksTyped
  <2>5. StageTyped' /\ CursorRight' /\ PlanShaped' /\ PlanRight'
    BY <1>0, <2>1, <2>3 DEF StageTyped, Stages, CursorRight, PlanShaped, PlanRight
  <2> QED BY <2>2, <2>4, <2>5
<1>2. CASE CleanInst
  <2>1. /\ stage = "linking" /\ stage' = "linking" /\ bb' = bb /\ cursor' = next[cursor] /\ plan' = plan
        /\ cursor \in ToSet(Now[bb])
    BY <1>2 DEF CleanInst, CursorRight
  <2>2. cursor' \in (ToSet(Now[bb]) \ {cursor}) \cup {Dummy(bb)}
    BY <1>0, <2>1, NextOf
  <2>3. cursor' \in Node
    <3>1. ToSet(Now[bb]) \subseteq Made /\ Made \subseteq Node
      <4>1. Members(Now) \subseteq Made /\ ToSet(Now[bb]) \subseteq Members(Now)
        BY <1>0, MembersKnown DEF LinksTyped, Members
      <4>2. Made \subseteq Node
        <5>1. Len(insts) \in Nat /\ Len(insts) <= MaxInsts + NumBlocks
          BY DEF LinksTyped
        <5> QED BY <1>0, <5>1 DEF Made, Node
      <4> QED BY <4>1, <4>2
    <3> QED BY <1>0, <2>2, <3>1
  <2>4. LinksTyped' /\ RingsRight' /\ ListsStep /\ UNCHANGED insts /\ ToSet(Now[bb]) \ {cursor} \subseteq ToSet(Now'[bb])
    <3>1. CASE Superfluous(cursor)
      BY <1>0, <1>2, <2>1, <3>1, OneTakenOut DEF CleanInst
    <3>2. CASE ~Superfluous(cursor)
      BY <1>2, <3>2, SameLists DEF CleanInst, objects
    <3> QED BY <3>1, <3>2
  <2>5. CursorRight'
    BY <2>1, <2>2, <2>4 DEF CursorRight
  <2>6. StageTyped' /\ Generated' /\ PlanShaped' /\ PlanRight'
    BY <2>1, <2>3, <2>4 DEF StageTyped, Generated, PlanShaped, PlanRight
  <2> QED BY <2>4, <2>5, <2>6
<1>3. CASE LinkBlock
  <2>1. stage = "linking" /\ plan' = plan /\ Len(insts) <= MaxInsts + bb - 1 /\ Len(insts) \in Nat
    BY <1>3 DEF LinkBlock, Generated, LinksTyped
  <2>2. /\ LinksTyped' /\ RingsRight' /\ ListsStep /\ Len(insts') \in Nat /\ Len(insts') <= Len(insts) + 1
        /\ \A c \in Block : c # bb => Now'[c] = Now[c]
    <3>1. CASE UNCHANGED <<insts, prev, next>>
      <4>1. Len(insts') = Len(insts)
        BY <3>1
      <4> QED BY <2>1, <3>1, <4>1, SameLists
    <3>2. CASE ~UNCHANGED <<insts, prev, next>>
      <4>1. PICK inst : insts' = Append(insts, inst) /\ IsInst(inst)
        <5>1. IsInst([kind |-> "ret", operands |-> <<>>, fields |-> <<>>, parent |-> bb, targets |-> <<>>])
          BY DEF IsInst
        <5>2. insts' = Append(insts, [kind |-> "ret", operands |-> <<>>, fields |-> <<>>, parent |-> bb, targets |-> <<>>])
          BY <1>3, <3>2 DEF LinkBlock
        <5> QED BY <5>1, <5>2
      <4>2. InsertBefore(Len(insts) + 1, Dummy(bb))
        BY <1>3, <3>2 DEF LinkBlock, NewId
      <4>3. Len(insts) + 1 <= MaxInsts + NumBlocks
        BY <1>0, <2>1
      <4>4. LinksTyped' /\ RingsRight' /\ Len(insts') = Len(insts) + 1 /\ Lists!Next
            /\ Now' = [Now EXCEPT ![bb] = Append(@, Len(insts) + 1)]
        BY <1>0, <4>1, <4>2, <4>3, Placed
      <4> QED BY <2>1, <4>4 DEF ListsStep, Now
    <3> QED BY <3>1, <3>2
  <2>3. CASE bb = NumBlocks
    <3>1. stage' = "linked" /\ bb' = bb /\ cursor' = cursor
      BY <1>3, <2>3 DEF LinkBlock
    <3>2. StageTyped' /\ CursorRight' /\ PlanShaped' /\ PlanRight' /\ Generated'
      BY <2>1, <3>1 DEF StageTyped, Stages, CursorRight, PlanShaped, PlanRight, Generated
    <3> QED BY <2>2, <3>2
  <2>4. CASE bb # NumBlocks
    <3>1. stage' = "linking" /\ bb' = bb + 1 /\ cursor' = next[Dummy(bb + 1)] /\ bb + 1 \in Block /\ bb + 1 # bb
      BY <1>0, <1>3, <2>1, <2>4 DEF LinkBlock
    <3>2. cursor' \in ToSet(Now'[bb']) \cup {Dummy(bb')} /\ cursor' \in Node
      BY <1>0, <2>2, <3>1, NextOf DEF LinksTyped
    <3>3. Generated'
      <4>1. Len(insts') <= MaxInsts + bb' - 1
        <5>1. /\ Len(insts') \in Nat /\ Len(insts) \in Nat /\ Len(insts') <= Len(insts) + 1
              /\ Len(insts) <= MaxInsts + bb - 1
          BY <2>1, <2>2
        <5>2. bb' = bb + 1 /\ bb \in Nat /\ MaxInsts \in Nat
          BY <1>0, <3>1
        <5>3. \A n, k, j, x \in Nat : k <= n + 1 /\ n <= x + j - 1 => k <= x + (j + 1) - 1
          OBVIOUS
        <5> QED BY <5>1, <5>2, <5>3
      <4> QED BY <3>1, <4>1 DEF Generated
    <3>4. StageTyped' /\ CursorRight' /\ PlanShaped' /\ PlanRight'
      BY <2>1, <3>1, <3>2 DEF StageTyped, Stages, CursorRight, PlanShaped, PlanRight
    <3> QED BY <2>2, <3>3, <3>4
  <2> QED BY <2>3, <2>4
<1> QED BY <1>1, <1>2, <1>3 DEF Link

-----------------------------------------------------------------------------
(***************************************************************************)
(* ... while a pass replaces loads of variables used in one block,         *)
(***************************************************************************)
LEMMA BlocksGoOn ==
  ASSUME bb \in Block
  PROVE  NumBlocks \in Nat /\ 1 \in Block /\ (bb # NumBlocks => bb + 1 \in Block)
         /\ \A b \in Block : b \in Nat /\ b <= NumBlocks /\ Dummy(b) \in Node
BY SizeAssumption, Dummies DEF Block

\* What goes on in the same block with fewer instructions planned.
LEMMA PlanShrinks ==
  ASSUME PlanShaped, PlanRight, NEW i, bb' = bb, stage' = stage, stage = "samebb",
         UNCHANGED insts, ToSet(Now'[bb]) = ToSet(Now[bb]) \ {i},
         NEW allocas, NEW stores, NEW loads,
         plan' = [plan EXCEPT !.allocas = allocas, !.stores = stores, !.loads = loads],
         plan.replace \subseteq loads,
         stores \subseteq plan.stores \ {i}, loads \subseteq plan.loads \ {i},
         allocas \in Seq(Made), IsInjective(allocas), ToSet(allocas) \subseteq ToSet(plan.allocas) \ {i}
  PROVE  PlanShaped' /\ PlanRight'
<1>1. PlanShaped' /\ plan'.allocas = allocas /\ plan'.stores = stores /\ plan'.loads = loads
      /\ plan'.replace = plan.replace
  BY DEF PlanShaped
<1>2. /\ plan.stores \subseteq {x \in ToSet(Now[bb]) : Kind(x) = "store"}
      /\ plan.loads \subseteq {x \in ToSet(Now[bb]) : Kind(x) = "load"}
      /\ ToSet(plan.allocas) \subseteq {x \in ToSet(Now[bb]) : Kind(x) = "alloca"}
  BY DEF PlanRight
<1>3. \A x : Kind(x)' = Kind(x)
  BY DEF Kind
<1>4. Made' = Made
  BY DEF Made
<1>5. /\ stores \subseteq {x \in ToSet(Now'[bb]) : Kind(x)' = "store"}
      /\ loads \subseteq {x \in ToSet(Now'[bb]) : Kind(x)' = "load"}
      /\ ToSet(allocas) \subseteq {x \in ToSet(Now'[bb]) : Kind(x)' = "alloca"}
  BY <1>2, <1>3
<1>6. PlanRight'
  BY <1>1, <1>4, <1>5 DEF PlanRight
<1> QED BY <1>1, <1>6

LEMMA CollectOnLists ==
  ASSUME ListsInv, Collect
  PROVE  ListsInv' /\ ListsStep
<1> USE DEF ListsInv
<1>1. stage = "samebb" /\ plan = NoPlan /\ bb \in Block /\ UNCHANGED <<insts, prev, next, cursor>>
  BY DEF Collect, objects, StageTyped
<1>2. LinksTyped' /\ RingsRight' /\ Now' = Now /\ Made' = Made /\ ListsStep /\ \A i : Kind(i)' = Kind(i)
  BY <1>1, SameLists
<1>3. CASE InOneBlock(bb) = <<>>
  <2>1. plan' = plan /\ NextBlock
    BY <1>3 DEF Collect
  <2>2. stage' \in {"linked", "samebb"} /\ bb' \in Block
    BY <1>1, <2>1, BlocksGoOn DEF NextBlock
  <2>3. StageTyped' /\ Generated' /\ CursorRight' /\ PlanShaped'
    BY <1>1, <2>1, <2>2 DEF StageTyped, Stages, Generated, CursorRight, PlanShaped
  <2>4. PlanRight'
    <3>1. /\ NoPlan.stores = {} /\ NoPlan.loads = {} /\ NoPlan.replace = {} /\ NoPlan.allocas = <<>>
          /\ <<>> \in Seq(Made') /\ IsInjective(<<>>) /\ ToSet(<<>>) = {}
      BY DEF NoPlan, IsInjective, ToSet
    <3> QED BY <1>1, <2>1, <2>2, <3>1 DEF PlanRight
  <2> QED BY <1>2, <2>3, <2>4
<1>4. CASE InOneBlock(bb) # <<>>
  <2> DEFINE s == Now[bb]
             places == {k \in DOMAIN s : /\ Kind(s[k]) = "alloca"
                                         /\ \A i \in ToSet(uses[s[k]]) : insts[i].parent = bb}
             vals == [l \in Accesses(bb, "load") |-> CurrentVal(bb, l)]
  <2>1. /\ stage' = stage /\ bb' = bb
        /\ plan' = [allocas |-> InOneBlock(bb), vals |-> vals, replace |-> Accesses(bb, "load"),
                    stores |-> Accesses(bb, "store"), loads |-> Accesses(bb, "load")]
    BY <1>4 DEF Collect
  <2> HIDE DEF vals
  <2>2. Ring(bb) = s
    BY <1>1 DEF Now
  <2>3. InOneBlock(bb) = Those(s, places)
    BY <2>2 DEF InOneBlock
  <2>4. s \in Seq(Made) /\ IsInjective(s) /\ ToSet(s) = {s[k] : k \in DOMAIN s}
    <3>1. Listed(Now, Len(insts), bb)
      BY <1>1, MembersKnown DEF LinksTyped
    <3> QED BY <3>1 DEF Listed, IsInjective, Made, ToSet
  <2> HIDE DEF s
  <2>5. /\ Those(s, places) \in Seq(Made) /\ IsInjective(Those(s, places))
        /\ ToSet(Those(s, places)) = {s[k] : k \in places}
    BY <2>4, ThoseFrom
  <2>6. ToSet(InOneBlock(bb)) \subseteq {x \in ToSet(s) : Kind(x) = "alloca"}
    BY <2>3, <2>4, <2>5
  <2>7. \A kind : Accesses(bb, kind) \subseteq {x \in ToSet(s) : Kind(x) = kind}
    BY <2>2 DEF Accesses
  <2>8. /\ plan'.allocas = InOneBlock(bb) /\ plan'.replace = Accesses(bb, "load")
        /\ plan'.stores = Accesses(bb, "store") /\ plan'.loads = Accesses(bb, "load") /\ PlanShaped'
    BY <2>1 DEF PlanShaped
  <2>9. InOneBlock(bb) \in Seq(Made) /\ IsInjective(InOneBlock(bb))
    BY <2>3, <2>5
  <2>10. PlanRight'
    <3>1. \A set, kind : set \subseteq {x \in ToSet(s) : Kind(x) = kind} => set \subseteq {x \in ToSet(Now'[bb']) : Kind(x)' = kind}
      BY <1>2, <2>1 DEF s
    <3> HIDE DEF places
    <3>2. /\ plan'.stores \subseteq {x \in ToSet(Now'[bb']) : Kind(x)' = "store"}
          /\ plan'.loads \subseteq {x \in ToSet(Now'[bb']) : Kind(x)' = "load"}
          /\ ToSet(plan'.allocas) \subseteq {x \in ToSet(Now'[bb']) : Kind(x)' = "alloca"}
      <4>1. /\ plan'.stores \subseteq {x \in ToSet(s) : Kind(x) = "store"}
            /\ plan'.loads \subseteq {x \in ToSet(s) : Kind(x) = "load"}
            /\ ToSet(plan'.allocas) \subseteq {x \in ToSet(s) : Kind(x) = "alloca"}
        BY <2>6, <2>7, <2>8
      <4>2. /\ plan'.stores \subseteq {x \in ToSet(Now'[bb']) : Kind(x)' = "store"}
        BY <3>1, <4>1
      <4>3. /\ plan'.loads \subseteq {x \in ToSet(Now'[bb']) : Kind(x)' = "load"}
        BY <3>1, <4>1
      <4> QED BY <3>1, <4>1, <4>2, <4>3
    <3>3. plan'.allocas \in Seq(Made') /\ IsInjective(plan'.allocas) /\ plan'.replace \subseteq plan'.loads
      BY <1>2, <2>8, <2>9
    <3>4. stage' = "samebb"
      BY <1>1, <2>1
    <3> QED BY <3>2, <3>3, <3>4 DEF PlanRight
  <2>11. StageTyped' /\ Generated' /\ CursorRight'
    BY <1>1, <2>1 DEF StageTyped, Stages, Generated, CursorRight
  <2> QED BY <1>2, <2>8, <2>10, <2>11
<1> QED BY <1>3, <1>4

LEMMA ReplacedKinds ==
  ASSUME LinksTyped, NEW l, NEW v, insts' = Replaced(l, v), UNCHANGED <<prev, next>>
  PROVE  LinksTyped' /\ Len(insts') = Len(insts) /\ \A i \in Made : Kind(i)' = Kind(i)
<1> DEFINE m == Len(insts)
<1>1. m \in Nat /\ DOMAIN insts = 1 .. m /\ \A i \in 1 .. m : IsInst(insts[i])
  BY DEF LinksTyped
<1>2. insts' = [i \in 1 .. m |-> Replaced(l, v)[i]]
  BY <1>1 DEF Replaced
<1>3. insts' \in Seq({insts'[i] : i \in DOMAIN insts'}) /\ Len(insts') = m /\ DOMAIN insts' = 1 .. m
  <2>1. PICK s : s = insts'
    OBVIOUS
  <2>2. s \in [1 .. m -> {s[i] : i \in DOMAIN s}] /\ DOMAIN s = 1 .. m
    <3>1. s = [i \in 1 .. m |-> Replaced(l, v)[i]]
      BY <1>2, <2>1
    <3> HIDE DEF m
    <3> QED BY <3>1
  <2>3. s \in Seq({s[i] : i \in DOMAIN s}) /\ Len(s) = m
    <3> HIDE DEF m
    <3> QED BY <1>1, <2>2
  <2> HIDE DEF m
  <2> QED BY <2>1, <2>2, <2>3
<1>4. ASSUME NEW i \in 1 .. m PROVE IsInst(insts'[i]) /\ insts'[i].kind = insts[i].kind
  <2>1. insts'[i] = IF i \in ToSet(uses[l])
                    THEN [insts[i] EXCEPT !.operands = [k \in DOMAIN @ |-> IF @[k] = l THEN v ELSE @[k]]]
                    ELSE insts[i]
    BY <1>1 DEF Replaced
  <2>2. PICK ops : ops = [k \in DOMAIN insts[i].operands |->
                            IF insts[i].operands[k] = l THEN v ELSE insts[i].operands[k]]
    OBVIOUS
  <2>3. insts'[i] = [insts[i] EXCEPT !.operands = ops] \/ insts'[i] = insts[i]
    BY <2>1, <2>2
  <2>4. IsInst(insts[i])
    BY <1>1
  <2> QED BY <2>3, <2>4 DEF IsInst
<1> QED BY <1>1, <1>3, <1>4 DEF LinksTyped, Made, Kind

LEMMA ReplaceOnLists ==
  ASSUME ListsInv, NEW l, Replace(l)
  PROVE  ListsInv' /\ ListsStep
<1> USE DEF ListsInv
<1>1. /\ stage = "samebb" /\ l \in plan.replace /\ plan' = [plan EXCEPT !.replace = @ \ {l}]
      /\ UNCHANGED <<prev, next, bb, cursor>> /\ stage' \in {"samebb", "crashed"}
  BY DEF Replace, objects
<1>2. LinksTyped' /\ Len(insts') = Len(insts) /\ \A i \in Made : Kind(i)' = Kind(i)
  <2>1. CASE UNCHANGED insts
    BY <1>1, <2>1, SameLists
  <2>2. CASE ~UNCHANGED insts
    <3>1. PICK v : insts' = Replaced(l, v)
      BY <2>2 DEF Replace, objects
    <3> QED BY <1>1, <3>1, ReplacedKinds
  <2> QED BY <2>1, <2>2
<1>3. Now' = Now /\ Made' = Made
  BY <1>1, <1>2 DEF Now, Ring, Made
<1>4. Contents' = Contents
  BY <1>1, <1>2 DEF Contents, Ring, InOrder
<1>5. RingsRight'
  BY <1>1, <1>2, <1>3 DEF RingsRight
<1>6. StageTyped' /\ Generated' /\ CursorRight'
  BY <1>1 DEF StageTyped, Stages, Generated, CursorRight
<1>7. /\ PlanShaped' /\ plan'.allocas = plan.allocas /\ plan'.stores = plan.stores /\ plan'.loads = plan.loads
      /\ plan'.replace = plan.replace \ {l}
  BY <1>1 DEF PlanShaped
<1>8. PlanRight'
  <2>1. ToSet(Now[bb]) \subseteq Made
    BY MembersKnown DEF LinksTyped, Members, StageTyped
  <2>2. \A set, kind : set \subseteq {x \in ToSet(Now[bb]) : Kind(x) = kind} => set \subseteq {x \in ToSet(Now'[bb']) : Kind(x)' = kind}
    BY <1>1, <1>2, <1>3, <2>1
  <2>3. /\ plan'.stores \subseteq {x \in ToSet(Now'[bb']) : Kind(x)' = "store"}
        /\ plan'.loads \subseteq {x \in ToSet(Now'[bb']) : Kind(x)' = "load"}
        /\ ToSet(plan'.allocas) \subseteq {x \in ToSet(Now'[bb']) : Kind(x)' = "alloca"}
    BY <1>1, <1>7, <2>2 DEF PlanRight
  <2>4. plan'.replace \subseteq plan'.loads /\ plan'.allocas \in Seq(Made') /\ IsInjective(plan'.allocas)
    BY <1>1, <1>3, <1>7 DEF PlanRight
  <2> QED BY <1>1, <2>3, <2>4 DEF PlanRight
<1> QED BY <1>2, <1>4, <1>5, <1>6, <1>7, <1>8 DEF ListsStep

LEMMA DeletesOnLists ==
  ASSUME ListsInv, (\E i \in DOMAIN insts : DeleteStore(i) \/ DeleteLoad(i)) \/ DeleteAlloca
  PROVE  ListsInv' /\ ListsStep
<1> USE DEF ListsInv
<1>1. stage = "samebb" /\ plan.replace = {} /\ cursor' = cursor /\ bb \in Block
  BY DEF DeleteStore, DeleteLoad, DeleteAlloca, Deleting, StageTyped
<1>2. /\ plan.stores \subseteq {x \in ToSet(Now[bb]) : Kind(x) = "store"}
      /\ plan.loads \subseteq {x \in ToSet(Now[bb]) : Kind(x) = "load"}
      /\ ToSet(plan.allocas) \subseteq {x \in ToSet(Now[bb]) : Kind(x) = "alloca"}
      /\ plan.allocas \in Seq(Made) /\ IsInjective(plan.allocas)
  BY <1>1 DEF PlanRight
<1>3. ASSUME NEW i, i \in plan.stores \/ i \in plan.loads, Delete(i), stage' = stage, bb' = bb,
             NEW stores, NEW loads, stores = plan.stores \ {i}, loads = plan.loads \ {i},
             plan' = [plan EXCEPT !.stores = stores, !.loads = loads]
      PROVE  ListsInv' /\ ListsStep
  <2>1. i \in ToSet(Now[bb]) /\ i \notin ToSet(plan.allocas)
    BY <1>2, <1>3
  <2>2. LinksTyped' /\ RingsRight' /\ ListsStep /\ UNCHANGED insts /\ ToSet(Now'[bb]) = ToSet(Now[bb]) \ {i}
    BY <1>1, <1>3, <2>1, OneTakenOut
  <2>3. PICK allocas : allocas = plan.allocas
    OBVIOUS
  <2>4. plan' = [plan EXCEPT !.allocas = allocas, !.stores = stores, !.loads = loads]
    BY <1>3, <2>3 DEF PlanShaped
  <2>5. plan.replace \subseteq loads /\ ToSet(allocas) \subseteq ToSet(plan.allocas) \ {i}
        /\ allocas \in Seq(Made) /\ IsInjective(allocas)
    BY <1>1, <1>2, <2>1, <2>3
  <2>6. PlanShaped' /\ PlanRight'
    <3>1. PlanShaped /\ PlanRight /\ bb' = bb /\ stage' = stage /\ stage = "samebb" /\ UNCHANGED insts
      BY <1>1, <1>3, <2>2
    <3>2. ToSet(Now'[bb]) = ToSet(Now[bb]) \ {i}
      BY <2>2
    <3>3. stores \subseteq plan.stores \ {i} /\ loads \subseteq plan.loads \ {i}
      BY <1>3
    <3> QED BY <2>4, <2>5, <3>1, <3>2, <3>3, PlanShrinks
  <2>7. StageTyped' /\ Generated' /\ CursorRight'
    BY <1>1, <1>3 DEF StageTyped, Generated, CursorRight
  <2> QED BY <2>2, <2>6, <2>7
<1>4. ASSUME NEW i \in DOMAIN insts, DeleteStore(i) PROVE ListsInv' /\ ListsStep
  <2>1. i \in plan.stores /\ Delete(i) /\ stage' = stage /\ bb' = bb /\ plan' = [plan EXCEPT !.stores = @ \ {i}]
    BY <1>4 DEF DeleteStore
  <2>2. plan.loads = plan.loads \ {i}
    BY <1>2, <2>1
  <2>3. PICK stores, loads : stores = plan.stores \ {i} /\ loads = plan.loads \ {i}
    OBVIOUS
  <2>4. plan' = [plan EXCEPT !.stores = stores, !.loads = loads]
    BY <2>1, <2>2, <2>3 DEF PlanShaped
  <2> QED BY <1>3, <2>1, <2>3, <2>4
<1>5. ASSUME NEW i \in DOMAIN insts, DeleteLoad(i) PROVE ListsInv' /\ ListsStep
  <2>1. i \in plan.loads /\ Delete(i) /\ stage' = stage /\ bb' = bb /\ plan' = [plan EXCEPT !.loads = @ \ {i}]
    BY <1>5 DEF DeleteLoad
  <2>2. plan.stores = plan.stores \ {i}
    BY <1>2, <2>1
  <2>3. PICK stores, loads : stores = plan.stores \ {i} /\ loads = plan.loads \ {i}
    OBVIOUS
  <2>4. plan' = [plan EXCEPT !.stores = stores, !.loads = loads]
    BY <2>1, <2>2, <2>3 DEF PlanShaped
  <2> QED BY <1>3, <2>1, <2>3, <2>4
<1>6. CASE DeleteAlloca
  <2> DEFINE i == Head(plan.allocas)
             rest == Tail(plan.allocas)
  <2>1. /\ plan.stores = {} /\ plan.loads = {} /\ plan.allocas # <<>>
        /\ Delete(i) \/ UNCHANGED objects
        /\ \/ plan' = [plan EXCEPT !.allocas = rest] /\ UNCHANGED <<stage, bb, passes>>
           \/ plan' = NoPlan /\ NextBlock
    BY <1>6 DEF DeleteAlloca
  <2>2. i \in ToSet(Now[bb]) /\ rest \in Seq(Made) /\ IsInjective(rest) /\ ToSet(rest) \subseteq ToSet(plan.allocas) \ {i}
    <3>1. PICK s : s = plan.allocas
      OBVIOUS
    <3>2. s \in Seq(Made) /\ Len(s) \in Nat /\ Len(s) >= 1 /\ DOMAIN s = 1 .. Len(s) /\ Head(s) = s[1]
          /\ Tail(s) \in Seq(Made) /\ DOMAIN Tail(s) = 1 .. Len(s) - 1
          /\ \A k \in 1 .. Len(s) - 1 : Tail(s)[k] = s[k + 1] /\ k + 1 \in DOMAIN s /\ k + 1 # 1
      BY <1>2, <2>1, <3>1
    <3>3. \A j, k \in DOMAIN s : s[j] = s[k] => j = k
      BY <1>2, <3>1 DEF IsInjective
    <3>4. Head(s) \in ToSet(s) /\ ToSet(Tail(s)) \subseteq ToSet(s) \ {Head(s)}
      BY <3>2, <3>3 DEF ToSet
    <3>5. IsInjective(Tail(s))
      <4>1. \A j, k \in 1 .. Len(s) - 1 : Tail(s)[j] = Tail(s)[k] => j + 1 = k + 1
        BY <3>2, <3>3
      <4>2. \A j, k \in 1 .. Len(s) - 1 : j + 1 = k + 1 => j = k
        BY <3>2
      <4> QED BY <3>2, <4>1, <4>2 DEF IsInjective
    <3> QED BY <1>2, <3>1, <3>2, <3>4, <3>5
  <2> HIDE DEF i, rest
  <2>3. LinksTyped' /\ RingsRight' /\ ListsStep /\ UNCHANGED insts
    <3>1. CASE Delete(i)
      BY <1>1, <2>2, <3>1, OneTakenOut
    <3>2. CASE UNCHANGED objects
      BY <3>2, SameLists DEF objects
    <3> QED BY <2>1, <3>1, <3>2
  <2>4. CASE plan' = NoPlan /\ NextBlock
    <3>1. stage' \in {"linked", "samebb"} /\ bb' \in Block
      BY <1>1, <2>4, BlocksGoOn DEF NextBlock
    <3>2. StageTyped' /\ Generated' /\ CursorRight'
      BY <1>1, <3>1 DEF StageTyped, Stages, Generated, CursorRight
    <3>3. PlanShaped' /\ PlanRight'
      <4>1. /\ NoPlan.stores = {} /\ NoPlan.loads = {} /\ NoPlan.replace = {} /\ NoPlan.allocas = <<>>
            /\ <<>> \in Seq(Made') /\ IsInjective(<<>>) /\ ToSet(<<>>) = {}
            /\ NoPlan = [allocas |-> NoPlan.allocas, vals |-> NoPlan.vals, replace |-> NoPlan.replace,
                         stores |-> NoPlan.stores, loads |-> NoPlan.loads]
        BY DEF NoPlan, IsInjective, ToSet
      <4> QED BY <2>4, <3>1, <4>1 DEF PlanRight, PlanShaped
    <3> QED BY <2>3, <3>2, <3>3
  <2>5. CASE plan' = [plan EXCEPT !.allocas = rest] /\ UNCHANGED <<stage, bb, passes>>
    <3>1. /\ PlanShaped' /\ plan'.allocas = rest /\ plan'.stores = {} /\ plan'.loads = {} /\ plan'.replace = {}
      BY <1>1, <2>1, <2>5 DEF PlanShaped
    <3>2. StageTyped' /\ Generated' /\ CursorRight'
      BY <1>1, <2>5 DEF StageTyped, Generated, CursorRight
    <3>3. ToSet(rest) \subseteq {x \in ToSet(Now'[bb]) : Kind(x)' = "alloca"}
      <4>1. \A x : Kind(x)' = Kind(x)
        BY <2>3 DEF Kind
      <4>2. ToSet(Now[bb]) \ {i} \subseteq ToSet(Now'[bb])
        <5>1. CASE Delete(i)
          BY <1>1, <2>2, <5>1, OneTakenOut
        <5>2. CASE UNCHANGED objects
          <6>1. Now' = Now
            BY <5>2, SameLists DEF objects
          <6> QED BY <6>1
        <5> QED BY <2>1, <5>1, <5>2
      <4> QED BY <1>2, <2>2, <4>1, <4>2
    <3>4. PlanRight'
      <4>1. stage' = "samebb" /\ bb' = bb /\ Made' = Made
        BY <1>1, <2>3, <2>5 DEF Made
      <4> QED BY <2>2, <3>1, <3>3, <4>1 DEF PlanRight
    <3> QED BY <2>3, <3>1, <3>2, <3>4
  <2> QED BY <2>1, <2>4, <2>5
<1> QED BY <1>4, <1>5, <1>6

-----------------------------------------------------------------------------
(***************************************************************************)
(* ... while a pass removes unused variables, and when the program ends.   *)
(***************************************************************************)
LEMMA BeginsOnLists ==
  ASSUME ListsInv, Samebboptimize \/ RemoveUnusedAlloca
  PROVE  ListsInv' /\ ListsStep
<1> USE DEF ListsInv
<1>1. stage = "linked" /\ bb' = 1 /\ UNCHANGED <<insts, prev, next>> /\ plan = NoPlan
  BY DEF Samebboptimize, RemoveUnusedAlloca, BeginPass, objects, PlanRight
<1>2. LinksTyped' /\ RingsRight' /\ Now' = Now /\ Made' = Made /\ ListsStep /\ \A i : Kind(i)' = Kind(i)
  BY <1>1, SameLists
<1>3. 1 \in Block
  BY BlocksGoOn DEF StageTyped
<1>4. CASE Samebboptimize
  <2>1. stage' = "samebb" /\ plan' = NoPlan /\ cursor' = cursor
    BY <1>1, <1>4 DEF Samebboptimize
  <2>2. StageTyped' /\ Generated' /\ CursorRight'
    BY <1>1, <1>3, <2>1 DEF StageTyped, Stages, Generated, CursorRight
  <2>3. PlanShaped' /\ PlanRight'
    <3>1. /\ NoPlan.stores = {} /\ NoPlan.loads = {} /\ NoPlan.replace = {} /\ NoPlan.allocas = <<>>
          /\ <<>> \in Seq(Made') /\ IsInjective(<<>>) /\ ToSet(<<>>) = {}
          /\ NoPlan = [allocas |-> NoPlan.allocas, vals |-> NoPlan.vals, replace |-> NoPlan.replace,
                       stores |-> NoPlan.stores, loads |-> NoPlan.loads]
      BY DEF NoPlan, IsInjective, ToSet
    <3> QED BY <2>1, <3>1 DEF PlanRight, PlanShaped
  <2> QED BY <1>2, <2>2, <2>3
<1>5. CASE RemoveUnusedAlloca
  <2>1. /\ stage' = "unused" /\ cursor' = next[Dummy(1)]
        /\ plan' = [NoPlan EXCEPT !.stores = {s \in ToSet(Path) : Kind(s) = "store"}]
    BY <1>5 DEF RemoveUnusedAlloca
  <2>2. cursor' \in ToSet(Now'[1]) \cup {Dummy(1)} /\ cursor' \in Node
    BY <1>2, <1>3, <2>1, BlocksGoOn, NextOf DEF LinksTyped, StageTyped
  <2>3. WayOn'
    <3>1. {} \in SUBSET {i \in Made' : Kind(i)' = "store"}
      OBVIOUS
    <3>2. cursor' \in {} \cup ToSet(Now'[bb']) \cup {Dummy(bb')}
      BY <1>1, <2>2
    <3> QED BY <3>1, <3>2 DEF WayOn
  <2>4. StageTyped' /\ Generated' /\ CursorRight'
    BY <1>1, <1>3, <2>1, <2>2, <2>3 DEF StageTyped, Stages, Generated, CursorRight
  <2>5. PlanShaped' /\ PlanRight'
    <3>1. PlanShaped' /\ plan'.stores = {s \in ToSet(Path) : Kind(s) = "store"}
      BY <2>1 DEF NoPlan, PlanShaped
    <3>2. \A i \in plan'.stores : i \in Made /\ Kind(i) = "store"
      BY <3>1, PathIs, MembersKnown DEF LinksTyped
    <3>3. \A i \in plan'.stores : i \in Made' /\ Kind(i)' = "store"
      BY <1>2, <3>2
    <3> QED BY <2>1, <3>1, <3>3 DEF PlanRight
  <2> QED BY <1>2, <2>4, <2>5
<1> QED BY <1>4, <1>5

\* The stores that are taken out with a variable are linked, once each.
LEMMA StoresAreThere ==
  ASSUME LinksTyped, RingsRight, NEW a, \A i \in plan.stores : Kind(i) = "store"
  PROVE  /\ StoresTo(a) \in Seq(Members(Now)) /\ IsInjective(StoresTo(a))
         /\ \A i \in ToSet(StoresTo(a)) : i \in Members(Now) /\ Kind(i) = "store" /\ insts[i].operands[1] = a
<1> DEFINE places == {k \in DOMAIN Path : Path[k] \in plan.stores /\ insts[Path[k]].operands[1] = a}
<1>1. StoresTo(a) = Those(Path, places)
  BY DEF StoresTo
<1>2. PICK s : s = Path
  OBVIOUS
<1>3. s \in Seq(Members(Now)) /\ IsInjective(s) /\ \A k \in DOMAIN s : s[k] \in Members(Now)
  BY <1>2, PathIs
<1>4. /\ Those(s, places) \in Seq(Members(Now)) /\ IsInjective(Those(s, places))
      /\ ToSet(Those(s, places)) = {s[k] : k \in places}
  BY <1>2, <1>3, ThoseFrom
<1> QED BY <1>1, <1>2, <1>3, <1>4

LEMMA UnusedOnLists ==
  ASSUME ListsInv, Unused
  PROVE  ListsInv' /\ ListsStep
<1> USE DEF ListsInv
<1>1. stage = "unused" /\ bb \in Block /\ cursor \in Node
  BY DEF Unused, StageTyped
<1>2. PICK way \in SUBSET {i \in Made : Kind(i) = "store"} :
        /\ cursor \in way \cup ToSet(Now[bb]) \cup {Dummy(bb)}
        /\ \A i \in way : next[i] \in way \cup ToSet(Now[bb]) \cup {Dummy(bb)}
  BY <1>1 DEF CursorRight, WayOn
<1>3. \A i \in plan.stores : i \in Made /\ Kind(i) = "store"
  BY <1>1 DEF PlanRight
<1>4. CASE cursor = Dummy(bb)
  <2>1. /\ NextBlock /\ UNCHANGED <<insts, prev, next>>
        /\ cursor' = IF bb = NumBlocks THEN 0 ELSE next[Dummy(bb + 1)]
        /\ plan' = IF bb = NumBlocks THEN NoPlan ELSE plan
    BY <1>4 DEF Unused, objects
  <2>2. LinksTyped' /\ RingsRight' /\ Now' = Now /\ Made' = Made /\ ListsStep /\ \A i : Kind(i)' = Kind(i)
    BY <2>1, SameLists
  <2>3. CASE bb = NumBlocks
    <3>1. stage' = "linked" /\ bb' = 1 /\ cursor' = 0 /\ plan' = NoPlan /\ 1 \in Block /\ 0 \in Node
      BY <1>1, <2>1, <2>3, BlocksGoOn, Dummies DEF NextBlock, Node
    <3>2. StageTyped' /\ Generated' /\ CursorRight' /\ PlanRight' /\ PlanShaped'
      BY <3>1 DEF StageTyped, Stages, Generated, CursorRight, PlanRight, PlanShaped, NoPlan
    <3> QED BY <2>2, <3>2
  <2>4. CASE bb # NumBlocks
    <3>1. stage' = "unused" /\ bb' = bb + 1 /\ bb + 1 \in Block /\ cursor' = next[Dummy(bb + 1)] /\ plan' = plan
      BY <1>1, <2>1, <2>4, BlocksGoOn DEF NextBlock
    <3>2. cursor' \in ToSet(Now'[bb']) \cup {Dummy(bb')} /\ cursor' \in Node
      BY <2>2, <3>1, BlocksGoOn, NextOf, <1>1 DEF LinksTyped
    <3>3. WayOn'
      <4>1. {} \in SUBSET {i \in Made' : Kind(i)' = "store"}
        OBVIOUS
      <4>2. cursor' \in {} \cup ToSet(Now'[bb']) \cup {Dummy(bb')}
        BY <3>2
      <4> QED BY <4>1, <4>2 DEF WayOn
    <3>4. StageTyped' /\ Generated' /\ CursorRight' /\ PlanShaped'
      BY <3>1, <3>2, <3>3 DEF StageTyped, Stages, Generated, CursorRight, PlanShaped
    <3>5. PlanRight'
      BY <1>3, <2>2, <3>1 DEF PlanRight
    <3> QED BY <2>2, <3>4, <3>5
  <2> QED BY <2>3, <2>4
<1>5. CASE cursor # Dummy(bb)
  <2>1. stage' = "unused" /\ bb' = bb /\ plan' = plan /\ cursor' = next'[cursor]
    BY <1>1, <1>5 DEF Unused
  <2>2. LinksTyped' /\ RingsRight' /\ ListsStep /\ UNCHANGED insts /\ WayOn'
    <3>1. CASE Kind(cursor) = "alloca" /\ loadUses[cursor] = 0
      <4> DEFINE others == StoresTo(cursor)
                 left == ToSet(others) \cap ToSet(Now[bb])
      <4>1. DeleteAnd(cursor, others, {cursor})
        BY <1>5, <3>1 DEF Unused
      <4>2. cursor \in ToSet(Now[bb])
        BY <1>2, <1>5, <3>1
      <4>3. /\ others \in Seq(Members(Now)) /\ IsInjective(others)
            /\ \A i \in ToSet(others) : i \in Members(Now) /\ Kind(i) = "store"
        BY <1>3, StoresAreThere
      <4> HIDE DEF others
      <4>4. UNCHANGED insts /\ Unlink(<<cursor, cursor>> \o others) /\ cursor \notin ToSet(others)
        BY <3>1, <4>1, <4>3 DEF DeleteAnd
      <4>5. /\ LinksTyped' /\ RingsRight' /\ Lists!Next
            /\ \A b \in Block : ToSet(Now'[b]) = ToSet(Now[b]) \ ({cursor} \cup ToSet(others))
            /\ \A x \in ({cursor} \cup ToSet(others)) \cap ToSet(Now[bb]) :
                 next'[x] \in (ToSet(Now[bb]) \ {cursor}) \cup {Dummy(bb)}
        BY <1>1, <4>2, <4>3, <4>4, TakenOut
      <4>6. (ToSet(Now[bb]) \ {cursor}) \cup {Dummy(bb)} \subseteq left \cup ToSet(Now'[bb]) \cup {Dummy(bb)}
        BY <1>1, <4>5
      <4>7. left \in SUBSET {i \in Made' : Kind(i)' = "store"}
        <5>1. Members(Now) \subseteq Made
          BY MembersKnown DEF LinksTyped
        <5> QED BY <4>3, <4>4, <5>1 DEF Made, Kind
      <4>8. cursor' \in left \cup ToSet(Now'[bb]) \cup {Dummy(bb)}
            /\ \A i \in left : next'[i] \in left \cup ToSet(Now'[bb]) \cup {Dummy(bb)}
        BY <2>1, <4>2, <4>5, <4>6
      <4> HIDE DEF left
      <4>9. WayOn'
        BY <2>1, <4>7, <4>8 DEF WayOn
      <4> QED BY <4>4, <4>5, <4>9 DEF ListsStep
    <3>2. CASE ~(Kind(cursor) = "alloca" /\ loadUses[cursor] = 0)
      <4>1. UNCHANGED <<insts, prev, next>>
        BY <1>5, <3>2 DEF Unused, objects
      <4>2. LinksTyped' /\ RingsRight' /\ Now' = Now /\ Made' = Made /\ ListsStep /\ \A i : Kind(i)' = Kind(i)
        BY <4>1, SameLists
      <4>3. cursor' \in way \cup ToSet(Now[bb]) \cup {Dummy(bb)}
        BY <1>1, <1>2, <1>5, <2>1, <4>1, NextOf
      <4>4. way \in SUBSET {i \in Made' : Kind(i)' = "store"}
        BY <4>2
      <4>5. \A i \in way : next'[i] \in way \cup ToSet(Now'[bb]) \cup {Dummy(bb)}
        BY <1>2, <4>1, <4>2
      <4>6. WayOn'
        BY <2>1, <4>2, <4>3, <4>4, <4>5 DEF WayOn
      <4> QED BY <4>1, <4>2, <4>6
    <3> QED BY <3>1, <3>2
  <2>3. cursor' \in Node
    BY <1>1, <2>1, <2>2 DEF LinksTyped
  <2>4. StageTyped' /\ Generated' /\ CursorRight' /\ PlanShaped'
    BY <1>1, <2>1, <2>2, <2>3 DEF StageTyped, Stages, Generated, CursorRight, PlanShaped
  <2>5. PlanRight'
    BY <1>3, <2>1, <2>2 DEF PlanRight, Made, Kind
  <2> QED BY <2>2, <2>4, <2>5
<1> QED BY <1>4, <1>5

LEMMA DestroyOnLists ==
  ASSUME ListsInv, Destroy \/ DestroyInst \/ DestroyBlock
  PROVE  ListsInv' /\ ListsStep
<1> USE DEF ListsInv
<1>1. bb \in Block
  BY DEF StageTyped
<1>2. /\ stage' \in {"ending", "over"} /\ bb' \in Block
      /\ UNCHANGED <<cursor, plan>> /\ (UNCHANGED <<insts, prev, next>> \/ DestroyInst)
  BY <1>1, BlocksGoOn DEF Destroy, DestroyInst, DestroyBlock, objects
<1>3. StageTyped' /\ Generated' /\ CursorRight' /\ PlanShaped' /\ PlanRight'
  BY <1>2 DEF StageTyped, Stages, Generated, CursorRight, PlanShaped, PlanRight
<1>4. CASE UNCHANGED <<insts, prev, next>>
  BY <1>3, <1>4, SameLists
<1>5. CASE DestroyInst
  <2>1. next[Dummy(bb)] \in ToSet(Now[bb]) /\ Delete(next[Dummy(bb)])
    BY <1>1, <1>5, NextOf DEF DestroyInst
  <2>2. LinksTyped' /\ RingsRight' /\ ListsStep
    BY <1>1, <2>1, OneTakenOut
  <2> QED BY <1>3, <2>2
<1> QED BY <1>2, <1>4, <1>5

LEMMA NextOnLists ==
  ASSUME ListsInv, [Next]_vars
  PROVE  ListsInv' /\ ListsStep
<1>1. CASE Next
  <2>1. CASE Generate
    BY <2>1, GenCodeOnLists, LinkOnLists DEF Generate
  <2>2. CASE Samebboptimize \/ RemoveUnusedAlloca
    BY <2>2, BeginsOnLists
  <2>3. CASE Collect
    BY <2>3, CollectOnLists
  <2>4. CASE (\E i \in DOMAIN insts : DeleteStore(i) \/ DeleteLoad(i)) \/ DeleteAlloca
    BY <2>4, DeletesOnLists
  <2>5. CASE \E i \in DOMAIN insts : Replace(i)
    BY <2>5, ReplaceOnLists
  <2>6. CASE Unused
    BY <2>6, UnusedOnLists
  <2>7. CASE Destroy \/ DestroyInst \/ DestroyBlock
    BY <2>7, DestroyOnLists
  <2> QED BY <1>1, <2>1, <2>2, <2>3, <2>4, <2>5, <2>6, <2>7 DEF Next
<1>2. CASE UNCHANGED vars
  <2>1. UNCHANGED <<insts, prev, next, stage, bb, cursor, plan, todo, insertBB>>
    BY <1>2 DEF vars, objects, making
  <2>2. LinksTyped /\ RingsRight
    BY DEF ListsInv
  <2>3. LinksTyped' /\ RingsRight' /\ Now' = Now /\ Made' = Made /\ ListsStep /\ \A i : Kind(i)' = Kind(i)
    BY <2>1, <2>2, SameLists
  <2>4. StageTyped' /\ Generated' /\ PlanShaped'
    BY <2>1 DEF ListsInv, StageTyped, Generated, PlanShaped
  <2>5. CursorRight'
    <3>1. CursorRight /\ WayOn = WayOn'
      BY <2>1, <2>3 DEF ListsInv, WayOn
    <3> QED BY <2>1, <2>3, <3>1 DEF CursorRight
  <2>6. PlanRight'
    BY <2>1, <2>3 DEF ListsInv, PlanRight
  <2> QED BY <2>3, <2>4, <2>5, <2>6 DEF ListsInv
<1> QED BY <1>1, <1>2

(***************************************************************************)
(* Whatever is generated, linked, optimised and destroyed, the rings of    *)
(* instructions implement lists: what BasicBlock::insertBefore, remove and *)
(* ~Instruction do to the pointers puts an instruction at an end of one    *)
(* list or takes some out, also when instructions are taken out twice.     *)
(***************************************************************************)
THEOREM ListsImplemented == Spec => ImplementsContents
<1>1. Start => ListsInv /\ Lists!Init
  BY StartsRight
<1>2. ListsInv /\ [Next]_vars => ListsInv' /\ [Lists!Next]_Contents
  BY NextOnLists DEF ListsStep
<1> QED BY <1>1, <1>2, PTL DEF Spec, ImplementsContents, Lists!Spec
=============================================================================

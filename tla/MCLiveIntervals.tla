---------------------------- MODULE MCLiveIntervals -------------------------
(***************************************************************************)
(* Two families of functions for LiveIntervals.  Three blocks of one       *)
(* instruction, all reached from the first, on fresh sets or on those a    *)
(* round of spilling left; and two blocks of up to two instructions, with  *)
(* every graph, in front of an empty third block nothing leads to.         *)
(***************************************************************************)
EXTENDS LiveIntervals

Body(n) == [1 .. n -> Inst]
Return == <<[defs |-> {}, uses |-> {}]>>

ThreeBlocks ==
  /\ code \in [Block -> Body(1)]
  /\ succs \in {g \in Cfg : \A b \in Block \ {1} : \E a \in Block \ {b} :
                              b \in g[a] /\ (a = 1 \/ a \in g[1])}
  /\ liveIn \in {[b \in Block |-> {}], LeftOver}

TwoBlocks ==
  /\ \E c, d \in Body(1) \cup Body(2) : code = <<c, d, Return>>
  /\ \E s, t \in SUBSET {1, 2} : succs = <<s, t, {}>>
  /\ liveIn = [b \in Block |-> {}]

MCInit == (ThreeBlocks \/ TwoBlocks) /\ IvInit
MCSpec == MCInit /\ [][IvNext]_allVars /\ WF_allVars(IvNext)
=============================================================================

---------------------------- MODULE MCForgeRepo ----------------------------
(* ForgeRepo for TLC.                                                      *)
EXTENDS ForgeRepo, TLC

MCParent == <<0, 1>>

\* Takeovers: a push and one on top of it.
TwoPushes == {[ref |-> "main", old |-> 0, new |-> 1],
              [ref |-> "main", old |-> 1, new |-> 2]}

\* Batches: also a branch cut at an existing commit, and a deletion.
FourPushes == TwoPushes \cup
  {[ref |-> "dev",  old |-> 0, new |-> 1],
   [ref |-> "main", old |-> 1, new |-> 0]}

PodSymmetry == Permutations(Pod)

\* The bounds of the run: two pods that take over from each other with the
\* two pushes, and one pod on its own with all of them and one restart.
OnItsOwn(p) ==
  \A q \in Pod \ {p} :
    at[q] = "down" /\ holder # q /\ snap.writer # q /\ disk[q] = {}

RepoBound ==
  \/ \A u \in Push \ TwoPushes : told[u] = "nothing"
  \/ wire = {} /\ epoch <= 2 /\ \E p \in Pod : OnItsOwn(p)
=============================================================================

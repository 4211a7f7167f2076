-------------------------- MODULE MCForgeReproduce --------------------------
(* ForgeFold for TLC: a roll-up that reproduces a retained pack's name. *)
EXTENDS ForgeFold

CONSTANT a

\* A line of three commits, and one with a history of its own.
MCParent == [c \in 1..4 |-> IF c = 4 THEN 0 ELSE c - 1]
MCForgeRefs == {"m", "n"}
MCUpdate(r, old, new) == [ref |-> r, old |-> old, new |-> new]

\* A branch that stays, and one that grows push by push, is deleted and is
\* pushed again.
MCPush == {MCUpdate("n", 0, 4), MCUpdate("m", 3, 0)}
            \cup {MCUpdate("m", c - 1, c) : c \in 1..3}

\* The bounds of the run: tier folds only and no sweeps.  The first term
\* pushes both branches, rolls the first two commits up, then these and the
\* third, and deletes the branch; the second drops what no ref reaches, takes
\* the same history again and rolls it up as before.
Phases ==
  /\ aged = {} /\ ~ fold[a].base
  /\ snap.seq >= 1 => snap.refs["n"] = 4
  /\ epoch = 1 => /\ snap.seq <= 7
                  /\ snap.seq = 3 => snap.refs["m"] = 2
                  /\ snap.seq = 4 => snap.packs = {{4}, {1, 2}}
                  /\ snap.seq = 5 => snap.refs["m"] = 3
                  /\ snap.seq = 6 => snap.packs = {{4}, {1, 2, 3}}
  /\ epoch = 2 => /\ snap.seq >= 7
                  /\ snap.seq = 9 => snap.packs = {{4}}
                  /\ snap.seq = 11 => snap.refs["m"] = 2
                  /\ snap.seq = 12 => {1, 2} \in snap.packs
=============================================================================

---------------------------- MODULE MCForgeFold ----------------------------
(* An instance of ForgeFold for TLC. *)
EXTENDS ForgeFold

CONSTANTS a, b

\* Two commits on one line, and one with a history of its own.
MCParent == [c \in 1..3 |-> IF c = 3 THEN 0 ELSE c - 1]
MCForgeRefs == {"m"}

MCUpdate(r, old, new) == [ref |-> r, old |-> old, new |-> new]

\* The branch is given another history and then part of the first one again.
Other == {MCUpdate("m", 2, 3), MCUpdate("m", 3, 1)}

\* Two clients create it, one rewinds it, one deletes it: a push that is
\* refused leaves a pack, and compaction meets what is no longer reachable.
MCPush ==
  {MCUpdate("m", 0, 1), MCUpdate("m", 0, 2), MCUpdate("m", 2, 1), MCUpdate("m", 2, 0)}
    \cup Other

\* The bounds of the run: one pod with all the pushes and two epochs, and
\* two pods that depose each other, with one push and a fold whose PUT is
\* still on the wire.
Alone == at[b] = "down" /\ holder # b /\ snap.writer # b

\* The other history comes after one fold and before any sweep: a reclaim
\* drops what the fold named, and what it retained is pushed again.
Replaced ==
  /\ folds = 1 /\ fold[a] = NoFold /\ aged = {} /\ past = {}
  /\ retained[a] # {} \/ snap.refs["m"] = 1
  /\ queue[a] \subseteq Other

MCBound ==
  /\ queue[a] \cap Other # {} \/ 3 \in UNION (store \cup disk[a]) => Replaced
  /\ queue[b] \cap Other = {}
  /\ IF Alone
     THEN /\ epoch <= 2 /\ wire = {}
          /\ epoch = 2 => fold[a] = NoFold /\ at[a] # "sweep"
     ELSE /\ UNION (store \cup disk[a] \cup disk[b]) \subseteq {1}
          /\ snap.seq <= 4
=============================================================================

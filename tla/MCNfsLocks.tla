----------------------------- MODULE MCNfsLocks -----------------------------
(* An instance of NfsLocks for TLC: two clients with one owner each.       *)
EXTENDS NfsLocks, TLC

CONSTANTS o1, o2, c1, c2

MCClientOf == (o1 :> c1) @@ (o2 :> c2)

(* The clients are interchangeable, each with its owner, and so are the    *)
(* threads.                                                                *)
Same == [x \in Owners \cup Clients |-> x]
Swap == (o1 :> o2) @@ (o2 :> o1) @@ (c1 :> c2) @@ (c2 :> c1)
MCSymmetry == {f @@ g : f \in {Same, Swap}, g \in Permutations(Threads)}

(* Ranges that nest, abut and overlap, one to the end of the file from 0. *)
R(a, n) == [offset |-> a, length |-> n]
MCRanges == {R(0, 3), R(1, 1), R(0, TO_EOF)}

(* The range of a client that locks or unlocks from an offset past 0 on. *)
MCToEof == {R(1, 1), R(1, TO_EOF)}

(* Bounds: any sequence of requests, and one restart with two of the       *)
(* ranges; requests that overlap on one range, up to two locks while no    *)
(* client is torn down; commits and a crash on one lock.                   *)
Within(S) == \A k \in DOMAIN locks : locks[k].range \in S
Committed == disk # [k \in {<<"client", c>> : c \in Clients} |-> k[2]]

Staying == recs = Clients /\ \A t \in Threads : thr[t].kind # "retire"

MCBound ==
    /\ overlap => /\ Within({R(0, 3)}) /\ restarts = 0 /\ crashes = 0 /\ ~ Committed
                  /\ keyCtr <= IF Staying THEN 3 ELSE 2
    /\ restarts > 0 => Within({R(0, 3), R(1, 1)})
    /\ crashes > 0 \/ Committed => Within({R(0, 3)}) /\ restarts = 0 /\ keyCtr <= 2

=============================================================================

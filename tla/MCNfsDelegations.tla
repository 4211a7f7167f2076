-------------------------- MODULE MCNfsDelegations --------------------------
(* An instance of NfsDelegations for TLC: two clients and a server-local   *)
(* lane, two threads, two delegations.                                     *)
EXTENDS NfsDelegations

CONSTANTS c1, c2, t1, t2

Active == {s \in Sid : ladder[s].at # "none"}
Held == {s \in Sid : Present(s) \/ s \in Active \/ ~ Idle(s)}

\* A ladder that has had an answer or has found no transport.
Retrying(s) == \/ ladder[s].rung > 0 \/ ladder[s].disowned \/ ladder[s].fired
               \/ ladder[s].at \in {"blocked", "park", "listening", "parked"}

(* Bounds.  The clients are interchangeable: c1 is the one torn down or    *)
(* told of a revocation, c2 the one that writes.  Each of the rest is      *)
(* explored without the others: a client torn down, told or writing; two   *)
(* delegations at a time, to requests of one holder or of no client; a     *)
(* ladder that retries, its client torn down beside it or not; two threads *)
(* in the middle of a request, with a client told only while its bit comes *)
(* down.                                                                   *)
MCBound ==
  /\ gone \subseteq {c1} /\ bit \subseteq {c1} /\ writers \subseteq {c2}
  /\ Cardinality({X \in {gone, bit \cup crossed, writers} : X # {}}) <= 1
  /\ Cardinality(Held) > 1 => /\ gone = {} /\ bit = {} /\ writers = {}
                              /\ cur # 0 => ent[cur].cool # "past"
                              /\ \A t \in Threads : task[t].client # c2
  /\ \A s \in Active : Retrying(s) => /\ Held = {s}
                                      /\ bit = {} /\ writers = {}
  /\ ~ Idle(t1) /\ ~ Idle(t2) => /\ Cardinality(Held) <= 1
                                 /\ bit = {} \/ NextIs(t1, "decide") \/ NextIs(t1, "lower")
                                 /\ Active = {} /\ \A s \in Sid : Idle(s)
  /\ crossed # {} => Active = {} /\ \E s \in Sid : rec[s].st = "revoked"

\* The threads are interchangeable too: t2 begins while t1 is at work.
MCStep == MCBound' /\ (Idle(t1) /\ Idle(t2) => Idle(t2)')

=============================================================================

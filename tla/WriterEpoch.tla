---------------------------- MODULE WriterEpoch ----------------------------
(***************************************************************************)
(* What the writer lease promises the rest of a forge server, without the  *)
(* tokens, the polls and the requests it is built from: epochs are granted *)
(* one after the other, each to one pod; a process knows at most the       *)
(* epochs granted to its pod, and stops knowing one when it is fenced or   *)
(* ends.  ForgeLease implements this module; ForgeRepo is built on it.     *)
(***************************************************************************)
EXTENDS Naturals

CONSTANT Pod

VARIABLES
  epoch,     \* the newest epoch granted, 0 before the first
  holder,    \* whose it is
  released,  \* its holder gave it back
  held,      \* the epoch each process believes it holds, 0 for none
  leaving    \* epochs whose release is still on the wire

epochVars == <<epoch, holder, released, held, leaving>>

EpochTypeOK ==
  /\ epoch \in Nat
  /\ epoch > 0 => holder \in Pod
  /\ released \in BOOLEAN
  /\ held \in [Pod -> Nat]
  /\ leaving \subseteq Nat

EpochInit ==
  /\ epoch = 0
  /\ released = FALSE
  /\ held = [p \in Pod |-> 0]
  /\ leaving = {}

Grant(p) ==
  /\ epoch' = epoch + 1
  /\ holder' = p
  /\ released' = FALSE

\* The acquire landed and was answered.
Claim(p) ==
  /\ Grant(p)
  /\ held' = [held EXCEPT ![p] = epoch + 1]
  /\ UNCHANGED leaving

\* The acquire landed and nobody heard.
ClaimUnheard(p) ==
  /\ Grant(p)
  /\ UNCHANGED <<held, leaving>>

\* A renewal of p's can succeed only in a state like this.
Current(p) == epoch > 0 /\ held[p] = epoch /\ holder = p /\ ~ released

\* The holder gives its epoch back and ends.
Yield(p) ==
  /\ Current(p)
  /\ released' = TRUE
  /\ held' = [held EXCEPT ![p] = 0]
  /\ UNCHANGED <<epoch, holder, leaving>>

\* It ends before its release is answered.
Leave(p) ==
  /\ held[p] # 0
  /\ held' = [held EXCEPT ![p] = 0]
  /\ leaving' = leaving \cup {held[p]}
  /\ UNCHANGED <<epoch, holder, released>>

\* A release on the wire arrives: it marks its own epoch or nothing.  (The
\* client retries, so another copy of it may remain.)
LateYield ==
  /\ \E e \in leaving :
       /\ leaving' \in {leaving, leaving \ {e}}
       /\ \/ e = epoch /\ ~ released /\ released' = TRUE
          \/ UNCHANGED released
  /\ UNCHANGED <<epoch, holder, held>>

\* A fence, a crash, an error that ends the process.
Lose(p) ==
  /\ held[p] # 0
  /\ held' = [held EXCEPT ![p] = 0]
  /\ UNCHANGED <<epoch, holder, released, leaving>>

EpochNext ==
  \/ \E p \in Pod : Claim(p) \/ ClaimUnheard(p) \/ Yield(p) \/ Leave(p) \/ Lose(p)
  \/ LateYield

EpochSpec == EpochInit /\ [][EpochNext]_epochVars
=============================================================================

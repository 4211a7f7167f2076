----------------------------- MODULE ForgeLease -----------------------------
(***************************************************************************)
(* The writer lease of a forge repository (forge/syncer/src/lease.rs, with *)
(* Hold in lib.rs): how a syncer claims the epoch cell, keeps it, loses it *)
(* and gives it back, when answers are lost, requests arrive late,         *)
(* processes crash and containers restart on the same state directory.     *)
(*                                                                         *)
(* A pod IS a holder id: incarnation.json survives a container restart, so *)
(* a restarted process keeps its id; a replacement pod is another element  *)
(* of Pod that starts later.                                               *)
(*                                                                         *)
(* Each store call is two steps, the sending (with whatever was read       *)
(* before it) and the answer.  A call whose answer never comes leaves its  *)
(* PUT in `stray`: it may still land, at any later time, or never.  The    *)
(* store client retries by itself, so a PUT that landed may be answered    *)
(* 412 (the Retried actions).                                              *)
(***************************************************************************)
EXTENDS EpochCell, FiniteSets

CONSTANTS QuietPolls,   \* QUIET_POLLS
          MaxPuts,      \* bound: PUTs of the cell that land
          MaxStray,     \* bound: PUTs in flight that nobody waits for
          NoLease

Pod == Holder

ASSUME QuietAssumption == QuietPolls \in Nat \ {0}
ASSUME BoundAssumption == MaxPuts \in Nat /\ MaxStray \in Nat
ASSUME NoLeaseAssumption == NoLease \notin EpochLease

VARIABLES
  cell,     \* the epoch cell in the bucket
  puts,     \* how many PUTs of it have landed; the newest token
  stray,    \* abandoned PUTs that may still reach the store
  pc,       \* where each process is
  inc,      \* incarnation.json: the last token seen and the quiet polls
  seen,     \* what the claim step in progress read
  lease,    \* the lease the process believes it holds
  gate,     \* who holds Hold's gate for a renewal: "free", or the asker
  refused,  \* the renewal in progress was answered 412
  watch,    \* history: polls of each pod since the cell last changed
  granted   \* history: who acquired each epoch

leaseVars == <<cell, puts, stray, pc, inc, seen, lease, gate, refused, watch, granted>>

NoOne == "no one"

\* down: no process.  poll: in the claim loop.  acquire: the acquire is in
\* flight.  rotate: acquired, the snapshot not yet rotated.  hold: the
\* renewer runs.  release: the release is in flight.  fenced: deposed, the
\* process is on its way out.
PC == {"down", "poll", "acquire", "rotate", "hold", "release", "fenced"}

\* A count that reached the threshold has already claimed.
Incarnation == [last: Nat, quiet: 0..(QuietPolls - 1)]
Fresh == [last |-> 0, quiet |-> 0]

LeaseTypeOK ==
  /\ cell \in EpochState \cup {NoCell}
  /\ puts \in 0..MaxPuts
  /\ stray \subseteq EpochWrite
  /\ pc \in [Pod -> PC]
  /\ inc \in [Pod -> Incarnation]
  /\ seen \in [Pod -> EpochState \cup {NoCell}]
  /\ lease \in [Pod -> EpochLease \cup {NoLease}]
  /\ gate \in [Pod -> {"free", "renewer", "commit"}]
  /\ refused \in [Pod -> BOOLEAN]
  /\ watch \in [Pod -> 0..(QuietPolls + 1)]
  /\ granted \in [1..MaxPuts -> Pod \cup {NoOne}]

LeaseInit ==
  /\ cell = NoCell
  /\ puts = 0
  /\ stray = {}
  /\ pc = [p \in Pod |-> "down"]
  /\ inc = [p \in Pod |-> Fresh]
  /\ seen = [p \in Pod |-> NoCell]
  /\ lease = [p \in Pod |-> NoLease]
  /\ gate = [p \in Pod |-> "free"]
  /\ refused = [p \in Pod |-> FALSE]
  /\ watch = [p \in Pod |-> 0]
  /\ granted = [e \in 1..MaxPuts |-> NoOne]

-----------------------------------------------------------------------------
(* The store. *)

\* w lands: the store writes it and every poller's count starts again.
Put(w) ==
  /\ Lands(cell, w)
  /\ puts < MaxPuts
  /\ puts' = puts + 1
  /\ cell' = Written(w, puts + 1)
  /\ watch' = [p \in Pod |-> 0]
  /\ granted' = IF cell = NoCell \/ cell.epoch # w.epoch
                  THEN [granted EXCEPT ![w.epoch] = w.holder]
                  ELSE granted

Refuse(w) ==
  /\ ~ Lands(cell, w)
  /\ UNCHANGED <<cell, puts, watch, granted>>

\* The caller of w gives up on it, or dies: it stays on the wire.
Abandon(w) ==
  /\ Cardinality(stray) < MaxStray
  /\ stray' = stray \cup {w}
  /\ UNCHANGED <<cell, puts, watch, granted>>

\* An abandoned PUT reaches the store after all; nobody hears the answer.
StrayArrives(w) ==
  /\ w \in stray
  /\ stray' = stray \ {w}
  /\ Put(w) \/ Refuse(w)
  /\ UNCHANGED <<pc, inc, seen, lease, gate, refused>>

-----------------------------------------------------------------------------
(* claim_step, called by the claim loop of server::run once per heartbeat. *)

\* The process starts (or restarts) on its state directory.
Start(p) ==
  /\ pc[p] = "down"
  /\ pc' = [pc EXCEPT ![p] = "poll"]
  /\ UNCHANGED <<cell, puts, stray, inc, seen, lease, gate, refused, watch, granted>>

\* The token has not moved since this pod last looked.
Quiet(p) == inc[p].last = cell.token

Claimable(p) ==
  cell # NoCell =>
    \/ cell.holder = p
    \/ cell.released
    \/ Quiet(p) /\ inc[p].quiet + 1 >= QuietPolls

Watched(p) ==
  watch' = [watch EXCEPT ![p] = IF @ < QuietPolls + 1 THEN @ + 1 ELSE @]

\* epoch_read, then the acquire goes out against what was read.
PollClaim(p) ==
  /\ pc[p] = "poll"
  /\ Claimable(p)
  /\ seen' = [seen EXCEPT ![p] = cell]
  /\ pc' = [pc EXCEPT ![p] = "acquire"]
  /\ Watched(p)
  /\ UNCHANGED <<cell, puts, stray, inc, lease, gate, refused, granted>>

\* Mutant: a token that moved does not restart the count.
PollWaitNoReset(p) ==
  /\ pc[p] = "poll"
  /\ ~ Claimable(p)
  /\ inc' = [inc EXCEPT ![p] = [last |-> cell.token, quiet |-> inc[p].quiet + 1]]
  /\ Watched(p)
  /\ UNCHANGED <<cell, puts, stray, pc, seen, lease, gate, refused, granted>>

\* Somebody else holds it: the observation is saved, so a restart resumes it.
PollWait(p) ==
  /\ pc[p] = "poll"
  /\ ~ Claimable(p)
  /\ inc' = [inc EXCEPT ![p] =
               [last |-> cell.token, quiet |-> IF Quiet(p) THEN inc[p].quiet + 1 ELSE 0]]
  /\ Watched(p)
  /\ UNCHANGED <<cell, puts, stray, pc, seen, lease, gate, refused, granted>>

Acquiring(p) == AcquireWrite(p, seen[p])

\* Every claim but of a fresh or a cleanly released cell must rotate.
MustRotate(p) == seen[p] # NoCell /\ ~ seen[p].released

AcquireOk(p) ==
  /\ pc[p] = "acquire"
  /\ Put(Acquiring(p))
  /\ lease' = [lease EXCEPT ![p] = [epoch |-> Acquiring(p).epoch, token |-> puts + 1]]
  /\ pc' = [pc EXCEPT ![p] = IF MustRotate(p) THEN "rotate" ELSE "hold"]
  /\ inc' = IF MustRotate(p) THEN inc ELSE [inc EXCEPT ![p] = Fresh]
  /\ seen' = [seen EXCEPT ![p] = NoCell]
  /\ UNCHANGED <<stray, gate, refused>>

\* Where a claim step goes on a 412 or a 409: back to the loop, observing
\* from the start again (a first acquire saves nothing).
LostRace(p) ==
  /\ pc' = [pc EXCEPT ![p] = "poll"]
  /\ inc' = IF seen[p] = NoCell THEN inc ELSE [inc EXCEPT ![p] = Fresh]
  /\ seen' = [seen EXCEPT ![p] = NoCell]

AcquireRefused(p) ==
  /\ pc[p] = "acquire"
  /\ Refuse(Acquiring(p))
  /\ LostRace(p)
  /\ UNCHANGED <<stray, lease, gate, refused>>

\* The PUT landed but its answer was lost, and the store client's own retry
\* was answered 412.
AcquireRetried(p) ==
  /\ pc[p] = "acquire"
  /\ Put(Acquiring(p))
  /\ LostRace(p)
  /\ UNCHANGED <<stray, lease, gate, refused>>

\* A 409 does not say whether the PUT landed.
AcquireConflict(p) ==
  /\ pc[p] = "acquire"
  /\ Abandon(Acquiring(p))
  /\ LostRace(p)
  /\ UNCHANGED <<lease, gate, refused>>

\* rotate_for_takeover rewrote the snapshot; only now is the lease set and
\* the incarnation saved.
Rotated(p) ==
  /\ pc[p] = "rotate"
  /\ pc' = [pc EXCEPT ![p] = "hold"]
  /\ inc' = [inc EXCEPT ![p] = Fresh]
  /\ UNCHANGED <<cell, puts, stray, seen, lease, gate, refused, watch, granted>>

-----------------------------------------------------------------------------
(* renew_shared, asked for by the renewer task or before a snapshot CAS.   *)
(* Hold's gate lets one renewal or release out at a time.                  *)

RenewSend(p, by) ==
  /\ pc[p] = "hold"
  /\ gate[p] = "free"
  /\ gate' = [gate EXCEPT ![p] = by]
  /\ UNCHANGED <<cell, puts, stray, pc, inc, seen, lease, refused, watch, granted>>

Renewing(p) == RenewWrite(p, lease[p])
AwaitsRenewal(p) == pc[p] = "hold" /\ gate[p] # "free" /\ ~ refused[p]

RenewOk(p) ==
  /\ AwaitsRenewal(p)
  /\ Put(Renewing(p))
  /\ lease' = [lease EXCEPT ![p].token = puts + 1]
  /\ gate' = [gate EXCEPT ![p] = "free"]
  /\ UNCHANGED <<stray, pc, inc, seen, refused>>

RenewRefused(p) ==
  /\ AwaitsRenewal(p)
  /\ Refuse(Renewing(p))
  /\ refused' = [refused EXCEPT ![p] = TRUE]
  /\ UNCHANGED <<stray, pc, inc, seen, lease, gate>>

\* The renewal landed, its answer was lost, and the retry was answered 412.
RenewRetried(p) ==
  /\ AwaitsRenewal(p)
  /\ Put(Renewing(p))
  /\ refused' = [refused EXCEPT ![p] = TRUE]
  /\ UNCHANGED <<stray, pc, inc, seen, lease, gate>>

\* Mutant: whatever the cell says now is adopted.
StillOursUnchecked(p) == cell # NoCell /\ ~ cell.released

\* Mutant: every 412 is read as a deposal.
StillOursNever(p) == FALSE

\* The cell is still this holder's: the 412 was our own lost response.
StillOurs(p) ==
  /\ cell # NoCell
  /\ cell.holder = p
  /\ cell.epoch = lease[p].epoch
  /\ ~ cell.released

Fence(p) ==
  /\ pc' = [pc EXCEPT ![p] = "fenced"]
  /\ lease' = [lease EXCEPT ![p] = NoLease]

\* The re-read after a 412: adopt the token of a cell still ours, or fence.
RenewReread(p) ==
  /\ pc[p] = "hold" /\ refused[p]
  /\ IF StillOurs(p)
       THEN /\ lease' = [lease EXCEPT ![p].token = cell.token]
            /\ pc' = pc
       ELSE Fence(p)
  /\ gate' = [gate EXCEPT ![p] = "free"]
  /\ refused' = [refused EXCEPT ![p] = FALSE]
  /\ UNCHANGED <<cell, puts, stray, inc, seen, watch, granted>>

\* A re-read that fails fences too.
RenewRereadFails(p) ==
  /\ pc[p] = "hold" /\ refused[p]
  /\ Fence(p)
  /\ gate' = [gate EXCEPT ![p] = "free"]
  /\ refused' = [refused EXCEPT ![p] = FALSE]
  /\ UNCHANGED <<cell, puts, stray, inc, seen, watch, granted>>

\* Any other answer: the renewer keeps its lease and tries again next
\* heartbeat.  (A commit's renewal that fails ends the process: Stop.)
RenewError(p) ==
  /\ AwaitsRenewal(p)
  /\ gate[p] = "renewer"
  /\ Abandon(Renewing(p))
  /\ gate' = [gate EXCEPT ![p] = "free"]
  /\ UNCHANGED <<pc, inc, seen, lease, refused>>

-----------------------------------------------------------------------------
(* The ways out. *)

\* SIGTERM: under the gate, the renewer is stopped and the release goes out.
Release(p) ==
  /\ pc[p] = "hold"
  /\ gate[p] = "free"
  /\ pc' = [pc EXCEPT ![p] = "release"]
  /\ UNCHANGED <<cell, puts, stray, inc, seen, lease, gate, refused, watch, granted>>

Releasing(p) == ReleaseWrite(p, lease[p])

\* Whatever a release answers, the process ends (a 412: already deposed).
Released(p) ==
  /\ pc[p] = "release"
  /\ Put(Releasing(p)) \/ Refuse(Releasing(p))
  /\ pc' = [pc EXCEPT ![p] = "down"]
  /\ lease' = [lease EXCEPT ![p] = NoLease]
  /\ UNCHANGED <<stray, inc, seen, gate, refused>>

\* The request a process has in flight, if it has one.
InFlight(p) ==
  IF pc[p] = "acquire" THEN {Acquiring(p)}
  ELSE IF pc[p] = "release" THEN {Releasing(p)}
  ELSE IF AwaitsRenewal(p) THEN {Renewing(p)}
  ELSE {}

\* A crash, a kill, or any error that server::run returns (an acquire, a
\* rotation, a commit's renewal that failed, a fence): the process ends and
\* what it had in flight may still land.
Stop(p) ==
  /\ pc[p] # "down"
  /\ stray' = IF Cardinality(stray \cup InFlight(p)) <= MaxStray
                THEN stray \cup InFlight(p) ELSE stray
  /\ pc' = [pc EXCEPT ![p] = "down"]
  /\ lease' = [lease EXCEPT ![p] = NoLease]
  /\ gate' = [gate EXCEPT ![p] = "free"]
  /\ refused' = [refused EXCEPT ![p] = FALSE]
  /\ seen' = [seen EXCEPT ![p] = NoCell]
  /\ UNCHANGED <<cell, puts, inc, watch, granted>>

-----------------------------------------------------------------------------
LeaseNext ==
  \/ \E w \in stray : StrayArrives(w)
  \/ \E p \in Pod :
       \/ Start(p) \/ PollClaim(p) \/ PollWait(p)
       \/ AcquireOk(p) \/ AcquireRefused(p) \/ AcquireRetried(p)
       \/ AcquireConflict(p) \/ Rotated(p)
       \/ \E by \in {"renewer", "commit"} : RenewSend(p, by)
       \/ RenewOk(p) \/ RenewRefused(p) \/ RenewRetried(p)
       \/ RenewReread(p) \/ RenewRereadFails(p) \/ RenewError(p)
       \/ Release(p) \/ Released(p) \/ Stop(p)

LeaseSpec == LeaseInit /\ [][LeaseNext]_leaseVars

-----------------------------------------------------------------------------
(* The inductive invariant behind the properties below. *)

HasLease == \A p \in Pod : lease[p] # NoLease <=> pc[p] \in {"rotate", "hold", "release"}

CellOK ==
  IF cell = NoCell THEN puts = 0
  ELSE /\ puts > 0 /\ cell.token = puts
       /\ cell.epoch \in 1..puts
       /\ granted[cell.epoch] = cell.holder

LeaseOK ==
  \A p \in Pod :
    lease[p] # NoLease =>
      /\ cell # NoCell
      /\ lease[p].epoch \in 1..cell.epoch
      /\ granted[lease[p].epoch] = p
      /\ lease[p].epoch = cell.epoch => ~ cell.released
      /\ lease[p].token \in 1..puts
      /\ lease[p].token = puts => lease[p].epoch = cell.epoch

\* p may supersede the cell as it stands.
MaySupersede(p) == cell.holder = p \/ cell.released \/ watch[p] = QuietPolls + 1

SeenOK ==
  \A p \in Pod :
    pc[p] = "acquire" /\ seen[p] # NoCell =>
      /\ seen[p].token \in 1..puts
      /\ seen[p].token = puts => seen[p] = cell /\ MaySupersede(p)

\* A PUT on the wire that would land now is a next epoch's acquire, or the
\* current holder's own write; a release only from a holder that has gone.
OnWireOK(w) ==
  /\ w.match <= puts
  /\ Lands(cell, w) =>
       IF cell = NoCell THEN w.epoch = 1 /\ ~ w.released
       ELSE \/ w.epoch = cell.epoch + 1 /\ ~ w.released /\ MaySupersede(w.holder)
            \/ /\ w.epoch = cell.epoch /\ w.holder = cell.holder /\ ~ cell.released
               /\ w.released => lease[w.holder] = NoLease \/ lease[w.holder].epoch # cell.epoch

StrayOK == \A w \in stray : OnWireOK(w)

\* A persisted count never claims more than was really observed.
CountOK ==
  \A p \in Pod :
    /\ inc[p].last <= puts
    /\ inc[p].last = puts /\ puts > 0 => watch[p] > inc[p].quiet

LeaseInv ==
  LeaseTypeOK /\ HasLease /\ CellOK /\ LeaseOK /\ SeenOK /\ StrayOK /\ CountOK

-----------------------------------------------------------------------------
(* What makes the lease correct. *)

\* No two processes ever hold leases of one epoch: whatever is stamped with
\* an epoch has one possible writer (the snapshot CAS adopts by epoch and
\* writer, batch.rs step 5).
OneHolderPerEpoch ==
  \A p, q \in Pod :
    p # q /\ lease[p] # NoLease /\ lease[q] # NoLease => lease[p].epoch # lease[q].epoch

\* A lease is never ahead of the cell, and a process whose lease carries the
\* cell's epoch is the one the cell names, unless it has been released: a
\* deposed holder cannot look current.
LeaseBehindCell ==
  \A p \in Pod :
    lease[p] # NoLease =>
      /\ cell # NoCell
      /\ lease[p].epoch <= cell.epoch
      /\ lease[p].epoch = cell.epoch => cell.holder = p /\ ~ cell.released

\* The cell moves in two ways only: a new epoch, exactly one up, or a write
\* by the holder of the current epoch before its release.  A heartbeat or a
\* release that arrives late never touches a successor's cell or wakes a
\* released one (epoch_release's "cannot stamp released onto a live
\* successor's cell").
CellEvolves ==
  [][cell' # cell =>
       IF cell = NoCell THEN cell'.epoch = 1
       ELSE \/ cell'.epoch = cell.epoch + 1 /\ ~ cell'.released
            \/ /\ cell'.epoch = cell.epoch
               /\ cell'.holder = cell.holder
               /\ ~ cell.released]_leaseVars

\* A foreign holder that did not release is superseded only by a pod that
\* saw its token stand still: one observation and QUIET_POLLS more that
\* found the same token, over however many restarts of the poller.
TakeoverAfterQuiet ==
  [][(/\ cell # NoCell /\ cell' # cell
      /\ ~ cell.released
      /\ cell'.holder # cell.holder) => watch[cell'.holder] = QuietPolls + 1]_leaseVars

\* A renewal that succeeds, or is adopted after a 412, finds the cell still
\* this holder's: what it was taken for (a snapshot CAS) starts from a
\* moment at which the holder had not been superseded.
RenewedIsCurrent ==
  [][\A p \in Pod :
       RenewOk(p) \/ (RenewReread(p) /\ pc'[p] = "hold") =>
         cell.holder = p /\ cell.epoch = lease[p].epoch /\ ~ cell.released]_leaseVars

\* A 412 that is our own lost response never fences: a re-read that
\* succeeds fences only a holder whose epoch has really passed.
FenceIsDeposal ==
  [][\A p \in Pod :
       RenewReread(p) /\ pc'[p] = "fenced" => cell.epoch > lease[p].epoch]_leaseVars

-----------------------------------------------------------------------------
(* The lease as the rest of the server sees it. *)

EpochNow == IF cell = NoCell THEN 0 ELSE cell.epoch
HolderNow == IF cell = NoCell THEN NoOne ELSE cell.holder
ReleasedNow == IF cell = NoCell THEN FALSE ELSE cell.released
HeldNow == [p \in Pod |-> IF lease[p] = NoLease THEN 0 ELSE lease[p].epoch]
LeavingNow == {w.epoch : w \in {v \in stray : v.released}}

Epochs == INSTANCE WriterEpoch WITH
  epoch <- EpochNow, holder <- HolderNow, released <- ReleasedNow,
  held <- HeldNow, leaving <- LeavingNow

\* Tokens, polls, lost answers and late PUTs implement the lease that
\* WriterEpoch promises.
ImplementsEpochs == Epochs!EpochSpec
=============================================================================

-------------------------- MODULE ForgeLeaseProofs --------------------------
(***************************************************************************)
(* ForgeLease for every set of pods, every threshold and every bound.      *)
(*                                                                         *)
(* LeaseInv is inductive.  Its core is about the PUTs that are still on    *)
(* the wire (StrayOK): whatever would land now is either the acquire of    *)
(* the next epoch, by a pod entitled to it, or a write of the current      *)
(* holder; and since every landed PUT is a new token, nothing else on the  *)
(* wire matches afterwards.                                                *)
(***************************************************************************)
EXTENDS ForgeLease, TLAPS

\* After any landed PUT no other PUT on the wire matches the cell, and the
\* cell is well formed; stated once for the five actions that put.
LEMMA PutFacts ==
  ASSUME LeaseInv, NEW w \in EpochWrite, Put(w),
         w.epoch \in 1..(puts + 1)
  PROVE  /\ cell' \in EpochState /\ cell' # NoCell
         /\ puts' = puts + 1 /\ puts' \in 0..MaxPuts
         /\ cell'.token = puts' /\ cell'.epoch = w.epoch
         /\ cell'.holder = w.holder /\ cell'.released = w.released
         /\ granted' \in [1..MaxPuts -> Pod \cup {NoOne}]
         /\ granted'[w.epoch] = IF cell = NoCell \/ cell.epoch # w.epoch
                                  THEN w.holder ELSE granted[w.epoch]
         /\ \A e \in 1..MaxPuts : e # w.epoch => granted'[e] = granted[e]
         /\ watch' = [p \in Pod |-> 0]
         /\ \A v \in EpochWrite : v.match <= puts => ~ Lands(cell', v)
<1>1. puts \in Nat /\ MaxPuts \in Nat /\ puts < MaxPuts /\ puts' = puts + 1
  BY BoundAssumption DEF LeaseInv, LeaseTypeOK, Put
<1>2. cell' = [holder |-> w.holder, epoch |-> w.epoch, token |-> puts + 1,
               released |-> w.released]
  BY DEF Put, Written
<1>3. cell' \in EpochState /\ cell' # NoCell
  BY <1>1, <1>2, NoCellAssumption DEF EpochState, EpochWrite
<1>4. cell'.token = puts' /\ cell'.epoch = w.epoch /\ cell'.holder = w.holder
        /\ cell'.released = w.released
  BY <1>1, <1>2
<1>5. w.epoch \in 1..MaxPuts
  BY <1>1 DEF EpochWrite
<1>6. w.holder \in Pod /\ granted \in [1..MaxPuts -> Pod \cup {NoOne}]
  BY DEF LeaseInv, LeaseTypeOK, EpochWrite, Pod
<1>7. granted' = IF cell = NoCell \/ cell.epoch # w.epoch
                  THEN [granted EXCEPT ![w.epoch] = w.holder]
                  ELSE granted
  BY DEF Put
<1>8. granted' \in [1..MaxPuts -> Pod \cup {NoOne}]
  BY <1>5, <1>6, <1>7
<1>9. granted'[w.epoch] = IF cell = NoCell \/ cell.epoch # w.epoch
                           THEN w.holder ELSE granted[w.epoch]
  BY <1>5, <1>6, <1>7
<1>10. \A e \in 1..MaxPuts : e # w.epoch => granted'[e] = granted[e]
  BY <1>5, <1>6, <1>7
<1>11. \A v \in EpochWrite : v.match <= puts => ~ Lands(cell', v)
  BY <1>1, <1>3, <1>4 DEF Lands, EpochWrite
<1> QED
  BY <1>1, <1>3, <1>4, <1>8, <1>9, <1>10, <1>11 DEF Put

\* The initial state satisfies the invariant.
LEMMA LeaseInitInv == LeaseInit => LeaseInv
<1> SUFFICES ASSUME LeaseInit PROVE LeaseInv
  OBVIOUS
<1> USE DEF LeaseInit
<1>1. LeaseTypeOK
  <2>1. puts \in 0..MaxPuts /\ granted \in [1..MaxPuts -> Pod \cup {NoOne}]
    BY BoundAssumption
  <2>2. inc \in [Pod -> Incarnation] /\ watch \in [Pod -> 0..(QuietPolls + 1)]
    BY QuietAssumption DEF Incarnation, Fresh
  <2>3. pc \in [Pod -> PC] /\ gate \in [Pod -> {"free", "renewer", "commit"}]
    BY DEF PC
  <2> QED
    BY <2>1, <2>2, <2>3 DEF LeaseTypeOK
<1>2. HasLease /\ LeaseOK /\ SeenOK
  BY DEF HasLease, LeaseOK, SeenOK
<1>3. CellOK /\ StrayOK
  BY DEF CellOK, StrayOK
<1>4. CountOK
  BY DEF CountOK, Fresh
<1> QED
  BY <1>1, <1>2, <1>3, <1>4 DEF LeaseInv

\* What every PUT that can land is: an acquire of the next epoch, or a write
\* of the current, unreleased holder.
Sound(w) ==
  /\ w \in EpochWrite
  /\ IF cell = NoCell THEN w.epoch = 1 /\ ~ w.released
     ELSE \/ w.epoch = cell.epoch + 1 /\ ~ w.released
          \/ w.epoch = cell.epoch /\ w.holder = cell.holder /\ ~ cell.released

\* A landed PUT preserves everything that relates the cell to the rest.
LEMMA PutPreserves ==
  ASSUME LeaseInv, NEW w, Sound(w), Put(w), stray' \subseteq stray,
         \A p \in Pod : pc'[p] = "acquire" => pc[p] = "acquire" /\ seen'[p] = seen[p],
         \A p \in Pod : inc'[p] \in {inc[p], Fresh},
         \A p \in Pod : lease'[p] # NoLease =>
            /\ \/ lease'[p] = lease[p]
               \/ /\ p = w.holder /\ lease'[p].epoch = w.epoch
                  /\ lease'[p].token = puts + 1
            /\ w.released => lease'[p].epoch # w.epoch
  PROVE  CellOK' /\ LeaseOK' /\ SeenOK' /\ StrayOK' /\ CountOK'
<1>1. puts \in Nat /\ MaxPuts \in Nat /\ puts < MaxPuts
  BY BoundAssumption DEF LeaseInv, LeaseTypeOK, Put
<1>2. w \in EpochWrite /\ w.epoch \in Nat /\ w.holder \in Pod /\ w.released \in BOOLEAN
  BY DEF Sound, EpochWrite, Pod
<1>3. cell # NoCell => cell \in EpochState /\ cell.epoch \in 1..puts /\ cell.token = puts
        /\ granted[cell.epoch] = cell.holder
  BY DEF LeaseInv, LeaseTypeOK, CellOK
<1>4. w.epoch \in 1..(puts + 1) /\ w.epoch \in 1..MaxPuts
  BY <1>1, <1>2, <1>3 DEF Sound
<1>5. /\ cell' # NoCell
      /\ puts' = puts + 1
      /\ cell'.token = puts' /\ cell'.epoch = w.epoch
      /\ cell'.holder = w.holder /\ cell'.released = w.released
      /\ granted'[w.epoch] = IF cell = NoCell \/ cell.epoch # w.epoch
                               THEN w.holder ELSE granted[w.epoch]
      /\ \A e \in 1..MaxPuts : e # w.epoch => granted'[e] = granted[e]
      /\ \A v \in EpochWrite : v.match <= puts => ~ Lands(cell', v)
  BY PutFacts, <1>2, <1>4
<1>6. granted'[w.epoch] = w.holder
  BY <1>3, <1>5 DEF Sound
<1>7. CellOK'
  BY <1>1, <1>4, <1>5, <1>6 DEF CellOK
<1>8. LeaseOK'
  <2> SUFFICES ASSUME NEW p \in Pod, lease'[p] # NoLease
               PROVE  /\ lease'[p].epoch \in 1..cell'.epoch
                      /\ granted'[lease'[p].epoch] = p
                      /\ lease'[p].epoch = cell'.epoch => ~ cell'.released
                      /\ lease'[p].token \in 1..puts'
                      /\ lease'[p].token = puts' => lease'[p].epoch = cell'.epoch
    BY <1>5 DEF LeaseOK
  <2>1. CASE p = w.holder /\ lease'[p].epoch = w.epoch /\ lease'[p].token = puts + 1
    BY <2>1, <1>1, <1>4, <1>5, <1>6
  <2>2. CASE lease'[p] = lease[p]
    <3>1. /\ cell # NoCell
          /\ lease[p].epoch \in 1..cell.epoch
          /\ granted[lease[p].epoch] = p
          /\ lease[p].token \in 1..puts
      BY <2>2 DEF LeaseInv, LeaseOK
    <3>2. cell.epoch \in Nat /\ cell.epoch <= w.epoch
      BY <1>2, <1>3, <3>1 DEF Sound
    <3>3. lease[p].epoch \in 1..w.epoch /\ lease[p].epoch \in 1..MaxPuts
      BY <1>1, <1>4, <3>1, <3>2
    <3>4. granted'[lease[p].epoch] = p
      BY <1>3, <1>5, <1>6, <3>1, <3>2, <3>3 DEF Sound
    <3>5. lease[p].token # puts' /\ lease[p].token \in 1..puts'
      BY <1>1, <1>5, <3>1
    <3> QED
      BY <2>2, <1>5, <3>3, <3>4, <3>5
  <2> QED
    BY <2>1, <2>2
<1>9. SeenOK'
  BY <1>1, <1>5 DEF LeaseInv, SeenOK
<1>10. StrayOK'
  BY <1>1, <1>5 DEF LeaseInv, LeaseTypeOK, StrayOK, OnWireOK, EpochWrite
<1>11. CountOK'
  <2> SUFFICES ASSUME NEW p \in Pod
               PROVE  inc'[p].last <= puts' /\ inc'[p].last # puts'
    BY DEF CountOK
  <2>1. inc[p].last <= puts /\ inc[p].last \in Nat
    BY DEF LeaseInv, LeaseTypeOK, CountOK, Incarnation
  <2> QED
    BY <1>1, <1>5, <2>1 DEF Fresh
<1> QED
  BY <1>7, <1>8, <1>9, <1>10, <1>11

\* What a process has in flight, or left on the wire, is sound if it lands.
LEMMA StraySound ==
  ASSUME LeaseInv, NEW w \in stray, Lands(cell, w)
  PROVE  Sound(w)
  BY DEF LeaseInv, LeaseTypeOK, StrayOK, OnWireOK, Sound, MaySupersede

\* An acquire in flight, if it lands, supersedes exactly the cell it read, and
\* its sender was entitled to.
LEMMA AcquiringSound ==
  ASSUME LeaseInv, NEW p \in Pod, pc[p] = "acquire"
  PROVE  /\ Acquiring(p) \in EpochWrite
         /\ Acquiring(p).match <= puts
         /\ Acquiring(p).holder = p /\ Acquiring(p).released = FALSE
         /\ Lands(cell, Acquiring(p)) =>
              /\ Sound(Acquiring(p))
              /\ cell # NoCell => Acquiring(p).epoch = cell.epoch + 1 /\ MaySupersede(p)
<1>1. seen[p] \in EpochState \cup {NoCell} /\ puts \in Nat /\ p \in Holder
  BY BoundAssumption DEF LeaseInv, LeaseTypeOK, Pod
<1>2. Acquiring(p) \in EpochWrite /\ Acquiring(p).holder = p /\ Acquiring(p).released = FALSE
  BY <1>1 DEF Acquiring, AcquireWrite, EpochWrite, EpochState
<1>3. cell # NoCell => cell.token = puts /\ puts > 0
  BY DEF LeaseInv, CellOK
<1>4. CASE seen[p] = NoCell
  <2>1. Acquiring(p).match = 0 /\ Acquiring(p).epoch = 1
    BY <1>4 DEF Acquiring, AcquireWrite
  <2>2. Lands(cell, Acquiring(p)) => cell = NoCell
    BY <2>1, <1>3 DEF Lands
  <2> QED
    BY <1>1, <1>2, <2>1, <2>2 DEF Sound
<1>5. CASE seen[p] # NoCell
  <2>1. Acquiring(p).match = seen[p].token /\ Acquiring(p).epoch = seen[p].epoch + 1
    BY <1>5 DEF Acquiring, AcquireWrite
  <2>2. seen[p].token \in 1..puts /\ (seen[p].token = puts => seen[p] = cell /\ MaySupersede(p))
    BY <1>5 DEF LeaseInv, SeenOK
  <2>3. Lands(cell, Acquiring(p)) => cell # NoCell /\ seen[p].token = puts
    BY <1>1, <1>3, <2>1, <2>2 DEF Lands
  <2> QED
    BY <1>1, <1>2, <2>1, <2>2, <2>3 DEF Sound
<1> QED
  BY <1>4, <1>5

\* A renewal or a release in flight, if it lands, is the current holder's.
LEMMA HeldSound ==
  ASSUME LeaseInv, NEW p \in Pod, lease[p] # NoLease,
         NEW w \in {Renewing(p), Releasing(p)}
  PROVE  /\ w \in EpochWrite
         /\ w.match <= puts /\ w.holder = p /\ w.epoch = lease[p].epoch
         /\ Lands(cell, w) =>
              Sound(w) /\ cell # NoCell /\ w.epoch = cell.epoch /\ cell.holder = p /\ ~ cell.released
<1>1. lease[p] \in EpochLease /\ puts \in Nat /\ p \in Holder
  BY BoundAssumption DEF LeaseInv, LeaseTypeOK, Pod
<1>2. w \in EpochWrite /\ w.match = lease[p].token /\ w.holder = p /\ w.epoch = lease[p].epoch
  <2>1. CASE w = Renewing(p)
    BY <1>1, <2>1 DEF Renewing, RenewWrite, EpochWrite, EpochLease
  <2>2. CASE w = Releasing(p)
    BY <1>1, <2>2 DEF Releasing, ReleaseWrite, EpochWrite, EpochLease
  <2> QED
    BY <2>1, <2>2
<1>3. /\ cell # NoCell /\ cell.token = puts /\ granted[cell.epoch] = cell.holder
      /\ lease[p].token \in 1..puts
      /\ granted[lease[p].epoch] = p
      /\ lease[p].epoch = cell.epoch => ~ cell.released
      /\ lease[p].token = puts => lease[p].epoch = cell.epoch
  BY DEF LeaseInv, CellOK, LeaseOK
<1>4. Lands(cell, w) => lease[p].token = puts
  BY <1>1, <1>2, <1>3 DEF Lands
<1> QED
  BY <1>1, <1>2, <1>3, <1>4 DEF Sound

\* The types and HasLease survive a step that puts.
LEMMA PutTypes ==
  ASSUME LeaseInv, NEW w, Sound(w), Put(w)
  PROVE  /\ cell' \in EpochState \cup {NoCell} /\ puts' \in 0..MaxPuts
         /\ watch' \in [Pod -> 0..(QuietPolls + 1)]
         /\ granted' \in [1..MaxPuts -> Pod \cup {NoOne}]
<1>1. w \in EpochWrite /\ w.epoch \in 1..(puts + 1)
  BY BoundAssumption DEF LeaseInv, LeaseTypeOK, CellOK, Sound, EpochWrite, EpochState
<1> QED
  BY <1>1, PutFacts, QuietAssumption

\* An abandoned PUT that reaches the store late keeps the invariant.
LEMMA StrayArrivesInv ==
  ASSUME LeaseInv, NEW w \in stray, StrayArrives(w)
  PROVE  LeaseInv'
<1> USE DEF StrayArrives
<1>1. CASE Put(w)
  <2>1. Lands(cell, w) /\ Sound(w)
    BY <1>1, StraySound DEF Put
  <2>2. w.released => \A p \in Pod : lease[p] # NoLease => lease[p].epoch # w.epoch
    <3> SUFFICES ASSUME w.released, NEW p \in Pod, lease[p] # NoLease, lease[p].epoch = w.epoch
                 PROVE  FALSE
      OBVIOUS
    <3>1. /\ cell # NoCell
          /\ w.epoch = cell.epoch /\ w.holder = cell.holder
          /\ lease[w.holder] = NoLease \/ lease[w.holder].epoch # cell.epoch
      BY <2>1 DEF LeaseInv, StrayOK, OnWireOK, LeaseOK
    <3>2. granted[cell.epoch] = cell.holder /\ granted[lease[p].epoch] = p
      BY <3>1 DEF LeaseInv, CellOK, LeaseOK
    <3> QED
      BY <3>1, <3>2
  <2>3. CellOK' /\ LeaseOK' /\ SeenOK' /\ StrayOK' /\ CountOK'
    BY <1>1, <2>1, <2>2, PutPreserves
  <2>4. LeaseTypeOK' /\ HasLease'
    BY <1>1, <2>1, PutTypes DEF LeaseInv, LeaseTypeOK, HasLease
  <2> QED
    BY <2>3, <2>4 DEF LeaseInv
<1>2. CASE Refuse(w)
  BY <1>2 DEF Refuse, LeaseInv, LeaseTypeOK, HasLease, CellOK, LeaseOK, SeenOK, StrayOK, OnWireOK, CountOK,
              MaySupersede
<1> QED
  BY <1>1, <1>2

\* A start or a restart keeps the invariant.
LEMMA StartInv ==
  ASSUME LeaseInv, NEW p \in Pod, Start(p)
  PROVE  LeaseInv'
<1> USE DEF Start
<1>1. LeaseTypeOK'
  BY DEF LeaseInv, LeaseTypeOK, PC
<1>2. HasLease' /\ SeenOK'
  BY DEF LeaseInv, LeaseTypeOK, HasLease, SeenOK, MaySupersede
<1>3. CellOK' /\ LeaseOK' /\ StrayOK' /\ CountOK'
  BY DEF LeaseInv, CellOK, LeaseOK, StrayOK, OnWireOK, CountOK, MaySupersede
<1> QED
  BY <1>1, <1>2, <1>3 DEF LeaseInv

\* One more poll only raises the count, and keeps every full count full.
LEMMA WatchedFacts ==
  ASSUME LeaseInv, NEW p \in Pod, Watched(p)
  PROVE  /\ watch' \in [Pod -> 0..(QuietPolls + 1)]
         /\ \A q \in Pod : watch'[q] >= watch[q]
         /\ \A q \in Pod : watch[q] = QuietPolls + 1 => watch'[q] = QuietPolls + 1
         /\ watch'[p] = IF watch[p] < QuietPolls + 1 THEN watch[p] + 1 ELSE watch[p]
  BY QuietAssumption DEF LeaseInv, LeaseTypeOK, Watched

\* The two counts are natural numbers.
LEMMA CountTypes ==
  ASSUME LeaseInv, NEW q \in Pod
  PROVE  watch[q] \in Nat /\ inc[q].quiet \in Nat
<1>1. watch[q] \in 0..(QuietPolls + 1) /\ inc[q] \in Incarnation
  BY DEF LeaseInv, LeaseTypeOK
<1>2. inc[q].quiet \in 0..(QuietPolls - 1)
  BY <1>1 DEF Incarnation
<1> QED
  BY <1>1, <1>2, QuietAssumption

\* A poll that claims has watched the token it will match long enough.
LEMMA PollClaimInv ==
  ASSUME LeaseInv, NEW p \in Pod, PollClaim(p)
  PROVE  LeaseInv'
<1> USE DEF PollClaim
<1>1. /\ watch' \in [Pod -> 0..(QuietPolls + 1)]
      /\ \A q \in Pod : watch'[q] >= watch[q]
      /\ \A q \in Pod : watch[q] = QuietPolls + 1 => watch'[q] = QuietPolls + 1
      /\ watch'[p] = IF watch[p] < QuietPolls + 1 THEN watch[p] + 1 ELSE watch[p]
  BY WatchedFacts
<1>2. LeaseTypeOK'
  BY <1>1 DEF LeaseInv, LeaseTypeOK, PC
<1>3. HasLease'
  BY DEF LeaseInv, LeaseTypeOK, HasLease
<1>4. CellOK' /\ LeaseOK'
  BY DEF LeaseInv, CellOK, LeaseOK
<1>5. cell # NoCell => cell.token \in 1..puts /\ cell.token = puts /\ (MaySupersede(p))'
  <2> SUFFICES ASSUME cell # NoCell, ~ cell.released, cell.holder # p
               PROVE  cell.token \in 1..puts /\ cell.token = puts /\ watch'[p] = QuietPolls + 1
    BY BoundAssumption DEF MaySupersede, LeaseInv, CellOK, LeaseTypeOK
  <2>1. cell.token = puts /\ puts > 0 /\ puts \in Nat
    BY BoundAssumption DEF LeaseInv, CellOK, LeaseTypeOK
  <2>2. inc[p].last = cell.token /\ inc[p].quiet + 1 >= QuietPolls
    BY DEF Claimable, Quiet
  <2>3. watch[p] > inc[p].quiet
    BY <2>1, <2>2 DEF LeaseInv, CountOK
  <2>4. inc[p].quiet \in Nat /\ watch[p] \in 0..(QuietPolls + 1)
    BY QuietAssumption DEF LeaseInv, LeaseTypeOK, Incarnation
  <2> QED
    BY <1>1, <2>1, <2>2, <2>3, <2>4, QuietAssumption
<1>6. SeenOK'
  <2> SUFFICES ASSUME NEW q \in Pod, pc'[q] = "acquire", seen'[q] # NoCell
               PROVE  /\ seen'[q].token \in 1..puts
                      /\ seen'[q].token = puts => seen'[q] = cell /\ MaySupersede(q)'
    BY DEF SeenOK
  <2>1. CASE q = p
    <3>1. seen'[q] = cell
      BY <2>1 DEF LeaseInv, LeaseTypeOK
    <3> QED
      BY <2>1, <3>1, <1>5
  <2>2. CASE q # p
    <3>1. seen'[q] = seen[q] /\ pc[q] = "acquire"
      BY <2>2 DEF LeaseInv, LeaseTypeOK
    <3> QED
      BY <3>1, <1>1 DEF LeaseInv, SeenOK, MaySupersede
  <2> QED
    BY <2>1, <2>2
<1>7. StrayOK'
  BY <1>1 DEF LeaseInv, LeaseTypeOK, StrayOK, OnWireOK, MaySupersede, EpochWrite, Pod
<1>8. CountOK'
  <2> SUFFICES ASSUME NEW q \in Pod, inc[q].last = puts, puts > 0
               PROVE  watch'[q] > inc[q].quiet
    BY DEF LeaseInv, CountOK
  <2>1. watch[q] \in Nat /\ watch'[q] \in 0..(QuietPolls + 1) /\ inc[q].quiet \in Nat
    BY <1>1, CountTypes
  <2>2. watch[q] > inc[q].quiet /\ watch'[q] >= watch[q]
    BY <1>1 DEF LeaseInv, CountOK
  <2> QED
    BY <2>1, <2>2, QuietAssumption
<1> QED
  BY <1>2, <1>3, <1>4, <1>6, <1>7, <1>8 DEF LeaseInv

\* A poll that waits saves no more than it observed.
LEMMA PollWaitInv ==
  ASSUME LeaseInv, NEW p \in Pod, PollWait(p)
  PROVE  LeaseInv'
<1> USE DEF PollWait
<1>1. /\ watch' \in [Pod -> 0..(QuietPolls + 1)]
      /\ \A q \in Pod : watch'[q] >= watch[q]
      /\ \A q \in Pod : watch[q] = QuietPolls + 1 => watch'[q] = QuietPolls + 1
      /\ watch'[p] = IF watch[p] < QuietPolls + 1 THEN watch[p] + 1 ELSE watch[p]
  BY WatchedFacts
<1>2. /\ cell # NoCell /\ cell.token = puts /\ puts \in Nat /\ puts > 0
      /\ Quiet(p) => inc[p].quiet + 1 < QuietPolls
      /\ inc[p].quiet \in 0..(QuietPolls - 1) /\ watch[p] \in 0..(QuietPolls + 1)
  BY BoundAssumption, QuietAssumption
  DEF LeaseInv, LeaseTypeOK, CellOK, Claimable, Incarnation
<1>3. inc'[p] = [last |-> puts, quiet |-> IF Quiet(p) THEN inc[p].quiet + 1 ELSE 0]
      /\ \A q \in Pod : q # p => inc'[q] = inc[q]
  BY <1>2 DEF LeaseInv, LeaseTypeOK
<1>4. [last |-> puts, quiet |-> IF Quiet(p) THEN inc[p].quiet + 1 ELSE 0] \in Incarnation
  BY <1>2, QuietAssumption DEF Incarnation
<1>5. LeaseTypeOK'
  BY <1>1, <1>2, <1>4 DEF LeaseInv, LeaseTypeOK
<1>6. HasLease' /\ CellOK' /\ LeaseOK'
  BY DEF LeaseInv, HasLease, CellOK, LeaseOK
<1>7. SeenOK' /\ StrayOK'
  BY <1>1 DEF LeaseInv, LeaseTypeOK, SeenOK, StrayOK, OnWireOK, MaySupersede, EpochWrite, Pod
<1>8. CountOK'
  <2> SUFFICES ASSUME NEW q \in Pod
               PROVE  inc'[q].last <= puts /\ (inc'[q].last = puts => watch'[q] > inc'[q].quiet)
    BY DEF CountOK
  <2>1. CASE q # p
    <3>1. inc'[q] = inc[q] /\ inc[q].last <= puts /\ (inc[q].last = puts => watch[q] > inc[q].quiet)
      BY <2>1, <1>2, <1>3 DEF LeaseInv, CountOK
    <3>2. /\ watch[q] \in Nat /\ watch'[q] \in 0..(QuietPolls + 1)
          /\ inc[q].quiet \in Nat /\ watch'[q] >= watch[q]
      BY <1>1, CountTypes
    <3> QED
      BY <3>1, <3>2, QuietAssumption
  <2>2. CASE q = p
    <3>1. Quiet(p) => watch[p] > inc[p].quiet
      BY <1>2 DEF Quiet, LeaseInv, CountOK
    <3> QED
      BY <2>2, <3>1, <1>1, <1>2, <1>3, QuietAssumption
  <2> QED
    BY <2>1, <2>2
<1> QED
  BY <1>5, <1>6, <1>7, <1>8 DEF LeaseInv

\* A step that leaves the store alone keeps the cell's relations, if it only
\* gives leases up or adopts the current token of its own epoch, and leaves
\* on the wire nothing that could land wrongly.
LEMMA KeepPreserves ==
  ASSUME LeaseInv, UNCHANGED <<cell, puts, watch, granted>>,
         stray' \subseteq EpochWrite,
         \A w \in stray' : w \in stray \/ OnWireOK(w)',
         \A p \in Pod : pc'[p] = "acquire" => pc[p] = "acquire" /\ seen'[p] = seen[p],
         \A p \in Pod : inc'[p] \in {inc[p], Fresh},
         \A p \in Pod : lease'[p] # NoLease =>
            /\ lease[p] # NoLease /\ lease'[p].epoch = lease[p].epoch
            /\ \/ lease'[p].token = lease[p].token
               \/ lease'[p].token = puts /\ lease[p].epoch = cell.epoch
  PROVE  CellOK' /\ LeaseOK' /\ SeenOK' /\ StrayOK' /\ CountOK'
<1>1. CellOK'
  BY DEF LeaseInv, CellOK
<1>2. LeaseOK'
  <2> SUFFICES ASSUME NEW p \in Pod, lease'[p] # NoLease
               PROVE  /\ cell # NoCell
                      /\ lease'[p].epoch \in 1..cell.epoch
                      /\ granted[lease'[p].epoch] = p
                      /\ lease'[p].epoch = cell.epoch => ~ cell.released
                      /\ lease'[p].token \in 1..puts
                      /\ lease'[p].token = puts => lease'[p].epoch = cell.epoch
    BY DEF LeaseOK
  <2>1. /\ cell # NoCell /\ puts \in Nat /\ puts > 0
        /\ lease[p].epoch \in 1..cell.epoch
        /\ granted[lease[p].epoch] = p
        /\ lease[p].epoch = cell.epoch => ~ cell.released
        /\ lease[p].token \in 1..puts
        /\ lease[p].token = puts => lease[p].epoch = cell.epoch
    BY BoundAssumption DEF LeaseInv, LeaseTypeOK, LeaseOK, CellOK
  <2> QED
    BY <2>1
<1>3. SeenOK'
  BY DEF LeaseInv, SeenOK, MaySupersede
<1>4. StrayOK'
  <2> SUFFICES ASSUME NEW w \in stray', w \in stray PROVE OnWireOK(w)'
    BY DEF StrayOK
  <2>1. OnWireOK(w) /\ w.holder \in Pod
    BY DEF LeaseInv, StrayOK, EpochWrite, Pod
  <2> QED
    BY <2>1 DEF OnWireOK, MaySupersede
<1>5. CountOK'
  <2> SUFFICES ASSUME NEW p \in Pod
               PROVE  /\ inc'[p].last <= puts
                      /\ inc'[p].last = puts /\ puts > 0 => watch[p] > inc'[p].quiet
    BY DEF CountOK
  <2>1. CASE inc'[p] = inc[p]
    BY <2>1 DEF LeaseInv, CountOK
  <2>2. CASE inc'[p] = Fresh
    <3>1. puts \in Nat
      BY BoundAssumption DEF LeaseInv, LeaseTypeOK
    <3> QED
      BY <2>2, <3>1 DEF Fresh
  <2> QED
    BY <2>1, <2>2
<1> QED
  BY <1>1, <1>2, <1>3, <1>4, <1>5

\* A fresh incarnation is well typed.
LEMMA FreshType == Fresh \in Incarnation
  BY QuietAssumption DEF Fresh, Incarnation

\* An acquire that lands hands the next epoch to its sender alone.
LEMMA AcquireOkInv ==
  ASSUME LeaseInv, NEW p \in Pod, AcquireOk(p)
  PROVE  LeaseInv'
<1> DEFINE w == Acquiring(p)
<1>1. /\ w \in EpochWrite /\ w.holder = p /\ ~ w.released
      /\ Sound(w) /\ Put(w)
  BY AcquiringSound DEF AcquireOk, Put
<1>2. lease \in [Pod -> EpochLease \cup {NoLease}]
  BY DEF LeaseInv, LeaseTypeOK
<1>3. lease' = [lease EXCEPT ![p] = [epoch |-> w.epoch, token |-> puts + 1]]
  BY DEF AcquireOk
<1>4. lease'[p] = [epoch |-> w.epoch, token |-> puts + 1] /\ \A q \in Pod : q # p => lease'[q] = lease[q]
  BY <1>2, <1>3
<1>5. [epoch |-> w.epoch, token |-> puts + 1] \in EpochLease
  BY <1>1, BoundAssumption DEF EpochLease, EpochWrite, LeaseInv, LeaseTypeOK
<1>6. LeaseTypeOK'
  <2>1. /\ cell' \in EpochState \cup {NoCell} /\ puts' \in 0..MaxPuts
        /\ watch' \in [Pod -> 0..(QuietPolls + 1)]
        /\ granted' \in [1..MaxPuts -> Pod \cup {NoOne}]
    BY <1>1, PutTypes
  <2>2. lease' \in [Pod -> EpochLease \cup {NoLease}]
    BY <1>2, <1>3, <1>5
  <2>3. pc' \in [Pod -> PC] /\ inc' \in [Pod -> Incarnation]
          /\ seen' \in [Pod -> EpochState \cup {NoCell}]
    BY FreshType DEF LeaseInv, LeaseTypeOK, AcquireOk, PC
  <2> QED
    BY <2>1, <2>2, <2>3 DEF LeaseInv, LeaseTypeOK, AcquireOk
<1>7. HasLease'
  BY <1>4, <1>5, NoLeaseAssumption DEF LeaseInv, LeaseTypeOK, HasLease, AcquireOk
<1>8. \A q \in Pod : pc'[q] = "acquire" => pc[q] = "acquire" /\ seen'[q] = seen[q]
  BY DEF AcquireOk, LeaseInv, LeaseTypeOK
<1>9. \A q \in Pod : inc'[q] \in {inc[q], Fresh}
  BY DEF AcquireOk, LeaseInv, LeaseTypeOK
<1>10. CellOK' /\ LeaseOK' /\ SeenOK' /\ StrayOK' /\ CountOK'
  <2>1. stray' \subseteq stray
    BY DEF AcquireOk
  <2> HIDE DEF w
  <2> QED
    BY <1>1, <1>4, <1>8, <1>9, <2>1, PutPreserves
<1> QED
  BY <1>6, <1>7, <1>10 DEF LeaseInv

\* A PUT of p's that is abandoned now can only land as p's own write.
LEMMA AbandonedOK ==
  ASSUME LeaseInv, UNCHANGED <<cell, puts, watch, granted>>,
         NEW p \in Pod, NEW w \in EpochWrite,
         \/ pc[p] = "acquire" /\ w = Acquiring(p)
         \/ lease[p] # NoLease /\ w = Renewing(p)
         \/ lease[p] # NoLease /\ w = Releasing(p) /\ lease'[p] = NoLease
  PROVE  OnWireOK(w)'
<1>1. CASE pc[p] = "acquire" /\ w = Acquiring(p)
  <2>1. /\ w.match <= puts /\ w.holder = p /\ w.released = FALSE
        /\ Lands(cell, w) =>
             Sound(w) /\ (cell # NoCell => w.epoch = cell.epoch + 1 /\ MaySupersede(p))
    BY <1>1, AcquiringSound
  <2> QED
    BY <2>1 DEF OnWireOK, Sound, MaySupersede
<1>2. CASE lease[p] # NoLease /\ w = Renewing(p)
  <2>1. /\ w.match <= puts /\ w.holder = p
        /\ Lands(cell, w) =>
             Sound(w) /\ cell # NoCell /\ w.epoch = cell.epoch /\ cell.holder = p /\ ~ cell.released
    BY <1>2, HeldSound
  <2>2. w.released = FALSE
    BY <1>2 DEF Renewing, RenewWrite
  <2> QED
    BY <2>1, <2>2 DEF OnWireOK, MaySupersede
<1>3. CASE lease[p] # NoLease /\ w = Releasing(p) /\ lease'[p] = NoLease
  <2>1. /\ w.match <= puts /\ w.holder = p
        /\ Lands(cell, w) =>
             Sound(w) /\ cell # NoCell /\ w.epoch = cell.epoch /\ cell.holder = p /\ ~ cell.released
    BY <1>3, HeldSound
  <2> QED
    BY <1>3, <2>1 DEF OnWireOK, MaySupersede
<1> QED
  BY <1>1, <1>2, <1>3

\* A 412 on the acquire sends the process back to the claim loop.
LEMMA AcquireRefusedInv ==
  ASSUME LeaseInv, NEW p \in Pod, AcquireRefused(p)
  PROVE  LeaseInv'
<1> USE DEF AcquireRefused, LostRace, Refuse
<1>1. LeaseTypeOK'
  BY FreshType DEF LeaseInv, LeaseTypeOK, PC
<1>2. HasLease'
  BY DEF LeaseInv, LeaseTypeOK, HasLease
<1>3. /\ \A q \in Pod : pc'[q] = "acquire" => pc[q] = "acquire" /\ seen'[q] = seen[q]
      /\ \A q \in Pod : inc'[q] \in {inc[q], Fresh}
  BY DEF LeaseInv, LeaseTypeOK
<1>4. CellOK' /\ LeaseOK' /\ SeenOK' /\ StrayOK' /\ CountOK'
  BY <1>1, <1>3, KeepPreserves DEF LeaseTypeOK
<1> QED
  BY <1>1, <1>2, <1>4 DEF LeaseInv

\* An acquire that lands unheard makes its sender the cell's holder, without
\* a lease.
LEMMA AcquireRetriedInv ==
  ASSUME LeaseInv, NEW p \in Pod, AcquireRetried(p)
  PROVE  LeaseInv'
<1> DEFINE w == Acquiring(p)
<1> USE DEF AcquireRetried, LostRace
<1>1. Sound(w) /\ Put(w) /\ ~ w.released
  BY AcquiringSound DEF Put
<1>2. LeaseTypeOK'
  <2>1. /\ cell' \in EpochState \cup {NoCell} /\ puts' \in 0..MaxPuts
        /\ watch' \in [Pod -> 0..(QuietPolls + 1)]
        /\ granted' \in [1..MaxPuts -> Pod \cup {NoOne}]
    BY <1>1, PutTypes
  <2> QED
    BY <2>1, FreshType DEF LeaseInv, LeaseTypeOK, PC
<1>3. HasLease'
  BY DEF LeaseInv, LeaseTypeOK, HasLease
<1>4. /\ \A q \in Pod : pc'[q] = "acquire" => pc[q] = "acquire" /\ seen'[q] = seen[q]
      /\ \A q \in Pod : inc'[q] \in {inc[q], Fresh}
  BY DEF LeaseInv, LeaseTypeOK
<1>5. CellOK' /\ LeaseOK' /\ SeenOK' /\ StrayOK' /\ CountOK'
  <2>1. UNCHANGED <<stray, lease>>
    OBVIOUS
  <2> HIDE DEF w, AcquireRetried
  <2> QED
    BY <1>1, <1>4, <2>1, PutPreserves
<1> QED
  BY <1>2, <1>3, <1>5 DEF LeaseInv

\* A 409 does the same, and leaves the acquire on the wire.
LEMMA AcquireConflictInv ==
  ASSUME LeaseInv, NEW p \in Pod, AcquireConflict(p)
  PROVE  LeaseInv'
<1> USE DEF AcquireConflict, LostRace, Abandon
<1>1. Acquiring(p) \in EpochWrite
  BY AcquiringSound
<1>2. LeaseTypeOK'
  BY <1>1, FreshType DEF LeaseInv, LeaseTypeOK, PC
<1>3. HasLease'
  BY DEF LeaseInv, LeaseTypeOK, HasLease
<1>4. /\ \A q \in Pod : pc'[q] = "acquire" => pc[q] = "acquire" /\ seen'[q] = seen[q]
      /\ \A q \in Pod : inc'[q] \in {inc[q], Fresh}
  BY DEF LeaseInv, LeaseTypeOK
<1>5. \A w \in stray' : w \in stray \/ OnWireOK(w)'
  BY <1>1, AbandonedOK
<1>6. CellOK' /\ LeaseOK' /\ SeenOK' /\ StrayOK' /\ CountOK'
  BY <1>2, <1>4, <1>5, KeepPreserves DEF LeaseTypeOK
<1> QED
  BY <1>2, <1>3, <1>6 DEF LeaseInv

\* The rotation only moves the process on and saves its incarnation.
LEMMA RotatedInv ==
  ASSUME LeaseInv, NEW p \in Pod, Rotated(p)
  PROVE  LeaseInv'
<1> USE DEF Rotated
<1>1. LeaseTypeOK'
  BY FreshType DEF LeaseInv, LeaseTypeOK, PC
<1>2. HasLease'
  BY DEF LeaseInv, LeaseTypeOK, HasLease
<1>3. /\ \A q \in Pod : pc'[q] = "acquire" => pc[q] = "acquire"
      /\ \A q \in Pod : inc'[q] \in {inc[q], Fresh}
  BY DEF LeaseInv, LeaseTypeOK
<1>4. CellOK' /\ LeaseOK' /\ SeenOK' /\ StrayOK' /\ CountOK'
  BY <1>1, <1>3, KeepPreserves DEF LeaseTypeOK
<1> QED
  BY <1>1, <1>2, <1>4 DEF LeaseInv

\* Taking the gate for a renewal, learning of its 412, and taking it for the
\* release change nothing the invariant relates.
LEMMA GateInv ==
  ASSUME LeaseInv, NEW p \in Pod,
         \/ \E by \in {"renewer", "commit"} : RenewSend(p, by)
         \/ RenewRefused(p)
         \/ Release(p)
  PROVE  LeaseInv'
<1>1. /\ UNCHANGED <<cell, puts, stray, inc, seen, lease, watch, granted>>
      /\ \A q \in Pod : pc'[q] = "acquire" => pc[q] = "acquire"
  BY DEF RenewSend, RenewRefused, Release, Refuse, LeaseInv, LeaseTypeOK
<1>2. LeaseTypeOK'
  BY <1>1 DEF RenewSend, RenewRefused, Release, LeaseInv, LeaseTypeOK, PC
<1>3. HasLease'
  BY DEF RenewSend, RenewRefused, Release, LeaseInv, LeaseTypeOK, HasLease
<1>4. CellOK' /\ LeaseOK' /\ SeenOK' /\ StrayOK' /\ CountOK'
  BY <1>1, <1>2, KeepPreserves DEF LeaseTypeOK
<1> QED
  BY <1>2, <1>3, <1>4 DEF LeaseInv

\* A renewal that lands advances the cell's token and the lease's together.
LEMMA RenewOkInv ==
  ASSUME LeaseInv, NEW p \in Pod, RenewOk(p)
  PROVE  LeaseInv'
<1> DEFINE w == Renewing(p)
<1>1. lease[p] # NoLease /\ lease[p] \in EpochLease /\ lease \in [Pod -> EpochLease \cup {NoLease}]
  BY DEF RenewOk, AwaitsRenewal, LeaseInv, LeaseTypeOK, HasLease
<1>2. /\ w \in EpochWrite /\ w.holder = p /\ w.epoch = lease[p].epoch
      /\ Sound(w) /\ Put(w)
  BY <1>1, HeldSound DEF RenewOk, Put
<1>3. ~ w.released
  BY DEF Renewing, RenewWrite
<1>4. puts \in Nat
  BY BoundAssumption DEF LeaseInv, LeaseTypeOK
<1>5. /\ lease' \in [Pod -> EpochLease \cup {NoLease}]
      /\ lease'[p] \in EpochLease
      /\ lease'[p].epoch = lease[p].epoch /\ lease'[p].token = puts + 1
      /\ \A q \in Pod : q # p => lease'[q] = lease[q]
  BY <1>1, <1>4 DEF RenewOk, EpochLease
<1>6. LeaseTypeOK'
  <2>1. /\ cell' \in EpochState \cup {NoCell} /\ puts' \in 0..MaxPuts
        /\ watch' \in [Pod -> 0..(QuietPolls + 1)]
        /\ granted' \in [1..MaxPuts -> Pod \cup {NoOne}]
    BY <1>2, PutTypes
  <2> QED
    BY <1>5, <2>1 DEF LeaseInv, LeaseTypeOK, RenewOk
<1>7. HasLease'
  BY <1>1, <1>5, NoLeaseAssumption DEF LeaseInv, HasLease, RenewOk
<1>8. CellOK' /\ LeaseOK' /\ SeenOK' /\ StrayOK' /\ CountOK'
  <2>1. UNCHANGED <<stray, pc, inc, seen>>
    BY DEF RenewOk
  <2> HIDE DEF w
  <2> QED
    BY <1>2, <1>3, <1>5, <2>1, PutPreserves
<1> QED
  BY <1>6, <1>7, <1>8 DEF LeaseInv

\* A renewal that lands unheard only moves the token.
LEMMA RenewRetriedInv ==
  ASSUME LeaseInv, NEW p \in Pod, RenewRetried(p)
  PROVE  LeaseInv'
<1> DEFINE w == Renewing(p)
<1>1. lease[p] # NoLease
  BY DEF RenewRetried, AwaitsRenewal, LeaseInv, HasLease
<1>2. Sound(w) /\ Put(w) /\ ~ w.released
  BY <1>1, HeldSound DEF RenewRetried, Put, Renewing, RenewWrite
<1>3. LeaseTypeOK'
  <2>1. /\ cell' \in EpochState \cup {NoCell} /\ puts' \in 0..MaxPuts
        /\ watch' \in [Pod -> 0..(QuietPolls + 1)]
        /\ granted' \in [1..MaxPuts -> Pod \cup {NoOne}]
    BY <1>2, PutTypes
  <2> QED
    BY <2>1 DEF LeaseInv, LeaseTypeOK, RenewRetried
<1>4. HasLease'
  BY DEF LeaseInv, HasLease, RenewRetried
<1>5. CellOK' /\ LeaseOK' /\ SeenOK' /\ StrayOK' /\ CountOK'
  <2>1. UNCHANGED <<stray, pc, inc, seen, lease>>
    BY DEF RenewRetried
  <2> HIDE DEF w
  <2> QED
    BY <1>2, <2>1, PutPreserves
<1> QED
  BY <1>3, <1>4, <1>5 DEF LeaseInv

\* After a 412 a process adopts the token of a cell that is still its own,
\* or gives its lease up.
LEMMA RenewRereadInv ==
  ASSUME LeaseInv, NEW p \in Pod, RenewReread(p) \/ RenewRereadFails(p)
  PROVE  LeaseInv'
<1>1. lease[p] # NoLease /\ lease[p] \in EpochLease /\ lease \in [Pod -> EpochLease \cup {NoLease}]
  BY DEF RenewReread, RenewRereadFails, LeaseInv, LeaseTypeOK, HasLease
<1>2. UNCHANGED <<cell, puts, stray, inc, seen, watch, granted>>
      /\ gate' = [gate EXCEPT ![p] = "free"]
      /\ refused' = [refused EXCEPT ![p] = FALSE]
      /\ pc[p] = "hold"
  BY DEF RenewReread, RenewRereadFails
<1>3. CASE StillOurs(p) /\ pc' = pc /\ lease' = [lease EXCEPT ![p].token = cell.token]
  <2>1. cell \in EpochState /\ cell.token = puts /\ cell # NoCell /\ lease[p].epoch = cell.epoch
    BY <1>3 DEF StillOurs, LeaseInv, LeaseTypeOK, CellOK
  <2>2. /\ lease' \in [Pod -> EpochLease \cup {NoLease}]
        /\ lease'[p] \in EpochLease
        /\ lease'[p].epoch = lease[p].epoch /\ lease'[p].token = puts
        /\ \A q \in Pod : q # p => lease'[q] = lease[q]
    BY <1>1, <1>3, <2>1 DEF EpochLease, EpochState
  <2>3. LeaseTypeOK'
    BY <1>2, <1>3, <2>2 DEF LeaseInv, LeaseTypeOK
  <2>4. HasLease'
    BY <1>1, <1>3, <2>2, NoLeaseAssumption DEF LeaseInv, HasLease
  <2>5. CellOK' /\ LeaseOK' /\ SeenOK' /\ StrayOK' /\ CountOK'
    BY <1>1, <1>2, <1>3, <2>1, <2>2, <2>3, KeepPreserves DEF LeaseTypeOK
  <2> QED
    BY <2>3, <2>4, <2>5 DEF LeaseInv
<1>4. CASE Fence(p)
  <2> USE DEF Fence
  <2>1. LeaseTypeOK'
    BY <1>1, <1>2, <1>4 DEF LeaseInv, LeaseTypeOK, PC
  <2>2. HasLease'
    BY <1>1, <1>2, <1>4 DEF LeaseInv, LeaseTypeOK, HasLease
  <2>3. /\ \A q \in Pod : pc'[q] = "acquire" => pc[q] = "acquire"
        /\ \A q \in Pod : lease'[q] # NoLease => lease'[q] = lease[q]
    BY <1>1, <1>4 DEF LeaseInv, LeaseTypeOK
  <2>4. CellOK' /\ LeaseOK' /\ SeenOK' /\ StrayOK' /\ CountOK'
    BY <1>2, <2>1, <2>3, KeepPreserves DEF LeaseTypeOK
  <2> QED
    BY <2>1, <2>2, <2>4 DEF LeaseInv
<1> QED
  BY <1>3, <1>4 DEF RenewReread, RenewRereadFails

\* A heartbeat without an answer stays on the wire.
LEMMA RenewErrorInv ==
  ASSUME LeaseInv, NEW p \in Pod, RenewError(p)
  PROVE  LeaseInv'
<1> USE DEF RenewError, AwaitsRenewal, Abandon
<1>1. lease[p] # NoLease
  BY DEF LeaseInv, HasLease
<1>2. Renewing(p) \in EpochWrite
  BY <1>1, HeldSound
<1>3. LeaseTypeOK'
  BY <1>2 DEF LeaseInv, LeaseTypeOK
<1>4. HasLease'
  BY DEF LeaseInv, HasLease
<1>5. \A w \in stray' : w \in stray \/ OnWireOK(w)'
  BY <1>1, <1>2, AbandonedOK
<1>6. CellOK' /\ LeaseOK' /\ SeenOK' /\ StrayOK' /\ CountOK'
  BY <1>3, <1>5, KeepPreserves DEF LeaseTypeOK
<1> QED
  BY <1>3, <1>4, <1>6 DEF LeaseInv

\* A release gives the lease up whether it lands or not.
LEMMA ReleasedInv ==
  ASSUME LeaseInv, NEW p \in Pod, Released(p)
  PROVE  LeaseInv'
<1> DEFINE w == Releasing(p)
<1>1. lease[p] # NoLease /\ lease \in [Pod -> EpochLease \cup {NoLease}]
  BY DEF Released, LeaseInv, LeaseTypeOK, HasLease
<1>2. UNCHANGED <<stray, inc, seen, gate, refused>>
  BY DEF Released
<1>3. lease'[p] = NoLease /\ \A q \in Pod : q # p => lease'[q] = lease[q]
  BY <1>1 DEF Released
<1>4. HasLease' /\ \A q \in Pod : pc'[q] = "acquire" => pc[q] = "acquire"
  BY <1>1, <1>3 DEF Released, LeaseInv, LeaseTypeOK, HasLease
<1>5. pc' \in [Pod -> PC] /\ lease' \in [Pod -> EpochLease \cup {NoLease}]
  BY <1>1 DEF Released, LeaseInv, LeaseTypeOK, PC
<1>6. CASE Put(w)
  <2>1. /\ w \in EpochWrite /\ w.holder = p /\ w.epoch = lease[p].epoch /\ Sound(w)
        /\ cell # NoCell /\ w.epoch = cell.epoch
    BY <1>1, <1>6, HeldSound DEF Put
  <2>2. \A q \in Pod : lease'[q] # NoLease => lease'[q] = lease[q] /\ lease'[q].epoch # w.epoch
    <3> SUFFICES ASSUME NEW q \in Pod, lease'[q] # NoLease
                 PROVE  lease'[q] = lease[q] /\ lease[q].epoch # lease[p].epoch
      BY <2>1
    <3>1. q # p /\ lease'[q] = lease[q] /\ lease[q] # NoLease
      BY <1>3
    <3>2. granted[lease[q].epoch] = q /\ granted[lease[p].epoch] = p
      BY <1>1, <3>1 DEF LeaseInv, LeaseOK
    <3> QED
      BY <3>1, <3>2
  <2>3. LeaseTypeOK'
    <3>1. /\ cell' \in EpochState \cup {NoCell} /\ puts' \in 0..MaxPuts
          /\ watch' \in [Pod -> 0..(QuietPolls + 1)]
          /\ granted' \in [1..MaxPuts -> Pod \cup {NoOne}]
      BY <1>6, <2>1, PutTypes
    <3> QED
      BY <1>2, <1>5, <3>1 DEF LeaseInv, LeaseTypeOK
  <2>4. CellOK' /\ LeaseOK' /\ SeenOK' /\ StrayOK' /\ CountOK'
    <3> HIDE DEF w
    <3> QED
      BY <1>2, <1>4, <1>6, <2>1, <2>2, PutPreserves
  <2> QED
    BY <1>4, <2>3, <2>4 DEF LeaseInv
<1>7. CASE Refuse(w)
  <2>1. UNCHANGED <<cell, puts, watch, granted>>
    BY <1>7 DEF Refuse
  <2>2. LeaseTypeOK'
    BY <1>2, <1>5, <2>1 DEF LeaseInv, LeaseTypeOK
  <2>3. CellOK' /\ LeaseOK' /\ SeenOK' /\ StrayOK' /\ CountOK'
    BY <1>2, <1>3, <1>4, <2>1, <2>2, KeepPreserves DEF LeaseTypeOK
  <2> QED
    BY <1>4, <2>2, <2>3 DEF LeaseInv
<1> QED
  BY <1>6, <1>7 DEF Released

\* Whatever a process had in flight when it ended is sound if it lands.
LEMMA StopInv ==
  ASSUME LeaseInv, NEW p \in Pod, Stop(p)
  PROVE  LeaseInv'
<1>1. /\ UNCHANGED <<cell, puts, inc, watch, granted>>
      /\ lease \in [Pod -> EpochLease \cup {NoLease}]
      /\ stray' \subseteq stray \cup InFlight(p)
  BY DEF Stop, LeaseInv, LeaseTypeOK
<1>2. lease'[p] = NoLease /\ \A q \in Pod : q # p => lease'[q] = lease[q]
  BY <1>1 DEF Stop
<1>3. ASSUME NEW w \in InFlight(p)
      PROVE  w \in EpochWrite /\ OnWireOK(w)'
  <2>1. CASE pc[p] = "acquire" /\ w = Acquiring(p)
    <3>1. w \in EpochWrite
      BY <2>1, AcquiringSound
    <3> QED
      BY <1>1, <2>1, <3>1, AbandonedOK
  <2>2. CASE lease[p] # NoLease /\ (w = Renewing(p) \/ w = Releasing(p))
    <3>1. w \in EpochWrite
      BY <2>2, HeldSound
    <3> QED
      BY <1>1, <1>2, <2>2, <3>1, AbandonedOK
  <2> QED
    BY <1>3, <2>1, <2>2 DEF InFlight, AwaitsRenewal, LeaseInv, HasLease
<1>4. LeaseTypeOK'
  <2>1. stray' \subseteq EpochWrite
    BY <1>1, <1>3 DEF LeaseInv, LeaseTypeOK
  <2> QED
    BY <1>1, <2>1 DEF Stop, LeaseInv, LeaseTypeOK, PC
<1>5. HasLease'
  BY <1>1, <1>2 DEF Stop, LeaseInv, LeaseTypeOK, HasLease
<1>6. \A q \in Pod : pc'[q] = "acquire" => pc[q] = "acquire" /\ seen'[q] = seen[q]
  BY DEF Stop, LeaseInv, LeaseTypeOK
<1>7. CellOK' /\ LeaseOK' /\ SeenOK' /\ StrayOK' /\ CountOK'
  BY <1>1, <1>2, <1>3, <1>4, <1>6, KeepPreserves DEF LeaseTypeOK
<1> QED
  BY <1>4, <1>5, <1>7 DEF LeaseInv

\* Every step keeps the invariant.
LEMMA LeaseNextInv == LeaseInv /\ [LeaseNext]_leaseVars => LeaseInv'
<1> SUFFICES ASSUME LeaseInv, [LeaseNext]_leaseVars PROVE LeaseInv'
  OBVIOUS
<1>1. CASE UNCHANGED leaseVars
  <2>1. UNCHANGED <<cell, puts, stray, pc, inc, seen, lease, gate, refused, watch, granted>>
    BY <1>1 DEF leaseVars
  <2>2. LeaseTypeOK' /\ HasLease' /\ CellOK' /\ LeaseOK'
    BY <2>1 DEF LeaseInv, LeaseTypeOK, HasLease, CellOK, LeaseOK
  <2>3. SeenOK' /\ StrayOK' /\ CountOK'
    BY <2>1 DEF LeaseInv, SeenOK, StrayOK, OnWireOK, CountOK, MaySupersede
  <2> QED
    BY <2>2, <2>3 DEF LeaseInv
<1>2. ASSUME NEW w \in stray, StrayArrives(w) PROVE LeaseInv'
  BY <1>2, StrayArrivesInv
<1>3. ASSUME NEW p \in Pod, Start(p) \/ PollClaim(p) \/ PollWait(p) PROVE LeaseInv'
  BY <1>3, StartInv, PollClaimInv, PollWaitInv
<1>4. ASSUME NEW p \in Pod,
             \/ AcquireOk(p) \/ AcquireRefused(p) \/ AcquireRetried(p)
             \/ AcquireConflict(p) \/ Rotated(p)
      PROVE LeaseInv'
  BY <1>4, AcquireOkInv, AcquireRefusedInv, AcquireRetriedInv, AcquireConflictInv, RotatedInv
<1>5. ASSUME NEW p \in Pod, (\E by \in {"renewer", "commit"} : RenewSend(p, by)) \/ RenewRefused(p) \/ Release(p)
      PROVE LeaseInv'
  BY <1>5, GateInv
<1>6. ASSUME NEW p \in Pod,
             \/ RenewOk(p) \/ RenewRetried(p)
             \/ RenewReread(p) \/ RenewRereadFails(p) \/ RenewError(p)
      PROVE LeaseInv'
  BY <1>6, RenewOkInv, RenewRetriedInv, RenewRereadInv, RenewErrorInv
<1>7. ASSUME NEW p \in Pod, Released(p) \/ Stop(p) PROVE LeaseInv'
  BY <1>7, ReleasedInv, StopInv
<1> QED
  BY <1>1, <1>2, <1>3, <1>4, <1>5, <1>6, <1>7 DEF LeaseNext

-----------------------------------------------------------------------------
(* The theorems. *)

\* The inductive invariant holds in every reachable state, for any number
\* of pods, any threshold and any bound on the PUTs.
THEOREM LeaseInvariant == LeaseSpec => []LeaseInv
  BY LeaseInitInv, LeaseNextInv, PTL DEF LeaseSpec

\* Every variable keeps its type; in particular a persisted quiet count
\* never reaches QUIET_POLLS without a claim (lease.rs claim_step).
THEOREM LeaseTypeCorrect == LeaseSpec => []LeaseTypeOK
<1>1. LeaseInv => LeaseTypeOK
  BY DEF LeaseInv
<1> QED
  BY <1>1, LeaseInvariant, PTL

\* Two processes never hold leases of one epoch (epoch_acquire's bump under
\* its condition, lease.rs's adoption after a 412).
THEOREM EpochsExclusive == LeaseSpec => []OneHolderPerEpoch
<1>1. LeaseInv => OneHolderPerEpoch
  BY DEF LeaseInv, LeaseOK, OneHolderPerEpoch
<1> QED
  BY <1>1, LeaseInvariant, PTL

\* A lease is never ahead of the cell, and one of the cell's epoch belongs
\* to the holder the cell names.
THEOREM LeaseNeverAhead == LeaseSpec => []LeaseBehindCell
<1>1. LeaseInv => LeaseBehindCell
  <2> SUFFICES ASSUME LeaseInv, NEW p \in Pod, lease[p] # NoLease
               PROVE  /\ cell # NoCell
                      /\ lease[p].epoch <= cell.epoch
                      /\ lease[p].epoch = cell.epoch => cell.holder = p /\ ~ cell.released
    BY DEF LeaseBehindCell
  <2>1. /\ cell # NoCell
        /\ lease[p].epoch \in 1..cell.epoch
        /\ granted[lease[p].epoch] = p
        /\ lease[p].epoch = cell.epoch => ~ cell.released
    BY DEF LeaseInv, LeaseOK
  <2>2. cell.epoch \in Nat /\ granted[cell.epoch] = cell.holder
    BY <2>1 DEF LeaseInv, LeaseTypeOK, CellOK, EpochState
  <2> QED
    BY <2>1, <2>2
<1> QED
  BY <1>1, LeaseInvariant, PTL

\* Every PUT that lands is sound, whoever sent it and whenever it arrives;
\* one that changes the holder of an unreleased cell comes from a pod that
\* had watched the cell long enough.
LEMMA LandedSound ==
  ASSUME LeaseInv, LeaseNext, cell' # cell
  PROVE  \E w \in EpochWrite :
           /\ Put(w) /\ Sound(w)
           /\ cell # NoCell /\ ~ cell.released /\ w.holder # cell.holder
                => watch[w.holder] = QuietPolls + 1
<1>1. ASSUME NEW w \in stray, StrayArrives(w)
      PROVE  /\ w \in EpochWrite /\ Put(w) /\ Sound(w)
             /\ cell # NoCell /\ ~ cell.released /\ w.holder # cell.holder
                  => watch[w.holder] = QuietPolls + 1
  <2>1. Put(w) /\ Lands(cell, w) /\ w \in EpochWrite
    BY <1>1 DEF StrayArrives, Put, Refuse, LeaseInv, LeaseTypeOK
  <2> QED
    BY <2>1, StraySound DEF LeaseInv, StrayOK, OnWireOK, MaySupersede
<1>2. ASSUME NEW p \in Pod, AcquireOk(p) \/ AcquireRetried(p)
      PROVE  /\ Acquiring(p) \in EpochWrite /\ Put(Acquiring(p)) /\ Sound(Acquiring(p))
             /\ cell # NoCell /\ ~ cell.released /\ Acquiring(p).holder # cell.holder
                  => watch[Acquiring(p).holder] = QuietPolls + 1
  <2>1. pc[p] = "acquire" /\ Put(Acquiring(p)) /\ Lands(cell, Acquiring(p))
    BY <1>2 DEF AcquireOk, AcquireRetried, Put
  <2> QED
    BY <2>1, AcquiringSound DEF MaySupersede
<1>3. ASSUME NEW p \in Pod, NEW w \in {Renewing(p), Releasing(p)}, lease[p] # NoLease, Put(w)
      PROVE  w \in EpochWrite /\ Put(w) /\ Sound(w) /\ w.holder = cell.holder
  BY <1>3, HeldSound DEF Put
<1>4. ASSUME NEW p \in Pod, RenewOk(p) \/ RenewRetried(p) \/ Released(p)
      PROVE  lease[p] # NoLease /\ (Put(Renewing(p)) \/ Put(Releasing(p)))
  BY <1>4 DEF RenewOk, RenewRetried, AwaitsRenewal, Released, Refuse, LeaseInv, HasLease
<1>5. ASSUME NEW p \in Pod,
             \/ Start(p) \/ PollClaim(p) \/ PollWait(p) \/ AcquireRefused(p)
             \/ AcquireConflict(p) \/ Rotated(p)
             \/ \E by \in {"renewer", "commit"} : RenewSend(p, by)
             \/ RenewRefused(p) \/ RenewReread(p) \/ RenewRereadFails(p) \/ RenewError(p)
             \/ Release(p) \/ Stop(p)
      PROVE  FALSE
  BY <1>5 DEF Start, PollClaim, PollWait, AcquireRefused, AcquireConflict, Rotated, RenewSend,
              RenewRefused, RenewReread, RenewRereadFails, RenewError, Release, Stop, Refuse, Abandon
<1>6. CASE \E w \in stray : StrayArrives(w)
  BY <1>1, <1>6
<1>7. CASE \E p \in Pod : AcquireOk(p) \/ AcquireRetried(p)
  BY <1>2, <1>7
<1>8. CASE \E p \in Pod : RenewOk(p) \/ RenewRetried(p) \/ Released(p)
  <2>1. PICK p \in Pod : RenewOk(p) \/ RenewRetried(p) \/ Released(p)
    BY <1>8
  <2>2. PICK w \in {Renewing(p), Releasing(p)} : Put(w)
    BY <2>1, <1>4
  <2> QED
    BY <2>1, <2>2, <1>3, <1>4
<1> QED
  BY <1>5, <1>6, <1>7, <1>8 DEF LeaseNext

\* The cell moves by a new epoch, exactly one up, or by a write of the
\* current holder before its release; no late PUT does anything else.
THEOREM CellOnlyEvolves == LeaseSpec => CellEvolves
<1>1. ASSUME LeaseInv, [LeaseNext]_leaseVars
      PROVE  [cell' # cell =>
                IF cell = NoCell THEN cell'.epoch = 1
                ELSE \/ cell'.epoch = cell.epoch + 1 /\ ~ cell'.released
                     \/ /\ cell'.epoch = cell.epoch
                        /\ cell'.holder = cell.holder
                        /\ ~ cell.released]_leaseVars
  <2> SUFFICES ASSUME LeaseNext, cell' # cell
               PROVE  IF cell = NoCell THEN cell'.epoch = 1
                      ELSE \/ cell'.epoch = cell.epoch + 1 /\ ~ cell'.released
                           \/ /\ cell'.epoch = cell.epoch
                              /\ cell'.holder = cell.holder
                              /\ ~ cell.released
    BY <1>1
  <2>1. PICK w \in EpochWrite : Put(w) /\ Sound(w)
    BY <1>1, LandedSound
  <2>2. cell'.epoch = w.epoch /\ cell'.holder = w.holder /\ cell'.released = w.released
    BY <2>1 DEF Put, Written
  <2> QED
    BY <2>1, <2>2 DEF Sound
<1> QED
  BY <1>1, LeaseInvariant, PTL DEF LeaseSpec, CellEvolves

\* A holder that did not release is superseded by another pod only after
\* that pod saw its token stand still for QUIET_POLLS polls, however often
\* either of them restarted and whatever was still on the wire.
THEOREM TakeoverIsQuiet == LeaseSpec => TakeoverAfterQuiet
<1>1. ASSUME LeaseInv, [LeaseNext]_leaseVars
      PROVE  [(/\ cell # NoCell /\ cell' # cell
               /\ ~ cell.released
               /\ cell'.holder # cell.holder) => watch[cell'.holder] = QuietPolls + 1]_leaseVars
  <2> SUFFICES ASSUME LeaseNext, cell # NoCell, cell' # cell, ~ cell.released,
                      cell'.holder # cell.holder
               PROVE  watch[cell'.holder] = QuietPolls + 1
    BY <1>1
  <2>1. PICK w \in EpochWrite :
          /\ Put(w)
          /\ cell # NoCell /\ ~ cell.released /\ w.holder # cell.holder
               => watch[w.holder] = QuietPolls + 1
    BY <1>1, LandedSound
  <2>2. cell'.holder = w.holder
    BY <2>1 DEF Put, Written
  <2> QED
    BY <2>1, <2>2
<1> QED
  BY <1>1, LeaseInvariant, PTL DEF LeaseSpec, TakeoverAfterQuiet

\* A re-read after a 412 fences only a holder whose epoch has passed: our
\* own lost response never does (lease.rs renew_shared).
THEOREM FenceMeansDeposed == LeaseSpec => FenceIsDeposal
<1>1. ASSUME LeaseInv, [LeaseNext]_leaseVars
      PROVE  [\A p \in Pod :
                RenewReread(p) /\ pc'[p] = "fenced" => cell.epoch > lease[p].epoch]_leaseVars
  <2> SUFFICES ASSUME NEW p \in Pod, RenewReread(p), pc'[p] = "fenced"
               PROVE  cell.epoch > lease[p].epoch
    BY <1>1
  <2>1. pc[p] = "hold" /\ lease[p] # NoLease /\ ~ StillOurs(p)
    BY <1>1 DEF RenewReread, LeaseInv, HasLease
  <2>2. /\ cell # NoCell /\ cell.epoch \in Nat /\ granted[cell.epoch] = cell.holder
        /\ lease[p].epoch \in 1..cell.epoch
        /\ granted[lease[p].epoch] = p
        /\ lease[p].epoch = cell.epoch => ~ cell.released
    BY <1>1, <2>1 DEF LeaseInv, LeaseTypeOK, CellOK, LeaseOK, EpochState
  <2> QED
    BY <2>1, <2>2 DEF StillOurs
<1> QED
  BY <1>1, LeaseInvariant, PTL DEF LeaseSpec, FenceIsDeposal

\* A renewal that succeeds, or is adopted after a 412, finds the cell still
\* this holder's, so the snapshot CAS taken under it starts from a moment at
\* which the holder was not superseded (lease.rs Renewed, renew_shared).
THEOREM RenewedMeansCurrent == LeaseSpec => RenewedIsCurrent
<1>1. ASSUME LeaseInv, [LeaseNext]_leaseVars
      PROVE  [\A p \in Pod :
                RenewOk(p) \/ (RenewReread(p) /\ pc'[p] = "hold") =>
                  cell.holder = p /\ cell.epoch = lease[p].epoch /\ ~ cell.released]_leaseVars
  <2> SUFFICES ASSUME NEW p \in Pod, RenewOk(p) \/ (RenewReread(p) /\ pc'[p] = "hold")
               PROVE  cell.holder = p /\ cell.epoch = lease[p].epoch /\ ~ cell.released
    BY <1>1
  <2>1. CASE RenewOk(p)
    <3>1. lease[p] # NoLease /\ Lands(cell, Renewing(p))
      BY <1>1, <2>1 DEF RenewOk, AwaitsRenewal, Put, LeaseInv, HasLease
    <3> QED
      BY <1>1, <3>1, HeldSound
  <2>2. CASE RenewReread(p) /\ pc'[p] = "hold"
    <3>1. StillOurs(p)
      BY <1>1, <2>2 DEF RenewReread, Fence, LeaseInv, LeaseTypeOK
    <3> QED
      BY <3>1 DEF StillOurs
  <2> QED
    BY <2>1, <2>2
<1> QED
  BY <1>1, LeaseInvariant, PTL DEF LeaseSpec, RenewedIsCurrent

-----------------------------------------------------------------------------
(***************************************************************************)
(* ForgeLease implements WriterEpoch, for every set of pods, threshold and *)
(* bound.  A landed acquire is a grant, a fence or an exit is a loss, the  *)
(* release is a yield (early, on time or late), and everything else, the   *)
(* heartbeats and the polls included, is a stutter.                        *)
(***************************************************************************)
EpochVarsNow == <<EpochNow, HolderNow, ReleasedNow, HeldNow, LeavingNow>>

\* The initial states correspond.
LEMMA InitRefines == LeaseInit => Epochs!EpochInit
  BY DEF LeaseInit, Epochs!EpochInit, EpochNow, ReleasedNow, HeldNow, LeavingNow

\* A step that changes neither the cell nor a held epoch, and puts no release
\* on the wire, is a stutter.
LEMMA KeptStutters ==
  ASSUME LeaseInv, cell' = cell,
         \A q \in Pod : lease'[q] = lease[q],
         stray \subseteq stray', \A w \in stray' \ stray : ~ w.released
  PROVE  UNCHANGED EpochVarsNow
<1>1. LeavingNow' = LeavingNow
  BY DEF LeavingNow
<1>2. HeldNow' = HeldNow
  BY DEF HeldNow
<1> QED
  BY <1>1, <1>2 DEF EpochVarsNow, EpochNow, HolderNow, ReleasedNow

\* A process that forgets its lease and leaves no release behind loses it.
LEMMA ForgetLoses ==
  ASSUME LeaseInv, NEW p \in Pod, lease[p] # NoLease, cell' = cell,
         lease' = [lease EXCEPT ![p] = NoLease],
         stray \subseteq stray', \A w \in stray' \ stray : ~ w.released
  PROVE  Epochs!Lose(p)
<1>1. LeavingNow' = LeavingNow
  BY DEF LeavingNow
<1>2. lease \in [Pod -> EpochLease \cup {NoLease}]
  BY DEF LeaseInv, LeaseTypeOK
<1>3. HeldNow' = [HeldNow EXCEPT ![p] = 0]
  BY <1>2 DEF HeldNow
<1>4. HeldNow[p] # 0
  BY DEF HeldNow, LeaseInv, LeaseOK
<1> QED
  BY <1>1, <1>3, <1>4 DEF Epochs!Lose, EpochNow, HolderNow, ReleasedNow

\* Where a landed PUT leaves the mapped cell.
LEMMA PutNow ==
  ASSUME LeaseInv, NEW w, Sound(w), Put(w)
  PROVE  /\ EpochNow' = w.epoch /\ HolderNow' = w.holder /\ ReleasedNow' = w.released
         /\ \/ w.epoch = EpochNow + 1 /\ ~ w.released
            \/ /\ cell # NoCell /\ w.epoch = EpochNow /\ w.holder = HolderNow
               /\ ReleasedNow = FALSE
<1>1. w \in EpochWrite /\ w.epoch \in 1..(puts + 1)
  BY BoundAssumption DEF LeaseInv, LeaseTypeOK, CellOK, Sound, EpochWrite, EpochState
<1>2. /\ cell' # NoCell /\ cell'.epoch = w.epoch
      /\ cell'.holder = w.holder /\ cell'.released = w.released
  BY <1>1, PutFacts
<1>3. cell # NoCell => cell.epoch \in Nat /\ cell.released \in BOOLEAN
  BY DEF LeaseInv, LeaseTypeOK, EpochState
<1> QED
  BY <1>2, <1>3 DEF EpochNow, HolderNow, ReleasedNow, Sound

\* Late arrivals: a late acquire is a grant nobody hears of, a late release
\* a late yield, a late renewal a stutter.
LEMMA StrayRefines ==
  ASSUME LeaseInv, NEW w \in stray, StrayArrives(w)
  PROVE  Epochs!EpochNext \/ UNCHANGED EpochVarsNow
<1>1. w \in EpochWrite /\ w.holder \in Pod /\ stray' = stray \ {w} /\ lease' = lease
  BY DEF StrayArrives, LeaseInv, LeaseTypeOK, EpochWrite, Pod
<1>2. HeldNow' = HeldNow
  BY <1>1 DEF HeldNow
<1>3. ~ w.released => LeavingNow' = LeavingNow
  BY <1>1 DEF LeavingNow
<1>4. w.released => w.epoch \in LeavingNow /\ LeavingNow' \in {LeavingNow, LeavingNow \ {w.epoch}}
  <2> SUFFICES ASSUME w.released
               PROVE  w.epoch \in LeavingNow /\ LeavingNow' \in {LeavingNow, LeavingNow \ {w.epoch}}
    OBVIOUS
  <2>1. CASE \E v \in stray : v # w /\ v.released /\ v.epoch = w.epoch
    BY <1>1, <2>1 DEF LeavingNow
  <2>2. CASE \A v \in stray : v # w /\ v.released => v.epoch # w.epoch
    BY <1>1, <2>2 DEF LeavingNow
  <2> QED
    BY <2>1, <2>2
<1>5. CASE Put(w)
  <2>1. Sound(w)
    BY <1>5, StraySound DEF Put
  <2>2. /\ EpochNow' = w.epoch /\ HolderNow' = w.holder /\ ReleasedNow' = w.released
        /\ \/ w.epoch = EpochNow + 1 /\ ~ w.released
           \/ /\ cell # NoCell /\ w.epoch = EpochNow /\ w.holder = HolderNow
              /\ ReleasedNow = FALSE
    BY <1>5, <2>1, PutNow
  <2>3. CASE w.epoch = EpochNow + 1 /\ ~ w.released
    <3>1. Epochs!ClaimUnheard(w.holder)
      BY <1>1, <1>2, <1>3, <2>2, <2>3 DEF Epochs!ClaimUnheard, Epochs!Grant, EpochWrite
    <3> QED
      BY <1>1, <3>1 DEF Epochs!EpochNext
  <2>4. CASE w.released /\ w.epoch = EpochNow /\ w.holder = HolderNow /\ ReleasedNow = FALSE
    <3>1. Epochs!LateYield
      BY <1>1, <1>2, <1>4, <2>2, <2>4 DEF Epochs!LateYield, EpochWrite
    <3> QED
      BY <3>1 DEF Epochs!EpochNext
  <2>5. CASE ~ w.released /\ w.epoch = EpochNow /\ w.holder = HolderNow /\ ReleasedNow = FALSE
    BY <1>1, <1>2, <1>3, <2>2, <2>5 DEF EpochVarsNow, EpochWrite
  <2> QED
    BY <2>2, <2>3, <2>4, <2>5
<1>6. CASE Refuse(w)
  <2>1. UNCHANGED <<EpochNow, HolderNow, ReleasedNow>>
    BY <1>6 DEF Refuse, EpochNow, HolderNow, ReleasedNow
  <2>2. CASE w.released
    <3>1. Epochs!LateYield
      BY <1>2, <1>4, <2>1, <2>2 DEF Epochs!LateYield
    <3> QED
      BY <3>1 DEF Epochs!EpochNext
  <2>3. CASE ~ w.released
    BY <1>2, <1>3, <2>1, <2>3 DEF EpochVarsNow
  <2> QED
    BY <2>2, <2>3
<1> QED
  BY <1>5, <1>6 DEF StrayArrives

\* A landed acquire is a grant, heard or not.
LEMMA AcquireRefines ==
  ASSUME LeaseInv, NEW p \in Pod, AcquireOk(p) \/ AcquireRetried(p)
  PROVE  Epochs!EpochNext
<1>1. pc[p] = "acquire" /\ Put(Acquiring(p)) /\ Lands(cell, Acquiring(p)) /\ stray' = stray
  BY DEF AcquireOk, AcquireRetried, Put
<1>2. /\ Sound(Acquiring(p)) /\ Acquiring(p).holder = p /\ Acquiring(p).released = FALSE
      /\ Acquiring(p) \in EpochWrite
      /\ cell # NoCell => Acquiring(p).epoch = cell.epoch + 1
  BY <1>1, AcquiringSound
<1>3. EpochNow' = Acquiring(p).epoch /\ HolderNow' = p /\ ReleasedNow' = FALSE
  BY <1>1, <1>2, PutNow
<1>4. Acquiring(p).epoch = EpochNow + 1
  BY <1>2 DEF EpochNow, Sound
<1>5. LeavingNow' = LeavingNow
  BY <1>1 DEF LeavingNow
<1>6. Epochs!Grant(p)
  BY <1>3, <1>4 DEF Epochs!Grant
<1>7. CASE AcquireOk(p)
  <2>1. lease' = [lease EXCEPT ![p] = [epoch |-> Acquiring(p).epoch, token |-> puts + 1]]
    BY <1>7 DEF AcquireOk
  <2>2. lease \in [Pod -> EpochLease \cup {NoLease}] /\ puts + 1 \in Nat /\ Acquiring(p).epoch \in Nat
    BY <1>2, BoundAssumption DEF LeaseInv, LeaseTypeOK, EpochWrite
  <2>3. lease'[p] # NoLease /\ lease'[p].epoch = EpochNow + 1
    BY <1>4, <2>1, <2>2, NoLeaseAssumption DEF EpochLease
  <2>4. HeldNow' = [HeldNow EXCEPT ![p] = EpochNow + 1]
    BY <2>1, <2>2, <2>3 DEF HeldNow
  <2> QED
    BY <1>5, <1>6, <2>4 DEF Epochs!Claim, Epochs!EpochNext
<1>8. CASE AcquireRetried(p)
  <2>1. HeldNow' = HeldNow
    BY <1>8 DEF AcquireRetried, HeldNow
  <2> QED
    BY <1>5, <1>6, <2>1 DEF Epochs!ClaimUnheard, Epochs!EpochNext
<1> QED
  BY <1>7, <1>8

\* A lease that only gets a new token holds the epoch it held.
LEMMA TokenOnly ==
  ASSUME LeaseInv, NEW p \in Pod, lease[p] # NoLease, NEW t \in Nat,
         lease' = [lease EXCEPT ![p].token = t]
  PROVE  HeldNow' = HeldNow
<1>1. lease[p] \in EpochLease /\ lease \in [Pod -> EpochLease \cup {NoLease}]
  BY DEF LeaseInv, LeaseTypeOK
<1>2. /\ lease'[p] \in EpochLease /\ lease'[p].epoch = lease[p].epoch
      /\ \A q \in Pod : q # p => lease'[q] = lease[q]
  BY <1>1 DEF EpochLease
<1>3. lease'[p] # NoLease
  BY <1>2, NoLeaseAssumption
<1> QED
  BY <1>2, <1>3 DEF HeldNow

\* A heartbeat that lands is a stutter.
LEMMA RenewStutters ==
  ASSUME LeaseInv, NEW p \in Pod, RenewOk(p) \/ RenewRetried(p)
  PROVE  UNCHANGED EpochVarsNow
<1>1. lease[p] # NoLease /\ Put(Renewing(p)) /\ Lands(cell, Renewing(p)) /\ stray' = stray
  BY DEF RenewOk, RenewRetried, AwaitsRenewal, Put, LeaseInv, HasLease
<1>2. /\ Sound(Renewing(p)) /\ Renewing(p).holder = p
      /\ cell # NoCell /\ Renewing(p).epoch = cell.epoch /\ cell.holder = p /\ ~ cell.released
  BY <1>1, HeldSound
<1>3. Renewing(p).released = FALSE /\ cell.released \in BOOLEAN
  BY <1>2 DEF Renewing, RenewWrite, LeaseInv, LeaseTypeOK, EpochState
<1>4. UNCHANGED <<EpochNow, HolderNow, ReleasedNow>>
  <2>1. EpochNow' = cell.epoch /\ HolderNow' = cell.holder /\ ReleasedNow' = FALSE
    BY <1>1, <1>2, <1>3, PutNow
  <2> QED
    BY <1>2, <1>3, <2>1 DEF EpochNow, HolderNow, ReleasedNow
<1>5. HeldNow' = HeldNow
  <2>1. puts + 1 \in Nat
    BY BoundAssumption DEF LeaseInv, LeaseTypeOK
  <2>2. CASE RenewOk(p)
    BY <1>1, <2>1, <2>2, TokenOnly DEF RenewOk
  <2>3. CASE RenewRetried(p)
    BY <2>3 DEF RenewRetried, HeldNow
  <2> QED
    BY <2>2, <2>3
<1>6. LeavingNow' = LeavingNow
  BY <1>1 DEF LeavingNow
<1> QED
  BY <1>4, <1>5, <1>6 DEF EpochVarsNow

\* The re-read after a 412 adopts (a stutter) or fences (a loss).
LEMMA RereadRefines ==
  ASSUME LeaseInv, NEW p \in Pod, RenewReread(p) \/ RenewRereadFails(p)
  PROVE  Epochs!Lose(p) \/ UNCHANGED EpochVarsNow
<1>1. lease[p] # NoLease /\ cell' = cell /\ stray' = stray
  BY DEF RenewReread, RenewRereadFails, LeaseInv, HasLease
<1>2. CASE lease' = [lease EXCEPT ![p] = NoLease]
  BY <1>1, <1>2, ForgetLoses
<1>3. CASE lease' = [lease EXCEPT ![p].token = cell.token] /\ StillOurs(p)
  <2>1. cell.token \in Nat
    BY <1>3 DEF StillOurs, LeaseInv, LeaseTypeOK, EpochState
  <2>2. HeldNow' = HeldNow
    BY <1>1, <1>3, <2>1, TokenOnly
  <2>3. LeavingNow' = LeavingNow
    BY <1>1 DEF LeavingNow
  <2> QED
    BY <1>1, <2>2, <2>3 DEF EpochVarsNow, EpochNow, HolderNow, ReleasedNow
<1> QED
  BY <1>2, <1>3 DEF RenewReread, RenewRereadFails, Fence

\* An answered release is the holder's yield, or finds it deposed.
LEMMA ReleasedRefines ==
  ASSUME LeaseInv, NEW p \in Pod, Released(p)
  PROVE  Epochs!Yield(p) \/ Epochs!Lose(p)
<1>1. lease[p] # NoLease /\ stray' = stray /\ lease' = [lease EXCEPT ![p] = NoLease]
  BY DEF Released, LeaseInv, HasLease
<1>2. CASE Refuse(Releasing(p))
  BY <1>1, <1>2, ForgetLoses DEF Refuse
<1>3. CASE Put(Releasing(p))
  <2>1. /\ Sound(Releasing(p)) /\ Releasing(p).holder = p /\ Releasing(p).epoch = lease[p].epoch
        /\ cell # NoCell /\ Releasing(p).epoch = cell.epoch /\ cell.holder = p /\ ~ cell.released
    BY <1>1, <1>3, HeldSound DEF Put
  <2>2. Releasing(p).released = TRUE /\ cell.released = FALSE /\ cell.epoch \in 1..puts
    BY <2>1 DEF Releasing, ReleaseWrite, LeaseInv, LeaseTypeOK, EpochState, CellOK
  <2>3. EpochNow' = cell.epoch /\ HolderNow' = p /\ ReleasedNow' = TRUE
    BY <1>3, <2>1, <2>2, PutNow
  <2>4. EpochNow = cell.epoch /\ HolderNow = p /\ ReleasedNow = FALSE
    BY <2>1, <2>2 DEF EpochNow, HolderNow, ReleasedNow
  <2>5. HeldNow[p] = cell.epoch
    BY <1>1, <2>1 DEF HeldNow
  <2>6. lease \in [Pod -> EpochLease \cup {NoLease}]
    BY DEF LeaseInv, LeaseTypeOK
  <2>7. HeldNow' = [HeldNow EXCEPT ![p] = 0]
    BY <1>1, <2>6 DEF HeldNow
  <2>8. LeavingNow' = LeavingNow
    BY <1>1 DEF LeavingNow
  <2>9. cell.epoch > 0
    BY <2>2, BoundAssumption DEF LeaseInv, LeaseTypeOK
  <2> QED
    BY <2>2, <2>3, <2>4, <2>5, <2>7, <2>8, <2>9 DEF Epochs!Yield, Epochs!Current
<1> QED
  BY <1>2, <1>3 DEF Released

\* The end of a process: a loss, or, with its release on the wire, a leave.
LEMMA StopRefines ==
  ASSUME LeaseInv, NEW p \in Pod, Stop(p)
  PROVE  Epochs!Lose(p) \/ Epochs!Leave(p) \/ UNCHANGED EpochVarsNow
<1>1. /\ lease \in [Pod -> EpochLease \cup {NoLease}]
      /\ lease' = [lease EXCEPT ![p] = NoLease] /\ cell' = cell
      /\ \E W \in {{}, InFlight(p)} : stray' = stray \cup W
  BY DEF Stop, LeaseInv, LeaseTypeOK
<1>2. PICK W \in {{}, InFlight(p)} : stray' = stray \cup W
  BY <1>1
<1>3. CASE pc[p] # "release" \/ W = {}
  <2>1. stray \subseteq stray' /\ \A w \in stray' \ stray : ~ w.released
    BY <1>2, <1>3 DEF InFlight, Acquiring, AcquireWrite, Renewing, RenewWrite
  <2>2. CASE lease[p] # NoLease
    BY <1>1, <1>2, <2>1, <2>2, ForgetLoses
  <2>3. CASE lease[p] = NoLease
    <3>1. \A q \in Pod : lease'[q] = lease[q]
      BY <1>1, <2>3
    <3> QED
      BY <1>1, <1>2, <2>1, <3>1, KeptStutters
  <2> QED
    BY <2>2, <2>3
<1>4. CASE pc[p] = "release" /\ W = InFlight(p)
  <2>1. W = {Releasing(p)} /\ lease[p] # NoLease
    BY <1>4 DEF InFlight, LeaseInv, HasLease
  <2>2. Releasing(p).released = TRUE /\ Releasing(p).epoch = lease[p].epoch
    BY DEF Releasing, ReleaseWrite
  <2>3. HeldNow[p] = lease[p].epoch /\ HeldNow[p] # 0
    BY <2>1 DEF HeldNow, LeaseInv, LeaseOK
  <2>4. LeavingNow' = LeavingNow \cup {HeldNow[p]}
    BY <1>2, <2>1, <2>2, <2>3 DEF LeavingNow
  <2>5. HeldNow' = [HeldNow EXCEPT ![p] = 0]
    BY <1>1 DEF HeldNow
  <2> QED
    BY <1>1, <2>3, <2>4, <2>5 DEF Epochs!Leave, EpochNow, HolderNow, ReleasedNow
<1> QED
  BY <1>2, <1>3, <1>4

\* Every step of the lease is a step of WriterEpoch or a stutter.
LEMMA NextRefines ==
  LeaseInv /\ [LeaseNext]_leaseVars => [Epochs!EpochNext]_(Epochs!epochVars)
<1> SUFFICES ASSUME LeaseInv, [LeaseNext]_leaseVars
             PROVE  Epochs!EpochNext \/ UNCHANGED EpochVarsNow
  BY DEF EpochVarsNow, Epochs!epochVars
<1>1. CASE UNCHANGED leaseVars
  BY <1>1 DEF leaseVars, EpochVarsNow, EpochNow, HolderNow, ReleasedNow, HeldNow, LeavingNow
<1>2. ASSUME NEW w \in stray, StrayArrives(w)
      PROVE  Epochs!EpochNext \/ UNCHANGED EpochVarsNow
  BY <1>2, StrayRefines
<1>3. ASSUME NEW p \in Pod, AcquireOk(p) \/ AcquireRetried(p)
      PROVE  Epochs!EpochNext
  BY <1>3, AcquireRefines
<1>4. ASSUME NEW p \in Pod, RenewOk(p) \/ RenewRetried(p)
      PROVE  UNCHANGED EpochVarsNow
  BY <1>4, RenewStutters
<1>5. ASSUME NEW p \in Pod, RenewReread(p) \/ RenewRereadFails(p) \/ Released(p) \/ Stop(p)
      PROVE  Epochs!EpochNext \/ UNCHANGED EpochVarsNow
  BY <1>5, RereadRefines, ReleasedRefines, StopRefines DEF Epochs!EpochNext
<1>6. ASSUME NEW p \in Pod, AcquireConflict(p) \/ RenewError(p)
      PROVE  UNCHANGED EpochVarsNow
  <2>1. PICK w \in {Acquiring(p), Renewing(p)} : stray' = stray \cup {w}
    BY <1>6 DEF AcquireConflict, RenewError, Abandon
  <2>2. ~ w.released /\ cell' = cell /\ lease' = lease
    BY <1>6, <2>1 DEF AcquireConflict, RenewError, Abandon, Acquiring, AcquireWrite, Renewing, RenewWrite
  <2> QED
    BY <2>1, <2>2, KeptStutters
<1>7. ASSUME NEW p \in Pod,
             \/ Start(p) \/ PollClaim(p) \/ PollWait(p) \/ AcquireRefused(p) \/ Rotated(p)
             \/ \E by \in {"renewer", "commit"} : RenewSend(p, by)
             \/ RenewRefused(p) \/ Release(p)
      PROVE  UNCHANGED EpochVarsNow
  <2>1. cell' = cell /\ lease' = lease /\ stray' = stray
    BY <1>7 DEF Start, PollClaim, PollWait, AcquireRefused, Rotated, RenewSend, RenewRefused,
                Release, Refuse
  <2> QED
    BY <2>1, KeptStutters
<1> QED
  BY <1>1, <1>2, <1>3, <1>4, <1>5, <1>6, <1>7 DEF LeaseNext

\* The lease as it is built, of tokens, polls, renewals and late PUTs
\* (lease.rs over the store's epoch cell), implements the lease that
\* WriterEpoch promises and that the repository's model stands on.
THEOREM LeaseImplementsEpochs == LeaseSpec => ImplementsEpochs
<1>1. LeaseInit => Epochs!EpochInit
  BY InitRefines
<1> QED
  BY <1>1, NextRefines, LeaseInvariant, PTL DEF LeaseSpec, ImplementsEpochs, Epochs!EpochSpec

=============================================================================

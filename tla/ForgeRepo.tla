----------------------------- MODULE ForgeRepo -----------------------------
(***************************************************************************)
(* A forge repository: its snapshot and packs in the bucket, and the       *)
(* servers that claim it, restore it and publish pushes to it (batch.rs,   *)
(* snapshot.rs, restore.rs and the serving loop of server.rs).  The lease  *)
(* is WriterEpoch, which ForgeLease implements.                            *)
(*                                                                         *)
(* A deposed server does not know it is: between the renewal of a batch    *)
(* and its snapshot CAS another pod may claim, rotate and serve.  PUTs of  *)
(* the snapshot whose answer never came stay on the wire and may land at   *)
(* any later time.  Local refs and packs survive a container restart.      *)
(*                                                                         *)
(* A commit is a number above its parent's; a pack is content-named, so it *)
(* IS the set of commits in it.  The ETag of a snapshot is a hash of its   *)
(* body, and no two PUTs write one body (seq, epoch and writer differ), so *)
(* If-Match is equality of bodies.  The bundle and export fields, the      *)
(* clock and the server's own merge commits are left out.                  *)
(***************************************************************************)
EXTENDS WriterEpoch, FiniteSets, Sequences

CONSTANTS
  Ref,
  Push,       \* the ref updates clients may ask for
  Parent,     \* the parent of each commit
  MaxEpoch,   \* bound: epochs granted
  MaxSeq,     \* bound: writes of the snapshot
  MaxBatch,   \* FLINT_FORGE_BATCH_MAX: pushes in one batch
  MaxWire     \* bound: snapshot PUTs in flight that nobody waits for

Commit == DOMAIN Parent
Absent == 0                       \* the value of a ref that does not exist
Oid == Commit \cup {Absent}
Pack == SUBSET Commit

\* Object names are hashes of a fixed size: there are finitely many.
ASSUME CommitAssumption ==
  /\ Commit \subseteq Nat \ {0} /\ IsFiniteSet(Commit)
  /\ \A c \in Commit : Parent[c] \in Oid /\ Parent[c] < c
ASSUME PushAssumption == Push \subseteq [ref: Ref, old: Oid, new: Oid]
ASSUME RepoBoundAssumption ==
  {MaxEpoch, MaxSeq, MaxWire} \subseteq Nat /\ MaxBatch \in Nat \ {0}

\* What a commit needs: itself and its ancestors.
History[c \in Nat] == IF c \in Commit THEN {c} \cup History[Parent[c]] ELSE {}
Reachable(refs) == UNION {History[refs[r]] : r \in Ref}

(* A snapshot.  hist is not in the object: it is the lineage of the body,  *)
(* the pushes that made it, for the properties.  seq = 0 is the empty      *)
(* snapshot of a repository nobody published (Snapshot::empty, no etag).   *)
Snapshot == [seq: Nat, epoch: Nat, writer: Pod \cup {"none"},
             refs: [Ref -> Oid], packs: SUBSET Pack, hist: Seq(Push)]
Empty == [seq |-> 0, epoch |-> 0, writer |-> "none",
          refs |-> [r \in Ref |-> Absent], packs |-> {}, hist |-> <<>>]

\* A conditional PUT of the snapshot: the body it must match, the new body.
SnapshotPut == [match: Snapshot, body: Snapshot]

VARIABLES
  snap,    \* the snapshot object; Empty when there is none
  store,   \* the packs in the bucket
  wire,    \* snapshot PUTs nobody waits for any more
  at,      \* where each process is
  cell,    \* Syncer.cell: the snapshot the process last read or wrote
  refs,    \* the local refs of each pod's repository
  disk,    \* its local packs
  queue,   \* the pushes waiting at each pod's door
  batch,   \* the batch in progress
  told     \* the verdict each push last got

repoVars == <<snap, store, wire, at, cell, refs, disk, queue, batch, told>>
vars == <<epochVars, repoVars>>

\* down: no process.  claim: in the claim loop.  rotate, rotating: the
\* takeover rotation is to be read, is written.  load, restore: start-up.
\* idle: serving.  judge: a batch is judged.  commit: it has renewed and
\* uploads, then its CAS is in flight.  reload: the CAS failed ambiguously.
\* landed: the CAS landed.  report: the local refs moved too.
At == {"down", "claim", "rotate", "rotating", "load", "restore",
       "idle", "judge", "commit", "reload", "landed", "report"}
Serving == {"idle", "judge", "commit", "reload", "landed", "report"}

Range1(s) == {s[i] : i \in 1..Len(s)}

\* acc: the accepted pushes in order; eff: the effective refs they leave;
\* ng: refused ones; named, epoch: what the commit writes; up: uploaded.
Batch == [acc: Seq(Push), eff: [Ref -> Oid], ng: SUBSET Push,
          named: SUBSET Pack, epoch: Nat, up: SUBSET Pack]
NoBatch == [acc |-> <<>>, eff |-> [r \in Ref |-> Absent], ng |-> {},
            named |-> {}, epoch |-> 0, up |-> {}]

Size(b) == Len(b.acc) + Cardinality(b.ng)

RepoTypeOK ==
  /\ EpochTypeOK
  /\ snap \in Snapshot
  /\ store \subseteq Pack
  /\ wire \subseteq SnapshotPut
  /\ at \in [Pod -> At]
  /\ cell \in [Pod -> Snapshot]
  /\ refs \in [Pod -> [Ref -> Oid]]
  /\ disk \in [Pod -> SUBSET Pack]
  /\ queue \in [Pod -> SUBSET Push]
  /\ batch \in [Pod -> Batch] /\ \A p \in Pod : Size(batch[p]) <= MaxBatch
  /\ told \in [Push -> {"nothing", "waiting", "ok", "ng"}]

RepoInit ==
  /\ EpochInit /\ holder = "none"
  /\ snap = Empty
  /\ store = {}
  /\ wire = {}
  /\ at = [p \in Pod |-> "down"]
  /\ cell = [p \in Pod |-> Empty]
  /\ refs = [p \in Pod |-> [r \in Ref |-> Absent]]
  /\ disk = [p \in Pod |-> {}]
  /\ queue = [p \in Pod |-> {}]
  /\ batch = [p \in Pod |-> NoBatch]
  /\ told = [u \in Push |-> "nothing"]

-----------------------------------------------------------------------------
(* The store's side of snapshot::write. *)

\* The body snapshot::write makes of next: the stamps are its own.
Stamped(next, over, e, p) ==
  [next EXCEPT !.seq = over.seq + 1, !.epoch = e, !.writer = p]

PutLands(w) == w.match = snap /\ snap.seq < MaxSeq /\ snap' = w.body
PutRefused(w) == w.match # snap /\ UNCHANGED snap

\* An abandoned PUT reaches the store.
WireArrives(w) ==
  /\ w \in wire
  /\ wire' = wire \ {w}
  /\ PutLands(w) \/ PutRefused(w)
  /\ UNCHANGED <<epochVars, store, at, cell, refs, disk, queue, batch, told>>

-----------------------------------------------------------------------------
(* Start-up: claim, rotate, restore. *)

Go(p, where) == at' = [at EXCEPT ![p] = where]

\* The process starts, on whatever its volume kept.
Start(p) ==
  /\ at[p] = "down"
  /\ Go(p, "claim")
  /\ UNCHANGED <<epochVars, snap, store, wire, cell, refs, disk, queue, batch, told>>

\* Mutant: a pod that recognises itself in the cell does not rotate.
RotatesForeign(p) == epoch # 0 /\ ~ released /\ holder # p

\* Every claim but of a fresh or a cleanly released cell rotates.
Rotates(p) == epoch # 0 /\ ~ released

\* claim_step claimed.
ClaimRepo(p) ==
  /\ at[p] = "claim" /\ epoch < MaxEpoch
  /\ Claim(p)
  /\ Go(p, IF Rotates(p) THEN "rotate" ELSE "load")
  /\ UNCHANGED <<snap, store, wire, cell, refs, disk, queue, batch, told>>

\* An acquire that was answered 409 or 412, or whose process has ended since.
ClaimRepoUnheard(p) ==
  /\ epoch < MaxEpoch
  /\ ClaimUnheard(p)
  /\ UNCHANGED repoVars

\* rotate_for_takeover: load, and rewrite the same content.
RotateLoad(p) ==
  /\ at[p] = "rotate"
  /\ cell' = [cell EXCEPT ![p] = snap]
  /\ Go(p, "rotating")
  /\ UNCHANGED <<epochVars, snap, store, wire, refs, disk, queue, batch, told>>

Rotation(p) == [match |-> cell[p], body |-> Stamped(cell[p], cell[p], held[p], p)]

Rotate(p) ==
  /\ at[p] = "rotating"
  /\ PutLands(Rotation(p))
  /\ cell' = [cell EXCEPT ![p] = Rotation(p).body]
  /\ Go(p, "restore")
  /\ UNCHANGED <<epochVars, store, wire, refs, disk, queue, batch, told>>

\* A fresh or a released cell: the restore loads the snapshot itself.
Load(p) ==
  /\ at[p] = "load"
  /\ cell' = [cell EXCEPT ![p] = snap]
  /\ Go(p, "restore")
  /\ UNCHANGED <<epochVars, snap, store, wire, refs, disk, queue, batch, told>>

\* Mutant: refs the snapshot no longer has are left in place.
RestoredRefsKept(p) ==
  [r \in Ref |-> IF cell[p].refs[r] = Absent THEN refs[p][r] ELSE cell[p].refs[r]]

\* The snapshot's set, exactly.
RestoredRefs(p) == cell[p].refs

\* Fetch the named packs, drop the local ones it does not name, set the refs
\* to the snapshot's, prove them; a pack the bucket lacks refuses.
\* Nobody published yet: the local repository is left as it is.
Restore(p) ==
  /\ at[p] = "restore"
  /\ IF cell[p].seq = 0
       THEN UNCHANGED <<refs, disk>>
       ELSE /\ cell[p].packs \subseteq store
            /\ Reachable(cell[p].refs) \subseteq UNION cell[p].packs
            /\ disk' = [disk EXCEPT ![p] = cell[p].packs]
            /\ refs' = [refs EXCEPT ![p] = RestoredRefs(p)]
  /\ Go(p, "idle")
  /\ UNCHANGED <<epochVars, snap, store, wire, cell, queue, batch, told>>

-----------------------------------------------------------------------------
(* A batch: judge, renew, upload, CAS, move the refs, report. *)

\* The agreed view: a ref the bucket and the local repository do not agree
\* about is not pushable.
Disagreed(p) == {r \in Ref : refs[p][r] # cell[p].refs[r]}

\* What the client sends: what the advertised refs do not reach.
Sent(p, u) ==
  LET new == History[u.new] \ Reachable(refs[p]) IN IF new = {} THEN {} ELSE {new}

\* A push reaches the door of a serving pod: git migrates its pack before
\* the syncer hears of it, whatever the verdict will be.
Arrive(p, u) ==
  /\ at[p] \in Serving
  /\ told[u] \in {"nothing", "ng"}
  /\ queue' = [queue EXCEPT ![p] = @ \cup {u}]
  /\ told' = [told EXCEPT ![u] = "waiting"]
  /\ disk' = [disk EXCEPT ![p] = @ \cup Sent(p, u)]
  /\ UNCHANGED <<epochVars, snap, store, wire, at, cell, refs, batch>>

Room(b) == Size(b) < MaxBatch

\* Mutant: the old value the client names is not looked at.
AcceptsStale(p, u, eff) == u.ref \notin Disagreed(p)

\* judge, for a principal whom the policy allows to push and to rewind.
Accepts(p, u, eff) == u.ref \notin Disagreed(p) /\ u.old = eff[u.ref]

\* The next push of the batch, judged in arrival order against what the
\* batch already accepted.  A fenced server starts no batch.
Judge(p, u) ==
  /\ u \in queue[p]
  /\ \/ at[p] = "idle" /\ held[p] # 0
     \/ at[p] = "judge" /\ Room(batch[p])
  /\ LET b == IF at[p] = "idle" THEN [NoBatch EXCEPT !.eff = cell[p].refs] ELSE batch[p] IN
       batch' = [batch EXCEPT ![p] =
                   IF Accepts(p, u, b.eff)
                     THEN [b EXCEPT !.acc = Append(@, u), !.eff[u.ref] = u.new]
                     ELSE [b EXCEPT !.ng = @ \cup {u}]]
  /\ queue' = [queue EXCEPT ![p] = @ \ {u}]
  /\ Go(p, "judge")
  /\ UNCHANGED <<epochVars, snap, store, wire, cell, refs, disk, told>>

Members(b) == Range1(b.acc) \cup b.ng
Tell(S, v) == told' = [u \in Push |-> IF u \in S THEN v ELSE told[u]]

\* Nothing was accepted: every push has its report, nothing is published.
NothingAccepted(p) ==
  /\ at[p] = "judge" /\ batch[p].acc = <<>>
  /\ Tell(batch[p].ng, "ng")
  /\ batch' = [batch EXCEPT ![p] = NoBatch]
  /\ Go(p, "idle")
  /\ UNCHANGED <<epochVars, snap, store, wire, cell, refs, disk, queue>>

\* needed_packs: what the accepted tips reach and the snapshot's refs do
\* not, looked for in the packs nothing names (in the directory's order,
\* each only while something is wanted), then in the named ones.
Wanted(p) ==
  (UNION {History[u.new] : u \in Range1(batch[p].acc)}) \ Reachable(cell[p].refs)
Unnamed(p) == disk[p] \ cell[p].packs

\* Packs taken one by one, each of which had something still wanted.
ReadInOrder(T, want) ==
  \E s \in [1..Cardinality(T) -> T] :
    \A i \in DOMAIN s : (s[i] \cap want) \ UNION {s[h] : h \in 1..(i - 1)} # {}

NeededPacks(p) ==
  {cell[p].packs \cup T : T \in {T \in SUBSET Unnamed(p) :
     /\ Wanted(p) \cap UNION Unnamed(p) \subseteq UNION T
     /\ ReadInOrder(T, Wanted(p))}}

\* The renewal of a batch is granted (RenewedIsCurrent of ForgeLease).
Renewed(p) == Current(p)

\* The renewal of the batch succeeded; the set it names is worked out.  An
\* object in no pack is an error (Stop).
Renew(p) ==
  /\ at[p] = "judge" /\ batch[p].acc # <<>>
  /\ Renewed(p)
  /\ \E named \in NeededPacks(p) :
       /\ Wanted(p) \subseteq UNION named
       /\ batch' = [batch EXCEPT ![p].named = named, ![p].epoch = held[p]]
  /\ Go(p, "commit")
  /\ UNCHANGED <<epochVars, snap, store, wire, cell, refs, disk, queue, told>>

ToUpload(p) == (batch[p].named \ cell[p].packs) \ batch[p].up

Upload(p, k) ==
  /\ at[p] = "commit" /\ k \in ToUpload(p)
  /\ store' = store \cup {k}
  /\ batch' = [batch EXCEPT ![p].up = @ \cup {k}]
  /\ UNCHANGED <<epochVars, snap, wire, at, cell, refs, disk, queue, told>>

Touched(p) == {u.ref : u \in Range1(batch[p].acc)}

\* Mutant: the first command on a ref wins.
MovedFirst(p) ==
  [r \in Ref |->
     LET on == {i \in 1..Len(batch[p].acc) : batch[p].acc[i].ref = r} IN
       IF on = {} THEN cell[p].refs[r]
       ELSE batch[p].acc[CHOOSE i \in on : \A h \in on : i <= h].new]

\* The refs after the accepted pushes, the last command on a ref winning.
Moved(p) == [r \in Ref |-> IF r \in Touched(p) THEN batch[p].eff[r] ELSE cell[p].refs[r]]

\* The one snapshot CAS of the batch.
Publication(p) ==
  LET next == [cell[p] EXCEPT !.refs = Moved(p), !.packs = batch[p].named,
                              !.hist = @ \o batch[p].acc]
  IN [match |-> cell[p], body |-> Stamped(next, cell[p], batch[p].epoch, p)]

\* Mutant: the CAS does not wait for the uploads.
CommittingEarly(p) == at[p] = "commit"

Committing(p) == at[p] = "commit" /\ ToUpload(p) = {}

CasOk(p) ==
  /\ Committing(p)
  /\ PutLands(Publication(p))
  /\ cell' = [cell EXCEPT ![p] = Publication(p).body]
  /\ Go(p, "landed")
  /\ UNCHANGED <<epochVars, store, wire, refs, disk, queue, batch, told>>

\* Neither Ok nor 412 (a 409, a timeout): the PUT landed, or did not yet.
CasAmbiguous(p) ==
  /\ Committing(p)
  /\ \/ PutLands(Publication(p)) /\ UNCHANGED wire
     \/ /\ Cardinality(wire) < MaxWire
        /\ wire' = wire \cup {Publication(p)}
        /\ UNCHANGED snap
  /\ Go(p, "reload")
  /\ UNCHANGED <<epochVars, store, cell, refs, disk, queue, batch, told>>

\* Mutant: any next snapshot is taken for the batch's own.
AdoptsAnyNext(p) == snap.seq = cell[p].seq + 1

\* Mutant: any snapshot this holder wrote at this epoch is.
AdoptsAnySeq(p) == snap.epoch = batch[p].epoch /\ snap.writer = p

\* Is the snapshot read back the one this batch wrote?
Adopts(p) ==
  /\ snap.seq = cell[p].seq + 1
  /\ snap.epoch = batch[p].epoch
  /\ snap.writer = p

\* Adopt it; otherwise the batch fails (Stop).
Reload(p) ==
  /\ at[p] = "reload"
  /\ Adopts(p)
  /\ cell' = [cell EXCEPT ![p] = snap]
  /\ Go(p, "landed")
  /\ UNCHANGED <<epochVars, snap, store, wire, refs, disk, queue, batch, told>>

\* The value a ref had before the batch, which coalesce_per_ref keeps.
Started(p, r) == batch[p].acc[CHOOSE i \in 1..Len(batch[p].acc) :
                                /\ batch[p].acc[i].ref = r
                                /\ \A h \in 1..(i - 1) : batch[p].acc[h].ref # r].old

\* git takes the transaction, one entry per ref, unless it deletes a ref that
\* did not exist ("delete <ref>: zero <old-oid>").
GitTakes(p) == \A r \in Touched(p) : Started(p, r) # Absent \/ batch[p].eff[r] # Absent

\* One local ref transaction; refused, the batch fails (Stop).
UpdateRefs(p) ==
  /\ at[p] = "landed"
  /\ GitTakes(p)
  /\ refs' = [refs EXCEPT ![p] = [r \in Ref |-> IF r \in Touched(p) THEN batch[p].eff[r] ELSE @[r]]]
  /\ Go(p, "report")
  /\ UNCHANGED <<epochVars, snap, store, wire, cell, disk, queue, batch, told>>

Report(p) ==
  /\ at[p] = "report"
  /\ told' = [u \in Push |-> IF u \in Range1(batch[p].acc) THEN "ok"
                             ELSE IF u \in batch[p].ng THEN "ng" ELSE told[u]]
  /\ batch' = [batch EXCEPT ![p] = NoBatch]
  /\ Go(p, "idle")
  /\ UNCHANGED <<epochVars, snap, store, wire, cell, refs, disk, queue>>

-----------------------------------------------------------------------------
(* The ways out. *)

\* The process ends; the clients of its batch are told, or see it hang up.
Ends(p) ==
  /\ Go(p, "down")
  /\ held' = [held EXCEPT ![p] = 0]
  /\ Tell(Members(batch[p]) \cup queue[p], "ng")
  /\ queue' = [queue EXCEPT ![p] = {}]
  /\ batch' = [batch EXCEPT ![p] = NoBatch]
  /\ cell' = [cell EXCEPT ![p] = Empty]
  /\ UNCHANGED <<epoch, holder, released, leaving, store, refs, disk>>

\* The snapshot PUT a process has in flight, if it has one.
InFlight(p) ==
  IF at[p] = "rotating" THEN {Rotation(p)}
  ELSE IF Committing(p) THEN {Publication(p)} ELSE {}

\* A 412 on the CAS or on the rotation: another server writes here.  (Or the
\* PUT landed, its answer was lost, and the client's retry was refused.)
CasRefused(p) ==
  /\ \E w \in InFlight(p) : PutRefused(w) \/ PutLands(w)
  /\ Ends(p)
  /\ UNCHANGED wire

\* A crash, or any error that run_batch, the rotation or the restore
\* returns: nothing is acknowledged, and what was in flight may still land.
Stop(p) ==
  /\ at[p] # "down"
  /\ wire' \in {wire, wire \cup InFlight(p)}
  /\ Cardinality(wire') <= MaxWire
  /\ Ends(p)
  /\ UNCHANGED snap

\* The renewer finds its epoch passed, and fences.  What the serving loop is
\* in the middle of goes on until it next asks for the lease.
Fenced(p) ==
  /\ at[p] \in Serving \cup {"load", "restore"}
  /\ Lose(p)
  /\ UNCHANGED repoVars

\* SIGTERM, between batches: a clean release, answered or not.  Whoever
\* waits at the door sees the connection close.
Release(p) ==
  /\ at[p] = "idle"
  /\ Yield(p) \/ Leave(p)
  /\ Go(p, "down")
  /\ cell' = [cell EXCEPT ![p] = Empty]
  /\ queue' = [queue EXCEPT ![p] = {}]
  /\ Tell(queue[p], "ng")
  /\ UNCHANGED <<snap, store, wire, refs, disk, batch>>

LateRelease == LateYield /\ UNCHANGED repoVars

-----------------------------------------------------------------------------
RepoNext ==
  \/ \E w \in wire : WireArrives(w)
  \/ LateRelease
  \/ \E p \in Pod :
       \/ Start(p) \/ ClaimRepo(p) \/ ClaimRepoUnheard(p)
       \/ RotateLoad(p) \/ Rotate(p) \/ Load(p) \/ Restore(p)
       \/ \E u \in Push : Arrive(p, u) \/ Judge(p, u)
       \/ NothingAccepted(p) \/ Renew(p)
       \/ \E k \in Pack : Upload(p, k)
       \/ CasOk(p) \/ CasAmbiguous(p) \/ CasRefused(p) \/ Reload(p)
       \/ UpdateRefs(p) \/ Report(p)
       \/ Fenced(p) \/ Release(p) \/ Stop(p)

RepoSpec == RepoInit /\ [][RepoNext]_vars

-----------------------------------------------------------------------------
(* What makes the repository correct. *)

\* An acknowledged push is in the lineage of the snapshot, whatever crashed
\* or was deposed since.
AckedIsDurable == \A u \in Push : told[u] = "ok" => u \in Range1(snap.hist)

\* The bucket alone restores the repository: everything the snapshot's refs
\* reach is in packs it names, and it names only packs the bucket holds.
Restorable ==
  /\ snap.packs \subseteq store
  /\ Reachable(snap.refs) \subseteq UNION snap.packs

SameContent(s, t) == s.refs = t.refs /\ s.packs = t.packs /\ s.hist = t.hist

\* rotate_for_takeover, when a claimer stalls between its acquire and its
\* rotation: the straggler's rotation may come last, but no push is
\* published under a server that serves and is not superseded.
HolderContent ==
  \A p \in Pod :
    at[p] \in Serving /\ Current(p) =>
      \/ SameContent(snap, cell[p])
      \/ at[p] = "reload" /\ SameContent(snap, Publication(p).body)

\* Between batches the local refs are the snapshot's, so no ref is ever
\* refused as disagreed.
LocalAgrees == \A p \in Pod : at[p] = "idle" => refs[p] = cell[p].refs

\* "Exactly what the batch did" (coalesce_per_ref): a batch whose snapshot
\* landed hands git a transaction that git applies.
LandedApplies == \A p \in Pod : at[p] = "landed" => GitTakes(p)

\* The snapshot a batch adopts after an ambiguous CAS is the one it wrote.
AdoptsItsOwn == \A p \in Pod : at[p] = "reload" /\ Adopts(p) => snap = Publication(p).body

\* A refused push's pack stays on the server's disk: the snapshot names it
\* only if some published push needed an object in it.
NamesOnlyNeeded ==
  \A k \in snap.packs : \E u \in Range1(snap.hist) : k \cap History[u.new] # {}

\* Crashes, deposed servers and late PUTs included, the repository is one
\* log of pushes, and what is acknowledged is in it.
Log == INSTANCE RefLog WITH
  log   <- snap.hist,
  acked <- {u \in Push : told[u] = "ok"}
ImplementsLog == Log!LogSpec

\* The snapshot's refs are what its log of pushes leaves.
RefsFollowLog == snap.refs = Log!RefsAfter(snap.hist)[Len(snap.hist)]

\* The snapshot names every pack its refs need and only packs some published
\* push needed, all of them in the bucket, whichever pushes were refused and
\* wherever an upload failed (name_packs, upload_packs).
RepoInv == RepoTypeOK /\ Restorable /\ NamesOnlyNeeded

=============================================================================

----------------------------- MODULE ForgeFold -----------------------------
(***************************************************************************)
(* What deletes in a forge: folds and base rebuilds that stop naming packs *)
(* (fold.rs), retention that unlinks them, the ledger sweep and the full   *)
(* sweep that delete from the bucket (sweep.rs), the at-rest reclaim       *)
(* (restore.rs) and undo points (undo.rs) that keep what they name; beside *)
(* the batches that name packs, on pods that take over from each other.    *)
(*                                                                         *)
(* One loop per pod runs batches, fold commits and sweeps, one at a time;  *)
(* the fold's own task runs beside it.  A batch is one push here, and the  *)
(* steps ForgeRepo tells apart are merged where no other actor can tell.   *)
(* Which packs a fold takes is left open (the planner is FoldPlan).  Packs *)
(* are sets of commits, as in ForgeRepo; a pack and its siblings are one   *)
(* object.  Time is three facts that may come true: an object is older     *)
(* than the grace, an undo point is past its window, a retained pack past  *)
(* its time.                                                               *)
(***************************************************************************)
EXTENDS WriterEpoch, FiniteSets

CONSTANTS
  Ref, Push, Parent,
  MaxEpoch,   \* bound: epochs granted
  MaxSeq,     \* bound: writes of the snapshot
  MaxQueue,   \* bound: pushes waiting at one pod
  MaxWire,    \* bound: snapshot PUTs in flight that nobody waits for
  MaxFolds,   \* bound: folds started
  UndoMax     \* undo_max_points: the undo points a sweep reads

Commit == DOMAIN Parent
Absent == 0
Oid == Commit \cup {Absent}
Pack == (SUBSET Commit) \ {{}}

ASSUME FoldCommitAssumption ==
  /\ Commit \subseteq Nat \ {0}
  /\ \A c \in Commit : Parent[c] \in Oid /\ Parent[c] < c
ASSUME FoldPushAssumption == Push \subseteq [ref: Ref, old: Oid, new: Oid]

History[c \in Nat] == IF c \in Commit THEN {c} \cup History[Parent[c]] ELSE {}
Reachable(rs) == UNION {History[rs[r]] : r \in Ref}

NoRefs == [r \in Ref |-> Absent]
Snapshot == [seq: Nat, epoch: Nat, writer: Pod \cup {"none"},
             refs: [Ref -> Oid], packs: SUBSET Pack]
Empty == [seq |-> 0, epoch |-> 0, writer |-> "none", refs |-> NoRefs, packs |-> {}]
SnapshotPut == [match: Snapshot, body: Snapshot]

\* The batch in progress: its push and the packs it names.
NoPush == [ref |-> "none", old |-> Absent, new |-> Absent]
Batch == [push: Push \cup {NoPush}, named: SUBSET Pack]
NoBatch == [push |-> NoPush, named |-> {}]

\* The fold in flight (InFlight and FoldResult).  stage: none, packing,
\* uploading, uploaded: its result waits for the loop.
Fold == [stage: {"none", "packing", "uploading", "uploaded"}, base: BOOLEAN,
         inputs: SUBSET Pack, pack: SUBSET Commit]
NoFold == [stage |-> "none", base |-> FALSE, inputs |-> {}, pack |-> {}]

VARIABLES
  snap, store, wire,  \* the bucket: the snapshot, the packs, PUTs on their way
  rewound,    \* history: the snapshots a destructive push has replaced
  aged,       \* the packs in the bucket that are older than the grace
  undo,       \* the undo points: copies of snapshots
  past,       \* the undo points that are past their window
  at,         \* where each pod's loop is
  cell,       \* Syncer.cell
  refs, disk, \* the volume: local refs and packs
  retained,   \* fold-retained.json: superseded packs kept for readers
  ledger,     \* fold-ledger.json: what folds unnamed in the bucket
  queue, batch,
  fold,       \* Syncer.fold and its task
  doomed,     \* the candidates of the sweep in progress, found old enough
  folds       \* folds started, for the bound

bucketVars == <<snap, rewound, store, wire, aged, undo, past>>
volumeVars == <<refs, disk, retained, ledger>>
loopVars == <<at, cell, queue, batch, doomed>>
foldVars == <<fold, folds>>
vars == <<epochVars, bucketVars, volumeVars, loopVars, foldVars>>

\* restored: before serving.  commit: a batch uploads, then its CAS is in
\* flight.  landed: its refs are to move.  foldcas: a fold's CAS is in flight.
\* foldread: it failed ambiguously.  sweep: a sweep deletes.
At == {"down", "claim", "rotate", "restore", "restored", "idle", "uploads",
       "commit", "landed", "foldcas", "foldread", "sweep"}
Serving == {"idle", "uploads", "commit", "landed", "foldcas", "foldread", "sweep"}

FoldTypeOK ==
  /\ EpochTypeOK
  /\ snap \in Snapshot /\ rewound \subseteq Snapshot /\ store \subseteq Pack /\ wire \subseteq SnapshotPut
  /\ aged \subseteq store /\ undo \subseteq Snapshot /\ past \subseteq undo
  /\ at \in [Pod -> At] /\ cell \in [Pod -> Snapshot]
  /\ refs \in [Pod -> [Ref -> Oid]]
  /\ disk \in [Pod -> SUBSET Pack] /\ retained \in [Pod -> SUBSET Pack]
  /\ ledger \in [Pod -> SUBSET Pack]
  /\ queue \in [Pod -> SUBSET Push] /\ batch \in [Pod -> Batch]
  /\ fold \in [Pod -> Fold] /\ doomed \in [Pod -> SUBSET Pack] /\ folds \in Nat
  /\ \A p \in Pod : at[p] = "foldcas" => fold[p].stage = "uploaded"

FoldInit ==
  /\ EpochInit /\ holder = "none"
  /\ snap = Empty /\ rewound = {} /\ store = {} /\ wire = {} /\ aged = {} /\ undo = {} /\ past = {}
  /\ at = [p \in Pod |-> "down"] /\ cell = [p \in Pod |-> Empty]
  /\ refs = [p \in Pod |-> NoRefs]
  /\ disk = [p \in Pod |-> {}] /\ retained = [p \in Pod |-> {}]
  /\ ledger = [p \in Pod |-> {}]
  /\ queue = [p \in Pod |-> {}] /\ batch = [p \in Pod |-> NoBatch]
  /\ fold = [p \in Pod |-> NoFold] /\ doomed = [p \in Pod |-> {}] /\ folds = 0

Go(p, where) == at' = [at EXCEPT ![p] = where]

-----------------------------------------------------------------------------
(* The bucket. *)

Stamped(next, over, e, p) ==
  [next EXCEPT !.seq = over.seq + 1, !.epoch = e, !.writer = p]

\* A ref is deleted, or moves to a commit that does not have the old one.
Rewinds(old, new) == old # Absent /\ old \notin History[new]

PutLands(w) ==
  /\ w.match = snap /\ snap.seq < MaxSeq
  /\ snap' = w.body
  /\ rewound' = IF \E r \in Ref : Rewinds(w.match.refs[r], w.body.refs[r])
                  THEN rewound \cup {w.match} ELSE rewound
PutRefused(w) == w.match # snap /\ UNCHANGED <<snap, rewound>>

WireArrives(w) ==
  /\ w \in wire
  /\ wire' = wire \ {w}
  /\ PutLands(w) \/ PutRefused(w)
  /\ UNCHANGED <<epochVars, store, aged, undo, past, volumeVars, loopVars, foldVars>>

\* What a pod has uploaded and is about to name.
AboutToName(p) ==
  (IF at[p] = "commit" THEN batch[p].named ELSE {})
    \cup (IF fold[p].stage = "uploaded" THEN {fold[p].pack} ELSE {})

\* "The grace must outlive the longest upload": what is in the bucket grows
\* old, unless the one who put it there is still on its way to naming it.
GracePasses ==
  /\ aged' = aged \cup (store \ UNION {AboutToName(p) : p \in Pod})
  /\ aged' # aged
  /\ UNCHANGED <<epochVars, snap, rewound, store, wire, undo, past, volumeVars, loopVars, foldVars>>

\* An upload is a PUT even of a pack that is there: its age starts again.
Uploaded(K) == store' = store \cup K /\ aged' = aged \ K

\* The window passes for the oldest point first.
WindowPasses(s) ==
  /\ s \in undo \ past
  /\ \A t \in undo \ past : s.seq <= t.seq
  /\ past' = past \cup {s}
  /\ UNCHANGED <<epochVars, snap, rewound, store, wire, aged, undo, volumeVars, loopVars, foldVars>>

\* undo::list: the newest points, as many as a sweep reads.
Newest(n) == {s \in undo : Cardinality({t \in undo : t.seq > s.seq}) < n}

\* Mutant: undo points are read by nobody.
UndoReferencedNone == {}

\* undo::referenced: the packs of the points inside the window.
UndoReferenced == UNION {s.packs : s \in Newest(UndoMax) \ past}

UndoExpired == Newest(UndoMax) \cap past

-----------------------------------------------------------------------------
(* Start-up. *)

\* fold::load_state keeps the retained set and the ledger; the scratch goes.
Begin(p) ==
  /\ at[p] = "down"
  /\ Go(p, "claim")
  /\ UNCHANGED <<epochVars, bucketVars, volumeVars, cell, queue, batch, doomed, foldVars>>

ClaimFold(p) ==
  /\ at[p] = "claim" /\ epoch < MaxEpoch
  /\ Claim(p)
  /\ Go(p, IF epoch # 0 /\ ~ released THEN "rotate" ELSE "restore")
  /\ cell' = [cell EXCEPT ![p] = snap]
  /\ UNCHANGED <<bucketVars, volumeVars, queue, batch, doomed, foldVars>>

\* Load and CAS in one: a PUT that is refused between them is a Stop.
RotateFold(p) ==
  /\ at[p] = "rotate" /\ snap.seq < MaxSeq
  /\ snap' = Stamped(snap, snap, held[p], p)
  /\ cell' = [cell EXCEPT ![p] = snap']
  /\ Go(p, "restore")
  /\ UNCHANGED <<epochVars, rewound, store, wire, aged, undo, past, volumeVars, queue, batch, doomed, foldVars>>

\* A named pack that is not listed: look once more before believing it.
Revalidated(p) == IF cell[p].packs \subseteq store THEN cell[p] ELSE snap

\* A pack the snapshot names is not on its way out.
StillRetained(p, s) == retained[p] \ s.packs

\* Fetch what the snapshot names, unlink what neither it nor retention
\* keeps, take what it names off the retained list, set the refs, prove.
RestoreFold(p) ==
  /\ at[p] = "restore"
  /\ LET s == Revalidated(p) IN
       /\ s.packs \subseteq store
       /\ Reachable(s.refs) \subseteq UNION s.packs
       /\ cell' = [cell EXCEPT ![p] = s]
       /\ IF s.seq = 0
            THEN UNCHANGED <<refs, disk, retained>>
            ELSE /\ disk' = [disk EXCEPT ![p] = (@ \cap retained[p]) \cup s.packs]
                 /\ retained' = [retained EXCEPT ![p] = StillRetained(p, s)]
                 /\ refs' = [refs EXCEPT ![p] = s.refs]
  /\ Go(p, "restored")
  /\ UNCHANGED <<epochVars, bucketVars, ledger, queue, batch, doomed, foldVars>>

\* Every reachable object of the packs in D is in a pack that stays.
WhollyCovered(s, D) == Reachable(s.refs) \cap UNION D \subseteq UNION (s.packs \ D)

\* What the greedy walk may drop: it goes on while a pack is covered by the
\* ones kept.  Which set it ends with depends on sizes and names.
Droppable(s) ==
  {D \in (SUBSET s.packs) \ {{}} :
     /\ WhollyCovered(s, D)
     /\ \A k \in s.packs \ D : ~ WhollyCovered(s, D \cup {k})}

\* reclaim_at_rest: declined with fewer than two named packs, or when one is
\* not on disk.  Renew, one CAS that names fewer packs, then unlink.
Reclaim(p) ==
  /\ at[p] = "restored" /\ Current(p)
  /\ Cardinality(cell[p].packs) >= 2 /\ cell[p].packs \subseteq disk[p]
  /\ \E D \in Droppable(cell[p]) :
       LET next == [cell[p] EXCEPT !.packs = @ \ D]
           w == [match |-> cell[p], body |-> Stamped(next, cell[p], held[p], p)]
       IN  /\ PutLands(w)
           /\ cell' = [cell EXCEPT ![p] = w.body]
           /\ disk' = [disk EXCEPT ![p] = @ \ D]
  /\ Go(p, "idle")
  /\ UNCHANGED <<epochVars, store, wire, aged, undo, past, refs, retained, ledger, queue, batch, doomed, foldVars>>

\* Nothing to reclaim, or the rule is off.
Serve(p) ==
  /\ at[p] = "restored"
  /\ Go(p, "idle")
  /\ UNCHANGED <<epochVars, bucketVars, volumeVars, cell, queue, batch, doomed, foldVars>>

-----------------------------------------------------------------------------
(* Batches. *)

Sent(p, u) ==
  LET new == History[u.new] \ Reachable(refs[p]) IN IF new = {} THEN {} ELSE {new}

\* git migrates the pack, with a .keep that stays until the push is answered.
Arrive(p, u) ==
  /\ at[p] \in Serving /\ u \notin queue[p] /\ Cardinality(queue[p]) < MaxQueue
  /\ batch[p].push # u
  /\ queue' = [queue EXCEPT ![p] = @ \cup {u}]
  /\ disk' = [disk EXCEPT ![p] = @ \cup Sent(p, u)]
  /\ UNCHANGED <<epochVars, bucketVars, refs, retained, ledger, at, cell, batch, doomed, foldVars>>

\* The .keep files of the pushes that are not answered yet.  (A push keeps
\* the pack it sent, which is the history it did not find advertised.)
Kept(p) ==
  {k \in disk[p] : \E u \in queue[p] \cup ({batch[p].push} \ {NoPush}) :
                      k \subseteq History[u.new]}

\* Judged and refused: the client hears, its pack stays on the disk.
Refuse(p, u) ==
  /\ at[p] = "idle" /\ held[p] # 0 /\ u \in queue[p] /\ u.old # refs[p][u.ref]
  /\ queue' = [queue EXCEPT ![p] = @ \ {u}]
  /\ UNCHANGED <<epochVars, bucketVars, volumeVars, at, cell, batch, doomed, foldVars>>

\* Some of the packs in from, taken in the directory's order, each because
\* it had something still wanted.
Picks(from, want) ==
  {T \in SUBSET from :
     /\ want \cap UNION from \subseteq UNION T
     /\ \E s \in [1..Cardinality(T) -> T] :
          \A i \in DOMAIN s : (s[i] \cap want) \ UNION {s[h] : h \in 1..(i - 1)} # {}}

\* needed_packs: what the push needs and the snapshot's refs do not reach is
\* looked for in the packs nothing names, then in the named ones, and last
\* in the ones retention holds.
NeededPacks(p, u) ==
  LET named == cell[p].packs \ retained[p]
      want == History[u.new] \ Reachable(cell[p].refs)
      fresh == (disk[p] \ named) \ retained[p]
  IN UNION {{named \cup T \cup K : K \in Picks((disk[p] \cap retained[p]) \ named,
                                               (want \ UNION T) \ UNION named)}
              : T \in Picks(fresh, want)}

\* Mutant: what a batch names stays retained.
StaysRetainedAll(p, N) == retained[p]

\* What a batch names is not on its way out.
StaysRetained(p, N) == retained[p] \ N

\* Judged and accepted, the lease renewed, the named set worked out.  An object in no pack is an error (Stop).
Accept(p, u) ==
  /\ at[p] = "idle" /\ u \in queue[p] /\ u.old = refs[p][u.ref] /\ Current(p)
  /\ \E N \in NeededPacks(p, u) :
       /\ History[u.new] \ Reachable(cell[p].refs) \subseteq UNION N
       /\ batch' = [batch EXCEPT ![p] = [push |-> u, named |-> N]]
       /\ retained' = [retained EXCEPT ![p] = StaysRetained(p, N)]
  /\ queue' = [queue EXCEPT ![p] = @ \ {u}]
  /\ Go(p, "uploads")
  /\ UNCHANGED <<epochVars, bucketVars, refs, disk, ledger, cell, doomed, foldVars>>

\* is_destructive.
KeepsUndo(p) == Rewinds(batch[p].push.old, batch[p].push.new)

\* Upload what the bucket does not have; a destructive push then keeps a
\* copy of the snapshot it is about to replace, or fails to and goes on.
Upload(p) ==
  /\ at[p] = "uploads"
  /\ Uploaded(batch[p].named \ cell[p].packs)
  /\ \/ KeepsUndo(p) /\ undo' = undo \cup {cell[p]}
     \/ UNCHANGED undo
  /\ Go(p, "commit")
  /\ UNCHANGED <<epochVars, snap, rewound, wire, past, volumeVars, cell, queue, batch, doomed, foldVars>>

Publication(p) ==
  LET u == batch[p].push
      next == [cell[p] EXCEPT !.refs[u.ref] = u.new, !.packs = batch[p].named]
  IN [match |-> cell[p], body |-> Stamped(next, cell[p], held[p], p)]

\* The CAS landed, or failed ambiguously and is recognised as landed.
Cas(p) ==
  /\ at[p] = "commit" /\ held[p] # 0
  /\ PutLands(Publication(p))
  /\ cell' = [cell EXCEPT ![p] = snap']
  /\ Go(p, "landed")
  /\ UNCHANGED <<epochVars, store, wire, aged, undo, past, volumeVars, queue, batch, doomed, foldVars>>

\* The local refs move, the client hears, its .keep goes.
Land(p) ==
  /\ at[p] = "landed"
  /\ refs' = [refs EXCEPT ![p] = cell[p].refs]
  /\ batch' = [batch EXCEPT ![p] = NoBatch]
  /\ Go(p, "idle")
  /\ UNCHANGED <<epochVars, bucketVars, disk, retained, ledger, cell, queue, doomed, foldVars>>

-----------------------------------------------------------------------------
(* Folds. *)

\* planned, spawn: the inputs are frozen on the loop, at the end of a batch,
\* of a commit or on a tick.
Spawn(p, base) ==
  /\ at[p] = "idle" /\ held[p] # 0 /\ fold[p].stage = "none" /\ folds < MaxFolds
  /\ \E I \in SUBSET (cell[p].packs \cap disk[p]) :
       /\ IF base THEN I = cell[p].packs \cap disk[p] /\ I # {} ELSE Cardinality(I) >= 2
       /\ fold' = [fold EXCEPT ![p] = [stage |-> "packing", base |-> base,
                                       inputs |-> I, pack |-> {}]]
  /\ folds' = folds + 1
  /\ UNCHANGED <<epochVars, bucketVars, volumeVars, loopVars>>

\* pack-objects: a tier fold holds what its inputs hold, a base rebuild what
\* the local refs reach at this moment.  An empty pack is an error.
PackObjects(p) ==
  /\ fold[p].stage = "packing"
  /\ LET F == IF fold[p].base THEN Reachable(refs[p]) ELSE UNION fold[p].inputs IN
       /\ F # {}
       /\ fold' = [fold EXCEPT ![p].stage = "uploading", ![p].pack = F]
  /\ UNCHANGED <<epochVars, bucketVars, volumeVars, loopVars, folds>>

\* The task uploads; it looks at the fence and not at the lease.
FoldUpload(p) ==
  /\ fold[p].stage = "uploading" /\ held[p] # 0
  /\ Uploaded({fold[p].pack})
  /\ fold' = [fold EXCEPT ![p].stage = "uploaded"]
  /\ UNCHANGED <<epochVars, snap, rewound, wire, undo, past, volumeVars, loopVars, folds>>

\* The task fails, stalls and is aborted, or is refused for want of coverage.
FoldFails(p) ==
  /\ fold[p].stage \in {"packing", "uploading"}
  /\ fold' = [fold EXCEPT ![p] = NoFold]
  /\ UNCHANGED <<epochVars, bucketVars, volumeVars, loopVars, folds>>

\* The inputs that may be unnamed: everything they hold is in the roll-up.
Superseded(p) ==
  {k \in fold[p].inputs \ {fold[p].pack} : k \notin disk[p] \/ k \subseteq fold[p].pack}

\* commit: renew and rename the roll-up into the repository.  A rebuild that
\* reproduced a named pack and supersedes nothing is done here.
CommitPrep(p) ==
  /\ at[p] = "idle" /\ fold[p].stage = "uploaded" /\ Current(p)
  /\ IF fold[p].pack \in cell[p].packs /\ fold[p].inputs \subseteq {fold[p].pack}
       THEN fold' = [fold EXCEPT ![p] = NoFold] /\ UNCHANGED <<disk, at>>
       ELSE /\ disk' = [disk EXCEPT ![p] = @ \cup {fold[p].pack}]
            /\ Go(p, "foldcas")
            /\ UNCHANGED fold
  /\ UNCHANGED <<epochVars, bucketVars, refs, retained, ledger, cell, queue, batch, doomed, folds>>

\* The commit names the snapshot's list without what it supersedes, never the
\* directory.
FoldNames(p) == (cell[p].packs \ Superseded(p)) \cup {fold[p].pack}

FoldPublication(p) ==
  [match |-> cell[p],
   body |-> Stamped([cell[p] EXCEPT !.packs = FoldNames(p)], cell[p], held[p], p)]

\* After the CAS: what was superseded stays on disk for readers and goes on
\* the ledger.
Committed(p, s) ==
  /\ cell' = [cell EXCEPT ![p] = s]
  /\ retained' = [retained EXCEPT ![p] = @ \cup Superseded(p)]
  /\ ledger' = [ledger EXCEPT ![p] = @ \cup (Superseded(p) \cap disk[p])]
  /\ fold' = [fold EXCEPT ![p] = NoFold]
  /\ Go(p, "idle")

FoldCas(p) ==
  /\ at[p] = "foldcas" /\ held[p] # 0
  /\ PutLands(FoldPublication(p))
  /\ Committed(p, FoldPublication(p).body)
  /\ UNCHANGED <<epochVars, store, wire, aged, undo, past, refs, disk, queue, batch, doomed, folds>>

\* Neither Ok nor 412: the PUT landed, or is on its way.
FoldCasAmbiguous(p) ==
  /\ at[p] = "foldcas" /\ held[p] # 0
  /\ \/ PutLands(FoldPublication(p)) /\ UNCHANGED wire
     \/ /\ Cardinality(wire) < MaxWire
        /\ wire' = wire \cup {FoldPublication(p)}
        /\ UNCHANGED <<snap, rewound>>
  /\ Go(p, "foldread")
  /\ UNCHANGED <<epochVars, store, aged, undo, past, volumeVars, cell, queue, batch, doomed, foldVars>>

\* Read back: a snapshot of this epoch that names the roll-up is adopted;
\* anything else is fatal (Stop).
FoldAdopts(p) == fold[p].pack \in snap.packs /\ snap.epoch = held[p]

FoldReload(p) ==
  /\ at[p] = "foldread" /\ held[p] # 0
  /\ FoldAdopts(p)
  /\ Committed(p, snap)
  /\ UNCHANGED <<epochVars, bucketVars, refs, disk, queue, batch, doomed, folds>>

\* Past its time, not named, and no push is migrating onto the name.
MayUnlink(p, k) == k \in retained[p] /\ k \notin cell[p].packs /\ k \notin Kept(p)

UnlinkRetained(p, k) ==
  /\ at[p] = "idle" /\ MayUnlink(p, k)
  /\ disk' = [disk EXCEPT ![p] = @ \ {k}]
  /\ retained' = [retained EXCEPT ![p] = @ \ {k}]
  /\ UNCHANGED <<epochVars, bucketVars, refs, ledger, loopVars, foldVars>>

-----------------------------------------------------------------------------
(* Sweeps. *)

\* No fold in flight, and the snapshot is still the one this holder wrote.
MaySweep(p) == held[p] # 0 /\ fold[p].stage = "none" /\ snap = cell[p]

\* Candidates a pass found unnamed and old enough.  The HEADs of a pass are
\* taken together, before the first delete: the code takes each later.
Orphans(from) == {k \in from \cap aged : k \notin snap.packs \cup UndoReferenced}

\* sweep: the listing, then the reference set.
SweepBegin(p) ==
  /\ at[p] = "idle" /\ MaySweep(p)
  /\ Orphans(store) # {}
  /\ doomed' = [doomed EXCEPT ![p] = Orphans(store)]
  /\ Go(p, "sweep")
  /\ UNCHANGED <<epochVars, bucketVars, volumeVars, cell, queue, batch, foldVars>>

\* sweep_ledger: the same over what folds unnamed.  What is named again is
\* forgotten, what is too young stays.
LedgerBegin(p) ==
  /\ at[p] = "idle" /\ MaySweep(p)
  /\ ledger[p] # {}
  /\ doomed' = [doomed EXCEPT ![p] = Orphans(ledger[p])]
  /\ ledger' = [ledger EXCEPT ![p] = (@ \cap (store \ aged)) \ (snap.packs \cup UndoReferenced)]
  /\ Go(p, "sweep")
  /\ UNCHANGED <<epochVars, bucketVars, refs, disk, retained, cell, queue, batch, foldVars>>

\* Mutant: a deposed sweeper goes on deleting.
DeletesDeposed(p) == held[p] # 0

\* "Only the holder deletes": each DELETE is preceded by a renewal.
Deletes(p) == Current(p)

SweepDelete(p, k) ==
  /\ at[p] = "sweep" /\ k \in doomed[p] /\ Deletes(p)
  /\ store' = store \ {k} /\ aged' = aged \ {k}
  /\ doomed' = [doomed EXCEPT ![p] = @ \ {k}]
  /\ UNCHANGED <<epochVars, snap, rewound, wire, undo, past, volumeVars, at, cell, queue, batch, foldVars>>

\* The pass ends, or an error ends it: a sweep goes on to the undo points
\* past their window only when nothing is left.
SweepEnd(p) ==
  /\ at[p] = "sweep"
  /\ IF doomed[p] = {} THEN undo' = undo \ UndoExpired /\ past' = past \ UndoExpired
     ELSE UNCHANGED <<undo, past>>
  /\ doomed' = [doomed EXCEPT ![p] = {}]
  /\ Go(p, "idle")
  /\ UNCHANGED <<epochVars, snap, rewound, store, wire, aged, volumeVars, cell, queue, batch, foldVars>>

-----------------------------------------------------------------------------
(* The ways out. *)

InFlight(p) ==
  IF at[p] = "commit" THEN {Publication(p)}
  ELSE IF at[p] = "foldcas" THEN {FoldPublication(p)} ELSE {}

Ends(p) ==
  /\ Go(p, "down")
  /\ queue' = [queue EXCEPT ![p] = {}]
  /\ batch' = [batch EXCEPT ![p] = NoBatch]
  /\ doomed' = [doomed EXCEPT ![p] = {}]
  /\ fold' = [fold EXCEPT ![p] = NoFold]
  /\ cell' = [cell EXCEPT ![p] = Empty]

\* A crash, an error, a refused CAS: what was in flight may still land.
Stop(p) ==
  /\ at[p] # "down"
  /\ wire' \in {wire, wire \cup InFlight(p)} /\ Cardinality(wire') <= MaxWire
  /\ Ends(p)
  /\ held' = [held EXCEPT ![p] = 0]
  /\ UNCHANGED <<epoch, holder, released, leaving, snap, rewound, store, aged, undo, past, volumeVars, folds>>

\* SIGTERM between batches: the fold is aborted, the lease released.
ReleaseFold(p) ==
  /\ at[p] = "idle"
  /\ Yield(p)
  /\ Ends(p)
  /\ UNCHANGED <<bucketVars, volumeVars, folds>>

FoldNext ==
  \/ \E w \in wire : WireArrives(w)
  \/ GracePasses
  \/ \E s \in undo : WindowPasses(s)
  \/ \E p \in Pod :
       \/ Begin(p) \/ ClaimFold(p) \/ RotateFold(p) \/ RestoreFold(p)
       \/ Reclaim(p) \/ Serve(p)
       \/ \E u \in Push : Arrive(p, u) \/ Refuse(p, u) \/ Accept(p, u)
       \/ Upload(p) \/ Cas(p) \/ Land(p)
       \/ \E b \in BOOLEAN : Spawn(p, b)
       \/ PackObjects(p) \/ FoldUpload(p) \/ FoldFails(p)
       \/ CommitPrep(p) \/ FoldCas(p) \/ FoldCasAmbiguous(p) \/ FoldReload(p)
       \/ SweepBegin(p) \/ LedgerBegin(p) \/ SweepEnd(p)
       \/ \E k \in Pack : UnlinkRetained(p, k) \/ SweepDelete(p, k)
       \/ Stop(p) \/ ReleaseFold(p)

FoldSpec == FoldInit /\ [][FoldNext]_vars

-----------------------------------------------------------------------------
(* What deletion may never take. *)

\* The bucket alone restores the repository, whoever folded, reclaimed or
\* swept: the snapshot names only packs the bucket holds, and they hold all
\* its refs reach.
StaysRestorable ==
  /\ snap.packs \subseteq store
  /\ Reachable(snap.refs) \subseteq UNION snap.packs

\* Retention is never load-bearing: a serving pod's refs need no pack that
\* is about to be unlinked, so that its clones survive the unlink.
RetainedRedundant ==
  \A p \in Pod : at[p] \in Serving =>
    Reachable(refs[p]) \subseteq UNION (disk[p] \ retained[p])

\* A push that waits or is being published keeps its objects on disk: it is
\* never answered "in no pack" because of what compaction unlinked.
QueuedKeepsObjects ==
  \A p \in Pod : at[p] \in Serving =>
    \A u \in queue[p] : History[u.new] \subseteq UNION disk[p]

\* A destructive push can be taken back: the packs of every undo point
\* inside the window, of the newest undo_max_points, are in the bucket.  (A
\* point whose push never landed guards nothing.)
UndoRecoverable ==
  UNION {s.packs : s \in (Newest(UndoMax) \cap rewound) \ past} \subseteq store

\* Unlinking takes nothing that is needed: neither the refs a pod serves nor
\* the pushes it is about to publish rest on a pack that retention, a fold or
\* a reclaim may drop (fold::commit, unlink_retained).
FoldInv == FoldTypeOK /\ RetainedRedundant /\ QueuedKeepsObjects

=============================================================================

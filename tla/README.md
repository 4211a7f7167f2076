# Verification of flint: the forge and the NFS server

flint is a family of storage products. This project verifies two of its programs:
the **forge**, a git server whose only durable state is an object-store bucket
(`forge/syncer/src`, with the epoch cell of `crates/flint-store/src/s3.rs`), and
the state machinery of the **NFSv4.1 server** (`spdk-csi-driver/src/nfs`): sessions
and slots, byte-range locks with their database, read delegations and their recall,
and the request pipeline with its drain. Paths below are relative to the
repository's root.

## 1. The system

### Parts of the forge

| Part | State | Operations | Hard because |
|---|---|---|---|
| Epoch cell (`flint-store` `epoch_*`) | one object: holder, epoch, token (ETag), released mark | acquire, renew, release: conditional PUTs | lost answers, late PUTs, a client that retries by itself |
| Writer lease (`lease.rs`, `Hold` in `lib.rs`) | incarnation file, held lease, gate, fence | claim step, renew, re-read after a 412, release | restarts between polls; ours or theirs after a 412 |
| Snapshot (`snapshot.rs`) | one object: seq, epoch, writer, refs, pack names | load, CAS, takeover rotation | a deposed writer does not know it is |
| Batch (`batch.rs`) | the batch: accepted updates, effective refs, named packs | judge, renew, upload, CAS, move local refs, report | one step of six fails; an ambiguous CAS; several pushes on one ref |
| Restore (`restore.rs`) | local refs and packs of a volume that survives restarts | fetch, unlink, set refs, prove; at-rest reclaim | what an earlier incarnation left behind |
| Serving loop (`server.rs`, `status.rs`, `uds.rs`) | phase, facts, hook channel, door | claim loop, start-up, `select!` arms, drain | loop and renewer share a gate and a fence; readiness is a copy |
| Fold, sweeps, undo (`fold.rs`, `sweep.rs`, `undo.rs`) | ledger, retained packs, undo points | compaction, deletion | deletes race uploads and takeovers |
| Log, followers (`log.rs`, `follow.rs`) | one object per seq; a standby's warm copy | append, follow | holes and stale copies |
| Export, bundles, LFS, file API, prune, policy, hook | derived outputs, stateless checks | | |

**Interaction.** One server per repository writes. Servers compete for the epoch
cell; the winner rotates the snapshot, restores from it and serves. `git
receive-pack` calls a hook, which asks the serving loop over a Unix socket; the
loop collects pushes into a batch, and one snapshot CAS publishes the batch. A
renewer task renews the lease on every heartbeat, and each snapshot CAS renews
once more before it. Two servers never talk to each other: everything passes
through the two objects in the bucket.

**Properties that make each part correct.** The lease: one holder per epoch, no
takeover of a holder that shows signs of life, no fence for a holder that was not
deposed. The repository: an acknowledged push is durable, the bucket alone
restores it, a deposed writer publishes nothing. The server: it exits when fenced,
answers every push, gives way when stuck and only then. Compaction and sweeps:
nothing that is named, or may be, is deleted.

### Parts of the NFS server

| Part | State | Operations | Hard because |
|---|---|---|---|
| Sessions and slots (`v4/state/session.rs`, `dispatcher.rs`) | per slot: last seqid, cached reply | SEQUENCE, the COMPOUND loop, `cache_slot_reply` | resends on a new connection meet the first copy anywhere; seqids wrap; the reply is cached after it is encoded |
| Locks (`v4/operations/lockops.rs`) | five concurrent maps: locks, index by file, count per client, owners, stateids | LOCK, LOCKU, FREE_STATEID, lease sweep, cascade, restore | no lock around a handler; splits and merges of ranges at the width limit |
| State database (`state_backend`) | rows, an ordered queue of writes, group commits | capture, commit, load | a crash keeps a prefix; a row is captured after its effect is visible |
| Delegations (`v4/state/delegation.rs`, `deleg_recall.rs`) | an entry per file with records, guards and cooldown; two indexes, two counters; SEQ4 bits | grant, fence, return, revoke, teardown; one recall task per delegation | the fence and the grant must meet in one entry though entries are collected; a holder may answer anything or nothing |
| Request pipeline (`pipeline.rs`, `server_v4.rs`, `v4/back_channel.rs`) | permits, in-flight count, drain flag, registered back channels | read loop, submit, write, SIGTERM | three unsynchronised reads of the drain gate; a request may wait for a frame only its own read loop can read |

A connection's read loop dispatches each COMPOUND, inline or as a task; SEQUENCE
decides whether it runs; its operations call the lock and delegation tables, which
share the client table (a client that expires or is superseded is torn down in all
of them) and write through to the state database. A mutation, wherever it comes
from, passes the delegation fence; the recalls it starts go out over the back
channel of the holder's connection.

**Properties that make each part correct.** Slots: a request runs at most once and
is answered with its own reply. Locks: two owners hold one byte only to read it, and
each owner holds what it was told, across restarts. Delegations: nobody changes what
somebody else may read from its cache, and no recall is left hanging. Pipeline: the
count the drain trusts is honest, and no read loop is stuck for good.

The rest of the repository (the CSI driver, its operators, the pNFS servers, the
object tier, lean workspaces, the dashboard) is listed in `PROJECT.json` as not
modelled. The repository keeps specifications of its own under `formal/` and
`lean/formal/`; this project is independent of them.

## 2. The modules

```
EpochCell ── ForgeLease ──implements──> WriterEpoch ── ForgeRepo ──implements──> RefLog
                 │                           │             │
          ForgeLeaseProofs               ForgeFold   ForgeRepoProofs

FoldPlan ── FoldPlanProofs     ForgeServe ── ForgeServeProofs

LockRange ── NfsLocks ── NfsLocksProofs       NfsSlots ── NfsSlotsProofs
NfsDelegations ── NfsDelegationsProofs        NfsPipeline ── NfsPipelineProofs
```

| Module | Models | Lines of code it stands for |
|---|---|---|
| `EpochCell` | the conditional PUTs of the epoch cell | `s3.rs` `epoch_acquire`, `epoch_renew`, `epoch_release`, `epoch_write` |
| `ForgeLease` | the lease protocol of any number of pods | `lease.rs`, `Hold` |
| `WriterEpoch` | what the lease promises (abstract) | |
| `ForgeRepo` | takeover, restore and batches over the bucket | `snapshot.rs`, `restore.rs`, `batch.rs`, parts of `server.rs` |
| `RefLog` | what a repository promises its clients (abstract) | |
| `ForgeServe` | one server from claim to exit | `server.rs`, `spawn_renewer`, `Hold`, `status.rs`, `uds.rs` |
| `FoldPlan` | the compaction planner and the ladder of packs it makes | `fold.rs` `plan`, `base_gate` |
| `ForgeFold` | everything that deletes: folds, rebuilds, retention, both sweeps, undo points, the at-rest reclaim, beside batches and takeovers | `fold.rs`, `sweep.rs`, `undo.rs`, parts of `batch.rs`, `restore.rs` |
| `LockRange` | 64-bit ranges and what is left of one when another is cut out | `lockops.rs` `LockRange`, `remove_range` |
| `NfsLocks` | the lock tables, their database, teardown and restore | `lockops.rs`, parts of `dispatcher.rs`, `session.rs`, `stateid.rs`, `state_backend` |
| `NfsSlots` | the slot table and the COMPOUND loop of a session | `state/session.rs`, `dispatcher.rs`, `server_v4.rs` |
| `NfsPipeline` | read loops, permits, the drain gate, callbacks | `pipeline.rs`, `server_v4.rs`, `back_channel.rs`, `nfs_main.rs` |
| `NfsDelegations` | read delegations of one file, the fence and the recall ladder | `delegation.rs`, `deleg_recall.rs`, parts of `state/mod.rs`, `ioops.rs`, `dispatcher.rs` |
| `...Proofs` | inductive invariants, lemmas and theorems of the module they are named after (section 4) | |
| `MC...` | instances for TLC | |

### ForgeLease

`cell` is the object; `puts` numbers the PUTs that landed, and a token is such a
number (`epoch_write` salts every body, so ETags never repeat). `inc` is
`incarnation.json`. `lease`, `gate` and `refused` are the process's memory and are
lost with it. Sending a request and hearing its answer are two steps; a request
whose caller gave up or died is in `stray` and may land at any later time. The
SDK's own retry makes a landed PUT answer 412 (`AcquireRetried`, `RenewRetried`).
`watch` and `granted` are history variables for the properties.

### ForgeRepo

`snap` is the snapshot object, `store` the packs in the bucket, `wire` the
snapshot PUTs nobody waits for. Each pod has the volume that survives restarts
(`refs`, `disk`) and the memory that does not (`cell`, `queue`, `batch`). A commit
is a number above its parent's, and a pack is the set of its commits (packs are
content-named). `hist` is the lineage of a snapshot body: the pushes that made it.
The steps of `run_batch` are separate actions, in the code's order, so that
crashes, fences and other pods come between any two of them: `Judge`, `Renew`,
`Upload`, `CasOk`/`CasAmbiguous`/`CasRefused`, `Reload`, `UpdateRefs`, `Report`.
The lease is `WriterEpoch`: `Renewed` is its `Current`, which
`RenewedIsCurrent` of ForgeLease justifies.

Left out, as data the properties do not tell apart: policy (the principal may
push, delete and rewind), the clock, bundle and export fields. Planned for
later: merges made by the server (`refs/for/*`), atomic pushes of several
commands and the log entry. Undo points, the at-rest reclaim and the restore's second
look when a pack is missing matter only beside the sweeper and are in ForgeFold.

### ForgeServe

`stage` walks through `server::run`; `renewer` and `gate` are the renewer task and
`Hold`'s mutex; `facts` is what `/healthz` answers from. Time is counted in
heartbeats (`Beat`): a renewal takes at most `MaxHang` of them, and a challenger
takes over after `QuietPolls` heartbeats without a renewal. `Wedge` is a transfer
or a subprocess that never returns. `woken` is the state of the loop's watch
receiver, which counts values sent before it subscribed as seen.

### FoldPlan and ForgeFold

`FoldPlan` is the planner as the pure function it is, driven by pushes of a few
sizes and by a disk and a cadence that change at any time. `ForgeFold` takes any plan:
`fold` is the task that runs beside the loop (spawned, packed, uploaded), the loop
commits it with a CAS of its own. `retained` is the list of packs kept on disk for
clones that run, `ledger` what the next ledger sweep may delete, `doomed` what a
sweep has on its list: it deletes one name at a time and renews before each, so a
takeover, a batch or a fold may come between the reading and the delete. The renewal and
its DELETE are one step: a DELETE that is itself delayed past the term is not modelled.
The at-rest reclaim is declined with fewer than two named packs, and drops a set the
greedy walk may end with (`Droppable`); which one depends on sizes and names. A batch is
one push here; the steps `ForgeRepo` tells apart are merged where nobody can tell.

### NfsLocks

The maps have no lock around a handler, so a handler is a list of map operations
(`thr[t].todo`) that the server's threads interleave. `rows` is the captured state of
the database and `disk` the committed one; a crash goes back to `disk`. `told` is
what the replies let an owner believe. A lock's entry and its client's count change in one
step (`Insert`, `Forget`), as do the look-up and the removal of an entry in `Carve`, though
the code does them one after the other: nobody reads both. Two things the code does not exclude are
recorded and not assumed away: `overlap` (two requests of the file were worked on at
a time) and `lost` (a crash lost captured writes). The properties say which of them
they need to be absent.

### NfsSlots

A copy stands for the connection it was sent on, and the client keeps to the
protocol. `overtaken` records the slots that moved on with a request still running
(the client was told RETRY_UNCACHED_REP). `Before` starts a slot where the seqids are
about to wrap. The size limits are applied to replies of COMPOUNDs that succeed, where
what is cached and what was done can differ; the code measures the others too.

### NfsPipeline

The gate is entered by a check, a count and a second check, three steps. A COMPOUND may
wait for a callback's reply, which only the read loop of its connection delivers.
The model is sequentially consistent. The code stores the drain flag with Release,
changes the count with AcqRel and loads both with Acquire (`pipeline.rs:84-110`), which by
itself does not exclude that the drain misses a count while the reader misses the flag;
`CleanExit` does not speak of that. The release of a permit and of a count by a task that panics
(`pipeline.rs:122-133`) is left out.

### NfsDelegations

A step is what a thread does under the entry lock or one operation beside it.
`Entries` are the allocations an entry's reference may point to: a thread holds one
(`arc`) across the moment it is collected. The ladder of a recall is the actor named
by its stateid; time is a timer that may have run out. What the holder answers is
left open. A send may block (`blocked`): the session's callback slot, the connection's
writer and the write itself are waited for without a timer, and only the wait for the
reply has one (`back_channel.rs:253,259`). `RearmSignal::wait` is two steps, the waiter's
registration (`listening`) and the reading of the epoch (`parked`). `late` and `crossed`
record the two races the code does not exclude: a grant its client's teardown did not
see, and a revocation between a FREE_STATEID's look and its lowering of the bit. The two
counters and the mark in the stateid table are one step of `Mark`: nothing reads one of
them and then another.

## 3. The runs

| Run | Bounds | Shows |
|---|---|---|
| `lease` | 2 pods, QuietPolls 2, 4 PUTs, 1 stray | the nine properties of ForgeLease, the refinement included |
| `repo` | 3 snapshot writes, batches of 2, and either 2 pods that take over from each other with 2 chained pushes, 3 epochs and 1 PUT on the wire, or 1 pod with 4 pushes on 2 refs (a chain, a branch, a delete) and 2 epochs | no acknowledged push is lost across takeovers; the bucket restores; local and published refs agree; the repository is one log |
| `serve` | QuietPolls 6, MaxHang 2, tiers on | lifecycle safety and liveness |
| `fold_plan` | pushes of 1, 3 or 7 bytes, factor 2, at most 5 tiers and 24 bytes | the planner bounds the ladder, buys no rewrite the cadence forbids and comes to rest |
| `fold` | alone: 1 pod, 4 pushes, 2 epochs, 2 folds; the same with a branch that is replaced after 1 fold, reclaimed and pushed again; or 2 pods that depose each other, 1 push, a fold's PUT on the wire | nothing needed is deleted or unlinked |
| `locks` | 2 clients, 2 threads, 3 ranges of 3 bits, 3 locks; one restart, or a crash, or overlap, each on its own | the lock tables and their database |
| `slots` | 1 slot, 2 requests of 6 shapes, 3 copies each, seqids modulo 8 starting at 0 and 7 | exactly-once and true answers |
| `pipeline` | 2 connections with 3 and 1 requests, 2 permits | permits, count, drain, liveness |
| `deleg` | 2 clients and a local mutator, 2 threads, 2 delegations, 2 rungs and any number of retries, a teardown beside a ladder that retries | the fence, the tables, the recall |
| `coalesce`, `fold_reproduced`, `locks_to_eof` | as `repo`; 1 pod, 8 batches on two refs, 2 epochs, 3 folds; as `locks` with one to-EOF range that starts past 0 | findings, see 5 |

**Why the bounds are enough.** Four PUTs are an acquire, a renewal or release, a
takeover and one more write of either side; one stray PUT is all a late arrival
needs, and the proofs remove both bounds. Three epochs let a server be deposed by
one that is deposed itself or restarts; three snapshot writes are a batch, a
rotation and a batch. In `repo` the pushes are the smallest that have a rival for
a ref, a chain within one batch, a refused push with a pack of its own, a ref whose
objects are all present, and a deletion; `RepoBound` gives two pods only the chain,
because the theorems of section 4 remove the bounds. `QuietPolls = 6` is the code's value.
`MaxHang = 2` is an assumption on the store: a renewal is answered within two
heartbeats of 10 s, which covers one attempt that runs into the 10 s read timeout
and a prompt retry. `LiveKeepsLease` needs `MaxHang + 3 < QuietPolls`, and the theorem
`ServeKeepsLease` says that this is enough: a heartbeat can be skipped at the start of
a phase that must move, twice in a row at phase boundaries, before a slow renewal. With
`MaxHang = 3` it fails, so a renewal that
uses up all three attempts of the store client (about 40 s) can cost a working
server its lease; this is listed as a hazard.

`fold`, `locks` and `deleg` divide their state space by a constraint
(`MCBound`, `MCStep`) instead of making every bound smaller: each constraint lists the
cases (one pod or two, restart or crash or overlap, two delegations or two threads or
a ladder that retries) and explores each of them without the others. Two threads in
the middle of a request are what a race of these handlers takes, two delegations what
a fence with several holders takes, and three locks what a split takes. The slots of a
session share nothing, so one is enough; modulo 8 keeps the window of copies and the
wrap apart.

The lease and repository runs check safety only, and deadlock: some process can
always start. `Ended` makes a finished server stutter in ForgeServe. Deadlock is off in
`fold`, `locks`, `slots` and `pipeline`, where the bounds, clients that are gone and
closed connections end a behaviour.

**Properties of each run.** `LeaseInv`, `RepoInv` and their like are conjunctions of
named parts: a module's type invariant and the invariants that belong together.

* `lease`: `LeaseInv`, `OneHolderPerEpoch`; `TakeoverAfterQuiet`; `FenceIsDeposal` and
  `RenewedIsCurrent` (the two readings of a 412); `ImplementsEpochs`.
* `repo`: `AckedIsDurable`; `HolderContent` (nothing is published under a
  server that serves and is not superseded); `AdoptsItsOwn`; `RepoInv` (`Restorable`,
  `NamesOnlyNeeded`), `LocalAgrees`, `RefsFollowLog`; `ImplementsLog` (the log
  is append-only and every update found the ref where its client believed it to be).
* `serve`: `ServeInv` (`LiveKeepsLease`, `ReadyIsRecent`); `FencedExits`,
  `PushAnswered`, `WedgedYields` (liveness).
* `fold_plan`: `PlanInv` (`CapPlans`), `PlanSteps` (`CapBuysNoRewrite`, `FoldSettles`),
  `ComesToRest` (liveness).
* `fold`: `StaysRestorable`, `UndoRecoverable`, `FoldInv` (`RetainedRedundant`,
  `QueuedKeepsObjects`).
* `locks`: `Exclusive`; `HeldAsTold` (byte by byte, what the replies said);
  `DatabaseFollows` (`RowsFollow`, `RegisteredOnDisk`); `LocksInv` (`IndexExact`,
  `CountExact`, `Releasable`, `NoOrphan`); `OwnLocksOnly`. `CountExact` and
  `OwnLocksOnly` hold however requests overlap.
* `slots`: `SlotsInv` (`AtMostOnce`), `TrueAnswer` (`OwnAnswer`, `ToldWhatRan`,
  `NeverMisordered`), `Answered` (liveness).
* `pipeline`: `PipelineInv` (`CountHonest`), `CleanExit`, `ComesBack` (liveness).
* `deleg`: `NoStaleCache` (`FenceHolds`, `NoGrantUnderWrite`), `DelegInv` (`OneEntry`,
  `RearmHeard`), `TableExact`, `RevokedTold`, `OneDeadline`, `RecallResolves`
  (liveness).

Each property has a mutant in `PROJECT.json`: a plausible change of a mapped
definition under which TLC finds the property violated.

**Fairness.** ForgeServe: weak fairness of the heartbeat (a timer), of the
renewer task and of answers (requests end, because they time out). Strong fairness
of the loop's own steps and arms: tokio's `select!` picks at random among its ready
arms, so an arm that is ready again and again is taken. `Arrive`, `Depose`,
`Wedge`, `Work`, `Fail` and `Term` are never assumed to happen. A wedged stage has
no fairness left, and the liveness properties say so. FoldPlan: weak fairness of the
planned step, because the planner runs after every commit and on every tick. NfsSlots:
of the server's tasks and of answers, because tokio keeps running what was spawned and
what is written to a live connection arrives; the client need not resend. NfsPipeline:
per connection, because the runtime polls tasks and timers, and on the assumption that a
peer reads what is written to it or its connection fails (the code has no write
timeout); and of the drain's poll. NfsDelegations: of each
thread in the middle of a request, of each ladder task and of its timers. The wait for a
reply has a timeout; the write of the call has none, so that a send that blocks ends
(`Unblocks`) is never assumed, and `RecallResolves` excepts a ladder that stays blocked
for ever: without the exception TLC finds a holder that keeps its connection open and
reads nothing. Holders, mutators and rebinds are never assumed to do anything.

## 4. The proofs

TLAPS proves the following for **every** value of the constants that the named
assumptions admit. TLC evaluates the assumptions in the runs.

| Module | Theorem | Statement |
|---|---|---|
| `ForgeLeaseProofs` | `LeaseInvariant`, `LeaseTypeCorrect` | `LeaseSpec => []LeaseInv`, `[]LeaseTypeOK` |
| | `EpochsExclusive`, `LeaseNeverAhead` | `LeaseSpec => []OneHolderPerEpoch`, `[]LeaseBehindCell` |
| | `CellOnlyEvolves`, `TakeoverIsQuiet` | `LeaseSpec => CellEvolves`, `TakeoverAfterQuiet` |
| | `FenceMeansDeposed`, `RenewedMeansCurrent` | `LeaseSpec => FenceIsDeposal`, `RenewedIsCurrent` |
| | `LeaseImplementsEpochs` | `LeaseSpec => ImplementsEpochs` |
| `ForgeRepoProofs` | `RepoInvariant`, `RepoIsRestorable` | `RepoSpec => []RepoIInv`, `[]RepoInv` |
| | `AckedStaysDurable`, `HolderKnowsContent` | `RepoSpec => []AckedIsDurable`, `[]HolderContent` |
| | `AdoptedIsItsOwn`, `LocalRefsAgree` | `RepoSpec => []AdoptsItsOwn`, `[]LocalAgrees` |
| | `SnapshotFollowsLog`, `RepoImplementsLog` | `RepoSpec => []RefsFollowLog`, `ImplementsLog` |
| `ForgeServeProofs` | `ServeKeepsLease` | `QuietPolls > MaxHang + 3` implies `ServeSpec => []ServeInv` |
| `FoldPlanProofs` | `CapBoundsLadder`, `PlanOnlySteps` | `KnobsCover` implies `PlanSpec => []PlanInv`; `PlanSpec => PlanSteps` |
| `NfsPipelineProofs` | `PipelineCounts`, `DrainExitsClean` | `Spec => []PipelineInv`, `[]CleanExit` |
| `NfsSlotsProofs` | `SlotsInvariant`, `RequestsRunOnce`, `AnswersAreTrue` | `Spec => []SlotsIInv`, `[]SlotsInv`, `[]TrueAnswer` |
| `NfsLocksProofs` | `CarveExact` | what a carve leaves is what was not cut, for every width |
| | `TablesAlwaysOK`, `QuotaCountsEntries` | `Spec => []AnyInv`, `[]CountExact` |
| | `TouchesOwnLocksOnly` | `Spec => OwnLocksOnly` |
| | `IndexListsEntries`, `DatabaseMirrorsTables` | `Spec => []IndexExact`, `[]RowsFollow` |
| | `LocksExclude`, `HoldsWhatItWasTold` | `RangesEnd` implies `Spec => []Exclusive`, `[]HeldAsTold` |
| | `TablesAgree`, `DatabaseAlwaysFollows` | `Spec => []LocksInv`, `[]DatabaseFollows` |
| `NfsDelegationsProofs` | `DelegInvariant`, `NobodyReadsStale`, `MapIsSound` | `DelegSpec => []DelegIInv`, `[]NoStaleCache`, `[]DelegInv` |
| | `DeadlineStands` | `DelegSpec => OneDeadline` |
| | `TableInvariant`, `TableIsExact`, `RevocationIsTold` | `DelegSpec => []TableIInv`, `[]TableExact`, `[]RevokedTold` |

Every inductive invariant was first checked by TLC on the instance of its run.

### The lease

Assumptions: `QuietPolls` is positive, the bounds are naturals, the two "none" values
are not records of the type they stand for. `OneHolderPerEpoch` is not inductive: an
abandoned acquire may land later and make a second holder unless one knows that it
cannot match. `LeaseInv` says it of everything that can still land (`OnWireOK`): a PUT
that would land now is the acquire of exactly the next epoch by a pod entitled to
supersede, or the current holder's own write, and a release only from a holder that no
longer believes in its lease. Every landed PUT is a new token, so after it nothing on
the wire matches (`PutFacts`). `CellOK` and `LeaseOK` tie epochs to `granted`, which
makes them exclusive; `SeenOK` and `CountOK` tie what a poller read and saved to what it
really watched.

The refinement maps a landed acquire to a grant, a fence or an exit to a loss, the
release to a yield on time, left on the wire or late, and everything else to a stutter.
It carries the lease's guarantees over to ForgeRepo.

### The repository

Assumptions: parents are smaller than their commits (`CommitAssumption`), a push is of a
ref and two oids (`PushAssumption`), the bounds are naturals (`RepoBoundAssumption`).
`RepoIInv` is about every snapshot *body* that exists or is still
on the wire, and not only about the published one: a PUT that lands publishes what was
decided long before. Each body is restorable, names what its log needs and is the
outcome of its log (`GoodOK`); what a batch works on extends one (`BatchOK`). Bodies are
numbered, so a PUT that lands leaves nothing else on the wire that matches (`SeqOK`), and
of the bodies a process wrote in its term only the one of unknown fate is newer than the
one it works on (`OwnOK`), which is why the adopted one is its own. `CalmOK` is the heart
of `HolderContent`: once a cell was released, or its claimer has rotated, nothing that
changes the content can land behind the holder, though PUTs of deposed servers may still
be on the wire. `WaitOK` says that a push waits at one door, without which its verdict
could be overwritten.

What a log does to the refs is a recursive function (`RefLog!RefsAfter`). Its defining
equations are proved by taking the least number for which they fail, as are the
reachability facts; the refinement (`RepoImplementsLog`) then follows action by action:
only a landed PUT that extends the log is a step of `RefLog`, and an answer is a step when
`AckOK` puts the push in the log.

### The serving loop

`ServeKeepsLease` has the hypothesis `QuietPolls > MaxHang + 3`, and TLC finds it tight:
with one heartbeat less (`QuietPolls = 4, MaxHang = 1` or `5, 2`) a server at work is
deposed. `ServeIInv` counts the heartbeats a renewer may have missed by what it is doing
(`WaitingKept`, `SendingKept`): the progress gate skips one when the import begins and one
when a batch begins, and what has moved since sees the third through. `FactsRecent` does
the same for readiness.

### The planner

Assumptions: the knobs are naturals, the factor is at least 2 (`fold_factor = 0` turns
folding off), no push pack is empty (`KnobAssumption`). The ladder stays ascending,
so the packs over the exemption are its heavy end and those a fold may take a prefix of
it; the sum of a prefix and of the rest is the sum of all. Sums and the split of
git's `split_pack_geometry` are recursive or chosen, and what is needed of them is proved by
taking the least index for which it fails. `PlanSteps` then holds for every knob.

`PlanInv` has the hypothesis `KnobsCover`, `(cap - 1) * base_tier_percent >= 100`: with a cap's
worth of tiers of which at most one may be folded, the others are over the exemption,
and only then do they come to the size at which a first base is built. The defaults (64
packs, 50 %) are far inside it. Without it the bound fails: with `fold_max_packs = 2` TLC
finds two tiers, one exempt, no base and too little for one, and nothing planned however
long they wait.

### The pipeline

The in-flight count is changed in three unsynchronised places, so its meaning is a set:
the requests between the count and the end of the write. `PipelineIInv` names each by its
frame number, which no two dispatches of a connection share (`FramesOK`), and equates the
counter with the number of such pairs (`CountOK`). `DrainedOK` then follows from the second
check of the gate: a loop past its count when the drain ended is turned back by it.

### Slots

A slot remembers a seqid, a number modulo `Modulus`. `SlotsIInv` says that it stands for
one request: each copy on its way is less than `Modulus` behind its client, and the client
at most one request ahead of the slot (`SeqidOK`, `WireOK`). `WorkOK` puts a request that was
let in at one place; `TrueReply` ties a reply to what the loop did; `OwnOK` is about slots that
were not overtaken.

### Byte-range locks

A handler is a list of what its thread has left to do (`todo`), one map operation at a
time, so the invariants are about lists in progress. There are four, each for what the
code can promise.

*However requests overlap* (`AnyInv`): a list has the shape its handler can have, with a
map operation in progress at most at its head (`ListOK`); what it names was minted
(`OpOK`); the quota's count is the number of a client's entries at every single step
(`CountOK`), because the one up or down is in the same step as the map's; and a row, queued
or on disk, is of something minted (`DbOK`). That a key is never used twice then gives
`OwnLocksOnly` though keys are read long before they are used.

*One request at a time* (`OneInv`): the index and the lock rows are those of the table up
to the one operation in progress (`Exact`), and the rows of owners, stateids and clients
are exact (`RegOK`). `Exclusive` has in addition that what a list is about to insert is
compatible with the table (`ClaimsOK`), and that all ranges end inside the file (`PlainOK`),
from the hypothesis `RangesEnd`: the code's bare additions wrap for a to-EOF length that
starts past 0 (section 5), and without it the theorem is false. `CarveExact`, what a carve
leaves is what was not cut, needs the same bound.

*One at a time and nothing lost* (`HoldInv`): between requests every lock's owner has the
stateid it was told (`Knows`) and its client a record; within one the list still does what
is missing (`Minted`, `Secured`, `SidOK`, `Ordered`), a teardown strips or removes every lock
of its client before it purges the record (`RetireOK`), and each lock row, queued or on
disk, has the rows of its owner (`RegRows`), in the order in which they commit. `Releasable`
and `NoOrphan` of `LocksInv` and `RegisteredOnDisk` of `DatabaseFollows` follow.

*What the replies said* (`HeldInv`, under the same two conditions and `RangesEnd`). In the
middle of a request the table and the replies disagree, so `Truth` says for every owner and
byte what the difference is. On a byte the request is not about, the owner has the mode it
was told, or has it coming back: the list inserts it (`AsTold`, `Due`); a carve takes an entry
out and puts its survivors on the list, which by `CarveExact` are due exactly the bytes that
were not cut. On a byte it is about, what the owner has is of the mode it will be told or is
still to be carved, and a LOCK that was granted has it due or in place, where nothing left
on the list carves it (`AsAsked`, `Carvable`): this is why a fresh key that no pending carve
can name matters, and why a LOCK by a new owner, which does not trim, is right (it has
nothing, or what it reclaims was of that mode). A client being torn down is told nothing,
and its record is gone when the teardown is over (`Leaves`).

### Delegations

Assumptions: finite sets of clients and threads, `Local` is no client, a thread is no
stateid, quotas and rungs are naturals. `NoStaleCache` needs to know where the fence and a
grant meet. `DelegIInv` says that the map has exactly the entry that was not collected and
that every record is in it (`EntriesOK`), that an entry's guard count is the number of
threads that owe it a release, and that only the current entry has any (`GuardsOK`), so an
entry that is collected is nobody's fence; a guard bars grants (`BarredOK`), and a mutation
on its way has the revocation of every foreign delegation before it on its list
(`PromiseOK`). That the model never runs out of entries is a pigeonhole argument. `LaddersOK`
is about the recall tasks: none sleeps through a rebind.

The counters are not exact in the middle of a request, so `TableIInv` says what they come
to there: `Debt`, the live records plus those an actor has taken off the table and not
uncounted yet. `MarkedOK` and `IndexedOK` relate the indexes to the records; `TornOK` and
`TeardownOK` say that a teardown, wherever it is, has what its client had before it on its
list; `ToldOK` that a revocation is announced or its announcement on its way. That needs
two facts about the FREE_STATEID that takes the bit down: every record is on the list its
look reads, or with a teardown that took the list (`KnownOK`), so that what it did not see
was revoked after it looked (`LowerOK`, `crossed`).

### Only model-checked

Liveness under fairness (`FencedExits`, `PushAnswered`, `WedgedYields`, `ComesToRest`,
`Answered`, `ComesBack`, `RecallResolves`) is beyond this prover. Of safety, the compaction
(`FoldInv`, `StaysRestorable`, `UndoRecoverable`) is checked by TLC and not proved. `StaysRestorable` is false in
general (finding `fold_reproduced`) and holds in the instance of `fold`, where no roll-up reproduces a
retained pack.

## 5. Findings

Checked by a run of their own:

* `coalesce`: a batch that creates and deletes one ref (a slow client re-creates a
  branch another one deletes) is published, and then handed to git as a deletion
  with an empty old value, which git refuses. Its pushes are answered `ng` though
  they are durable, and the server restarts.
* `fold_reproduced`: a fold whose result has the name of a pack on the retained list
  commits without taking it off that list, as a batch and a restore do. The next batch
  leaves retained packs out of the snapshot and publishes refs whose objects no named
  pack has. It takes a branch that is rolled up and rolled up again, so that the first
  roll-up is retained; its deletion; a restart whose reclaim drops the second roll-up
  (another branch's pack stays); and the same pushes again, rolled up to the first
  roll-up's name within `fold_retain_secs`.
* `locks_to_eof`: the ends of ranges in `trim_owner_range` are bare additions, which wrap
  for a to-EOF length that starts past 0. An owner that unlocks one byte of such a lock
  loses all of it and is not told; the run `locks` has only the to-EOF range from 0, and
  the theorems about ranges have the bound as their hypothesis.

Seen while modelling. The models take these steps; the properties are stated so that
they say what still holds, and each case is named where it is excepted:

* *Fence during start-up* (`server.rs:369`): the loop subscribes to the fence after the
  restore, and a watch counts what was sent before as seen. With folding on the
  maintenance tick checks the fence, and `FencedExits` holds; with `Folding = FALSE` (`fold_factor = 0`,
  not the default) in `MCForgeServe.cfg` TLC finds a fenced server that stays in its loop.
* *Straggler's rotation* (`snapshot.rs:217`): a claimer that stalls between its acquire
  and its rotation for the whole quiet time rotates over its successor's snapshot, and
  the successor is fenced at its next CAS. No push is lost.
* *Readiness* (`lease.rs:346`): `renewal_overdue` is refreshed after a renewal has been
  answered, not on every heartbeat, so a slow renewal delays the loss of readiness.
* *Undo points* (`undo.rs:169`): a sweep reads the newest points up to a limit; older
  ones lose their packs inside the window.
* *Fold adoption* (`fold.rs:847`): after an ambiguous CAS a fold whose result reproduces
  a pack that is already named is taken for committed.
* *Locks* (`lockops.rs`): the conflict check and the insertion are not one step, so two
  conflicting LOCKs can both be granted; an index emptied by one request can be dropped
  while another one inserts; a LOCK under way while its client is torn down leaves an
  orphan, and the row of a lock captured after its delete a phantom; a crash between the
  commits of a client's row and of its locks leaves locks of no client.
* *Slots* (`dispatcher.rs:435`): on a slot that moved on after RETRY_UNCACHED_REP, a late
  reply of the old request is cached for the new one (`overtaken`). The reply of a COMPOUND
  over `ca_maxoperations` leaves out the operation that ran last.
* *Pipeline* (`server_v4.rs:592`): the clean-up of a connection's registration runs while
  requests it spawned still run, and one of them can register its writer again.
* *Delegations*: a grant that comes after its client's teardown took the list
  (`delegation.rs:1556`, `late`) is never cleaned up; FREE_STATEID can lower the SEQ4 bit
  just after another revocation raised it (`dispatcher.rs:2580`, `crossed`); a holder that
  keeps its connection open and reads nothing keeps its recall from its deadline
  (`back_channel.rs:253`); the evidence
  marker kept for a restart (`delegation.rs:798`) is computed outside the locks and may be
  deleted while the client holds a delegation; a callback that was accepted and lost
  consumes its seqid, so that the next recall is refused and the delegation revoked
  (`pnfs/mds/callback.rs:120`).

## 6. Not modelled, and what is next

Left out of the modules: LOCKT (changes nothing), stateid seqids, degraded grace and the
delegation fence of a write LOCK; refusals of slots out of range and connection binding
under SP4_MACH_CRED; the pipeline's sequential mode and record framing; batches of
recalls, the contents of callback slots, the revocation breaker, write layouts and the restart markers
of delegations; several files (the tables are keyed by file and share only counters).

Not modelled: the snapshot log and its followers, pack transfer, policy, export and the
other derived outputs of the forge; the pNFS metadata and data servers, the object tier,
the CSI driver, RAID and replica catch-up, lean workspaces, the dashboard. Each is listed
in `PROJECT.json` with the reason. They are products of their own size; a next step would
be, in this order:

1. **Proofs**: inductive invariants of ForgeFold (under the hypothesis that no roll-up
   reproduces a retained pack); **ForgeRepo**: atomic pushes of several commands, merges
   made by the server.
2. **ForgeLog**: one entry per seq, holes after crashes, followers that warm a standby.
3. **NFS**: OPEN and its share reservations over the same client table; the composition of
   slots, locks and delegations under one teardown.
4. The lean syncer's lease queue over the same `EpochCell`.

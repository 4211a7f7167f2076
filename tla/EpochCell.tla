------------------------------ MODULE EpochCell ------------------------------
(***************************************************************************)
(* The epoch cell: one small object per repository, written only by        *)
(* conditional PUT, that names the repository's writer.  This module is    *)
(* the store's side of it: EpochState, EpochLease and the epoch_*          *)
(* operations of crates/flint-store (the S3 implementation).               *)
(*                                                                         *)
(* A token is the ETag of one PUT.  epoch_write puts a fresh salt in every *)
(* body, so no two PUTs share an ETag; the model numbers the PUTs that     *)
(* land.  What no decision of the syncer reads (the clock, the echo, and   *)
(* lean's queue of waiters, which forge leaves empty) is left out.         *)
(***************************************************************************)
EXTENDS Naturals

CONSTANTS Holder,     \* the holder ids that may appear in a cell
          NoCell      \* the cell before anybody acquired it

EpochState == [holder: Holder, epoch: Nat, token: Nat, released: BOOLEAN]

ASSUME NoCellAssumption == NoCell \notin EpochState

\* The condition and the body of a conditional PUT of the cell.  match = 0
\* is If-None-Match: *; any other match is If-Match on that token.
EpochWrite == [match: Nat, holder: Holder, epoch: Nat, released: BOOLEAN]

\* A held lease, as epoch_acquire and epoch_renew return it to holder h.
EpochLease == [epoch: Nat, token: Nat]

\* Whether the store accepts w (otherwise it answers 412).
Lands(c, w) ==
  \/ w.match = 0 /\ c = NoCell
  \/ c # NoCell /\ w.match = c.token

\* The cell after w lands as PUT number t.
Written(w, t) ==
  [holder |-> w.holder, epoch |-> w.epoch, token |-> t, released |-> w.released]

\* Mutant: a takeover that keeps the epoch it found.
AcquireWriteSameEpoch(h, supersede) ==
  [match    |-> IF supersede = NoCell THEN 0 ELSE supersede.token,
   holder   |-> h,
   epoch    |-> IF supersede = NoCell THEN 1 ELSE supersede.epoch,
   released |-> FALSE]

\* epoch_acquire: one epoch above what it supersedes (the state epoch_read
\* returned, NoCell when there was none).
AcquireWrite(h, supersede) ==
  [match    |-> IF supersede = NoCell THEN 0 ELSE supersede.token,
   holder   |-> h,
   epoch    |-> IF supersede = NoCell THEN 1 ELSE supersede.epoch + 1,
   released |-> FALSE]

\* epoch_renew: the same epoch, guarded by the caller's own token.
RenewWrite(h, lease) ==
  [match |-> lease.token, holder |-> h, epoch |-> lease.epoch, released |-> FALSE]

\* epoch_release MARKS the cell, it never deletes it: a deleted cell would
\* start the epochs again at 1.
ReleaseWrite(h, lease) ==
  [match |-> lease.token, holder |-> h, epoch |-> lease.epoch, released |-> TRUE]
=============================================================================

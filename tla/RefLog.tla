------------------------------- MODULE RefLog -------------------------------
(***************************************************************************)
(* What a forge repository promises the clients that push to it: one       *)
(* append-only log of ref updates, each of which found the ref where its   *)
(* client believed it to be, and an acknowledgement only for updates that  *)
(* are in the log.                                                         *)
(***************************************************************************)
EXTENDS Naturals, Sequences

CONSTANTS Ref, Push, Absent

VARIABLES
  log,     \* the ref updates that took effect, in order
  acked    \* the ones their clients were told of

\* An update moves one ref.
Applied(rs, u) == [rs EXCEPT ![u.ref] = u.new]

\* The refs after the first n updates of a log.
RefsAfter(l) ==
  LET after[n \in 0..Len(l)] ==
        IF n = 0 THEN [r \in Ref |-> Absent] ELSE Applied(after[n - 1], l[n])
  IN after

\* Every update found its ref at the value it names as old.
Legal(l) == \A n \in 1..Len(l) : l[n].old = RefsAfter(l)[n - 1][l[n].ref]

Extends(new, old) == Len(new) >= Len(old) /\ SubSeq(new, 1, Len(old)) = old

LogInit == log = <<>> /\ acked = {}

\* A batch takes effect, whole.
Extend ==
  /\ log' # log
  /\ Extends(log', log)
  /\ Legal(log')
  /\ UNCHANGED acked

Acknowledge ==
  /\ acked \subseteq acked'
  /\ acked' \subseteq {log[n] : n \in 1..Len(log)}
  /\ UNCHANGED log

LogSpec == LogInit /\ [][Extend \/ Acknowledge]_<<log, acked>>
=============================================================================

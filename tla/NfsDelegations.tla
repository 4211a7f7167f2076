--------------------------- MODULE NfsDelegations ---------------------------
(***************************************************************************)
(* Read delegations of one file (state/delegation.rs), the fence every     *)
(* mutation passes (StateManager::deleg_fence) and the ladder that recalls *)
(* a delegation and ends by revoking it (deleg_recall.rs).                 *)
(*                                                                         *)
(* A step is what a thread does under the file's entry lock, or one        *)
(* operation beside it: the counters, the stateid table and the SEQ4 bits  *)
(* are touched with no lock over them.  A record leaves the two indexes    *)
(* with the entry: a stale index entry finds nothing.  A recall runs as a  *)
(* task of its own, the actor named by its stateid.  Time shows only as    *)
(* timers that run out.  What the holder answers to a CB_RECALL, and       *)
(* whether one reaches it, is left open; callback slots and batches, the   *)
(* circuit breaker, layouts and the markers a restart reads are left out.  *)
(***************************************************************************)
EXTENDS Integers, FiniteSets, Sequences

CONSTANTS
  Clients,
  Local,         \* the mutator of a server-local lane: every holder is foreign
  Threads,
  MaxSid,        \* bound: delegations granted
  MaxPerClient,  \* the quotas
  MaxGlobal,
  Rungs          \* resends before the ladder only waits for the deadline

ASSUME DelegAssumption ==
  /\ IsFiniteSet(Clients) /\ Local \notin Clients
  /\ IsFiniteSet(Threads) /\ Threads # {}
  /\ {MaxSid, MaxPerClient, MaxGlobal, Rungs} \subseteq Nat

Sid == 1 .. MaxSid
Actors == Threads \cup Sid
Entries == 1 .. Cardinality(Threads) + 1

ASSUME ActorAssumption == Threads \cap Sid = {}

VARIABLES
  cur,         \* the entry the map has for the file, 0 for none
  ent,         \* the entries: guards, cooldown, dead
  rec,         \* the records: holder, state, the entry each is in
  byStateid,   \* the index by stateid
  byClient,    \* the index by client
  liveClient,  \* live_per_client
  liveGlobal,
  writers,     \* clients that have the file open for writing
  marked,      \* stateids the stateid table calls revoked
  bit,         \* clients with SEQ4_STATUS_RECALLABLE_STATE_REVOKED up
  task,        \* what each actor is in the middle of
  ladder,      \* the recall of each delegation
  gone,        \* clients torn down, or being torn down
  late,        \* history: clients granted something after that
  crossed      \* history: clients revoked between a FREE_STATEID's look and its lowering

table == <<cur, ent, rec>>
index == <<byStateid, byClient>>
counts == <<liveClient, liveGlobal>>
world == <<writers, marked, bit, gone, late, crossed>>
vars == <<table, index, counts, world, task, ladder>>

NoRec == [client |-> Local, st |-> "none", ent |-> 0]
DeadEntry == [guards |-> 0, cool |-> "no", dead |-> TRUE]
NewEntry == [guards |-> 0, cool |-> "no", dead |-> FALSE]
NoTask == [todo |-> <<>>, arc |-> 0, client |-> Local]
NoLadder == [at |-> "none", first |-> FALSE, disowned |-> FALSE, rung |-> 0,
             out |-> FALSE, fired |-> FALSE]

DelegInit ==
  /\ cur = 0 /\ ent = [i \in Entries |-> DeadEntry]
  /\ rec = [s \in Sid |-> NoRec]
  /\ byStateid = {} /\ byClient = [c \in Clients |-> {}]
  /\ liveClient = [c \in Clients |-> 0] /\ liveGlobal = 0
  /\ writers = {} /\ marked = {} /\ bit = {} /\ gone = {} /\ late = {} /\ crossed = {}
  /\ task = [a \in Actors |-> NoTask]
  /\ ladder = [s \in Sid |-> NoLadder]

Present(s)  == rec[s].st # "none"
Live(s)     == rec[s].st \in {"granted", "pending", "acked"}
Recalled(s) == rec[s].st \in {"pending", "acked"}

\* What a lookup by stateid finds: through the index, in the map's entry.
Found(s) == s \in byStateid /\ Present(s) /\ rec[s].ent = cur

Idle(a) == task[a].todo = <<>>
Op(o) == [op |-> o, sid |-> 0, who |-> Local]
OpOn(o, s) == [Op(o) EXCEPT !.sid = s]
OpFor(o, c) == [Op(o) EXCEPT !.who = c]
NextIs(a, o) == ~ Idle(a) /\ Head(task[a].todo).op = o
SidOf(a) == Head(task[a].todo).sid
Who(a) == Head(task[a].todo).who

\* The actor has done its next operation, and has ops to do before the rest.
Then(a, ops) ==
  LET rest == ops \o Tail(task[a].todo)
  IN  task' = [task EXCEPT ![a] = IF rest = <<>> THEN NoTask ELSE [@ EXCEPT !.todo = rest]]
Asked(c, ops) == [todo |-> ops, arc |-> 0, client |-> c]
Begin(t, c, ops) == Idle(t) /\ task' = [task EXCEPT ![t] = Asked(c, ops)]

\* The cooldown starts when the last live record of a recall leaves.
Cooled(e, left) == IF \E s \in left : Live(s) THEN e ELSE [e EXCEPT !.cool = "on"]
InEntry(i) == {s \in Sid : Present(s) /\ rec[s].ent = i}

-----------------------------------------------------------------------------
(* The map of entries. *)

\* entry: the thread takes the file's entry, made when there is none.
Enter(t, task1) ==
  LET fresh == CHOOSE i \in Entries : \A a \in Actors : task[a].arc # i
      i == IF cur = 0 THEN fresh ELSE cur
  IN  /\ cur' = i
      /\ ent' = IF cur = 0 THEN [ent EXCEPT ![i] = NewEntry] ELSE ent
      /\ task' = [task EXCEPT ![t] = [task1 EXCEPT !.arc = i]]

\* with_live_entry: an entry collected since it was looked up is no use.
Usable(e) == ~ e.dead

Locks(t) == NextIs(t, "grant") \/ NextIs(t, "fence") \/ NextIs(t, "open")

Again(t) ==
  /\ Locks(t) /\ ~ Usable(ent[task[t].arc])
  /\ Enter(t, task[t])
  /\ UNCHANGED <<rec, index, counts, world, ladder>>

\* Mutant: a guard does not keep the entry.
UnneededGuarded(i) == InEntry(i) = {} /\ ent[i].cool = "no"

Unneeded(i) == InEntry(i) = {} /\ ent[i].guards = 0 /\ ent[i].cool = "no"

\* gc_map_entry
Collect(a) ==
  /\ NextIs(a, "gc")
  /\ IF cur # 0 /\ Unneeded(cur)
     THEN ent' = [ent EXCEPT ![cur].dead = TRUE] /\ cur' = 0
     ELSE UNCHANGED <<cur, ent>>
  /\ Then(a, <<>>)
  /\ UNCHANGED <<rec, index, counts, world, ladder>>

-----------------------------------------------------------------------------
(* Grants. *)

\* OPEN for reading, of a client that is entitled to a delegation.
OpenRead(t, c) ==
  /\ c \notin gone
  /\ Idle(t) /\ Enter(t, Asked(c, <<Op("grant")>>))
  /\ UNCHANGED <<rec, index, counts, world, ladder>>

\* The refusals of try_grant, in two parts: the cooldown, once it is over,
\* is cleared between them.
Blocked(i) ==
  \/ ent[i].guards > 0
  \/ \E s \in InEntry(i) : rec[s].st # "granted"
  \/ ent[i].cool = "on"

\* The caller's precheck, repeated under the entry lock.
NoWriteOpen == writers = {}

Refused(i, c) ==
  \/ \E s \in InEntry(i) : rec[s].client = c
  \/ liveClient[c] >= MaxPerClient \/ liveGlobal >= MaxGlobal
  \/ ~ NoWriteOpen

\* Bound: a new stateid is one that nothing refers to any more.
Unminted == {s \in Sid : /\ ~ Present(s) /\ ladder[s].at = "none"
                         /\ s \notin byStateid \cup marked
                         /\ \A c \in Clients : s \notin byClient[c]
                         /\ \A a \in Actors : \A i \in 1 .. Len(task[a].todo) :
                                task[a].todo[i].sid # s}

Grant(t) ==
  /\ NextIs(t, "grant") /\ Usable(ent[task[t].arc])
  /\ LET i == task[t].arc
         c == task[t].client
     IN  \/ /\ Blocked(i)
            /\ UNCHANGED <<rec, ent, index, counts, late>>
         \/ /\ ~ Blocked(i) /\ Refused(i, c)
            /\ ent' = [ent EXCEPT ![i].cool = "no"]
            /\ UNCHANGED <<rec, index, counts, late>>
         \/ /\ ~ Blocked(i) /\ ~ Refused(i, c)
            /\ Unminted # {}
            /\ LET s == CHOOSE n \in Unminted : \A m \in Unminted : n <= m
               IN  /\ rec' = [rec EXCEPT ![s] = [client |-> c, st |-> "granted", ent |-> i]]
                   /\ byStateid' = byStateid \cup {s}
                   /\ byClient' = [byClient EXCEPT ![c] = @ \cup {s}]
            /\ ent' = [ent EXCEPT ![i].cool = "no"]
            /\ liveClient' = [liveClient EXCEPT ![c] = @ + 1]
            /\ liveGlobal' = liveGlobal + 1
            /\ late' = IF c \in gone THEN late \cup {c} ELSE late
  /\ task' = [task EXCEPT ![t] = NoTask]
  /\ UNCHANGED <<cur, writers, marked, bit, gone, crossed, ladder>>

-----------------------------------------------------------------------------
(* The fence and what follows it. *)

\* A mutation by m, an OPEN for writing among them.
Mutate(t, m) ==
  /\ m \notin gone
  /\ Idle(t) /\ Enter(t, Asked(m, <<Op("fence")>>))
  /\ UNCHANGED <<rec, index, counts, world, ladder>>

OpenWrite(t, c) ==
  /\ c \notin gone
  /\ Idle(t) /\ Enter(t, Asked(c, <<Op("open")>>))
  /\ UNCHANGED <<rec, index, counts, world, ladder>>

\* The stateids of S one after the other.
InTurn(S) == CHOOSE q \in [1 .. Cardinality(S) -> S] : \A s \in S : \E i \in DOMAIN q : q[i] = s
Ops(o, S) == [i \in 1 .. Cardinality(S) |-> OpOn(o, InTurn(S)[i])]

\* What an operation does once it is through the fence.
Running(op) == IF op = "open" THEN "opening" ELSE "mutating"

Foreign(S, m) == {s \in S : rec[s].client # m}

\* Mutant: every record under recall is recalled again.
OrdersAll(granted, pending) == granted \cup pending

\* The recalls a fence starts: of the records it took out of Granted.
Orders(granted, pending) == granted

\* spawn_recalls
Started == [NoLadder EXCEPT !.at = "top"]

\* mutation_fence and the rest of deleg_fence: expired are the holders whose
\* lease had lapsed; they are revoked here, the others are recalled.
Fence(t) ==
  /\ NextIs(t, "fence") \/ NextIs(t, "open")
  /\ Usable(ent[task[t].arc])
  /\ LET i       == task[t].arc
         m       == task[t].client
         granted == {s \in InEntry(i) : rec[s].st = "granted"}
         pending == {s \in InEntry(i) : Recalled(s)}
     IN  \E expired \in SUBSET Foreign(granted, m) :
           LET recalls == granted \ expired
               delay   == Foreign(pending \cup recalls, m) # {}
           IN  /\ ent' = [ent EXCEPT ![i].guards = @ + 1]
               /\ rec' = [s \in Sid |-> IF s \in granted
                                        THEN [rec[s] EXCEPT !.st = "pending"] ELSE rec[s]]
               /\ ladder' = [s \in Sid |-> IF s \in Orders(granted, pending) \ expired
                                          THEN Started ELSE ladder[s]]
               /\ Then(t, Ops("revoke", expired)
                           \o (IF delay THEN <<Op("drop")>>
                               ELSE <<Op(Running(Head(task[t].todo).op)), Op("release")>>)
                           \o <<Op("gc")>>)
  /\ UNCHANGED <<cur, index, counts, world>>

\* The mutation is carried out; record_open, if it is an OPEN.
Run(t) ==
  /\ NextIs(t, "opening") \/ NextIs(t, "mutating")
  /\ writers' = IF NextIs(t, "opening") THEN writers \cup {task[t].client} ELSE writers
  /\ Then(t, <<>>)
  /\ UNCHANGED <<table, index, counts, marked, bit, gone, late, crossed, ladder>>

\* The guard is dropped: the caller answers DELAY, or the mutation is done.
Drop(t) ==
  /\ NextIs(t, "drop") \/ NextIs(t, "release")
  /\ ent' = [ent EXCEPT ![task[t].arc].guards = @ - 1]
  /\ task' = [task EXCEPT ![t] = Asked(@.client, Tail(@.todo))]
  /\ UNCHANGED <<cur, rec, index, counts, world, ladder>>

Close(c) ==
  /\ c \in writers
  /\ writers' = writers \ {c}
  /\ UNCHANGED <<table, index, counts, marked, bit, gone, late, crossed, task, ladder>>

-----------------------------------------------------------------------------
(* The ways a record ends. *)

\* A FREE_STATEID of c has found nothing revoked and is about to lower.
AboutToLower(c) ==
  \E a \in Actors : \E i \in 1 .. Len(task[a].todo) :
     task[a].todo[i].op = "lower" /\ task[a].todo[i].who = c

\* revoke: only of a record under recall, which stays as a tombstone.
Revoke(a) ==
  /\ NextIs(a, "revoke")
  /\ LET s == SidOf(a)
     IN  IF Found(s) /\ Recalled(s)
         THEN /\ rec' = [rec EXCEPT ![s].st = "revoked"]
              /\ ent' = [ent EXCEPT ![cur] = Cooled(@, InEntry(cur) \ {s})]
              /\ crossed' = IF AboutToLower(rec[s].client)
                            THEN crossed \cup {rec[s].client} ELSE crossed
              /\ Then(a, <<[op |-> "revoked", sid |-> s, who |-> rec[s].client],
                           OpFor("raise", rec[s].client)>>)
         ELSE Then(a, <<>>) /\ UNCHANGED <<rec, ent, crossed>>
  /\ UNCHANGED <<cur, index, counts, writers, marked, bit, gone, late, ladder>>

Less(n) == IF n = 0 THEN 0 ELSE n - 1

Uncounted(c) ==
  /\ liveClient' = [liveClient EXCEPT ![c] = Less(@)]
  /\ liveGlobal' = liveGlobal - 1

\* The counters of a record that is out.
Uncount(a) ==
  /\ NextIs(a, "count")
  /\ Uncounted(Who(a))
  /\ Then(a, <<>>)
  /\ UNCHANGED <<table, index, world, ladder>>

\* The counters of a tombstone, and StateIdManager::revoke: what
\* TEST_STATEID and FREE_STATEID go by.
Mark(a) ==
  /\ NextIs(a, "revoked")
  /\ Uncounted(Who(a))
  /\ marked' = IF rec[SidOf(a)].st = "revoked" THEN marked \cup {SidOf(a)} ELSE marked
  /\ Then(a, <<>>)
  /\ UNCHANGED <<table, index, writers, bit, gone, late, crossed, ladder>>

\* raise_seq_flags
Raise(a) ==
  /\ NextIs(a, "raise")
  /\ bit' = bit \cup {Who(a)}
  /\ Then(a, <<>>)
  /\ UNCHANGED <<table, index, counts, writers, marked, gone, late, crossed, ladder>>

\* The record leaves its entry and the indexes.
Remove(s, cool) ==
  /\ rec' = [rec EXCEPT ![s] = NoRec]
  /\ ent' = IF cool THEN [ent EXCEPT ![cur] = Cooled(@, InEntry(cur) \ {s})] ELSE ent
  /\ byStateid' = byStateid \ {s}
  /\ byClient' = [c \in Clients |-> byClient[c] \ {s}]
Leaving(s) == <<OpFor("count", rec[s].client), Op("gc")>>

\* DELEGRETURN, which may reach the table after its client's teardown began.
Return(t, s) ==
  /\ Found(s) /\ Live(s)
  /\ Remove(s, rec[s].st # "granted")
  /\ Begin(t, rec[s].client, Leaving(s))
  /\ UNCHANGED <<cur, counts, world, ladder>>

\* resolve_disown
Disown(a) ==
  /\ NextIs(a, "disown")
  /\ LET s == SidOf(a)
     IN  IF Found(s) /\ Recalled(s)
         THEN Remove(s, TRUE) /\ Then(a, Leaving(s))
         ELSE Then(a, <<>>) /\ UNCHANGED <<rec, ent, index>>
  /\ UNCHANGED <<cur, counts, world, ladder>>

\* What FREE_STATEID does after free_revoked took the tombstone out.
Freed(s) == <<Op("gc"), OpFor("decide", rec[s].client)>>

\* FREE_STATEID of a stateid that is marked revoked.
FreeStateId(t, s) ==
  /\ s \in marked /\ Found(s) /\ rec[s].client \notin gone
  /\ Remove(s, FALSE)
  /\ marked' = marked \ {s}
  /\ Begin(t, rec[s].client, Freed(s))
  /\ UNCHANGED <<cur, counts, writers, bit, gone, late, crossed, ladder>>

Tombstone(s, c) == rec[s].st = "revoked" /\ rec[s].client = c
HasRevoked(c) == \E s \in byClient[c] : Found(s) /\ Tombstone(s, c)

\* Mutant: the bit goes down with the delegation that was freed.
DecideBlind(t) ==
  /\ NextIs(t, "decide")
  /\ Then(t, <<OpFor("lower", Who(t))>>)
  /\ UNCHANGED <<table, index, counts, world, ladder>>

\* client_has_revoked, and then lower_seq_flags.
Decide(t) ==
  /\ NextIs(t, "decide")
  /\ Then(t, IF HasRevoked(Who(t)) THEN <<>> ELSE <<OpFor("lower", Who(t))>>)
  /\ UNCHANGED <<table, index, counts, world, ladder>>

Lower(t) ==
  /\ NextIs(t, "lower")
  /\ bit' = bit \ {Who(t)}
  /\ Then(t, <<>>)
  /\ UNCHANGED <<table, index, counts, writers, marked, gone, late, crossed, ladder>>

-----------------------------------------------------------------------------
(* Teardown of a client. *)

\* Its sessions and stateids go first, its opens with them.
TearDown(t, c) ==
  /\ c \notin gone
  /\ gone' = gone \cup {c}
  /\ writers' = writers \ {c}
  /\ Begin(t, c, <<OpFor("take", c), OpFor("forget", c)>>)
  /\ UNCHANGED <<table, index, counts, marked, bit, late, crossed, ladder>>

\* cleanup_client_delegations: the list, each record in it, the counter.
Take(t) ==
  /\ NextIs(t, "take")
  /\ Then(t, Ops("strip", byClient[Who(t)]))
  /\ byClient' = [byClient EXCEPT ![Who(t)] = {}]
  /\ UNCHANGED <<table, byStateid, counts, world, ladder>>

Strip(t) ==
  /\ NextIs(t, "strip")
  /\ LET s == SidOf(t)
     IN  IF Found(s)
         THEN /\ Remove(s, FALSE)
              /\ liveGlobal' = IF Live(s) THEN liveGlobal - 1 ELSE liveGlobal
         ELSE UNCHANGED <<rec, ent, index, liveGlobal>>
  /\ Then(t, IF SidOf(t) \in byStateid THEN <<Op("gc")>> ELSE <<>>)
  /\ marked' = marked \ {SidOf(t)}
  /\ UNCHANGED <<cur, liveClient, writers, bit, gone, late, crossed, ladder>>

\* Mutant: the counter of a client that is gone stays.
ForgetNothing(t) ==
  /\ NextIs(t, "forget")
  /\ Then(t, <<>>)
  /\ UNCHANGED <<table, index, counts, world, ladder>>

Forget(t) ==
  /\ NextIs(t, "forget")
  /\ liveClient' = [liveClient EXCEPT ![Who(t)] = 0]
  /\ Then(t, <<>>)
  /\ UNCHANGED <<table, index, liveGlobal, world, ladder>>

-----------------------------------------------------------------------------
(* The ladder of one recall, drive_one.  out is the timer that counts: the  *)
(* window of a path that is down until the first CB_RECALL got out, the     *)
(* deadline for the holder after that.  fired: a back channel was bound     *)
(* since the ladder last read the rearm epoch.                              *)

StillPending(s) == Found(s) /\ Recalled(s)
At(s, where) == ladder[s].at = where /\ Idle(s)
Ends(s, ops) ==
  ladder' = [ladder EXCEPT ![s] = NoLadder] /\ task' = [task EXCEPT ![s].todo = ops]
Goes(s, l) == ladder' = [ladder EXCEPT ![s] = l] /\ UNCHANGED task
LastWord(s) == IF StillPending(s) THEN <<OpOn("revoke", s)>> ELSE <<>>

\* Mutant: past the last rung nothing wakes the ladder.
AwakeInTime(s) ==
  \/ At(s, "rung") /\ ladder[s].rung <= Rungs
  \/ At(s, "probe") \/ At(s, "parked") \/ At(s, "top")

\* A rung, the probe delay or the retry of a path that is down.
Awake(s) ==
  \/ At(s, "rung") /\ (ladder[s].rung <= Rungs \/ ladder[s].out)
  \/ At(s, "probe") \/ At(s, "parked") \/ At(s, "top")

\* The top of the loop: the recheck, the deadline, then one more send.  Only
\* the wait for the answer is timed: the call may wait for the session's slot,
\* for the connection's writer and for a holder that does not read.
Send(s) ==
  /\ Awake(s)
  /\ LET l == ladder[s]
     IN  IF ~ StillPending(s) THEN Ends(s, <<>>)
         ELSE IF l.first /\ l.out THEN Ends(s, <<OpOn("revoke", s)>>)
         ELSE \E where \in {"sent", "blocked"} :
                Goes(s, [l EXCEPT !.at = where, !.fired = FALSE])
  /\ UNCHANGED <<table, index, counts, world>>

\* The holder reads again, or its connection fails.
Unblocks(s) ==
  /\ At(s, "blocked")
  /\ Goes(s, [ladder[s] EXCEPT !.at = "sent"])
  /\ UNCHANGED <<table, index, counts, world>>

\* The call got out: the deadline runs from the first time it does.
GotOut(s) == IF ladder[s].first THEN ladder[s]
             ELSE [ladder[s] EXCEPT !.first = TRUE, !.out = FALSE]

\* note_recall_acked; then the holder has until the deadline.
Acked(s) ==
  /\ At(s, "sent")
  /\ rec' = IF Found(s) /\ rec[s].st = "pending"
            THEN [rec EXCEPT ![s].st = "acked"] ELSE rec
  /\ Goes(s, [GotOut(s) EXCEPT !.at = "acked"])
  /\ UNCHANGED <<cur, ent, index, counts, world>>

\* NFS4ERR_DELAY, or no answer in time: the next rung, the deadline after
\* the last.
NoAnswer(s) ==
  /\ At(s, "sent")
  /\ Goes(s, [GotOut(s) EXCEPT !.at = "rung",
                               !.rung = IF @ > Rungs THEN @ ELSE @ + 1])
  /\ UNCHANGED <<table, index, counts, world>>

\* The holder does not know the delegation: asked again, then believed.
Disowned(s) ==
  /\ At(s, "sent")
  /\ IF ladder[s].disowned THEN Ends(s, <<OpOn("disown", s)>>)
     ELSE Goes(s, [GotOut(s) EXCEPT !.at = "probe", !.disowned = TRUE])
  /\ UNCHANGED <<table, index, counts, world>>

\* A refusal, or an answer that cannot be read.
RefusedRecall(s) ==
  /\ At(s, "sent")
  /\ Ends(s, <<OpOn("revoke", s)>>)
  /\ UNCHANGED <<table, index, counts, world>>

\* No transport took the call.
Unreachable(s) ==
  /\ At(s, "sent")
  /\ IF ladder[s].out THEN Ends(s, LastWord(s))
     ELSE Goes(s, [ladder[s] EXCEPT !.at = "park"])
  /\ UNCHANGED <<table, index, counts, world>>

\* Mutant: the epoch is read, then the waiter is registered.
ParkReadsFirst(s) ==
  /\ \/ /\ At(s, "park")
        /\ Goes(s, [ladder[s] EXCEPT !.at = IF ladder[s].fired THEN "top" ELSE "listening"])
     \/ At(s, "listening") /\ Goes(s, [ladder[s] EXCEPT !.at = "parked"])
  /\ UNCHANGED <<table, index, counts, world>>

\* RearmSignal::wait: the waiter is registered, then the epoch is read.
Park(s) ==
  /\ \/ At(s, "park") /\ Goes(s, [ladder[s] EXCEPT !.at = "listening"])
     \/ /\ At(s, "listening")
        /\ Goes(s, [ladder[s] EXCEPT !.at = IF ladder[s].fired THEN "top" ELSE "parked"])
  /\ UNCHANGED <<table, index, counts, world>>

NotReturned(s) ==
  /\ At(s, "acked") /\ ladder[s].out
  /\ Ends(s, LastWord(s))
  /\ UNCHANGED <<table, index, counts, world>>

RunsOut(s) ==
  /\ ladder[s].at # "none" /\ ~ ladder[s].out
  /\ ladder' = [ladder EXCEPT ![s].out = TRUE]
  /\ UNCHANGED <<table, index, counts, world, task>>

\* Sending or about to wait: the epoch is what tells these of a rebind.
Heeds == {"sent", "blocked", "park", "listening"}

\* note_back_channel_bound, RearmSignal::fire: the epoch moves, and whoever
\* is parked is woken.
Rebind(c) ==
  LET of(at) == {s \in Sid : Present(s) /\ rec[s].client = c /\ ladder[s].at \in at}
  IN  /\ c \notin gone
      /\ of(Heeds \cup {"parked"}) # {}
      /\ ladder' = [s \in Sid |->
            IF s \in of({"parked"}) THEN [ladder[s] EXCEPT !.at = "top"]
            ELSE IF s \in of(Heeds) THEN [ladder[s] EXCEPT !.fired = TRUE]
            ELSE ladder[s]]
      /\ UNCHANGED <<table, index, counts, world, task>>

CoolingEnds ==
  /\ cur # 0 /\ ent[cur].cool = "on"
  /\ ent' = [ent EXCEPT ![cur].cool = "past"]
  /\ UNCHANGED <<cur, rec, index, counts, world, task, ladder>>

-----------------------------------------------------------------------------

Request(t) ==
  \/ \E c \in Clients : OpenRead(t, c) \/ OpenWrite(t, c) \/ TearDown(t, c)
  \/ \E m \in Clients \cup {Local} : Mutate(t, m)
  \/ \E s \in Sid : Return(t, s) \/ FreeStateId(t, s)

Step(a) ==
  \/ Again(a) \/ Collect(a) \/ Grant(a) \/ Fence(a) \/ Run(a) \/ Drop(a)
  \/ Revoke(a) \/ Uncount(a) \/ Mark(a) \/ Raise(a)
  \/ Disown(a) \/ Decide(a) \/ Lower(a) \/ Take(a) \/ Strip(a) \/ Forget(a)

Climb(s) ==
  \/ Send(s) \/ Acked(s) \/ NoAnswer(s) \/ Disowned(s) \/ RefusedRecall(s)
  \/ Unreachable(s) \/ Park(s) \/ NotReturned(s)

DelegNext ==
  \/ \E t \in Threads : Request(t)
  \/ \E a \in Actors : Step(a)
  \/ \E s \in Sid : Climb(s) \/ Unblocks(s) \/ RunsOut(s)
  \/ \E c \in Clients : Close(c) \/ Rebind(c)
  \/ CoolingEnds

DelegSpec ==
  /\ DelegInit /\ [][DelegNext]_vars
  /\ \A t \in Threads : WF_vars(Step(t))
  /\ \A s \in Sid : WF_vars(Step(s) \/ Climb(s)) /\ WF_vars(RunsOut(s))

-----------------------------------------------------------------------------

DelegTypeOK ==
  /\ cur \in {0} \cup Entries
  /\ \A i \in Entries : /\ ent[i].guards \in 0 .. Cardinality(Threads)
                        /\ ent[i].cool \in {"no", "on", "past"} /\ ent[i].dead \in BOOLEAN
  /\ \A s \in Sid : /\ rec[s].client \in Clients \cup {Local}
                    /\ rec[s].st \in {"none", "granted", "pending", "acked", "revoked"}
                    /\ rec[s].ent \in {0} \cup Entries
  /\ byStateid \subseteq Sid /\ byClient \in [Clients -> SUBSET Sid]
  /\ liveClient \in [Clients -> Nat] /\ liveGlobal \in Nat
  /\ marked \subseteq Sid
  /\ \A X \in {writers, bit, gone, late, crossed} : X \subseteq Clients
  /\ \A a \in Actors : task[a].arc \in {0} \cup Entries /\ task[a].client \in Clients \cup {Local}
  /\ \A s \in Sid : /\ ladder[s].at \in {"none", "top", "blocked", "sent", "acked", "rung",
                                         "probe", "park", "listening", "parked"}
                    /\ ladder[s].rung \in 0 .. Rungs + 1

\* The mutation a thread is through the fence for, or has carried out and
\* not released the guard of.
Mutating(t) == NextIs(t, "mutating") \/ NextIs(t, "opening") \/ NextIs(t, "release")

(* The fence: a mutation runs only while no other client has a live        *)
(* delegation of the file, whatever grants, collections, returns and       *)
(* teardowns run beside it (the debug_assert of MutationGuard's drop).     *)
FenceHolds ==
  \A t \in Threads : Mutating(t) =>
      \A s \in Sid : Live(s) => rec[s].client = task[t].client

(* A client that has the file open for writing and a client that may read  *)
(* it from its cache without asking never meet, although neither table is  *)
(* locked while the other one changes.                                     *)
NoGrantUnderWrite ==
  writers # {} => \A s \in Sid : rec[s].st # "granted"

(* Every record and every guard is in the entry the map has: nobody works  *)
(* in an entry that was collected, and the guards counted are those held.  *)
OneEntry ==
  /\ \A s \in Sid : Present(s) => rec[s].ent = cur
  /\ \A i \in Entries :
        ent[i].guards = Cardinality({t \in Threads : /\ task[t].arc = i /\ ~ Locks(t)})
  /\ \A i \in Entries : ent[i].guards > 0 => i = cur

Quiet == \A a \in Actors : Idle(a)

LiveOf(c) == {s \in Sid : Live(s) /\ rec[s].client = c}

(* Between requests the counters are the live records and the indexes the  *)
(* records, however returns, revocations and teardowns overlapped; only a  *)
(* grant that its client's teardown did not see can leave them wrong.      *)
TableExact ==
  Quiet => /\ byStateid = {s \in Sid : Present(s)}
           /\ liveGlobal = Cardinality({s \in Sid : Live(s)})
           /\ \A c \in Clients \ late :
                 /\ liveClient[c] = Cardinality(LiveOf(c))
                 /\ byClient[c] = {s \in Sid : Present(s) /\ rec[s].client = c}
                 /\ c \in gone => byClient[c] = {}

(* A revocation is never silent: between requests, a client with a revoked *)
(* delegation has the SEQ4 bit up, however FREE_STATEIDs take it down      *)
(* beside revocations that raise it; unless the client was revoked from    *)
(* between the look of a FREE_STATEID that found none and its lowering.    *)
RevokedTold ==
  Quiet => \A s \in Sid : rec[s].st = "revoked" => rec[s].client \in bit \cup crossed

(* A ladder does not sleep through the binding of a back channel: parked,  *)
(* it has missed none since its call found no transport.                   *)
RearmHeard == \A s \in Sid : ladder[s].at = "parked" => ~ ladder[s].fired

(* The holder is given one deadline: conflicts that come while a recall is *)
(* on its way neither start it again nor put the deadline off.             *)
OneDeadline ==
  [][\A s \in Sid : ladder[s].first => ladder'[s].first \/ ladder'[s].at = "none"]_vars

(* Every recall is resolved: the delegation is returned, disowned or       *)
(* revoked, or its client is torn down, whatever the holder answers, in    *)
(* any order, and however often it cannot be reached.  The one exception   *)
(* is a holder whose connection stays open and takes nothing: no timer is  *)
(* over the write of a CB_RECALL (BackChannelWriter::send_record).         *)
RecallResolves ==
  \A s \in Sid : Recalled(s) ~> ~ Recalled(s) \/ [](ladder[s].at = "blocked")

(* The map of entries is sound: what is live is in the entry the map has,  *)
(* guards are counted right, and no ladder sleeps through a rebind.        *)
DelegInv == DelegTypeOK /\ OneEntry /\ RearmHeard

(* Nobody reads from its cache what somebody else may be changing: no      *)
(* mutation runs beside a foreign delegation, and none is granted while    *)
(* the file is open for writing.                                           *)
NoStaleCache == FenceHolds /\ NoGrantUnderWrite

=============================================================================

------------------------------ MODULE NfsLocks ------------------------------
(***************************************************************************)
(* The byte-range lock table of the NFSv4 server (LockManager and the      *)
(* LOCK, LOCKU and FREE_STATEID handlers of nfs/v4/operations/lockops.rs), *)
(* its mirror in the state database, and the two ways a client is torn     *)
(* down: the lease sweep of the dispatcher and the cascade of EXCHANGE_ID  *)
(* and CREATE_SESSION.  One file; the tables are keyed by filehandle and   *)
(* files share only the per-client count.                                  *)
(*                                                                         *)
(* The maps are concurrent maps with no lock around a handler, so a        *)
(* handler is a list of map operations, each atomic, that the server's     *)
(* threads interleave: todo is what a thread has left to do.               *)
(***************************************************************************)
EXTENDS LockRange, Sequences, FiniteSets

CONSTANTS
    Owners,      \* lock owners
    Clients,     \* client ids
    ClientOf,    \* [Owners -> Clients]
    Threads,     \* requests the server works on at the same time
    Ranges,      \* the ranges clients ask for
    MaxLocks,    \* quotas.max_locks_per_client
    MaxKey,      \* bound: no LOCK or LOCKU is admitted past this entry key
    MaxSid,      \* bound: no lock stateid is minted past this one
    MaxRestart,  \* bound: orderly restarts
    MaxCrash     \* bound: crashes, which lose the queued writes

ASSUME LocksAssumption ==
    /\ ClientOf \in [Owners -> Clients]
    /\ Ranges \subseteq Range64
    /\ MaxLocks \in Nat \ {0}
    /\ {MaxKey, MaxSid, MaxRestart, MaxCrash} \subseteq Nat

VARIABLES
    locks,      \* entry key -> lock
    index,      \* locks_by_fh of the file
    count,      \* lock_counts
    keyCtr,     \* entry_key_counter
    sidCtr,     \* next_stateid
    owners,     \* stateid_owners: client-visible stateid -> owner
    states,     \* the lock stateids of the stateid table: stateid -> client
    live,       \* clients with a session and an open of the file
    recs,       \* clients with a record and a lease
    grace,      \* in_grace_period
    rows,       \* the database once every captured write is committed
    disk,       \* the database as committed: key -> value
    thr,        \* what each thread is doing
    told,       \* what the replies let each owner believe it holds
    known,      \* the lock stateid each owner holds, 0 for none
    restarts, crashes,
    overlap,    \* history: two requests have been worked on at a time
    lost        \* history: a crash has lost a request or a captured write

mem  == <<locks, index, count, keyCtr, sidCtr, owners, states>>
vars == <<locks, index, count, keyCtr, sidCtr, owners, states, live, recs,
          grace, rows, disk, thr, told, known, restarts, crashes,
          overlap, lost>>

LockTypes == {"read", "write"}

Nothing == [b \in U64 |-> "none"]

Idle == [todo |-> <<>>, kind |-> "idle"]

(* enqueue_write captures a write in call order; the writer commits in     *)
(* that order, so what is captured fixes what the database will be.        *)
Put(d, k, v) == [j \in DOMAIN d \cup {k} |-> IF j = k THEN v ELSE d[j]]
Del(d, K)    == [k \in DOMAIN d \ K |-> d[k]]

RowsOf(d, table) == {k[2] : k \in {r \in DOMAIN d : r[1] = table}}

TopOf(S) == IF S = {} THEN 0 ELSE CHOOSE n \in S : \A m \in S : m <= n

(* A set as a list, in whatever order a map is read. *)
Listed(S) == CHOOSE q \in [1 .. Cardinality(S) -> S] : \A k \in S : \E i \in DOMAIN q : q[i] = k

(* retain: the list without k, which is in it once at most. *)
Unlisted(q, k) ==
    LET At(p) == [i \in 1 .. Len(q) - 1 |-> IF i < p THEN q[i] ELSE q[i + 1]]
    IN  IF \E i \in 1 .. Len(q) : q[i] = k
        THEN At(CHOOSE i \in 1 .. Len(q) : q[i] = k)
        ELSE q

Init ==
    /\ locks = <<>> /\ index = <<>> /\ count = [c \in Clients |-> 0]
    /\ keyCtr = 1 /\ sidCtr = 1
    /\ owners = <<>> /\ states = <<>>
    /\ live = Clients /\ recs = Clients
    /\ grace = FALSE
    /\ rows = [k \in {<<"client", c>> : c \in Clients} |-> k[2]] /\ disk = rows
    /\ thr = [t \in Threads |-> Idle]
    /\ told = [o \in Owners |-> Nothing]
    /\ known = [o \in Owners |-> 0]
    /\ restarts = 0 /\ crashes = 0
    /\ overlap = FALSE /\ lost = FALSE

-----------------------------------------------------------------------------

OwnedBy(k, o) == locks[k].owner = o

(* check_conflicts, the requester's own locks left out. *)
ConflictFor(o, type, r) ==
    \E i \in 1 .. Len(index) :
        LET k == index[i]
        IN  /\ k \in DOMAIN locks
            /\ ~ OwnedBy(k, o)
            /\ ConflictsWith(r, locks[k].range, type, locks[k].type)

(* find_matching: the reclaim's idempotency probe. *)
Matching(o, type, r) ==
    \E i \in 1 .. Len(index) :
        /\ index[i] \in DOMAIN locks
        /\ locks[index[i]] = [owner |-> o, type |-> type, range |-> r]

(* canonical_for_owner: any registration of the owner on the file. *)
Canonicals(o) == {s \in DOMAIN owners : owners[s] = o}

Busy(o) == \E t \in Threads : thr[t].kind \in {"lock", "locku"} /\ thr[t].asker = o

Free(t) == thr[t].kind = "idle"

Quiet == \A t \in Threads : Free(t)

Add(o, type, r) == [op |-> "insert", lock |-> [owner |-> o, type |-> type, range |-> r]]

(***************************************************************************)
(* LOCK.  Its early returns that change nothing (no filehandle, a bad      *)
(* stateid or range, no session, a reclaim outside grace, the quota)       *)
(* leave the table alone and are not steps.  The client presents its lock  *)
(* stateid when it has one (exist_lock_owner4, the owner the stateid       *)
(* resolves to) and its open stateid otherwise (open_to_lock_owner4).      *)
(***************************************************************************)
Lock(t, o, type, r) ==
    LET new == known[o] = 0
        as  == IF new THEN o ELSE owners[known[o]]
    IN  /\ Free(t) /\ ~ Busy(o)
        /\ ClientOf[o] \in live
        /\ keyCtr <= MaxKey /\ (new => sidCtr <= MaxSid)
        /\ ValidLockRange(r)
        /\ count[ClientOf[o]] < MaxLocks
        /\ ~ new => /\ known[o] \in DOMAIN states /\ known[o] \in DOMAIN owners
                    /\ ClientOf[owners[known[o]]] = ClientOf[o]
        /\ thr' = [thr EXCEPT ![t] =
                      [kind |-> "lock", asker |-> o, owner |-> as, type |-> type,
                       range |-> r, sid |-> known[o],
                       todo |-> <<[op |-> "check", new |-> new]>>]]
        /\ UNCHANGED <<mem, live, recs, grace, rows, disk, told, known, restarts, crashes>>

(* A reclaim in grace of a range the owner held: the restored entry is     *)
(* answered with the owner's stateid, and only a range no entry matches    *)
(* goes on to be granted as a new owner's.                                 *)
Reclaim(t, o, type, r) ==
    /\ Free(t) /\ ~ Busy(o)
    /\ ClientOf[o] \in live /\ grace
    /\ keyCtr <= MaxKey /\ sidCtr <= MaxSid
    /\ ValidLockRange(r)
    /\ \A b \in Bytes(r) : told[o][b] = type
    /\ IF Matching(o, type, r)
       THEN /\ IF Canonicals(o) # {}
               THEN /\ known' = [known EXCEPT ![o] = CHOOSE s \in Canonicals(o) : TRUE]
                    /\ UNCHANGED <<sidCtr, owners, states, rows>>
               ELSE /\ known' = [known EXCEPT ![o] = sidCtr]
                    /\ sidCtr' = sidCtr + 1
                    /\ owners' = Put(owners, sidCtr, o)
                    /\ states' = Put(states, sidCtr, ClientOf[o])
                    /\ rows' = Put(Put(rows, <<"stateid", sidCtr>>, ClientOf[o]),
                                   <<"owner", sidCtr>>, o)
            /\ UNCHANGED <<locks, index, count, keyCtr, thr>>
       ELSE /\ thr' = [thr EXCEPT ![t] =
                         [kind |-> "lock", asker |-> o, owner |-> o, type |-> type,
                          range |-> r, sid |-> 0,
                          todo |-> <<[op |-> "check", new |-> TRUE]>>]]
            /\ UNCHANGED <<mem, rows, known>>
    /\ UNCHANGED <<live, recs, grace, disk, told, restarts, crashes>>

(* LOCKU: the stateid names the owner, the range what is carved. *)
LockU(t, o, r) ==
    /\ Free(t) /\ ~ Busy(o)
    /\ ClientOf[o] \in live
    /\ keyCtr <= MaxKey
    /\ known[o] # 0 /\ known[o] \in DOMAIN states /\ known[o] \in DOMAIN owners
    /\ ClientOf[owners[known[o]]] = ClientOf[o]
    /\ ValidLockRange(r)
    /\ thr' = [thr EXCEPT ![t] =
                  [kind |-> "locku", asker |-> o, owner |-> owners[known[o]],
                   type |-> "none", range |-> r, sid |-> known[o],
                   todo |-> <<[op |-> "trim"]>>]]
    /\ UNCHANGED <<mem, live, recs, grace, rows, disk, told, known, restarts, crashes>>

(* FREE_STATEID of a lock stateid: refused while the owner holds a range.  *)
(* A client does not lock through a stateid it is freeing.                 *)
FreeStateId(t, o) ==
    LET s == known[o]
    IN  /\ Free(t) /\ ~ Busy(o)
        /\ ClientOf[o] \in live
        /\ s # 0 /\ s \in DOMAIN states
        /\ s \in DOMAIN owners =>
              ~ \E i \in 1 .. Len(index) :
                    index[i] \in DOMAIN locks /\ OwnedBy(index[i], owners[s])
        /\ owners' = Del(owners, {s})
        /\ states' = Del(states, {s})
        /\ rows' = Del(rows, {<<"owner", s>>, <<"stateid", s>>})
        /\ known' = [known EXCEPT ![o] = 0]
        /\ UNCHANGED <<locks, index, count, keyCtr, sidCtr, live, recs, grace, disk, thr,
                       told, restarts, crashes>>

-----------------------------------------------------------------------------

(* The map operations a handler is made of.  Next(t) is the one the thread *)
(* does next, Then replaces it by what it leads to.                        *)
NextOp(t) == Head(thr[t].todo)

Does(t, op) == thr[t].todo # <<>> /\ NextOp(t).op = op

Then(t, ops) == thr' = [thr EXCEPT ![t].todo = ops \o Tail(@)]

Denied(t) == thr' = [thr EXCEPT ![t] = Idle]

(* Mutant: the owner is registered after its first range is in the table. *)
CheckRegistersLast(t) ==
    /\ Does(t, "check")
    /\ LET T == thr[t]
       IN  IF ConflictFor(T.owner, T.type, T.range)
           THEN Denied(t)
           ELSE Then(t, (IF NextOp(t).new THEN <<[op |-> "allocate"]>> ELSE <<[op |-> "trim"]>>)
                        \o <<Add(T.owner, T.type, T.range)>>
                        \o (IF NextOp(t).new THEN <<[op |-> "register"]>> ELSE <<>>))
    /\ UNCHANGED <<mem, live, recs, grace, rows, disk, told, known, restarts, crashes>>

(* check_conflicts, and what the handler goes on to when there is none. *)
Check(t) ==
    /\ Does(t, "check")
    /\ LET T == thr[t]
       IN  IF ConflictFor(T.owner, T.type, T.range)
           THEN Denied(t)
           ELSE Then(t, (IF NextOp(t).new
                         THEN <<[op |-> "allocate"], [op |-> "register"]>>
                         ELSE <<[op |-> "trim"]>>)
                        \o <<Add(T.owner, T.type, T.range)>>)
    /\ UNCHANGED <<mem, live, recs, grace, rows, disk, told, known, restarts, crashes>>

(* stateids.allocate: the row, then the table. *)
Allocate(t) ==
    /\ Does(t, "allocate")
    /\ sidCtr' = sidCtr + 1
    /\ states' = Put(states, sidCtr, ClientOf[thr[t].owner])
    /\ rows' = Put(rows, <<"stateid", sidCtr>>, ClientOf[thr[t].owner])
    /\ thr' = [thr EXCEPT ![t].sid = sidCtr, ![t].todo = Tail(@)]
    /\ UNCHANGED <<locks, index, count, keyCtr, owners, live, recs, grace, disk, told,
                   known, restarts, crashes>>

(* register_owner_stateid: the row, then the owner map. *)
Register(t) ==
    /\ Does(t, "register")
    /\ owners' = Put(owners, thr[t].sid, thr[t].owner)
    /\ rows' = Put(rows, <<"owner", thr[t].sid>>, thr[t].owner)
    /\ Then(t, <<>>)
    /\ UNCHANGED <<locks, index, count, keyCtr, sidCtr, states, live, recs, grace, disk,
                   told, known, restarts, crashes>>

(* trim_owner_range reads the file's keys once and goes through them. *)
Trim(t) ==
    /\ Does(t, "trim")
    /\ Then(t, [i \in 1 .. Len(index) |-> [op |-> "carve", key |-> index[i]]])
    /\ UNCHANGED <<mem, live, recs, grace, rows, disk, told, known, restarts, crashes>>

(* remove_lock: the map, then the index, then the row. *)
Removal(k) == <<[op |-> "unindex", key |-> k], [op |-> "unrow", key |-> k]>>

(* Mutant: the count is never given back. *)
ForgetKeepsCount(k) ==
    /\ locks' = Del(locks, {k})
    /\ UNCHANGED count

Forget(k) ==
    /\ locks' = Del(locks, {k})
    /\ count' = [count EXCEPT ![ClientOf[locks[k].owner]] = IF @ = 0 THEN 0 ELSE @ - 1]

(* One key of the trim: the owner's entry goes, its survivors come back as *)
(* entries of their own.                                                   *)
Survivors(held, cut) ==
    LET Entries(S) == LET R == CHOOSE x \in S : TRUE
                      IN  IF S = {} THEN <<>> ELSE <<Add(held.owner, held.type, R)>>
    IN  Entries(LeftSurvivor(held.range, cut)) \o Entries(RightSurvivor(held.range, cut))

(* Mutant: the carve does not ask whose entry it is. *)
CarveAnyOwner(t) ==
    /\ Does(t, "carve")
    /\ LET k == NextOp(t).key
       IN  IF k \in DOMAIN locks /\ Overlaps(locks[k].range, thr[t].range)
           THEN /\ Forget(k)
                /\ Then(t, Removal(k) \o Survivors(locks[k], thr[t].range))
           ELSE Then(t, <<>>) /\ UNCHANGED <<locks, count>>
    /\ UNCHANGED <<index, keyCtr, sidCtr, owners, states, live, recs, grace, rows, disk,
                   told, known, restarts, crashes>>

Carve(t) ==
    /\ Does(t, "carve")
    /\ LET k == NextOp(t).key
           T == thr[t]
       IN  IF k \in DOMAIN locks /\ OwnedBy(k, T.owner) /\ Overlaps(locks[k].range, T.range)
           THEN /\ Forget(k)
                /\ Then(t, Removal(k) \o Survivors(locks[k], T.range))
           ELSE Then(t, <<>>) /\ UNCHANGED <<locks, count>>
    /\ UNCHANGED <<index, keyCtr, sidCtr, owners, states, live, recs, grace, rows, disk,
                   told, known, restarts, crashes>>

(* The index entry; an emptied index is dropped in a second operation. *)
Unindex(t) ==
    /\ Does(t, "unindex")
    /\ index' = Unlisted(index, NextOp(t).key)
    /\ Then(t, IF index # <<>> /\ index' = <<>> THEN <<[op |-> "dropfh"]>> ELSE <<>>)
    /\ UNCHANGED <<locks, count, keyCtr, sidCtr, owners, states, live, recs, grace, rows,
                   disk, told, known, restarts, crashes>>

DropFh(t) ==
    /\ Does(t, "dropfh")
    /\ index' = <<>>
    /\ Then(t, <<>>)
    /\ UNCHANGED <<locks, count, keyCtr, sidCtr, owners, states, live, recs, grace, rows,
                   disk, told, known, restarts, crashes>>

Unrow(t) ==
    /\ Does(t, "unrow")
    /\ rows' = Del(rows, {<<"lock", NextOp(t).key>>})
    /\ Then(t, <<>>)
    /\ UNCHANGED <<mem, live, recs, grace, disk, told, known, restarts, crashes>>

(* add_lock: a fresh key and the map, then the index, then the row. *)
Insert(t) ==
    /\ Does(t, "insert")
    /\ LET L == NextOp(t).lock
       IN  /\ locks' = Put(locks, keyCtr, L)
           /\ count' = [count EXCEPT ![ClientOf[L.owner]] =
                           @ + 1 - (IF keyCtr \in DOMAIN locks THEN 1 ELSE 0)]
           /\ Then(t, <<[op |-> "push", key |-> keyCtr],
                        [op |-> "row", key |-> keyCtr, val |-> L]>>)
    /\ keyCtr' = keyCtr + 1
    /\ UNCHANGED <<index, sidCtr, owners, states, live, recs, grace, rows, disk, told,
                   known, restarts, crashes>>

Push(t) ==
    /\ Does(t, "push")
    /\ index' = Append(index, NextOp(t).key)
    /\ Then(t, <<>>)
    /\ UNCHANGED <<locks, count, keyCtr, sidCtr, owners, states, live, recs, grace, rows,
                   disk, told, known, restarts, crashes>>

Row(t) ==
    /\ Does(t, "row")
    /\ rows' = Put(rows, <<"lock", NextOp(t).key>>, NextOp(t).val)
    /\ Then(t, <<>>)
    /\ UNCHANGED <<mem, live, recs, grace, disk, told, known, restarts, crashes>>

(* The reply of a LOCK or a LOCKU: the client believes it, unless it was   *)
(* torn down meanwhile and has no session to hear it on.                   *)
Reply(t) ==
    /\ thr[t].kind \in {"lock", "locku"} /\ thr[t].todo = <<>>
    /\ LET T == thr[t]
       IN  IF ClientOf[T.asker] \in live
           THEN /\ told' = [told EXCEPT ![T.asker] =
                               [b \in U64 |-> IF b \in Bytes(T.range) THEN T.type ELSE @[b]]]
                /\ known' = [known EXCEPT ![T.asker] = T.sid]
           ELSE UNCHANGED <<told, known>>
    /\ thr' = [thr EXCEPT ![t] = Idle]
    /\ UNCHANGED <<mem, live, recs, grace, rows, disk, restarts, crashes>>

-----------------------------------------------------------------------------

Retiring(c, ops) == [kind |-> "retire", client |-> c, todo |-> ops]

(* courtesy_release_expired: a client whose lease was read as expired; the *)
(* record dies before the locks are stripped.                              *)
Sweep(t, c) ==
    /\ Free(t) /\ c \in recs
    /\ thr' = [thr EXCEPT ![t] = Retiring(c, <<[op |-> "sessions"], [op |-> "record"],
                                               [op |-> "strip"], [op |-> "purge"]>>)]
    /\ UNCHANGED <<mem, live, recs, grace, rows, disk, told, known, restarts, crashes>>

(* cascade_destroy_client, of a superseded client: the locks first. *)
Cascade(t, c) ==
    /\ Free(t) /\ c \in recs
    /\ thr' = [thr EXCEPT ![t] = Retiring(c, <<[op |-> "sessions"], [op |-> "strip"],
                                               [op |-> "purge"], [op |-> "record"]>>)]
    /\ UNCHANGED <<mem, live, recs, grace, rows, disk, told, known, restarts, crashes>>

(* The stateids the table has under the client. *)
StatesOf(c) == {s \in DOMAIN states : states[s] = c}

(* DESTROY_CLIENTID: only a client with no session, stateid or lock. *)
DestroyClientId(t, c) ==
    /\ Free(t) /\ c \in recs \ live
    /\ StatesOf(c) = {} /\ count[c] = 0
    /\ thr' = [thr EXCEPT ![t] = Retiring(c, <<[op |-> "record"]>>)]
    /\ UNCHANGED <<mem, live, recs, grace, rows, disk, told, known, restarts, crashes>>

(* destroy_client_sessions and remove_client_stateids. *)
DropSessions(t) ==
    /\ Does(t, "sessions")
    /\ LET c == thr[t].client
       IN  /\ live' = live \ {c}
           /\ states' = Del(states, StatesOf(c))
           /\ rows' = Del(rows, {<<"stateid", s>> : s \in StatesOf(c)})
           /\ told' = [o \in Owners |-> IF ClientOf[o] = c THEN Nothing ELSE told[o]]
           /\ known' = [o \in Owners |-> IF ClientOf[o] = c THEN 0 ELSE known[o]]
    /\ Then(t, <<>>)
    /\ UNCHANGED <<locks, index, count, keyCtr, sidCtr, owners, recs, grace, disk, restarts,
                   crashes>>

(* remove_client: the record, the lease and the persisted row. *)
DropRecord(t) ==
    /\ Does(t, "record")
    /\ recs' = recs \ {thr[t].client}
    /\ rows' = Del(rows, {<<"client", thr[t].client>>})
    /\ Then(t, <<>>)
    /\ UNCHANGED <<mem, live, grace, disk, told, known, restarts, crashes>>

(* remove_client_locks: the client's keys as they are now, one by one. *)
Strip(t) ==
    /\ Does(t, "strip")
    /\ LET K == Listed({k \in DOMAIN locks : ClientOf[locks[k].owner] = thr[t].client})
       IN  Then(t, [i \in 1 .. Len(K) |-> [op |-> "remove", key |-> K[i]]])
    /\ UNCHANGED <<mem, live, recs, grace, rows, disk, told, known, restarts, crashes>>

Remove(t) ==
    /\ Does(t, "remove")
    /\ LET k == NextOp(t).key
       IN  IF k \in DOMAIN locks
           THEN Forget(k) /\ Then(t, Removal(k))
           ELSE Then(t, <<>>) /\ UNCHANGED <<locks, count>>
    /\ UNCHANGED <<index, keyCtr, sidCtr, owners, states, live, recs, grace, rows, disk,
                   told, known, restarts, crashes>>

Purge(t) ==
    /\ Does(t, "purge")
    /\ LET S == {s \in DOMAIN owners : ClientOf[owners[s]] = thr[t].client}
       IN  /\ owners' = Del(owners, S)
           /\ rows' = Del(rows, {<<"owner", s>> : s \in S})
    /\ Then(t, <<>>)
    /\ UNCHANGED <<locks, index, count, keyCtr, sidCtr, states, live, recs, grace, disk,
                   told, known, restarts, crashes>>

Retired(t) ==
    /\ thr[t].kind = "retire" /\ thr[t].todo = <<>>
    /\ thr' = [thr EXCEPT ![t] = Idle]
    /\ UNCHANGED <<mem, live, recs, grace, rows, disk, told, known, restarts, crashes>>

-----------------------------------------------------------------------------

(* The writer thread commits everything captured so far as one batch.  The *)
(* moment of a commit shows only to a crash, so without one to come it is  *)
(* not a step.                                                             *)
Commit ==
    /\ crashes < MaxCrash
    /\ disk # rows /\ disk' = rows
    /\ UNCHANGED <<mem, live, recs, grace, rows, thr, told, known, restarts, crashes>>

(* load_records: the counters resume past every restored key. *)
ResumePast(S) == TopOf(S) + 1

(* StateManager::load_from_backend and LockManager::bring_up. *)
Load(d) ==
    LET K == RowsOf(d, "lock")
    IN  /\ locks' = [k \in K |-> d[<<"lock", k>>]]
        /\ index' = Listed(K)
        /\ count' = [c \in Clients |->
                        Cardinality({k \in K : ClientOf[d[<<"lock", k>>].owner] = c})]
        /\ keyCtr' = ResumePast(K)
        /\ owners' = [s \in RowsOf(d, "owner") |-> d[<<"owner", s>>]]
        /\ states' = [s \in RowsOf(d, "stateid") |-> d[<<"stateid", s>>]]
        /\ sidCtr' = ResumePast(RowsOf(d, "stateid"))
        /\ recs' = RowsOf(d, "client")
        /\ live' = {} /\ grace' = TRUE
        /\ rows' = d /\ disk' = d
        /\ thr' = [t \in Threads |-> Idle]
        /\ UNCHANGED <<told, known>>

(* A restart that finishes its requests and drains the writer. *)
Restart ==
    /\ restarts < MaxRestart /\ restarts' = restarts + 1
    /\ Quiet
    /\ Load(rows)
    /\ UNCHANGED crashes

(* A crash loses the requests and the writes that are not committed. *)
Crash ==
    /\ crashes < MaxCrash /\ crashes' = crashes + 1
    /\ Load(disk)
    /\ UNCHANGED restarts

GraceEnds ==
    /\ grace /\ grace' = FALSE
    /\ UNCHANGED <<mem, live, recs, rows, disk, thr, told, known, restarts, crashes>>

(* CREATE_SESSION of a client the server kept. *)
Reconnect(t, c) ==
    /\ Free(t) /\ c \in recs \ live
    /\ live' = live \cup {c}
    /\ UNCHANGED <<mem, recs, grace, rows, disk, thr, told, known, restarts, crashes>>

(* A client whose stateid no longer validates learns that its locks are    *)
(* lost.                                                                   *)
StateIdLost(o) ==
    /\ ClientOf[o] \in live /\ ~ Busy(o)
    /\ known[o] # 0 /\ known[o] \notin DOMAIN states
    /\ known' = [known EXCEPT ![o] = 0]
    /\ told' = [told EXCEPT ![o] = Nothing]
    /\ UNCHANGED <<mem, live, recs, grace, rows, disk, thr, restarts, crashes>>

Step(t) ==
    \/ Check(t) \/ Allocate(t) \/ Register(t) \/ Trim(t) \/ Carve(t) \/ Unindex(t) \/ DropFh(t)
    \/ Unrow(t) \/ Insert(t) \/ Push(t) \/ Row(t) \/ Reply(t)
    \/ DropSessions(t) \/ DropRecord(t) \/ Strip(t) \/ Remove(t) \/ Purge(t) \/ Retired(t)

Request(t) ==
    \/ \E o \in Owners, r \in Ranges :
          \/ \E type \in LockTypes : Lock(t, o, type, r) \/ Reclaim(t, o, type, r)
          \/ LockU(t, o, r)
    \/ \E o \in Owners : FreeStateId(t, o)
    \/ \E c \in Clients : Sweep(t, c) \/ Cascade(t, c) \/ DestroyClientId(t, c)
                          \/ Reconnect(t, c)

Next ==
    \/ /\ \E t \in Threads : Request(t)
       /\ overlap' = (overlap \/ ~ Quiet) /\ UNCHANGED lost
    \/ /\ \/ \E t \in Threads : Step(t)
          \/ \E o \in Owners : StateIdLost(o)
          \/ Commit \/ Restart \/ GraceEnds
       /\ UNCHANGED <<overlap, lost>>
    \/ /\ Crash
       /\ lost' = (lost \/ disk # rows \/ ~ Quiet) /\ UNCHANGED overlap

Spec == Init /\ [][Next]_vars

-----------------------------------------------------------------------------

LockVals == [owner : Owners, type : LockTypes, range : Range64]

(* Shapes of the tables.  Every entry and every stateid was minted by the  *)
(* counters; so was the stateid of every registered owner, unless a crash  *)
(* or a teardown in the middle of its LOCK took the stateid from it.       *)
LocksTypeOK ==
    /\ DOMAIN locks \subseteq 1 .. (keyCtr - 1)
    /\ \A k \in DOMAIN locks : locks[k] \in LockVals
    /\ \A i \in 1 .. Len(index) : index[i] \in 1 .. (keyCtr - 1)
    /\ count \in [Clients -> Nat]
    /\ \A s \in DOMAIN owners : owners[s] \in Owners
    /\ DOMAIN states \subseteq 1 .. (sidCtr - 1)
    /\ \A s \in DOMAIN states : states[s] \in Clients
    /\ lost \/ overlap \/ DOMAIN owners \subseteq 1 .. (sidCtr - 1)
    /\ live \subseteq Clients /\ recs \subseteq Clients
    /\ grace \in BOOLEAN
    /\ \A t \in Threads : thr[t].kind \in {"idle", "lock", "locku", "retire"}
    /\ told \in [Owners -> [U64 -> LockTypes \cup {"none"}]]
    /\ known \in [Owners -> Nat]

Covering(o, b) == {locks[k].type : k \in {j \in DOMAIN locks :
                                            OwnedBy(j, o) /\ b \in Bytes(locks[j].range)}}

(* The code looks for conflicts, trims and inserts in separate steps with  *)
(* no lock over them, so what one request leaves behind is exact as long   *)
(* as no two were worked on at a time.                                     *)
Settled == Quiet /\ ~ overlap

(* Then the table gives each owner, byte by byte, exactly the mode the     *)
(* replies of LOCK and LOCKU let it believe it has: splits, upgrades,      *)
(* releases and restores neither lose nor keep a byte.                     *)
HeldAsTold ==
    Settled /\ ~ lost => \A o \in Owners : ClientOf[o] \in recs =>
        \A b \in U64 : Covering(o, b) = {told[o][b]} \ {"none"}

(* Mutual exclusion, in the middle of requests and after crashes too: two  *)
(* owners hold the same byte only to read it.                              *)
Exclusive ==
    ~ overlap =>
        \A j, k \in DOMAIN locks :
            locks[j].owner # locks[k].owner /\ Bytes(locks[j].range) \cap Bytes(locks[k].range) # {}
                => locks[j].type = "read" /\ locks[k].type = "read"

(* The file's index lists every entry once: an entry it misses conflicts   *)
(* with nobody and no LOCKU finds it.                                      *)
IndexExact ==
    Settled => /\ {index[i] : i \in 1 .. Len(index)} = DOMAIN locks
               /\ Len(index) = Cardinality(DOMAIN locks)

(* However requests and teardowns overlap, between them the count the      *)
(* quota is checked against is the number of entries the client has.       *)
CountExact ==
    Quiet => \A c \in Clients :
        count[c] = Cardinality({k \in DOMAIN locks : ClientOf[locks[k].owner] = c})

(* An owner that holds a range can release it: the stateid it was given    *)
(* validates and resolves to it, across restarts too.                      *)
Releasable ==
    Settled /\ ~ lost => \A k \in DOMAIN locks :
        LET o == locks[k].owner
        IN  ClientOf[o] \in recs =>
                /\ known[o] \in DOMAIN states /\ known[o] \in DOMAIN owners
                /\ owners[known[o]] = o

(* The database, once the captured writes are committed, has the rows of   *)
(* the table and no others: a restart neither forgets a lock nor brings    *)
(* one back.                                                               *)
RowsFollow ==
    Settled => /\ RowsOf(rows, "lock") = DOMAIN locks
               /\ \A k \in DOMAIN locks : rows[<<"lock", k>>] = locks[k]
               /\ RowsOf(rows, "owner") = DOMAIN owners
               /\ RowsOf(rows, "stateid") = DOMAIN states

(* Whatever a crash may keep, a lock row has the registration of its owner    *)
(* with it, without which neither LOCKU nor a relock resolves the owner.   *)
RegisteredOnDisk ==
    ~ overlap /\ ~ lost => \A k \in RowsOf(disk, "lock") :
        \E s \in RowsOf(disk, "owner") : disk[<<"owner", s>>] = disk[<<"lock", k>>].owner

(* However requests overlap, a lock leaves the table, or changes, only     *)
(* while a request of its own owner or the teardown of its client is being *)
(* worked on, or the server goes down.                                     *)
OwnLocksOnly ==
    [][<<restarts, crashes>>' = <<restarts, crashes>> =>
        \A k \in DOMAIN locks :
          (k \notin DOMAIN locks' \/ locks'[k] # locks[k]) =>
              \E t \in Threads :
                  \/ thr[t].kind \in {"lock", "locku"} /\ thr[t].owner = locks[k].owner
                  \/ thr[t].kind = "retire" /\ thr[t].client = ClientOf[locks[k].owner]]_vars

(* No lock belongs to a client that is gone: nothing would ever release    *)
(* it, and it denies its range to everyone.                                *)
NoOrphan ==
    Settled /\ ~ lost => \A k \in DOMAIN locks : ClientOf[locks[k].owner] \in recs

(* LockManager: the tables agree with one another.  The index and the      *)
(* count are those of the locks, every lock belongs to a client that is    *)
(* there, and its owner has a stateid to release it by.                    *)
LocksInv == LocksTypeOK /\ IndexExact /\ CountExact /\ Releasable /\ NoOrphan

(* The state database follows the tables, and what of it a crash may leave *)
(* is enough to restore from.                                              *)
DatabaseFollows == RowsFollow /\ RegisteredOnDisk

=============================================================================

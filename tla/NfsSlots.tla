------------------------------ MODULE NfsSlots ------------------------------
(***************************************************************************)
(* The slot table of one NFSv4.1 session: SEQUENCE (state/session.rs and   *)
(* operations/session.rs), the COMPOUND loop with the session's limits     *)
(* (dispatcher.rs) and the reply cache, filled after the reply is encoded  *)
(* (server_v4.rs).  The requests of a connection are dispatched as tasks   *)
(* of their own, so a resend can meet its original anywhere between its    *)
(* SEQUENCE and its reply.                                                 *)
(*                                                                         *)
(* The client keeps to the protocol: one request at a time on a slot, a    *)
(* resend only after its connection is lost, the next seqid once a request *)
(* is answered.  A copy stands for the connection it was sent on: the      *)
(* answer to any copy but the last goes to a connection that is gone.      *)
(***************************************************************************)
EXTENDS Integers, FiniteSets

CONSTANTS
    Slots,       \* slot ids below ca_maxrequests
    Modulus,     \* seqids are counted modulo this (2^32)
    MaxOps,      \* ca_maxoperations, SEQUENCE included
    Requests,    \* what a client may ask for: see RequestShape
    Before,      \* how many requests a slot may have seen when the run begins
    MaxRequest,  \* bound: requests on a slot in the run
    MaxCopy      \* bound: times a request is sent

Sizes == {"cachable", "uncachable", "toobig"}

(* ops: operations of the COMPOUND; cache: sa_cachethis; big: the request  *)
(* is over ca_maxrequestsize; size: its reply against the cached and the   *)
(* full response size.                                                     *)
RequestShape == [ops : Nat \ {0}, cache : BOOLEAN, big : BOOLEAN, size : Sizes]

ASSUME SlotsAssumption ==
    /\ Modulus \in Nat /\ Modulus > 2
    /\ MaxOps \in Nat \ {0}
    /\ Requests \subseteq RequestShape
    /\ Before \subseteq Nat
    /\ MaxRequest \in Nat /\ MaxCopy \in Nat \ {0}

VARIABLES
    session,    \* the session is in the session table
    slot,       \* slots: the last seqid and the cached reply
    client,     \* per slot: the client's request and what it was answered
    wire,       \* copies sent and not read yet
    running,    \* COMPOUNDs between two of their operations
    encoded,    \* COMPOUNDs whose reply is encoded and not yet cached
    replies,    \* replies written
    runs,       \* history: how often SEQUENCE let request n of a slot run
    done,       \* history: how many of its operations took effect
    overtaken   \* history: slots that moved on with a request still running

vars == <<session, slot, client, wire, running, encoded, replies, runs, done,
          overtaken>>

(* A request of slot s is known by its number n; the wire carries n modulo *)
(* Modulus.                                                                *)
Seqid(n) == n % Modulus

NoReply == [kind |-> "none"]

Reply(t, k, r) == [kind |-> k, slot |-> t.slot, n |-> t.n, results |-> r]

Told(t, k) == Reply(t, k, 0)

(* The kinds of a reply that a COMPOUND past its SEQUENCE produces. *)
Ran == {"Ok", "Failed", "TooManyOps", "ReqTooBig", "RepTooBig"}

(* A slot that is new, or that has answered b requests, the last without   *)
(* sa_cachethis.                                                           *)
Init ==
    \E b \in Before :
        /\ session = TRUE
        /\ slot = [s \in Slots |-> [seq |-> Seqid(b), cached |-> NoReply]]
        /\ client = [s \in Slots |-> [n |-> b, copy |-> 0, req |-> NoReply,
                                      waiting |-> FALSE, answer |-> NoReply]]
        /\ wire = {} /\ running = {} /\ encoded = {} /\ replies = {}
        /\ runs = [s \in Slots |-> [n \in b + 1..b + MaxRequest |-> 0]]
        /\ done = runs
        /\ overtaken = {}

(***************************************************************************)
(* The client.                                                             *)
(***************************************************************************)
Outstanding(s) == {t \in wire \cup {r.task : r \in running} : t.slot = s}

Copy(s, c) == [slot |-> s, n |-> c.n, copy |-> c.copy, req |-> c.req]

(* The next request on an idle slot.  No copy of a request is still on its *)
(* way when the seqids have come round to it.                              *)
Send(s, q) ==
    LET c == client[s]
        d == [n |-> c.n + 1, copy |-> 1, req |-> q, waiting |-> TRUE, answer |-> NoReply]
    IN /\ session /\ ~c.waiting /\ d.n \in DOMAIN runs[s]
       /\ \A t \in Outstanding(s) : t.n > d.n + 1 - Modulus
       /\ client' = [client EXCEPT ![s] = d]
       /\ wire' = wire \cup {Copy(s, d)}
       /\ UNCHANGED <<session, slot, running, encoded, replies, runs, done, overtaken>>

(* The connection is lost, and what was written to it: the same request    *)
(* again on another.                                                       *)
Resend(s) ==
    LET d == [client[s] EXCEPT !.copy = @ + 1] IN
    /\ client[s].waiting /\ client[s].copy < MaxCopy
    /\ client' = [client EXCEPT ![s] = d]
    /\ wire' = wire \cup {Copy(s, d)}
    /\ replies' = {p \in replies : p.to.slot # s}
    /\ UNCHANGED <<session, slot, running, encoded, runs, done, overtaken>>

(* An answer frees the slot, RETRY_UNCACHED_REP included: the client cannot *)
(* know more of that request.                                              *)
Accept(p) ==
    /\ p \in replies
    /\ replies' = replies \ {p}
    /\ client' = [client EXCEPT ![p.to.slot].waiting = FALSE,
                                ![p.to.slot].answer = p.body]
    /\ UNCHANGED <<session, slot, wire, running, encoded, runs, done, overtaken>>

(***************************************************************************)
(* SEQUENCE.                                                               *)
(***************************************************************************)

(* Mutant: a resend without a cached reply runs again. *)
StatusRunsUncached(s, seq) ==
    IF seq = slot[s].seq /\ slot[s].cached # NoReply THEN "Replay"
    ELSE IF seq \in {slot[s].seq, (slot[s].seq + 1) % Modulus} THEN "New"
    ELSE "Misordered"

(* process_sequence's verdict on a seqid. *)
SeqStatus(s, seq) ==
    IF slot[s].seq = 0 /\ seq = 1 THEN "New"
    ELSE IF seq = slot[s].seq THEN "Replay"
    ELSE IF seq = (slot[s].seq + 1) % Modulus THEN "New"
    ELSE "Misordered"

(* Mutant: the old reply stays while the new request runs. *)
AdvanceKeeps(s, seq) == slot' = [slot EXCEPT ![s].seq = seq]

(* A new request takes the slot and drops the reply of the one before. *)
Advance(s, seq) == slot' = [slot EXCEPT ![s] = [seq |-> seq, cached |-> NoReply]]

(***************************************************************************)
(* The COMPOUND loop.  Results are counted from SEQUENCE, operation 0; the *)
(* limits are looked at after an operation was dispatched, while the       *)
(* session is still there to say what they are.                            *)
(***************************************************************************)

TooMany(t, i) == session /\ t.req.ops > MaxOps /\ i + 1 > MaxOps

LastReply(t) ==
    IF session /\ t.req.size = "toobig" THEN Reply(t, "RepTooBig", 1)
    ELSE Reply(t, "Ok", t.req.ops)

Stop(t, r) == /\ encoded' = encoded \cup {[task |-> t, reply |-> r]}
              /\ UNCHANGED replies

(* What follows operation i, whose status is ok or not. *)
After(t, i, ok, rest) ==
    IF TooMany(t, i) THEN running' = rest /\ Stop(t, Reply(t, "TooManyOps", i))
    ELSE IF session /\ t.req.big THEN running' = rest /\ Stop(t, Reply(t, "ReqTooBig", i + 1))
    ELSE IF ~ok THEN running' = rest /\ Stop(t, Reply(t, "Failed", i))
    ELSE IF i + 1 = t.req.ops THEN running' = rest /\ Stop(t, LastReply(t))
    ELSE running' = rest \cup {[task |-> t, i |-> i + 1]} /\ UNCHANGED <<encoded, replies>>

(* The reply is written, and lost when its connection is gone. *)
Write(t, r) ==
    replies' = IF t = Copy(t.slot, client[t.slot])
               THEN replies \cup {[to |-> t, body |-> r]} ELSE replies

(* The reply of a COMPOUND that SEQUENCE does not let run: no session, an  *)
(* impossible seqid, or the answer to a resend.                            *)
Refusal(t) ==
    IF ~session THEN Told(t, "BadSession")
    ELSE IF SeqStatus(t.slot, Seqid(t.n)) = "Misordered" THEN Told(t, "SeqMisordered")
    ELSE IF slot[t.slot].cached = NoReply THEN Told(t, "RetryUncachedRep")
    ELSE IF t.req.big THEN Reply(t, "ReqTooBig", 1)
    ELSE slot[t.slot].cached

(* A copy is read and its SEQUENCE handled. *)
Sequence(t) ==
    /\ t \in wire
    /\ wire' = wire \ {t}
    /\ UNCHANGED <<session, client>>
    /\ IF session /\ SeqStatus(t.slot, Seqid(t.n)) = "New"
       THEN /\ Advance(t.slot, Seqid(t.n))
            /\ runs' = [runs EXCEPT ![t.slot][t.n] = @ + 1]
            /\ done' = [done EXCEPT ![t.slot][t.n] = 1]
            /\ overtaken' = overtaken \cup
                  {s \in {t.slot} : \E r \in running \cup encoded : r.task.slot = s}
            /\ After(t, 0, TRUE, running)
       ELSE /\ Write(t, Refusal(t))
            /\ UNCHANGED <<slot, running, encoded, runs, done, overtaken>>

(* One operation of a COMPOUND, which takes effect or fails. *)
Execute(r, ok) ==
    /\ r \in running
    /\ done' = IF ok THEN [done EXCEPT ![r.task.slot][r.task.n] = @ + 1] ELSE done
    /\ After(r.task, r.i, ok, running \ {r})
    /\ UNCHANGED <<session, slot, client, wire, runs, overtaken>>

(* Mutant: the reply is dropped with the session. *)
CacheSlotReplyNeedsSession(e) ==
    LET t == e.task IN
    /\ e \in encoded
    /\ encoded' = encoded \ {e}
    /\ slot' = IF session /\ t.req.cache THEN [slot EXCEPT ![t.slot].cached = e.reply] ELSE slot
    /\ IF session THEN Write(t, e.reply) ELSE UNCHANGED replies
    /\ UNCHANGED <<session, client, wire, running, runs, done, overtaken>>

(* cache_slot_reply, then the write.  The slot is found by session and     *)
(* slot id; a session destroyed meanwhile leaves nothing to cache in.      *)
CacheSlotReply(e) ==
    LET t == e.task
        fits == e.reply.kind # "Ok" \/ t.req.size = "cachable"  \* refusals are short
    IN /\ e \in encoded
       /\ encoded' = encoded \ {e}
       /\ slot' = IF session /\ t.req.cache /\ fits
                  THEN [slot EXCEPT ![t.slot].cached = e.reply] ELSE slot
       /\ Write(t, e.reply)
       /\ UNCHANGED <<session, client, wire, running, runs, done, overtaken>>

(* DESTROY_SESSION, or the teardown of the client. *)
DestroySession ==
    /\ session
    /\ session' = FALSE
    /\ UNCHANGED <<slot, client, wire, running, encoded, replies, runs, done, overtaken>>

Serve ==
    \/ \E t \in wire : Sequence(t)
    \/ \E r \in running, ok \in BOOLEAN : Execute(r, ok)
    \/ \E e \in encoded : CacheSlotReply(e)

Next ==
    \/ \E s \in Slots, q \in Requests : Send(s, q)
    \/ \E s \in Slots : Resend(s)
    \/ \E p \in replies : Accept(p)
    \/ Serve
    \/ DestroySession

(* The runtime keeps running the tasks it spawned, and what is written to  *)
(* the connection the client waits on reaches it.                          *)
Spec == /\ Init /\ [][Next]_vars
        /\ WF_vars(Serve)
        /\ WF_vars(\E p \in replies : Accept(p))

(***************************************************************************)
(* Properties.                                                             *)
(***************************************************************************)
Copies == [slot : Slots, n : UNION {DOMAIN runs[s] : s \in Slots}, copy : 1..MaxCopy, req : Requests]

(* The slots, the copies and the replies are what the code's types say,    *)
(* and no slot is ahead of its client.                                     *)
SlotsTypeOK ==
    /\ session \in BOOLEAN
    /\ \A s \in Slots : /\ slot[s].seq \in 0..Modulus - 1
                        /\ \E n \in 0..client[s].n : slot[s].seq = Seqid(n)
    /\ wire \subseteq Copies
    /\ \A r \in running : r.task \in Copies /\ r.i \in 1..r.task.req.ops - 1
    /\ \A e \in encoded : e.task \in Copies /\ e.reply.kind \in Ran
    /\ \A p \in replies : p.to \in Copies

(* process_sequence: whatever copies of it arrive, in whatever order and   *)
(* however late, a request runs at most once.                              *)
AtMostOnce == \A s \in Slots : \A n \in DOMAIN runs[s] : runs[s][n] <= 1

(* process_sequence: the client that counts its requests is never told     *)
(* that it miscounted, through the wrap of the seqids included.            *)
NeverMisordered == \A s \in Slots : client[s].answer.kind # "SeqMisordered"

Own(s) == client[s].answer.kind \in Ran => client[s].answer.n = client[s].n

(* The reply cache: on a slot that never moved on while a request was      *)
(* still running, the answer to a request is the reply of that request.    *)
OwnAnswer == \A s \in Slots \ overtaken : Own(s)

(* The COMPOUND loop: a reply that says its operations all succeeded, or   *)
(* that one failed, reports as many as took effect, also from the cache.   *)
(* (The reply of a COMPOUND over ca_maxoperations leaves out one that did: *)
(* the count is looked at after the operation.)                            *)
ToldWhatRan ==
    \A s \in Slots \ overtaken :
        client[s].answer.kind \in {"Ok", "Failed"}
            => client[s].answer.results = done[s][client[s].n]

(* A request that was sent is answered, whatever becomes of the session    *)
(* and of the copies on lost connections.                                  *)
Answered == \A s \in Slots : client[s].waiting ~> ~client[s].waiting

(* process_sequence: exactly-once, as far as the server can give it.       *)
SlotsInv == SlotsTypeOK /\ AtMostOnce

(* What a client is answered is true: it is the reply of its own request,  *)
(* it reports as many operations as took effect, and a client that counts  *)
(* its requests is not told that it miscounted.                            *)
TrueAnswer == OwnAnswer /\ ToldWhatRan /\ NeverMisordered

=============================================================================

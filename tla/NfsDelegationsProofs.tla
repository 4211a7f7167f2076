------------------------ MODULE NfsDelegationsProofs ------------------------
(***************************************************************************)
(* The safety of NfsDelegations for any clients, threads, stateids, quotas *)
(* and rungs.  Two inductive invariants: DelegIInv, of the fence and the   *)
(* entry it lives in, and on top of it TableIInv, of the counters, the     *)
(* indexes and what revoked clients are told.                              *)
(***************************************************************************)
EXTENDS NfsDelegations, FiniteSetTheorems, WellFoundedInduction, TLAPS

Parties == Clients \cup {Local}
LockOps == {"grant", "fence", "open"}
RunOps == {"opening", "mutating"}
GuardOps == {"drop", "release"}
CountOps == {"count", "revoked"}
OtherOps == {"gc", "revoke", "raise", "disown", "decide", "lower", "take", "strip", "forget"}
OpName == LockOps \cup RunOps \cup GuardOps \cup CountOps \cup OtherOps
OpRec == [op: OpName, sid: {0} \cup Sid, who: Parties]
Task == [todo: Seq(OpRec), arc: {0} \cup Entries, client: Parties]
Ladder == [at: {"none", "top", "blocked", "sent", "acked", "rung", "probe", "park", "listening",
                "parked"},
           first: BOOLEAN, disowned: BOOLEAN, rung: 0 .. Rungs + 1,
           out: BOOLEAN, fired: BOOLEAN]
Entry == [guards: Int, cool: {"no", "on", "past"}, dead: BOOLEAN]
Record == [client: Parties, st: {"none", "granted", "pending", "acked", "revoked"},
           ent: {0} \cup Entries]

Typed ==
  /\ cur \in {0} \cup Entries /\ ent \in [Entries -> Entry] /\ rec \in [Sid -> Record]
  /\ byStateid \subseteq Sid /\ byClient \in [Clients -> SUBSET Sid]
  /\ liveClient \in [Clients -> Nat] /\ liveGlobal \in Int
  /\ writers \subseteq Clients /\ marked \subseteq Sid /\ bit \subseteq Clients
  /\ gone \subseteq Clients /\ late \subseteq Clients /\ crossed \subseteq Clients
  /\ task \in [Actors -> Task] /\ ladder \in [Sid -> Ladder]

\* The work of one actor: a lock is taken by itself, a guard is given back
\* last, a mutation right before its guard, and what was taken off the
\* table is uncounted next.
TodoOK(q) ==
  /\ \A i \in 1 .. Len(q) : q[i].op \in LockOps => Len(q) = 1
  /\ \A i, j \in 1 .. Len(q) : q[i].op \in GuardOps /\ i < j => q[j].op = "gc"
  /\ \A i \in 1 .. Len(q) : q[i].op \in RunOps => i + 1 \in 1 .. Len(q) /\ q[i + 1].op = "release"
  /\ \A i \in 1 .. Len(q) : q[i].op \in CountOps => i = 1

Has(q, ops) == \E i \in 1 .. Len(q) : q[i].op \in ops

\* Who works in an entry holds it: a recall's task never does.
ArcOK(a) ==
  /\ task[a].arc # 0 <=> Has(task[a].todo, LockOps \cup GuardOps)
  /\ a \in Sid => ~ Has(task[a].todo, LockOps \cup GuardOps \cup RunOps)

\* What an operation is about.
NamesOK(q) ==
  \A i \in 1 .. Len(q) :
    /\ q[i].op \in {"revoke", "revoked", "disown", "strip"} => q[i].sid \in Sid
    /\ q[i].op \in {"count", "revoked", "raise", "decide", "lower", "take", "forget"} =>
          q[i].who \in Clients

\* What only a client asks for.
ClientOps == {"grant", "open", "opening"}

TasksOK == \A a \in Actors : /\ TodoOK(task[a].todo) /\ NamesOK(task[a].todo) /\ ArcOK(a)
                             /\ Has(task[a].todo, ClientOps) => task[a].client \in Clients

\* The map has the one entry that was not collected; the records are in it,
\* and in the index.
EntriesOK ==
  /\ \A i \in Entries : i = cur <=> ~ ent[i].dead
  /\ \A s \in Sid : Present(s) => /\ cur # 0 /\ rec[s].ent = cur
                                  /\ rec[s].client \in Clients
  /\ byStateid = {s \in Sid : Present(s)}

\* The threads that hold a guard of entry i.
Guards(i) == {t \in Threads : task[t].arc = i /\ Has(task[t].todo, GuardOps)}
GuardsOK ==
  /\ \A i \in Entries : ent[i].guards = Cardinality(Guards(i))
  /\ \A i \in Entries : Guards(i) # {} => i = cur

\* A guard bars grants, and those there were have been recalled.
BarredOK == \A t \in Threads : Has(task[t].todo, GuardOps) => \A s \in Sid : rec[s].st # "granted"

\* A mutation that is on its way has the revocation of every foreign
\* delegation before it.
Promised(t, s) ==
  \E i \in 1 .. Len(task[t].todo) : task[t].todo[i].op = "revoke" /\ task[t].todo[i].sid = s
PromiseOK ==
  \A t \in Threads : Has(task[t].todo, {"release"}) =>
    \A s \in Sid : Live(s) /\ rec[s].client # task[t].client => Promised(t, s)

WritersOK == writers # {} => \A s \in Sid : rec[s].st # "granted"

LaddersOK ==
  \A s \in Sid : /\ ladder[s].at = "parked" => ~ ladder[s].fired
                 /\ ladder[s].at = "none" => ~ ladder[s].first
                 /\ rec[s].st = "granted" => ladder[s].at = "none"

DelegIInv ==
  /\ Typed /\ TasksOK /\ EntriesOK /\ GuardsOK /\ BarredOK /\ PromiseOK /\ WritersOK /\ LaddersOK

-----------------------------------------------------------------------------
\* The counters and the announcements.

\* The actors that have taken a live record off and not uncounted it yet.
Owing == {a \in Actors : NextIs(a, "count") \/ NextIs(a, "revoked")}
LiveIn(P) == {s \in Sid : Live(s) /\ rec[s].client \in P}
OwingIn(P) == {a \in Owing : Who(a) \in P}

\* What the counters of the clients in P should come to.
Debt(P) == Cardinality(LiveIn(P)) + Cardinality(OwingIn(P))
CountOK == /\ liveGlobal = Debt(Clients)
           /\ \A c \in Clients \ gone : liveClient[c] = Debt({c})

\* What is marked revoked is a tombstone; the index by client has records of
\* that client.
MarkedOK == \A s \in marked : rec[s].st = "revoked"
IndexedOK == \A c \in Clients : \A s \in byClient[c] : Present(s) /\ rec[s].client = c

\* Only a teardown takes, strips and forgets.
OpTorn(o) == /\ o.op \in {"take", "forget"} => o.who \in gone
             /\ o.op = "strip" /\ Present(o.sid) => rec[o.sid].client \in gone
TornOK == \A a \in Actors : \A i \in 1 .. Len(task[a].todo) : OpTorn(task[a].todo[i])

\* What is on its way.
Pending(o, c) ==
  \E a \in Actors : \E i \in 1 .. Len(task[a].todo) :
     task[a].todo[i].op = o /\ task[a].todo[i].who = c
Stripping(s) ==
  \E a \in Actors : \E i \in 1 .. Len(task[a].todo) :
     task[a].todo[i].op = "strip" /\ task[a].todo[i].sid = s

\* A record is on the list of its client, or a teardown has it from there.
KnownOK ==
  \A s \in Sid : rec[s].st # "none" => s \in byClient[rec[s].client] \/ Stripping(s)

\* A bit that is about to go down tells of nothing the lowering did not see,
\* but of what was revoked since.
LowerOK ==
  \A s \in Sid : rec[s].st = "revoked" /\ Pending("lower", rec[s].client) =>
                    rec[s].client \in crossed \/ Stripping(s)

\* A revocation is announced, or its announcement is on its way.
Told(s) ==
  rec[s].client \in bit \cup crossed \/ Pending("raise", rec[s].client) \/ Stripping(s)
ToldOK == KnownOK /\ LowerOK /\ \A s \in Sid : rec[s].st = "revoked" => Told(s)

\* A teardown gets everything its client had before it.
Of(c) == {s \in Sid : Present(s) /\ rec[s].client = c}
Torn(c) == \/ Pending("take", c) /\ Of(c) \subseteq byClient[c]
           \/ byClient[c] = {} /\ \A s \in Of(c) : Stripping(s)
Forgot(c) == Pending("forget", c) \/ liveClient[c] = 0
TeardownOK ==
  \A c \in Clients \ late : /\ c \notin gone => Of(c) \subseteq byClient[c]
                            /\ c \in gone => Torn(c) /\ Forgot(c)

TableIInv == CountOK /\ MarkedOK /\ IndexedOK /\ TornOK /\ ToldOK /\ TeardownOK

-----------------------------------------------------------------------------
(* What is on an actor's list after a step of it. *)

\* r is q without its first element and with ops before the rest.
Pushed(r, q, ops) ==
  /\ Len(r) = Len(ops) + Len(q) - 1
  /\ \A i \in 1 .. Len(ops) : r[i] = ops[i]
  /\ \A i \in 1 .. Len(r) : i > Len(ops) => r[i] = q[i - Len(ops) + 1]
  /\ \A j \in 2 .. Len(q) : j - 1 + Len(ops) \in 1 .. Len(r) /\ r[j - 1 + Len(ops)] = q[j]

LEMMA SeqPushed ==
  ASSUME NEW T, NEW q \in Seq(T), q # <<>>, NEW ops \in Seq(T)
  PROVE  ops \o Tail(q) \in Seq(T) /\ Pushed(ops \o Tail(q), q, ops)
<1>1. Tail(q) \in Seq(T) /\ Len(Tail(q)) = Len(q) - 1 /\ Len(q) \in Nat /\ Len(q) > 0
  OBVIOUS
<1>2. \A i \in 1 .. Len(q) - 1 : Tail(q)[i] = q[i + 1]
  OBVIOUS
<1>3. Len(ops) \in Nat OBVIOUS
<1>4. \A r : r = ops \o Tail(q) => r \in Seq(T) /\ Len(r) = Len(ops) + Len(Tail(q))
  BY <1>1
<1>5. \A i \in 1 .. Len(ops) : (ops \o Tail(q))[i] = ops[i]
  BY <1>1, <1>3
<1>6. \A i \in 1 .. Len(ops) + Len(Tail(q)) :
         i > Len(ops) => (ops \o Tail(q))[i] = Tail(q)[i - Len(ops)]
  BY <1>1, <1>3
<1> DEFINE r == ops \o Tail(q)
<1>7. r \in Seq(T) /\ Len(r) = Len(ops) + Len(q) - 1 BY <1>1, <1>3, <1>4
<1>8. \A i \in 1 .. Len(r) : i > Len(ops) => r[i] = q[i - Len(ops) + 1]
  BY <1>1, <1>2, <1>3, <1>6, <1>7
<1>9. \A j \in 2 .. Len(q) : j - 1 + Len(ops) \in 1 .. Len(r) /\ r[j - 1 + Len(ops)] = q[j]
  BY <1>1, <1>3, <1>7, <1>8
<1> QED BY <1>5, <1>7, <1>8, <1>9 DEF Pushed

LEMMA FirstIsHead ==
  ASSUME NEW T, NEW q \in Seq(T), q # <<>>
  PROVE  Head(q) = q[1] /\ 1 \in 1 .. Len(q) /\ Len(q) \in Nat
  OBVIOUS

LEMMA EmptyLen ==
  ASSUME NEW T, NEW q \in Seq(T)
  PROVE  Len(q) \in Nat /\ (q = <<>> <=> Len(q) = 0)
  OBVIOUS

\* The actor a goes on to r.
WentOn(a, r) ==
  /\ \A b \in Actors : b # a => task'[b] = task[b]
  /\ task' \in [Actors -> Task]
  /\ task'[a].todo = r
  /\ r # <<>> => task'[a].arc = task[a].arc /\ task'[a].client = task[a].client
  /\ r = <<>> => task'[a].arc = 0

LEMMA ThenWentOn ==
  ASSUME Typed, NEW a \in Actors, ~ Idle(a), NEW ops \in Seq(OpRec), Then(a, ops)
  PROVE  \E r \in Seq(OpRec) : WentOn(a, r) /\ Pushed(r, task[a].todo, ops)
<1> DEFINE q == task[a].todo
           r == ops \o Tail(q)
<1>1. task \in [Actors -> Task] /\ task[a] \in Task BY DEF Typed
<1>2. q \in Seq(OpRec) /\ q # <<>> BY <1>1 DEF Task, Idle
<1>3. r \in Seq(OpRec) /\ Pushed(r, q, ops) BY <1>2, SeqPushed
<1>4. task' = [task EXCEPT ![a] = IF r = <<>> THEN NoTask ELSE [task[a] EXCEPT !.todo = r]]
  BY DEF Then
<1> HIDE DEF r, q
<1>5. NoTask \in Task /\ NoTask.todo = <<>> /\ NoTask.arc = 0
  BY DEF NoTask, Task, Parties
<1>6. LET k == [task[a] EXCEPT !.todo = r] IN
      k \in Task /\ k.todo = r /\ k.arc = task[a].arc /\ k.client = task[a].client
  BY <1>1, <1>3 DEF Task
<1>7. WentOn(a, r)
  BY <1>1, <1>4, <1>5, <1>6 DEF WentOn
<1> QED BY <1>3, <1>7 DEF q

\* What goes before the rest of a list without changing what follows.
Frontal(ops) ==
  /\ NamesOK(ops)
  /\ \A i \in 1 .. Len(ops) : /\ ops[i].op \notin LockOps \cup GuardOps \cup RunOps
                              /\ ops[i].op \in CountOps => i = 1

\* Lists of operations that none of the guards and locks are among.
LEMMA PushedOK ==
  ASSUME NEW q \in Seq(OpRec), q # <<>>, TodoOK(q), NamesOK(q),
         q[1].op \notin LockOps \cup GuardOps,
         NEW ops \in Seq(OpRec), Frontal(ops), NEW r \in Seq(OpRec), Pushed(r, q, ops)
  PROVE  /\ TodoOK(r) /\ NamesOK(r)
         /\ Has(r, LockOps) <=> Has(q, LockOps)
         /\ Has(r, GuardOps) <=> Has(q, GuardOps)
         /\ Has(r, {"release"}) <=> Has(q, {"release"})
         /\ Has(r, RunOps) => Has(q, RunOps)
         /\ Has(r, ClientOps) => Has(q, ClientOps)
         /\ ~ Has(r, LockOps)
<1>0. Len(q) \in Nat /\ Len(q) > 0 /\ Len(ops) \in Nat /\ Len(r) \in Nat
  BY EmptyLen
<1>1. \A i \in 1 .. Len(r) : \/ i \in 1 .. Len(ops) /\ r[i] = ops[i]
                             \/ /\ i > Len(ops) /\ r[i] = q[i - Len(ops) + 1]
                                /\ i - Len(ops) + 1 \in 2 .. Len(q)
  <2> SUFFICES ASSUME NEW i \in 1 .. Len(r)
               PROVE  \/ i \in 1 .. Len(ops) /\ r[i] = ops[i]
                      \/ /\ i > Len(ops) /\ r[i] = q[i - Len(ops) + 1]
                         /\ i - Len(ops) + 1 \in 2 .. Len(q)
    OBVIOUS
  <2>1. Len(r) = Len(ops) + Len(q) - 1 BY DEF Pushed
  <2>2. i > Len(ops) => r[i] = q[i - Len(ops) + 1] BY DEF Pushed
  <2>3. i \in 1 .. Len(ops) => r[i] = ops[i] BY DEF Pushed
  <2>4. i \in 1 .. Len(ops) \/ (i > Len(ops) /\ i - Len(ops) + 1 \in 2 .. Len(q))
    BY <1>0, <2>1
  <2> QED BY <2>2, <2>3, <2>4
<1>2. \A j \in 2 .. Len(q) : j - 1 + Len(ops) \in 1 .. Len(r) /\ r[j - 1 + Len(ops)] = q[j]
  BY DEF Pushed
<1>3. \A j \in 1 .. Len(q) : j = 1 \/ j \in 2 .. Len(q)
  BY <1>0
<1>4. ~ Has(q, LockOps)
  BY <1>0, <1>3 DEF Has, TodoOK
<1>5. \A X \in {LockOps, GuardOps, {"release"}, RunOps, ClientOps} : Has(r, X) => Has(q, X)
  <2> SUFFICES ASSUME NEW X \in {LockOps, GuardOps, {"release"}, RunOps, ClientOps},
                      NEW i \in 1 .. Len(r), r[i].op \in X
               PROVE  Has(q, X)
    BY DEF Has
  <2>1. ~ (i \in 1 .. Len(ops) /\ r[i] = ops[i])
    BY DEF Frontal, LockOps, GuardOps, RunOps, ClientOps
  <2>2. i - Len(ops) + 1 \in 1 .. Len(q) /\ q[i - Len(ops) + 1].op \in X
    BY <1>0, <1>1, <2>1
  <2> QED BY <2>2 DEF Has
<1>6. \A X \in {GuardOps, {"release"}} : Has(q, X) => Has(r, X)
  <2> SUFFICES ASSUME NEW X \in {GuardOps, {"release"}}, NEW j \in 1 .. Len(q), q[j].op \in X
               PROVE  Has(r, X)
    BY DEF Has
  <2>1. q[j].op \in GuardOps
    <3>1. CASE X = GuardOps BY <3>1
    <3>2. CASE X = {"release"} BY <3>2 DEF GuardOps
    <3> QED BY <3>1, <3>2
  <2>2. j # 1 BY <2>1
  <2> QED BY <1>2, <1>3, <2>2 DEF Has
<1>7. ~ Has(r, LockOps) BY <1>4, <1>5
<1>8. NamesOK(r)
  <2> DEFINE N(o) == /\ o.op \in {"revoke", "revoked", "disown", "strip"} => o.sid \in Sid
                     /\ o.op \in {"count", "revoked", "raise", "decide", "lower", "take", "forget"}
                           => o.who \in Clients
  <2>1. \A i \in 1 .. Len(q) : N(q[i]) BY DEF NamesOK
  <2>2. \A i \in 1 .. Len(ops) : N(ops[i]) BY DEF NamesOK, Frontal
  <2> HIDE DEF N
  <2>3. \A i \in 1 .. Len(r) : N(r[i]) BY <1>0, <1>1, <2>1, <2>2
  <2> QED BY <2>3 DEF N, NamesOK
<1>9. \A i, j \in 1 .. Len(r) : r[i].op \in GuardOps /\ i < j => r[j].op = "gc"
  <2> SUFFICES ASSUME NEW i \in 1 .. Len(r), NEW j \in 1 .. Len(r), r[i].op \in GuardOps, i < j
               PROVE  r[j].op = "gc"
    OBVIOUS
  <2>1. i > Len(ops) /\ r[i] = q[i - Len(ops) + 1] /\ i - Len(ops) + 1 \in 2 .. Len(q)
    BY <1>1 DEF Frontal
  <2>2. ~ j \in 1 .. Len(ops) BY <1>0, <2>1
  <2>3. r[j] = q[j - Len(ops) + 1] /\ j - Len(ops) + 1 \in 2 .. Len(q)
    BY <1>1, <2>2
  <2>4. \A g, h \in 1 .. Len(q) : q[g].op \in GuardOps /\ g < h => q[h].op = "gc"
    BY DEF TodoOK
  <2>5. i - Len(ops) + 1 < j - Len(ops) + 1 BY <1>0
  <2> QED BY <1>0, <2>1, <2>3, <2>4, <2>5
<1>10. \A i \in 1 .. Len(r) : r[i].op \in RunOps => i + 1 \in 1 .. Len(r) /\ r[i + 1].op = "release"
  <2> SUFFICES ASSUME NEW i \in 1 .. Len(r), r[i].op \in RunOps
               PROVE  i + 1 \in 1 .. Len(r) /\ r[i + 1].op = "release"
    OBVIOUS
  <2> DEFINE j == i - Len(ops) + 1
  <2>1. j \in 2 .. Len(q) /\ q[j].op \in RunOps
    BY <1>0, <1>1 DEF Frontal
  <2>2. j + 1 \in 2 .. Len(q) /\ q[j + 1].op = "release"
    BY <1>0, <2>1 DEF TodoOK
  <2>3. j + 1 - 1 + Len(ops) = i + 1 BY <1>0
  <2> QED BY <1>2, <2>2, <2>3
<1>11. \A i \in 1 .. Len(r) : r[i].op \in CountOps => i = 1
  <2> SUFFICES ASSUME NEW i \in 1 .. Len(r), r[i].op \in CountOps PROVE i = 1
    OBVIOUS
  <2>1. CASE i \in 1 .. Len(ops) /\ r[i] = ops[i] BY <2>1 DEF Frontal
  <2>2. CASE r[i] = q[i - Len(ops) + 1] /\ i - Len(ops) + 1 \in 2 .. Len(q)
    BY <1>0, <2>2 DEF TodoOK
  <2> QED BY <1>1, <2>1, <2>2
<1>12. \A i \in 1 .. Len(r) : r[i].op \in LockOps => Len(r) = 1
  BY <1>7 DEF Has
<1>13. TodoOK(r) BY <1>9, <1>10, <1>11, <1>12 DEF TodoOK
<1> QED BY <1>4, <1>5, <1>6, <1>7, <1>8, <1>13

LEMMA HasUnion ==
  ASSUME NEW q, NEW X, NEW Y
  PROVE  Has(q, X \cup Y) <=> Has(q, X) \/ Has(q, Y)
  BY DEF Has

LEMMA TaskParts ==
  ASSUME Typed, NEW a \in Actors
  PROVE  /\ task[a] \in Task /\ task[a].todo \in Seq(OpRec)
         /\ Len(task[a].todo) \in Nat
         /\ ~ Idle(a) => /\ Head(task[a].todo) = task[a].todo[1]
                         /\ 1 \in 1 .. Len(task[a].todo) /\ task[a].todo[1] \in OpRec
         /\ Idle(a) => Len(task[a].todo) = 0
<1>1. task[a] \in Task /\ task[a].todo \in Seq(OpRec) BY DEF Typed, Task
<1> DEFINE q == task[a].todo
<1>2. q \in Seq(OpRec) BY <1>1
<1> HIDE DEF q
<1>3. Len(q) \in Nat /\ (q = <<>> => Len(q) = 0) BY <1>2
<1>4. q # <<>> => Head(q) = q[1] /\ 1 \in 1 .. Len(q) /\ q[1] \in OpRec BY <1>2
<1> QED BY <1>1, <1>3, <1>4 DEF q, Idle

\* What a step of an actor that neither locks nor gives a guard back leaves
\* of the tasks.
Kept(a) ==
  /\ task' \in [Actors -> Task] /\ TasksOK'
  /\ \A b \in Actors : b # a => task'[b] = task[b]
  /\ \A b \in Actors : /\ Has(task'[b].todo, GuardOps) <=> Has(task[b].todo, GuardOps)
                       /\ Has(task'[b].todo, {"release"}) <=> Has(task[b].todo, {"release"})
                       /\ Has(task[b].todo, GuardOps) =>
                             task'[b].arc = task[b].arc /\ task'[b].client = task[b].client
  /\ \A i \in Entries : Guards(i)' = Guards(i)

LEMMA GuardsKept ==
  ASSUME \A b \in Threads : /\ Has(task'[b].todo, GuardOps) <=> Has(task[b].todo, GuardOps)
                            /\ Has(task[b].todo, GuardOps) => task'[b].arc = task[b].arc
  PROVE  \A i \in Entries : Guards(i)' = Guards(i)
  BY DEF Guards

LEMMA WorkedKept ==
  ASSUME Typed, TasksOK, NEW a \in Actors, ~ Idle(a),
         task[a].todo[1].op \notin LockOps \cup GuardOps,
         NEW ops \in Seq(OpRec), Frontal(ops), Then(a, ops)
  PROVE  /\ Kept(a)
         /\ Pushed(task'[a].todo, task[a].todo, ops) /\ task'[a].todo \in Seq(OpRec)
<1> DEFINE q == task[a].todo
<1>1. PICK r \in Seq(OpRec) : WentOn(a, r) /\ Pushed(r, q, ops)
  BY ThenWentOn
<1>2. q \in Seq(OpRec) /\ q # <<>> BY TaskParts DEF Idle
<1>3. TodoOK(q) /\ NamesOK(q) /\ ArcOK(a) BY DEF TasksOK
<1>4. /\ TodoOK(r) /\ NamesOK(r)
      /\ Has(r, GuardOps) <=> Has(q, GuardOps)
      /\ Has(r, {"release"}) <=> Has(q, {"release"})
      /\ Has(r, RunOps) => Has(q, RunOps)
      /\ Has(r, ClientOps) => Has(q, ClientOps)
      /\ ~ Has(r, LockOps) /\ ~ Has(q, LockOps)
  BY <1>1, <1>2, <1>3, PushedOK
<1>5. task'[a].todo = r BY <1>1 DEF WentOn
<1>6. /\ r # <<>> => task'[a].arc = task[a].arc /\ task'[a].client = task[a].client
      /\ r = <<>> => task'[a].arc = 0
  BY <1>1 DEF WentOn
<1>7. \A b \in Actors : b # a => task'[b] = task[b] BY <1>1 DEF WentOn
<1>8. task' \in [Actors -> Task] BY <1>1 DEF WentOn
<1>9. r = <<>> => ~ Has(r, GuardOps) BY DEF Has
<1>10. ArcOK(a)'
  <2>1. task'[a].arc # 0 <=> Has(task'[a].todo, LockOps \cup GuardOps)
    <3>1. task[a].arc # 0 <=> Has(q, GuardOps) BY <1>3, <1>4, HasUnion DEF ArcOK
    <3>2. Has(r, LockOps \cup GuardOps) <=> Has(r, GuardOps) BY <1>4, HasUnion
    <3> QED BY <1>4, <1>5, <1>6, <1>9, <3>1, <3>2
  <2>2. a \in Sid => ~ Has(task'[a].todo, LockOps \cup GuardOps \cup RunOps)
    <3>1. a \in Sid => ~ Has(q, GuardOps) /\ ~ Has(q, RunOps)
      BY <1>3, HasUnion DEF ArcOK
    <3> QED BY <1>4, <1>5, <3>1, HasUnion
  <2> QED BY <2>1, <2>2 DEF ArcOK
<1>11. Has(r, ClientOps) => task'[a].client \in Clients
  <2>1. r = <<>> => ~ Has(r, ClientOps) BY DEF Has
  <2> QED BY <1>4, <1>6, <2>1 DEF TasksOK
<1>12. TasksOK'
  <2> SUFFICES ASSUME NEW b \in Actors
               PROVE  /\ TodoOK(task'[b].todo) /\ NamesOK(task'[b].todo) /\ ArcOK(b)'
                      /\ Has(task'[b].todo, ClientOps) => task'[b].client \in Clients
    BY DEF TasksOK
  <2>1. CASE b = a BY <1>4, <1>5, <1>10, <1>11, <2>1
  <2>2. CASE b # a
    <3>1. task'[b] = task[b] BY <1>7, <2>2
    <3> QED BY <3>1 DEF TasksOK, ArcOK
  <2> QED BY <2>1, <2>2
<1>13. \A b \in Actors : /\ Has(task'[b].todo, GuardOps) <=> Has(task[b].todo, GuardOps)
                         /\ Has(task'[b].todo, {"release"}) <=> Has(task[b].todo, {"release"})
                         /\ Has(task[b].todo, GuardOps) =>
                               task'[b].arc = task[b].arc /\ task'[b].client = task[b].client
  BY <1>4, <1>5, <1>6, <1>7, <1>9
<1>14. \A i \in Entries : Guards(i)' = Guards(i)
  BY <1>13, GuardsKept DEF Actors
<1> QED BY <1>1, <1>5, <1>7, <1>8, <1>12, <1>13, <1>14 DEF Kept

\* A list with no guard on it gives way to another one.
LEMMA ReplacedKept ==
  ASSUME Typed, TasksOK, NEW a \in Actors, ~ Has(task[a].todo, GuardOps),
         NEW k \in Task, task' = [task EXCEPT ![a] = k],
         TodoOK(k.todo), NamesOK(k.todo), ~ Has(k.todo, GuardOps),
         k.arc # 0 <=> Has(k.todo, LockOps),
         a \in Sid => ~ Has(k.todo, LockOps) /\ ~ Has(k.todo, RunOps),
         Has(k.todo, ClientOps) => k.client \in Clients
  PROVE  Kept(a)
<1>0. task \in [Actors -> Task] BY DEF Typed
<1>1. task' \in [Actors -> Task] /\ task'[a] = k /\ \A b \in Actors : b # a => task'[b] = task[b]
  BY <1>0
<1>2. ~ Has(task[a].todo, {"release"}) /\ ~ Has(k.todo, {"release"}) BY DEF Has, GuardOps
<1>3. ArcOK(a)'
  BY <1>1, HasUnion DEF ArcOK
<1>4. TasksOK'
  <2> SUFFICES ASSUME NEW b \in Actors
               PROVE  /\ TodoOK(task'[b].todo) /\ NamesOK(task'[b].todo) /\ ArcOK(b)'
                      /\ Has(task'[b].todo, ClientOps) => task'[b].client \in Clients
    BY DEF TasksOK
  <2>1. CASE b = a BY <1>1, <1>3, <2>1
  <2>2. CASE b # a
    <3>1. task'[b] = task[b] BY <1>1, <2>2
    <3> QED BY <3>1 DEF TasksOK, ArcOK
  <2> QED BY <2>1, <2>2
<1>5. \A b \in Actors : /\ Has(task'[b].todo, GuardOps) <=> Has(task[b].todo, GuardOps)
                        /\ Has(task'[b].todo, {"release"}) <=> Has(task[b].todo, {"release"})
                        /\ Has(task[b].todo, GuardOps) =>
                              task'[b].arc = task[b].arc /\ task'[b].client = task[b].client
  BY <1>1, <1>2
<1>6. \A i \in Entries : Guards(i)' = Guards(i)
  BY <1>5, GuardsKept DEF Actors
<1> QED BY <1>1, <1>4, <1>5, <1>6 DEF Kept

\* A list of harmless operations.
LEMMA FrontalOK ==
  ASSUME NEW ops \in Seq(OpRec), Frontal(ops)
  PROVE  /\ TodoOK(ops) /\ NamesOK(ops)
         /\ ~ Has(ops, LockOps) /\ ~ Has(ops, GuardOps) /\ ~ Has(ops, RunOps)
         /\ ~ Has(ops, ClientOps)
<1>1. ~ Has(ops, LockOps) /\ ~ Has(ops, GuardOps) /\ ~ Has(ops, RunOps)
  BY DEF Frontal, Has
<1>2. TodoOK(ops) BY <1>1 DEF Frontal, TodoOK, Has
<1>3. ~ Has(ops, ClientOps) BY <1>1 DEF Has, LockOps, RunOps, ClientOps
<1> QED BY <1>1, <1>2, <1>3 DEF Frontal

LEMMA IdleHas ==
  ASSUME Typed, TasksOK, NEW a \in Actors, Idle(a)
  PROVE  /\ \A X : ~ Has(task[a].todo, X)
         /\ task[a].arc = 0
<1>1. Len(task[a].todo) = 0 BY TaskParts
<1>2. \A X : ~ Has(task[a].todo, X) BY <1>1 DEF Has
<1> QED BY <1>2 DEF TasksOK, ArcOK

LEMMA BegunKept ==
  ASSUME Typed, TasksOK, NEW t \in Threads, NEW c \in Parties, NEW ops \in Seq(OpRec),
         Frontal(ops), Begin(t, c, ops)
  PROVE  Kept(t) /\ task'[t].todo = ops /\ Idle(t)
<1>1. t \in Actors /\ Idle(t) BY DEF Actors, Begin
<1>2. ~ Has(task[t].todo, GuardOps) BY <1>1, IdleHas
<1> DEFINE k == Asked(c, ops)
<1>3. k \in Task /\ k.todo = ops /\ k.arc = 0 BY DEF Asked, Task, Parties
<1>4. task' = [task EXCEPT ![t] = k] BY DEF Begin
<1> HIDE DEF k
<1>5. Kept(t) BY <1>1, <1>2, <1>3, <1>4, FrontalOK, ReplacedKept
<1>6. task'[t] = k BY <1>1, <1>4 DEF Typed
<1> QED BY <1>1, <1>3, <1>5, <1>6

LEMMA EndedKept ==
  ASSUME Typed, TasksOK, NEW s \in Sid, Idle(s), NEW ops \in Seq(OpRec), Frontal(ops),
         task' = [task EXCEPT ![s].todo = ops]
  PROVE  Kept(s) /\ task'[s].todo = ops
<1>1. s \in Actors BY DEF Actors
<1>2. ~ Has(task[s].todo, GuardOps) /\ task[s].arc = 0 BY <1>1, IdleHas
<1> DEFINE k == [task[s] EXCEPT !.todo = ops]
<1>3. k \in Task /\ k.todo = ops /\ k.arc = 0 BY <1>1, <1>2, TaskParts DEF Task
<1>4. task' = [task EXCEPT ![s] = k] OBVIOUS
<1> HIDE DEF k
<1>5. Kept(s) BY <1>1, <1>2, <1>3, <1>4, FrontalOK, ReplacedKept
<1>6. task'[s] = k BY <1>1, <1>4 DEF Typed
<1> QED BY <1>3, <1>5, <1>6

-----------------------------------------------------------------------------
(* The file's entry. *)

\* A thread holds one entry at most: there is always one that nobody holds.
LEMMA FreshEntry ==
  ASSUME Typed, TasksOK
  PROVE  \E i \in Entries : \A a \in Actors : task[a].arc # i
<1> SUFFICES ASSUME \A i \in Entries : \E a \in Actors : task[a].arc = i PROVE FALSE
  OBVIOUS
<1>1. IsFiniteSet(Threads) BY DelegAssumption
<1>2. Cardinality(Threads) \in Nat BY <1>1, FS_CardinalityType
<1>3. IsFiniteSet(Entries) /\ Cardinality(Entries) = Cardinality(Threads) + 1
  BY <1>2, FS_Interval DEF Entries
<1> DEFINE Arcs == {task[t].arc : t \in Threads}
<1>4. IsFiniteSet(Arcs) /\ Cardinality(Arcs) <= Cardinality(Threads)
  <2> DEFINE f == [t \in Threads |-> task[t].arc]
  <2>1. f \in Surjection(Threads, Arcs) BY DEF Surjection
  <2> QED BY <1>1, <2>1, FS_Surjection
<1>5. Entries \subseteq Arcs
  <2> SUFFICES ASSUME NEW i \in Entries PROVE i \in Arcs
    OBVIOUS
  <2>1. PICK a \in Actors : task[a].arc = i OBVIOUS
  <2>2. i # 0 BY <1>2 DEF Entries
  <2>3. Has(task[a].todo, LockOps \cup GuardOps) BY <2>1, <2>2 DEF TasksOK, ArcOK
  <2>4. a \notin Sid BY <2>3, HasUnion DEF TasksOK, ArcOK
  <2> QED BY <2>1, <2>4 DEF Actors
<1>6. Cardinality(Entries) <= Cardinality(Arcs) BY <1>4, <1>5, FS_Subset
<1>7. Cardinality(Arcs) \in Nat BY <1>4, FS_CardinalityType
<1> QED BY <1>2, <1>3, <1>4, <1>6, <1>7

\* What Enter does to the map.
Entered(t, k) ==
  /\ cur' \in Entries /\ task' = [task EXCEPT ![t] = [k EXCEPT !.arc = cur']]
  /\ cur # 0 => cur' = cur /\ ent' = ent
  /\ cur = 0 => /\ ent' = [ent EXCEPT ![cur'] = NewEntry]
                /\ \A a \in Actors : task[a].arc # cur'

LEMMA EnterIs ==
  ASSUME Typed, TasksOK, NEW t \in Threads, NEW k, Enter(t, k)
  PROVE  Entered(t, k)
<1> DEFINE f == CHOOSE i \in Entries : \A a \in Actors : task[a].arc # i
<1>1. f \in Entries /\ \A a \in Actors : task[a].arc # f BY FreshEntry
<1>2. /\ cur' = IF cur = 0 THEN f ELSE cur
      /\ ent' = IF cur = 0 THEN [ent EXCEPT ![cur'] = NewEntry] ELSE ent
      /\ task' = [task EXCEPT ![t] = [k EXCEPT !.arc = cur']]
  BY DEF Enter
<1> HIDE DEF f
<1>3. cur \in {0} \cup Entries BY DEF Typed
<1> QED BY <1>1, <1>2, <1>3 DEF Entered

\* A request that locks the entry.
LEMMA EnteredKept ==
  ASSUME Typed, TasksOK, NEW t \in Threads, ~ Has(task[t].todo, GuardOps),
         NEW k \in Task, NEW o \in LockOps, Len(k.todo) = 1, k.todo[1].op = o,
         o \in ClientOps => k.client \in Clients,
         Entered(t, k)
  PROVE  Kept(t) /\ task'[t].todo = k.todo
<1> DEFINE e == [k EXCEPT !.arc = cur']
<1>0. cur' \in Entries /\ task' = [task EXCEPT ![t] = e] BY DEF Entered
<1>1. e \in Task /\ e.todo = k.todo /\ e.arc = cur' /\ e.client = k.client
  BY <1>0 DEF Task
<1>2. cur' # 0
  <2>1. Cardinality(Threads) \in Nat BY DelegAssumption, FS_CardinalityType
  <2> QED BY <1>0, <2>1 DEF Entries
<1> HIDE DEF e
<1> DEFINE q == e.todo
<1>3. q \in Seq(OpRec) /\ Len(q) = 1 /\ q[1].op \in LockOps BY <1>1 DEF Task
<1>4. \A i \in 1 .. Len(q) : i = 1 BY <1>3
<1>5. q[1].op \notin GuardOps \cup RunOps \cup CountOps
  BY <1>3 DEF LockOps, GuardOps, RunOps, CountOps
<1>6. Has(q, LockOps) /\ ~ Has(q, GuardOps) /\ ~ Has(q, RunOps)
  BY <1>3, <1>4, <1>5 DEF Has
<1>7. TodoOK(q)
  BY <1>3, <1>4, <1>5 DEF TodoOK
<1>8. NamesOK(q)
  BY <1>3, <1>4 DEF NamesOK, LockOps
<1>10. t \in Actors /\ t \notin Sid BY ActorAssumption DEF Actors
<1>11. Has(q, ClientOps) => e.client \in Clients BY <1>1, <1>4 DEF Has
<1>12. e.arc # 0 <=> Has(q, LockOps) BY <1>1, <1>2, <1>6
<1>13. Kept(t)
  BY <1>0, <1>1, <1>6, <1>7, <1>8, <1>10, <1>11, <1>12, ReplacedKept
<1>14. task'[t] = e BY <1>0, <1>10 DEF Typed
<1> QED BY <1>1, <1>13, <1>14

-----------------------------------------------------------------------------
(* Steps that take off the table or leave it as it is. *)

\* No record is added, recalled or given a new holder, and the entry stays.
Shrunk ==
  /\ cur' = cur
  /\ \A i \in Entries : ent'[i].guards = ent[i].guards /\ ent'[i].dead = ent[i].dead
  /\ \A s \in Sid : rec'[s].st # "none" => /\ rec[s].st # "none"
                                           /\ rec'[s].ent = rec[s].ent
                                           /\ rec'[s].client = rec[s].client
  /\ \A s \in Sid : rec'[s].st = "granted" => rec[s].st = "granted"
  /\ \A s \in Sid : Live(s)' => Live(s)
  /\ byStateid' = {s \in Sid : rec'[s].st # "none"}

\* What a mutation has before it is still there, or is not live any more.
PromisesKept ==
  \A t \in Threads : Has(task[t].todo, {"release"}) =>
     \A s \in Sid : Live(s)' /\ Promised(t, s) => Promised(t, s)'

LEMMA ShrunkOK ==
  ASSUME DelegIInv, Shrunk, PromisesKept, NEW a, Kept(a),
         writers' # {} => writers # {} \/ \A s \in Sid : rec[s].st # "granted",
         Typed', LaddersOK'
  PROVE  DelegIInv'
<1>1. EntriesOK'
  BY DEF DelegIInv, EntriesOK, Shrunk, Present
<1>2. GuardsOK'
  <2>1. \A i \in Entries : Guards(i)' = Guards(i) BY DEF Kept
  <2> QED BY <2>1 DEF DelegIInv, GuardsOK, Shrunk
<1>3. \A t \in Threads : /\ Has(task'[t].todo, GuardOps) <=> Has(task[t].todo, GuardOps)
                         /\ Has(task'[t].todo, {"release"}) <=> Has(task[t].todo, {"release"})
                         /\ Has(task[t].todo, GuardOps) => task'[t].client = task[t].client
  BY DEF Kept, Actors
<1>4. BarredOK'
  BY <1>3 DEF DelegIInv, BarredOK, Shrunk
<1>5. \A t \in Threads : Has(task[t].todo, {"release"}) => Has(task[t].todo, GuardOps)
  BY DEF Has, GuardOps
<1>6. PromiseOK'
  <2> SUFFICES ASSUME NEW t \in Threads, Has(task'[t].todo, {"release"}), NEW s \in Sid,
                      Live(s)', rec'[s].client # task'[t].client
               PROVE  Promised(t, s)'
    BY DEF PromiseOK
  <2>1. Has(task[t].todo, {"release"}) /\ task'[t].client = task[t].client BY <1>3, <1>5
  <2>2. Live(s) /\ rec[s].client # task[t].client BY <2>1 DEF Shrunk, Live
  <2>3. Promised(t, s) BY <2>1, <2>2 DEF DelegIInv, PromiseOK
  <2> QED BY <2>1, <2>3 DEF PromisesKept
<1>7. WritersOK'
  BY DEF DelegIInv, WritersOK, Shrunk
<1>8. TasksOK' BY DEF Kept
<1> QED BY <1>1, <1>2, <1>4, <1>6, <1>7, <1>8 DEF DelegIInv

\* An operation that is not a revocation keeps the ones that are to come.
LEMMA WorkedPromises ==
  ASSUME Typed, NEW a \in Actors, ~ Idle(a), task[a].todo[1].op # "revoke", NEW ops \in Seq(OpRec),
         Pushed(task'[a].todo, task[a].todo, ops), Kept(a)
  PROVE  PromisesKept
<1> SUFFICES ASSUME NEW t \in Threads, NEW s \in Sid, Promised(t, s) PROVE Promised(t, s)'
  BY DEF PromisesKept
<1>1. CASE t # a
  <2>1. task'[t] = task[t] BY <1>1 DEF Kept, Actors
  <2> QED BY <2>1 DEF Promised
<1>2. CASE t = a
  <2>1. PICK j \in 1 .. Len(task[a].todo) : task[a].todo[j].op = "revoke" /\ task[a].todo[j].sid = s
    BY <1>2 DEF Promised
  <2>2. j # 1 BY <2>1
  <2>3. Len(task[a].todo) \in Nat BY TaskParts
  <2>4. j \in 2 .. Len(task[a].todo) BY <2>2, <2>3
  <2>5. /\ j - 1 + Len(ops) \in 1 .. Len(task'[a].todo)
        /\ task'[a].todo[j - 1 + Len(ops)] = task[a].todo[j]
    BY <2>4 DEF Pushed
  <2> QED BY <1>2, <2>1, <2>5 DEF Promised
<1> QED BY <1>1, <1>2

\* An actor whose list had no guard on it made no promise.
LEMMA ReplacedPromises ==
  ASSUME NEW a \in Actors, ~ Has(task[a].todo, GuardOps), Kept(a)
  PROVE  PromisesKept
<1> SUFFICES ASSUME NEW t \in Threads, Has(task[t].todo, {"release"}), NEW s \in Sid, Promised(t, s)
             PROVE  Promised(t, s)'
  BY DEF PromisesKept
<1>1. t # a BY DEF Has, GuardOps
<1>2. task'[t] = task[t] BY <1>1 DEF Kept, Actors
<1> QED BY <1>2 DEF Promised

LEMMA UntouchedKept ==
  ASSUME Typed, TasksOK, UNCHANGED task
  PROVE  PromisesKept /\ \A a : Kept(a)
<1>1. TasksOK'
  <2> SUFFICES ASSUME NEW b \in Actors
               PROVE  /\ TodoOK(task'[b].todo) /\ NamesOK(task'[b].todo) /\ ArcOK(b)'
                      /\ Has(task'[b].todo, ClientOps) => task'[b].client \in Clients
    BY DEF TasksOK
  <2>1. task'[b] = task[b] OBVIOUS
  <2> QED BY <2>1 DEF TasksOK, ArcOK
<1>2. \A i \in Entries : Guards(i)' = Guards(i) BY DEF Guards
<1>3. PromisesKept BY DEF PromisesKept, Promised
<1> QED BY <1>1, <1>2, <1>3 DEF Kept, Typed

-----------------------------------------------------------------------------
(* The operations that actions put on a list. *)

Harmless(o) ==
  /\ o \in OpRec /\ o.op \notin LockOps \cup GuardOps \cup RunOps
  /\ o.op \in {"revoke", "revoked", "disown", "strip"} => o.sid \in Sid
  /\ o.op \in {"count", "revoked", "raise", "decide", "lower", "take", "forget"} =>
        o.who \in Clients

LEMMA FrontNone == <<>> \in Seq(OpRec) /\ Frontal(<<>>)
  BY DEF Frontal, NamesOK

LEMMA FrontOne ==
  ASSUME NEW o, Harmless(o)
  PROVE  <<o>> \in Seq(OpRec) /\ Frontal(<<o>>)
<1>1. Len(<<o>>) = 1 /\ <<o>>[1] = o /\ <<o>> \in Seq(OpRec) BY DEF Harmless
<1>2. \A i \in 1 .. Len(<<o>>) : i = 1 BY <1>1
<1> QED BY <1>1, <1>2 DEF Frontal, NamesOK, Harmless

LEMMA FrontTwo ==
  ASSUME NEW o, NEW p, Harmless(o), Harmless(p), p.op \notin CountOps
  PROVE  <<o, p>> \in Seq(OpRec) /\ Frontal(<<o, p>>)
<1> DEFINE q == <<o, p>>
<1>1. Len(q) = 2 /\ q[1] = o /\ q[2] = p /\ q \in Seq(OpRec) BY DEF Harmless
<1> HIDE DEF q
<1>2. \A i \in 1 .. Len(q) : i = 1 \/ i = 2 BY <1>1
<1>3. NamesOK(q) BY <1>1, <1>2 DEF NamesOK, Harmless
<1>4. Frontal(q) BY <1>1, <1>2, <1>3 DEF Frontal, Harmless
<1> QED BY <1>1, <1>4 DEF q

\* The operations by name.
LEMMA OpsAre ==
  ASSUME NEW s \in Sid, NEW c \in Clients
  PROVE  /\ Harmless(Op("gc")) /\ Op("gc").op = "gc"
         /\ \A o \in {"revoke", "disown", "strip"} :
               Harmless(OpOn(o, s)) /\ OpOn(o, s).op = o /\ OpOn(o, s).sid = s
         /\ \A o \in {"count", "raise", "decide", "lower", "take", "forget"} :
               Harmless(OpFor(o, c)) /\ OpFor(o, c).op = o /\ OpFor(o, c).who = c
         /\ Harmless([op |-> "revoked", sid |-> s, who |-> c])
<1>1. Harmless(Op("gc")) /\ Op("gc").op = "gc"
  BY DEF Harmless, Op, OpRec, OpName, LockOps, RunOps, GuardOps, CountOps, OtherOps, Parties
<1>2. ASSUME NEW o \in {"revoke", "disown", "strip"}
      PROVE  Harmless(OpOn(o, s)) /\ OpOn(o, s).op = o /\ OpOn(o, s).sid = s
  <2>1. OpOn(o, s) = [op |-> o, sid |-> s, who |-> Local] BY DEF OpOn, Op
  <2> QED BY <2>1 DEF Harmless, OpRec, OpName, LockOps, RunOps, GuardOps, CountOps, OtherOps, Parties
<1>3. ASSUME NEW o \in {"count", "raise", "decide", "lower", "take", "forget"}
      PROVE  Harmless(OpFor(o, c)) /\ OpFor(o, c).op = o /\ OpFor(o, c).who = c
  <2>1. OpFor(o, c) = [op |-> o, sid |-> 0, who |-> c] BY DEF OpFor, Op
  <2> QED BY <2>1 DEF Harmless, OpRec, OpName, LockOps, RunOps, GuardOps, CountOps, OtherOps, Parties
<1>4. Harmless([op |-> "revoked", sid |-> s, who |-> c])
  BY DEF Harmless, OpRec, OpName, LockOps, RunOps, GuardOps, CountOps, OtherOps, Parties
<1> QED BY <1>1, <1>2, <1>3, <1>4

LEMMA SidFinite == IsFiniteSet(Sid) /\ \A S \in SUBSET Sid : IsFiniteSet(S)
<1>1. MaxSid \in Nat BY DelegAssumption
<1>2. IsFiniteSet(Sid) BY <1>1, FS_Interval DEF Sid
<1> QED BY <1>2, FS_Subset

\* A set of stateids can be listed.
LEMMA Listed ==
  ASSUME NEW S, IsFiniteSet(S)
  PROVE  /\ Cardinality(S) \in Nat
         /\ InTurn(S) \in [1 .. Cardinality(S) -> S]
         /\ \A s \in S : \E i \in 1 .. Cardinality(S) : InTurn(S)[i] = s
<1>1. Cardinality(S) \in Nat BY FS_CardinalityType
<1>2. PICK f \in Bijection(1 .. Cardinality(S), S) : TRUE
  BY <1>1, FS_CardinalityType DEF ExistsBijection
<1>3. f \in [1 .. Cardinality(S) -> S] /\ \A s \in S : \E i \in 1 .. Cardinality(S) : f[i] = s
  BY <1>2 DEF Bijection, Surjection
<1> DEFINE P(q) == \A s \in S : \E i \in DOMAIN q : q[i] = s
<1>4. P(f) BY <1>3
<1>5. \E q \in [1 .. Cardinality(S) -> S] : P(q) BY <1>3, <1>4
<1>6. InTurn(S) = CHOOSE q \in [1 .. Cardinality(S) -> S] : P(q) BY DEF InTurn
<1> HIDE DEF P
<1>7. InTurn(S) \in [1 .. Cardinality(S) -> S] /\ P(InTurn(S)) BY <1>5, <1>6
<1> QED BY <1>1, <1>7 DEF P

LEMMA OpsListed ==
  ASSUME NEW S \in SUBSET Sid, NEW o \in {"revoke", "disown", "strip"}
  PROVE  /\ Ops(o, S) \in Seq(OpRec) /\ Len(Ops(o, S)) = Cardinality(S) /\ Cardinality(S) \in Nat
         /\ \A i \in 1 .. Len(Ops(o, S)) :
               /\ Harmless(Ops(o, S)[i]) /\ Ops(o, S)[i].op = o /\ Ops(o, S)[i].sid \in S
         /\ \A s \in S : \E i \in 1 .. Len(Ops(o, S)) : Ops(o, S)[i].sid = s
<1>1. IsFiniteSet(S) BY SidFinite
<1> DEFINE n == Cardinality(S)
           f == InTurn(S)
           q == Ops(o, S)
<1>2. /\ n \in Nat /\ f \in [1 .. n -> S]
      /\ \A s \in S : \E i \in 1 .. n : f[i] = s
  BY <1>1, Listed
<1>3. q = [i \in 1 .. n |-> OpOn(o, f[i])] BY DEF Ops
<1> HIDE DEF n, f, q
<1>4. \A i \in 1 .. n : f[i] \in S /\ f[i] \in Sid BY <1>2
<1>5. \A i \in 1 .. n : Harmless(OpOn(o, f[i])) /\ OpOn(o, f[i]).op = o /\ OpOn(o, f[i]).sid = f[i]
  <2> SUFFICES ASSUME NEW i \in 1 .. n
               PROVE  Harmless(OpOn(o, f[i])) /\ OpOn(o, f[i]).op = o /\ OpOn(o, f[i]).sid = f[i]
    OBVIOUS
  <2> DEFINE s == f[i]
  <2>1. s \in Sid BY <1>4
  <2> HIDE DEF s
  <2>2. OpOn(o, s) = [op |-> o, sid |-> s, who |-> Local] BY DEF OpOn, Op
  <2>3. Harmless(OpOn(o, s)) /\ OpOn(o, s).op = o /\ OpOn(o, s).sid = s
    BY <2>1, <2>2 DEF Harmless, OpRec, OpName, LockOps, RunOps, GuardOps, CountOps, OtherOps, Parties
  <2> QED BY <2>3 DEF s
<1>6. \A i \in 1 .. n : OpOn(o, f[i]) \in OpRec BY <1>5 DEF Harmless
<1>7. q \in Seq(OpRec) /\ Len(q) = n /\ \A i \in 1 .. n : q[i] = OpOn(o, f[i])
  BY <1>2, <1>3, <1>6
<1> QED BY <1>2, <1>4, <1>5, <1>7 DEF n, q

LEMMA OpsFront ==
  ASSUME NEW S \in SUBSET Sid, NEW o \in {"revoke", "disown", "strip"}
  PROVE  Ops(o, S) \in Seq(OpRec) /\ Frontal(Ops(o, S))
<1> DEFINE q == Ops(o, S)
<1>1. q \in Seq(OpRec) /\ \A i \in 1 .. Len(q) : Harmless(q[i]) /\ q[i].op = o BY OpsListed
<1> HIDE DEF q
<1>2. \A i \in 1 .. Len(q) : q[i].op \notin CountOps BY <1>1 DEF CountOps
<1>3. Frontal(q) BY <1>1, <1>2 DEF Frontal, NamesOK, Harmless
<1> QED BY <1>1, <1>3 DEF q

-----------------------------------------------------------------------------
(* The steps that take one operation off a list. *)

LEMMA HeadIs ==
  ASSUME Typed, TasksOK, NEW a \in Actors, NEW o, NextIs(a, o)
  PROVE  /\ ~ Idle(a) /\ task[a].todo[1].op = o /\ 1 \in 1 .. Len(task[a].todo)
         /\ SidOf(a) = task[a].todo[1].sid /\ Who(a) = task[a].todo[1].who
         /\ o \in {"revoke", "revoked", "disown", "strip"} => SidOf(a) \in Sid
         /\ o \in {"count", "revoked", "raise", "decide", "lower", "take", "forget"} =>
               Who(a) \in Clients
<1>1. ~ Idle(a) BY DEF NextIs
<1>2. Head(task[a].todo) = task[a].todo[1] /\ 1 \in 1 .. Len(task[a].todo) BY <1>1, TaskParts
<1>3. task[a].todo[1].op = o BY <1>2 DEF NextIs
<1>4. NamesOK(task[a].todo) BY DEF TasksOK
<1> QED BY <1>1, <1>2, <1>3, <1>4 DEF NamesOK, SidOf, Who

LEMMA LaddersKept ==
  ASSUME LaddersOK, Shrunk, UNCHANGED ladder
  PROVE  LaddersOK'
<1>1. \A s \in Sid : ladder'[s] = ladder[s] OBVIOUS
<1>2. \A s \in Sid : rec'[s].st = "granted" => rec[s].st = "granted" BY DEF Shrunk
<1> QED BY <1>1, <1>2 DEF LaddersOK

LEMMA SameTable ==
  ASSUME DelegIInv, UNCHANGED <<table, byStateid>>
  PROVE  Shrunk
  BY DEF DelegIInv, EntriesOK, Shrunk, table, Present, Live

LEMMA WorkedOK ==
  ASSUME DelegIInv, NEW a \in Actors, NEW o, NextIs(a, o),
         o \notin LockOps \cup GuardOps \cup {"revoke"},
         NEW ops \in Seq(OpRec), Frontal(ops), Then(a, ops),
         Shrunk, UNCHANGED ladder, writers' # {} => writers # {} \/ \A s \in Sid : rec[s].st # "granted",
         task' \in [Actors -> Task] => Typed'
  PROVE  DelegIInv'
<1>1. Typed /\ TasksOK /\ LaddersOK BY DEF DelegIInv
<1>2. ~ Idle(a) /\ task[a].todo[1].op = o BY <1>1, HeadIs
<1>3. Kept(a) /\ Pushed(task'[a].todo, task[a].todo, ops)
  BY <1>1, <1>2, WorkedKept
<1>4. PromisesKept BY <1>1, <1>2, <1>3, WorkedPromises
<1>5. Typed' BY <1>3 DEF Kept
<1>6. LaddersOK' BY <1>1, LaddersKept
<1> QED BY <1>3, <1>4, <1>5, <1>6, ShrunkOK

\* A record that is found leaves.
LEMMA Removed ==
  ASSUME DelegIInv, NEW s \in Sid, Found(s), NEW cool \in BOOLEAN, Remove(s, cool), cur' = cur
  PROVE  /\ Shrunk
         /\ ent' \in [Entries -> Entry] /\ rec' \in [Sid -> Record]
         /\ byStateid' \subseteq Sid /\ byClient' \in [Clients -> SUBSET Sid]
<1>0. Typed /\ EntriesOK BY DEF DelegIInv
<1>1. rec \in [Sid -> Record] /\ ent \in [Entries -> Entry] /\ byStateid \subseteq Sid
      /\ byClient \in [Clients -> SUBSET Sid] /\ cur \in {0} \cup Entries
  BY <1>0 DEF Typed
<1>2. NoRec \in Record /\ NoRec.st = "none" BY DEF NoRec, Record, Parties
<1>3. rec' = [rec EXCEPT ![s] = NoRec] BY DEF Remove
<1>4. rec' \in [Sid -> Record] BY <1>1, <1>2, <1>3
<1>5. \A r \in Sid : rec'[r] = (IF r = s THEN NoRec ELSE rec[r]) BY <1>1, <1>3
<1>6. cur \in Entries BY <1>0, <1>1 DEF Found, EntriesOK
<1>7. Cooled(ent[cur], InEntry(cur) \ {s}) \in Entry
      /\ Cooled(ent[cur], InEntry(cur) \ {s}).guards = ent[cur].guards
      /\ Cooled(ent[cur], InEntry(cur) \ {s}).dead = ent[cur].dead
  <2>1. ent[cur] \in Entry BY <1>1, <1>6
  <2> DEFINE e == ent[cur]
             k == [e EXCEPT !.cool = "on"]
  <2>2. k \in Entry /\ k.guards = e.guards /\ k.dead = e.dead
    BY <2>1 DEF Entry
  <2> HIDE DEF k
  <2>3. Cooled(e, InEntry(cur) \ {s}) = e \/ Cooled(e, InEntry(cur) \ {s}) = k
    BY DEF Cooled, k
  <2> QED BY <2>1, <2>2, <2>3
<1>8. ent' = ent \/ ent' = [ent EXCEPT ![cur] = Cooled(ent[cur], InEntry(cur) \ {s})]
  BY DEF Remove
<1>9. ent' \in [Entries -> Entry] BY <1>1, <1>7, <1>8
<1>10. \A i \in Entries : ent'[i].guards = ent[i].guards /\ ent'[i].dead = ent[i].dead
  BY <1>1, <1>7, <1>8
<1>11. byStateid' = byStateid \ {s} BY DEF Remove
<1>12. byStateid' = {r \in Sid : rec'[r].st # "none"}
  BY <1>0, <1>2, <1>5, <1>11 DEF EntriesOK, Present
<1>13. byClient' \in [Clients -> SUBSET Sid] BY <1>1 DEF Remove
<1>14. Shrunk
  BY <1>2, <1>5, <1>10, <1>12 DEF Shrunk, Live
<1> QED BY <1>4, <1>9, <1>1, <1>11, <1>13, <1>14

LEMMA UncountedTyped ==
  ASSUME Typed, NEW c, Uncounted(c)
  PROVE  liveClient' \in [Clients -> Nat] /\ liveGlobal' \in Int
<1>1. \A n \in Nat : Less(n) \in Nat BY DEF Less
<1>2. liveClient \in [Clients -> Nat] /\ liveGlobal \in Int BY DEF Typed
<1>3. liveClient' = [liveClient EXCEPT ![c] = Less(liveClient[c])] /\ liveGlobal' = liveGlobal - 1
  BY DEF Uncounted
<1>4. c \in Clients => Less(liveClient[c]) \in Nat BY <1>1, <1>2
<1> DEFINE n == Less(liveClient[c])
<1>5. liveClient' = [liveClient EXCEPT ![c] = n] BY <1>3
<1>6. c \in Clients => n \in Nat BY <1>4
<1> HIDE DEF n
<1>7. liveClient' \in [Clients -> Nat] BY <1>2, <1>5, <1>6
<1> QED BY <1>2, <1>3, <1>7

LEMMA StepUncount ==
  ASSUME DelegIInv, NEW a \in Actors, Uncount(a)
  PROVE  DelegIInv'
<1>1. NextIs(a, "count") /\ Then(a, <<>>) /\ UNCHANGED <<table, index, world, ladder>>
      /\ Uncounted(Who(a))
  BY DEF Uncount
<1>2. Shrunk BY <1>1, SameTable DEF index
<1>3. "count" \notin LockOps \cup GuardOps \cup {"revoke"} BY DEF LockOps, GuardOps
<1>4. Typed /\ TasksOK BY DEF DelegIInv
<1>5. liveClient' \in [Clients -> Nat] /\ liveGlobal' \in Int
  BY <1>1, <1>4, UncountedTyped
<1>6. task' \in [Actors -> Task] => Typed'
  BY <1>1, <1>4, <1>5 DEF Typed, table, index, world
<1>7. UNCHANGED writers BY <1>1 DEF world
<1> QED BY <1>1, <1>2, <1>3, <1>6, <1>7, FrontNone, WorkedOK

LEMMA StepMark ==
  ASSUME DelegIInv, NEW a \in Actors, Mark(a)
  PROVE  DelegIInv'
<1>1. NextIs(a, "revoked") /\ Then(a, <<>>) /\ Uncounted(Who(a))
      /\ UNCHANGED <<table, index, writers, bit, gone, late, crossed, ladder>>
  BY DEF Mark
<1>2. Shrunk BY <1>1, SameTable DEF index
<1>3. "revoked" \notin LockOps \cup GuardOps \cup {"revoke"} BY DEF LockOps, GuardOps
<1>4. Typed /\ TasksOK BY DEF DelegIInv
<1>5. liveClient' \in [Clients -> Nat] /\ liveGlobal' \in Int
  BY <1>1, <1>4, UncountedTyped
<1>6. marked' \subseteq Sid
  <2>1. SidOf(a) \in Sid BY <1>1, <1>4, HeadIs
  <2> QED BY <1>4, <2>1 DEF Mark, Typed
<1>7. task' \in [Actors -> Task] => Typed'
  BY <1>1, <1>4, <1>5, <1>6 DEF Typed, table, index
<1> QED BY <1>1, <1>2, <1>3, <1>7, FrontNone, WorkedOK

LEMMA StepRaise ==
  ASSUME DelegIInv, NEW a \in Actors, Raise(a)
  PROVE  DelegIInv'
<1>1. NextIs(a, "raise") /\ Then(a, <<>>) /\ bit' = bit \cup {Who(a)}
      /\ UNCHANGED <<table, index, counts, writers, marked, gone, late, crossed, ladder>>
  BY DEF Raise
<1>2. Shrunk BY <1>1, SameTable DEF index
<1>3. "raise" \notin LockOps \cup GuardOps \cup {"revoke"} BY DEF LockOps, GuardOps
<1>4. Typed /\ TasksOK BY DEF DelegIInv
<1>5. Who(a) \in Clients BY <1>1, <1>4, HeadIs
<1>6. task' \in [Actors -> Task] => Typed'
  BY <1>1, <1>4, <1>5 DEF Typed, table, index, counts
<1> QED BY <1>1, <1>2, <1>3, <1>6, FrontNone, WorkedOK

LEMMA StepDecide ==
  ASSUME DelegIInv, NEW a \in Actors, Decide(a)
  PROVE  DelegIInv'
<1>1. NextIs(a, "decide") /\ UNCHANGED <<table, index, counts, world, ladder>>
  BY DEF Decide
<1>2. Shrunk BY <1>1, SameTable DEF index
<1>3. "decide" \notin LockOps \cup GuardOps \cup {"revoke"} BY DEF LockOps, GuardOps
<1>4. Typed /\ TasksOK BY DEF DelegIInv
<1>5. Who(a) \in Clients BY <1>1, <1>4, HeadIs
<1>6. task' \in [Actors -> Task] => Typed'
  BY <1>1, <1>4 DEF Typed, table, index, counts, world
<1> DEFINE o == OpFor("lower", Who(a))
<1>7. Harmless(o)
  <2>1. o = [op |-> "lower", sid |-> 0, who |-> Who(a)] BY DEF OpFor, Op
  <2> QED BY <1>5, <2>1 DEF Harmless, OpRec, OpName, LockOps, RunOps, GuardOps, CountOps, OtherOps, Parties
<1> HIDE DEF o
<1>8. Then(a, <<>>) \/ Then(a, <<o>>) BY DEF Decide, o
<1>9. UNCHANGED writers BY <1>1 DEF world
<1>10. <<o>> \in Seq(OpRec) /\ Frontal(<<o>>) BY <1>7, FrontOne
<1>11. CASE Then(a, <<>>) BY <1>1, <1>2, <1>3, <1>6, <1>9, <1>11, FrontNone, WorkedOK
<1>12. CASE Then(a, <<o>>) BY <1>1, <1>2, <1>3, <1>6, <1>9, <1>10, <1>12, WorkedOK
<1> QED BY <1>8, <1>11, <1>12

LEMMA StepLower ==
  ASSUME DelegIInv, NEW a \in Actors, Lower(a)
  PROVE  DelegIInv'
<1>1. NextIs(a, "lower") /\ Then(a, <<>>) /\ bit' = bit \ {Who(a)}
      /\ UNCHANGED <<table, index, counts, writers, marked, gone, late, crossed, ladder>>
  BY DEF Lower
<1>2. Shrunk BY <1>1, SameTable DEF index
<1>3. "lower" \notin LockOps \cup GuardOps \cup {"revoke"} BY DEF LockOps, GuardOps
<1>4. Typed /\ TasksOK BY DEF DelegIInv
<1>5. Who(a) \in Clients BY <1>1, <1>4, HeadIs
<1>6. task' \in [Actors -> Task] => Typed'
  BY <1>1, <1>4, <1>5 DEF Typed, table, index, counts
<1> QED BY <1>1, <1>2, <1>3, <1>6, FrontNone, WorkedOK

LEMMA StepForget ==
  ASSUME DelegIInv, NEW a \in Actors, Forget(a)
  PROVE  DelegIInv'
<1>1. NextIs(a, "forget") /\ Then(a, <<>>) /\ liveClient' = [liveClient EXCEPT ![Who(a)] = 0]
      /\ UNCHANGED <<table, index, liveGlobal, world, ladder>>
  BY DEF Forget
<1>2. Shrunk BY <1>1, SameTable DEF index
<1>3. "forget" \notin LockOps \cup GuardOps \cup {"revoke"} BY DEF LockOps, GuardOps
<1>4. Typed /\ TasksOK BY DEF DelegIInv
<1>5. liveClient' \in [Clients -> Nat] BY <1>1, <1>4 DEF Typed
<1>6. task' \in [Actors -> Task] => Typed'
  BY <1>1, <1>4, <1>5 DEF Typed, table, index, world
<1>7. UNCHANGED writers BY <1>1 DEF world
<1> QED BY <1>1, <1>2, <1>3, <1>6, <1>7, FrontNone, WorkedOK

LEMMA StepTake ==
  ASSUME DelegIInv, NEW a \in Actors, Take(a)
  PROVE  DelegIInv'
<1> DEFINE S == byClient[Who(a)]
<1>1. NextIs(a, "take") /\ Then(a, Ops("strip", S)) /\ byClient' = [byClient EXCEPT ![Who(a)] = {}]
      /\ UNCHANGED <<table, byStateid, counts, world, ladder>>
  BY DEF Take
<1>2. Shrunk BY <1>1, SameTable
<1>3. "take" \notin LockOps \cup GuardOps \cup {"revoke"} BY DEF LockOps, GuardOps
<1>4. Typed /\ TasksOK BY DEF DelegIInv
<1>5. Who(a) \in Clients BY <1>1, <1>4, HeadIs
<1>6. S \in SUBSET Sid /\ byClient' \in [Clients -> SUBSET Sid] BY <1>1, <1>4, <1>5 DEF Typed
<1> HIDE DEF S
<1>7. task' \in [Actors -> Task] => Typed'
  BY <1>1, <1>4, <1>6 DEF Typed, table, counts, world
<1>8. UNCHANGED writers BY <1>1 DEF world
<1>9. Ops("strip", S) \in Seq(OpRec) /\ Frontal(Ops("strip", S)) BY <1>6, OpsFront
<1> QED BY <1>1, <1>2, <1>3, <1>7, <1>8, <1>9, WorkedOK

LEMMA StepRun ==
  ASSUME DelegIInv, NEW a \in Threads, Run(a)
  PROVE  DelegIInv'
<1>0. a \in Actors BY DEF Actors
<1>1. Then(a, <<>>) /\ UNCHANGED <<table, index, counts, marked, bit, gone, late, crossed, ladder>>
      /\ (writers' = writers \/ (writers' = writers \cup {task[a].client} /\ NextIs(a, "opening")))
  BY DEF Run
<1>2. PICK o \in RunOps : NextIs(a, o) BY DEF Run, RunOps
<1>3. Shrunk BY <1>1, SameTable DEF index
<1>4. o \notin LockOps \cup GuardOps \cup {"revoke"} BY DEF LockOps, GuardOps, RunOps
<1>5. Typed /\ TasksOK /\ BarredOK BY DEF DelegIInv
<1>6. \A s \in Sid : rec[s].st # "granted"
  <2>1. task[a].todo[1].op = o /\ 1 \in 1 .. Len(task[a].todo) BY <1>0, <1>2, <1>5, HeadIs
  <2>2. 2 \in 1 .. Len(task[a].todo) /\ task[a].todo[2].op = "release"
    BY <1>0, <1>5, <2>1 DEF TasksOK, TodoOK
  <2>3. Has(task[a].todo, GuardOps) BY <2>2 DEF Has, GuardOps
  <2> QED BY <1>5, <2>3 DEF BarredOK
<1>7. writers' \subseteq Clients
  <2>1. NextIs(a, "opening") => task[a].client \in Clients
    <3>1. NextIs(a, "opening") => task[a].todo[1].op = "opening" /\ 1 \in 1 .. Len(task[a].todo)
      BY <1>0, <1>5, HeadIs
    <3> QED BY <1>0, <1>5, <3>1 DEF TasksOK, Has, ClientOps
  <2> QED BY <1>1, <1>5, <2>1 DEF Typed
<1>8. task' \in [Actors -> Task] => Typed'
  BY <1>1, <1>5, <1>7 DEF Typed, table, index, counts
<1> QED BY <1>0, <1>1, <1>2, <1>3, <1>4, <1>6, <1>8, FrontNone, WorkedOK

LEMMA StepDisown ==
  ASSUME DelegIInv, NEW a \in Actors, Disown(a)
  PROVE  DelegIInv'
<1> DEFINE s == SidOf(a)
<1>1. NextIs(a, "disown") /\ UNCHANGED <<cur, counts, world, ladder>> BY DEF Disown
<1>3. "disown" \notin LockOps \cup GuardOps \cup {"revoke"} BY DEF LockOps, GuardOps
<1>4. Typed /\ TasksOK /\ EntriesOK BY DEF DelegIInv
<1>5. s \in Sid BY <1>1, <1>4, HeadIs
<1>6. UNCHANGED writers BY <1>1 DEF world
<1>7. \/ Found(s) /\ Recalled(s) /\ Remove(s, TRUE) /\ Then(a, Leaving(s))
      \/ Then(a, <<>>) /\ UNCHANGED <<rec, ent, index>>
  BY DEF Disown
<1> HIDE DEF s
<1>8. CASE Then(a, <<>>) /\ UNCHANGED <<rec, ent, index>>
  <2>1. Shrunk BY <1>1, <1>8, SameTable DEF table, index
  <2>2. task' \in [Actors -> Task] => Typed'
    BY <1>1, <1>4, <1>8 DEF Typed, counts, world, index
  <2> QED BY <1>1, <1>3, <1>6, <1>8, <2>1, <2>2, FrontNone, WorkedOK
<1>9. CASE Found(s) /\ Recalled(s) /\ Remove(s, TRUE) /\ Then(a, Leaving(s))
  <2>1. /\ Shrunk /\ ent' \in [Entries -> Entry] /\ rec' \in [Sid -> Record]
        /\ byStateid' \subseteq Sid /\ byClient' \in [Clients -> SUBSET Sid]
    BY <1>1, <1>5, <1>9, Removed
  <2>2. task' \in [Actors -> Task] => Typed'
    BY <1>1, <1>4, <2>1 DEF Typed, counts, world
  <2>3. rec[s].client \in Clients BY <1>4, <1>5, <1>9 DEF EntriesOK, Found
  <2>4. Leaving(s) \in Seq(OpRec) /\ Frontal(Leaving(s))
    BY <1>5, <2>3, OpsAre, FrontTwo DEF Leaving, CountOps
  <2> QED BY <1>1, <1>3, <1>6, <1>9, <2>1, <2>2, <2>4, WorkedOK
<1> QED BY <1>7, <1>8, <1>9

LEMMA StepStrip ==
  ASSUME DelegIInv, NEW a \in Actors, Strip(a)
  PROVE  DelegIInv'
<1> DEFINE s == SidOf(a)
<1>1. NextIs(a, "strip") /\ UNCHANGED <<cur, liveClient, writers, bit, gone, late, crossed, ladder>>
      /\ marked' = marked \ {s}
  BY DEF Strip
<1>3. "strip" \notin LockOps \cup GuardOps \cup {"revoke"} BY DEF LockOps, GuardOps
<1>4. Typed /\ TasksOK /\ EntriesOK BY DEF DelegIInv
<1>5. s \in Sid BY <1>1, <1>4, HeadIs
<1>6. \/ Found(s) /\ Remove(s, FALSE) /\ (liveGlobal' = liveGlobal - 1 \/ liveGlobal' = liveGlobal)
      \/ UNCHANGED <<rec, ent, index, liveGlobal>>
  BY DEF Strip
<1>7. PICK ops \in {<<>>, <<Op("gc")>>} : Then(a, ops)
  <2>1. Then(a, <<>>) \/ Then(a, <<Op("gc")>>) BY DEF Strip
  <2> QED BY <2>1
<1> HIDE DEF s
<1>8. Harmless(Op("gc"))
  BY DEF Harmless, Op, OpRec, OpName, LockOps, RunOps, GuardOps, CountOps, OtherOps, Parties
<1>9. ops \in Seq(OpRec) /\ Frontal(ops) BY <1>8, FrontNone, FrontOne
<1>10. CASE UNCHANGED <<rec, ent, index, liveGlobal>>
  <2>1. Shrunk BY <1>1, <1>10, SameTable DEF table, index
  <2>2. task' \in [Actors -> Task] => Typed'
    BY <1>1, <1>4, <1>10 DEF Typed, index
  <2> QED BY <1>1, <1>3, <1>7, <1>9, <2>1, <2>2, WorkedOK
<1>11. CASE Found(s) /\ Remove(s, FALSE) /\ (liveGlobal' = liveGlobal - 1 \/ liveGlobal' = liveGlobal)
  <2>1. /\ Shrunk /\ ent' \in [Entries -> Entry] /\ rec' \in [Sid -> Record]
        /\ byStateid' \subseteq Sid /\ byClient' \in [Clients -> SUBSET Sid]
    BY <1>1, <1>5, <1>11, Removed
  <2>2. task' \in [Actors -> Task] => Typed'
    BY <1>1, <1>4, <1>11, <2>1 DEF Typed
  <2> QED BY <1>1, <1>3, <1>7, <1>9, <2>1, <2>2, WorkedOK
<1> QED BY <1>6, <1>10, <1>11

\* The records after one of them was revoked.
LEMMA RevokedShrunk ==
  ASSUME DelegIInv, NEW s \in Sid, Found(s), Recalled(s), cur' = cur, byStateid' = byStateid,
         rec' = [rec EXCEPT ![s].st = "revoked"],
         ent' = [ent EXCEPT ![cur] = Cooled(@, InEntry(cur) \ {s})]
  PROVE  /\ Shrunk /\ ent' \in [Entries -> Entry] /\ rec' \in [Sid -> Record]
         /\ ~ Live(s)'
<1>0. Typed /\ EntriesOK BY DEF DelegIInv
<1>1. rec \in [Sid -> Record] /\ ent \in [Entries -> Entry] /\ cur \in {0} \cup Entries
  BY <1>0 DEF Typed
<1> DEFINE k == [rec[s] EXCEPT !.st = "revoked"]
<1>2. rec[s] \in Record BY <1>1
<1>3. k \in Record /\ k.st = "revoked" /\ k.client = rec[s].client /\ k.ent = rec[s].ent
  BY <1>2 DEF Record
<1>4. rec' = [rec EXCEPT ![s] = k] OBVIOUS
<1> HIDE DEF k
<1>5. rec' \in [Sid -> Record] BY <1>1, <1>3, <1>4
<1>6. \A r \in Sid : rec'[r] = (IF r = s THEN k ELSE rec[r]) BY <1>1, <1>4
<1>7. cur \in Entries BY <1>0, <1>1 DEF Found, EntriesOK
<1>8. Cooled(ent[cur], InEntry(cur) \ {s}) \in Entry
      /\ Cooled(ent[cur], InEntry(cur) \ {s}).guards = ent[cur].guards
      /\ Cooled(ent[cur], InEntry(cur) \ {s}).dead = ent[cur].dead
  <2>1. ent[cur] \in Entry BY <1>1, <1>7
  <2> DEFINE e == ent[cur]
             f == [e EXCEPT !.cool = "on"]
  <2>2. f \in Entry /\ f.guards = e.guards /\ f.dead = e.dead
    BY <2>1 DEF Entry
  <2> HIDE DEF f
  <2>3. Cooled(e, InEntry(cur) \ {s}) = e \/ Cooled(e, InEntry(cur) \ {s}) = f
    BY DEF Cooled, f
  <2> QED BY <2>1, <2>2, <2>3
<1>9. ent' = [ent EXCEPT ![cur] = Cooled(ent[cur], InEntry(cur) \ {s})] OBVIOUS
<1>10. ent' \in [Entries -> Entry] BY <1>1, <1>8, <1>9
<1>11. \A i \in Entries : ent'[i].guards = ent[i].guards /\ ent'[i].dead = ent[i].dead
  BY <1>1, <1>8, <1>9
<1>12. rec[s].st # "none" BY DEF Recalled
<1>13. byStateid' = {r \in Sid : rec'[r].st # "none"}
  BY <1>0, <1>3, <1>6, <1>12 DEF EntriesOK, Present
<1>14. ~ Live(s)' BY <1>3, <1>6 DEF Live
<1>15. \A r \in Sid : Live(r)' => Live(r) BY <1>3, <1>6 DEF Live
<1>16. Shrunk BY <1>3, <1>6, <1>11, <1>12, <1>13, <1>15 DEF Shrunk
<1> QED BY <1>5, <1>10, <1>14, <1>16

LEMMA StepRevoke ==
  ASSUME DelegIInv, NEW a \in Actors, Revoke(a)
  PROVE  DelegIInv'
<1>1. /\ NextIs(a, "revoke")
      /\ UNCHANGED <<cur, index, counts, writers, marked, bit, gone, late, ladder>>
  BY DEF Revoke
<1>2. "revoke" \notin LockOps \cup GuardOps BY DEF LockOps, GuardOps
<1>3. Typed /\ TasksOK /\ EntriesOK /\ LaddersOK /\ BarredOK BY DEF DelegIInv
<1>4. PICK s \in Sid : /\ s = SidOf(a) /\ s = task[a].todo[1].sid
                       /\ ~ Idle(a) /\ task[a].todo[1].op = "revoke"
  BY <1>1, <1>3, HeadIs
<1>5. crossed' \subseteq Clients
  <2>1. Found(s) => rec[s].client \in Clients BY <1>3, <1>4 DEF EntriesOK, Found
  <2>2. crossed' = crossed \/ (Found(s) /\ crossed' = crossed \cup {rec[s].client})
    BY <1>4 DEF Revoke
  <2> QED BY <1>3, <2>1, <2>2 DEF Typed
<1> DEFINE o == [op |-> "revoked", sid |-> s, who |-> rec[s].client]
           p == OpFor("raise", rec[s].client)
<1>6. \/ /\ Found(s) /\ Recalled(s) /\ Then(a, <<o, p>>)
         /\ rec' = [rec EXCEPT ![s].st = "revoked"]
         /\ ent' = [ent EXCEPT ![cur] = Cooled(@, InEntry(cur) \ {s})]
      \/ ~ (Found(s) /\ Recalled(s)) /\ Then(a, <<>>) /\ UNCHANGED <<rec, ent>>
  BY <1>4 DEF Revoke
<1>7. Found(s) => <<o, p>> \in Seq(OpRec) /\ Frontal(<<o, p>>)
  <2>1. Found(s) => rec[s].client \in Clients BY <1>3, <1>4 DEF EntriesOK, Found
  <2>2. rec[s].client \in Clients => Harmless(o) /\ Harmless(p) /\ p.op \notin CountOps
    BY <1>4, OpsAre DEF CountOps
  <2> QED BY <2>1, <2>2, FrontTwo
<1> HIDE DEF o, p
<1>8. Shrunk /\ ent' \in [Entries -> Entry] /\ rec' \in [Sid -> Record]
      /\ ((\E t \in Threads : Has(task[t].todo, {"release"})) => ~ Live(s)')
  <2>1. CASE /\ Found(s) /\ Recalled(s)
             /\ rec' = [rec EXCEPT ![s].st = "revoked"]
             /\ ent' = [ent EXCEPT ![cur] = Cooled(@, InEntry(cur) \ {s})]
    BY <1>1, <1>4, <2>1, RevokedShrunk DEF index
  <2>2. CASE ~ (Found(s) /\ Recalled(s)) /\ UNCHANGED <<rec, ent>>
    <3>1. Shrunk BY <1>1, <2>2, SameTable DEF table, index
    <3>2. Live(s) => Found(s) BY <1>3, <1>4 DEF Live, Found, EntriesOK, Present
    <3>3. Live(s)' => Live(s) BY <2>2 DEF Live
    <3>4. Live(s)' => rec[s].st = "granted" BY <2>2, <3>2, <3>3 DEF Live, Recalled
    <3>5. ASSUME NEW t \in Threads, Has(task[t].todo, {"release"}) PROVE ~ Live(s)'
      <4>1. Has(task[t].todo, GuardOps) BY <3>5 DEF Has, GuardOps
      <4> QED BY <1>3, <1>4, <3>4, <4>1 DEF BarredOK
    <3> QED BY <1>3, <2>2, <3>1, <3>5 DEF Typed
  <2> QED BY <1>6, <2>1, <2>2
<1>9. PICK ops \in Seq(OpRec) : Frontal(ops) /\ Then(a, ops)
  BY <1>6, <1>7, FrontNone
<1>10. Kept(a) /\ Pushed(task'[a].todo, task[a].todo, ops)
  BY <1>2, <1>3, <1>4, <1>9, WorkedKept
<1>11. PromisesKept
  <2> SUFFICES ASSUME NEW t \in Threads, Has(task[t].todo, {"release"}), NEW r \in Sid, Live(r)',
                      Promised(t, r)
               PROVE  Promised(t, r)'
    BY DEF PromisesKept
  <2>1. CASE t # a
    <3>1. task'[t] = task[t] BY <1>10, <2>1 DEF Kept, Actors
    <3> QED BY <3>1 DEF Promised
  <2>2. CASE t = a
    <3>1. PICK j \in 1 .. Len(task[a].todo) : task[a].todo[j].op = "revoke" /\ task[a].todo[j].sid = r
      BY <2>2 DEF Promised
    <3>2. r # s BY <1>8
    <3>3. j # 1 BY <1>4, <3>1, <3>2
    <3>4. Len(task[a].todo) \in Nat BY <1>3, TaskParts
    <3>5. j \in 2 .. Len(task[a].todo) BY <3>3, <3>4
    <3>6. /\ j - 1 + Len(ops) \in 1 .. Len(task'[a].todo)
          /\ task'[a].todo[j - 1 + Len(ops)] = task[a].todo[j]
      BY <1>10, <3>5 DEF Pushed
    <3> QED BY <2>2, <3>1, <3>6 DEF Promised
  <2> QED BY <2>1, <2>2
<1>12. Typed'
  BY <1>1, <1>3, <1>5, <1>8, <1>10 DEF Typed, index, counts, Kept
<1>13. LaddersOK' BY <1>1, <1>3, <1>8, LaddersKept
<1> QED BY <1>1, <1>8, <1>10, <1>11, <1>12, <1>13, ShrunkOK

-----------------------------------------------------------------------------
(* Requests that take no lock, and what goes on beside all tasks. *)

LEMMA BegunOK ==
  ASSUME DelegIInv, NEW t \in Threads, NEW c \in Parties, NEW ops \in Seq(OpRec), Frontal(ops),
         Begin(t, c, ops), Shrunk, UNCHANGED ladder, writers' # {} => writers # {},
         task' \in [Actors -> Task] => Typed'
  PROVE  DelegIInv'
<1>1. Typed /\ TasksOK /\ LaddersOK BY DEF DelegIInv
<1>2. Kept(t) /\ Idle(t) BY <1>1, BegunKept
<1>3. t \in Actors BY DEF Actors
<1>4. ~ Has(task[t].todo, GuardOps) BY <1>1, <1>2, <1>3, IdleHas
<1>5. PromisesKept BY <1>2, <1>3, <1>4, ReplacedPromises
<1>6. Typed' BY <1>2 DEF Kept
<1>7. LaddersOK' BY <1>1, LaddersKept
<1> QED BY <1>2, <1>5, <1>6, <1>7, ShrunkOK

LEMMA StepReturn ==
  ASSUME DelegIInv, NEW t \in Threads, NEW s \in Sid, Return(t, s)
  PROVE  DelegIInv'
<1>1. /\ Found(s) /\ Remove(s, rec[s].st # "granted") /\ Begin(t, rec[s].client, Leaving(s))
      /\ UNCHANGED <<cur, counts, world, ladder>>
  BY DEF Return
<1>2. Typed /\ EntriesOK BY DEF DelegIInv
<1> DEFINE cool == rec[s].st # "granted"
<1>3. cool \in BOOLEAN OBVIOUS
<1>4. Remove(s, cool) BY <1>1
<1> HIDE DEF cool
<1>5. /\ Shrunk /\ ent' \in [Entries -> Entry] /\ rec' \in [Sid -> Record]
      /\ byStateid' \subseteq Sid /\ byClient' \in [Clients -> SUBSET Sid]
  BY <1>1, <1>3, <1>4, Removed
<1>6. task' \in [Actors -> Task] => Typed'
  BY <1>1, <1>2, <1>5 DEF Typed, counts, world
<1>7. rec[s].client \in Clients BY <1>1, <1>2 DEF EntriesOK, Found
<1>8. Leaving(s) \in Seq(OpRec) /\ Frontal(Leaving(s))
  BY <1>7, OpsAre, FrontTwo DEF Leaving, CountOps
<1>9. UNCHANGED writers BY <1>1 DEF world
<1>10. rec[s].client \in Parties BY <1>7 DEF Parties
<1> QED BY <1>1, <1>5, <1>6, <1>8, <1>9, <1>10, BegunOK

LEMMA StepFreeStateId ==
  ASSUME DelegIInv, NEW t \in Threads, NEW s \in Sid, FreeStateId(t, s)
  PROVE  DelegIInv'
<1>1. /\ Found(s) /\ Remove(s, FALSE) /\ Begin(t, rec[s].client, Freed(s))
      /\ marked' = marked \ {s}
      /\ UNCHANGED <<cur, counts, writers, bit, gone, late, crossed, ladder>>
  BY DEF FreeStateId
<1>2. Typed /\ EntriesOK BY DEF DelegIInv
<1>5. /\ Shrunk /\ ent' \in [Entries -> Entry] /\ rec' \in [Sid -> Record]
      /\ byStateid' \subseteq Sid /\ byClient' \in [Clients -> SUBSET Sid]
  BY <1>1, Removed
<1>6. task' \in [Actors -> Task] => Typed'
  BY <1>1, <1>2, <1>5 DEF Typed, counts
<1>7. rec[s].client \in Clients BY <1>1, <1>2 DEF EntriesOK, Found
<1>8. Freed(s) \in Seq(OpRec) /\ Frontal(Freed(s))
  <2>1. Harmless(Op("gc")) /\ Harmless(OpFor("decide", rec[s].client))
        /\ OpFor("decide", rec[s].client).op \notin CountOps
    BY <1>7, OpsAre DEF CountOps
  <2> QED BY <2>1, FrontTwo DEF Freed
<1>10. rec[s].client \in Parties BY <1>7 DEF Parties
<1> QED BY <1>1, <1>5, <1>6, <1>8, <1>10, BegunOK

LEMMA StepTearDown ==
  ASSUME DelegIInv, NEW t \in Threads, NEW c \in Clients, TearDown(t, c)
  PROVE  DelegIInv'
<1> DEFINE o == OpFor("take", c)
           p == OpFor("forget", c)
<1>1. /\ gone' = gone \cup {c} /\ writers' = writers \ {c} /\ Begin(t, c, <<o, p>>)
      /\ UNCHANGED <<table, index, counts, marked, bit, late, crossed, ladder>>
  BY DEF TearDown
<1>2. Typed BY DEF DelegIInv
<1>3. Shrunk BY <1>1, SameTable DEF index
<1>4. task' \in [Actors -> Task] => Typed'
  BY <1>1, <1>2 DEF Typed, table, index, counts
<1>5. o = [op |-> "take", sid |-> 0, who |-> c] /\ p = [op |-> "forget", sid |-> 0, who |-> c]
  BY DEF OpFor, Op
<1>6. Harmless(o) /\ Harmless(p) /\ p.op \notin CountOps
  BY <1>5 DEF Harmless, OpRec, OpName, LockOps, RunOps, GuardOps, CountOps, OtherOps, Parties
<1> HIDE DEF o, p
<1>7. <<o, p>> \in Seq(OpRec) /\ Frontal(<<o, p>>) BY <1>6, FrontTwo
<1>8. c \in Parties BY DEF Parties
<1> QED BY <1>1, <1>3, <1>4, <1>7, <1>8, BegunOK

\* The tasks are as they were.
LEMMA UntouchedOK ==
  ASSUME DelegIInv, UNCHANGED task, Shrunk, writers' # {} => writers # {}, Typed', LaddersOK'
  PROVE  DelegIInv'
<1>1. Typed /\ TasksOK BY DEF DelegIInv
<1>2. PromisesKept /\ Kept(0) BY <1>1, UntouchedKept
<1> QED BY <1>2, ShrunkOK

LEMMA StepClose ==
  ASSUME DelegIInv, NEW c \in Clients, Close(c)
  PROVE  DelegIInv'
<1>1. writers' = writers \ {c}
      /\ UNCHANGED <<table, index, counts, marked, bit, gone, late, crossed, task, ladder>>
  BY DEF Close
<1>2. Typed /\ LaddersOK BY DEF DelegIInv
<1>3. Shrunk BY <1>1, SameTable DEF index
<1>4. Typed' BY <1>1, <1>2 DEF Typed, table, index, counts
<1>5. LaddersOK' BY <1>1, <1>2, <1>3, LaddersKept
<1> QED BY <1>1, <1>3, <1>4, <1>5, UntouchedOK

LEMMA StepCoolingEnds ==
  ASSUME DelegIInv, CoolingEnds
  PROVE  DelegIInv'
<1>1. cur # 0 /\ ent' = [ent EXCEPT ![cur].cool = "past"]
      /\ UNCHANGED <<cur, rec, index, counts, world, task, ladder>>
  BY DEF CoolingEnds
<1>2. Typed /\ LaddersOK /\ EntriesOK BY DEF DelegIInv
<1>3. cur \in Entries /\ ent[cur] \in Entry /\ ent \in [Entries -> Entry] BY <1>1, <1>2 DEF Typed
<1> DEFINE k == [ent[cur] EXCEPT !.cool = "past"]
<1>4. k \in Entry /\ k.guards = ent[cur].guards /\ k.dead = ent[cur].dead BY <1>3 DEF Entry
<1>5. ent' = [ent EXCEPT ![cur] = k] BY <1>1
<1> HIDE DEF k
<1>6. ent' \in [Entries -> Entry] BY <1>3, <1>4, <1>5
<1>7. \A i \in Entries : ent'[i].guards = ent[i].guards /\ ent'[i].dead = ent[i].dead
  BY <1>3, <1>4, <1>5
<1>8. Shrunk BY <1>1, <1>2, <1>7 DEF Shrunk, EntriesOK, Present, Live, index
<1>9. Typed' BY <1>1, <1>2, <1>6 DEF Typed, index, counts, world
<1>10. LaddersOK' BY <1>1, <1>2, <1>8, LaddersKept
<1>11. UNCHANGED writers BY <1>1 DEF world
<1> QED BY <1>1, <1>8, <1>9, <1>10, <1>11, UntouchedOK

-----------------------------------------------------------------------------
(* The ladders. *)

\* What a ladder goes by while it stands: an epoch that fired wakes it.
Standing(l) == l \in Ladder /\ l.at # "none" /\ (l.at = "parked" => ~ l.fired)

LEMMA GoesOK ==
  ASSUME DelegIInv, Shrunk, NEW s \in Sid, NEW l, Standing(l), Goes(s, l), ladder[s].at # "none",
         rec' \in [Sid -> Record], UNCHANGED <<cur, ent, index, counts, world>>
  PROVE  DelegIInv'
<1>1. Typed /\ LaddersOK BY DEF DelegIInv
<1>2. UNCHANGED task /\ ladder' = [ladder EXCEPT ![s] = l] BY DEF Goes
<1>3. ladder' \in [Sid -> Ladder] BY <1>1, <1>2 DEF Typed, Standing
<1>4. \A r \in Sid : ladder'[r] = (IF r = s THEN l ELSE ladder[r]) BY <1>1, <1>2 DEF Typed
<1>5. \A r \in Sid : rec'[r].st = "granted" => rec[r].st = "granted" BY DEF Shrunk
<1>6. LaddersOK' BY <1>1, <1>4, <1>5 DEF LaddersOK, Standing
<1>7. Typed' BY <1>1, <1>2, <1>3 DEF Typed, index, counts, world
<1> QED BY <1>2, <1>6, <1>7, UntouchedOK DEF world

LEMMA EndsOK ==
  ASSUME DelegIInv, NEW s \in Sid, Idle(s), NEW ops \in Seq(OpRec), Frontal(ops), Ends(s, ops),
         UNCHANGED <<table, index, counts, world>>
  PROVE  DelegIInv'
<1>1. Typed /\ LaddersOK /\ TasksOK BY DEF DelegIInv
<1>2. ladder' = [ladder EXCEPT ![s] = NoLadder] /\ task' = [task EXCEPT ![s].todo = ops]
  BY DEF Ends
<1>3. NoLadder \in Ladder /\ NoLadder.at = "none" /\ ~ NoLadder.first
  <2>1. Rungs \in Nat BY DelegAssumption
  <2> QED BY <2>1 DEF NoLadder, Ladder
<1>4. ladder' \in [Sid -> Ladder] BY <1>1, <1>2, <1>3 DEF Typed
<1>5. \A r \in Sid : ladder'[r] = (IF r = s THEN NoLadder ELSE ladder[r]) BY <1>1, <1>2 DEF Typed
<1>6. LaddersOK' BY <1>1, <1>3, <1>5 DEF LaddersOK, table
<1>7. Kept(s) BY <1>1, <1>2, EndedKept
<1>8. s \in Actors BY DEF Actors
<1>9. ~ Has(task[s].todo, GuardOps) BY <1>1, <1>8, IdleHas
<1>10. PromisesKept BY <1>7, <1>8, <1>9, ReplacedPromises
<1>11. Typed' BY <1>1, <1>4, <1>7 DEF Typed, table, index, counts, world, Kept
<1>12. Shrunk BY SameTable DEF index
<1> QED BY <1>6, <1>7, <1>10, <1>11, <1>12, ShrunkOK DEF world

\* The lists a ladder ends with.
LEMMA EndLists ==
  ASSUME NEW s \in Sid
  PROVE  \A q \in {<<>>, <<OpOn("revoke", s)>>, <<OpOn("disown", s)>>} : q \in Seq(OpRec) /\ Frontal(q)
<1>1. \A o \in {"revoke", "disown"} : Harmless(OpOn(o, s))
  <2> SUFFICES ASSUME NEW o \in {"revoke", "disown"} PROVE Harmless(OpOn(o, s))
    OBVIOUS
  <2>1. OpOn(o, s) = [op |-> o, sid |-> s, who |-> Local] BY DEF OpOn, Op
  <2> QED BY <2>1 DEF Harmless, OpRec, OpName, LockOps, RunOps, GuardOps, CountOps, OtherOps, Parties
<1> QED BY <1>1, FrontNone, FrontOne

LEMMA LastWordIs ==
  ASSUME NEW s \in Sid
  PROVE  LastWord(s) \in Seq(OpRec) /\ Frontal(LastWord(s))
  BY EndLists DEF LastWord

\* The forms a ladder takes.
LEMMA LadderForms ==
  ASSUME Typed, LaddersOK, NEW s \in Sid, ladder[s].at # "none"
  PROVE  /\ \A w \in {"sent", "blocked"} : Standing([ladder[s] EXCEPT !.at = w, !.fired = FALSE])
         /\ \A w \in {"sent", "park", "listening"} : Standing([ladder[s] EXCEPT !.at = w])
         /\ Standing([GotOut(s) EXCEPT !.at = "acked"])
         /\ Standing([GotOut(s) EXCEPT !.at = "rung", !.rung = IF @ > Rungs THEN @ ELSE @ + 1])
         /\ Standing([GotOut(s) EXCEPT !.at = "probe", !.disowned = TRUE])
         /\ Standing([ladder[s] EXCEPT !.at = IF ladder[s].fired THEN "top" ELSE "parked"])
<1> DEFINE l == ladder[s]
           g == GotOut(s)
<1>0. Rungs \in Nat BY DelegAssumption
<1>1. l \in Ladder BY DEF Typed
<1>2. g \in Ladder BY <1>1 DEF GotOut, Ladder
<1> HIDE DEF l, g
<1>3. \A k \in Ladder : \A w \in {"sent", "blocked"} : Standing([k EXCEPT !.at = w, !.fired = FALSE])
  BY DEF Ladder, Standing
<1>4. \A k \in Ladder : Standing([k EXCEPT !.at = "acked"]) BY DEF Ladder, Standing
<1>5. \A k \in Ladder :
        Standing([k EXCEPT !.at = "rung", !.rung = IF k.rung > Rungs THEN k.rung ELSE k.rung + 1])
  <2>1. \A k \in Ladder : \A n \in 0 .. Rungs + 1 : Standing([k EXCEPT !.at = "rung", !.rung = n])
    BY DEF Ladder, Standing
  <2>2. \A n \in 0 .. Rungs + 1 : (IF n > Rungs THEN n ELSE n + 1) \in 0 .. Rungs + 1 BY <1>0
  <2>3. \A k \in Ladder : k.rung \in 0 .. Rungs + 1 BY DEF Ladder
  <2> QED BY <2>1, <2>2, <2>3
<1>6. \A k \in Ladder : Standing([k EXCEPT !.at = "probe", !.disowned = TRUE]) BY DEF Ladder, Standing
<1>7. \A k \in Ladder : \A w \in {"sent", "park", "listening"} : Standing([k EXCEPT !.at = w])
  BY DEF Ladder, Standing
<1>8. \A k \in Ladder : k.fired => Standing([k EXCEPT !.at = "top"]) BY DEF Ladder, Standing
<1>9. \A k \in Ladder : ~ k.fired => Standing([k EXCEPT !.at = "parked"]) BY DEF Ladder, Standing
<1>10. Standing([l EXCEPT !.at = IF l.fired THEN "top" ELSE "parked"])
  BY <1>1, <1>8, <1>9
<1> QED BY <1>1, <1>2, <1>3, <1>4, <1>5, <1>6, <1>7, <1>10 DEF l, g

LEMMA StepSend ==
  ASSUME DelegIInv, NEW s \in Sid, Send(s)
  PROVE  DelegIInv'
<1>1. Awake(s) /\ UNCHANGED <<table, index, counts, world>> BY DEF Send
<1>2. \/ Ends(s, <<>>) \/ Ends(s, <<OpOn("revoke", s)>>)
      \/ \E w \in {"sent", "blocked"} : Goes(s, [ladder[s] EXCEPT !.at = w, !.fired = FALSE])
  BY DEF Send
<1>3. Idle(s) /\ ladder[s].at # "none" BY <1>1 DEF Awake, At
<1>4. Typed /\ LaddersOK BY DEF DelegIInv
<1>5. Shrunk /\ rec' \in [Sid -> Record] /\ UNCHANGED <<cur, ent>>
  BY <1>1, <1>4, SameTable DEF index, table, Typed
<1>6. ASSUME NEW w \in {"sent", "blocked"}, Goes(s, [ladder[s] EXCEPT !.at = w, !.fired = FALSE])
      PROVE  DelegIInv'
  <2>1. Standing([ladder[s] EXCEPT !.at = w, !.fired = FALSE]) BY <1>3, <1>4, LadderForms
  <2> QED BY <1>1, <1>3, <1>5, <1>6, <2>1, GoesOK
<1>7. CASE Ends(s, <<>>) BY <1>1, <1>3, <1>7, EndLists, EndsOK
<1>8. CASE Ends(s, <<OpOn("revoke", s)>>) BY <1>1, <1>3, <1>8, EndLists, EndsOK
<1> QED BY <1>2, <1>6, <1>7, <1>8

LEMMA StepAcked ==
  ASSUME DelegIInv, NEW s \in Sid, Acked(s)
  PROVE  DelegIInv'
<1>1. /\ ladder[s].at # "none" /\ Goes(s, [GotOut(s) EXCEPT !.at = "acked"])
      /\ UNCHANGED <<cur, ent, index, counts, world>>
  BY DEF Acked, At
<1>2. Typed /\ LaddersOK /\ EntriesOK BY DEF DelegIInv
<1> DEFINE k == [rec[s] EXCEPT !.st = "acked"]
<1>3. rec[s] \in Record /\ rec \in [Sid -> Record] BY <1>2 DEF Typed
<1>4. k \in Record /\ k.st = "acked" /\ k.client = rec[s].client /\ k.ent = rec[s].ent
  BY <1>3 DEF Record
<1>5. rec' = rec \/ (rec' = [rec EXCEPT ![s] = k] /\ rec[s].st = "pending") BY DEF Acked
<1> HIDE DEF k
<1>6. rec' \in [Sid -> Record] BY <1>3, <1>4, <1>5
<1>7. \A r \in Sid : rec'[r] = rec[r] \/ (r = s /\ rec'[r] = k /\ rec[s].st = "pending")
  BY <1>3, <1>5
<1>8. \A r \in Sid : rec'[r].st # "none" <=> rec[r].st # "none" BY <1>4, <1>7
<1>9. byStateid' = {r \in Sid : rec'[r].st # "none"}
  BY <1>1, <1>2, <1>8 DEF index, EntriesOK, Present
<1>10. Shrunk BY <1>1, <1>4, <1>7, <1>8, <1>9 DEF Shrunk, Live
<1> QED BY <1>1, <1>2, <1>6, <1>10, LadderForms, GoesOK

LEMMA StepNoAnswer ==
  ASSUME DelegIInv, NEW s \in Sid, NoAnswer(s)
  PROVE  DelegIInv'
<1> DEFINE l == [GotOut(s) EXCEPT !.at = "rung", !.rung = IF @ > Rungs THEN @ ELSE @ + 1]
<1>1. /\ ladder[s].at # "none" /\ Goes(s, l) /\ UNCHANGED <<table, index, counts, world>>
  BY DEF NoAnswer, At
<1>2. Typed /\ LaddersOK BY DEF DelegIInv
<1>3. Standing(l) BY <1>1, <1>2, LadderForms
<1> HIDE DEF l
<1>5. Shrunk /\ rec' \in [Sid -> Record] /\ UNCHANGED <<cur, ent>>
  BY <1>1, <1>2, SameTable DEF index, table, Typed
<1> QED BY <1>1, <1>3, <1>5, GoesOK

LEMMA StepDisowned ==
  ASSUME DelegIInv, NEW s \in Sid, Disowned(s)
  PROVE  DelegIInv'
<1> DEFINE l == [GotOut(s) EXCEPT !.at = "probe", !.disowned = TRUE]
<1>1. /\ ladder[s].at # "none" /\ Idle(s) /\ UNCHANGED <<table, index, counts, world>>
      /\ (Ends(s, <<OpOn("disown", s)>>) \/ Goes(s, l))
  BY DEF Disowned, At
<1>2. Typed /\ LaddersOK BY DEF DelegIInv
<1>3. Standing(l) BY <1>1, <1>2, LadderForms
<1> HIDE DEF l
<1>5. Shrunk /\ rec' \in [Sid -> Record] /\ UNCHANGED <<cur, ent>>
  BY <1>1, <1>2, SameTable DEF index, table, Typed
<1>6. CASE Goes(s, l) BY <1>1, <1>3, <1>5, <1>6, GoesOK
<1>7. CASE Ends(s, <<OpOn("disown", s)>>) BY <1>1, <1>7, EndLists, EndsOK
<1> QED BY <1>1, <1>6, <1>7

LEMMA StepRefusedRecall ==
  ASSUME DelegIInv, NEW s \in Sid, RefusedRecall(s)
  PROVE  DelegIInv'
  BY EndLists, EndsOK DEF RefusedRecall, At

LEMMA StepNotReturned ==
  ASSUME DelegIInv, NEW s \in Sid, NotReturned(s)
  PROVE  DelegIInv'
  BY LastWordIs, EndsOK DEF NotReturned, At

LEMMA StepUnreachable ==
  ASSUME DelegIInv, NEW s \in Sid, Unreachable(s)
  PROVE  DelegIInv'
<1> DEFINE l == [ladder[s] EXCEPT !.at = "park"]
<1>1. /\ ladder[s].at # "none" /\ Idle(s) /\ UNCHANGED <<table, index, counts, world>>
      /\ (Ends(s, LastWord(s)) \/ Goes(s, l))
  BY DEF Unreachable, At
<1>2. Typed /\ LaddersOK BY DEF DelegIInv
<1>3. Standing(l) BY <1>1, <1>2, LadderForms
<1> HIDE DEF l
<1>5. Shrunk /\ rec' \in [Sid -> Record] /\ UNCHANGED <<cur, ent>>
  BY <1>1, <1>2, SameTable DEF index, table, Typed
<1>6. CASE Goes(s, l) BY <1>1, <1>3, <1>5, <1>6, GoesOK
<1>7. CASE Ends(s, LastWord(s)) BY <1>1, <1>7, LastWordIs, EndsOK
<1> QED BY <1>1, <1>6, <1>7

LEMMA StepPark ==
  ASSUME DelegIInv, NEW s \in Sid, Park(s)
  PROVE  DelegIInv'
<1> DEFINE k == [ladder[s] EXCEPT !.at = "listening"]
           l == [ladder[s] EXCEPT !.at = IF ladder[s].fired THEN "top" ELSE "parked"]
<1>1. /\ ladder[s].at # "none" /\ (Goes(s, k) \/ Goes(s, l)) /\ UNCHANGED <<table, index, counts, world>>
  BY DEF Park, At
<1>2. Typed /\ LaddersOK BY DEF DelegIInv
<1>3. Standing(k) /\ Standing(l) BY <1>1, <1>2, LadderForms
<1> HIDE DEF k, l
<1>5. Shrunk /\ rec' \in [Sid -> Record] /\ UNCHANGED <<cur, ent>>
  BY <1>1, <1>2, SameTable DEF index, table, Typed
<1> QED BY <1>1, <1>3, <1>5, GoesOK

LEMMA StepUnblocks ==
  ASSUME DelegIInv, NEW s \in Sid, Unblocks(s)
  PROVE  DelegIInv'
<1> DEFINE l == [ladder[s] EXCEPT !.at = "sent"]
<1>1. /\ ladder[s].at # "none" /\ Goes(s, l) /\ UNCHANGED <<table, index, counts, world>>
  BY DEF Unblocks, At
<1>2. Typed /\ LaddersOK BY DEF DelegIInv
<1>3. Standing(l) BY <1>1, <1>2, LadderForms
<1> HIDE DEF l
<1>5. Shrunk /\ rec' \in [Sid -> Record] /\ UNCHANGED <<cur, ent>>
  BY <1>1, <1>2, SameTable DEF index, table, Typed
<1> QED BY <1>1, <1>3, <1>5, GoesOK

LEMMA StepRunsOut ==
  ASSUME DelegIInv, NEW s \in Sid, RunsOut(s)
  PROVE  DelegIInv'
<1> DEFINE l == [ladder[s] EXCEPT !.out = TRUE]
<1>1. /\ ladder[s].at # "none" /\ ladder' = [ladder EXCEPT ![s] = l]
      /\ UNCHANGED <<table, index, counts, world, task>>
  BY DEF RunsOut
<1>2. Typed /\ LaddersOK BY DEF DelegIInv
<1>3. Standing(l)
  <2>1. ladder[s] \in Ladder BY <1>2 DEF Typed
  <2>2. ladder[s].at = "parked" => ~ ladder[s].fired BY <1>2 DEF LaddersOK
  <2> QED BY <1>1, <2>1, <2>2 DEF Ladder, Standing
<1> HIDE DEF l
<1>4. Goes(s, l) BY <1>1 DEF Goes
<1>5. Shrunk /\ rec' \in [Sid -> Record] /\ UNCHANGED <<cur, ent>>
  BY <1>1, <1>2, SameTable DEF index, table, Typed
<1> QED BY <1>1, <1>3, <1>4, <1>5, GoesOK

LEMMA StepRebind ==
  ASSUME DelegIInv, NEW c \in Clients, Rebind(c)
  PROVE  DelegIInv'
<1> DEFINE of(at) == {s \in Sid : Present(s) /\ rec[s].client = c /\ ladder[s].at \in at}
           Woken(s) == [ladder[s] EXCEPT !.at = "top"]
           Awakened(s) == [ladder[s] EXCEPT !.fired = TRUE]
<1>1. /\ ladder' = [s \in Sid |-> IF s \in of({"parked"}) THEN Woken(s)
                                  ELSE IF s \in of(Heeds) THEN Awakened(s)
                                  ELSE ladder[s]]
      /\ UNCHANGED <<table, index, counts, world, task>>
  BY DEF Rebind
<1>2. Typed /\ LaddersOK BY DEF DelegIInv
<1>3. \A s \in Sid : ladder[s] \in Ladder BY <1>2 DEF Typed
<1>4. \A s \in Sid : /\ Woken(s) \in Ladder /\ Woken(s).at = "top" /\ Woken(s).first = ladder[s].first
                     /\ Awakened(s) \in Ladder /\ Awakened(s).at = ladder[s].at
                     /\ Awakened(s).first = ladder[s].first
  BY <1>3 DEF Ladder
<1>5. \A s \in Sid : \/ s \in of({"parked"}) /\ ladder'[s] = Woken(s)
                     \/ s \in of(Heeds) /\ ladder'[s] = Awakened(s)
                     \/ ladder'[s] = ladder[s]
  BY <1>1
<1>6. \A s \in Sid : /\ s \in of({"parked"}) => ladder[s].at = "parked"
                     /\ s \in of(Heeds) => ladder[s].at \in {"sent", "blocked", "park", "listening"}
  BY DEF Heeds
<1>7. DOMAIN ladder' = Sid /\ ladder' = [s \in Sid |-> ladder'[s]] BY <1>1
<1> HIDE DEF of, Woken, Awakened
<1>8. ladder' \in [Sid -> Ladder] BY <1>3, <1>4, <1>5, <1>7
<1>9. \A s \in Sid : rec'[s] = rec[s] BY <1>1 DEF table
<1>10. LaddersOK' BY <1>2, <1>4, <1>5, <1>6, <1>9 DEF LaddersOK
<1>11. Typed' BY <1>1, <1>2, <1>8 DEF Typed, table, index, counts, world
<1>12. Shrunk BY <1>1, SameTable DEF index
<1> QED BY <1>1, <1>10, <1>11, <1>12, UntouchedOK DEF world

-----------------------------------------------------------------------------
(* The steps that make, lock and collect the entry. *)

LEMMA EntryNumbers == Cardinality(Threads) \in Nat /\ 0 \notin Entries /\ IsFiniteSet(Threads)
<1>1. IsFiniteSet(Threads) BY DelegAssumption
<1>2. Cardinality(Threads) \in Nat BY <1>1, FS_CardinalityType
<1> QED BY <1>1, <1>2 DEF Entries

\* Who holds a guard holds it in the entry of the map.
LEMMA GuardedHere ==
  ASSUME DelegIInv, NEW t \in Threads, Has(task[t].todo, GuardOps)
  PROVE  cur \in Entries /\ task[t].arc = cur /\ t \in Guards(cur)
<1>1. Typed /\ TasksOK /\ GuardsOK BY DEF DelegIInv
<1>2. t \in Actors BY DEF Actors
<1>3. task[t].arc # 0 BY <1>1, <1>2, HasUnion DEF TasksOK, ArcOK
<1>4. task[t].arc \in Entries BY <1>1, <1>2, <1>3, TaskParts DEF Task
<1>5. t \in Guards(task[t].arc) BY DEF Guards
<1> QED BY <1>1, <1>4, <1>5 DEF GuardsOK

LEMMA NoGuards ==
  ASSUME DelegIInv, NEW i \in Entries, ent[i].guards = 0
  PROVE  Guards(i) = {}
<1>1. Guards(i) \subseteq Threads BY DEF Guards
<1>2. IsFiniteSet(Guards(i)) BY <1>1, EntryNumbers, FS_Subset
<1>3. Cardinality(Guards(i)) = 0 BY DEF DelegIInv, GuardsOK
<1> QED BY <1>2, <1>3, FS_EmptySet

LEMMA EnteredOK ==
  ASSUME DelegIInv, NEW t \in Threads, ~ Has(task[t].todo, GuardOps),
         NEW k \in Task, NEW o \in LockOps, Len(k.todo) = 1, k.todo[1].op = o,
         o \in ClientOps => k.client \in Clients,
         Enter(t, k), UNCHANGED <<rec, index, counts, world, ladder>>
  PROVE  DelegIInv'
<1>1. Typed /\ TasksOK /\ EntriesOK /\ GuardsOK /\ BarredOK /\ PromiseOK /\ WritersOK /\ LaddersOK
  BY DEF DelegIInv
<1>2. Entered(t, k) BY <1>1, EnterIs
<1>3. Kept(t) BY <1>1, <1>2, EnteredKept
<1>4. t \in Actors BY DEF Actors
<1>5. PromisesKept BY <1>3, <1>4, ReplacedPromises
<1>6. NewEntry \in Entry /\ ~ NewEntry.dead /\ NewEntry.guards = 0
  BY DEF NewEntry, Entry
<1>7. cur' \in Entries /\ ent \in [Entries -> Entry] BY <1>1, <1>2 DEF Entered, Typed
<1>8. ent' \in [Entries -> Entry] BY <1>2, <1>6, <1>7 DEF Entered
<1>9. Typed' BY <1>1, <1>3, <1>7, <1>8 DEF Typed, index, counts, world, Kept
<1>10. TasksOK' BY <1>3 DEF Kept
<1>11. \A i \in Entries : Guards(i)' = Guards(i) BY <1>3 DEF Kept
<1>12. EntriesOK' /\ GuardsOK'
  <2>1. CASE cur # 0
    <3>1. cur' = cur /\ ent' = ent BY <1>2, <2>1 DEF Entered
    <3>2. EntriesOK' BY <1>1, <3>1 DEF EntriesOK, Present, index
    <3> QED BY <1>1, <1>11, <3>1, <3>2 DEF GuardsOK
  <2>2. CASE cur = 0
    <3>1. ent' = [ent EXCEPT ![cur'] = NewEntry] /\ \A a \in Actors : task[a].arc # cur'
      BY <1>2, <2>2 DEF Entered
    <3>2. \A i \in Entries : ent'[i] = (IF i = cur' THEN NewEntry ELSE ent[i]) BY <1>7, <3>1
    <3>3. \A i \in Entries : i # cur /\ ent[i].dead
      BY <1>1, <2>2, EntryNumbers DEF EntriesOK
    <3>4. \A s \in Sid : ~ Present(s) BY <1>1, <2>2 DEF EntriesOK
    <3>5. EntriesOK' BY <1>1, <1>6, <3>2, <3>3, <3>4 DEF EntriesOK, Present, index
    <3>6. \A i \in Entries : Guards(i) = {} BY <1>1, <3>3 DEF GuardsOK
    <3>7. \A i \in Entries : ent[i].guards = 0
      BY <1>1, <3>6, FS_EmptySet DEF GuardsOK
    <3>8. GuardsOK' BY <1>6, <1>11, <3>2, <3>6, <3>7, FS_EmptySet DEF GuardsOK
    <3> QED BY <3>5, <3>8
  <2> QED BY <2>1, <2>2
<1>13. \A b \in Threads : /\ Has(task'[b].todo, GuardOps) <=> Has(task[b].todo, GuardOps)
                          /\ Has(task'[b].todo, {"release"}) <=> Has(task[b].todo, {"release"})
                          /\ Has(task[b].todo, GuardOps) => task'[b].client = task[b].client
  BY <1>3 DEF Kept, Actors
<1>14. BarredOK' BY <1>1, <1>13 DEF BarredOK
<1>15. \A b \in Threads : Has(task[b].todo, {"release"}) => Has(task[b].todo, GuardOps)
  BY DEF Has, GuardOps
<1>16. PromiseOK'
  <2> SUFFICES ASSUME NEW b \in Threads, Has(task'[b].todo, {"release"}), NEW s \in Sid,
                      Live(s)', rec'[s].client # task'[b].client
               PROVE  Promised(b, s)'
    BY DEF PromiseOK
  <2>1. Has(task[b].todo, {"release"}) /\ task'[b].client = task[b].client BY <1>13, <1>15
  <2>2. Live(s) /\ rec[s].client # task[b].client BY <2>1 DEF Live
  <2>3. Promised(b, s) BY <1>1, <2>1, <2>2 DEF PromiseOK
  <2> QED BY <1>5, <2>1, <2>3 DEF PromisesKept
<1>17. WritersOK' BY <1>1 DEF WritersOK, world
<1>18. LaddersOK' BY <1>1 DEF LaddersOK
<1> QED BY <1>9, <1>10, <1>12, <1>14, <1>16, <1>17, <1>18 DEF DelegIInv

\* A request of one operation.
LEMMA AskedTask ==
  ASSUME NEW c \in Parties, NEW o \in LockOps
  PROVE  Asked(c, <<Op(o)>>) \in Task /\ Len(Asked(c, <<Op(o)>>).todo) = 1
         /\ Asked(c, <<Op(o)>>).todo[1].op = o /\ Asked(c, <<Op(o)>>).client = c
<1>1. Op(o) \in OpRec /\ Op(o).op = o BY DEF Op, OpRec, OpName, Parties
<1> DEFINE q == <<Op(o)>>
<1>2. q \in Seq(OpRec) /\ Len(q) = 1 /\ q[1] = Op(o) BY <1>1
<1> HIDE DEF q
<1>3. Asked(c, q) \in Task /\ Asked(c, q).todo = q /\ Asked(c, q).client = c
  BY <1>2 DEF Asked, Task
<1> QED BY <1>1, <1>2, <1>3 DEF q

LEMMA StepOpenRead ==
  ASSUME DelegIInv, NEW t \in Threads, NEW c \in Clients, OpenRead(t, c)
  PROVE  DelegIInv'
<1>1. Typed /\ TasksOK /\ t \in Actors BY DEF DelegIInv, Actors
<1>2. Idle(t) /\ Enter(t, Asked(c, <<Op("grant")>>)) /\ UNCHANGED <<rec, index, counts, world, ladder>>
  BY DEF OpenRead
<1>3. ~ Has(task[t].todo, GuardOps) BY <1>1, <1>2, IdleHas
<1>4. c \in Parties /\ "grant" \in LockOps BY DEF Parties, LockOps
<1> QED BY <1>2, <1>3, <1>4, AskedTask, EnteredOK

LEMMA StepOpenWrite ==
  ASSUME DelegIInv, NEW t \in Threads, NEW c \in Clients, OpenWrite(t, c)
  PROVE  DelegIInv'
<1>1. Typed /\ TasksOK /\ t \in Actors BY DEF DelegIInv, Actors
<1>2. Idle(t) /\ Enter(t, Asked(c, <<Op("open")>>)) /\ UNCHANGED <<rec, index, counts, world, ladder>>
  BY DEF OpenWrite
<1>3. ~ Has(task[t].todo, GuardOps) BY <1>1, <1>2, IdleHas
<1>4. c \in Parties /\ "open" \in LockOps BY DEF Parties, LockOps
<1> QED BY <1>2, <1>3, <1>4, AskedTask, EnteredOK

LEMMA StepMutate ==
  ASSUME DelegIInv, NEW t \in Threads, NEW m \in Parties, Mutate(t, m)
  PROVE  DelegIInv'
<1>1. Typed /\ TasksOK /\ t \in Actors BY DEF DelegIInv, Actors
<1>2. Idle(t) /\ Enter(t, Asked(m, <<Op("fence")>>)) /\ UNCHANGED <<rec, index, counts, world, ladder>>
  BY DEF Mutate
<1>3. ~ Has(task[t].todo, GuardOps) BY <1>1, <1>2, IdleHas
<1>4. "fence" \in LockOps /\ "fence" \notin ClientOps BY DEF ClientOps, LockOps
<1> QED BY <1>2, <1>3, <1>4, AskedTask, EnteredOK

\* A thread that is to lock the entry has nothing else to do.
LEMMA LockIsAll ==
  ASSUME Typed, TasksOK, NEW a \in Actors, NEW o \in LockOps, NextIs(a, o)
  PROVE  /\ a \in Threads /\ Len(task[a].todo) = 1 /\ task[a].todo[1].op = o
         /\ ~ Has(task[a].todo, GuardOps) /\ task[a].arc \in Entries
         /\ o \in ClientOps => task[a].client \in Clients
<1>1. task[a].todo[1].op = o /\ 1 \in 1 .. Len(task[a].todo) BY HeadIs
<1>2. Has(task[a].todo, LockOps) BY <1>1 DEF Has
<1>3. a \notin Sid BY <1>2, HasUnion DEF TasksOK, ArcOK
<1>4. Len(task[a].todo) = 1 BY <1>1 DEF TasksOK, TodoOK
<1>5. \A i \in 1 .. Len(task[a].todo) : i = 1 BY <1>4
<1>6. ~ Has(task[a].todo, GuardOps) BY <1>1, <1>5 DEF Has, LockOps, GuardOps
<1>7. task[a].arc # 0 BY <1>2, HasUnion DEF TasksOK, ArcOK
<1>8. task[a].arc \in Entries BY <1>7, TaskParts DEF Task
<1>9. o \in ClientOps => Has(task[a].todo, ClientOps) BY <1>1 DEF Has
<1> QED BY <1>1, <1>3, <1>4, <1>6, <1>8, <1>9 DEF Actors, TasksOK

LEMMA StepAgain ==
  ASSUME DelegIInv, NEW t \in Actors, Again(t)
  PROVE  DelegIInv'
<1>1. Typed /\ TasksOK BY DEF DelegIInv
<1>2. Enter(t, task[t]) /\ UNCHANGED <<rec, index, counts, world, ladder>> BY DEF Again
<1>3. PICK o \in LockOps : NextIs(t, o) BY DEF Again, Locks, LockOps
<1>4. /\ t \in Threads /\ Len(task[t].todo) = 1 /\ task[t].todo[1].op = o
      /\ ~ Has(task[t].todo, GuardOps)
      /\ o \in ClientOps => task[t].client \in Clients
  BY <1>1, <1>3, LockIsAll
<1>5. task[t] \in Task BY <1>1, TaskParts
<1> QED BY <1>2, <1>4, <1>5, EnteredOK

LEMMA StepCollect ==
  ASSUME DelegIInv, NEW a \in Actors, Collect(a)
  PROVE  DelegIInv'
<1>1. NextIs(a, "gc") /\ Then(a, <<>>) /\ UNCHANGED <<rec, index, counts, world, ladder>>
  BY DEF Collect
<1>2. "gc" \notin LockOps \cup GuardOps \cup {"revoke"} BY DEF LockOps, GuardOps
<1>3. Typed /\ TasksOK /\ EntriesOK /\ GuardsOK /\ BarredOK /\ PromiseOK /\ WritersOK /\ LaddersOK
  BY DEF DelegIInv
<1>4. UNCHANGED writers BY <1>1 DEF world
<1>5. CASE UNCHANGED <<cur, ent>>
  <2>1. Shrunk BY <1>1, <1>5, SameTable DEF table, index
  <2>2. task' \in [Actors -> Task] => Typed'
    BY <1>1, <1>3, <1>5 DEF Typed, index, counts, world
  <2> QED BY <1>1, <1>2, <1>4, <2>1, <2>2, FrontNone, WorkedOK
<1>6. CASE cur # 0 /\ Unneeded(cur) /\ cur' = 0 /\ ent' = [ent EXCEPT ![cur].dead = TRUE]
  <2>1. cur \in Entries /\ ent \in [Entries -> Entry] /\ ent[cur] \in Entry BY <1>3, <1>6 DEF Typed
  <2> DEFINE k == [ent[cur] EXCEPT !.dead = TRUE]
  <2>2. k \in Entry /\ k.dead /\ k.guards = ent[cur].guards BY <2>1 DEF Entry
  <2>3. ent' = [ent EXCEPT ![cur] = k] BY <1>6
  <2> HIDE DEF k
  <2>4. ent' \in [Entries -> Entry] BY <2>1, <2>2, <2>3
  <2>5. \A i \in Entries : ent'[i] = (IF i = cur THEN k ELSE ent[i]) BY <2>1, <2>3
  <2>6. \A s \in Sid : ~ Present(s) BY <1>3, <1>6 DEF EntriesOK, Unneeded, InEntry
  <2>7. ent[cur].guards = 0 BY <1>6 DEF Unneeded
  <2>8. \A i \in Entries : Guards(i) = {} BY <1>3, <2>1, <2>7, NoGuards DEF GuardsOK
  <2>9. ~ Idle(a) /\ task[a].todo[1].op = "gc" BY <1>1, <1>3, HeadIs
  <2>10. Kept(a) BY <1>1, <1>2, <1>3, <2>9, FrontNone, WorkedKept
  <2>11. \A i \in Entries : Guards(i)' = Guards(i) BY <2>10 DEF Kept
  <2>12. Typed' BY <1>1, <1>3, <1>6, <2>4, <2>10 DEF Typed, index, counts, world, Kept
  <2>13. TasksOK' BY <2>10 DEF Kept
  <2>14. EntriesOK'
    BY <1>1, <1>3, <1>6, <2>2, <2>5, <2>6, EntryNumbers DEF EntriesOK, Present, index
  <2>15. \A i \in Entries : ent'[i].guards = ent[i].guards BY <2>2, <2>5
  <2>16. GuardsOK' BY <1>3, <2>8, <2>11, <2>15 DEF GuardsOK
  <2>17. \A t \in Threads : ~ Has(task'[t].todo, GuardOps) /\ ~ Has(task'[t].todo, {"release"})
    <3>1. \A t \in Threads : ~ Has(task[t].todo, GuardOps) BY <2>8, GuardedHere
    <3>2. \A t \in Threads : Has(task[t].todo, {"release"}) => Has(task[t].todo, GuardOps)
      BY DEF Has, GuardOps
    <3> QED BY <2>10, <3>1, <3>2 DEF Kept, Actors
  <2>18. BarredOK' BY <2>17 DEF BarredOK
  <2>19. PromiseOK' BY <2>17 DEF PromiseOK
  <2>20. WritersOK' BY <1>1, <1>3, <1>4 DEF WritersOK
  <2>21. LaddersOK' BY <1>1, <1>3 DEF LaddersOK
  <2> QED BY <2>12, <2>13, <2>14, <2>16, <2>18, <2>19, <2>20, <2>21 DEF DelegIInv
<1> QED BY <1>5, <1>6 DEF Collect

-----------------------------------------------------------------------------
(* The grant, the fence and the guard. *)

\* An entry that was not collected is the map's.
LEMMA UsableIsCur ==
  ASSUME DelegIInv, NEW i \in Entries, Usable(ent[i])
  PROVE  i = cur
  BY DEF DelegIInv, EntriesOK, Usable

\* The cooldown of the entry is over.
LEMMA Thawed ==
  ASSUME DelegIInv, NEW i \in Entries, ent' = [ent EXCEPT ![i].cool = "no"]
  PROVE  /\ ent' \in [Entries -> Entry]
         /\ \A j \in Entries : ent'[j].guards = ent[j].guards /\ ent'[j].dead = ent[j].dead
<1>1. ent \in [Entries -> Entry] /\ ent[i] \in Entry BY DEF DelegIInv, Typed
<1> DEFINE k == [ent[i] EXCEPT !.cool = "no"]
<1>2. k \in Entry /\ k.guards = ent[i].guards /\ k.dead = ent[i].dead BY <1>1 DEF Entry
<1>3. ent' = [ent EXCEPT ![i] = k] OBVIOUS
<1> HIDE DEF k
<1> QED BY <1>1, <1>2, <1>3

LEMMA LeastMember ==
  ASSUME NEW T \in SUBSET Nat, T # {}
  PROVE  \E n \in T : \A m \in T : n <= m
<1> DEFINE R == OpToRel(<, Nat)
<1>1. PICK x \in T : \A y \in T : ~ (<<y, x>> \in R)
  <2>1. IsWellFoundedOn(R, Nat) BY NatLessThanWellFounded, Zenon
  <2> HIDE DEF R
  <2> QED BY <2>1, WFMin
<1>2. \A y \in T : ~ (y < x) BY <1>1, Zenon DEF OpToRel
<1> QED BY <1>2

LEMMA StepGrant ==
  ASSUME DelegIInv, NEW t \in Actors, Grant(t)
  PROVE  DelegIInv'
<1> DEFINE i == task[t].arc
           c == task[t].client
<1>1. /\ NextIs(t, "grant") /\ Usable(ent[i]) /\ task' = [task EXCEPT ![t] = NoTask]
      /\ UNCHANGED <<cur, writers, marked, bit, gone, crossed, ladder>>
  BY DEF Grant
<1>2. Typed /\ TasksOK /\ EntriesOK /\ GuardsOK /\ BarredOK /\ PromiseOK /\ WritersOK /\ LaddersOK
  BY DEF DelegIInv
<1>3. /\ t \in Threads /\ ~ Has(task[t].todo, GuardOps) /\ i \in Entries /\ c \in Clients
  <2>1. "grant" \in LockOps /\ "grant" \in ClientOps BY DEF LockOps, ClientOps
  <2> QED BY <1>1, <1>2, <2>1, LockIsAll
<1>4. i = cur BY <1>1, <1>3, UsableIsCur
<1>5. Kept(t)
  <2>1. NoTask \in Task /\ NoTask.todo = <<>> /\ NoTask.arc = 0
    BY DEF NoTask, Task, Parties
  <2> QED BY <1>1, <1>2, <1>3, <2>1, FrontNone, FrontalOK, ReplacedKept
<1>6. PromisesKept BY <1>3, <1>5, ReplacedPromises
<1>7. task' \in [Actors -> Task] BY <1>5 DEF Kept
<1>8. CASE UNCHANGED <<rec, ent, index, counts, late>>
  <2>1. Shrunk BY <1>1, <1>8, SameTable DEF table, index
  <2>2. Typed' BY <1>1, <1>2, <1>7, <1>8 DEF Typed, index, counts
  <2>3. LaddersOK' BY <1>1, <1>2, <2>1, LaddersKept
  <2> QED BY <1>1, <1>5, <1>6, <2>1, <2>2, <2>3, ShrunkOK
<1>9. CASE ent' = [ent EXCEPT ![i].cool = "no"] /\ UNCHANGED <<rec, index, counts, late>>
  <2>1. /\ ent' \in [Entries -> Entry]
        /\ \A j \in Entries : ent'[j].guards = ent[j].guards /\ ent'[j].dead = ent[j].dead
    BY <1>3, <1>9, Thawed
  <2>2. Shrunk BY <1>1, <1>2, <1>9, <2>1 DEF Shrunk, EntriesOK, Present, Live, index
  <2>3. Typed' BY <1>1, <1>2, <1>7, <1>9, <2>1 DEF Typed, index, counts
  <2>4. LaddersOK' BY <1>1, <1>2, <2>2, LaddersKept
  <2> QED BY <1>1, <1>5, <1>6, <2>2, <2>3, <2>4, ShrunkOK
<1>10. CASE /\ ~ Blocked(i) /\ ~ Refused(i, c) /\ Unminted # {}
            /\ LET s == CHOOSE n \in Unminted : \A m \in Unminted : n <= m
               IN  /\ rec' = [rec EXCEPT ![s] = [client |-> c, st |-> "granted", ent |-> i]]
                   /\ byStateid' = byStateid \cup {s}
                   /\ byClient' = [byClient EXCEPT ![c] = @ \cup {s}]
            /\ ent' = [ent EXCEPT ![i].cool = "no"]
            /\ liveClient' = [liveClient EXCEPT ![c] = @ + 1]
            /\ liveGlobal' = liveGlobal + 1
            /\ late' = IF c \in gone THEN late \cup {c} ELSE late
  <2>0. PICK s \in Unminted :
          /\ rec' = [rec EXCEPT ![s] = [client |-> c, st |-> "granted", ent |-> i]]
          /\ byStateid' = byStateid \cup {s}
          /\ byClient' = [byClient EXCEPT ![c] = byClient[c] \cup {s}]
    <3>1. Unminted \subseteq Nat BY DEF Unminted, Sid
    <3>2. \E n \in Unminted : \A m \in Unminted : n <= m BY <1>10, <3>1, LeastMember
    <3> QED BY <1>10, <3>2
  <2>1. s \in Sid /\ ladder[s].at = "none" /\ ~ Present(s) BY DEF Unminted
  <2>2. /\ ent' \in [Entries -> Entry]
        /\ \A j \in Entries : ent'[j].guards = ent[j].guards /\ ent'[j].dead = ent[j].dead
    BY <1>3, <1>10, Thawed
  <2> DEFINE k == [client |-> c, st |-> "granted", ent |-> i]
  <2>3. k \in Record /\ k.client = c /\ k.st = "granted" /\ k.ent = i
    BY <1>3 DEF Record, Parties
  <2>4. rec \in [Sid -> Record] /\ byClient \in [Clients -> SUBSET Sid]
        /\ liveClient \in [Clients -> Nat]
    BY <1>2 DEF Typed
  <2>5. rec' = [rec EXCEPT ![s] = k] BY <2>0
  <2> HIDE DEF k
  <2>6. rec' \in [Sid -> Record] /\ \A r \in Sid : rec'[r] = (IF r = s THEN k ELSE rec[r])
    BY <2>1, <2>3, <2>4, <2>5
  <2>7. byClient' \in [Clients -> SUBSET Sid] BY <1>3, <2>0, <2>1, <2>4
  <2>8. liveClient' \in [Clients -> Nat] /\ liveGlobal' \in Int
    BY <1>2, <1>3, <1>10, <2>4 DEF Typed
  <2>9. Typed'
    <3>1. late' \subseteq Clients /\ byStateid' \subseteq Sid BY <1>2, <1>3, <1>10, <2>0, <2>1 DEF Typed
    <3> QED BY <1>1, <1>2, <1>7, <2>2, <2>6, <2>7, <2>8, <3>1 DEF Typed
  <2>10. TasksOK' BY <1>5 DEF Kept
  <2>11. \A r \in Sid : rec'[r].st # "none" <=> r = s \/ Present(r) BY <2>3, <2>6 DEF Present
  <2>12. EntriesOK'
    <3>1. \A j \in Entries : j = cur' <=> ~ ent'[j].dead BY <1>1, <1>2, <2>2 DEF EntriesOK
    <3>2. \A r \in Sid : rec'[r].st # "none" => cur' # 0 /\ rec'[r].ent = cur' /\ rec'[r].client \in Clients
      BY <1>1, <1>2, <1>3, <1>4, <2>3, <2>6, <2>11, EntryNumbers DEF EntriesOK
    <3>3. byStateid' = {r \in Sid : rec'[r].st # "none"} BY <1>2, <2>0, <2>1, <2>11 DEF EntriesOK
    <3> QED BY <3>1, <3>2, <3>3 DEF EntriesOK, Present
  <2>13. \A j \in Entries : Guards(j)' = Guards(j) BY <1>5 DEF Kept
  <2>14. GuardsOK' BY <1>1, <1>2, <2>2, <2>13 DEF GuardsOK
  <2>15. ent[i].guards = 0
    <3>1. IsFiniteSet(Guards(i))
      <4>1. Guards(i) \subseteq Threads BY DEF Guards
      <4> QED BY <4>1, EntryNumbers, FS_Subset
    <3>2. ent[i].guards = Cardinality(Guards(i)) /\ Cardinality(Guards(i)) \in Nat
      BY <1>2, <1>3, <3>1, FS_CardinalityType DEF GuardsOK
    <3> QED BY <1>10, <3>2 DEF Blocked
  <2>16. Guards(cur) = {} BY <1>3, <1>4, <2>15, NoGuards
  <2>17. \A b \in Threads : ~ Has(task'[b].todo, GuardOps) /\ ~ Has(task'[b].todo, {"release"})
    <3>1. \A b \in Threads : ~ Has(task[b].todo, GuardOps) BY <2>16, GuardedHere
    <3>2. \A b \in Threads : Has(task[b].todo, {"release"}) => Has(task[b].todo, GuardOps)
      BY DEF Has, GuardOps
    <3> QED BY <1>5, <3>1, <3>2 DEF Kept, Actors
  <2>18. BarredOK' BY <2>17 DEF BarredOK
  <2>19. PromiseOK' BY <2>17 DEF PromiseOK
  <2>20. WritersOK' BY <1>1, <1>10 DEF WritersOK, Refused, NoWriteOpen
  <2>21. LaddersOK' BY <1>1, <1>2, <2>1, <2>6 DEF LaddersOK
  <2> QED BY <2>9, <2>10, <2>12, <2>14, <2>18, <2>19, <2>20, <2>21 DEF DelegIInv
<1> QED BY <1>8, <1>9, <1>10 DEF Grant

LEMMA StepDrop ==
  ASSUME DelegIInv, NEW t \in Actors, Drop(t)
  PROVE  DelegIInv'
<1> DEFINE i == task[t].arc
           q == task[t].todo
<1>1. /\ ent' = [ent EXCEPT ![i].guards = ent[i].guards - 1]
      /\ task' = [task EXCEPT ![t] = [todo |-> Tail(q), arc |-> 0, client |-> task[t].client]]
      /\ UNCHANGED <<cur, rec, index, counts, world, ladder>>
  BY DEF Drop, Asked
<1>2. Typed /\ TasksOK /\ EntriesOK /\ GuardsOK /\ BarredOK /\ PromiseOK /\ WritersOK /\ LaddersOK
  BY DEF DelegIInv
<1>3. PICK o \in GuardOps : NextIs(t, o) BY DEF Drop, GuardOps
<1>4. q[1].op = o /\ 1 \in 1 .. Len(q) /\ q # <<>> BY <1>2, <1>3, HeadIs DEF Idle
<1>5. Has(q, GuardOps) BY <1>4 DEF Has
<1>6. t \in Threads
  <2>1. t \notin Sid BY <1>2, <1>5, HasUnion DEF TasksOK, ArcOK
  <2> QED BY <2>1 DEF Actors
<1>7. cur \in Entries /\ i = cur /\ t \in Guards(cur) BY <1>5, <1>6, GuardedHere
<1>8. q \in Seq(OpRec) BY <1>2, TaskParts
<1>9. Tail(q) \in Seq(OpRec) /\ \A j \in 1 .. Len(Tail(q)) : Tail(q)[j].op = "gc"
  <2>0. q \in Seq(OpRec) /\ q # <<>> BY <1>4, <1>8
  <2>00. \A j, h \in 1 .. Len(q) : q[j].op \in GuardOps /\ j < h => q[h].op = "gc"
    BY <1>2 DEF TasksOK, TodoOK
  <2> HIDE DEF q
  <2>1. Tail(q) \in Seq(OpRec) /\ Len(Tail(q)) = Len(q) - 1 /\ Len(q) \in Nat BY <2>0
  <2>2. \A j \in 1 .. Len(q) - 1 : Tail(q)[j] = q[j + 1] /\ j + 1 \in 1 .. Len(q) /\ 1 < j + 1
    BY <2>0, <2>1
  <2>3. \A j \in 2 .. Len(q) : q[j].op = "gc" BY <1>4, <2>00, <2>1
  <2> QED BY <2>1, <2>2, <2>3
<1> DEFINE k == [todo |-> Tail(q), arc |-> 0, client |-> task[t].client]
<1>10. k \in Task /\ k.todo = Tail(q) /\ k.arc = 0
  BY <1>2, <1>9, TaskParts DEF Task
<1>11. \A X : Has(k.todo, X) => "gc" \in X BY <1>9, <1>10 DEF Has
<1>12. TodoOK(k.todo) /\ NamesOK(k.todo)
  BY <1>9, <1>10 DEF TodoOK, NamesOK, LockOps, GuardOps, RunOps, CountOps
<1>13. task' = [task EXCEPT ![t] = k] BY <1>1
<1> HIDE DEF k
<1>14. task' \in [Actors -> Task] /\ task'[t] = k /\ \A b \in Actors : b # t => task'[b] = task[b]
  BY <1>2, <1>10, <1>13 DEF Typed
<1>15. /\ ~ Has(task'[t].todo, GuardOps) /\ ~ Has(task'[t].todo, LockOps) /\ ~ Has(task'[t].todo, RunOps)
       /\ ~ Has(task'[t].todo, ClientOps) /\ ~ Has(task'[t].todo, {"release"})
  BY <1>11, <1>14 DEF GuardOps, LockOps, RunOps, ClientOps
<1>16. TasksOK'
  <2> SUFFICES ASSUME NEW b \in Actors
               PROVE  /\ TodoOK(task'[b].todo) /\ NamesOK(task'[b].todo) /\ ArcOK(b)'
                      /\ Has(task'[b].todo, ClientOps) => task'[b].client \in Clients
    BY DEF TasksOK
  <2>1. CASE b = t
    <3>1. ArcOK(t)' BY <1>10, <1>14, <1>15, HasUnion DEF ArcOK
    <3> QED BY <1>12, <1>14, <1>15, <2>1, <3>1
  <2>2. CASE b # t
    <3>1. task'[b] = task[b] BY <1>14, <2>2
    <3> QED BY <1>2, <3>1 DEF TasksOK, ArcOK
  <2> QED BY <2>1, <2>2
<1>17. ent[cur] \in Entry /\ ent \in [Entries -> Entry] BY <1>2, <1>7 DEF Typed
<1> DEFINE e == [ent[cur] EXCEPT !.guards = ent[cur].guards - 1]
<1>18. e \in Entry /\ e.dead = ent[cur].dead /\ e.guards = ent[cur].guards - 1 BY <1>17 DEF Entry
<1>19. ent' = [ent EXCEPT ![cur] = e] BY <1>1, <1>7
<1> HIDE DEF e
<1>20. ent' \in [Entries -> Entry] /\ \A j \in Entries : ent'[j] = (IF j = cur THEN e ELSE ent[j])
  BY <1>17, <1>18, <1>19
<1>21. Typed' BY <1>1, <1>2, <1>14, <1>20 DEF Typed, index, counts, world
<1>22. EntriesOK' BY <1>1, <1>2, <1>18, <1>20 DEF EntriesOK, Present, index
<1>23. \A j \in Entries : Guards(j)' = Guards(j) \ {t}
  <2>1. \A b \in Threads : b # t => task'[b] = task[b] BY <1>14 DEF Actors
  <2> QED BY <1>15, <2>1 DEF Guards
<1>24. GuardsOK'
  <2>1. Guards(cur) \subseteq Threads BY DEF Guards
  <2>2. IsFiniteSet(Guards(cur)) BY <2>1, EntryNumbers, FS_Subset
  <2>3. Cardinality(Guards(cur) \ {t}) = Cardinality(Guards(cur)) - 1
    BY <1>7, <2>2, FS_RemoveElement
  <2>4. \A j \in Entries : j # cur => Guards(j) = {} BY <1>2 DEF GuardsOK
  <2>5. \A j \in Entries : ent'[j].guards = Cardinality(Guards(j)')
    <3> SUFFICES ASSUME NEW j \in Entries PROVE ent'[j].guards = Cardinality(Guards(j)')
      OBVIOUS
    <3>1. CASE j = cur BY <1>2, <1>18, <1>20, <1>23, <2>3, <3>1 DEF GuardsOK
    <3>2. CASE j # cur
      <4>1. Guards(j)' = Guards(j) BY <1>23, <2>4, <3>2
      <4> QED BY <1>2, <1>20, <3>2, <4>1 DEF GuardsOK
    <3> QED BY <3>1, <3>2
  <2> QED BY <1>1, <1>23, <2>4, <2>5 DEF GuardsOK
<1>25. BarredOK'
  <2>1. \A b \in Threads : Has(task'[b].todo, GuardOps) => Has(task[b].todo, GuardOps)
    BY <1>14, <1>15 DEF Actors
  <2> QED BY <1>1, <1>2, <2>1 DEF BarredOK
<1>26. PromiseOK'
  <2> SUFFICES ASSUME NEW b \in Threads, Has(task'[b].todo, {"release"}), NEW s \in Sid,
                      Live(s)', rec'[s].client # task'[b].client
               PROVE  Promised(b, s)'
    BY DEF PromiseOK
  <2>1. b # t BY <1>15
  <2>2. task'[b] = task[b] BY <1>14, <2>1 DEF Actors
  <2>3. Live(s) /\ rec[s].client # task[b].client BY <1>1, <2>2 DEF Live
  <2>4. Promised(b, s) BY <1>2, <2>2, <2>3 DEF PromiseOK
  <2> QED BY <2>2, <2>4 DEF Promised
<1>27. WritersOK' BY <1>1, <1>2 DEF WritersOK, world
<1>28. LaddersOK' BY <1>1, <1>2 DEF LaddersOK
<1> QED BY <1>16, <1>21, <1>22, <1>24, <1>25, <1>26, <1>27, <1>28 DEF DelegIInv

\* The list a fence leaves: revocations first, the guard near the end.
FenceList(r, n, S) ==
  /\ n \in Nat /\ r \in Seq(OpRec)
  /\ \A j \in 1 .. n : /\ j \in 1 .. Len(r) /\ Harmless(r[j])
                       /\ r[j].op = "revoke" /\ r[j].sid \in S
  /\ \A s \in S : \E j \in 1 .. n : r[j].sid = s
  /\ \/ Len(r) = n + 2 /\ r[n + 1].op = "drop" /\ r[n + 2].op = "gc"
     \/ /\ Len(r) = n + 3 /\ r[n + 1].op \in RunOps
        /\ r[n + 2].op = "release" /\ r[n + 3].op = "gc"

LEMMA FenceListOK ==
  ASSUME NEW r, NEW n, NEW S, FenceList(r, n, S)
  PROVE  /\ TodoOK(r) /\ NamesOK(r) /\ Has(r, GuardOps) /\ ~ Has(r, LockOps)
         /\ Has(r, ClientOps) => r[n + 1].op = "opening" /\ Len(r) = n + 3
         /\ Has(r, {"release"}) => Len(r) = n + 3
         /\ \A s \in S : \E j \in 1 .. Len(r) : r[j].op = "revoke" /\ r[j].sid = s
<1>1. n \in Nat /\ Len(r) \in {n + 2, n + 3} BY DEF FenceList
<1>2. \A j \in 1 .. Len(r) : \/ j \in 1 .. n \/ j = n + 1 \/ j = n + 2
                             \/ (j = n + 3 /\ Len(r) = n + 3)
  BY <1>1
<1>3. \A j \in 1 .. n : j \in 1 .. Len(r) /\ Harmless(r[j]) /\ r[j].op = "revoke" BY DEF FenceList
<1>4. CASE Len(r) = n + 2 /\ r[n + 1].op = "drop" /\ r[n + 2].op = "gc"
  <2>1. \A j \in 1 .. Len(r) : \/ r[j].op = "revoke" /\ r[j].sid \in Sid /\ j < n + 1
                               \/ j = n + 1 /\ r[j].op = "drop"
                               \/ j = n + 2 /\ r[j].op = "gc"
    BY <1>1, <1>2, <1>3, <1>4 DEF Harmless
  <2>2. TodoOK(r) BY <1>1, <2>1 DEF TodoOK, LockOps, GuardOps, RunOps, CountOps
  <2>3. NamesOK(r) BY <2>1 DEF NamesOK
  <2>4. n + 1 \in 1 .. Len(r) BY <1>1, <1>4
  <2>5. Has(r, GuardOps) BY <1>4, <2>4 DEF Has, GuardOps
  <2>6. ~ Has(r, LockOps) /\ ~ Has(r, ClientOps) /\ ~ Has(r, {"release"})
    BY <2>1 DEF Has, LockOps, ClientOps
  <2> QED BY <1>3, <2>2, <2>3, <2>5, <2>6 DEF FenceList
<1>5. CASE /\ Len(r) = n + 3 /\ r[n + 1].op \in RunOps
           /\ r[n + 2].op = "release" /\ r[n + 3].op = "gc"
  <2>1. \A j \in 1 .. Len(r) : \/ r[j].op = "revoke" /\ r[j].sid \in Sid /\ j < n + 1
                               \/ j = n + 1 /\ r[j].op \in RunOps
                               \/ j = n + 2 /\ r[j].op = "release"
                               \/ j = n + 3 /\ r[j].op = "gc"
    BY <1>1, <1>2, <1>3, <1>5 DEF Harmless
  <2>2. TodoOK(r)
    <3>1. \A i \in 1 .. Len(r) : r[i].op \notin LockOps /\ r[i].op \notin CountOps
      BY <2>1 DEF LockOps, RunOps, CountOps
    <3>2. \A i, j \in 1 .. Len(r) : r[i].op \in GuardOps /\ i < j => r[j].op = "gc"
      BY <1>1, <2>1 DEF GuardOps, RunOps
    <3>3. \A i \in 1 .. Len(r) : r[i].op \in RunOps => i = n + 1 BY <2>1 DEF RunOps
    <3>4. n + 2 \in 1 .. Len(r) /\ n + 1 + 1 = n + 2 BY <1>1, <1>5
    <3>5. \A i \in 1 .. Len(r) : r[i].op \in RunOps => i + 1 \in 1 .. Len(r) /\ r[i + 1].op = "release"
      BY <1>5, <3>3, <3>4
    <3> QED BY <3>1, <3>2, <3>5 DEF TodoOK
  <2>3. NamesOK(r) BY <2>1 DEF NamesOK, RunOps
  <2>4. n + 2 \in 1 .. Len(r) BY <1>1, <1>5
  <2>5. Has(r, GuardOps) BY <1>5, <2>4 DEF Has, GuardOps
  <2>6. ~ Has(r, LockOps) BY <2>1 DEF Has, LockOps, RunOps
  <2>7. Has(r, ClientOps) => r[n + 1].op = "opening"
    BY <2>1 DEF Has, ClientOps, RunOps
  <2> QED BY <1>3, <1>5, <2>2, <2>3, <2>5, <2>6, <2>7 DEF FenceList
<1> QED BY <1>4, <1>5 DEF FenceList

LEMMA FenceListIs ==
  ASSUME NEW S \in SUBSET Sid, NEW o \in {"fence", "open"}, NEW delay \in BOOLEAN
  PROVE  LET L == Ops("revoke", S)
                  \o (IF delay THEN <<Op("drop")>> ELSE <<Op(Running(o)), Op("release")>>)
                  \o <<Op("gc")>>
         IN  /\ FenceList(L, Cardinality(S), S)
             /\ delay => Len(L) = Cardinality(S) + 2
             /\ ~ delay => Len(L) = Cardinality(S) + 3
             /\ Len(L) = Cardinality(S) + 3 => L[Cardinality(S) + 1].op = Running(o)
<1> DEFINE E == Ops("revoke", S)
           n == Cardinality(S)
           d == Op("drop")
           x == Op(Running(o))
           y == Op("release")
           g == Op("gc")
<1>1. /\ E \in Seq(OpRec) /\ Len(E) = n /\ n \in Nat
      /\ \A i \in 1 .. Len(E) : Harmless(E[i]) /\ E[i].op = "revoke" /\ E[i].sid \in S
      /\ \A s \in S : \E i \in 1 .. Len(E) : E[i].sid = s
  BY OpsListed
<1>2. /\ d \in OpRec /\ d.op = "drop" /\ x \in OpRec /\ x.op = Running(o) /\ x.op \in RunOps
      /\ y \in OpRec /\ y.op = "release" /\ g \in OpRec /\ g.op = "gc"
  BY DEF Op, OpRec, OpName, Parties, Running, RunOps, GuardOps, OtherOps
<1> HIDE DEF E, n, d, x, y, g
<1>3. CASE delay
  <2> DEFINE L == E \o <<d>> \o <<g>>
  <2>0. <<d>> \in Seq(OpRec) /\ <<g>> \in Seq(OpRec) /\ Len(<<d>>) = 1 /\ Len(<<g>>) = 1 BY <1>2
  <2>1. E \o <<d>> \in Seq(OpRec) /\ Len(E \o <<d>>) = n + 1
        /\ (E \o <<d>>)[n + 1] = d /\ \A i \in 1 .. n : (E \o <<d>>)[i] = E[i]
    BY <1>1, <2>0
  <2> DEFINE F == E \o <<d>>
  <2> HIDE DEF F
  <2>2. F \in Seq(OpRec) /\ Len(F) = n + 1 /\ F[n + 1] = d /\ \A i \in 1 .. n : F[i] = E[i]
    BY <2>1 DEF F
  <2>3. F \o <<g>> \in Seq(OpRec) /\ Len(F \o <<g>>) = n + 2
        /\ (F \o <<g>>)[n + 2] = g /\ \A i \in 1 .. n + 1 : (F \o <<g>>)[i] = F[i]
    BY <1>1, <2>0, <2>2
  <2>4. L \in Seq(OpRec) /\ Len(L) = n + 2 /\ L[n + 2] = g /\ L[n + 1] = d
        /\ \A i \in 1 .. n : L[i] = E[i]
    BY <1>1, <2>2, <2>3 DEF F
  <2> HIDE DEF L
  <2>5. \A i \in 1 .. n : i \in 1 .. Len(L) BY <1>1, <2>4
  <2>6. FenceList(L, n, S) BY <1>1, <1>2, <2>4, <2>5 DEF FenceList
  <2>7. Len(L) # n + 3 BY <1>1, <2>4
  <2> QED BY <1>3, <2>4, <2>6, <2>7 DEF L, E, n, d, g
<1>4. CASE ~ delay
  <2> DEFINE L == E \o <<x, y>> \o <<g>>
  <2>0. <<x, y>> \in Seq(OpRec) /\ <<g>> \in Seq(OpRec) /\ Len(<<x, y>>) = 2 /\ Len(<<g>>) = 1 BY <1>2
  <2>1. E \o <<x, y>> \in Seq(OpRec) /\ Len(E \o <<x, y>>) = n + 2
        /\ (E \o <<x, y>>)[n + 1] = x /\ (E \o <<x, y>>)[n + 2] = y
        /\ \A i \in 1 .. n : (E \o <<x, y>>)[i] = E[i]
    BY <1>1, <2>0
  <2> DEFINE F == E \o <<x, y>>
  <2> HIDE DEF F
  <2>2. F \in Seq(OpRec) /\ Len(F) = n + 2 /\ F[n + 1] = x /\ F[n + 2] = y
        /\ \A i \in 1 .. n : F[i] = E[i]
    BY <2>1 DEF F
  <2>3. F \o <<g>> \in Seq(OpRec) /\ Len(F \o <<g>>) = n + 3
        /\ (F \o <<g>>)[n + 3] = g /\ \A i \in 1 .. n + 2 : (F \o <<g>>)[i] = F[i]
    BY <1>1, <2>0, <2>2
  <2>4. L \in Seq(OpRec) /\ Len(L) = n + 3 /\ L[n + 3] = g /\ L[n + 2] = y /\ L[n + 1] = x
        /\ \A i \in 1 .. n : L[i] = E[i]
    BY <1>1, <2>2, <2>3 DEF F
  <2> HIDE DEF L
  <2>5. \A i \in 1 .. n : i \in 1 .. Len(L) BY <1>1, <2>4
  <2>6. FenceList(L, n, S) BY <1>1, <1>2, <2>4, <2>5 DEF FenceList
  <2>7. Len(L) # n + 2 BY <1>1, <2>4
  <2> QED BY <1>2, <1>4, <2>4, <2>6 DEF L, E, n, x, y, g
<1> QED BY <1>3, <1>4

LEMMA StepFence ==
  ASSUME DelegIInv, NEW t \in Actors, Fence(t)
  PROVE  DelegIInv'
<1> DEFINE i       == task[t].arc
           m       == task[t].client
           granted == {s \in InEntry(i) : rec[s].st = "granted"}
           pending == {s \in InEntry(i) : Recalled(s)}
<1>1. PICK expired \in SUBSET Foreign(granted, m) :
        /\ ent' = [ent EXCEPT ![i].guards = ent[i].guards + 1]
        /\ rec' = [s \in Sid |-> IF s \in granted THEN [rec[s] EXCEPT !.st = "pending"] ELSE rec[s]]
        /\ ladder' = [s \in Sid |-> IF s \in Orders(granted, pending) \ expired
                                    THEN Started ELSE ladder[s]]
        /\ Then(t, Ops("revoke", expired)
                    \o (IF Foreign(pending \cup (granted \ expired), m) # {} THEN <<Op("drop")>>
                        ELSE <<Op(Running(Head(task[t].todo).op)), Op("release")>>)
                    \o <<Op("gc")>>)
  BY DEF Fence
<1>2. UNCHANGED <<cur, index, counts, world>> /\ Usable(ent[i]) BY DEF Fence
<1>3. Typed /\ TasksOK /\ EntriesOK /\ GuardsOK /\ BarredOK /\ PromiseOK /\ WritersOK /\ LaddersOK
  BY DEF DelegIInv
<1>4. PICK o \in {"fence", "open"} : NextIs(t, o) BY DEF Fence
<1>5. o \in LockOps BY DEF LockOps
<1>6. /\ t \in Threads /\ Len(task[t].todo) = 1 /\ task[t].todo[1].op = o
      /\ ~ Has(task[t].todo, GuardOps) /\ i \in Entries
      /\ o \in ClientOps => m \in Clients
  BY <1>3, <1>4, <1>5, LockIsAll
<1>7. i = cur /\ cur \in Entries BY <1>2, <1>6, UsableIsCur
<1>8. Head(task[t].todo).op = o /\ ~ Idle(t) BY <1>4 DEF NextIs
<1>9. expired \in SUBSET Sid BY <1>1 DEF Foreign, InEntry
<1> DEFINE delay == Foreign(pending \cup (granted \ expired), m) # {}
           L == Ops("revoke", expired)
                \o (IF delay THEN <<Op("drop")>> ELSE <<Op(Running(o)), Op("release")>>)
                \o <<Op("gc")>>
           n == Cardinality(expired)
<1>10. Then(t, L) BY <1>1, <1>8
<1>11. /\ FenceList(L, n, expired) /\ (delay => Len(L) = n + 2)
       /\ (Len(L) = n + 3 => L[n + 1].op = Running(o))
  <2>1. delay \in BOOLEAN OBVIOUS
  <2> HIDE DEF delay
  <2> QED BY <1>9, <2>1, FenceListIs
<1>12. \A s \in Sid : s \in granted <=> rec[s].st = "granted"
  BY <1>3, <1>7 DEF EntriesOK, InEntry, Present
<1>13. \A s \in Sid : s \in pending <=> Recalled(s)
  BY <1>3, <1>7 DEF EntriesOK, InEntry, Present, Recalled
<1>14. \A s \in Sid : Live(s) /\ rec[s].client # m /\ ~ delay => s \in expired
  BY <1>12, <1>13 DEF Live, Recalled, Foreign
<1>15. Orders(granted, pending) \subseteq granted /\ granted \subseteq Sid
  BY DEF Orders, InEntry
<1>16. delay \in BOOLEAN OBVIOUS
<1> HIDE DEF delay, L, n, granted, pending
<1>17. L \in Seq(OpRec) /\ Len(L) \in Nat /\ n \in Nat BY <1>11 DEF FenceList
<1>18. PICK r \in Seq(OpRec) : WentOn(t, r) /\ Pushed(r, task[t].todo, L)
  BY <1>3, <1>8, <1>10, <1>17, ThenWentOn
<1>19. Len(r) = Len(L) /\ \A j \in 1 .. Len(L) : r[j] = L[j]
  BY <1>6, <1>17, <1>18 DEF Pushed
<1>20. FenceList(r, n, expired) /\ (delay => Len(r) = n + 2)
       /\ (Len(r) = n + 3 => r[n + 1].op = Running(o))
  <2>1. \A j \in 1 .. n : j \in 1 .. Len(L) BY <1>11 DEF FenceList
  <2>2. Len(L) \in {n + 2, n + 3} BY <1>11 DEF FenceList
  <2>3. n + 1 \in 1 .. Len(L) /\ n + 2 \in 1 .. Len(L) BY <1>17, <2>2
  <2>4. Len(L) = n + 3 => n + 3 \in 1 .. Len(L) BY <1>17
  <2>5. FenceList(r, n, expired) BY <1>11, <1>18, <1>19, <2>1, <2>3, <2>4 DEF FenceList
  <2> QED BY <1>11, <1>19, <2>3, <2>5
<1>21. /\ TodoOK(r) /\ NamesOK(r) /\ Has(r, GuardOps) /\ ~ Has(r, LockOps)
       /\ Has(r, ClientOps) => r[n + 1].op = "opening" /\ Len(r) = n + 3
       /\ Has(r, {"release"}) => Len(r) = n + 3
       /\ \A s \in expired : \E j \in 1 .. Len(r) : r[j].op = "revoke" /\ r[j].sid = s
  BY <1>20, FenceListOK
<1>22. /\ task'[t].todo = r /\ task'[t].arc = i /\ task'[t].client = m
       /\ \A b \in Actors : b # t => task'[b] = task[b]
       /\ task' \in [Actors -> Task]
  <2>1. r # <<>> BY <1>21 DEF Has
  <2> QED BY <1>18, <2>1 DEF WentOn
<1> HIDE DEF i, m
<1>23. TasksOK'
  <2> SUFFICES ASSUME NEW b \in Actors
               PROVE  /\ TodoOK(task'[b].todo) /\ NamesOK(task'[b].todo) /\ ArcOK(b)'
                      /\ Has(task'[b].todo, ClientOps) => task'[b].client \in Clients
    BY DEF TasksOK
  <2>1. CASE b = t
    <3>1. t \notin Sid BY <1>6, ActorAssumption
    <3>2. i # 0 BY <1>6, EntryNumbers
    <3>3. ArcOK(t)' BY <1>21, <1>22, <3>1, <3>2, HasUnion DEF ArcOK
    <3>4. Has(r, ClientOps) => m \in Clients
      BY <1>4, <1>6, <1>20, <1>21 DEF Running, ClientOps
    <3> QED BY <1>21, <1>22, <2>1, <3>3, <3>4
  <2>2. CASE b # t
    <3>1. task'[b] = task[b] BY <1>22, <2>2
    <3> QED BY <1>3, <3>1 DEF TasksOK, ArcOK
  <2> QED BY <2>1, <2>2
<1>24. ent[cur] \in Entry /\ ent \in [Entries -> Entry] /\ rec \in [Sid -> Record]
       /\ ladder \in [Sid -> Ladder]
  BY <1>3, <1>7 DEF Typed
<1> DEFINE e == [ent[cur] EXCEPT !.guards = ent[cur].guards + 1]
<1>25. e \in Entry /\ e.dead = ent[cur].dead /\ e.guards = ent[cur].guards + 1 BY <1>24 DEF Entry
<1>26. ent' = [ent EXCEPT ![cur] = e] BY <1>1, <1>7
<1> HIDE DEF e
<1>27. ent' \in [Entries -> Entry] /\ \A j \in Entries : ent'[j] = (IF j = cur THEN e ELSE ent[j])
  BY <1>7, <1>24, <1>25, <1>26
<1> DEFINE Hit(s) == [rec[s] EXCEPT !.st = "pending"]
<1>28. \A s \in Sid : /\ Hit(s) \in Record /\ Hit(s).st = "pending"
                      /\ Hit(s).client = rec[s].client /\ Hit(s).ent = rec[s].ent
  BY <1>24 DEF Record
<1>29. rec' = [s \in Sid |-> IF s \in granted THEN Hit(s) ELSE rec[s]] BY <1>1
<1> HIDE DEF Hit
<1>30. rec' \in [Sid -> Record] BY <1>24, <1>28, <1>29
<1>31. \A s \in Sid : rec'[s] = (IF s \in granted THEN Hit(s) ELSE rec[s]) BY <1>29
<1>32. \A s \in Sid : /\ rec'[s].client = rec[s].client /\ rec'[s].ent = rec[s].ent
                      /\ rec'[s].st # "none" <=> rec[s].st # "none"
                      /\ rec'[s].st # "granted"
                      /\ Live(s)' <=> Live(s)
  BY <1>12, <1>28, <1>31 DEF Live
<1>33. Started \in Ladder /\ Started.at = "top" /\ ~ Started.first
  <2>1. Rungs \in Nat BY DelegAssumption
  <2>2. NoLadder \in Ladder /\ ~ NoLadder.first BY <2>1 DEF NoLadder, Ladder
  <2> HIDE DEF NoLadder
  <2>3. [NoLadder EXCEPT !.at = "top"] \in Ladder
        /\ [NoLadder EXCEPT !.at = "top"].at = "top"
        /\ [NoLadder EXCEPT !.at = "top"].first = NoLadder.first
    BY <2>2 DEF Ladder
  <2> QED BY <2>2, <2>3 DEF Started
<1>34. ladder' \in [Sid -> Ladder] /\ \A s \in Sid : ladder'[s] = Started \/ ladder'[s] = ladder[s]
  BY <1>1, <1>24, <1>33
<1>35. Typed' BY <1>2, <1>3, <1>22, <1>27, <1>30, <1>34 DEF Typed, index, counts, world
<1>36. EntriesOK'
  <2>1. \A j \in Entries : j = cur' <=> ~ ent'[j].dead BY <1>2, <1>3, <1>25, <1>27 DEF EntriesOK
  <2>2. \A s \in Sid : rec'[s].st # "none" => cur' # 0 /\ rec'[s].ent = cur' /\ rec'[s].client \in Clients
    BY <1>2, <1>3, <1>32 DEF EntriesOK, Present
  <2>3. byStateid' = {s \in Sid : rec'[s].st # "none"}
    BY <1>2, <1>3, <1>32 DEF EntriesOK, Present, index
  <2> QED BY <2>1, <2>2, <2>3 DEF EntriesOK, Present
<1>37. \A b \in Threads : b # t => task'[b] = task[b] BY <1>22 DEF Actors
<1>38. \A j \in Entries : Guards(j)' = (IF j = cur THEN Guards(j) \cup {t} ELSE Guards(j))
  <2> SUFFICES ASSUME NEW j \in Entries, NEW b \in Threads
               PROVE  (task'[b].arc = j /\ Has(task'[b].todo, GuardOps))
                      <=> \/ task[b].arc = j /\ Has(task[b].todo, GuardOps)
                          \/ j = cur /\ b = t
    BY <1>6 DEF Guards
  <2>1. CASE b = t BY <1>6, <1>7, <1>21, <1>22, <2>1
  <2>2. CASE b # t BY <1>37, <2>2
  <2> QED BY <2>1, <2>2
<1>39. GuardsOK'
  <2>1. Guards(cur) \subseteq Threads BY DEF Guards
  <2>2. IsFiniteSet(Guards(cur)) BY <2>1, EntryNumbers, FS_Subset
  <2>3. t \notin Guards(cur) BY <1>6 DEF Guards
  <2>4. Cardinality(Guards(cur) \cup {t}) = Cardinality(Guards(cur)) + 1
    BY <2>2, <2>3, FS_AddElement
  <2>5. \A j \in Entries : ent'[j].guards = Cardinality(Guards(j)')
    <3> SUFFICES ASSUME NEW j \in Entries PROVE ent'[j].guards = Cardinality(Guards(j)')
      OBVIOUS
    <3>1. CASE j = cur BY <1>3, <1>25, <1>27, <1>38, <2>4, <3>1 DEF GuardsOK
    <3>2. CASE j # cur BY <1>3, <1>27, <1>38, <3>2 DEF GuardsOK
    <3> QED BY <3>1, <3>2
  <2>6. \A j \in Entries : Guards(j)' # {} => j = cur' BY <1>2, <1>3, <1>38 DEF GuardsOK
  <2> QED BY <2>5, <2>6 DEF GuardsOK
<1>40. BarredOK' BY <1>32 DEF BarredOK
<1>41. PromiseOK'
  <2> SUFFICES ASSUME NEW b \in Threads, Has(task'[b].todo, {"release"}), NEW s \in Sid,
                      Live(s)', rec'[s].client # task'[b].client
               PROVE  Promised(b, s)'
    BY DEF PromiseOK
  <2>1. CASE b = t
    <3>1. Len(r) = n + 3 BY <1>21, <1>22, <2>1
    <3>2. ~ delay BY <1>17, <1>20, <3>1
    <3>3. Live(s) /\ rec[s].client # m BY <1>22, <1>32, <2>1
    <3>4. s \in expired BY <1>14, <3>2, <3>3
    <3>5. \E j \in 1 .. Len(r) : r[j].op = "revoke" /\ r[j].sid = s BY <1>21, <3>4
    <3> QED BY <1>22, <2>1, <3>5 DEF Promised
  <2>2. CASE b # t
    <3>1. task'[b] = task[b] BY <1>37, <2>2
    <3>2. Live(s) /\ rec[s].client # task[b].client BY <1>32, <3>1
    <3>3. Promised(b, s) BY <1>3, <3>1, <3>2 DEF PromiseOK
    <3> QED BY <3>1, <3>3 DEF Promised
  <2> QED BY <2>1, <2>2
<1>42. WritersOK' BY <1>32 DEF WritersOK
<1>43. LaddersOK' BY <1>3, <1>32, <1>33, <1>34 DEF LaddersOK
<1> QED BY <1>23, <1>35, <1>36, <1>39, <1>40, <1>41, <1>42, <1>43 DEF DelegIInv

-----------------------------------------------------------------------------
(* The invariant. *)

LEMMA InitOK ==
  ASSUME DelegInit
  PROVE  DelegIInv
<1>1. DeadEntry \in Entry /\ DeadEntry.dead /\ DeadEntry.guards = 0 BY DEF DeadEntry, Entry
<1>2. NoRec \in Record /\ NoRec.st = "none" BY DEF NoRec, Record, Parties
<1>3. NoTask \in Task /\ NoTask.todo = <<>> /\ NoTask.arc = 0 BY DEF NoTask, Task, Parties
<1>4. NoLadder \in Ladder /\ NoLadder.at = "none" /\ ~ NoLadder.first
  <2>1. Rungs \in Nat BY DelegAssumption
  <2> QED BY <2>1 DEF NoLadder, Ladder
<1>5. ent \in [Entries -> Entry] /\ rec \in [Sid -> Record] /\ task \in [Actors -> Task]
      /\ ladder \in [Sid -> Ladder]
  BY <1>1, <1>2, <1>3, <1>4 DEF DelegInit
<1>6. Typed BY <1>5 DEF DelegInit, Typed
<1>7. \A a \in Actors : Idle(a) /\ task[a].arc = 0 /\ Len(task[a].todo) = 0
  BY <1>3 DEF DelegInit, Idle
<1>8. \A a \in Actors : \A X : ~ Has(task[a].todo, X) BY <1>7 DEF Has
<1>9. TasksOK
  <2> SUFFICES ASSUME NEW a \in Actors
               PROVE  /\ TodoOK(task[a].todo) /\ NamesOK(task[a].todo) /\ ArcOK(a)
                      /\ Has(task[a].todo, ClientOps) => task[a].client \in Clients
    BY DEF TasksOK
  <2>1. ~ \E i \in 1 .. Len(task[a].todo) : TRUE BY <1>7
  <2>2. TodoOK(task[a].todo) /\ NamesOK(task[a].todo) BY <2>1 DEF TodoOK, NamesOK
  <2> QED BY <1>7, <1>8, <2>2 DEF ArcOK
<1>10. \A s \in Sid : rec[s].st = "none" BY <1>2 DEF DelegInit
<1>11. EntriesOK
  BY <1>1, <1>10, EntryNumbers DEF DelegInit, EntriesOK, Present
<1>12. \A t \in Threads : ~ Has(task[t].todo, GuardOps) /\ ~ Has(task[t].todo, {"release"})
  BY <1>8 DEF Actors
<1>13. \A i \in Entries : Guards(i) = {} BY <1>12 DEF Guards
<1>14. GuardsOK
  BY <1>1, <1>13, FS_EmptySet DEF GuardsOK, DelegInit
<1>15. BarredOK /\ PromiseOK /\ WritersOK
  BY <1>10, <1>12 DEF BarredOK, PromiseOK, WritersOK
<1>16. LaddersOK BY <1>4, <1>10 DEF DelegInit, LaddersOK
<1> QED BY <1>6, <1>9, <1>11, <1>14, <1>15, <1>16 DEF DelegIInv

LEMMA StepsOK ==
  ASSUME DelegIInv, DelegNext
  PROVE  DelegIInv'
<1>1. ASSUME NEW t \in Threads, Request(t) PROVE DelegIInv'
  <2>1. CASE \E c \in Clients : OpenRead(t, c) \/ OpenWrite(t, c) \/ TearDown(t, c)
    BY <2>1, StepOpenRead, StepOpenWrite, StepTearDown
  <2>2. CASE \E m \in Clients \cup {Local} : Mutate(t, m)
    BY <2>2, StepMutate DEF Parties
  <2>3. CASE \E s \in Sid : Return(t, s) \/ FreeStateId(t, s)
    BY <2>3, StepReturn, StepFreeStateId
  <2> QED BY <1>1, <2>1, <2>2, <2>3 DEF Request
<1>2. ASSUME NEW a \in Actors, Step(a) PROVE DelegIInv'
  <2>1. CASE Again(a) \/ Collect(a) \/ Grant(a) \/ Fence(a) \/ Drop(a)
    BY <2>1, StepAgain, StepCollect, StepGrant, StepFence, StepDrop
  <2>2. CASE Run(a)
    <3>1. PICK o \in RunOps : NextIs(a, o) BY <2>2 DEF Run, RunOps
    <3>2. Typed /\ TasksOK BY DEF DelegIInv
    <3>3. task[a].todo[1].op = o /\ 1 \in 1 .. Len(task[a].todo) BY <3>1, <3>2, HeadIs
    <3>4. Has(task[a].todo, RunOps) BY <3>3 DEF Has
    <3>5. a \in Threads BY <3>2, <3>4, HasUnion DEF TasksOK, ArcOK, Actors
    <3> QED BY <2>2, <3>5, StepRun
  <2>3. CASE Revoke(a) \/ Uncount(a) \/ Mark(a) \/ Raise(a) \/ Disown(a)
    BY <2>3, StepRevoke, StepUncount, StepMark, StepRaise, StepDisown
  <2>4. CASE Decide(a) \/ Lower(a) \/ Take(a) \/ Strip(a) \/ Forget(a)
    BY <2>4, StepDecide, StepLower, StepTake, StepStrip, StepForget
  <2> QED BY <1>2, <2>1, <2>2, <2>3, <2>4 DEF Step
<1>3. ASSUME NEW s \in Sid, Climb(s) \/ Unblocks(s) \/ RunsOut(s) PROVE DelegIInv'
  <2>1. CASE Send(s) \/ Acked(s) \/ NoAnswer(s) \/ Disowned(s)
    BY <2>1, StepSend, StepAcked, StepNoAnswer, StepDisowned
  <2>2. CASE RefusedRecall(s) \/ Unreachable(s) \/ Park(s) \/ NotReturned(s)
    BY <2>2, StepRefusedRecall, StepUnreachable, StepPark, StepNotReturned
  <2>3. CASE Unblocks(s) \/ RunsOut(s) BY <2>3, StepUnblocks, StepRunsOut
  <2> QED BY <1>3, <2>1, <2>2, <2>3 DEF Climb
<1>4. ASSUME NEW c \in Clients, Close(c) \/ Rebind(c) PROVE DelegIInv'
  BY <1>4, StepClose, StepRebind
<1> QED BY <1>1, <1>2, <1>3, <1>4, StepCoolingEnds DEF DelegNext

LEMMA StuttersOK ==
  ASSUME DelegIInv, UNCHANGED vars
  PROVE  DelegIInv'
<1>1. Shrunk /\ UNCHANGED <<writers, ladder, task>>
  BY SameTable DEF vars, index, world
<1>2. Typed /\ LaddersOK BY DEF DelegIInv
<1>3. Typed' BY <1>2 DEF Typed, vars, table, index, counts, world
<1>4. LaddersOK' BY <1>1, <1>2, LaddersKept
<1> QED BY <1>1, <1>3, <1>4, UntouchedOK

\* The inductive invariant holds throughout.
THEOREM DelegInvariant == DelegSpec => []DelegIInv
<1>1. DelegInit => DelegIInv BY InitOK
<1>2. DelegIInv /\ [DelegNext]_vars => DelegIInv' BY StepsOK, StuttersOK
<1> QED BY <1>1, <1>2, PTL DEF DelegSpec

\* The fence holds, whatever runs beside it: no mutation runs while another
\* client has a live delegation, and none is granted while the file is open
\* for writing (mutation_fence, try_grant, with_live_entry).
THEOREM NobodyReadsStale == DelegSpec => []NoStaleCache
<1>1. ASSUME DelegIInv PROVE NoStaleCache
  <2>1. Typed /\ TasksOK /\ PromiseOK /\ WritersOK BY <1>1 DEF DelegIInv
  <2>2. ASSUME NEW t \in Threads, Mutating(t), NEW s \in Sid, Live(s)
        PROVE  rec[s].client = task[t].client
    <3> DEFINE q == task[t].todo
    <3>1. t \in Actors BY DEF Actors
    <3>2. PICK o \in RunOps \cup {"release"} : NextIs(t, o) BY <2>2 DEF Mutating, RunOps
    <3>3. q[1].op = o /\ 1 \in 1 .. Len(q) BY <2>1, <3>1, <3>2, HeadIs
    <3>4. Len(q) \in Nat BY <2>1, <3>1, TaskParts
    <3>5. TodoOK(q) BY <2>1, <3>1 DEF TasksOK
    <3> HIDE DEF q
    <3>6. PICK g \in {1, 2} : g \in 1 .. Len(q) /\ q[g].op = "release"
      <4>1. CASE o = "release" BY <3>3, <4>1
      <4>2. CASE o \in RunOps
        <5>1. 1 + 1 \in 1 .. Len(q) /\ q[1 + 1].op = "release" BY <3>3, <3>5, <4>2 DEF TodoOK
        <5> QED BY <5>1
      <4> QED BY <3>2, <4>1, <4>2
    <3>7. Has(q, {"release"}) BY <3>6 DEF Has
    <3>8. \A j \in 1 .. Len(q) : q[j].op # "revoke"
      <4> SUFFICES ASSUME NEW j \in 1 .. Len(q), q[j].op = "revoke" PROVE FALSE
        OBVIOUS
      <4>1. j # 1 BY <3>2, <3>3 DEF RunOps
      <4>2. j # g BY <3>6
      <4>3. g < j BY <3>4, <4>1, <4>2
      <4>4. q[j].op = "gc" BY <3>5, <3>6, <4>3 DEF TodoOK, GuardOps
      <4> QED BY <4>4
    <3>9. ~ Promised(t, s) BY <3>8 DEF Promised, q
    <3> QED BY <2>1, <2>2, <3>7, <3>9 DEF PromiseOK, q
  <2>3. FenceHolds BY <2>2 DEF FenceHolds
  <2>4. NoGrantUnderWrite BY <2>1 DEF NoGrantUnderWrite, WritersOK
  <2> QED BY <2>3, <2>4 DEF NoStaleCache
<1> QED BY <1>1, DelegInvariant, PTL

-----------------------------------------------------------------------------
(* The deadline. *)

\* The deadline of a recall once it runs.
DeadlineKept == \A s \in Sid : ladder[s].first => ladder'[s].first \/ ladder'[s].at = "none"

LEMMA GoesDeadline ==
  ASSUME Typed, NEW s \in Sid, NEW l, Goes(s, l), ladder[s].first => l.first
  PROVE  DeadlineKept
<1>1. ladder' = [ladder EXCEPT ![s] = l] BY DEF Goes
<1>2. \A r \in Sid : ladder'[r] = (IF r = s THEN l ELSE ladder[r]) BY <1>1 DEF Typed
<1> QED BY <1>2 DEF DeadlineKept

LEMMA EndsDeadline ==
  ASSUME Typed, NEW s \in Sid, NEW ops, Ends(s, ops)
  PROVE  DeadlineKept
<1>1. ladder' = [ladder EXCEPT ![s] = NoLadder] BY DEF Ends
<1>2. \A r \in Sid : ladder'[r] = (IF r = s THEN NoLadder ELSE ladder[r]) BY <1>1 DEF Typed
<1>3. NoLadder.at = "none" BY DEF NoLadder
<1> QED BY <1>2, <1>3 DEF DeadlineKept

\* What keeps the deadline of the ladders that are on their way.
LEMMA DeadlineForms ==
  ASSUME Typed, NEW s \in Sid, ladder[s].first
  PROVE  /\ \A w : [ladder[s] EXCEPT !.at = w, !.fired = FALSE].first
         /\ \A w : [ladder[s] EXCEPT !.at = w].first
         /\ [GotOut(s) EXCEPT !.at = "acked"].first
         /\ [GotOut(s) EXCEPT !.at = "rung", !.rung = IF @ > Rungs THEN @ ELSE @ + 1].first
         /\ [GotOut(s) EXCEPT !.at = "probe", !.disowned = TRUE].first
         /\ [ladder[s] EXCEPT !.out = TRUE].first
<1> DEFINE l == ladder[s]
<1>1. l \in Ladder /\ l.first BY DEF Typed
<1>2. GotOut(s) = l BY DEF GotOut
<1> HIDE DEF l
<1>3. /\ \A w : [l EXCEPT !.at = w, !.fired = FALSE].first
      /\ [l EXCEPT !.at = "acked"].first
      /\ [l EXCEPT !.at = "probe", !.disowned = TRUE].first
      /\ [l EXCEPT !.out = TRUE].first
  BY <1>1 DEF Ladder
<1>4. \A n : [l EXCEPT !.at = "rung", !.rung = n].first BY <1>1 DEF Ladder
<1>5. \A w : [l EXCEPT !.at = w].first BY <1>1 DEF Ladder
<1>6. [l EXCEPT !.at = "rung", !.rung = IF l.rung > Rungs THEN l.rung ELSE l.rung + 1].first BY <1>4
<1> QED BY <1>2, <1>3, <1>5, <1>6 DEF l

LEMMA StepsKeepDeadline ==
  ASSUME DelegIInv, DelegNext
  PROVE  DeadlineKept
<1>0. Typed /\ LaddersOK /\ EntriesOK BY DEF DelegIInv
<1>1. UNCHANGED ladder => DeadlineKept BY DEF DeadlineKept
<1>2. ASSUME NEW t \in Threads, Request(t) PROVE DeadlineKept
  BY <1>1, <1>2 DEF Request, OpenRead, OpenWrite, TearDown, Mutate, Return, FreeStateId
<1>3. ASSUME NEW a \in Actors, Step(a) PROVE DeadlineKept
  <2>1. CASE Fence(a)
    <3>1. \A s \in Sid : ladder'[s] = ladder[s] \/ rec[s].st = "granted"
      <4>1. PICK S \in SUBSET {s \in Sid : rec[s].st = "granted"} :
              ladder' = [s \in Sid |-> IF s \in S THEN Started ELSE ladder[s]]
        <5> DEFINE granted == {s \in InEntry(task[a].arc) : rec[s].st = "granted"}
                   pending == {s \in InEntry(task[a].arc) : Recalled(s)}
        <5>1. PICK expired : ladder' = [s \in Sid |-> IF s \in Orders(granted, pending) \ expired
                                                     THEN Started ELSE ladder[s]]
          BY <2>1 DEF Fence
        <5>2. Orders(granted, pending) \ expired \in SUBSET {s \in Sid : rec[s].st = "granted"}
          BY DEF Orders, InEntry
        <5> QED BY <5>1, <5>2
      <4> QED BY <4>1
    <3>2. \A s \in Sid : rec[s].st = "granted" => ~ ladder[s].first BY <1>0 DEF LaddersOK
    <3> QED BY <3>1, <3>2 DEF DeadlineKept
  <2>2. CASE Again(a) \/ Collect(a) \/ Grant(a) \/ Run(a) \/ Drop(a) \/ Revoke(a) \/ Uncount(a)
    BY <1>1, <2>2 DEF Again, Collect, Grant, Run, Drop, Revoke, Uncount
  <2>3. CASE Mark(a) \/ Raise(a) \/ Disown(a) \/ Decide(a) \/ Lower(a)
    BY <1>1, <2>3 DEF Mark, Raise, Disown, Decide, Lower
  <2>4. CASE Take(a) \/ Strip(a) \/ Forget(a)
    BY <1>1, <2>4 DEF Take, Strip, Forget
  <2> QED BY <1>3, <2>1, <2>2, <2>3, <2>4 DEF Step
<1>4. ASSUME NEW s \in Sid, Climb(s) PROVE DeadlineKept
  <2>1. CASE Send(s) BY <1>0, <2>1, DeadlineForms, GoesDeadline, EndsDeadline DEF Send
  <2>2. CASE Acked(s) BY <1>0, <2>2, DeadlineForms, GoesDeadline DEF Acked
  <2>3. CASE NoAnswer(s) BY <1>0, <2>3, DeadlineForms, GoesDeadline DEF NoAnswer
  <2>4. CASE Disowned(s) BY <1>0, <2>4, DeadlineForms, GoesDeadline, EndsDeadline DEF Disowned
  <2>5. CASE RefusedRecall(s) \/ NotReturned(s)
    BY <1>0, <2>5, EndsDeadline DEF RefusedRecall, NotReturned
  <2>6. CASE Unreachable(s) BY <1>0, <2>6, DeadlineForms, GoesDeadline, EndsDeadline DEF Unreachable
  <2>7. CASE Park(s) BY <1>0, <2>7, DeadlineForms, GoesDeadline DEF Park
  <2> QED BY <1>4, <2>1, <2>2, <2>3, <2>4, <2>5, <2>6, <2>7 DEF Climb
<1>5. ASSUME NEW s \in Sid, RunsOut(s) \/ Unblocks(s) PROVE DeadlineKept
  <2>1. CASE RunsOut(s)
    <3>1. Goes(s, [ladder[s] EXCEPT !.out = TRUE]) BY <2>1 DEF RunsOut, Goes
    <3> QED BY <1>0, <3>1, DeadlineForms, GoesDeadline
  <2>2. CASE Unblocks(s) BY <1>0, <2>2, DeadlineForms, GoesDeadline DEF Unblocks
  <2> QED BY <1>5, <2>1, <2>2
<1>6. ASSUME NEW c \in Clients, Close(c) PROVE DeadlineKept BY <1>1, <1>6 DEF Close
<1>7. ASSUME NEW c \in Clients, Rebind(c) PROVE DeadlineKept
  <2> DEFINE of(at) == {s \in Sid : Present(s) /\ rec[s].client = c /\ ladder[s].at \in at}
  <2>1. ladder' = [s \in Sid |-> IF s \in of({"parked"}) THEN [ladder[s] EXCEPT !.at = "top"]
                                  ELSE IF s \in of(Heeds)
                                       THEN [ladder[s] EXCEPT !.fired = TRUE] ELSE ladder[s]]
    BY <1>7 DEF Rebind
  <2> HIDE DEF of
  <2>2. \A l \in Ladder : /\ [l EXCEPT !.at = "top"].first = l.first
                          /\ [l EXCEPT !.fired = TRUE].first = l.first
    BY DEF Ladder
  <2>3. \A s \in Sid : ladder[s] \in Ladder BY <1>0 DEF Typed
  <2>4. \A s \in Sid : ladder'[s].first = ladder[s].first BY <2>1, <2>2, <2>3
  <2> QED BY <2>4 DEF DeadlineKept
<1>8. CoolingEnds => DeadlineKept BY <1>1 DEF CoolingEnds
<1> QED BY <1>2, <1>3, <1>4, <1>5, <1>6, <1>7, <1>8 DEF DelegNext

\* The deadline a holder was given stands: no later conflict, answer or
\* rebind of its back channel puts it off (drive_one, spawn_recalls).
THEOREM DeadlineStands == DelegSpec => OneDeadline
<1>1. DelegIInv /\ [DelegNext]_vars =>
        [\A s \in Sid : ladder[s].first => ladder'[s].first \/ ladder'[s].at = "none"]_vars
  BY StepsKeepDeadline DEF DeadlineKept
<1> QED BY <1>1, DelegInvariant, PTL DEF DelegSpec, OneDeadline

-----------------------------------------------------------------------------
(* How the lists change, for the counters and the announcements. *)

\* The list of a lost its first operation, if it had one, and got ops.
Moved(a, ops) ==
  /\ \A b \in Actors : b # a => task'[b] = task[b]
  /\ \A i \in 1 .. Len(task'[a].todo) :
        \/ \E j \in 1 .. Len(ops) : task'[a].todo[i] = ops[j]
        \/ \E j \in 2 .. Len(task[a].todo) : task'[a].todo[i] = task[a].todo[j]
  /\ \A j \in 1 .. Len(ops) : \E i \in 1 .. Len(task'[a].todo) : task'[a].todo[i] = ops[j]
  /\ \A j \in 2 .. Len(task[a].todo) : \E i \in 1 .. Len(task'[a].todo) : task'[a].todo[i] = task[a].todo[j]
  /\ \/ Len(ops) > 0 /\ Len(task'[a].todo) > 0 /\ task'[a].todo[1] = ops[1]
     \/ Len(ops) = 0 /\ Len(task'[a].todo) = 0
     \/ /\ Len(ops) = 0 /\ 2 \in 1 .. Len(task[a].todo)
        /\ Len(task'[a].todo) > 0 /\ task'[a].todo[1] = task[a].todo[2]

LEMMA PushedMoved ==
  ASSUME NEW a \in Actors, task[a].todo \in Seq(OpRec), task[a].todo # <<>>,
         task'[a].todo \in Seq(OpRec), NEW ops \in Seq(OpRec),
         \A b \in Actors : b # a => task'[b] = task[b],
         Pushed(task'[a].todo, task[a].todo, ops)
  PROVE  Moved(a, ops)
<1> DEFINE q == task[a].todo
           r == task'[a].todo
<1>1. q \in Seq(OpRec) /\ q # <<>> /\ r \in Seq(OpRec) /\ Pushed(r, q, ops) OBVIOUS
<1> HIDE DEF q, r
<1>2. Len(q) \in Nat /\ Len(q) > 0 /\ Len(ops) \in Nat /\ Len(r) \in Nat BY <1>1, EmptyLen
<1>3. Len(r) = Len(ops) + Len(q) - 1 BY <1>1 DEF Pushed
<1>4. ASSUME NEW i \in 1 .. Len(r)
      PROVE  \/ \E j \in 1 .. Len(ops) : r[i] = ops[j]
             \/ \E j \in 2 .. Len(q) : r[i] = q[j]
  <2>1. CASE i <= Len(ops)
    <3>1. i \in 1 .. Len(ops) BY <1>2, <2>1
    <3>2. r[i] = ops[i] BY <1>1, <3>1 DEF Pushed
    <3> QED BY <3>1, <3>2
  <2>2. CASE i > Len(ops)
    <3>1. i - Len(ops) + 1 \in 2 .. Len(q) BY <1>2, <1>3, <2>2
    <3>2. r[i] = q[i - Len(ops) + 1] BY <1>1, <2>2 DEF Pushed
    <3> QED BY <3>1, <3>2
  <2>3. i \in Nat /\ (i <= Len(ops) \/ i > Len(ops)) BY <1>2
  <2> QED BY <2>1, <2>2, <2>3
<1>5. \A j \in 1 .. Len(ops) : j \in 1 .. Len(r) /\ r[j] = ops[j] BY <1>1, <1>2, <1>3 DEF Pushed
<1>6. \A j \in 2 .. Len(q) : \E i \in 1 .. Len(r) : r[i] = q[j] BY <1>1 DEF Pushed
<1>7. \/ Len(ops) > 0 /\ Len(r) > 0 /\ r[1] = ops[1]
      \/ Len(ops) = 0 /\ Len(r) = 0
      \/ Len(ops) = 0 /\ 2 \in 1 .. Len(q) /\ Len(r) > 0 /\ r[1] = q[2]
  <2>1. CASE Len(ops) > 0
    <3>1. 1 \in 1 .. Len(ops) BY <1>2, <2>1
    <3> QED BY <1>2, <1>3, <1>5, <2>1, <3>1
  <2>2. CASE Len(ops) = 0 /\ Len(r) > 0
    <3>1. 2 \in 2 .. Len(q) BY <1>2, <1>3, <2>2
    <3>2. r[2 - 1 + Len(ops)] = q[2] BY <1>1, <3>1 DEF Pushed
    <3>3. 2 - 1 + Len(ops) = 1 BY <2>2
    <3>4. 2 \in 1 .. Len(q) BY <1>2, <3>1
    <3> QED BY <2>2, <3>2, <3>3, <3>4
  <2> QED BY <1>2, <2>1, <2>2
<1> QED BY <1>4, <1>5, <1>6, <1>7 DEF Moved, q, r

LEMMA ThenMoved ==
  ASSUME Typed, NEW a \in Actors, ~ Idle(a), NEW ops \in Seq(OpRec), Then(a, ops)
  PROVE  Moved(a, ops)
<1>1. PICK r \in Seq(OpRec) : WentOn(a, r) /\ Pushed(r, task[a].todo, ops) BY ThenWentOn
<1>2. task'[a].todo = r /\ \A b \in Actors : b # a => task'[b] = task[b] BY <1>1 DEF WentOn
<1>3. task[a].todo \in Seq(OpRec) /\ task[a].todo # <<>> BY TaskParts DEF Idle
<1> QED BY <1>1, <1>2, <1>3, PushedMoved

\* A new list of an idle actor.
LEMMA NewMoved ==
  ASSUME Typed, NEW a \in Actors, Idle(a), NEW ops \in Seq(OpRec), task'[a].todo = ops,
         \A b \in Actors : b # a => task'[b] = task[b]
  PROVE  Moved(a, ops)
<1>1. Len(task[a].todo) = 0 BY TaskParts
<1>2. Len(ops) \in Nat OBVIOUS
<1>3. ~ \E j \in 2 .. Len(task[a].todo) : TRUE BY <1>1
<1> QED BY <1>2, <1>3 DEF Moved

\* A list of one operation that gives way to another.
LEMMA OneMoved ==
  ASSUME Typed, NEW a \in Actors, Len(task[a].todo) = 1, NEW ops \in Seq(OpRec), task'[a].todo = ops,
         \A b \in Actors : b # a => task'[b] = task[b]
  PROVE  Moved(a, ops)
<1>2. Len(ops) \in Nat OBVIOUS
<1>3. ~ \E j \in 2 .. Len(task[a].todo) : TRUE OBVIOUS
<1> QED BY <1>2, <1>3 DEF Moved

\* What an actor is to do next.
Heads(a, ops) == ~ Idle(a) /\ task[a].todo[1].op \in ops

LEMMA OwingIs ==
  ASSUME Typed, NEW a \in Actors
  PROVE  /\ a \in Owing <=> Heads(a, CountOps)
         /\ a \in Owing => Who(a) = task[a].todo[1].who
<1>1. ~ Idle(a) => Head(task[a].todo) = task[a].todo[1] BY TaskParts
<1> QED BY <1>1 DEF Owing, Heads, NextIs, CountOps, Who

\* The debt of an actor after a step of it is what its ops begin with.
Owes(ops) == Len(ops) > 0 /\ ops[1].op \in CountOps
LEMMA OwingMoved ==
  ASSUME Typed, Typed', TasksOK, NEW a \in Actors, NEW ops \in Seq(OpRec), Moved(a, ops)
  PROVE  /\ \A b \in Actors : b # a => (b \in Owing' <=> b \in Owing) /\ Who(b)' = Who(b)
         /\ a \in Owing' <=> Owes(ops)
         /\ a \in Owing' => Who(a)' = ops[1].who
<1>1. \A b \in Actors : b # a => task'[b] = task[b] BY DEF Moved
<1>2. \A b \in Actors : b # a => (b \in Owing' <=> b \in Owing) /\ Who(b)' = Who(b)
  BY <1>1 DEF Owing, NextIs, Idle, Who
<1> DEFINE q == task[a].todo
           r == task'[a].todo
<1>3. q \in Seq(OpRec) /\ TodoOK(q) BY TaskParts DEF TasksOK
<1>4. r \in Seq(OpRec) /\ Len(r) \in Nat BY DEF Typed, Task
<1>5. r # <<>> => Head(r) = r[1] /\ Len(r) > 0
  <2> HIDE DEF r
  <2> QED BY <1>4
<1>6. r = <<>> => Len(r) = 0 OBVIOUS
<1>7. 2 \in 1 .. Len(q) => q[2].op \notin CountOps BY <1>3 DEF TodoOK
<1>8. a \in Owing' <=> r # <<>> /\ r[1].op \in CountOps
  BY <1>5 DEF Owing, NextIs, Idle, CountOps
<1>9. a \in Owing' => Who(a)' = r[1].who BY <1>5, <1>8 DEF Who
<1>10. \/ Len(ops) > 0 /\ Len(r) > 0 /\ r[1] = ops[1]
       \/ Len(ops) = 0 /\ Len(r) = 0
       \/ Len(ops) = 0 /\ 2 \in 1 .. Len(q) /\ Len(r) > 0 /\ r[1] = q[2]
  BY DEF Moved
<1> HIDE DEF q, r
<1>11. r = <<>> <=> Len(r) = 0 BY <1>4, EmptyLen
<1> QED BY <1>2, <1>4, <1>7, <1>8, <1>9, <1>10, <1>11 DEF Owes

LEMMA DebtFinite ==
  ASSUME Typed, NEW P
  PROVE  /\ IsFiniteSet(LiveIn(P)) /\ IsFiniteSet(OwingIn(P))
         /\ Cardinality(LiveIn(P)) \in Nat /\ Cardinality(OwingIn(P)) \in Nat /\ Debt(P) \in Nat
<1>1. LiveIn(P) \subseteq Sid BY DEF LiveIn
<1>2. OwingIn(P) \subseteq Actors BY DEF OwingIn, Owing
<1>3. IsFiniteSet(Actors) BY SidFinite, DelegAssumption, FS_Union DEF Actors
<1>4. IsFiniteSet(LiveIn(P)) /\ IsFiniteSet(OwingIn(P)) BY <1>1, <1>2, <1>3, SidFinite, FS_Subset
<1>5. Cardinality(LiveIn(P)) \in Nat /\ Cardinality(OwingIn(P)) \in Nat BY <1>4, FS_CardinalityType
<1>6. Debt(P) \in Nat BY <1>5 DEF Debt
<1> QED BY <1>4, <1>5, <1>6

\* How the records changed, as far as counting goes.
SameLive == \A s \in Sid : /\ Live(s)' <=> Live(s)
                           /\ Live(s) => rec'[s].client = rec[s].client
LessLive(s) == /\ Live(s) /\ ~ Live(s)'
               /\ \A r \in Sid : r # s => /\ Live(r)' <=> Live(r)
                                          /\ Live(r) => rec'[r].client = rec[r].client
MoreLive(s) == /\ ~ Live(s) /\ Live(s)'
               /\ \A r \in Sid : r # s => /\ Live(r)' <=> Live(r)
                                          /\ Live(r) => rec'[r].client = rec[r].client

LEMMA SameLiveIn ==
  ASSUME SameLive, NEW P
  PROVE  LiveIn(P)' = LiveIn(P)
  BY DEF SameLive, LiveIn

LEMMA LessLiveIn ==
  ASSUME NEW s \in Sid, LessLive(s), NEW P
  PROVE  /\ rec[s].client \in P => LiveIn(P)' = LiveIn(P) \ {s} /\ s \in LiveIn(P)
         /\ rec[s].client \notin P => LiveIn(P)' = LiveIn(P)
  BY DEF LessLive, LiveIn

LEMMA MoreLiveIn ==
  ASSUME NEW s \in Sid, MoreLive(s), NEW P
  PROVE  /\ rec'[s].client \in P => LiveIn(P)' = LiveIn(P) \cup {s} /\ s \notin LiveIn(P)
         /\ rec'[s].client \notin P => LiveIn(P)' = LiveIn(P)
  BY DEF MoreLive, LiveIn

\* The actor's debt: before the step it is a's list, after it ops.
LEMMA OwingInMoved ==
  ASSUME Typed, Typed', TasksOK, NEW a \in Actors, NEW ops \in Seq(OpRec), Moved(a, ops), NEW P
  PROVE  /\ (a \in Owing /\ Who(a) \in P) /\ ~ Owes(ops) =>
               OwingIn(P)' = OwingIn(P) \ {a} /\ a \in OwingIn(P)
         /\ a \notin OwingIn(P) /\ ~ Owes(ops) => OwingIn(P)' = OwingIn(P)
         /\ a \notin Owing /\ Owes(ops) /\ ops[1].who \in P =>
               OwingIn(P)' = OwingIn(P) \cup {a} /\ a \notin OwingIn(P)
         /\ a \notin Owing /\ Owes(ops) /\ ops[1].who \notin P => OwingIn(P)' = OwingIn(P)
<1>1. /\ \A b \in Actors : b # a => (b \in Owing' <=> b \in Owing) /\ Who(b)' = Who(b)
      /\ a \in Owing' <=> Owes(ops)
      /\ a \in Owing' => Who(a)' = ops[1].who
  BY OwingMoved
<1>2. Owing \subseteq Actors /\ Owing' \subseteq Actors BY DEF Owing
<1>3. \A b \in Actors : b # a => (b \in OwingIn(P)' <=> b \in OwingIn(P)) BY <1>1 DEF OwingIn
<1>4. a \in OwingIn(P)' <=> Owes(ops) /\ ops[1].who \in P BY <1>1 DEF OwingIn
<1>5. a \in OwingIn(P) <=> a \in Owing /\ Who(a) \in P BY DEF OwingIn
<1>6. OwingIn(P) \subseteq Actors /\ OwingIn(P)' \subseteq Actors BY <1>2 DEF OwingIn
<1> DEFINE X == OwingIn(P)
           Y == OwingIn(P)'
<1>7. /\ \A b : b # a => (b \in Y <=> b \in X)
      /\ a \in Y <=> Owes(ops) /\ ops[1].who \in P
      /\ a \in X <=> a \in Owing /\ Who(a) \in P
  BY <1>3, <1>4, <1>5, <1>6
<1> HIDE DEF X, Y
<1>8. /\ a \notin Y => Y = X \ {a}
      /\ a \in Y => Y = X \cup {a}
      /\ a \notin Y /\ a \notin X => Y = X
  <2>0. \A b : b # a => (b \in Y <=> b \in X) BY <1>7
  <2>1. ASSUME a \notin Y PROVE Y = X \ {a} BY <2>0, <2>1
  <2>2. ASSUME a \in Y PROVE Y = X \cup {a} BY <2>0, <2>2
  <2>3. ASSUME a \notin Y, a \notin X PROVE Y = X
    <3>1. X \ {a} = X BY <2>3
    <3> QED BY <2>1, <2>3, <3>1
  <2> QED BY <2>1, <2>2, <2>3
<1>9. (a \in Owing /\ Who(a) \in P) /\ ~ Owes(ops) => Y = X \ {a} /\ a \in X BY <1>7, <1>8
<1>10. a \notin X /\ ~ Owes(ops) => Y = X BY <1>7, <1>8
<1>11. a \notin Owing /\ Owes(ops) /\ ops[1].who \in P => Y = X \cup {a} /\ a \notin X BY <1>7, <1>8
<1>12. a \notin Owing /\ Owes(ops) /\ ops[1].who \notin P => Y = X BY <1>7, <1>8
<1> QED BY <1>9, <1>10, <1>11, <1>12 DEF X, Y

\* Nothing is owed that was not.
LEMMA DebtSame ==
  ASSUME Typed, Typed', TasksOK, NEW a \in Actors, NEW ops \in Seq(OpRec), Moved(a, ops),
         SameLive, ~ Heads(a, CountOps), ~ Owes(ops), NEW P
  PROVE  Debt(P)' = Debt(P)
<1>1. a \notin OwingIn(P) BY OwingIs DEF OwingIn
<1>2. OwingIn(P)' = OwingIn(P) BY <1>1, OwingInMoved
<1>3. LiveIn(P)' = LiveIn(P) BY SameLiveIn
<1> QED BY <1>2, <1>3 DEF Debt

\* A record that left is owed by who took it out.
LEMMA DebtPassed ==
  ASSUME Typed, Typed', TasksOK, NEW a \in Actors, NEW ops \in Seq(OpRec), Moved(a, ops),
         NEW s \in Sid, LessLive(s), ~ Heads(a, CountOps), Owes(ops), ops[1].who = rec[s].client, NEW P
  PROVE  Debt(P)' = Debt(P)
<1>1. a \notin Owing BY OwingIs
<1>2. /\ IsFiniteSet(LiveIn(P)) /\ IsFiniteSet(OwingIn(P))
      /\ Cardinality(LiveIn(P)) \in Nat /\ Cardinality(OwingIn(P)) \in Nat
  BY DebtFinite
<1>3. CASE rec[s].client \in P
  <2>1. LiveIn(P)' = LiveIn(P) \ {s} /\ s \in LiveIn(P) BY <1>3, LessLiveIn
  <2>2. OwingIn(P)' = OwingIn(P) \cup {a} /\ a \notin OwingIn(P) BY <1>1, <1>3, OwingInMoved
  <2>3. Cardinality(LiveIn(P)') = Cardinality(LiveIn(P)) - 1 BY <1>2, <2>1, FS_RemoveElement
  <2>4. Cardinality(OwingIn(P)') = Cardinality(OwingIn(P)) + 1 BY <1>2, <2>2, FS_AddElement
  <2>5. Debt(P)' = Cardinality(LiveIn(P)') + Cardinality(OwingIn(P)') BY DEF Debt
  <2> QED BY <1>2, <2>3, <2>4, <2>5 DEF Debt
<1>4. CASE rec[s].client \notin P
  <2>1. LiveIn(P)' = LiveIn(P) BY <1>4, LessLiveIn
  <2>2. OwingIn(P)' = OwingIn(P) BY <1>1, <1>4, OwingInMoved
  <2> QED BY <2>1, <2>2 DEF Debt
<1> QED BY <1>3, <1>4

\* A debt that is paid.
LEMMA DebtPaid ==
  ASSUME Typed, Typed', TasksOK, NEW a \in Actors, NEW ops \in Seq(OpRec), Moved(a, ops),
         SameLive, Heads(a, CountOps), ~ Owes(ops), NEW P
  PROVE  /\ Who(a) \in P => Debt(P)' = Debt(P) - 1 /\ Debt(P) > 0
         /\ Who(a) \notin P => Debt(P)' = Debt(P)
<1>1. a \in Owing BY OwingIs
<1>2. LiveIn(P)' = LiveIn(P) BY SameLiveIn
<1>3. /\ IsFiniteSet(OwingIn(P))
      /\ Cardinality(LiveIn(P)) \in Nat /\ Cardinality(OwingIn(P)) \in Nat
  BY DebtFinite
<1>4. CASE Who(a) \in P
  <2>1. OwingIn(P)' = OwingIn(P) \ {a} /\ a \in OwingIn(P) BY <1>1, <1>4, OwingInMoved
  <2>2. Cardinality(OwingIn(P)') = Cardinality(OwingIn(P)) - 1 BY <1>3, <2>1, FS_RemoveElement
  <2>3. Cardinality(OwingIn(P)) > 0
    <3>1. Cardinality(OwingIn(P)) # 0 BY <1>3, <2>1, FS_EmptySet
    <3> QED BY <1>3, <3>1
  <2>4. Debt(P)' = Cardinality(LiveIn(P)) + Cardinality(OwingIn(P)') BY <1>2 DEF Debt
  <2> QED BY <1>3, <1>4, <2>2, <2>3, <2>4 DEF Debt
<1>5. CASE Who(a) \notin P
  <2>1. OwingIn(P)' = OwingIn(P) BY <1>5, OwingInMoved DEF OwingIn
  <2> QED BY <1>2, <1>5, <2>1 DEF Debt
<1> QED BY <1>4, <1>5

\* A record that leaves and is owed by nobody.
LEMMA DebtStruck ==
  ASSUME Typed, Typed', TasksOK, NEW a \in Actors, NEW ops \in Seq(OpRec), Moved(a, ops),
         NEW s \in Sid, LessLive(s), ~ Heads(a, CountOps), ~ Owes(ops), NEW P
  PROVE  /\ rec[s].client \in P => Debt(P)' = Debt(P) - 1
         /\ rec[s].client \notin P => Debt(P)' = Debt(P)
<1>1. a \notin OwingIn(P) BY OwingIs DEF OwingIn
<1>2. OwingIn(P)' = OwingIn(P) BY <1>1, OwingInMoved
<1>3. /\ IsFiniteSet(LiveIn(P))
      /\ Cardinality(LiveIn(P)) \in Nat /\ Cardinality(OwingIn(P)) \in Nat
  BY DebtFinite
<1>4. CASE rec[s].client \in P
  <2>1. LiveIn(P)' = LiveIn(P) \ {s} /\ s \in LiveIn(P) BY <1>4, LessLiveIn
  <2>2. Cardinality(LiveIn(P)') = Cardinality(LiveIn(P)) - 1 BY <1>3, <2>1, FS_RemoveElement
  <2>3. Debt(P)' = Cardinality(LiveIn(P)') + Cardinality(OwingIn(P)) BY <1>2 DEF Debt
  <2> QED BY <1>3, <1>4, <2>2, <2>3 DEF Debt
<1>5. CASE rec[s].client \notin P
  <2>1. LiveIn(P)' = LiveIn(P) BY <1>5, LessLiveIn
  <2> QED BY <1>2, <1>5, <2>1 DEF Debt
<1> QED BY <1>4, <1>5

\* A record that is granted.
LEMMA DebtMore ==
  ASSUME Typed, Typed', TasksOK, NEW a \in Actors, NEW ops \in Seq(OpRec), Moved(a, ops),
         NEW s \in Sid, MoreLive(s), ~ Heads(a, CountOps), ~ Owes(ops), NEW P
  PROVE  /\ rec'[s].client \in P => Debt(P)' = Debt(P) + 1
         /\ rec'[s].client \notin P => Debt(P)' = Debt(P)
<1>1. a \notin OwingIn(P) BY OwingIs DEF OwingIn
<1>2. OwingIn(P)' = OwingIn(P) BY <1>1, OwingInMoved
<1>3. /\ IsFiniteSet(LiveIn(P))
      /\ Cardinality(LiveIn(P)) \in Nat /\ Cardinality(OwingIn(P)) \in Nat
  BY DebtFinite
<1>4. CASE rec'[s].client \in P
  <2>1. LiveIn(P)' = LiveIn(P) \cup {s} /\ s \notin LiveIn(P) BY <1>4, MoreLiveIn
  <2>2. Cardinality(LiveIn(P)') = Cardinality(LiveIn(P)) + 1 BY <1>3, <2>1, FS_AddElement
  <2>3. Debt(P)' = Cardinality(LiveIn(P)') + Cardinality(OwingIn(P)) BY <1>2 DEF Debt
  <2> QED BY <1>3, <1>4, <2>2, <2>3 DEF Debt
<1>5. CASE rec'[s].client \notin P
  <2>1. LiveIn(P)' = LiveIn(P) BY <1>5, MoreLiveIn
  <2> QED BY <1>2, <1>5, <2>1 DEF Debt
<1> QED BY <1>4, <1>5

-----------------------------------------------------------------------------
(* The parts of the second invariant, for a step of one actor. *)

\* No record is added.
Fewer == \A s \in Sid : rec'[s].st # "none" => rec[s].st # "none" /\ rec'[s].client = rec[s].client

LEMMA PendingMoved ==
  ASSUME Typed, NEW a \in Actors, NEW ops, Moved(a, ops), NEW o, NEW c, Pending(o, c),
         Heads(a, {o}) => task[a].todo[1].who # c
  PROVE  Pending(o, c)'
<1>0. PICK b \in Actors : \E i \in 1 .. Len(task[b].todo) :
                             task[b].todo[i].op = o /\ task[b].todo[i].who = c
  BY DEF Pending
<1>1. PICK i \in 1 .. Len(task[b].todo) : task[b].todo[i].op = o /\ task[b].todo[i].who = c
  BY <1>0
<1>2. CASE b # a
  <2>1. task'[b] = task[b] BY <1>2 DEF Moved
  <2> QED BY <1>1, <2>1 DEF Pending
<1>3. CASE b = a
  <2>1. ~ Idle(a) BY <1>3, TaskParts
  <2>2. i # 1 BY <1>1, <1>3, <2>1 DEF Heads
  <2>3. Len(task[a].todo) \in Nat BY TaskParts
  <2>4. i \in 2 .. Len(task[a].todo) BY <1>3, <2>2, <2>3
  <2>5. PICK k \in 1 .. Len(task'[a].todo) : task'[a].todo[k] = task[a].todo[i] BY <2>4 DEF Moved
  <2> QED BY <1>1, <1>3, <2>5 DEF Pending
<1> QED BY <1>2, <1>3

LEMMA StrippingMoved ==
  ASSUME Typed, NEW a \in Actors, NEW ops, Moved(a, ops), NEW s, Stripping(s),
         Heads(a, {"strip"}) => task[a].todo[1].sid # s
  PROVE  Stripping(s)'
<1>0. PICK b \in Actors : \E i \in 1 .. Len(task[b].todo) :
                             task[b].todo[i].op = "strip" /\ task[b].todo[i].sid = s
  BY DEF Stripping
<1>1. PICK i \in 1 .. Len(task[b].todo) : task[b].todo[i].op = "strip" /\ task[b].todo[i].sid = s
  BY <1>0
<1>2. CASE b # a
  <2>1. task'[b] = task[b] BY <1>2 DEF Moved
  <2> QED BY <1>1, <2>1 DEF Stripping
<1>3. CASE b = a
  <2>1. ~ Idle(a) BY <1>3, TaskParts
  <2>2. i # 1 BY <1>1, <1>3, <2>1 DEF Heads
  <2>3. Len(task[a].todo) \in Nat BY TaskParts
  <2>4. i \in 2 .. Len(task[a].todo) BY <1>3, <2>2, <2>3
  <2>5. PICK k \in 1 .. Len(task'[a].todo) : task'[a].todo[k] = task[a].todo[i] BY <2>4 DEF Moved
  <2> QED BY <1>1, <1>3, <2>5 DEF Stripping
<1> QED BY <1>2, <1>3

LEMMA NewPending ==
  ASSUME NEW a \in Actors, NEW ops, Moved(a, ops), NEW j \in 1 .. Len(ops)
  PROVE  /\ Pending(ops[j].op, ops[j].who)'
         /\ ops[j].op = "strip" => Stripping(ops[j].sid)'
<1>1. PICK k \in 1 .. Len(task'[a].todo) : task'[a].todo[k] = ops[j] BY DEF Moved
<1> QED BY <1>1 DEF Pending, Stripping

LEMMA TornMoved ==
  ASSUME Typed, TasksOK, TornOK, NEW a \in Actors, NEW ops, Moved(a, ops), Fewer, gone \subseteq gone',
         \A j \in 1 .. Len(ops) : OpTorn(ops[j])'
  PROVE  TornOK'
<1>0. ASSUME NEW o, OpTorn(o), o.op = "strip" => o.sid \in Sid PROVE OpTorn(o)'
  <2>3. o.op \in {"take", "forget"} => o.who \in gone' BY <1>0 DEF OpTorn
  <2>4. o.op = "strip" /\ rec'[o.sid].st # "none" => rec'[o.sid].client \in gone'
    BY <1>0 DEF OpTorn, Fewer, Present
  <2> QED BY <2>3, <2>4 DEF OpTorn, Present
<1>1. ASSUME NEW b \in Actors, NEW i \in 1 .. Len(task[b].todo), NEW o, o = task[b].todo[i]
      PROVE  OpTorn(o)'
  <2>1. OpTorn(o) BY <1>1 DEF TornOK
  <2>2. o.op = "strip" => o.sid \in Sid BY <1>1 DEF TasksOK, NamesOK
  <2> QED BY <1>0, <2>1, <2>2
<1>2. ASSUME NEW b \in Actors, NEW i \in 1 .. Len(task'[b].todo), NEW o, o = task'[b].todo[i]
      PROVE  OpTorn(o)'
  <2>1. CASE b # a
    <3>1. task'[b] = task[b] BY <2>1 DEF Moved
    <3> QED BY <1>1, <1>2, <3>1
  <2>2. CASE b = a
    <3>1. CASE \E j \in 1 .. Len(ops) : o = ops[j] BY <3>1
    <3>2. CASE \E j \in 2 .. Len(task[a].todo) : o = task[a].todo[j]
      <4>1. PICK j \in 2 .. Len(task[a].todo) : o = task[a].todo[j] BY <3>2
      <4>2. Len(task[a].todo) \in Nat BY TaskParts
      <4>3. j \in 1 .. Len(task[a].todo) BY <4>2
      <4> QED BY <1>1, <4>1, <4>3
    <3> QED BY <1>2, <2>2, <3>1, <3>2 DEF Moved
  <2> QED BY <2>1, <2>2
<1> QED BY <1>2 DEF TornOK, OpTorn

\* Nothing of the index by client is lost but what leaves the table.
IndexKept ==
  /\ byClient' \in [Clients -> SUBSET Sid]
  /\ \A c \in Clients : \A s \in byClient'[c] : s \in byClient[c] /\ rec'[s].st # "none"
  /\ \A c \in Clients : \A s \in byClient[c] : rec'[s].st # "none" => s \in byClient'[c]

LEMMA PendingFrom ==
  ASSUME Typed, NEW a \in Actors, NEW ops, Moved(a, ops), NEW o, NEW c, Pending(o, c)'
  PROVE  Pending(o, c) \/ \E j \in 1 .. Len(ops) : ops[j].op = o /\ ops[j].who = c
<1>0. PICK b \in Actors : \E i \in 1 .. Len(task'[b].todo) :
                             task'[b].todo[i].op = o /\ task'[b].todo[i].who = c
  BY DEF Pending
<1>1. PICK i \in 1 .. Len(task'[b].todo) : task'[b].todo[i].op = o /\ task'[b].todo[i].who = c
  BY <1>0
<1>2. CASE b # a
  <2>1. task'[b] = task[b] BY <1>2 DEF Moved
  <2> QED BY <1>1, <2>1 DEF Pending
<1>3. CASE b = a /\ \E j \in 2 .. Len(task[a].todo) : task'[a].todo[i] = task[a].todo[j]
  <2>1. PICK j \in 2 .. Len(task[a].todo) : task'[a].todo[i] = task[a].todo[j] BY <1>3
  <2>2. Len(task[a].todo) \in Nat BY TaskParts
  <2>3. j \in 1 .. Len(task[a].todo) BY <2>2
  <2> QED BY <1>1, <1>3, <2>1, <2>3 DEF Pending
<1>4. CASE b = a /\ \E j \in 1 .. Len(ops) : task'[a].todo[i] = ops[j] BY <1>1, <1>4
<1> QED BY <1>1, <1>2, <1>3, <1>4 DEF Moved

LEMMA HeadPending ==
  ASSUME Typed, NEW a \in Actors, NEW o, Heads(a, {o})
  PROVE  Pending(o, task[a].todo[1].who)
<1>1. ~ Idle(a) /\ task[a].todo[1].op = o BY DEF Heads
<1>2. 1 \in 1 .. Len(task[a].todo) BY <1>1, TaskParts
<1> QED BY <1>1, <1>2 DEF Pending

\* A record stays on the list of its client, or goes from there to a
\* teardown.
StaysKnown(ops) ==
  \A s \in Sid : rec'[s].st # "none" =>
    \/ s \in byClient'[rec'[s].client]
    \/ /\ rec[s].st # "none" /\ rec'[s].client = rec[s].client
       /\ \/ s \notin byClient[rec[s].client]
          \/ \E j \in 1 .. Len(ops) : ops[j].op = "strip" /\ ops[j].sid = s

\* A tombstone is an old one, or is announced, and noted if its bit is
\* about to go down.
StaysTold(ops) ==
  \A s \in Sid : rec'[s].st = "revoked" =>
    \/ rec[s].st = "revoked" /\ rec'[s].client = rec[s].client
    \/ /\ \E j \in 1 .. Len(ops) : ops[j].op = "raise" /\ ops[j].who = rec'[s].client
       /\ \A j \in 1 .. Len(ops) : ops[j].op # "lower"
       /\ Pending("lower", rec'[s].client) => rec'[s].client \in crossed'

\* Who is to lower a bit has found nothing that it would tell of.
LowersFine(ops) ==
  \A j \in 1 .. Len(ops) : ops[j].op = "lower" =>
    \A s \in Sid : Tombstone(s, ops[j].who) => Stripping(s)

LEMMA KnownStays ==
  ASSUME EntriesOK, Fewer, IndexKept, NEW ops
  PROVE  StaysKnown(ops)
<1>1. \A s \in Sid : rec[s].st # "none" => rec[s].client \in Clients BY DEF EntriesOK, Present
<1> QED BY <1>1 DEF StaysKnown, Fewer, IndexKept

LEMMA ToldMoved ==
  ASSUME Typed, ToldOK, NEW a \in Actors, NEW ops, Moved(a, ops),
         StaysKnown(ops), StaysTold(ops), LowersFine(ops), crossed \subseteq crossed',
         \A c \in bit : c \in bit' \/ (Heads(a, {"lower"}) /\ task[a].todo[1].who = c),
         Heads(a, {"raise"}) => task[a].todo[1].who \in bit',
         Heads(a, {"strip"}) => rec'[task[a].todo[1].sid].st = "none"
  PROVE  ToldOK'
<1>0. KnownOK /\ LowerOK /\ \A s \in Sid : rec[s].st = "revoked" => Told(s) BY DEF ToldOK
<1>1. ASSUME NEW s \in Sid, rec'[s].st # "none", Stripping(s) PROVE Stripping(s)'
  <2>1. Heads(a, {"strip"}) => task[a].todo[1].sid # s BY <1>1
  <2> QED BY <1>1, <2>1, StrippingMoved
<1>2. ASSUME NEW s \in Sid, rec'[s].st # "none"
      PROVE  s \in byClient'[rec'[s].client] \/ Stripping(s)'
  <2>1. CASE s \in byClient'[rec'[s].client] BY <2>1
  <2>2. CASE rec[s].st # "none" /\ s \notin byClient[rec[s].client]
    <3>1. Stripping(s) BY <1>0, <2>2 DEF KnownOK
    <3> QED BY <1>1, <1>2, <3>1
  <2>3. CASE \E j \in 1 .. Len(ops) : ops[j].op = "strip" /\ ops[j].sid = s
    <3>1. PICK j \in 1 .. Len(ops) : ops[j].op = "strip" /\ ops[j].sid = s BY <2>3
    <3>2. Stripping(ops[j].sid)' BY <3>1, NewPending
    <3> QED BY <3>1, <3>2
  <2> QED BY <1>2, <2>1, <2>2, <2>3 DEF StaysKnown
<1>3. ASSUME NEW s \in Sid, rec'[s].st = "revoked", NEW c, c = rec'[s].client, Pending("lower", c)'
      PROVE  c \in crossed' \/ Stripping(s)'
  <2>1. Pending("lower", c) \/ \E j \in 1 .. Len(ops) : ops[j].op = "lower" /\ ops[j].who = c
    BY <1>3, PendingFrom
  <2>2. CASE rec[s].st = "revoked" /\ c = rec[s].client
    <3>1. CASE Pending("lower", c)
      <4>1. c \in crossed \/ Stripping(s) BY <1>0, <2>2, <3>1 DEF LowerOK
      <4> QED BY <1>1, <1>3, <4>1
    <3>2. CASE \E j \in 1 .. Len(ops) : ops[j].op = "lower" /\ ops[j].who = c
      <4>1. Tombstone(s, c) BY <2>2 DEF Tombstone
      <4>2. Stripping(s) BY <3>2, <4>1 DEF LowersFine
      <4> QED BY <1>1, <1>3, <4>2
    <3> QED BY <2>1, <3>1, <3>2
  <2>3. CASE /\ \A j \in 1 .. Len(ops) : ops[j].op # "lower"
             /\ Pending("lower", c) => c \in crossed'
    BY <2>1, <2>3
  <2> QED BY <1>3, <2>2, <2>3 DEF StaysTold
<1>4. ASSUME NEW s \in Sid, rec'[s].st = "revoked", NEW c, c = rec'[s].client
      PROVE  c \in bit' \cup crossed' \/ Pending("raise", c)' \/ Stripping(s)'
  <2>1. CASE \E j \in 1 .. Len(ops) : ops[j].op = "raise" /\ ops[j].who = c
    <3>1. PICK j \in 1 .. Len(ops) : ops[j].op = "raise" /\ ops[j].who = c BY <2>1
    <3>2. Pending(ops[j].op, ops[j].who)' BY NewPending
    <3> QED BY <3>1, <3>2
  <2>2. CASE rec[s].st = "revoked" /\ c = rec[s].client
    <3>1. c \in bit \cup crossed \/ Pending("raise", c) \/ Stripping(s) BY <1>0, <2>2 DEF Told
    <3>2. CASE c \in crossed BY <3>2
    <3>3. CASE Stripping(s) BY <1>1, <1>4, <3>3
    <3>4. CASE c \in bit /\ Heads(a, {"lower"}) /\ task[a].todo[1].who = c
      <4>1. Pending("lower", c) BY <3>4, HeadPending
      <4>2. c \in crossed \/ Stripping(s) BY <1>0, <2>2, <4>1 DEF LowerOK
      <4> QED BY <1>1, <1>4, <4>2
    <3>5. CASE Pending("raise", c)
      <4>1. CASE Heads(a, {"raise"}) /\ task[a].todo[1].who = c BY <4>1
      <4>2. CASE ~ (Heads(a, {"raise"}) /\ task[a].todo[1].who = c)
        <5>1. Pending("raise", c)' BY <3>5, <4>2, PendingMoved
        <5> QED BY <5>1
      <4> QED BY <4>1, <4>2
    <3> QED BY <3>1, <3>2, <3>3, <3>4, <3>5
  <2> QED BY <1>4, <2>1, <2>2 DEF StaysTold
<1>5. KnownOK' BY <1>2 DEF KnownOK
<1>6. LowerOK' BY <1>3 DEF LowerOK
<1>7. \A s \in Sid : rec'[s].st = "revoked" => Told(s)' BY <1>4 DEF Told
<1> QED BY <1>5, <1>6, <1>7 DEF ToldOK

LEMMA IndexedMoved ==
  ASSUME Typed, IndexedOK, Fewer, IndexKept
  PROVE  IndexedOK'
<1>1. \A c \in Clients : byClient'[c] \subseteq Sid BY DEF IndexKept
<1> QED BY <1>1 DEF IndexedOK, IndexKept, Fewer, Present

LEMMA TeardownMoved ==
  ASSUME Typed, TeardownOK, NEW a \in Actors, NEW ops, Moved(a, ops), Fewer, IndexKept,
         gone' = gone, late' = late, ~ Heads(a, {"take"}),
         Heads(a, {"strip"}) => rec'[task[a].todo[1].sid].st = "none",
         Heads(a, {"forget"}) => liveClient'[task[a].todo[1].who] = 0,
         \A c \in Clients : c \in gone /\ liveClient[c] = 0 => liveClient'[c] = 0
  PROVE  TeardownOK'
<1> SUFFICES ASSUME NEW c \in Clients, c \notin late
             PROVE  /\ c \notin gone => Of(c)' \subseteq byClient'[c]
                    /\ c \in gone => Torn(c)' /\ Forgot(c)'
  BY DEF TeardownOK
<1>1. Of(c)' \subseteq Of(c) /\ \A s \in Of(c)' : rec'[s].st # "none" BY DEF Of, Fewer, Present
<1>2. Of(c) \subseteq byClient[c] => Of(c)' \subseteq byClient'[c] BY <1>1 DEF IndexKept
<1>3. c \notin gone => Of(c)' \subseteq byClient'[c] BY <1>2 DEF TeardownOK
<1>4. ASSUME c \in gone PROVE Torn(c)'
  <2>1. Torn(c) BY <1>4 DEF TeardownOK
  <2>2. CASE Pending("take", c) /\ Of(c) \subseteq byClient[c]
    <3>1. Pending("take", c)' BY <2>2, PendingMoved
    <3> QED BY <1>2, <2>2, <3>1 DEF Torn
  <2>3. CASE byClient[c] = {} /\ \A s \in Of(c) : Stripping(s)
    <3>1. byClient'[c] = {} BY <2>3 DEF IndexKept
    <3>2. ASSUME NEW s \in Of(c)' PROVE Stripping(s)'
      <4>1. Stripping(s) BY <1>1, <2>3
      <4>2. Heads(a, {"strip"}) => task[a].todo[1].sid # s BY <1>1
      <4> QED BY <4>1, <4>2, StrippingMoved
    <3> QED BY <3>1, <3>2 DEF Torn
  <2> QED BY <2>1, <2>2, <2>3 DEF Torn
<1>5. ASSUME c \in gone PROVE Forgot(c)'
  <2>1. Forgot(c) BY <1>5 DEF TeardownOK
  <2>2. CASE liveClient[c] = 0 BY <1>5, <2>2 DEF Forgot
  <2>3. CASE Pending("forget", c)
    <3>1. CASE Heads(a, {"forget"}) /\ task[a].todo[1].who = c BY <3>1 DEF Forgot
    <3>2. CASE ~ (Heads(a, {"forget"}) /\ task[a].todo[1].who = c)
      <4>1. Pending("forget", c)' BY <2>3, <3>2, PendingMoved
      <4> QED BY <4>1 DEF Forgot
    <3> QED BY <3>1, <3>2
  <2> QED BY <2>1, <2>2, <2>3 DEF Forgot
<1> QED BY <1>3, <1>4, <1>5

\* The table as far as it is counted, indexed and announced.
SameBook ==
  \A s \in Sid : /\ rec'[s].client = rec[s].client
                 /\ rec'[s].st # "none" <=> rec[s].st # "none"
                 /\ Live(s)' <=> Live(s)
                 /\ rec'[s].st = "revoked" <=> rec[s].st = "revoked"
Books == <<byClient, counts, marked, bit, gone, late, crossed>>

\* What has to do with the counters, the announcements and teardowns.
HeavyOps == CountOps \cup {"raise", "lower", "take", "forget", "strip"}

LEMMA BookFacts ==
  ASSUME Typed, TableIInv, SameBook, UNCHANGED Books
  PROVE  /\ Fewer /\ SameLive /\ IndexKept /\ MarkedOK'
<1>1. Fewer BY DEF SameBook, Fewer
<1>2. SameLive BY DEF SameBook, SameLive
<1>3. \A c \in Clients : \A s \in byClient[c] : s \in Sid /\ rec[s].st # "none"
  BY DEF TableIInv, IndexedOK, Present, Typed
<1>4. IndexKept BY <1>3 DEF SameBook, IndexKept, Books, Typed
<1>5. MarkedOK' BY DEF TableIInv, MarkedOK, SameBook, Books, Typed
<1> QED BY <1>1, <1>2, <1>4, <1>5

LEMMA CountStays ==
  ASSUME CountOK, gone \subseteq gone', UNCHANGED counts, \A P : Debt(P)' = Debt(P)
  PROVE  CountOK'
<1>1. liveGlobal' = liveGlobal /\ liveClient' = liveClient BY DEF counts
<1> QED BY <1>1 DEF CountOK

LEMMA StillOK ==
  ASSUME Typed, Typed', TasksOK, EntriesOK, TableIInv, NEW a \in Actors, NEW ops \in Seq(OpRec), Moved(a, ops),
         SameBook, UNCHANGED Books, ~ Heads(a, HeavyOps), ~ Owes(ops), LowersFine(ops),
         \A j \in 1 .. Len(ops) : ops[j].op \notin {"take", "forget", "strip"}
  PROVE  TableIInv'
<1>1. Fewer /\ SameLive /\ IndexKept /\ MarkedOK' BY BookFacts
<1>2. CountOK /\ IndexedOK /\ TornOK /\ ToldOK /\ TeardownOK BY DEF TableIInv
<1>3. UNCHANGED <<byClient, counts, gone, late, bit, crossed>> BY DEF Books
<1>4. /\ ~ Heads(a, CountOps) /\ ~ Heads(a, {"raise"}) /\ ~ Heads(a, {"take"})
      /\ ~ Heads(a, {"forget"}) /\ ~ Heads(a, {"strip"})
  BY DEF Heads, HeavyOps
<1>5. \A P : Debt(P)' = Debt(P) BY <1>1, <1>4, DebtSame
<1>6. CountOK' BY <1>2, <1>3, <1>5, CountStays
<1>7. IndexedOK' BY <1>1, <1>2, IndexedMoved
<1>8. \A j \in 1 .. Len(ops) : OpTorn(ops[j])' BY DEF OpTorn
<1>9. TornOK' BY <1>1, <1>2, <1>3, <1>8, TornMoved
<1>10. ToldOK'
  <2>1. StaysTold(ops) BY DEF SameBook, StaysTold
  <2>2. StaysKnown(ops) BY <1>1, KnownStays
  <2> QED BY <1>2, <1>3, <1>4, <2>1, <2>2, ToldMoved
<1>11. liveClient' = liveClient BY <1>3 DEF counts
<1>12. TeardownOK' BY <1>1, <1>2, <1>3, <1>4, <1>11, TeardownMoved
<1> QED BY <1>1, <1>6, <1>7, <1>9, <1>10, <1>12 DEF TableIInv

LEMMA UntouchedStill ==
  ASSUME Typed, TasksOK, TableIInv, UNCHANGED task, SameBook, UNCHANGED Books
  PROVE  TableIInv'
<1>1. Fewer /\ SameLive /\ IndexKept /\ MarkedOK' BY BookFacts
<1>2. CountOK /\ IndexedOK /\ TornOK /\ ToldOK /\ TeardownOK BY DEF TableIInv
<1>3. UNCHANGED <<byClient, counts, gone, late, bit, crossed>> BY DEF Books
<1>4. Owing' = Owing BY DEF Owing, NextIs, Idle
<1>5. \A P : OwingIn(P)' = OwingIn(P) BY <1>4 DEF OwingIn, Who
<1>6. \A P : Debt(P)' = Debt(P) BY <1>1, <1>5, SameLiveIn DEF Debt
<1>7. CountOK' BY <1>2, <1>3, <1>6, CountStays
<1>8. IndexedOK' BY <1>1, <1>2, IndexedMoved
<1>9. TornOK'
  <2>1. ASSUME NEW o, OpTorn(o), o.op = "strip" => o.sid \in Sid PROVE OpTorn(o)'
    <3>1. o.op \in {"take", "forget"} => o.who \in gone' BY <1>3, <2>1 DEF OpTorn
    <3>2. o.op = "strip" /\ rec'[o.sid].st # "none" => rec'[o.sid].client \in gone'
      BY <1>1, <1>3, <2>1 DEF OpTorn, Fewer, Present
    <3> QED BY <3>1, <3>2 DEF OpTorn, Present
  <2>2. ASSUME NEW b \in Actors, NEW i \in 1 .. Len(task[b].todo), NEW o, o = task[b].todo[i]
        PROVE  OpTorn(o)'
    <3>1. OpTorn(o) BY <1>2, <2>2 DEF TornOK
    <3>2. o.op = "strip" => o.sid \in Sid BY <2>2 DEF TasksOK, NamesOK
    <3> QED BY <2>1, <3>1, <3>2
  <2> QED BY <2>2 DEF TornOK, OpTorn
<1>10. \A o, c : Pending(o, c)' <=> Pending(o, c) BY DEF Pending
<1>11. \A s : Stripping(s)' <=> Stripping(s) BY DEF Stripping
<1>12. ToldOK'
  <2>1. KnownOK' BY <1>2, <1>3, <1>11 DEF ToldOK, KnownOK, SameBook
  <2>2. LowerOK' BY <1>2, <1>3, <1>10, <1>11 DEF ToldOK, LowerOK, SameBook
  <2>3. \A s \in Sid : rec'[s].st = "revoked" => Told(s)'
    BY <1>2, <1>3, <1>10, <1>11 DEF ToldOK, Told, SameBook
  <2> QED BY <2>1, <2>2, <2>3 DEF ToldOK
<1>13. liveClient' = liveClient BY <1>3 DEF counts
<1>14. \A c \in Clients : Of(c)' = Of(c) BY DEF Of, SameBook, Present
<1>15. \A c \in Clients : Torn(c) => Torn(c)' BY <1>3, <1>10, <1>11, <1>14 DEF Torn
<1>16. \A c \in Clients : Forgot(c) => Forgot(c)' BY <1>10, <1>13 DEF Forgot
<1>17. TeardownOK' BY <1>2, <1>3, <1>14, <1>15, <1>16 DEF TeardownOK
<1> QED BY <1>1, <1>7, <1>8, <1>9, <1>12, <1>17 DEF TableIInv

-----------------------------------------------------------------------------
(* The steps the second invariant hardly notices. *)

LEMMA SameRec ==
  ASSUME UNCHANGED rec
  PROVE  SameBook
  BY DEF SameBook, Live

LEMMA HeadsOf ==
  ASSUME Typed, NEW a \in Actors, NEW o, NextIs(a, o), NEW X
  PROVE  Heads(a, X) <=> o \in X
<1>1. ~ Idle(a) BY DEF NextIs
<1>2. Head(task[a].todo) = task[a].todo[1] BY <1>1, TaskParts
<1> QED BY <1>1, <1>2 DEF NextIs, Heads

LEMMA LightMoved ==
  ASSUME DelegIInv, DelegIInv', TableIInv, NEW a \in Actors, NEW ops \in Seq(OpRec), Moved(a, ops),
         SameBook, UNCHANGED Books, ~ Heads(a, HeavyOps),
         \A j \in 1 .. Len(ops) : ops[j].op \notin HeavyOps
  PROVE  TableIInv'
<1>1. Typed /\ Typed' /\ TasksOK /\ EntriesOK BY DEF DelegIInv
<1>2. Len(ops) \in Nat BY EmptyLen
<1>3. ~ Owes(ops)
  <2>1. Len(ops) > 0 => 1 \in 1 .. Len(ops) BY <1>2
  <2> QED BY <2>1 DEF Owes, HeavyOps
<1>4. \A j \in 1 .. Len(ops) : ops[j].op \notin {"take", "forget", "strip"} BY DEF HeavyOps
<1>5. LowersFine(ops) BY DEF HeavyOps, LowersFine
<1> QED BY <1>1, <1>3, <1>4, <1>5, StillOK

LEMMA LightThen ==
  ASSUME DelegIInv, DelegIInv', TableIInv, NEW a \in Actors, NEW o, NextIs(a, o), o \notin HeavyOps,
         NEW ops \in Seq(OpRec), Then(a, ops), \A j \in 1 .. Len(ops) : ops[j].op \notin HeavyOps,
         SameBook, UNCHANGED Books
  PROVE  TableIInv'
<1>1. Typed BY DEF DelegIInv
<1>2. ~ Idle(a) BY DEF NextIs
<1>3. Moved(a, ops) BY <1>1, <1>2, ThenMoved
<1>4. ~ Heads(a, HeavyOps) BY <1>1, HeadsOf
<1> QED BY <1>3, <1>4, LightMoved

LEMMA LightNew ==
  ASSUME DelegIInv, DelegIInv', TableIInv, NEW a \in Actors, Idle(a) \/ Len(task[a].todo) = 1,
         ~ Heads(a, HeavyOps),
         NEW ops \in Seq(OpRec), task'[a].todo = ops, \A b \in Actors : b # a => task'[b] = task[b],
         \A j \in 1 .. Len(ops) : ops[j].op \notin HeavyOps, SameBook, UNCHANGED Books
  PROVE  TableIInv'
<1>1. Typed BY DEF DelegIInv
<1>2. Moved(a, ops) BY <1>1, NewMoved, OneMoved
<1> QED BY <1>2, LightMoved

LEMMA EnteredLight ==
  ASSUME DelegIInv, DelegIInv', TableIInv, NEW t \in Threads, Idle(t) \/ Len(task[t].todo) = 1,
         ~ Heads(t, HeavyOps), NEW k \in Task, Len(k.todo) = 1, k.todo[1].op \in LockOps,
         Enter(t, k), UNCHANGED <<rec, index, counts, world>>
  PROVE  TableIInv'
<1>1. Typed /\ TasksOK /\ t \in Actors BY DEF DelegIInv, Actors
<1>2. cur' \in Entries /\ task' = [task EXCEPT ![t] = [k EXCEPT !.arc = cur']]
  BY <1>1, EnterIs DEF Entered
<1>3. k.todo \in Seq(OpRec) /\ [k EXCEPT !.arc = cur'].todo = k.todo BY DEF Task
<1>4. task'[t].todo = k.todo /\ \A b \in Actors : b # t => task'[b] = task[b]
  BY <1>1, <1>2, <1>3 DEF Typed
<1>5. \A j \in 1 .. Len(k.todo) : k.todo[j].op \notin HeavyOps
  <2>1. \A j \in 1 .. Len(k.todo) : j = 1 OBVIOUS
  <2>2. LockOps \cap HeavyOps = {} BY DEF LockOps, HeavyOps, CountOps
  <2> QED BY <2>1, <2>2
<1>6. SameBook /\ UNCHANGED Books BY SameRec DEF index, world, Books
<1> DEFINE ops == k.todo
<1> HIDE DEF ops
<1> QED BY <1>1, <1>3, <1>4, <1>5, <1>6, LightNew

LEMMA IdleHeads ==
  ASSUME NEW a, Idle(a), NEW X
  PROVE  ~ Heads(a, X)
  BY DEF Heads

LEMMA TableRequests ==
  ASSUME DelegIInv, DelegIInv', TableIInv, NEW t \in Threads,
         \/ \E c \in Clients : OpenRead(t, c) \/ OpenWrite(t, c)
         \/ \E m \in Parties : Mutate(t, m)
  PROVE  TableIInv'
<1>1. PICK c \in Parties : \E o \in LockOps :
         /\ Idle(t) /\ Enter(t, Asked(c, <<Op(o)>>)) /\ UNCHANGED <<rec, index, counts, world, ladder>>
  BY DEF OpenRead, OpenWrite, Mutate, Parties, LockOps
<1>2. PICK o \in LockOps : /\ Idle(t) /\ Enter(t, Asked(c, <<Op(o)>>))
                           /\ UNCHANGED <<rec, index, counts, world, ladder>>
  BY <1>1
<1> DEFINE k == Asked(c, <<Op(o)>>)
<1>3. k \in Task /\ Len(k.todo) = 1 /\ k.todo[1].op \in LockOps BY AskedTask
<1> HIDE DEF k
<1>4. Enter(t, k) BY <1>2 DEF k
<1>5. ~ Heads(t, HeavyOps) BY <1>2, IdleHeads
<1> QED BY <1>2, <1>3, <1>4, <1>5, EnteredLight

LEMMA LockHeads ==
  ASSUME DelegIInv, NEW t \in Actors, NEW o \in LockOps, NextIs(t, o)
  PROVE  t \in Threads /\ Len(task[t].todo) = 1 /\ ~ Heads(t, HeavyOps) /\ task[t].todo[1].op = o
<1>1. Typed /\ TasksOK BY DEF DelegIInv
<1>2. o \notin HeavyOps BY DEF LockOps, HeavyOps, CountOps
<1> QED BY <1>1, <1>2, LockIsAll, HeadsOf

LEMMA TableAgain ==
  ASSUME DelegIInv, DelegIInv', TableIInv, NEW t \in Actors, Again(t)
  PROVE  TableIInv'
<1>1. Typed /\ TasksOK BY DEF DelegIInv
<1>2. Enter(t, task[t]) /\ UNCHANGED <<rec, index, counts, world>> BY DEF Again
<1>3. PICK o \in LockOps : NextIs(t, o) BY DEF Again, Locks, LockOps
<1>4. t \in Threads /\ Len(task[t].todo) = 1 /\ ~ Heads(t, HeavyOps) /\ task[t].todo[1].op \in LockOps
  BY <1>3, LockHeads
<1>5. task[t] \in Task BY <1>1, TaskParts
<1> QED BY <1>2, <1>4, <1>5, EnteredLight

LEMMA NoneHeavy == <<>> \in Seq(OpRec) /\ \A j \in 1 .. Len(<<>>) : <<>>[j].op \notin HeavyOps
  OBVIOUS

LEMMA TableCollect ==
  ASSUME DelegIInv, DelegIInv', TableIInv, NEW a \in Actors, Collect(a)
  PROVE  TableIInv'
<1>1. NextIs(a, "gc") /\ Then(a, <<>>) /\ UNCHANGED <<rec, index, counts, world>> BY DEF Collect
<1>2. SameBook /\ UNCHANGED Books BY <1>1, SameRec DEF index, world, Books
<1>3. "gc" \notin HeavyOps BY DEF HeavyOps, CountOps
<1> QED BY <1>1, <1>2, <1>3, NoneHeavy, LightThen

LEMMA TableRun ==
  ASSUME DelegIInv, DelegIInv', TableIInv, NEW a \in Actors, Run(a)
  PROVE  TableIInv'
<1>1. Then(a, <<>>) /\ UNCHANGED <<table, index, counts, marked, bit, gone, late, crossed>> BY DEF Run
<1>2. SameBook /\ UNCHANGED Books BY <1>1, SameRec DEF table, index, Books
<1>3. PICK o \in RunOps : NextIs(a, o) BY DEF Run, RunOps
<1>4. o \notin HeavyOps BY DEF RunOps, HeavyOps, CountOps
<1> QED BY <1>1, <1>2, <1>3, <1>4, NoneHeavy, LightThen

LEMMA OneLight ==
  ASSUME NEW o, o \in OpRec, o.op \notin HeavyOps
  PROVE  <<o>> \in Seq(OpRec) /\ \A j \in 1 .. Len(<<o>>) : <<o>>[j].op \notin HeavyOps
<1>1. <<o>> \in Seq(OpRec) /\ Len(<<o>>) = 1 /\ <<o>>[1] = o OBVIOUS
<1>2. \A j \in 1 .. Len(<<o>>) : j = 1 BY <1>1
<1> QED BY <1>1, <1>2

LEMMA TableDecide ==
  ASSUME DelegIInv, DelegIInv', TableIInv, NEW a \in Actors, Decide(a)
  PROVE  TableIInv'
<1>1. NextIs(a, "decide") /\ UNCHANGED <<table, index, counts, world>> BY DEF Decide
<1>2. SameBook /\ UNCHANGED Books BY <1>1, SameRec DEF table, index, world, Books
<1>3. "decide" \notin HeavyOps BY DEF HeavyOps, CountOps
<1>4. Typed /\ TasksOK BY DEF DelegIInv
<1>5. Who(a) \in Clients BY <1>1, <1>4, HeadIs
<1> DEFINE o == OpFor("lower", Who(a))
<1>6. o = [op |-> "lower", sid |-> 0, who |-> Who(a)] BY DEF OpFor, Op
<1>7. o \in OpRec /\ o.op = "lower"
  BY <1>5, <1>6 DEF OpRec, OpName, LockOps, RunOps, GuardOps, CountOps, OtherOps, Parties
<1>8. Then(a, <<>>) \/ (Then(a, <<o>>) /\ ~ HasRevoked(Who(a))) BY DEF Decide
<1>8a. o.who = Who(a) BY <1>6
<1> HIDE DEF o
<1>9. CASE Then(a, <<>>) BY <1>1, <1>2, <1>3, <1>9, NoneHeavy, LightThen
<1>10. CASE Then(a, <<o>>) /\ ~ HasRevoked(Who(a))
  <2>0. <<o>> \in Seq(OpRec) /\ Len(<<o>>) = 1 /\ <<o>>[1] = o BY <1>7
  <2>1. PICK ops \in Seq(OpRec) : ops = <<o>> /\ Len(ops) = 1 /\ ops[1] = o BY <2>0
  <2>2. \A j \in 1 .. Len(ops) : j = 1 BY <2>1
  <2>3. ~ Owes(ops) BY <1>7, <2>1 DEF Owes, CountOps
  <2>4. \A j \in 1 .. Len(ops) : ops[j].op \notin {"take", "forget", "strip"} BY <1>7, <2>1, <2>2
  <2>5. LowersFine(ops)
    <3>1. ASSUME NEW s \in Sid, Tombstone(s, Who(a)) PROVE Stripping(s)
      <4>1. rec[s].st = "revoked" /\ rec[s].client = Who(a) BY <3>1 DEF Tombstone
      <4>2. s \in byClient[Who(a)] \/ Stripping(s) BY <4>1 DEF TableIInv, ToldOK, KnownOK
      <4>3. Found(s) BY <4>1 DEF DelegIInv, EntriesOK, Found, Present
      <4> QED BY <1>10, <3>1, <4>2, <4>3 DEF HasRevoked
    <3> QED BY <1>8a, <2>1, <2>2, <3>1 DEF LowersFine
  <2>6. ~ Idle(a) BY <1>1 DEF NextIs
  <2>7. Moved(a, ops) BY <1>4, <1>10, <2>1, <2>6, ThenMoved
  <2>8. ~ Heads(a, HeavyOps) BY <1>1, <1>3, <1>4, HeadsOf
  <2>9. Typed' /\ EntriesOK BY DEF DelegIInv
  <2> QED BY <1>2, <1>4, <2>3, <2>4, <2>5, <2>7, <2>8, <2>9, StillOK
<1> QED BY <1>8, <1>9, <1>10

LEMMA TableDrop ==
  ASSUME DelegIInv, DelegIInv', TableIInv, NEW t \in Actors, Drop(t)
  PROVE  TableIInv'
<1> DEFINE q == task[t].todo
<1>1. /\ task' = [task EXCEPT ![t] = [todo |-> Tail(q), arc |-> 0, client |-> task[t].client]]
      /\ UNCHANGED <<cur, rec, index, counts, world, ladder>>
  BY DEF Drop, Asked
<1>2. Typed /\ Typed' /\ TasksOK BY DEF DelegIInv
<1>3. PICK o \in GuardOps : NextIs(t, o) BY DEF Drop, GuardOps
<1>4. q \in Seq(OpRec) /\ q # <<>> BY <1>2, <1>3, TaskParts DEF NextIs, Idle
<1>5. task'[t].todo = Tail(q) /\ \A b \in Actors : b # t => task'[b] = task[b] BY <1>1, <1>2 DEF Typed
<1>6. Tail(q) \in Seq(OpRec) /\ Pushed(Tail(q), q, <<>>)
  <2> HIDE DEF q
  <2>1. <<>> \o Tail(q) = Tail(q) /\ <<>> \in Seq(OpRec) BY <1>4
  <2>2. <<>> \o Tail(q) \in Seq(OpRec) /\ Pushed(<<>> \o Tail(q), q, <<>>) BY <1>4, <2>1, SeqPushed
  <2> QED BY <2>1, <2>2
<1>7. <<>> \in Seq(OpRec) OBVIOUS
<1>8. Moved(t, <<>>) BY <1>4, <1>5, <1>6, <1>7, PushedMoved
<1>9. o \notin HeavyOps BY DEF GuardOps, HeavyOps, CountOps
<1>10. ~ Heads(t, HeavyOps) BY <1>2, <1>3, <1>9, HeadsOf
<1>11. SameBook /\ UNCHANGED Books BY <1>1, SameRec DEF index, world, Books
<1> QED BY <1>8, <1>10, <1>11, NoneHeavy, LightMoved

LEMMA FenceLight ==
  ASSUME NEW r, NEW n, NEW S, FenceList(r, n, S)
  PROVE  \A j \in 1 .. Len(r) : r[j].op \notin HeavyOps
<1>1. n \in Nat /\ Len(r) \in {n + 2, n + 3} BY DEF FenceList
<1>2. \A j \in 1 .. Len(r) : \/ j \in 1 .. n \/ j = n + 1 \/ j = n + 2
                             \/ (j = n + 3 /\ Len(r) = n + 3)
  BY <1>1
<1>3. \A j \in 1 .. n : r[j].op = "revoke" BY DEF FenceList
<1>4. r[n + 1].op \in {"drop"} \cup RunOps /\ r[n + 2].op \in {"gc", "release"}
      /\ (Len(r) = n + 3 => r[n + 3].op = "gc")
  BY <1>1 DEF FenceList
<1>5. \A j \in 1 .. Len(r) : r[j].op \in {"revoke", "drop", "gc", "release"} \cup RunOps
  BY <1>2, <1>3, <1>4
<1> QED BY <1>5 DEF HeavyOps, CountOps, RunOps

LEMMA TableFence ==
  ASSUME DelegIInv, DelegIInv', TableIInv, NEW t \in Actors, Fence(t)
  PROVE  TableIInv'
<1> DEFINE i       == task[t].arc
           m       == task[t].client
           granted == {s \in InEntry(i) : rec[s].st = "granted"}
           pending == {s \in InEntry(i) : Recalled(s)}
<1>1. PICK expired \in SUBSET Foreign(granted, m) :
        /\ rec' = [s \in Sid |-> IF s \in granted THEN [rec[s] EXCEPT !.st = "pending"] ELSE rec[s]]
        /\ Then(t, Ops("revoke", expired)
                    \o (IF Foreign(pending \cup (granted \ expired), m) # {} THEN <<Op("drop")>>
                        ELSE <<Op(Running(Head(task[t].todo).op)), Op("release")>>)
                    \o <<Op("gc")>>)
  BY DEF Fence
<1>2. UNCHANGED <<cur, index, counts, world>> BY DEF Fence
<1>3. Typed /\ TasksOK BY DEF DelegIInv
<1>4. PICK o \in {"fence", "open"} : NextIs(t, o) BY DEF Fence
<1>5. o \notin HeavyOps BY DEF HeavyOps, CountOps
<1>6. Head(task[t].todo).op = o BY <1>4 DEF NextIs
<1>7. expired \in SUBSET Sid BY <1>1 DEF Foreign, InEntry
<1> DEFINE delay == Foreign(pending \cup (granted \ expired), m) # {}
           L == Ops("revoke", expired)
                \o (IF delay THEN <<Op("drop")>> ELSE <<Op(Running(o)), Op("release")>>)
                \o <<Op("gc")>>
<1>8. Then(t, L) BY <1>1, <1>6
<1>9. FenceList(L, Cardinality(expired), expired)
  <2>1. delay \in BOOLEAN OBVIOUS
  <2> HIDE DEF delay
  <2> QED BY <1>7, <2>1, FenceListIs
<1>10. \A s \in granted : rec[s].st = "granted" /\ s \in Sid BY DEF InEntry
<1> HIDE DEF delay, L, granted, pending
<1>11. L \in Seq(OpRec) BY <1>9 DEF FenceList
<1>12. \A j \in 1 .. Len(L) : L[j].op \notin HeavyOps BY <1>9, FenceLight
<1>13. SameBook
  <2> DEFINE Hit(s) == [rec[s] EXCEPT !.st = "pending"]
  <2>1. \A s \in Sid : rec[s] \in Record BY <1>3 DEF Typed
  <2>2. \A s \in Sid : Hit(s).st = "pending" /\ Hit(s).client = rec[s].client BY <2>1 DEF Record
  <2>3. \A s \in Sid : \/ rec'[s] = rec[s]
                       \/ s \in granted /\ rec'[s] = Hit(s)
    BY <1>1
  <2> HIDE DEF Hit
  <2> QED BY <1>10, <2>2, <2>3 DEF SameBook, Live
<1>14. UNCHANGED Books BY <1>2 DEF index, world, Books
<1> QED BY <1>4, <1>5, <1>8, <1>11, <1>12, <1>13, <1>14, LightThen

LEMMA LadderLight ==
  ASSUME DelegIInv, DelegIInv', TableIInv, NEW s \in Sid, Idle(s), SameBook, UNCHANGED Books,
         \/ UNCHANGED task
         \/ \E q \in {<<>>, <<OpOn("revoke", s)>>, <<OpOn("disown", s)>>} :
               task' = [task EXCEPT ![s].todo = q]
  PROVE  TableIInv'
<1>1. Typed /\ TasksOK /\ s \in Actors BY DEF DelegIInv, Actors
<1>2. CASE UNCHANGED task BY <1>1, <1>2, UntouchedStill
<1>3. ASSUME NEW q \in {<<>>, <<OpOn("revoke", s)>>, <<OpOn("disown", s)>>},
             task' = [task EXCEPT ![s].todo = q]
      PROVE  TableIInv'
  <2>1. q \in Seq(OpRec) /\ \A j \in 1 .. Len(q) : q[j].op \notin HeavyOps
    <3>1. ASSUME NEW o \in {"revoke", "disown"}, q = <<OpOn(o, s)>>
          PROVE  q \in Seq(OpRec) /\ \A j \in 1 .. Len(q) : q[j].op \notin HeavyOps
      <4> DEFINE p == OpOn(o, s)
      <4>1. p = [op |-> o, sid |-> s, who |-> Local] BY DEF OpOn, Op
      <4>2. p \in OpRec /\ p.op = o
        BY <4>1 DEF OpRec, OpName, LockOps, RunOps, GuardOps, CountOps, OtherOps, Parties
      <4>3. p.op \notin HeavyOps BY <4>2 DEF HeavyOps, CountOps
      <4> HIDE DEF p
      <4> QED BY <3>1, <4>2, <4>3, OneLight DEF p
    <3> QED BY <1>3, <3>1, NoneHeavy
  <2>2. task[s] \in Task BY <1>1, TaskParts
  <2>3. [task[s] EXCEPT !.todo = q].todo = q BY <2>2 DEF Task
  <2>4. task'[s].todo = q /\ \A b \in Actors : b # s => task'[b] = task[b] BY <1>1, <1>3, <2>3 DEF Typed
  <2>5. ~ Heads(s, HeavyOps) BY IdleHeads
  <2> QED BY <1>1, <2>1, <2>4, <2>5, LightNew
<1> QED BY <1>2, <1>3

LEMMA TableClimb ==
  ASSUME DelegIInv, DelegIInv', TableIInv, NEW s \in Sid, Climb(s)
  PROVE  TableIInv'
<1>1. CASE Acked(s)
  <2>1. UNCHANGED <<cur, ent, index, counts, world>> /\ UNCHANGED task /\ Idle(s)
    BY <1>1 DEF Acked, Goes, At
  <2>2. UNCHANGED Books BY <2>1 DEF index, world, Books
  <2> DEFINE k == [rec[s] EXCEPT !.st = "acked"]
  <2>3. rec[s] \in Record /\ rec \in [Sid -> Record] BY DEF DelegIInv, Typed
  <2>4. k.st = "acked" /\ k.client = rec[s].client BY <2>3 DEF Record
  <2>5. rec' = rec \/ (rec' = [rec EXCEPT ![s] = k] /\ rec[s].st = "pending") BY <1>1 DEF Acked
  <2> HIDE DEF k
  <2>6. \A r \in Sid : rec'[r] = rec[r] \/ (r = s /\ rec'[r] = k /\ rec[s].st = "pending")
    BY <2>3, <2>5
  <2>7. SameBook BY <2>4, <2>6 DEF SameBook, Live
  <2> QED BY <2>1, <2>2, <2>7, LadderLight
<1>2. CASE Send(s) \/ NoAnswer(s) \/ Disowned(s) \/ RefusedRecall(s) \/ Unreachable(s) \/ Park(s)
           \/ NotReturned(s)
  <2>1. UNCHANGED <<table, index, counts, world>> /\ Idle(s)
    BY <1>2 DEF Send, NoAnswer, Disowned, RefusedRecall, Unreachable, Park, NotReturned, At, Awake
  <2>2. SameBook /\ UNCHANGED Books BY <2>1, SameRec DEF table, index, world, Books
  <2>3. \/ UNCHANGED task
        \/ \E q \in {<<>>, <<OpOn("revoke", s)>>, <<OpOn("disown", s)>>} :
              task' = [task EXCEPT ![s].todo = q]
    <3>1. CASE Send(s) BY <3>1 DEF Send, Ends, Goes
    <3>2. CASE NoAnswer(s) \/ Park(s) BY <3>2 DEF NoAnswer, Park, Goes
    <3>3. CASE Disowned(s) \/ RefusedRecall(s) BY <3>3 DEF Disowned, RefusedRecall, Ends, Goes
    <3>4. CASE Unreachable(s) \/ NotReturned(s)
      BY <3>4 DEF Unreachable, NotReturned, Ends, Goes, LastWord
    <3> QED BY <1>2, <3>1, <3>2, <3>3, <3>4
  <2> QED BY <2>1, <2>2, <2>3, LadderLight
<1> QED BY <1>1, <1>2 DEF Climb

\* The steps beside all tasks.
LEMMA TableBeside ==
  ASSUME DelegIInv, TableIInv,
         \/ \E s \in Sid : RunsOut(s) \/ Unblocks(s)
         \/ \E c \in Clients : Close(c) \/ Rebind(c)
         \/ CoolingEnds
         \/ UNCHANGED vars
  PROVE  TableIInv'
<1>1. UNCHANGED <<rec, index, counts, marked, bit, gone, late, crossed, task>>
  BY DEF RunsOut, Unblocks, Goes, Close, Rebind, CoolingEnds, vars, table, world
<1>2. SameBook /\ UNCHANGED Books BY <1>1, SameRec DEF index, Books
<1> QED BY <1>1, <1>2, UntouchedStill DEF DelegIInv

-----------------------------------------------------------------------------
(* The steps that settle what the table owes. *)

\* An operation that is done, and leaves the records and the indexes alone.
LEMMA SettledOK ==
  ASSUME DelegIInv, DelegIInv', TableIInv, NEW a \in Actors, NEW o, NextIs(a, o),
         o \notin {"take", "strip"}, Then(a, <<>>), UNCHANGED <<rec, byClient, gone, late, crossed>>,
         CountOK', MarkedOK', \A c \in bit : c \in bit' \/ (o = "lower" /\ c = Who(a)),
         o = "raise" => Who(a) \in bit',
         o = "forget" => liveClient'[Who(a)] = 0,
         \A c \in Clients : c \in gone /\ liveClient[c] = 0 => liveClient'[c] = 0
  PROVE  TableIInv'
<1>1. Typed /\ Typed' /\ TasksOK BY DEF DelegIInv
<1>2. CountOK /\ IndexedOK /\ TornOK /\ ToldOK /\ TeardownOK BY DEF TableIInv
<1>3. <<>> \in Seq(OpRec) OBVIOUS
<1>4. ~ Idle(a) /\ Who(a) = task[a].todo[1].who BY <1>1, HeadIs
<1>5. Moved(a, <<>>) BY <1>1, <1>3, <1>4, ThenMoved
<1>6. \A X : Heads(a, X) <=> o \in X BY <1>1, HeadsOf
<1>7. Fewer BY DEF Fewer
<1>8. IndexKept
  <2>1. \A c \in Clients : \A s \in byClient[c] : s \in Sid /\ rec[s].st # "none"
    BY <1>1, <1>2 DEF IndexedOK, Present, Typed
  <2> QED BY <1>1, <2>1 DEF IndexKept, Typed
<1>9. IndexedOK' BY <1>1, <1>2, <1>7, <1>8, IndexedMoved
<1>10. \A j \in 1 .. Len(<<>>) : OpTorn(<<>>[j])' OBVIOUS
<1>11. TornOK' BY <1>1, <1>2, <1>5, <1>7, <1>10, TornMoved
<1>12. ToldOK'
  <2>1. StaysTold(<<>>) BY DEF StaysTold
  <2>2. EntriesOK BY DEF DelegIInv
  <2>3. StaysKnown(<<>>) BY <1>7, <1>8, <2>2, KnownStays
  <2>4. LowersFine(<<>>) BY DEF LowersFine
  <2>5. Heads(a, {"raise"}) => task[a].todo[1].who \in bit' BY <1>4, <1>6
  <2>6. \A c \in bit : c \in bit' \/ (Heads(a, {"lower"}) /\ task[a].todo[1].who = c) BY <1>4, <1>6
  <2>7. ~ Heads(a, {"strip"}) BY <1>6
  <2> QED BY <1>1, <1>2, <1>5, <2>1, <2>3, <2>4, <2>5, <2>6, <2>7, ToldMoved
<1>13. TeardownOK'
  <2>1. ~ Heads(a, {"take"}) /\ ~ Heads(a, {"strip"}) BY <1>6
  <2>2. Heads(a, {"forget"}) => liveClient'[task[a].todo[1].who] = 0 BY <1>4, <1>6
  <2> QED BY <1>1, <1>2, <1>5, <1>7, <1>8, <2>1, <2>2, TeardownMoved
<1> QED BY <1>9, <1>11, <1>12, <1>13 DEF TableIInv

\* Counting down once for what was owed.
LEMMA PaidOK ==
  ASSUME DelegIInv, DelegIInv', TableIInv, NEW a \in Actors, NEW o \in CountOps, NextIs(a, o),
         Then(a, <<>>), UNCHANGED <<rec, gone>>, Uncounted(Who(a))
  PROVE  /\ CountOK'
         /\ \A c \in Clients : c \in gone /\ liveClient[c] = 0 => liveClient'[c] = 0
<1>1. Typed /\ Typed' /\ TasksOK BY DEF DelegIInv
<1>2. CountOK BY DEF TableIInv
<1>3. <<>> \in Seq(OpRec) /\ ~ Owes(<<>>) BY DEF Owes
<1>4. ~ Idle(a) /\ Who(a) \in Clients BY <1>1, HeadIs DEF CountOps
<1>5. Moved(a, <<>>) BY <1>1, <1>3, <1>4, ThenMoved
<1>6. Heads(a, CountOps) BY <1>1, HeadsOf
<1>7. SameLive BY DEF SameLive, Live
<1>8. ASSUME NEW P PROVE /\ Who(a) \in P => Debt(P)' = Debt(P) - 1 /\ Debt(P) > 0
                         /\ Who(a) \notin P => Debt(P)' = Debt(P)
  BY <1>1, <1>3, <1>5, <1>6, <1>7, DebtPaid
<1>9. PICK w \in Clients : w = Who(a) BY <1>4
<1>10. liveClient' = [liveClient EXCEPT ![w] = Less(liveClient[w])] /\ liveGlobal' = liveGlobal - 1
  BY <1>9 DEF Uncounted
<1>11. liveClient \in [Clients -> Nat] BY <1>1 DEF Typed
<1>12. \A c \in Clients : liveClient'[c] = (IF c = w THEN Less(liveClient[w]) ELSE liveClient[c])
  BY <1>10, <1>11
<1>13. liveGlobal' = Debt(Clients)' BY <1>2, <1>4, <1>8, <1>10 DEF CountOK
<1>14. ASSUME NEW c \in Clients, c \notin gone PROVE liveClient'[c] = Debt({c})'
  <2>1. liveClient[c] = Debt({c}) BY <1>2, <1>14 DEF CountOK
  <2>2. CASE c = w
    <3>1. Who(a) \in {c} BY <1>9, <2>2
    <3>2. Debt({c})' = Debt({c}) - 1 /\ Debt({c}) > 0 BY <1>8, <3>1
    <3> QED BY <1>12, <2>1, <2>2, <3>2 DEF Less
  <2>3. CASE c # w
    <3>1. Who(a) \notin {c} BY <1>9, <2>3
    <3> QED BY <1>8, <1>12, <2>1, <2>3, <3>1
  <2> QED BY <2>2, <2>3
<1>15. CountOK' BY <1>13, <1>14 DEF CountOK
<1>16. \A c \in Clients : c \in gone /\ liveClient[c] = 0 => liveClient'[c] = 0 BY <1>12 DEF Less
<1> QED BY <1>15, <1>16

\* The counters stay, and nothing was owed.
LEMMA QuietCounts ==
  ASSUME DelegIInv, DelegIInv', TableIInv, NEW a \in Actors, NEW o, NextIs(a, o), o \notin CountOps,
         Then(a, <<>>), UNCHANGED rec, NEW P
  PROVE  Debt(P)' = Debt(P)
<1>1. Typed /\ Typed' /\ TasksOK BY DEF DelegIInv
<1>3. <<>> \in Seq(OpRec) /\ ~ Owes(<<>>) BY DEF Owes
<1>4. ~ Idle(a) BY DEF NextIs
<1>5. Moved(a, <<>>) BY <1>1, <1>3, <1>4, ThenMoved
<1>6. ~ Heads(a, CountOps) BY <1>1, HeadsOf
<1>7. SameLive BY DEF SameLive, Live
<1> QED BY <1>1, <1>3, <1>5, <1>6, <1>7, DebtSame

LEMMA TableUncount ==
  ASSUME DelegIInv, DelegIInv', TableIInv, NEW a \in Actors, Uncount(a)
  PROVE  TableIInv'
<1>1. NextIs(a, "count") /\ Then(a, <<>>) /\ UNCHANGED <<table, index, world>> /\ Uncounted(Who(a))
  BY DEF Uncount
<1>2. UNCHANGED <<rec, byClient, gone, late, marked, bit, crossed>> BY <1>1 DEF table, index, world
<1>3. "count" \in CountOps BY DEF CountOps
<1>4. CountOK' /\ \A c \in Clients : c \in gone /\ liveClient[c] = 0 => liveClient'[c] = 0
  BY <1>1, <1>2, <1>3, PaidOK
<1>5. MarkedOK' BY <1>2 DEF TableIInv, MarkedOK
<1>6. bit' = bit BY <1>2
<1> QED BY <1>1, <1>2, <1>4, <1>5, <1>6, SettledOK

LEMMA TableMark ==
  ASSUME DelegIInv, DelegIInv', TableIInv, NEW a \in Actors, Mark(a)
  PROVE  TableIInv'
<1>1. /\ NextIs(a, "revoked") /\ Then(a, <<>>) /\ Uncounted(Who(a))
      /\ UNCHANGED <<table, index, bit, gone, late, crossed>>
      /\ marked' = IF rec[SidOf(a)].st = "revoked" THEN marked \cup {SidOf(a)} ELSE marked
  BY DEF Mark
<1>2. UNCHANGED <<rec, byClient, gone, late, bit, crossed>> BY <1>1 DEF table, index
<1>3. "revoked" \in CountOps BY DEF CountOps
<1>4. CountOK' /\ \A c \in Clients : c \in gone /\ liveClient[c] = 0 => liveClient'[c] = 0
  BY <1>1, <1>2, <1>3, PaidOK
<1>5. MarkedOK' BY <1>1, <1>2 DEF TableIInv, MarkedOK
<1>6. bit' = bit BY <1>2
<1> QED BY <1>1, <1>2, <1>4, <1>5, <1>6, SettledOK

LEMMA TableRaise ==
  ASSUME DelegIInv, DelegIInv', TableIInv, NEW a \in Actors, Raise(a)
  PROVE  TableIInv'
<1>1. /\ NextIs(a, "raise") /\ Then(a, <<>>) /\ bit' = bit \cup {Who(a)}
      /\ UNCHANGED <<rec, byClient, gone, late, marked, crossed, counts>>
  BY DEF Raise, table, index
<1>2. "raise" \notin CountOps BY DEF CountOps
<1>3. \A P : Debt(P)' = Debt(P) BY <1>1, <1>2, QuietCounts
<1>4. CountOK /\ MarkedOK BY DEF TableIInv
<1>5. CountOK' BY <1>1, <1>3, <1>4, CountStays
<1>6. MarkedOK' BY <1>1, <1>4 DEF MarkedOK
<1>7. \A c \in bit : c \in bit' BY <1>1
<1>8. liveClient' = liveClient /\ Who(a) \in bit' BY <1>1 DEF counts
<1> QED BY <1>1, <1>5, <1>6, <1>7, <1>8, SettledOK

\* The bit goes down: what it told of was revoked since, or is torn down.
LEMMA TableLower ==
  ASSUME DelegIInv, DelegIInv', TableIInv, NEW a \in Actors, Lower(a)
  PROVE  TableIInv'
<1>1. /\ NextIs(a, "lower") /\ Then(a, <<>>) /\ bit' = bit \ {Who(a)}
      /\ UNCHANGED <<rec, byClient, gone, late, marked, crossed, counts>>
  BY DEF Lower, table, index
<1>2. "lower" \notin CountOps BY DEF CountOps
<1>3. \A P : Debt(P)' = Debt(P) BY <1>1, <1>2, QuietCounts
<1>4. CountOK /\ MarkedOK BY DEF TableIInv
<1>5. CountOK' BY <1>1, <1>3, <1>4, CountStays
<1>6. MarkedOK' BY <1>1, <1>4 DEF MarkedOK
<1>7. \A c \in bit : c \in bit' \/ c = Who(a) BY <1>1
<1>8. liveClient' = liveClient BY <1>1 DEF counts
<1> QED BY <1>1, <1>5, <1>6, <1>7, <1>8, SettledOK

LEMMA TableForget ==
  ASSUME DelegIInv, DelegIInv', TableIInv, NEW a \in Actors, Forget(a)
  PROVE  TableIInv'
<1>1. /\ NextIs(a, "forget") /\ Then(a, <<>>) /\ liveClient' = [liveClient EXCEPT ![Who(a)] = 0]
      /\ UNCHANGED <<rec, byClient, gone, late, marked, bit, crossed, liveGlobal>>
  BY DEF Forget, table, index, world
<1>2. "forget" \notin CountOps BY DEF CountOps
<1>3. \A P : Debt(P)' = Debt(P) BY <1>1, <1>2, QuietCounts
<1>4. CountOK /\ MarkedOK /\ TornOK BY DEF TableIInv
<1>5. Typed /\ TasksOK BY DEF DelegIInv
<1>6. Who(a) \in Clients /\ Who(a) \in gone
  <2>1. /\ Who(a) \in Clients /\ Who(a) = task[a].todo[1].who
        /\ task[a].todo[1].op = "forget" /\ 1 \in 1 .. Len(task[a].todo)
    BY <1>1, <1>5, HeadIs
  <2>2. OpTorn(task[a].todo[1]) BY <1>4, <2>1 DEF TornOK
  <2> QED BY <2>1, <2>2 DEF OpTorn
<1>7. PICK w \in Clients : w = Who(a) BY <1>6
<1>8. liveClient \in [Clients -> Nat] BY <1>5 DEF Typed
<1>9. \A c \in Clients : liveClient'[c] = (IF c = w THEN 0 ELSE liveClient[c]) BY <1>1, <1>7, <1>8
<1>10. CountOK' BY <1>1, <1>3, <1>4, <1>6, <1>7, <1>9 DEF CountOK
<1>11. MarkedOK' BY <1>1, <1>4 DEF MarkedOK
<1>12. bit' = bit BY <1>1
<1>13. liveClient'[Who(a)] = 0 /\ \A c \in Clients : c \in gone /\ liveClient[c] = 0 => liveClient'[c] = 0
  BY <1>7, <1>9
<1> QED BY <1>1, <1>10, <1>11, <1>12, <1>13, SettledOK

-----------------------------------------------------------------------------
(* The steps that take a record off the table. *)

\* What a removal is to the counts.
LEMMA GoneLive ==
  ASSUME Typed, NEW s \in Sid, rec' = [rec EXCEPT ![s] = NoRec]
  PROVE  /\ \A r \in Sid : rec'[r] = (IF r = s THEN NoRec ELSE rec[r])
         /\ NoRec.st = "none"
         /\ Live(s) => LessLive(s)
         /\ ~ Live(s) => SameLive
<1>1. rec \in [Sid -> Record] BY DEF Typed
<1>2. NoRec.st = "none" BY DEF NoRec
<1>3. \A r \in Sid : rec'[r] = (IF r = s THEN NoRec ELSE rec[r]) BY <1>1
<1>4. Live(s) => LessLive(s) BY <1>2, <1>3 DEF LessLive, Live
<1>5. ~ Live(s) => SameLive BY <1>2, <1>3 DEF SameLive, Live
<1> QED BY <1>2, <1>3, <1>4, <1>5

LEMMA RemovedStill ==
  ASSUME DelegIInv, DelegIInv', TableIInv, NEW a \in Actors, NEW ops \in Seq(OpRec), Moved(a, ops),
         NEW s \in Sid, rec' = [rec EXCEPT ![s] = NoRec],
         byClient' = [c \in Clients |-> byClient[c] \ {s}],
         UNCHANGED <<liveClient, gone, late, bit, crossed>>,
         CountOK', marked' \subseteq marked, s \notin marked',
         \A j \in 1 .. Len(ops) : ops[j].op \notin {"lower", "take", "forget", "strip"},
         ~ Heads(a, {"raise"}), ~ Heads(a, {"take"}), ~ Heads(a, {"forget"}),
         Heads(a, {"strip"}) => task[a].todo[1].sid = s
  PROVE  TableIInv'
<1>1. Typed /\ Typed' /\ TasksOK BY DEF DelegIInv
<1>2. MarkedOK /\ IndexedOK /\ TornOK /\ ToldOK /\ TeardownOK BY DEF TableIInv
<1>3. (\A r \in Sid : rec'[r] = (IF r = s THEN NoRec ELSE rec[r])) /\ NoRec.st = "none"
  BY <1>1, GoneLive
<1>4. Fewer BY <1>3 DEF Fewer
<1>5. IndexKept
  <2>1. \A c \in Clients : \A r \in byClient[c] : r \in Sid /\ rec[r].st # "none"
    BY <1>1, <1>2 DEF IndexedOK, Present, Typed
  <2>2. \A c \in Clients : byClient'[c] = byClient[c] \ {s} OBVIOUS
  <2>3. byClient' \in [Clients -> SUBSET Sid] BY <1>1 DEF Typed
  <2>4. \A c \in Clients : \A r \in byClient'[c] : r \in byClient[c] /\ rec'[r].st # "none"
    BY <1>3, <2>1, <2>2
  <2>5. \A c \in Clients : \A r \in byClient[c] : rec'[r].st # "none" => r \in byClient'[c]
    BY <1>3, <2>1, <2>2
  <2> QED BY <2>3, <2>4, <2>5 DEF IndexKept
<1>6. IndexedOK' BY <1>1, <1>2, <1>4, <1>5, IndexedMoved
<1>7. MarkedOK'
  <2>1. marked \subseteq Sid BY <1>1 DEF Typed
  <2> QED BY <1>2, <1>3, <2>1 DEF MarkedOK
<1>8. \A j \in 1 .. Len(ops) : OpTorn(ops[j])' BY DEF OpTorn
<1>9. TornOK' BY <1>1, <1>2, <1>4, <1>8, TornMoved
<1>10. ToldOK'
  <2>1. StaysTold(ops) BY <1>3 DEF StaysTold
  <2>2. EntriesOK BY DEF DelegIInv
  <2>3. StaysKnown(ops) BY <1>4, <1>5, <2>2, KnownStays
  <2>4. LowersFine(ops) BY DEF LowersFine
  <2>5. Heads(a, {"strip"}) => rec'[task[a].todo[1].sid].st = "none" BY <1>3
  <2> QED BY <1>1, <1>2, <2>1, <2>3, <2>4, <2>5, ToldMoved
<1>11. TeardownOK'
  <2>1. Heads(a, {"strip"}) => rec'[task[a].todo[1].sid].st = "none" BY <1>3
  <2>2. \A c \in Clients : c \in gone /\ liveClient[c] = 0 => liveClient'[c] = 0 OBVIOUS
  <2> QED BY <1>1, <1>2, <1>4, <1>5, <2>1, <2>2, TeardownMoved
<1> QED BY <1>6, <1>7, <1>9, <1>10, <1>11 DEF TableIInv

\* The list of who took a record off the table.
LEMMA LeavingIs ==
  ASSUME NEW s \in Sid, rec[s].client \in Clients
  PROVE  /\ Leaving(s) \in Seq(OpRec) /\ Owes(Leaving(s)) /\ Leaving(s)[1].who = rec[s].client
         /\ \A j \in 1 .. Len(Leaving(s)) : Leaving(s)[j].op \notin {"lower", "take", "forget", "strip"}
<1>1. PICK c \in Clients : c = rec[s].client OBVIOUS
<1> DEFINE o == OpFor("count", c)
           p == Op("gc")
           q == <<o, p>>
<1>2. o = [op |-> "count", sid |-> 0, who |-> c] /\ p = [op |-> "gc", sid |-> 0, who |-> Local]
  BY DEF OpFor, Op
<1>3. o \in OpRec /\ p \in OpRec /\ o.op = "count" /\ o.who = c /\ p.op = "gc"
  BY <1>2 DEF OpRec, OpName, LockOps, RunOps, GuardOps, CountOps, OtherOps, Parties
<1>4. Leaving(s) = q BY <1>1 DEF Leaving
<1> HIDE DEF o, p
<1>5. q \in Seq(OpRec) /\ Len(q) = 2 /\ q[1] = o /\ q[2] = p BY <1>3
<1> HIDE DEF q
<1>6. \A j \in 1 .. Len(q) : j = 1 \/ j = 2 BY <1>5
<1>7. Owes(q) BY <1>3, <1>5 DEF Owes, CountOps
<1> QED BY <1>1, <1>3, <1>4, <1>5, <1>6, <1>7

\* A live record is returned or disowned.
LEMMA LeftOK ==
  ASSUME DelegIInv, DelegIInv', TableIInv, NEW a \in Actors, NEW s \in Sid, Live(s),
         Moved(a, Leaving(s)), rec' = [rec EXCEPT ![s] = NoRec],
         byClient' = [c \in Clients |-> byClient[c] \ {s}],
         UNCHANGED <<counts, gone, late, bit, crossed, marked>>, ~ Heads(a, HeavyOps)
  PROVE  TableIInv'
<1>1. Typed /\ Typed' /\ TasksOK /\ EntriesOK BY DEF DelegIInv
<1>2. CountOK /\ MarkedOK BY DEF TableIInv
<1>3. rec[s].client \in Clients BY <1>1 DEF EntriesOK, Live, Present
<1>4. /\ Leaving(s) \in Seq(OpRec) /\ Owes(Leaving(s)) /\ Leaving(s)[1].who = rec[s].client
      /\ \A j \in 1 .. Len(Leaving(s)) : Leaving(s)[j].op \notin {"lower", "take", "forget", "strip"}
  BY <1>3, LeavingIs
<1>5. PICK ops \in Seq(OpRec) : ops = Leaving(s) BY <1>4
<1>6. LessLive(s) BY <1>1, GoneLive
<1>7. /\ ~ Heads(a, CountOps) /\ ~ Heads(a, {"raise"}) /\ ~ Heads(a, {"take"})
      /\ ~ Heads(a, {"forget"}) /\ ~ Heads(a, {"strip"})
  BY DEF Heads, HeavyOps
<1>8. \A P : Debt(P)' = Debt(P)
  <2>1. Moved(a, ops) /\ Owes(ops) /\ ops[1].who = rec[s].client BY <1>4, <1>5
  <2> QED BY <1>1, <1>6, <1>7, <2>1, DebtPassed
<1>9. CountOK' BY <1>2, <1>8, CountStays
<1>10. s \notin marked' BY <1>2 DEF MarkedOK, Live
<1>11. liveClient' = liveClient BY DEF counts
<1> QED BY <1>4, <1>5, <1>7, <1>9, <1>10, <1>11, RemovedStill

LEMMA TableReturn ==
  ASSUME DelegIInv, DelegIInv', TableIInv, NEW t \in Threads, NEW s \in Sid, Return(t, s)
  PROVE  TableIInv'
<1>1. /\ Live(s) /\ rec' = [rec EXCEPT ![s] = NoRec]
      /\ byClient' = [c \in Clients |-> byClient[c] \ {s}]
      /\ Idle(t) /\ task' = [task EXCEPT ![t] = Asked(rec[s].client, Leaving(s))]
      /\ UNCHANGED <<counts, gone, late, bit, crossed, marked>>
  BY DEF Return, Remove, Begin, world
<1>2. Typed /\ EntriesOK /\ t \in Actors BY DEF DelegIInv, Actors
<1>3. rec[s].client \in Clients BY <1>1, <1>2 DEF EntriesOK, Live, Present
<1>4. PICK ops \in Seq(OpRec) : ops = Leaving(s) BY <1>3, LeavingIs
<1>5. task'[t].todo = ops /\ \A b \in Actors : b # t => task'[b] = task[b]
  BY <1>1, <1>2, <1>4 DEF Typed, Asked
<1>6. Moved(t, Leaving(s)) BY <1>1, <1>2, <1>4, <1>5, NewMoved
<1>7. ~ Heads(t, HeavyOps) BY <1>1, IdleHeads
<1> QED BY <1>1, <1>2, <1>6, <1>7, LeftOK

LEMMA TableDisown ==
  ASSUME DelegIInv, DelegIInv', TableIInv, NEW a \in Actors, Disown(a)
  PROVE  TableIInv'
<1>1. NextIs(a, "disown") /\ UNCHANGED <<cur, counts, world, ladder>> BY DEF Disown
<1>2. "disown" \notin HeavyOps BY DEF HeavyOps, CountOps
<1>3. Typed /\ TasksOK /\ EntriesOK BY DEF DelegIInv
<1>4. PICK s \in Sid : s = SidOf(a) BY <1>1, <1>3, HeadIs
<1>5. \/ Recalled(s) /\ Remove(s, TRUE) /\ Then(a, Leaving(s))
      \/ Then(a, <<>>) /\ UNCHANGED <<rec, ent, index>>
  BY <1>4 DEF Disown
<1>6. CASE Then(a, <<>>) /\ UNCHANGED <<rec, ent, index>>
  <2>1. SameBook /\ UNCHANGED Books BY <1>1, <1>6, SameRec DEF index, world, Books
  <2> QED BY <1>1, <1>2, <1>6, <2>1, NoneHeavy, LightThen
<1>7. CASE Recalled(s) /\ Remove(s, TRUE) /\ Then(a, Leaving(s))
  <2>1. /\ rec' = [rec EXCEPT ![s] = NoRec] /\ byClient' = [c \in Clients |-> byClient[c] \ {s}]
    BY <1>7 DEF Remove
  <2>2. Live(s) BY <1>7 DEF Live, Recalled
  <2>3. rec[s].client \in Clients BY <1>3, <2>2 DEF EntriesOK, Live, Present
  <2>4. Leaving(s) \in Seq(OpRec) BY <2>3, LeavingIs
  <2>5. Moved(a, Leaving(s)) BY <1>1, <1>3, <1>7, <2>4, ThenMoved DEF NextIs
  <2>6. ~ Heads(a, HeavyOps) BY <1>1, <1>2, <1>3, HeadsOf
  <2>7. UNCHANGED <<counts, gone, late, bit, crossed, marked>> BY <1>1 DEF world
  <2> QED BY <2>1, <2>2, <2>5, <2>6, <2>7, LeftOK
<1> QED BY <1>5, <1>6, <1>7

\* A tombstone is freed: it was counted down when it was marked, or is owed.
LEMMA TableFreeStateId ==
  ASSUME DelegIInv, DelegIInv', TableIInv, NEW t \in Threads, NEW s \in Sid, FreeStateId(t, s)
  PROVE  TableIInv'
<1>1. /\ s \in marked /\ Found(s) /\ rec' = [rec EXCEPT ![s] = NoRec]
      /\ byClient' = [c \in Clients |-> byClient[c] \ {s}] /\ marked' = marked \ {s}
      /\ Idle(t) /\ task' = [task EXCEPT ![t] = Asked(rec[s].client, Freed(s))]
      /\ UNCHANGED <<counts, gone, late, bit, crossed>>
  BY DEF FreeStateId, Remove, Begin
<1>2. Typed /\ Typed' /\ TasksOK /\ EntriesOK /\ t \in Actors BY DEF DelegIInv, Actors
<1>3. CountOK /\ MarkedOK BY DEF TableIInv
<1>4. ~ Live(s) BY <1>1, <1>3 DEF MarkedOK, Live
<1>5. SameLive BY <1>1, <1>2, <1>4, GoneLive
<1>6. PICK w \in Clients : w = rec[s].client BY <1>1, <1>2 DEF EntriesOK, Found
<1> DEFINE o == Op("gc")
           p == OpFor("decide", w)
           q == <<o, p>>
<1>7. o = [op |-> "gc", sid |-> 0, who |-> Local] /\ p = [op |-> "decide", sid |-> 0, who |-> w]
  BY DEF OpFor, Op
<1>8. o \in OpRec /\ p \in OpRec /\ o.op = "gc" /\ p.op = "decide"
  BY <1>7 DEF OpRec, OpName, LockOps, RunOps, GuardOps, CountOps, OtherOps, Parties
<1>9. Freed(s) = q BY <1>6 DEF Freed
<1> HIDE DEF o, p
<1>10. q \in Seq(OpRec) /\ Len(q) = 2 /\ q[1] = o /\ q[2] = p BY <1>8
<1> HIDE DEF q
<1>11. PICK ops \in Seq(OpRec) : ops = q BY <1>10
<1>12. \A j \in 1 .. Len(ops) : ops[j].op \notin {"lower", "take", "forget", "strip"}
  <2>1. \A j \in 1 .. Len(q) : j = 1 \/ j = 2 BY <1>10
  <2> QED BY <1>8, <1>10, <1>11, <2>1
<1>13. ~ Owes(ops) BY <1>8, <1>10, <1>11 DEF Owes, CountOps
<1>14. task'[t].todo = ops /\ \A b \in Actors : b # t => task'[b] = task[b]
  BY <1>1, <1>2, <1>9, <1>11 DEF Typed, Asked
<1>15. Moved(t, ops) BY <1>1, <1>2, <1>14, NewMoved
<1>16. \A X : ~ Heads(t, X) BY <1>1, IdleHeads
<1>17. \A P : Debt(P)' = Debt(P) BY <1>2, <1>5, <1>13, <1>15, <1>16, DebtSame
<1>18. CountOK' BY <1>1, <1>3, <1>17, CountStays
<1>19. liveClient' = liveClient BY <1>1 DEF counts
<1>20. marked' \subseteq marked /\ s \notin marked' BY <1>1
<1> QED BY <1>1, <1>2, <1>12, <1>15, <1>16, <1>18, <1>19, <1>20, RemovedStill

\* What a teardown strips off the table: nobody is to count it down, since
\* the client's counter goes with the client.
LEMMA TableStrip ==
  ASSUME DelegIInv, DelegIInv', TableIInv, NEW a \in Actors, Strip(a)
  PROVE  TableIInv'
<1>1. NextIs(a, "strip") /\ UNCHANGED <<liveClient, bit, gone, late, crossed>> BY DEF Strip
<1>2. Typed /\ Typed' /\ TasksOK /\ EntriesOK BY DEF DelegIInv
<1>3. CountOK /\ MarkedOK /\ IndexedOK /\ TornOK /\ ToldOK /\ TeardownOK BY DEF TableIInv
<1>4. PICK s \in Sid : /\ s = SidOf(a) /\ s = task[a].todo[1].sid /\ ~ Idle(a)
                       /\ task[a].todo[1].op = "strip" /\ 1 \in 1 .. Len(task[a].todo)
  BY <1>1, <1>2, HeadIs
<1>5. marked' = marked \ {s} BY <1>4 DEF Strip
<1>6. \/ Found(s) /\ Remove(s, FALSE) /\ liveGlobal' = IF Live(s) THEN liveGlobal - 1 ELSE liveGlobal
      \/ ~ Found(s) /\ UNCHANGED <<rec, ent, index, liveGlobal>>
  BY <1>4 DEF Strip
<1>7. PICK ops \in {<<>>, <<Op("gc")>>} : Then(a, ops)
  <2>1. Then(a, <<>>) \/ Then(a, <<Op("gc")>>) BY DEF Strip
  <2> QED BY <2>1
<1>8. Op("gc") \in OpRec /\ Op("gc").op = "gc"
  BY DEF Op, OpRec, OpName, LockOps, RunOps, GuardOps, CountOps, OtherOps, Parties
<1>9. ops \in Seq(OpRec) /\ \A j \in 1 .. Len(ops) : ops[j].op \notin HeavyOps
  <2>1. "gc" \notin HeavyOps BY DEF HeavyOps, CountOps
  <2> QED BY <1>8, <2>1, NoneHeavy, OneLight
<1>10. ~ Owes(ops)
  <2>1. Len(ops) \in Nat BY <1>9, EmptyLen
  <2>2. Len(ops) > 0 => 1 \in 1 .. Len(ops) BY <2>1
  <2> QED BY <1>9, <2>2 DEF Owes, HeavyOps
<1>11. \A j \in 1 .. Len(ops) : ops[j].op \notin {"lower", "take", "forget", "strip"}
  BY <1>9 DEF HeavyOps
<1>12. Moved(a, ops) BY <1>2, <1>4, <1>7, <1>9, ThenMoved
<1>13. /\ ~ Heads(a, CountOps) /\ ~ Heads(a, {"raise"}) /\ ~ Heads(a, {"take"}) /\ ~ Heads(a, {"forget"})
  BY <1>4 DEF Heads, CountOps
<1>14. CASE Found(s) /\ Remove(s, FALSE) /\ liveGlobal' = IF Live(s) THEN liveGlobal - 1 ELSE liveGlobal
  <2>1. rec' = [rec EXCEPT ![s] = NoRec] /\ byClient' = [c \in Clients |-> byClient[c] \ {s}]
    BY <1>14 DEF Remove
  <2>2. rec[s].client \in Clients BY <1>2, <1>14 DEF EntriesOK, Found
  <2>3. rec[s].client \in gone
    <3>1. OpTorn(task[a].todo[1]) BY <1>3, <1>4 DEF TornOK
    <3> QED BY <1>4, <1>14, <3>1 DEF OpTorn, Found
  <2>4. CASE Live(s)
    <3>1. LessLive(s) BY <1>2, <2>1, <2>4, GoneLive
    <3>2. ASSUME NEW P PROVE /\ rec[s].client \in P => Debt(P)' = Debt(P) - 1
                             /\ rec[s].client \notin P => Debt(P)' = Debt(P)
      BY <1>2, <1>9, <1>10, <1>12, <1>13, <3>1, DebtStruck
    <3>3. liveGlobal' = Debt(Clients)'
      <4>1. Debt(Clients)' = Debt(Clients) - 1 BY <2>2, <3>2
      <4>2. liveGlobal' = liveGlobal - 1 BY <1>14, <2>4
      <4> QED BY <1>3, <4>1, <4>2 DEF CountOK
    <3>4. ASSUME NEW c \in Clients, c \notin gone PROVE Debt({c})' = Debt({c})
      <4>1. rec[s].client \notin {c} BY <2>3, <3>4
      <4> QED BY <3>2, <4>1
    <3>5. CountOK' BY <1>1, <1>3, <3>3, <3>4 DEF CountOK
    <3> QED BY <1>1, <1>4, <1>5, <1>9, <1>11, <1>12, <1>13, <2>1, <3>5, RemovedStill
  <2>5. CASE ~ Live(s)
    <3>1. SameLive BY <1>2, <2>1, <2>5, GoneLive
    <3>2. \A P : Debt(P)' = Debt(P) BY <1>2, <1>9, <1>10, <1>12, <1>13, <3>1, DebtSame
    <3>3. UNCHANGED counts BY <1>1, <1>14, <2>5 DEF counts
    <3>4. CountOK' BY <1>1, <1>3, <3>2, <3>3, CountStays
    <3> QED BY <1>1, <1>4, <1>5, <1>9, <1>11, <1>12, <1>13, <2>1, <3>4, RemovedStill
  <2> QED BY <2>4, <2>5
<1>15. CASE ~ Found(s) /\ UNCHANGED <<rec, ent, index, liveGlobal>>
  <2>1. rec[s].st = "none" BY <1>2, <1>15 DEF EntriesOK, Found, Present
  <2>2. Fewer /\ SameLive BY <1>15 DEF Fewer, SameLive, Live
  <2>3. \A P : Debt(P)' = Debt(P) BY <1>2, <1>9, <1>10, <1>12, <1>13, <2>2, DebtSame
  <2>4. UNCHANGED counts BY <1>1, <1>15 DEF counts
  <2>5. CountOK' BY <1>1, <1>3, <2>3, <2>4, CountStays
  <2>6. IndexKept
    <3>1. \A c \in Clients : \A r \in byClient[c] : r \in Sid /\ rec[r].st # "none"
      BY <1>2, <1>3 DEF IndexedOK, Present, Typed
    <3> QED BY <1>2, <1>15, <3>1 DEF IndexKept, Typed, index
  <2>7. IndexedOK' BY <1>2, <1>3, <2>2, <2>6, IndexedMoved
  <2>8. MarkedOK' BY <1>3, <1>5, <1>15 DEF MarkedOK
  <2>9. \A j \in 1 .. Len(ops) : OpTorn(ops[j])' BY <1>11 DEF OpTorn
  <2>10. TornOK' BY <1>1, <1>2, <1>3, <1>12, <2>2, <2>9, TornMoved
  <2>11. ToldOK'
    <3>1. StaysTold(ops) BY <1>15 DEF StaysTold
    <3>2. StaysKnown(ops) BY <1>2, <2>2, <2>6, KnownStays
    <3>3. LowersFine(ops) BY <1>11 DEF LowersFine
    <3>4. Heads(a, {"strip"}) => rec'[task[a].todo[1].sid].st = "none" BY <1>4, <1>15, <2>1
    <3> QED BY <1>1, <1>2, <1>3, <1>12, <1>13, <3>1, <3>2, <3>3, <3>4, ToldMoved
  <2>12. TeardownOK'
    <3>1. Heads(a, {"strip"}) => rec'[task[a].todo[1].sid].st = "none" BY <1>4, <1>15, <2>1
    <3>2. \A c \in Clients : c \in gone /\ liveClient[c] = 0 => liveClient'[c] = 0 BY <1>1
    <3> QED BY <1>1, <1>2, <1>3, <1>12, <1>13, <2>2, <2>6, <3>1, <3>2, TeardownMoved
  <2> QED BY <2>5, <2>7, <2>8, <2>10, <2>11, <2>12 DEF TableIInv
<1> QED BY <1>6, <1>14, <1>15

\* A live record becomes a tombstone, whose marking and announcement are to
\* come.
LEMMA TableRevoke ==
  ASSUME DelegIInv, DelegIInv', TableIInv, NEW a \in Actors, Revoke(a)
  PROVE  TableIInv'
<1>1. NextIs(a, "revoke") /\ UNCHANGED <<cur, index, counts, marked, bit, gone, late, ladder>>
  BY DEF Revoke
<1>2. "revoke" \notin HeavyOps BY DEF HeavyOps, CountOps
<1>3. Typed /\ Typed' /\ TasksOK /\ EntriesOK BY DEF DelegIInv
<1>4. PICK s \in Sid : s = SidOf(a) BY <1>1, <1>3, HeadIs
<1>5. \/ /\ Recalled(s)
         /\ Then(a, <<[op |-> "revoked", sid |-> s, who |-> rec[s].client],
                      OpFor("raise", rec[s].client)>>)
         /\ rec' = [rec EXCEPT ![s].st = "revoked"]
         /\ crossed' = IF AboutToLower(rec[s].client) THEN crossed \cup {rec[s].client} ELSE crossed
      \/ Then(a, <<>>) /\ UNCHANGED <<rec, ent, crossed>>
  BY <1>4 DEF Revoke
<1>7. CASE Then(a, <<>>) /\ UNCHANGED <<rec, ent, crossed>>
  <2>1. SameBook BY <1>7, SameRec
  <2>2. UNCHANGED Books BY <1>1, <1>7 DEF index, Books
  <2> QED BY <1>1, <1>2, <1>7, <2>1, <2>2, NoneHeavy, LightThen
<1>8. CASE /\ Recalled(s)
           /\ Then(a, <<[op |-> "revoked", sid |-> s, who |-> rec[s].client],
                        OpFor("raise", rec[s].client)>>)
           /\ rec' = [rec EXCEPT ![s].st = "revoked"]
           /\ crossed' = IF AboutToLower(rec[s].client) THEN crossed \cup {rec[s].client} ELSE crossed
  <2>1. PICK w \in Clients : w = rec[s].client
    BY <1>3, <1>8 DEF EntriesOK, Recalled, Present
  <2> DEFINE o == [op |-> "revoked", sid |-> s, who |-> w]
             p == OpFor("raise", w)
             q == <<o, p>>
  <2>2. p = [op |-> "raise", sid |-> 0, who |-> w] BY DEF OpFor, Op
  <2>3. o \in OpRec /\ p \in OpRec /\ o.op = "revoked" /\ o.who = w /\ p.op = "raise" /\ p.who = w
    BY <2>2 DEF OpRec, OpName, LockOps, RunOps, GuardOps, CountOps, OtherOps, Parties
  <2>4. Then(a, q) BY <1>8, <2>1
  <2> HIDE DEF o, p
  <2>5. q \in Seq(OpRec) /\ Len(q) = 2 /\ q[1] = o /\ q[2] = p BY <2>3
  <2> HIDE DEF q
  <2>6. PICK ops \in Seq(OpRec) : ops = q BY <2>5
  <2>6a. Len(ops) = 2 /\ ops[1] = o /\ ops[2] = p BY <2>5, <2>6
  <2>6b. ops[1].op = "revoked" /\ ops[1].who = w BY <2>3, <2>6a
  <2>7. Owes(ops) /\ ops[1].who = rec[s].client BY <2>1, <2>6a, <2>6b DEF Owes, CountOps
  <2>8. \A j \in 1 .. Len(ops) : ops[j].op \notin {"lower", "take", "forget", "strip"}
    <3>1. \A j \in 1 .. Len(q) : j = 1 \/ j = 2 BY <2>5
    <3> QED BY <2>3, <2>5, <2>6, <3>1
  <2>9. 2 \in 1 .. Len(ops) /\ ops[2].op = "raise" /\ ops[2].who = w
    <3>1. 2 \in 1 .. Len(ops) BY <2>6a
    <3> QED BY <2>3, <2>6a, <3>1
  <2>10. Moved(a, ops) BY <1>1, <1>3, <2>4, <2>6, ThenMoved DEF NextIs
  <2>11. ~ Heads(a, HeavyOps) BY <1>1, <1>2, <1>3, HeadsOf
  <2>12. /\ ~ Heads(a, CountOps) /\ ~ Heads(a, {"raise"}) /\ ~ Heads(a, {"take"})
         /\ ~ Heads(a, {"forget"}) /\ ~ Heads(a, {"strip"})
    BY <2>11 DEF Heads, HeavyOps
  <2> DEFINE k == [rec[s] EXCEPT !.st = "revoked"]
  <2>13. rec[s] \in Record /\ rec \in [Sid -> Record] BY <1>3 DEF Typed
  <2>14. k.st = "revoked" /\ k.client = rec[s].client BY <2>13 DEF Record
  <2>15. rec' = [rec EXCEPT ![s] = k] BY <1>8
  <2> HIDE DEF k
  <2>16. \A r \in Sid : rec'[r] = (IF r = s THEN k ELSE rec[r]) BY <2>13, <2>15
  <2>17. Fewer BY <1>8, <2>14, <2>16 DEF Fewer, Recalled
  <2>18. LessLive(s) BY <1>8, <2>14, <2>16 DEF LessLive, Live, Recalled
  <2>19. CountOK /\ MarkedOK /\ IndexedOK /\ TornOK /\ ToldOK /\ TeardownOK BY DEF TableIInv
  <2>20. \A P : Debt(P)' = Debt(P) BY <1>3, <2>7, <2>10, <2>12, <2>18, DebtPassed
  <2>21. UNCHANGED <<byClient, counts, marked, bit, gone, late>> BY <1>1 DEF index
  <2>22. CountOK' BY <2>19, <2>20, <2>21, CountStays
  <2>23. MarkedOK'
    <3>1. marked \subseteq Sid BY <1>3 DEF Typed
    <3> QED BY <2>14, <2>16, <2>19, <2>21, <3>1 DEF MarkedOK
  <2>24. IndexKept
    <3>1. \A c \in Clients : \A r \in byClient[c] : r \in Sid /\ rec[r].st # "none"
      BY <1>3, <2>19 DEF IndexedOK, Present, Typed
    <3>2. \A r \in Sid : rec[r].st # "none" => rec'[r].st # "none" BY <2>14, <2>16
    <3> QED BY <1>3, <2>21, <3>1, <3>2 DEF IndexKept, Typed
  <2>25. IndexedOK' BY <1>3, <2>17, <2>19, <2>24, IndexedMoved
  <2>26. \A j \in 1 .. Len(ops) : OpTorn(ops[j])' BY <2>8 DEF OpTorn
  <2>27. TornOK' BY <1>3, <2>10, <2>17, <2>19, <2>21, <2>26, TornMoved
  <2>28. ToldOK'
    <3>1. rec'[s].client = w BY <2>1, <2>14, <2>16
    <3>2. Pending("lower", w) => w \in crossed' BY <1>8, <2>1 DEF Pending, AboutToLower
    <3>3. crossed \subseteq crossed' BY <1>8
    <3>4. \A r \in Sid : r # s => rec'[r] = rec[r] BY <2>16
    <3>5. StaysTold(ops) BY <2>8, <2>9, <3>1, <3>2, <3>4 DEF StaysTold
    <3>6. StaysKnown(ops) BY <1>3, <2>17, <2>24, KnownStays
    <3>7. LowersFine(ops) BY <2>8 DEF LowersFine
    <3> QED BY <1>3, <2>10, <2>12, <2>19, <2>21, <3>3, <3>5, <3>6, <3>7, ToldMoved
  <2>29. liveClient' = liveClient BY <2>21 DEF counts
  <2>30. TeardownOK' BY <1>3, <2>10, <2>12, <2>17, <2>19, <2>21, <2>24, <2>29, TeardownMoved
  <2> QED BY <2>22, <2>23, <2>25, <2>27, <2>28, <2>30 DEF TableIInv
<1> QED BY <1>5, <1>7, <1>8

-----------------------------------------------------------------------------
(* Teardowns and grants. *)

\* The client's list becomes work of the teardown.
LEMMA TableTake ==
  ASSUME DelegIInv, DelegIInv', TableIInv, NEW a \in Actors, Take(a)
  PROVE  TableIInv'
<1>1. NextIs(a, "take") /\ Then(a, Ops("strip", byClient[Who(a)]))
      /\ byClient' = [byClient EXCEPT ![Who(a)] = {}]
      /\ UNCHANGED <<rec, counts, marked, bit, gone, late, crossed>>
  BY DEF Take, table, world
<1>2. Typed /\ Typed' /\ TasksOK BY DEF DelegIInv
<1>3. CountOK /\ MarkedOK /\ IndexedOK /\ TornOK /\ ToldOK /\ TeardownOK BY DEF TableIInv
<1>4. PICK w \in Clients : /\ w = Who(a) /\ w = task[a].todo[1].who /\ ~ Idle(a)
                           /\ task[a].todo[1].op = "take" /\ 1 \in 1 .. Len(task[a].todo)
  BY <1>1, <1>2, HeadIs
<1>5. w \in gone
  <2>1. OpTorn(task[a].todo[1]) BY <1>3, <1>4 DEF TornOK
  <2> QED BY <1>4, <2>1 DEF OpTorn
<1>6. PICK S \in SUBSET Sid : S = byClient[w] BY <1>2 DEF Typed
<1>7. Then(a, Ops("strip", S)) BY <1>1, <1>4, <1>6
<1>8. /\ Ops("strip", S) \in Seq(OpRec)
      /\ \A i \in 1 .. Len(Ops("strip", S)) :
            Ops("strip", S)[i].op = "strip" /\ Ops("strip", S)[i].sid \in S
      /\ \A s \in S : \E i \in 1 .. Len(Ops("strip", S)) : Ops("strip", S)[i].sid = s
  BY OpsListed
<1>9. PICK ops \in Seq(OpRec) : ops = Ops("strip", S) BY <1>8
<1>10. /\ \A i \in 1 .. Len(ops) : ops[i].op = "strip" /\ ops[i].sid \in S
       /\ \A s \in S : \E i \in 1 .. Len(ops) : ops[i].sid = s
  BY <1>8, <1>9
<1>11. Moved(a, ops) BY <1>2, <1>4, <1>7, <1>9, ThenMoved
<1>12. byClient \in [Clients -> SUBSET Sid] BY <1>2 DEF Typed
<1>13. \A c \in Clients : byClient'[c] = (IF c = w THEN {} ELSE byClient[c]) BY <1>1, <1>4, <1>12
<1>14. ~ Owes(ops)
  <2>1. Len(ops) \in Nat BY EmptyLen
  <2>2. Len(ops) > 0 => 1 \in 1 .. Len(ops) BY <2>1
  <2> QED BY <1>10, <2>2 DEF Owes, CountOps
<1>15. /\ ~ Heads(a, CountOps) /\ ~ Heads(a, {"raise"}) /\ ~ Heads(a, {"forget"}) /\ ~ Heads(a, {"strip"})
  BY <1>4 DEF Heads, CountOps
<1>16. Fewer /\ SameLive BY <1>1 DEF Fewer, SameLive, Live
<1>17. \A P : Debt(P)' = Debt(P) BY <1>2, <1>11, <1>14, <1>15, <1>16, DebtSame
<1>18. CountOK' BY <1>1, <1>3, <1>17, CountStays
<1>19. MarkedOK' BY <1>1, <1>3 DEF MarkedOK
<1>20. IndexedOK'
  <2>1. \A c \in Clients : \A s \in byClient[c] : rec[s].st # "none" /\ rec[s].client = c
    BY <1>3 DEF IndexedOK, Present
  <2>2. \A c \in Clients : \A s \in byClient'[c] : rec'[s].st # "none" /\ rec'[s].client = c
    BY <1>1, <1>13, <2>1
  <2> QED BY <2>2 DEF IndexedOK, Present
<1>21. \A j \in 1 .. Len(ops) : OpTorn(ops[j])'
  <2>1. \A s \in S : rec[s].client = w BY <1>3, <1>6 DEF IndexedOK
  <2>2. \A s \in S : rec'[s].client \in gone' BY <1>1, <1>5, <2>1
  <2> QED BY <1>10, <2>2 DEF OpTorn
<1>22. TornOK' BY <1>1, <1>2, <1>3, <1>11, <1>16, <1>21, TornMoved
<1>23. ToldOK'
  <2>1. StaysTold(ops) BY <1>1 DEF StaysTold
  <2>2. StaysKnown(ops)
    <3> SUFFICES ASSUME NEW s \in Sid, rec'[s].st # "none", s \notin byClient'[rec'[s].client],
                        s \in byClient[rec[s].client]
                 PROVE  \E j \in 1 .. Len(ops) : ops[j].op = "strip" /\ ops[j].sid = s
      BY <1>1 DEF StaysKnown
    <3>1. rec[s].client \in Clients BY <1>1 DEF DelegIInv, EntriesOK, Present
    <3>2. s \in S BY <1>1, <1>6, <1>13, <3>1
    <3> QED BY <1>10, <3>2
  <2>3. LowersFine(ops) BY <1>10 DEF LowersFine
  <2> QED BY <1>1, <1>2, <1>3, <1>11, <1>15, <2>1, <2>2, <2>3, ToldMoved
<1>24. TeardownOK'
  <2> SUFFICES ASSUME NEW c \in Clients, c \notin late
               PROVE  /\ c \notin gone => Of(c)' \subseteq byClient'[c]
                      /\ c \in gone => Torn(c)' /\ Forgot(c)'
    BY <1>1 DEF TeardownOK
  <2>1. Of(c)' = Of(c) BY <1>1 DEF Of, Present
  <2>2. c \notin gone => Of(c)' \subseteq byClient'[c] BY <1>3, <1>5, <1>13, <2>1 DEF TeardownOK
  <2>3. ASSUME c \in gone PROVE Forgot(c)'
    <3>1. Forgot(c) BY <1>3, <2>3 DEF TeardownOK
    <3>2. liveClient' = liveClient BY <1>1 DEF counts
    <3>3. Pending("forget", c) => Pending("forget", c)' BY <1>2, <1>11, <1>15, PendingMoved
    <3> QED BY <3>1, <3>2, <3>3 DEF Forgot
  <2>4. \A s : Stripping(s) => Stripping(s)' BY <1>2, <1>11, <1>15, StrippingMoved
  <2>5. ASSUME NEW s \in S PROVE Stripping(s)'
    <3>1. PICK i \in 1 .. Len(ops) : ops[i].sid = s BY <1>10
    <3> QED BY <1>10, <1>11, <3>1, NewPending
  <2>6. ASSUME c \in gone PROVE Torn(c)'
    <3>1. Torn(c) BY <1>3, <2>6 DEF TeardownOK
    <3>2. CASE byClient[c] = {} /\ \A s \in Of(c) : Stripping(s)
      <4>1. byClient'[c] = {} BY <1>13, <3>2
      <4>2. \A s \in Of(c)' : Stripping(s)' BY <2>1, <2>4, <3>2
      <4> QED BY <4>1, <4>2 DEF Torn
    <3>3. CASE c = w /\ Of(c) \subseteq byClient[c]
      <4>1. byClient'[c] = {} BY <1>13, <3>3
      <4>2. \A s \in Of(c)' : Stripping(s)' BY <1>6, <2>1, <2>5, <3>3
      <4> QED BY <4>1, <4>2 DEF Torn
    <3>4. CASE c # w /\ Pending("take", c) /\ Of(c) \subseteq byClient[c]
      <4>1. Heads(a, {"take"}) => task[a].todo[1].who # c BY <1>4, <3>4
      <4>2. Pending("take", c)' BY <1>2, <1>11, <3>4, <4>1, PendingMoved
      <4>3. Of(c)' \subseteq byClient'[c] BY <1>13, <2>1, <3>4
      <4> QED BY <4>2, <4>3 DEF Torn
    <3> QED BY <3>1, <3>2, <3>3, <3>4 DEF Torn
  <2> QED BY <2>2, <2>3, <2>6
<1> QED BY <1>18, <1>19, <1>20, <1>22, <1>23, <1>24 DEF TableIInv

\* The client is gone, with what it had still on its list.
LEMMA TableTearDown ==
  ASSUME DelegIInv, DelegIInv', TableIInv, NEW t \in Threads, NEW w \in Clients, TearDown(t, w)
  PROVE  TableIInv'
<1> DEFINE o == OpFor("take", w)
           p == OpFor("forget", w)
           q == <<o, p>>
<1>1. /\ w \notin gone /\ gone' = gone \cup {w}
      /\ Idle(t) /\ task' = [task EXCEPT ![t] = Asked(w, q)]
      /\ UNCHANGED <<rec, byClient, counts, marked, bit, late, crossed>>
  BY DEF TearDown, Begin, table, index
<1>2. Typed /\ Typed' /\ TasksOK /\ t \in Actors BY DEF DelegIInv, Actors
<1>3. CountOK /\ MarkedOK /\ IndexedOK /\ TornOK /\ ToldOK /\ TeardownOK BY DEF TableIInv
<1>4. o = [op |-> "take", sid |-> 0, who |-> w] /\ p = [op |-> "forget", sid |-> 0, who |-> w]
  BY DEF OpFor, Op
<1>5. o \in OpRec /\ p \in OpRec /\ o.op = "take" /\ o.who = w /\ p.op = "forget" /\ p.who = w
  BY <1>4 DEF OpRec, OpName, LockOps, RunOps, GuardOps, CountOps, OtherOps, Parties
<1> HIDE DEF o, p
<1>6. q \in Seq(OpRec) /\ Len(q) = 2 /\ q[1] = o /\ q[2] = p BY <1>5
<1>7. task'[t].todo = q /\ \A b \in Actors : b # t => task'[b] = task[b] BY <1>1, <1>2 DEF Typed, Asked
<1> HIDE DEF q
<1>8. PICK ops \in Seq(OpRec) : ops = q BY <1>6
<1>9. Len(ops) = 2 /\ ops[1] = o /\ ops[2] = p BY <1>6, <1>8
<1>10. 1 \in 1 .. Len(ops) /\ 2 \in 1 .. Len(ops) /\ \A j \in 1 .. Len(ops) : j = 1 \/ j = 2 BY <1>9
<1>11. Moved(t, ops) BY <1>1, <1>2, <1>7, <1>8, NewMoved
<1>12. \A X : ~ Heads(t, X) BY <1>1, IdleHeads
<1>13. ops[1].op = "take" /\ ops[1].who = w /\ ops[2].op = "forget" /\ ops[2].who = w BY <1>5, <1>9
<1>14. ~ Owes(ops) BY <1>13 DEF Owes, CountOps
<1>15. Fewer /\ SameLive BY <1>1 DEF Fewer, SameLive, Live
<1>16. \A P : Debt(P)' = Debt(P) BY <1>2, <1>11, <1>12, <1>14, <1>15, DebtSame
<1>17. CountOK' BY <1>1, <1>3, <1>16, CountStays
<1>18. MarkedOK' /\ IndexedOK' BY <1>1, <1>3 DEF MarkedOK, IndexedOK, Present
<1>19. \A j \in 1 .. Len(ops) : OpTorn(ops[j])' BY <1>1, <1>10, <1>13 DEF OpTorn
<1>20. TornOK' BY <1>1, <1>2, <1>3, <1>11, <1>15, <1>19, TornMoved
<1>21. ToldOK'
  <2>1. StaysTold(ops) /\ StaysKnown(ops) BY <1>1 DEF StaysTold, StaysKnown
  <2>2. LowersFine(ops) BY <1>10, <1>13 DEF LowersFine
  <2> QED BY <1>1, <1>2, <1>3, <1>11, <1>12, <2>1, <2>2, ToldMoved
<1>22. Pending("take", w)' /\ Pending("forget", w)'
  <2>1. Pending(ops[1].op, ops[1].who)' /\ Pending(ops[2].op, ops[2].who)' BY <1>2, <1>10, <1>11, NewPending
  <2> QED BY <1>13, <2>1
<1>23. TeardownOK'
  <2> SUFFICES ASSUME NEW c \in Clients, c \notin late
               PROVE  /\ c \notin gone' => Of(c)' \subseteq byClient'[c]
                      /\ c \in gone' => Torn(c)' /\ Forgot(c)'
    BY <1>1 DEF TeardownOK
  <2>1. Of(c)' = Of(c) BY <1>1 DEF Of, Present
  <2>2. c \notin gone => Of(c)' \subseteq byClient'[c] BY <1>1, <1>3, <2>1 DEF TeardownOK
  <2>3. CASE c = w BY <1>1, <1>22, <2>2, <2>3 DEF Torn, Forgot
  <2>4. CASE c # w
    <3>1. \A s : Stripping(s) => Stripping(s)' BY <1>2, <1>11, <1>12, StrippingMoved
    <3>2. \A x : Pending(x, c) => Pending(x, c)' BY <1>2, <1>11, <1>12, PendingMoved
    <3>3. liveClient' = liveClient /\ byClient' = byClient BY <1>1 DEF counts
    <3>4. c \in gone => Torn(c) /\ Forgot(c) BY <1>3 DEF TeardownOK
    <3>5. Torn(c) => Torn(c)' BY <2>1, <3>1, <3>2, <3>3 DEF Torn
    <3>6. Forgot(c) => Forgot(c)' BY <3>2, <3>3 DEF Forgot
    <3> QED BY <1>1, <2>2, <2>4, <3>4, <3>5, <3>6
  <2> QED BY <2>3, <2>4
<1> QED BY <1>17, <1>18, <1>20, <1>21, <1>23 DEF TableIInv

LEMMA TableGrant ==
  ASSUME DelegIInv, DelegIInv', TableIInv, NEW t \in Actors, Grant(t)
  PROVE  TableIInv'
<1>1. /\ NextIs(t, "grant") /\ task' = [task EXCEPT ![t] = NoTask]
      /\ UNCHANGED <<marked, bit, gone, crossed>>
  BY DEF Grant
<1>2. Typed /\ Typed' /\ TasksOK BY DEF DelegIInv
<1>3. "grant" \in LockOps /\ "grant" \in ClientOps BY DEF LockOps, ClientOps
<1>4. t \in Threads /\ Len(task[t].todo) = 1 /\ ~ Heads(t, HeavyOps) BY <1>1, <1>3, LockHeads
<1>5. task'[t].todo = <<>> /\ \A b \in Actors : b # t => task'[b] = task[b]
  BY <1>1, <1>2 DEF Typed, NoTask
<1>6. CASE UNCHANGED <<rec, index, counts, late>>
  <2>1. SameBook /\ UNCHANGED Books BY <1>1, <1>6, SameRec DEF index, Books
  <2> QED BY <1>4, <1>5, <2>1, NoneHeavy, LightNew
<1>7. CASE /\ Unminted # {}
           /\ LET s == CHOOSE n \in Unminted : \A m \in Unminted : n <= m
              IN  /\ rec' = [rec EXCEPT ![s] = [client |-> task[t].client, st |-> "granted",
                                                ent |-> task[t].arc]]
                  /\ byClient' = [byClient EXCEPT ![task[t].client] = @ \cup {s}]
           /\ liveClient' = [liveClient EXCEPT ![task[t].client] = @ + 1]
           /\ liveGlobal' = liveGlobal + 1
           /\ late' = IF task[t].client \in gone THEN late \cup {task[t].client} ELSE late
  <2>1. PICK w \in Clients : w = task[t].client BY <1>1, <1>2, <1>3, LockIsAll
  <2>2. PICK s \in Unminted :
          /\ rec' = [rec EXCEPT ![s] = [client |-> w, st |-> "granted", ent |-> task[t].arc]]
          /\ byClient' = [byClient EXCEPT ![w] = byClient[w] \cup {s}]
    <3>1. Unminted \subseteq Nat BY DEF Unminted, Sid
    <3>2. \E n \in Unminted : \A m \in Unminted : n <= m BY <1>7, <3>1, LeastMember
    <3> QED BY <1>7, <2>1, <3>2
  <2>3. /\ s \in Sid /\ rec[s].st = "none" /\ s \notin marked
        /\ \A c \in Clients : s \notin byClient[c]
        /\ \A b \in Actors : \A i \in 1 .. Len(task[b].todo) : task[b].todo[i].sid # s
    BY DEF Unminted, Present
  <2> DEFINE k == [client |-> w, st |-> "granted", ent |-> task[t].arc]
  <2>4. k.client = w /\ k.st = "granted" OBVIOUS
  <2>5. rec' = [rec EXCEPT ![s] = k] BY <2>2
  <2> HIDE DEF k
  <2>6. rec \in [Sid -> Record] /\ byClient \in [Clients -> SUBSET Sid] /\ liveClient \in [Clients -> Nat]
    BY <1>2 DEF Typed
  <2>7. \A r \in Sid : rec'[r] = (IF r = s THEN k ELSE rec[r]) BY <2>3, <2>5, <2>6
  <2>8. \A c \in Clients : byClient'[c] = (IF c = w THEN byClient[c] \cup {s} ELSE byClient[c])
    BY <2>2, <2>6
  <2>9. \A c \in Clients : liveClient'[c] = (IF c = w THEN liveClient[c] + 1 ELSE liveClient[c])
    BY <1>7, <2>1, <2>6
  <2>10. liveGlobal' = liveGlobal + 1 /\ late' = (IF w \in gone THEN late \cup {w} ELSE late)
    BY <1>7, <2>1
  <2>11. <<>> \in Seq(OpRec) /\ ~ Owes(<<>>) BY DEF Owes
  <2>12. Moved(t, <<>>) BY <1>2, <1>4, <1>5, <2>11, OneMoved
  <2>13. MoreLive(s) BY <2>3, <2>4, <2>7 DEF MoreLive, Live
  <2>14. /\ ~ Heads(t, CountOps) /\ ~ Heads(t, {"raise"}) /\ ~ Heads(t, {"take"})
         /\ ~ Heads(t, {"forget"}) /\ ~ Heads(t, {"strip"})
    BY <1>4 DEF Heads, HeavyOps
  <2>15. ASSUME NEW P PROVE /\ rec'[s].client \in P => Debt(P)' = Debt(P) + 1
                            /\ rec'[s].client \notin P => Debt(P)' = Debt(P)
    BY <1>2, <2>3, <2>11, <2>12, <2>13, <2>14, DebtMore
  <2>16. CountOK /\ MarkedOK /\ IndexedOK /\ TornOK /\ ToldOK /\ TeardownOK BY DEF TableIInv
  <2>17. rec'[s].client = w BY <2>3, <2>4, <2>7
  <2>18. CountOK'
    <3>1. liveGlobal' = Debt(Clients)'
      <4>1. Debt(Clients)' = Debt(Clients) + 1 BY <2>15, <2>17
      <4> QED BY <2>10, <2>16, <4>1 DEF CountOK
    <3>2. ASSUME NEW c \in Clients, c \notin gone PROVE liveClient'[c] = Debt({c})'
      <4>1. liveClient[c] = Debt({c}) BY <2>16, <3>2 DEF CountOK
      <4>2. CASE c = w
        <5>1. rec'[s].client \in {c} BY <2>17, <4>2
        <5>2. Debt({c})' = Debt({c}) + 1 BY <2>15, <5>1
        <5> QED BY <2>9, <4>1, <4>2, <5>2
      <4>3. CASE c # w
        <5>1. rec'[s].client \notin {c} BY <2>17, <4>3
        <5>2. Debt({c})' = Debt({c}) BY <2>15, <5>1
        <5> QED BY <2>9, <4>1, <4>3, <5>2
      <4> QED BY <4>2, <4>3
    <3> QED BY <1>1, <3>1, <3>2 DEF CountOK
  <2>19. MarkedOK'
    <3>1. marked \subseteq Sid BY <1>2 DEF Typed
    <3> QED BY <1>1, <2>3, <2>7, <2>16, <3>1 DEF MarkedOK
  <2>20. IndexedOK'
    <3>1. \A c \in Clients : \A r \in byClient[c] : r \in Sid /\ r # s /\ rec[r].st # "none" /\ rec[r].client = c
      BY <2>3, <2>6, <2>16 DEF IndexedOK, Present
    <3>2. ASSUME NEW c \in Clients, NEW r \in byClient'[c]
          PROVE  rec'[r].st # "none" /\ rec'[r].client = c
      <4>1. CASE r \in byClient[c] BY <2>7, <3>1, <4>1
      <4>2. CASE r = s /\ c = w BY <2>3, <2>4, <2>7, <4>2
      <4> QED BY <2>8, <4>1, <4>2
    <3> QED BY <3>2 DEF IndexedOK, Present
  <2>21. TornOK'
    <3>1. ASSUME NEW b \in Actors, NEW i \in 1 .. Len(task'[b].todo), NEW o, o = task'[b].todo[i]
          PROVE  OpTorn(o)'
      <4>1. b # t BY <1>5, <3>1
      <4>2. i \in 1 .. Len(task[b].todo) /\ o = task[b].todo[i] BY <1>5, <3>1, <4>1
      <4>3. OpTorn(o) BY <2>16, <4>2 DEF TornOK
      <4>4. o.sid # s BY <2>3, <4>2
      <4>5. o.op = "strip" => o.sid \in Sid BY <1>2, <4>2 DEF TasksOK, NamesOK
      <4>6. o.op \in {"take", "forget"} => o.who \in gone' BY <1>1, <4>3 DEF OpTorn
      <4>7. o.op = "strip" /\ rec'[o.sid].st # "none" => rec'[o.sid].client \in gone'
        BY <1>1, <2>7, <4>3, <4>4, <4>5 DEF OpTorn, Present
      <4> QED BY <4>6, <4>7 DEF OpTorn, Present
    <3> QED BY <3>1 DEF TornOK, OpTorn
  <2>22. ToldOK'
    <3>1. StaysTold(<<>>) BY <2>4, <2>7 DEF StaysTold
    <3>2. StaysKnown(<<>>)
      <4>1. s \in byClient'[rec'[s].client] BY <2>8, <2>17
      <4>2. \A r \in Sid : rec[r].st # "none" => rec[r].client \in Clients
        BY DEF DelegIInv, EntriesOK, Present
      <4>3. \A r \in Sid : rec[r].st # "none" /\ r \in byClient[rec[r].client] =>
                             r \in byClient'[rec[r].client]
        BY <2>8, <4>2
      <4>4. \A r \in Sid : r # s => rec'[r] = rec[r] BY <2>7
      <4> QED BY <4>1, <4>3, <4>4 DEF StaysKnown
    <3>3. LowersFine(<<>>) BY DEF LowersFine
    <3> QED BY <1>1, <1>2, <2>12, <2>14, <2>16, <3>1, <3>2, <3>3, ToldMoved
  <2>23. TeardownOK'
    <3> SUFFICES ASSUME NEW c \in Clients, c \notin late'
                 PROVE  /\ c \notin gone => Of(c)' \subseteq byClient'[c]
                        /\ c \in gone => Torn(c)' /\ Forgot(c)'
      BY <1>1 DEF TeardownOK
    <3>1. c \notin late /\ (c \in gone => c # w) BY <2>10
    <3>2. Of(c)' \subseteq Of(c) \cup {s} /\ (c # w => Of(c)' = Of(c))
      <4>1. \A r \in Sid : r # s => (r \in Of(c)' <=> r \in Of(c)) BY <2>7 DEF Of, Present
      <4>2. Of(c) \subseteq Sid /\ Of(c)' \subseteq Sid BY DEF Of
      <4>3. s \notin Of(c) BY <2>3 DEF Of, Present
      <4>4. c # w => s \notin Of(c)' BY <2>17 DEF Of
      <4>5. Of(c) \ {s} = Of(c) BY <4>3
      <4>6. c # w => Of(c)' = Of(c) \ {s} BY <4>1, <4>2, <4>3, <4>4
      <4> QED BY <4>1, <4>2, <4>5, <4>6
    <3>3. c \notin gone => Of(c)' \subseteq byClient'[c]
      <4>1. c \notin gone => Of(c) \subseteq byClient[c] BY <2>16, <3>1 DEF TeardownOK
      <4> QED BY <2>8, <3>2, <4>1
    <3>4. ASSUME c \in gone PROVE Torn(c)' /\ Forgot(c)'
      <4>1. c # w /\ Of(c)' = Of(c) /\ byClient'[c] = byClient[c] /\ liveClient'[c] = liveClient[c]
        BY <2>8, <2>9, <3>1, <3>2, <3>4
      <4>2. \A r : Stripping(r) => Stripping(r)' BY <1>2, <2>12, <2>14, StrippingMoved
      <4>3. Pending("take", c) => Pending("take", c)' BY <1>2, <2>12, <2>14, PendingMoved
      <4>4. Pending("forget", c) => Pending("forget", c)' BY <1>2, <2>12, <2>14, PendingMoved
      <4>5. Torn(c) /\ Forgot(c) BY <2>16, <3>1, <3>4 DEF TeardownOK
      <4>6. Torn(c)' BY <4>1, <4>2, <4>3, <4>5 DEF Torn
      <4>7. Forgot(c)' BY <4>1, <4>4, <4>5 DEF Forgot
      <4> QED BY <4>6, <4>7
    <3> QED BY <3>3, <3>4
  <2> QED BY <2>18, <2>19, <2>20, <2>21, <2>22, <2>23 DEF TableIInv
<1> QED BY <1>6, <1>7 DEF Grant

-----------------------------------------------------------------------------
(* The second invariant, and what the runs check of the table. *)

LEMMA TableInit ==
  ASSUME DelegInit
  PROVE  TableIInv
<1>1. \A a \in Actors : Idle(a) /\ Len(task[a].todo) = 0 BY DEF DelegInit, NoTask, Idle
<1>2. \A s \in Sid : rec[s].st = "none" BY DEF DelegInit, NoRec
<1>3. ASSUME NEW P PROVE Debt(P) = 0
  <2>1. LiveIn(P) = {} BY <1>2 DEF LiveIn, Live
  <2>2. OwingIn(P) = {} BY <1>1 DEF OwingIn, Owing, NextIs
  <2> QED BY <2>1, <2>2, FS_EmptySet DEF Debt
<1>4. CountOK BY <1>3 DEF CountOK, DelegInit
<1>5. MarkedOK /\ IndexedOK BY DEF MarkedOK, IndexedOK, DelegInit
<1>6. TornOK BY <1>1 DEF TornOK
<1>7. ToldOK BY <1>2 DEF ToldOK, KnownOK, LowerOK
<1>8. TeardownOK BY <1>2 DEF TeardownOK, DelegInit, Of, Present
<1> QED BY <1>4, <1>5, <1>6, <1>7, <1>8 DEF TableIInv

LEMMA TableSteps ==
  ASSUME DelegIInv, DelegIInv', TableIInv, [DelegNext]_vars
  PROVE  TableIInv'
<1>1. ASSUME NEW t \in Threads, Request(t) PROVE TableIInv'
  BY <1>1, TableRequests, TableTearDown, TableReturn, TableFreeStateId DEF Request, Parties
<1>2. ASSUME NEW a \in Actors, Step(a) PROVE TableIInv'
  <2>1. CASE Again(a) \/ Collect(a) \/ Grant(a) \/ Fence(a) \/ Drop(a) \/ Run(a)
    BY <2>1, TableAgain, TableCollect, TableGrant, TableFence, TableDrop, TableRun
  <2>2. CASE Revoke(a) \/ Uncount(a) \/ Mark(a) \/ Raise(a) \/ Disown(a)
    BY <2>2, TableRevoke, TableUncount, TableMark, TableRaise, TableDisown
  <2>3. CASE Decide(a) \/ Lower(a) \/ Take(a) \/ Strip(a) \/ Forget(a)
    BY <2>3, TableDecide, TableLower, TableTake, TableStrip, TableForget
  <2> QED BY <1>2, <2>1, <2>2, <2>3 DEF Step
<1>3. ASSUME NEW s \in Sid, Climb(s) \/ Unblocks(s) \/ RunsOut(s) PROVE TableIInv'
  BY <1>3, TableClimb, TableBeside
<1>4. ASSUME NEW c \in Clients, Close(c) \/ Rebind(c) PROVE TableIInv'
  BY <1>4, TableBeside
<1>5. CASE CoolingEnds \/ UNCHANGED vars BY <1>5, TableBeside
<1> QED BY <1>1, <1>2, <1>3, <1>4, <1>5 DEF DelegNext

\* The second inductive invariant: what the counters, the indexes and the
\* announcements come to while requests are under way.
THEOREM TableInvariant == DelegSpec => []TableIInv
<1>1. DelegInit => TableIInv BY TableInit
<1>2. TableIInv /\ DelegIInv /\ DelegIInv' /\ [DelegNext]_vars => TableIInv' BY TableSteps
<1> QED BY <1>1, <1>2, DelegInvariant, PTL DEF DelegSpec

LEMMA QuietDebt ==
  ASSUME Typed, Quiet, NEW P
  PROVE  Debt(P) = Cardinality(LiveIn(P))
<1>1. OwingIn(P) = {} BY DEF OwingIn, Owing, Quiet, NextIs
<1>2. Cardinality(OwingIn(P)) = 0 BY <1>1, FS_EmptySet
<1>3. Cardinality(LiveIn(P)) \in Nat BY DebtFinite
<1> QED BY <1>2, <1>3 DEF Debt

LEMMA QuietLists ==
  ASSUME Typed, Quiet
  PROVE  /\ \A o, c : ~ Pending(o, c)
         /\ \A s : ~ Stripping(s)
<1>1. \A a \in Actors : Len(task[a].todo) = 0 BY TaskParts DEF Quiet
<1> QED BY <1>1 DEF Pending, Stripping

\* Between requests the counters are the live records and the indexes the
\* records (live_per_client, live_global, by_stateid, by_client), however
\* returns, revocations and teardowns overlapped; a client that was granted
\* something after its teardown began is the exception.
THEOREM TableIsExact == DelegSpec => []TableExact
<1>1. ASSUME DelegIInv, TableIInv, Quiet
      PROVE  /\ byStateid = {s \in Sid : Present(s)}
             /\ liveGlobal = Cardinality({s \in Sid : Live(s)})
             /\ \A c \in Clients \ late :
                   /\ liveClient[c] = Cardinality(LiveOf(c))
                   /\ byClient[c] = {s \in Sid : Present(s) /\ rec[s].client = c}
                   /\ c \in gone => byClient[c] = {}
  <2>1. Typed /\ EntriesOK BY <1>1 DEF DelegIInv
  <2>2. CountOK /\ IndexedOK /\ TeardownOK BY <1>1 DEF TableIInv
  <2>3. byStateid = {s \in Sid : Present(s)} BY <2>1 DEF EntriesOK
  <2>4. liveGlobal = Cardinality({s \in Sid : Live(s)})
    <3>1. \A s \in Sid : Live(s) => rec[s].client \in Clients BY <2>1 DEF EntriesOK, Live, Present
    <3>2. LiveIn(Clients) = {s \in Sid : Live(s)} BY <3>1 DEF LiveIn
    <3> QED BY <1>1, <2>1, <2>2, <3>2, QuietDebt DEF CountOK
  <2>5. ASSUME NEW c \in Clients \ late
        PROVE  /\ liveClient[c] = Cardinality(LiveOf(c))
               /\ byClient[c] = {s \in Sid : Present(s) /\ rec[s].client = c}
               /\ c \in gone => byClient[c] = {}
    <3>1. LiveIn({c}) = LiveOf(c) BY DEF LiveIn, LiveOf
    <3>2. Of(c) = {s \in Sid : Present(s) /\ rec[s].client = c} BY DEF Of
    <3>3. byClient[c] \subseteq Of(c) BY <2>1, <2>2 DEF IndexedOK, Of, Typed
    <3>4. CASE c \notin gone
      <4>1. Of(c) \subseteq byClient[c] BY <2>2, <3>4 DEF TeardownOK
      <4>2. liveClient[c] = Debt({c}) BY <2>2, <3>4 DEF CountOK
      <4>3. liveClient[c] = Cardinality(LiveOf(c)) BY <1>1, <2>1, <3>1, <4>2, QuietDebt
      <4> QED BY <3>2, <3>3, <3>4, <4>1, <4>3
    <3>5. CASE c \in gone
      <4>1. Torn(c) /\ Forgot(c) BY <2>2, <3>5 DEF TeardownOK
      <4>2. /\ ~ Pending("take", c) /\ ~ Pending("forget", c) /\ \A s : ~ Stripping(s)
        BY <1>1, <2>1, QuietLists
      <4>3. byClient[c] = {} /\ Of(c) = {} /\ liveClient[c] = 0
        BY <4>1, <4>2 DEF Torn, Forgot
      <4>4. LiveOf(c) = {}
        <5>1. \A s \in LiveOf(c) : s \in Of(c) BY DEF LiveOf, Of, Live, Present
        <5> QED BY <4>3, <5>1
      <4>5. Cardinality(LiveOf(c)) = 0 BY <4>4, FS_EmptySet
      <4> QED BY <3>2, <4>3, <4>5
    <3> QED BY <3>4, <3>5
  <2> QED BY <2>3, <2>4, <2>5
<1>2. DelegIInv /\ TableIInv => TableExact BY <1>1 DEF TableExact
<1> QED BY <1>2, DelegInvariant, TableInvariant, PTL

\* A revocation is never silent: between requests a client with a revoked
\* delegation has the SEQ4 bit up, unless it was revoked between the look of
\* a FREE_STATEID and its lowering of the bit (revoke, raise_seq_flags,
\* client_has_revoked, lower_seq_flags).
THEOREM RevocationIsTold == DelegSpec => []RevokedTold
<1>1. ASSUME DelegIInv, TableIInv, Quiet, NEW s \in Sid, rec[s].st = "revoked"
      PROVE  rec[s].client \in bit \cup crossed
  <2>1. Typed BY <1>1 DEF DelegIInv
  <2>2. Told(s) BY <1>1 DEF TableIInv, ToldOK
  <2>3. ~ Pending("raise", rec[s].client) /\ ~ Stripping(s) BY <1>1, <2>1, QuietLists
  <2> QED BY <2>2, <2>3 DEF Told
<1>2. DelegIInv /\ TableIInv => RevokedTold BY <1>1 DEF RevokedTold
<1> QED BY <1>2, DelegInvariant, TableInvariant, PTL

\* Who works in the entry and is past its lock holds a guard of it.
LEMMA GuardsAre ==
  ASSUME DelegIInv, NEW i \in Entries
  PROVE  {t \in Threads : task[t].arc = i /\ ~ Locks(t)} = Guards(i)
<1>1. Typed /\ TasksOK BY DEF DelegIInv
<1>2. ASSUME NEW t \in Threads, task[t].arc = i
      PROVE  ~ Locks(t) <=> Has(task[t].todo, GuardOps)
  <2>0. t \in Actors BY DEF Actors
  <2>1. i # 0 BY EntryNumbers
  <2>2. Has(task[t].todo, LockOps) \/ Has(task[t].todo, GuardOps)
    BY <1>1, <1>2, <2>0, <2>1, HasUnion DEF TasksOK, ArcOK
  <2>3. ASSUME Locks(t) PROVE ~ Has(task[t].todo, GuardOps)
    <3>1. PICK o \in LockOps : NextIs(t, o) BY <2>3 DEF Locks, LockOps
    <3> QED BY <1>1, <2>0, <3>1, LockIsAll
  <2>4. ASSUME Has(task[t].todo, LockOps) PROVE Locks(t)
    <3>1. PICK j \in 1 .. Len(task[t].todo) : task[t].todo[j].op \in LockOps BY <2>4 DEF Has
    <3>2. Len(task[t].todo) = 1 BY <1>1, <2>0, <3>1 DEF TasksOK, TodoOK
    <3>3. j = 1 /\ ~ Idle(t) BY <1>1, <2>0, <3>1, <3>2, TaskParts
    <3>4. Head(task[t].todo) = task[t].todo[1] BY <1>1, <2>0, <3>3, TaskParts
    <3> QED BY <3>1, <3>3, <3>4 DEF Locks, NextIs, LockOps
  <2> QED BY <2>2, <2>3, <2>4
<1> QED BY <1>2 DEF Guards

\* The map of entries is sound (entry, with_live_entry, gc_map_entry): every
\* record and guard is in the entry the map has, guards are counted right,
\* and no ladder sleeps through a rebind (RearmSignal).
THEOREM MapIsSound == DelegSpec => []DelegInv
<1>1. ASSUME DelegIInv, TableIInv PROVE DelegTypeOK
  <2>1. Typed /\ GuardsOK BY <1>1 DEF DelegIInv
  <2>2. liveGlobal \in Nat BY <1>1, <2>1, DebtFinite DEF TableIInv, CountOK
  <2>3. \A i \in Entries : ent[i].guards \in 0 .. Cardinality(Threads)
    <3> SUFFICES ASSUME NEW i \in Entries PROVE ent[i].guards \in 0 .. Cardinality(Threads)
      OBVIOUS
    <3>1. Guards(i) \subseteq Threads BY DEF Guards
    <3>2. Cardinality(Guards(i)) \in Nat /\ Cardinality(Guards(i)) <= Cardinality(Threads)
      BY <3>1, EntryNumbers, FS_Subset, FS_CardinalityType
    <3> QED BY <2>1, <3>2, EntryNumbers DEF GuardsOK
  <2>4. \A i \in Entries : ent[i].cool \in {"no", "on", "past"} /\ ent[i].dead \in BOOLEAN
    BY <2>1 DEF Typed, Entry
  <2>5. \A s \in Sid : /\ rec[s].client \in Clients \cup {Local}
                       /\ rec[s].st \in {"none", "granted", "pending", "acked", "revoked"}
                       /\ rec[s].ent \in {0} \cup Entries
    BY <2>1 DEF Typed, Record, Parties
  <2>6. \A a \in Actors : task[a].arc \in {0} \cup Entries /\ task[a].client \in Clients \cup {Local}
    BY <2>1 DEF Typed, Task, Parties
  <2>7. \A s \in Sid : /\ ladder[s].at \in {"none", "top", "blocked", "sent", "acked", "rung",
                                            "probe", "park", "listening", "parked"}
                       /\ ladder[s].rung \in 0 .. Rungs + 1
    BY <2>1 DEF Typed, Ladder
  <2>8. /\ cur \in {0} \cup Entries /\ byStateid \subseteq Sid /\ byClient \in [Clients -> SUBSET Sid]
        /\ liveClient \in [Clients -> Nat] /\ marked \subseteq Sid
        /\ \A X \in {writers, bit, gone, late, crossed} : X \subseteq Clients
    BY <2>1 DEF Typed
  <2> QED BY <2>2, <2>3, <2>4, <2>5, <2>6, <2>7, <2>8 DEF DelegTypeOK
<1>2. ASSUME DelegIInv PROVE OneEntry
  <2>1. EntriesOK /\ GuardsOK BY <1>2 DEF DelegIInv
  <2>2. \A s \in Sid : Present(s) => rec[s].ent = cur BY <2>1 DEF EntriesOK
  <2>3. \A i \in Entries :
          ent[i].guards = Cardinality({t \in Threads : task[t].arc = i /\ ~ Locks(t)})
    BY <1>2, <2>1, GuardsAre DEF GuardsOK
  <2>4. ASSUME NEW i \in Entries, ent[i].guards > 0 PROVE i = cur
    <3>1. Guards(i) # {} BY <2>1, <2>4, FS_EmptySet DEF GuardsOK
    <3> QED BY <2>1, <3>1 DEF GuardsOK
  <2> QED BY <2>2, <2>3, <2>4 DEF OneEntry
<1>3. DelegIInv => RearmHeard BY DEF DelegIInv, LaddersOK, RearmHeard
<1>4. DelegIInv /\ TableIInv => DelegInv BY <1>1, <1>2, <1>3 DEF DelegInv
<1> QED BY <1>4, DelegInvariant, TableInvariant, PTL

=============================================================================

--------------------------- MODULE NfsSlotsProofs ---------------------------
(***************************************************************************)
(* Exactly-once of one NFSv4.1 session, for any number of slots, any       *)
(* modulus of the seqids, any requests and any number of resends: a        *)
(* request runs at most once, and what its client is answered is true.     *)
(*                                                                         *)
(* The slot remembers a seqid, which is a number modulo Modulus.  That it  *)
(* stands for one request is an invariant: every copy still on its way is  *)
(* less than Modulus behind the client, and the client is at most one      *)
(* request ahead of the slot.                                              *)
(***************************************************************************)
EXTENDS NfsSlots, TLAPS

(* The request the slot let in last: the client's, or the one before it. *)
Last(s) == IF client[s].n \in DOMAIN runs[s] /\ runs[s][client[s].n] = 0
           THEN client[s].n - 1 ELSE client[s].n

Now(s) == Copy(s, client[s])

Task == [slot : Slots, n : Nat, copy : 1..MaxCopy, req : Requests]

Answers == Ran \cup {"BadSession", "SeqMisordered", "RetryUncachedRep"}

ReplyVal == {NoReply} \cup [kind : Answers, slot : Slots, n : Nat, results : Nat]

CachedVal == {x \in ReplyVal : x.kind \in Ran \cup {"none"}}

SlotShape == [seq : Nat, cached : CachedVal]

ClientShape == [n : Nat, copy : Nat, req : Requests \cup {NoReply}, waiting : BOOLEAN,
                answer : ReplyVal]

ShapeOK ==
    /\ session \in BOOLEAN
    /\ slot \in [Slots -> SlotShape]
    /\ client \in [Slots -> ClientShape]
    /\ wire \subseteq Task
    /\ running \subseteq [task : Task, i : Nat]
    /\ encoded \subseteq [task : Task, reply : ReplyVal]
    /\ replies \subseteq [to : Task, body : ReplyVal]

HistoryOK ==
    /\ runs = [s \in Slots |-> runs[s]] /\ done = [s \in Slots |-> done[s]]
    /\ \A s \in Slots : /\ DOMAIN runs[s] \subseteq Nat /\ DOMAIN done[s] = DOMAIN runs[s]
                        /\ runs[s] \in [DOMAIN runs[s] -> Nat]
                        /\ done[s] \in [DOMAIN runs[s] -> Nat]

(* The slot's seqid is that of the last request let in; nothing past that  *)
(* one has run, and nothing up to it twice.                                *)
SeqidOK ==
    \A s \in Slots :
        /\ Last(s) \in Nat
        /\ slot[s].seq = Seqid(Last(s))
        /\ \A n \in DOMAIN runs[s] : /\ runs[s][n] <= 1
                                     /\ n > Last(s) => runs[s][n] = 0

(* Where a copy is. *)
Working == {r.task : r \in running} \cup {e.task : e \in encoded}

(* A copy on its way is one the client has sent, for this request or for   *)
(* one less than Modulus back.                                             *)
SentOK(t) ==
    LET c == client[t.slot]
    IN  /\ t.n <= c.n /\ t.n \in DOMAIN runs[t.slot]
        /\ t.n = c.n => t.copy <= c.copy /\ t.req = c.req

WireOK ==
    /\ \A t \in wire : SentOK(t)
    /\ \A t \in wire \cup {r.task : r \in running} : t.n > client[t.slot].n + 1 - Modulus

(* A request that SEQUENCE let in is in one place. *)
WorkOK ==
    /\ \A t \in Working : SentOK(t) /\ runs[t.slot][t.n] = 1 /\ t \notin wire
    /\ \A r, q \in running : r.task.slot = q.task.slot /\ r.task.n = q.task.n => r = q
    /\ \A e, f \in encoded : e.task.slot = f.task.slot /\ e.task.n = f.task.n => e = f
    /\ \A r \in running : \A e \in encoded : ~ (r.task.slot = e.task.slot /\ r.task.n = e.task.n)

(* What is done is what the loop has gone through. *)
LoopOK ==
    \A r \in running : /\ r.i \in 1..r.task.req.ops - 1
                       /\ r.i = done[r.task.slot][r.task.n]

(* A reply that reports results is of a request that is over, and tells    *)
(* how much of it took effect.                                             *)
Over(s, n) ==
    /\ n \in DOMAIN runs[s] /\ runs[s][n] = 1
    /\ \A r \in running : ~ (r.task.slot = s /\ r.task.n = n)

TrueReply(x) ==
    x.kind \in {"Ok", "Failed"} => Over(x.slot, x.n) /\ x.results = done[x.slot][x.n]

RepliesTrue ==
    /\ \A e \in encoded : /\ TrueReply(e.reply) /\ e.reply.kind \in Ran
                          /\ e.reply.slot = e.task.slot /\ e.reply.n = e.task.n
    /\ \A s \in Slots : TrueReply(slot[s].cached) /\ TrueReply(client[s].answer)
    /\ \A p \in replies : TrueReply(p.body)

(* A reply that is written is for the copy the client waits on. *)
ForNow ==
    /\ \A p \in replies : /\ p.to = Now(p.to.slot) /\ client[p.to.slot].waiting
                          /\ p.to \notin wire \cup Working
                          /\ p.body.kind # "SeqMisordered"
                          /\ session => Last(p.to.slot) = p.to.n
    /\ \A p, q \in replies : p.to.slot = q.to.slot => p = q
    /\ \A s \in Slots : /\ client[s].answer.kind # "SeqMisordered"
                        /\ client[s].waiting => client[s].n \in DOMAIN runs[s] /\ client[s].req \in Requests
                        /\ ~ client[s].waiting => /\ Now(s) \notin wire \cup Working
                                                  /\ session => Last(s) = client[s].n

(* On a slot that was not overtaken everything is about the last request. *)
OwnOK ==
    \A s \in Slots \ overtaken :
        /\ \A t \in Working : t.slot = s => t.n = Last(s)
        /\ slot[s].cached # NoReply => slot[s].cached.slot = s /\ slot[s].cached.n = Last(s)
        /\ client[s].answer.kind \in Ran => client[s].answer.slot = s /\ client[s].answer.n = client[s].n
        /\ \A p \in replies : p.to.slot = s /\ p.body.kind \in Ran =>
               p.body.slot = s /\ p.body.n = p.to.n

SlotsIInv ==
    /\ ShapeOK /\ HistoryOK /\ SeqidOK /\ WireOK /\ WorkOK /\ LoopOK
    /\ RepliesTrue /\ ForNow /\ OwnOK

-----------------------------------------------------------------------------
(* Seqids. *)

LEMMA SeqidType ==
  ASSUME NEW n \in Nat
  PROVE  Seqid(n) \in 0..Modulus - 1
  BY SlotsAssumption DEF Seqid

LEMMA Division ==
  ASSUME NEW n \in Nat
  PROVE  \E k \in Int : n = Modulus * k + Seqid(n)
<1>1. Modulus \in Nat /\ Modulus > 2
  BY SlotsAssumption
<1>2. n = Modulus * (n \div Modulus) + (n % Modulus) /\ (n \div Modulus) \in Int
  BY <1>1
<1> QED
  BY <1>2 DEF Seqid

(* Quotient and remainder are unique. *)
LEMMA Remainder ==
  ASSUME NEW k \in Int, NEW h \in Int, NEW x \in Nat, NEW y \in Nat,
         x < Modulus, y < Modulus, Modulus * k + x = Modulus * h + y
  PROVE  k = h /\ x = y
<1>1. Modulus \in Nat /\ Modulus > 2
  BY SlotsAssumption
<1>2. Modulus * (k - h) = y - x
  BY <1>1
<1>3. k - h \in Int /\ -Modulus < y - x /\ y - x < Modulus
  BY <1>1
<1>4. k - h < 1
  <2> SUFFICES ASSUME k - h >= 1 PROVE FALSE
    BY <1>3
  <2>1. Modulus * (k - h) >= Modulus
    BY <1>1, <1>3
  <2> QED
    BY <1>1, <1>2, <1>3, <2>1
<1>5. k - h > -1
  <2> SUFFICES ASSUME k - h <= -1 PROVE FALSE
    BY <1>3
  <2>1. Modulus * (k - h) <= -Modulus
    BY <1>1, <1>3
  <2> QED
    BY <1>1, <1>2, <1>3, <2>1
<1> QED
  BY <1>1, <1>2, <1>3, <1>4, <1>5

(* Numbers less than Modulus apart have seqids of their own. *)
LEMMA SeqidTells ==
  ASSUME NEW a \in Nat, NEW b \in Nat, a <= b, b - a < Modulus, Seqid(a) = Seqid(b)
  PROVE  a = b
<1>1. Modulus \in Nat /\ Modulus > 2
  BY SlotsAssumption
<1>2. Seqid(a) \in Nat /\ Seqid(a) < Modulus
  BY <1>1, SeqidType
<1>3. PICK k \in Int : a = Modulus * k + Seqid(a)
  BY Division
<1>4. PICK h \in Int : b = Modulus * h + Seqid(a)
  BY Division
<1>5. b - a \in Nat /\ Modulus * h + 0 = Modulus * k + (b - a)
  BY <1>1, <1>2, <1>3, <1>4
<1>6. b - a = 0
  BY <1>1, <1>5, Remainder
<1> QED
  BY <1>6

(* The slot's next seqid is that of the next request. *)
LEMMA SeqidNext ==
  ASSUME NEW n \in Nat
  PROVE  (Seqid(n) + 1) % Modulus = Seqid(n + 1)
<1>1. Modulus \in Nat /\ Modulus > 2
  BY SlotsAssumption
<1>2. Seqid(n) \in Nat /\ Seqid(n) < Modulus /\ Seqid(n + 1) \in Nat /\ Seqid(n + 1) < Modulus
  BY <1>1, SeqidType
<1>3. (Seqid(n) + 1) % Modulus = Seqid(Seqid(n) + 1)
  BY DEF Seqid
<1>4. Seqid(Seqid(n) + 1) \in Nat /\ Seqid(Seqid(n) + 1) < Modulus
  BY <1>1, <1>2, SeqidType
<1>5. PICK k \in Int : n = Modulus * k + Seqid(n)
  BY Division
<1>6. PICK h \in Int : n + 1 = Modulus * h + Seqid(n + 1)
  BY Division
<1>7. PICK j \in Int : Seqid(n) + 1 = Modulus * j + Seqid(Seqid(n) + 1)
  BY <1>2, Division
<1>8. Modulus * (k + j) + Seqid(Seqid(n) + 1) = Modulus * h + Seqid(n + 1)
  <2>1. Modulus * (k + j) = Modulus * k + Modulus * j
    BY <1>1
  <2> QED
    BY <1>1, <1>2, <1>4, <1>5, <1>6, <1>7, <2>1
<1>9. Seqid(Seqid(n) + 1) = Seqid(n + 1)
  BY <1>2, <1>4, <1>8, Remainder
<1> QED
  BY <1>3, <1>9

(* What the invariant says of the last request let in. *)
LEMMA LastIs ==
  ASSUME SlotsIInv, NEW s \in Slots
  PROVE  /\ client[s].n \in Nat /\ Last(s) \in Nat
         /\ \/ Last(s) = client[s].n
            \/ /\ Last(s) + 1 = client[s].n /\ client[s].n \in DOMAIN runs[s]
               /\ runs[s][client[s].n] = 0
<1>1. client[s].n \in Nat /\ Last(s) \in Nat
  BY DEF SlotsIInv, ShapeOK, ClientShape, SeqidOK
<1> QED
  BY <1>1 DEF Last

(* process_sequence's verdict on a copy, in terms of its number. *)
LEMMA Verdict ==
  ASSUME SlotsIInv, NEW t \in wire
  PROVE  LET v == SeqStatus(t.slot, Seqid(t.n))
         IN  /\ v = "New" => t.n = Last(t.slot) + 1
             /\ v = "Replay" => t.n = Last(t.slot)
             /\ t.n = client[t.slot].n => v # "Misordered"
             /\ v \in {"New", "Replay", "Misordered"}
<1> DEFINE s == t.slot
<1>1. s \in Slots /\ t.n \in Nat
  BY DEF SlotsIInv, ShapeOK, Task
<1>2. /\ client[s].n \in Nat /\ Last(s) \in Nat
      /\ Last(s) = client[s].n \/ Last(s) + 1 = client[s].n
  BY <1>1, LastIs
<1>3. t.n <= client[s].n /\ t.n > client[s].n + 1 - Modulus
  BY DEF SlotsIInv, WireOK, SentOK
<1>4. slot[s].seq = Seqid(Last(s))
  BY <1>1 DEF SlotsIInv, SeqidOK
<1>5. Modulus \in Nat /\ Modulus > 2
  BY SlotsAssumption
<1>6. (Seqid(Last(s)) + 1) % Modulus = Seqid(Last(s) + 1)
  BY <1>2, SeqidNext
<1>7. Seqid(Last(s)) = 0 => Seqid(Last(s) + 1) = 1
  BY <1>5, <1>6
<1> HIDE DEF s
<1>8. Seqid(t.n) = Seqid(Last(s)) => t.n = Last(s)
  <2>1. CASE t.n <= Last(s)
    BY <1>1, <1>2, <1>3, <1>5, <2>1, SeqidTells
  <2>2. CASE Last(s) <= t.n
    BY <1>1, <1>2, <1>3, <1>5, <2>2, SeqidTells
  <2> QED
    BY <1>1, <1>2, <2>1, <2>2
<1>9. Seqid(t.n) = Seqid(Last(s) + 1) => t.n = Last(s) + 1
  <2>1. t.n <= Last(s) + 1 /\ Last(s) + 1 - t.n < Modulus
    BY <1>1, <1>2, <1>3, <1>5
  <2> QED
    BY <1>1, <1>2, <2>1, SeqidTells
<1>10. t.n = client[s].n => Seqid(t.n) = Seqid(Last(s)) \/ Seqid(t.n) = Seqid(Last(s) + 1)
  BY <1>2
<1> QED
  BY <1>4, <1>6, <1>7, <1>8, <1>9, <1>10 DEF SeqStatus, s

-----------------------------------------------------------------------------
(* The invariant at the start, and what the client does. *)

LEMMA SlotsInit ==
  ASSUME Init
  PROVE  SlotsIInv
<1>1. PICK b \in Before :
        /\ session = TRUE
        /\ slot = [s \in Slots |-> [seq |-> Seqid(b), cached |-> NoReply]]
        /\ client = [s \in Slots |-> [n |-> b, copy |-> 0, req |-> NoReply,
                                      waiting |-> FALSE, answer |-> NoReply]]
        /\ wire = {} /\ running = {} /\ encoded = {} /\ replies = {}
        /\ runs = [s \in Slots |-> [n \in b + 1..b + MaxRequest |-> 0]]
        /\ done = runs
        /\ overtaken = {}
  BY DEF Init
<1>2. b \in Nat /\ Seqid(b) \in Nat
  BY SlotsAssumption, SeqidType
<1>3. \A s \in Slots : /\ slot[s].seq = Seqid(b) /\ slot[s].cached = NoReply
                       /\ client[s].n = b /\ client[s].answer = NoReply
                       /\ ~ client[s].waiting
                       /\ runs[s] = [n \in b + 1..b + MaxRequest |-> 0]
  BY <1>1
<1>4. \A s \in Slots : Last(s) = b
  <2>1. b \notin b + 1..b + MaxRequest
    BY <1>2, SlotsAssumption
  <2> QED
    BY <1>2, <1>3, <2>1 DEF Last
<1>5. ShapeOK
  <2>1. session \in BOOLEAN
    BY <1>1, Zenon
  <2>2. slot \in [Slots -> SlotShape]
    BY <1>1, <1>2 DEF SlotShape, CachedVal, ReplyVal, NoReply
  <2>3. client \in [Slots -> ClientShape]
    BY <1>1, <1>2 DEF ClientShape, ReplyVal
  <2> QED
    BY <1>1, <2>1, <2>2, <2>3 DEF ShapeOK
<1>6. HistoryOK
  BY <1>1, <1>2, SlotsAssumption DEF HistoryOK
<1>7. SeqidOK
  BY <1>2, <1>3, <1>4, SlotsAssumption DEF SeqidOK
<1>8. WireOK /\ WorkOK /\ LoopOK
  BY <1>1 DEF WireOK, WorkOK, LoopOK, Working
<1>9. RepliesTrue /\ ForNow /\ OwnOK
  BY <1>1, <1>3, <1>4 DEF RepliesTrue, TrueReply, ForNow, OwnOK, Working, NoReply, Ran
<1> QED
  BY <1>5, <1>6, <1>7, <1>8, <1>9 DEF SlotsIInv

(* The next request on a slot whose client has been answered. *)
LEMMA SendStep ==
  ASSUME SlotsIInv, NEW s \in Slots, NEW q \in Requests, Send(s, q)
  PROVE  SlotsIInv'
<1> DEFINE c == client[s]
           d == [n |-> c.n + 1, copy |-> 1, req |-> q, waiting |-> TRUE, answer |-> NoReply]
           new == Copy(s, d)
<1>1. /\ session /\ ~ c.waiting /\ d.n \in DOMAIN runs[s]
      /\ \A t \in Outstanding(s) : t.n > d.n + 1 - Modulus
      /\ client' = [client EXCEPT ![s] = d] /\ wire' = wire \cup {new}
      /\ UNCHANGED <<session, slot, running, encoded, replies, runs, done, overtaken>>
  BY DEF Send
<1>2. c \in ClientShape /\ client \in [Slots -> ClientShape]
  BY DEF SlotsIInv, ShapeOK
<1>3. /\ d \in ClientShape /\ d.n = c.n + 1 /\ d.copy = 1 /\ d.req = q /\ d.waiting = TRUE
      /\ d.answer = NoReply
  <2>1. c.n \in Nat
    BY <1>2 DEF ClientShape
  <2>2. NoReply \in ReplyVal
    BY DEF ReplyVal
  <2>3. TRUE \in BOOLEAN
    BY Zenon
  <2> QED
    BY <2>1, <2>2, <2>3 DEF ClientShape
<1>4. /\ new \in Task /\ new.slot = s /\ new.n = c.n + 1 /\ new.copy = 1 /\ new.req = q
  BY <1>2, <1>3, SlotsAssumption DEF Task, Copy, ClientShape
<1> HIDE DEF d, new
<1>5. client'[s] = d /\ \A r \in Slots \ {s} : client'[r] = client[r]
  BY <1>1, <1>2
<1>6. c.n \in Nat /\ Last(s) = c.n
  BY <1>1, <1>2 DEF SlotsIInv, ForNow, ClientShape
<1>7. runs[s][d.n] = 0
  BY <1>1, <1>3, <1>6 DEF SlotsIInv, SeqidOK
<1>8. \A r \in Slots : Last(r)' = Last(r)
  <2>1. Last(s)' = Last(s)
    BY <1>1, <1>3, <1>5, <1>6, <1>7 DEF Last
  <2>2. \A r \in Slots \ {s} : Last(r)' = Last(r)
    BY <1>1, <1>5 DEF Last
  <2> QED
    BY <2>1, <2>2
<1>9. ShapeOK'
  BY <1>1, <1>2, <1>3, <1>4 DEF SlotsIInv, ShapeOK
<1>10. HistoryOK' /\ LoopOK'
  BY <1>1 DEF SlotsIInv, HistoryOK, LoopOK
<1>11. SeqidOK'
  BY <1>1, <1>8 DEF SlotsIInv, SeqidOK
<1>12. \A t \in Task : t.slot \in Slots /\ t.n \in Nat
  BY DEF Task
<1>13. wire \subseteq Task /\ Working \subseteq Task /\ \A r \in running : r.task \in Working
  BY DEF SlotsIInv, ShapeOK, Working
<1>14. \A t \in wire \cup Working : SentOK(t)
  BY DEF SlotsIInv, WireOK, WorkOK
<1>15. \A t \in wire \cup Working : t.slot = s => t.n <= c.n /\ t.n # d.n
  BY <1>3, <1>6, <1>12, <1>13, <1>14 DEF SentOK
<1>16. \A t \in wire \cup Working : SentOK(t)'
  <2> SUFFICES ASSUME NEW t \in wire \cup Working PROVE SentOK(t)'
    OBVIOUS
  <2>1. CASE t.slot = s
    BY <1>1, <1>3, <1>5, <1>6, <1>12, <1>13, <1>14, <1>15, <2>1 DEF SentOK
  <2>2. CASE t.slot # s
    BY <1>1, <1>5, <1>12, <1>13, <1>14, <2>2 DEF SentOK
  <2> QED
    BY <2>1, <2>2
<1>17. Modulus \in Nat /\ Modulus > 2
  BY SlotsAssumption
<1>18. WireOK'
  <2>1. ASSUME NEW t \in wire' PROVE SentOK(t)'
    <3>1. CASE t = new
      BY <1>1, <1>3, <1>4, <1>5, <1>6, <3>1 DEF SentOK
    <3> QED
      BY <1>1, <1>16, <3>1
  <2>2. ASSUME NEW t \in wire \cup {r.task : r \in running}
        PROVE  t.n > client'[t.slot].n + 1 - Modulus
    <3>1. CASE t.slot = s
      BY <1>1, <1>5, <3>1 DEF Outstanding
    <3>2. CASE t.slot # s
      <4>1. t \in Task
        BY <1>13
      <4> QED
        BY <1>5, <1>12, <3>2, <4>1 DEF SlotsIInv, WireOK
    <3> QED
      BY <3>1, <3>2
  <2>3. new.n > client'[new.slot].n + 1 - Modulus
    BY <1>3, <1>4, <1>5, <1>6, <1>17
  <2> QED
    BY <1>1, <2>1, <2>2, <2>3 DEF WireOK
<1>19. Working' = Working /\ new \notin Working
  BY <1>1, <1>3, <1>4, <1>15 DEF Working
<1>20. WorkOK'
  BY <1>1, <1>16, <1>19 DEF SlotsIInv, WorkOK
<1>21. \A x : TrueReply(x)' = TrueReply(x)
  BY <1>1 DEF TrueReply, Over
<1>22. \A r \in Slots : TrueReply(client'[r].answer)
  <2>1. TrueReply(NoReply)
    BY DEF TrueReply, NoReply
  <2> QED
    BY <1>3, <1>5, <2>1 DEF SlotsIInv, RepliesTrue
<1>23. RepliesTrue'
  BY <1>1, <1>21, <1>22 DEF SlotsIInv, RepliesTrue
<1>24. \A p \in replies : p.to.slot # s /\ p.to.slot \in Slots
  BY <1>1 DEF SlotsIInv, ForNow, ShapeOK, Task
<1>25. \A r \in Slots \ {s} : Now(r)' = Now(r)
  BY <1>5 DEF Now, Copy
<1>26. \A r \in Slots : r # s => Now(r) # new
  BY <1>4 DEF Now, Copy
<1>27. ForNow'
  <2>1. \A p \in replies : /\ p.to = Now(p.to.slot)' /\ client'[p.to.slot].waiting
                           /\ p.to \notin wire' \cup Working'
                           /\ p.body.kind # "SeqMisordered"
                           /\ session' => Last(p.to.slot)' = p.to.n
    BY <1>1, <1>5, <1>8, <1>19, <1>24, <1>25, <1>26 DEF SlotsIInv, ForNow
  <2>2. ASSUME NEW r \in Slots
        PROVE  /\ client'[r].answer.kind # "SeqMisordered"
               /\ client'[r].waiting => client'[r].n \in DOMAIN runs'[r] /\ client'[r].req \in Requests
               /\ ~ client'[r].waiting => /\ Now(r)' \notin wire' \cup Working'
                                          /\ session' => Last(r)' = client'[r].n
    <3>1. CASE r = s
      BY <1>1, <1>3, <1>5, <3>1 DEF NoReply
    <3>2. CASE r # s
      BY <1>1, <1>5, <1>8, <1>19, <1>25, <1>26, <3>2 DEF SlotsIInv, ForNow
    <3> QED
      BY <3>1, <3>2
  <2>3. \A p, r \in replies : p.to.slot = r.to.slot => p = r
    BY DEF SlotsIInv, ForNow
  <2> QED
    BY <1>1, <2>1, <2>2, <2>3 DEF ForNow
<1>28. OwnOK'
  <2> SUFFICES ASSUME NEW r \in Slots \ overtaken
               PROVE  /\ \A t \in Working : t.slot = r => t.n = Last(r)
                      /\ slot[r].cached # NoReply => slot[r].cached.slot = r /\ slot[r].cached.n = Last(r)
                      /\ client'[r].answer.kind \in Ran => client'[r].answer.slot = r
                                                           /\ client'[r].answer.n = client'[r].n
                      /\ \A p \in replies : p.to.slot = r /\ p.body.kind \in Ran =>
                             p.body.slot = r /\ p.body.n = p.to.n
    BY <1>1, <1>8, <1>19 DEF OwnOK
  <2>1. client'[r].answer.kind \in Ran => client'[r].answer.slot = r
                                          /\ client'[r].answer.n = client'[r].n
    <3>1. CASE r = s
      BY <1>3, <1>5, <3>1 DEF NoReply, Ran
    <3>2. CASE r # s
      BY <1>5, <3>2 DEF SlotsIInv, OwnOK
    <3> QED
      BY <3>1, <3>2
  <2> QED
    BY <2>1 DEF SlotsIInv, OwnOK
<1> QED
  BY <1>9, <1>10, <1>11, <1>18, <1>20, <1>23, <1>27, <1>28 DEF SlotsIInv

(* The same request on another connection; what was written to the old one *)
(* is lost.                                                                *)
LEMMA ResendStep ==
  ASSUME SlotsIInv, NEW s \in Slots, Resend(s)
  PROVE  SlotsIInv'
<1> DEFINE c == client[s]
           d == [client[s] EXCEPT !.copy = @ + 1]
           new == Copy(s, d)
<1>1. /\ c.waiting /\ c.copy < MaxCopy
      /\ client' = [client EXCEPT ![s] = d] /\ wire' = wire \cup {new}
      /\ replies' = {p \in replies : p.to.slot # s}
      /\ UNCHANGED <<session, slot, running, encoded, runs, done, overtaken>>
  BY DEF Resend
<1>2. c \in ClientShape /\ client \in [Slots -> ClientShape]
  BY DEF SlotsIInv, ShapeOK
<1>3. /\ d \in ClientShape /\ d.n = c.n /\ d.copy = c.copy + 1 /\ d.req = c.req
      /\ d.waiting = c.waiting /\ d.answer = c.answer
  BY <1>2 DEF ClientShape
<1>4. c.n \in Nat /\ c.copy \in Nat /\ c.req \in Requests /\ c.n \in DOMAIN runs[s]
  BY <1>1, <1>2 DEF SlotsIInv, ForNow, ClientShape
<1>5. new \in Task /\ new.slot = s /\ new.n = c.n /\ new.copy = c.copy + 1 /\ new.req = c.req
  <2>1. c.copy + 1 \in 1..MaxCopy
    BY <1>1, <1>4, SlotsAssumption
  <2> HIDE DEF d
  <2> QED
    BY <1>3, <1>4, <2>1 DEF Task, Copy
<1> HIDE DEF d, new
<1>6. client'[s] = d /\ \A r \in Slots \ {s} : client'[r] = client[r]
  BY <1>1, <1>2
<1>7. \A r \in Slots : /\ client'[r].n = client[r].n /\ client'[r].req = client[r].req
                       /\ client'[r].waiting = client[r].waiting
                       /\ client'[r].answer = client[r].answer
                       /\ client[r].copy <= client'[r].copy
  <2>1. \A r \in Slots : client[r].copy \in Nat
    BY <1>2 DEF ClientShape
  <2> QED
    BY <1>3, <1>4, <1>6, <2>1
<1>8. \A r \in Slots : Last(r)' = Last(r)
  BY <1>1, <1>7 DEF Last
<1>9. ShapeOK'
  BY <1>1, <1>2, <1>3, <1>5 DEF SlotsIInv, ShapeOK
<1>10. HistoryOK' /\ LoopOK'
  BY <1>1 DEF SlotsIInv, HistoryOK, LoopOK
<1>11. SeqidOK'
  BY <1>1, <1>8 DEF SlotsIInv, SeqidOK
<1>12. \A t \in Task : t.slot \in Slots /\ t.n \in Nat /\ t.copy \in Nat
  BY SlotsAssumption DEF Task
<1>13. wire \subseteq Task /\ Working \subseteq Task /\ \A r \in running : r.task \in Working
  BY DEF SlotsIInv, ShapeOK, Working
<1>14. \A t \in wire \cup Working : SentOK(t)
  BY DEF SlotsIInv, WireOK, WorkOK
<1>15. \A t \in wire \cup Working : t # new
  <2> SUFFICES ASSUME NEW t \in wire \cup Working, t = new PROVE FALSE
    OBVIOUS
  <2>1. t.copy <= c.copy
    BY <1>5, <1>14 DEF SentOK
  <2> QED
    BY <1>4, <1>5, <2>1
<1>16. \A t \in wire \cup Working : SentOK(t)'
  <2> SUFFICES ASSUME NEW t \in wire \cup Working PROVE SentOK(t)'
    OBVIOUS
  <2>1. SentOK(t) /\ t \in Task
    BY <1>13, <1>14
  <2>2. t.slot \in Slots /\ t.copy \in Nat
    BY <1>12, <2>1
  <2>3. client[t.slot].copy \in Nat /\ client'[t.slot].copy \in Nat
    BY <1>2, <1>3, <1>6, <2>2 DEF ClientShape
  <2> QED
    BY <1>1, <1>7, <2>1, <2>2, <2>3 DEF SentOK
<1>17. Modulus \in Nat /\ Modulus > 2
  BY SlotsAssumption
<1>18. WireOK'
  <2>1. ASSUME NEW t \in wire' PROVE SentOK(t)'
    <3>1. CASE t = new
      BY <1>1, <1>3, <1>4, <1>5, <1>6, <3>1 DEF SentOK
    <3> QED
      BY <1>1, <1>16, <3>1
  <2>2. ASSUME NEW t \in wire \cup {r.task : r \in running}
        PROVE  t.n > client'[t.slot].n + 1 - Modulus
    <3>1. t \in Task
      BY <1>13
    <3> QED
      BY <1>7, <1>12, <3>1 DEF SlotsIInv, WireOK
  <2>3. new.n > client'[new.slot].n + 1 - Modulus
    BY <1>3, <1>4, <1>5, <1>6, <1>17
  <2> QED
    BY <1>1, <2>1, <2>2, <2>3 DEF WireOK
<1>19. Working' = Working /\ new \notin Working
  BY <1>1, <1>15 DEF Working
<1>20. WorkOK'
  BY <1>1, <1>16, <1>19 DEF SlotsIInv, WorkOK
<1>21. \A x : TrueReply(x)' = TrueReply(x)
  BY <1>1 DEF TrueReply, Over
<1>23. RepliesTrue'
  BY <1>1, <1>7, <1>21 DEF SlotsIInv, RepliesTrue
<1>25. \A r \in Slots \ {s} : Now(r)' = Now(r) /\ Now(r) # new
  BY <1>5, <1>6 DEF Now, Copy
<1>26. \A p \in replies' : p \in replies /\ p.to.slot \in Slots \ {s}
  BY <1>1 DEF SlotsIInv, ShapeOK, Task
<1>27. ForNow'
  <2>1. \A p \in replies' : /\ p.to = Now(p.to.slot)' /\ client'[p.to.slot].waiting
                            /\ p.to \notin wire' \cup Working'
                            /\ p.body.kind # "SeqMisordered"
                            /\ session' => Last(p.to.slot)' = p.to.n
    BY <1>1, <1>7, <1>8, <1>19, <1>25, <1>26 DEF SlotsIInv, ForNow
  <2>2. ASSUME NEW r \in Slots
        PROVE  /\ client'[r].answer.kind # "SeqMisordered"
               /\ client'[r].waiting => client'[r].n \in DOMAIN runs'[r] /\ client'[r].req \in Requests
               /\ ~ client'[r].waiting => /\ Now(r)' \notin wire' \cup Working'
                                          /\ session' => Last(r)' = client'[r].n
    <3>1. CASE r = s
      BY <1>1, <1>7, <3>1 DEF SlotsIInv, ForNow
    <3>2. CASE r # s
      BY <1>1, <1>7, <1>8, <1>19, <1>25, <3>2 DEF SlotsIInv, ForNow
    <3> QED
      BY <3>1, <3>2
  <2>3. \A p, r \in replies' : p.to.slot = r.to.slot => p = r
    BY <1>26 DEF SlotsIInv, ForNow
  <2> QED
    BY <1>1, <2>1, <2>2, <2>3 DEF ForNow
<1>28. OwnOK'
  BY <1>1, <1>7, <1>8, <1>19, <1>26 DEF SlotsIInv, OwnOK
<1> QED
  BY <1>9, <1>10, <1>11, <1>18, <1>20, <1>23, <1>27, <1>28 DEF SlotsIInv

(* The client is answered. *)
LEMMA AcceptStep ==
  ASSUME SlotsIInv, NEW p \in replies, Accept(p)
  PROVE  SlotsIInv'
<1> DEFINE s == p.to.slot
<1>1. /\ replies' = replies \ {p}
      /\ client' = [client EXCEPT ![s].waiting = FALSE, ![s].answer = p.body]
      /\ UNCHANGED <<session, slot, wire, running, encoded, runs, done, overtaken>>
  BY DEF Accept
<1>2. s \in Slots /\ p.body \in ReplyVal /\ client \in [Slots -> ClientShape]
  BY DEF SlotsIInv, ShapeOK, Task
<1> HIDE DEF s
<1>3. FALSE \in BOOLEAN
  BY Zenon
<1>4. client' \in [Slots -> ClientShape]
  BY <1>1, <1>2, <1>3 DEF ClientShape
<1>5. /\ \A r \in Slots : /\ client'[r].n = client[r].n /\ client'[r].req = client[r].req
                          /\ client'[r].copy = client[r].copy
      /\ \A r \in Slots \ {s} : client'[r] = client[r]
      /\ client'[s].answer = p.body /\ client'[s].waiting = FALSE
  BY <1>1, <1>2 DEF ClientShape
<1>21. UNCHANGED <<session, slot, wire, running, encoded, runs, done, overtaken>>
  BY <1>1
<1>6. \A r \in Slots : Last(r)' = Last(r) /\ Now(r)' = Now(r)
  BY <1>5, <1>21 DEF Last, Now, Copy
<1>7. ShapeOK'
  BY <1>1, <1>4 DEF SlotsIInv, ShapeOK
<1>8. HistoryOK' /\ LoopOK'
  BY <1>1 DEF SlotsIInv, HistoryOK, LoopOK
<1>9. SeqidOK'
  BY <1>1, <1>6 DEF SlotsIInv, SeqidOK
<1>10. Working' = Working /\ wire \subseteq Task /\ Working \subseteq Task
       /\ \A t \in Task : t.slot \in Slots
  BY <1>1 DEF SlotsIInv, ShapeOK, Working, Task
<1>11. \A t \in wire \cup Working : SentOK(t)' <=> SentOK(t)
  BY <1>1, <1>5, <1>10 DEF SentOK
<1>12. WireOK'
  <2>1. \A t \in wire \cup {r.task : r \in running} : t.slot \in Slots
    BY DEF SlotsIInv, ShapeOK, Task
  <2> QED
    BY <1>1, <1>5, <1>11, <2>1 DEF SlotsIInv, WireOK
<1>13. WorkOK'
  BY <1>1, <1>10, <1>11 DEF SlotsIInv, WorkOK
<1>14. \A x : TrueReply(x)' = TrueReply(x)
  BY <1>1 DEF TrueReply, Over
<1>15. RepliesTrue'
  <2>1. \A r \in Slots : TrueReply(client'[r].answer)
    BY <1>5 DEF SlotsIInv, RepliesTrue
  <2> QED
    BY <1>1, <1>14, <2>1 DEF SlotsIInv, RepliesTrue
<1>16. \A x \in replies' : x \in replies /\ x.to.slot \in Slots \ {s}
  BY <1>1 DEF SlotsIInv, ShapeOK, Task, ForNow, s
<1>17. /\ p.to = Now(s) /\ p.to \notin wire \cup Working /\ p.body.kind # "SeqMisordered"
       /\ session => Last(s) = p.to.n
  BY DEF SlotsIInv, ForNow, s
<1>18. p.to.n = client[s].n
  BY <1>17 DEF Now, Copy
<1>19. ForNow'
  <2>1. \A x \in replies' : /\ x.to = Now(x.to.slot)' /\ client'[x.to.slot].waiting
                            /\ x.to \notin wire' \cup Working'
                            /\ x.body.kind # "SeqMisordered"
                            /\ session' => Last(x.to.slot)' = x.to.n
    <3> SUFFICES ASSUME NEW x \in replies'
                 PROVE  /\ x.to = Now(x.to.slot)' /\ client'[x.to.slot].waiting
                        /\ x.to \notin wire' \cup Working'
                        /\ x.body.kind # "SeqMisordered"
                        /\ session' => Last(x.to.slot)' = x.to.n
      OBVIOUS
    <3>1. x \in replies /\ x.to.slot \in Slots \ {s} BY <1>16
    <3>2. /\ x.to = Now(x.to.slot) /\ client[x.to.slot].waiting
          /\ x.to \notin wire \cup Working /\ x.body.kind # "SeqMisordered"
          /\ session => Last(x.to.slot) = x.to.n
      BY <3>1 DEF SlotsIInv, ForNow
    <3>3. client'[x.to.slot] = client[x.to.slot] BY <1>5, <3>1
    <3>4. Last(x.to.slot)' = Last(x.to.slot) /\ Now(x.to.slot)' = Now(x.to.slot)
      BY <1>6, <3>1
    <3>5. wire' \cup Working' = wire \cup Working /\ session' = session
      BY <1>10, <1>21
    <3> QED BY <3>2, <3>3, <3>4, <3>5
  <2>2. ASSUME NEW r \in Slots
        PROVE  /\ client'[r].answer.kind # "SeqMisordered"
               /\ client'[r].waiting => client'[r].n \in DOMAIN runs'[r] /\ client'[r].req \in Requests
               /\ ~ client'[r].waiting => /\ Now(r)' \notin wire' \cup Working'
                                          /\ session' => Last(r)' = client'[r].n
    <3>1. CASE r = s
      BY <1>1, <1>5, <1>6, <1>10, <1>17, <1>18, <3>1
    <3>2. CASE r # s
      BY <1>1, <1>5, <1>6, <1>10, <3>2 DEF SlotsIInv, ForNow
    <3> QED
      BY <3>1, <3>2
  <2>3. \A x, y \in replies' : x.to.slot = y.to.slot => x = y
    BY <1>16 DEF SlotsIInv, ForNow
  <2> QED
    BY <2>1, <2>2, <2>3 DEF ForNow
<1>20. OwnOK'
  <2> SUFFICES ASSUME NEW r \in Slots \ overtaken
               PROVE  /\ \A t \in Working : t.slot = r => t.n = Last(r)
                      /\ slot[r].cached # NoReply => slot[r].cached.slot = r /\ slot[r].cached.n = Last(r)
                      /\ client'[r].answer.kind \in Ran => client'[r].answer.slot = r
                                                           /\ client'[r].answer.n = client'[r].n
                      /\ \A x \in replies' : x.to.slot = r /\ x.body.kind \in Ran =>
                             x.body.slot = r /\ x.body.n = x.to.n
    BY <1>6, <1>10, <1>21 DEF OwnOK
  <2>1. client'[r].answer.kind \in Ran => client'[r].answer.slot = r
                                          /\ client'[r].answer.n = client'[r].n
    <3>1. CASE r = s
      BY <1>5, <1>18, <3>1 DEF SlotsIInv, OwnOK, s
    <3>2. CASE r # s
      BY <1>5, <3>2 DEF SlotsIInv, OwnOK
    <3> QED
      BY <3>1, <3>2
  <2> QED
    BY <1>16, <2>1 DEF SlotsIInv, OwnOK
<1> QED
  BY <1>7, <1>8, <1>9, <1>12, <1>13, <1>15, <1>19, <1>20 DEF SlotsIInv

(* DESTROY_SESSION takes nothing back. *)
LEMMA DestroyStep ==
  ASSUME SlotsIInv, DestroySession
  PROVE  SlotsIInv'
<1>1. session' = FALSE
      /\ UNCHANGED <<slot, client, wire, running, encoded, replies, runs, done, overtaken>>
  BY DEF DestroySession
<1>2. session' \in BOOLEAN
  BY <1>1, Zenon
<1>3. /\ \A s \in Slots : Last(s)' = Last(s) /\ Now(s)' = Now(s)
      /\ Working' = Working /\ \A x : (TrueReply(x)' = TrueReply(x)) /\ (SentOK(x)' = SentOK(x))
  BY <1>1 DEF Last, Now, Copy, Working, TrueReply, Over, SentOK
<1>4. ShapeOK' /\ HistoryOK' /\ LoopOK'
  BY <1>1, <1>2 DEF SlotsIInv, ShapeOK, HistoryOK, LoopOK
<1>5. SeqidOK' /\ WireOK' /\ WorkOK'
  BY <1>1, <1>3 DEF SlotsIInv, SeqidOK, WireOK, WorkOK
<1>6. RepliesTrue' /\ OwnOK'
  BY <1>1, <1>3 DEF SlotsIInv, RepliesTrue, OwnOK
<1>7. ForNow'
  <2>1. \A p \in replies : p.to.slot \in Slots
    BY DEF SlotsIInv, ShapeOK, Task
  <2> QED
    BY <1>1, <1>3, <2>1 DEF SlotsIInv, ForNow
<1> QED
  BY <1>4, <1>5, <1>6, <1>7 DEF SlotsIInv

-----------------------------------------------------------------------------
(* The COMPOUND loop. *)

(* The COMPOUND t goes on after operation i (A), or is encoded (B). *)
Proceeds(t, i, ok, A, B) ==
    \/ /\ A = {[task |-> t, i |-> i + 1]} /\ B = {} /\ ok
       /\ i + 1 \in 1..t.req.ops - 1
    \/ \E x \in ReplyVal :
         /\ A = {} /\ B = {[task |-> t, reply |-> x]}
         /\ x.kind \in Ran /\ x.slot = t.slot /\ x.n = t.n
         /\ x.kind = "Ok" => ok /\ x.results = i + 1
         /\ x.kind = "Failed" => ~ ok /\ x.results = i

(* After an operation the COMPOUND goes on, or its reply is encoded: as    *)
(* many results as took effect, if it says that it went through or failed. *)
LEMMA AfterIs ==
  ASSUME NEW t \in Task, NEW i \in Nat, NEW ok \in BOOLEAN, NEW rest,
         i < t.req.ops, After(t, i, ok, rest)
  PROVE  \E A, B :
           /\ running' = rest \cup A /\ encoded' = encoded \cup B /\ replies' = replies
           /\ Proceeds(t, i, ok, A, B)
<1> DEFINE Stops(x) == /\ x \in ReplyVal
                       /\ x.kind \in Ran /\ x.slot = t.slot /\ x.n = t.n
                       /\ x.kind = "Ok" => ok /\ x.results = i + 1
                       /\ x.kind = "Failed" => ~ ok /\ x.results = i
<1>1. t.slot \in Slots /\ t.n \in Nat /\ t.req.ops \in Nat
  BY SlotsAssumption DEF Task, RequestShape
<1>2. ASSUME NEW x, Stops(x), running' = rest, Stop(t, x)
      PROVE  \E A, B :
               /\ running' = rest \cup A /\ encoded' = encoded \cup B /\ replies' = replies
               /\ Proceeds(t, i, ok, A, B)
  <2>1. running' = rest \cup {} /\ encoded' = encoded \cup {[task |-> t, reply |-> x]}
        /\ replies' = replies
    BY <1>2 DEF Stop
  <2>2. Proceeds(t, i, ok, {}, {[task |-> t, reply |-> x]})
    BY <1>2 DEF Proceeds
  <2> QED
    BY <2>1, <2>2
<1>3. ASSUME NEW k \in Answers, NEW m \in Nat
      PROVE  LET x == Reply(t, k, m)
             IN  x \in ReplyVal /\ x.kind = k /\ x.slot = t.slot /\ x.n = t.n /\ x.results = m
  BY <1>1 DEF Reply, ReplyVal
<1>4. CASE TooMany(t, i)
  <2>1. Stops(Reply(t, "TooManyOps", i))
    BY <1>3 DEF Answers, Ran
  <2> HIDE DEF Stops
  <2> QED
    BY <1>2, <1>4, <2>1 DEF After
<1>5. CASE ~ TooMany(t, i) /\ session /\ t.req.big
  <2>1. Stops(Reply(t, "ReqTooBig", i + 1))
    BY <1>3 DEF Answers, Ran
  <2> HIDE DEF Stops
  <2> QED
    BY <1>2, <1>5, <2>1 DEF After
<1>6. CASE ~ TooMany(t, i) /\ ~ (session /\ t.req.big) /\ ~ ok
  <2>1. Stops(Reply(t, "Failed", i))
    BY <1>3, <1>6 DEF Answers, Ran
  <2> HIDE DEF Stops
  <2> QED
    BY <1>2, <1>6, <2>1 DEF After
<1>7. CASE ~ TooMany(t, i) /\ ~ (session /\ t.req.big) /\ ok /\ i + 1 = t.req.ops
  <2>1. Stops(LastReply(t))
    <3>1. Stops(Reply(t, "RepTooBig", 1))
      BY <1>3 DEF Answers, Ran
    <3>2. Stops(Reply(t, "Ok", t.req.ops))
      BY <1>1, <1>3, <1>7 DEF Answers, Ran
    <3> QED
      BY <3>1, <3>2 DEF LastReply
  <2>2. running' = rest /\ Stop(t, LastReply(t))
    BY <1>7 DEF After
  <2> HIDE DEF Stops
  <2> QED
    BY <1>2, <2>1, <2>2
<1>8. CASE ~ TooMany(t, i) /\ ~ (session /\ t.req.big) /\ ok /\ i + 1 # t.req.ops
  <2>1. running' = rest \cup {[task |-> t, i |-> i + 1]} /\ encoded' = encoded \cup {}
        /\ replies' = replies
    BY <1>8 DEF After
  <2>2. i + 1 \in 1..t.req.ops - 1
    BY <1>1, <1>8
  <2>3. Proceeds(t, i, ok, {[task |-> t, i |-> i + 1]}, {})
    BY <1>8, <2>2 DEF Proceeds
  <2> QED
    BY <2>1, <2>3
<1> QED
  BY <1>4, <1>5, <1>6, <1>7, <1>8

(* One operation of a COMPOUND. *)
LEMMA ExecuteStep ==
  ASSUME SlotsIInv, NEW r \in running, NEW ok \in BOOLEAN, Execute(r, ok)
  PROVE  SlotsIInv'
<1> DEFINE t == r.task
           s == t.slot
           rest == running \ {r}
<1>1. /\ done' = IF ok THEN [done EXCEPT ![s][t.n] = @ + 1] ELSE done
      /\ After(t, r.i, ok, rest)
      /\ UNCHANGED <<session, slot, client, wire, runs, overtaken>>
  BY DEF Execute
<1>2. /\ t \in Task /\ s \in Slots /\ t.n \in Nat /\ r.i \in Nat /\ r.i \in 1..t.req.ops - 1
      /\ t \in Working /\ t.req.ops \in Nat
  BY SlotsAssumption DEF SlotsIInv, ShapeOK, LoopOK, Working, Task, RequestShape
<1>3. /\ t.n \in DOMAIN runs[s] /\ runs[s][t.n] = 1 /\ t \notin wire
      /\ r.i = done[s][t.n] /\ SentOK(t)
  BY <1>2 DEF SlotsIInv, WorkOK, SentOK, LoopOK
<1>4. r.i < t.req.ops
  BY <1>2
<1>5. PICK A, B :
        /\ running' = rest \cup A /\ encoded' = encoded \cup B /\ replies' = replies
        /\ Proceeds(t, r.i, ok, A, B)
  <2> HIDE DEF t, rest
  <2> QED
    BY <1>1, <1>2, <1>4, AfterIs
<1>6. \A a \in A : /\ a \in [task : Task, i : Nat] /\ a.task = t /\ a.i = r.i + 1 /\ ok
                   /\ a.i \in 1..t.req.ops - 1 /\ B = {} /\ A = {a}
  BY <1>2, <1>5 DEF Proceeds
<1>7. \A b \in B : /\ b \in [task : Task, reply : ReplyVal] /\ b.task = t
                   /\ b.reply.kind \in Ran /\ b.reply.slot = s /\ b.reply.n = t.n
                   /\ b.reply.kind = "Ok" => ok /\ b.reply.results = r.i + 1
                   /\ b.reply.kind = "Failed" => ~ ok /\ b.reply.results = r.i
                   /\ A = {} /\ B = {b}
  BY <1>2, <1>5 DEF Proceeds
<1>8. (\E a \in A : a.task = t) \/ (\E b \in B : b.task = t)
  <2>1. (\E a : a \in A) \/ (\E b : b \in B)
    <3> HIDE DEF t
    <3> QED
      BY <1>5 DEF Proceeds
  <2> QED
    BY <1>6, <1>7, <2>1
<1>9. /\ done' = [q \in Slots |-> done'[q]]
      /\ done'[s][t.n] = (IF ok THEN r.i + 1 ELSE r.i)
      /\ \A q \in Slots : DOMAIN done'[q] = DOMAIN done[q]
      /\ \A q \in Slots : \A n \in DOMAIN done[q] :
            ~ (q = s /\ n = t.n) => done'[q][n] = done[q][n]
      /\ \A q \in Slots : done'[q] \in [DOMAIN runs[q] -> Nat]
  <2>1. /\ done = [q \in Slots |-> done[q]]
        /\ \A q \in Slots : done[q] \in [DOMAIN runs[q] -> Nat] /\ DOMAIN done[q] = DOMAIN runs[q]
    BY DEF SlotsIInv, HistoryOK
  <2>2. CASE ok
    <3>1. done' = [done EXCEPT ![s] = [done[s] EXCEPT ![t.n] = @ + 1]]
      BY <1>1, <2>2
    <3>2. done'[s] = [done[s] EXCEPT ![t.n] = @ + 1] /\ \A q \in Slots \ {s} : done'[q] = done[q]
      BY <1>2, <2>1, <3>1
    <3>3. done' = [q \in Slots |-> done'[q]]
      BY <2>1, <3>1
    <3>4. /\ done'[s] \in [DOMAIN runs[s] -> Nat] /\ done'[s][t.n] = r.i + 1
          /\ \A n \in DOMAIN done[s] : n # t.n => done'[s][n] = done[s][n]
      BY <1>2, <1>3, <2>1, <3>2
    <3>5. \A q \in Slots : q = s \/ done'[q] = done[q]
      BY <3>2
    <3>6. \A q \in Slots : done'[q] \in [DOMAIN runs[q] -> Nat] /\ DOMAIN done'[q] = DOMAIN done[q]
      BY <1>2, <2>1, <3>2, <3>4
    <3> QED
      BY <2>2, <3>3, <3>4, <3>5, <3>6
  <2>3. CASE ~ ok
    BY <1>1, <1>3, <2>1, <2>3
  <2> QED
    BY <2>2, <2>3
<1> HIDE DEF rest, t, s
<1>10. rest = running \ {r}
  BY DEF rest
<1>11. UNCHANGED <<session, slot, client, wire, runs, overtaken, replies>>
  BY <1>1, <1>5
<1>12. \A q \in rest : ~ (q.task.slot = s /\ q.task.n = t.n)
  BY <1>10 DEF SlotsIInv, WorkOK, s, t
<1>13. \A e \in encoded : ~ (e.task.slot = s /\ e.task.n = t.n)
  BY DEF SlotsIInv, WorkOK, s, t
<1>14. Working' = Working
  <2>1. Working = {q.task : q \in rest} \cup {t} \cup {e.task : e \in encoded}
    BY <1>10 DEF Working, t
  <2>2. Working' = {q.task : q \in rest \cup A} \cup {e.task : e \in encoded \cup B}
    BY <1>5 DEF Working
  <2> QED
    BY <1>6, <1>7, <1>8, <2>1, <2>2
<1>15. /\ \A q \in Slots : Last(q)' = Last(q) /\ Now(q)' = Now(q)
       /\ \A x : SentOK(x)' = SentOK(x)
  BY <1>11 DEF Last, Now, Copy, SentOK
<1>16. ShapeOK'
  BY <1>5, <1>6, <1>7, <1>10, <1>11 DEF SlotsIInv, ShapeOK
<1>17. HistoryOK'
  BY <1>9, <1>11 DEF SlotsIInv, HistoryOK
<1>18. SeqidOK'
  BY <1>11, <1>15 DEF SlotsIInv, SeqidOK
<1>19. WireOK'
  <2>1. \A q \in running' : q.task \in {p.task : p \in running}
    BY <1>5, <1>6, <1>10 DEF t
  <2> QED
    BY <1>11, <1>15, <2>1 DEF SlotsIInv, WireOK
<1>20. WorkOK'
  <2>1. \A q, p \in running' : q.task.slot = p.task.slot /\ q.task.n = p.task.n => q = p
    BY <1>5, <1>6, <1>10, <1>12 DEF SlotsIInv, WorkOK, s
  <2>2. \A e, f \in encoded' : e.task.slot = f.task.slot /\ e.task.n = f.task.n => e = f
    BY <1>5, <1>7, <1>13 DEF SlotsIInv, WorkOK, s
  <2>3. \A q \in running' : \A e \in encoded' : ~ (q.task.slot = e.task.slot /\ q.task.n = e.task.n)
    BY <1>5, <1>6, <1>7, <1>10, <1>12, <1>13 DEF SlotsIInv, WorkOK, s
  <2> QED
    BY <1>11, <1>14, <1>15, <2>1, <2>2, <2>3 DEF SlotsIInv, WorkOK
<1>21. LoopOK'
  <2> SUFFICES ASSUME NEW q \in running'
               PROVE  q.i \in 1..q.task.req.ops - 1 /\ q.i = done'[q.task.slot][q.task.n]
    BY DEF LoopOK
  <2>1. CASE q \in A
    BY <1>6, <1>9, <2>1 DEF s
  <2>2. CASE q \in rest
    <3>1. q.task.slot \in Slots /\ q.task.n \in DOMAIN done[q.task.slot]
      BY <1>10, <2>2 DEF SlotsIInv, ShapeOK, Task, WorkOK, Working, SentOK, HistoryOK
    <3> QED
      BY <1>9, <1>10, <1>12, <2>2, <3>1 DEF SlotsIInv, LoopOK
  <2> QED
    BY <1>5, <2>1, <2>2
<1>22. ASSUME NEW x, x = NoReply \/ x.slot \in Slots, TrueReply(x)
       PROVE  TrueReply(x)'
  <2> SUFFICES ASSUME x.kind \in {"Ok", "Failed"}
               PROVE  Over(x.slot, x.n)' /\ x.results = done'[x.slot][x.n]
    BY DEF TrueReply
  <2>1. x.slot \in Slots
    BY <1>22 DEF NoReply
  <2>2. Over(x.slot, x.n) /\ x.results = done[x.slot][x.n]
    BY <1>22 DEF TrueReply
  <2>3. ~ (x.slot = s /\ x.n = t.n)
    BY <2>2 DEF Over, s, t
  <2>4. x.n \in DOMAIN done[x.slot]
    BY <2>1, <2>2 DEF Over, SlotsIInv, HistoryOK
  <2>5. Over(x.slot, x.n)'
    <3>1. \A q \in running' : ~ (q.task.slot = x.slot /\ q.task.n = x.n)
      BY <1>5, <1>6, <1>10, <2>2, <2>3 DEF Over, s
    <3> QED
      BY <1>11, <2>2, <3>1 DEF Over
  <2> QED
    BY <1>9, <2>1, <2>2, <2>3, <2>4, <2>5
<1>23. \A x \in ReplyVal : x = NoReply \/ x.slot \in Slots
  BY DEF ReplyVal
<1>24. RepliesTrue'
  <2>1. ASSUME NEW e \in encoded'
        PROVE  /\ TrueReply(e.reply)' /\ e.reply.kind \in Ran
               /\ e.reply.slot = e.task.slot /\ e.reply.n = e.task.n
    <3>1. CASE e \in encoded
      BY <1>22, <1>23, <3>1 DEF SlotsIInv, RepliesTrue, ShapeOK
    <3>2. CASE e \in B
      <4>1. running' = rest
        BY <1>5, <1>7, <3>2
      <4>2. Over(s, t.n)'
        BY <1>3, <1>11, <1>12, <4>1 DEF Over
      <4>3. TrueReply(e.reply)'
        BY <1>7, <1>9, <3>2, <4>2 DEF TrueReply
      <4> QED
        BY <1>7, <3>2, <4>3 DEF s
    <3> QED
      BY <1>5, <3>1, <3>2
  <2>2. \A q \in Slots : TrueReply(slot[q].cached)' /\ TrueReply(client[q].answer)'
    <3>1. \A q \in Slots : slot[q].cached \in ReplyVal /\ client[q].answer \in ReplyVal
      BY DEF SlotsIInv, ShapeOK, SlotShape, CachedVal, ClientShape
    <3>2. \A q \in Slots : TrueReply(slot[q].cached) /\ TrueReply(client[q].answer)
      BY DEF SlotsIInv, RepliesTrue
    <3>3. ASSUME NEW q \in Slots, NEW x, x = slot[q].cached \/ x = client[q].answer
          PROVE  TrueReply(x)'
      BY <1>22, <1>23, <3>1, <3>2, <3>3
    <3>4. \A q \in Slots : slot'[q] = slot[q] /\ client'[q] = client[q]
      BY <1>11
    <3> QED
      BY <3>3, <3>4
  <2>3. \A p \in replies' : TrueReply(p.body)'
    BY <1>11, <1>22, <1>23 DEF SlotsIInv, RepliesTrue, ShapeOK
  <2> QED
    BY <1>11, <2>1, <2>2, <2>3 DEF RepliesTrue
<1>25. ForNow'
  <2>1. \A p \in replies : p.to.slot \in Slots
    BY DEF SlotsIInv, ShapeOK, Task
  <2> QED
    BY <1>11, <1>14, <1>15, <2>1 DEF SlotsIInv, ForNow
<1>26. OwnOK'
  BY <1>11, <1>14, <1>15 DEF SlotsIInv, OwnOK
<1> QED
  BY <1>16, <1>17, <1>18, <1>19, <1>20, <1>21, <1>24, <1>25, <1>26 DEF SlotsIInv

(* SEQUENCE lets a request in. *)
LEMMA NewStep ==
  ASSUME SlotsIInv, NEW t \in wire, Sequence(t), session,
         SeqStatus(t.slot, Seqid(t.n)) = "New"
  PROVE  SlotsIInv'
<1> DEFINE s == t.slot
           ok == TRUE
<1>1. /\ wire' = wire \ {t}
      /\ slot' = [slot EXCEPT ![s] = [seq |-> Seqid(t.n), cached |-> NoReply]]
      /\ runs' = [runs EXCEPT ![s][t.n] = @ + 1]
      /\ done' = [done EXCEPT ![s][t.n] = 1]
      /\ overtaken' = overtaken \cup {x \in {s} : \E r \in running \cup encoded : r.task.slot = x}
      /\ After(t, 0, TRUE, running)
      /\ UNCHANGED <<session, client>>
  BY DEF Sequence, Advance
<1>2. t \in Task /\ s \in Slots /\ t.n \in Nat /\ t.req.ops \in Nat /\ 0 < t.req.ops
  <2>1. t \in Task
    BY DEF SlotsIInv, ShapeOK
  <2>2. s \in Slots /\ t.n \in Nat /\ t.req \in RequestShape
    BY <2>1, SlotsAssumption DEF Task
  <2> QED
    BY <2>1, <2>2 DEF RequestShape
<1>3. /\ client[s].n \in Nat /\ Last(s) \in Nat
      /\ Last(s) = client[s].n \/ (Last(s) + 1 = client[s].n /\ client[s].n \in DOMAIN runs[s]
                                   /\ runs[s][client[s].n] = 0)
  BY <1>2, LastIs
<1>4. t.n = Last(s) + 1
  BY Verdict
<1>5. SentOK(t) /\ t.n <= client[s].n /\ t.n > client[s].n + 1 - Modulus
  BY DEF SlotsIInv, WireOK, SentOK
<1>6. t.n = client[s].n /\ t.n \in DOMAIN runs[s] /\ runs[s][t.n] = 0
  BY <1>2, <1>3, <1>4, <1>5
<1>7. PICK A, B :
        /\ running' = running \cup A /\ encoded' = encoded \cup B /\ replies' = replies
        /\ Proceeds(t, 0, ok, A, B)
  <2>1. TRUE \in BOOLEAN /\ 0 \in Nat
    BY Zenon
  <2> QED
    BY <1>1, <1>2, <2>1, AfterIs
<1>8. \A a \in A : /\ a \in [task : Task, i : Nat] /\ a.task = t /\ a.i = 1
                   /\ a.i \in 1..t.req.ops - 1 /\ B = {} /\ A = {a}
  BY <1>2, <1>7 DEF Proceeds
<1>9. \A b \in B : /\ b \in [task : Task, reply : ReplyVal] /\ b.task = t
                   /\ b.reply.kind \in Ran /\ b.reply.slot = s /\ b.reply.n = t.n
                   /\ b.reply.kind = "Ok" => b.reply.results = 1
                   /\ b.reply.kind # "Failed"
                   /\ A = {} /\ B = {b}
  BY <1>2, <1>7 DEF Proceeds
<1>10. (\E a \in A : a.task = t) \/ (\E b \in B : b.task = t)
  <2>1. (\E a : a \in A) \/ (\E b : b \in B)
    BY <1>7 DEF Proceeds
  <2> QED
    BY <1>8, <1>9, <2>1
<1>11. HistoryOK
  BY DEF SlotsIInv
<1>12. /\ runs' = [q \in Slots |-> runs'[q]]
       /\ runs'[s][t.n] = 1
       /\ \A q \in Slots : DOMAIN runs'[q] = DOMAIN runs[q]
       /\ \A q \in Slots : \A n \in DOMAIN runs[q] :
             ~ (q = s /\ n = t.n) => runs'[q][n] = runs[q][n]
       /\ \A q \in Slots : runs'[q] \in [DOMAIN runs[q] -> Nat]
  <2>1. runs' = [runs EXCEPT ![s] = [runs[s] EXCEPT ![t.n] = 1]]
    BY <1>1, <1>6
  <2>2. runs'[s] = [runs[s] EXCEPT ![t.n] = 1] /\ \A q \in Slots \ {s} : runs'[q] = runs[q]
    BY <1>2, <1>11, <2>1 DEF HistoryOK
  <2>3. runs' = [q \in Slots |-> runs'[q]]
    BY <1>11, <2>1 DEF HistoryOK
  <2>4. /\ runs'[s] \in [DOMAIN runs[s] -> Nat] /\ runs'[s][t.n] = 1
        /\ \A n \in DOMAIN runs[s] : n # t.n => runs'[s][n] = runs[s][n]
    BY <1>2, <1>6, <1>11, <2>2 DEF HistoryOK
  <2> QED
    BY <1>2, <1>11, <2>2, <2>3, <2>4 DEF HistoryOK
<1>13. /\ done' = [q \in Slots |-> done'[q]]
       /\ done'[s][t.n] = 1
       /\ \A q \in Slots : DOMAIN done'[q] = DOMAIN runs[q]
       /\ \A q \in Slots : \A n \in DOMAIN runs[q] :
             ~ (q = s /\ n = t.n) => done'[q][n] = done[q][n]
       /\ \A q \in Slots : done'[q] \in [DOMAIN runs[q] -> Nat]
  <2>1. done' = [done EXCEPT ![s] = [done[s] EXCEPT ![t.n] = 1]]
    BY <1>1
  <2>2. done'[s] = [done[s] EXCEPT ![t.n] = 1] /\ \A q \in Slots \ {s} : done'[q] = done[q]
    BY <1>2, <1>11, <2>1 DEF HistoryOK
  <2>3. done' = [q \in Slots |-> done'[q]]
    BY <1>11, <2>1 DEF HistoryOK
  <2>4. /\ done'[s] \in [DOMAIN runs[s] -> Nat] /\ done'[s][t.n] = 1
        /\ \A n \in DOMAIN runs[s] : n # t.n => done'[s][n] = done[s][n]
    BY <1>2, <1>6, <1>11, <2>2 DEF HistoryOK
  <2> QED
    BY <1>2, <1>11, <2>2, <2>3, <2>4 DEF HistoryOK
<1>14. /\ slot'[s].seq = Seqid(t.n) /\ slot'[s].cached = NoReply
       /\ \A q \in Slots \ {s} : slot'[q] = slot[q]
       /\ slot' \in [Slots -> SlotShape]
  <2>1. slot \in [Slots -> SlotShape]
    BY DEF SlotsIInv, ShapeOK
  <2>2. [seq |-> Seqid(t.n), cached |-> NoReply] \in SlotShape
    BY <1>2, SeqidType DEF SlotShape, CachedVal, ReplyVal, NoReply
  <2> QED
    BY <1>1, <1>2, <2>1, <2>2
<1>15. UNCHANGED <<session, client, replies>>
  BY <1>1, <1>7
<1>16. wire' = wire \ {t} /\ running' = running \cup A /\ encoded' = encoded \cup B
  BY <1>1, <1>7
<1>17. overtaken \subseteq overtaken'
       /\ (s \notin overtaken' => \A r \in running \cup encoded : r.task.slot # s)
  BY <1>1
<1> HIDE DEF s, ok
<1>18. /\ Last(s)' = t.n /\ \A q \in Slots \ {s} : Last(q)' = Last(q)
       /\ \A q \in Slots : Now(q)' = Now(q)
  BY <1>2, <1>6, <1>12, <1>15 DEF Last, Now, Copy
<1>19. \A x \in Task : SentOK(x) => SentOK(x)'
  BY <1>12, <1>15 DEF SentOK, Task
<1>20. Working' = Working \cup {t}
  <2>1. Working' = {q.task : q \in running \cup A} \cup {e.task : e \in encoded \cup B}
    BY <1>16 DEF Working
  <2>2. Working = {q.task : q \in running} \cup {e.task : e \in encoded}
    BY DEF Working
  <2> QED
    BY <1>8, <1>9, <1>10, <2>1, <2>2
<1>21. /\ \A q \in running : q.task \in Working /\ q.task \in Task
       /\ \A e \in encoded : e.task \in Working /\ e.task \in Task
       /\ Working \subseteq Task /\ wire \subseteq Task
  BY DEF SlotsIInv, ShapeOK, Working
<1>22. \A x \in Working : SentOK(x) /\ runs[x.slot][x.n] = 1 /\ x \notin wire
  BY DEF SlotsIInv, WorkOK
<1>23. \A x \in Working : ~ (x.slot = s /\ x.n = t.n)
  BY <1>6, <1>22
<1>24. ShapeOK'
  BY <1>8, <1>9, <1>14, <1>15, <1>16 DEF SlotsIInv, ShapeOK
<1>25. HistoryOK'
  BY <1>11, <1>12, <1>13 DEF HistoryOK
<1>26. SeqidOK'
  <2> SUFFICES ASSUME NEW q \in Slots
               PROVE  /\ Last(q)' \in Nat /\ slot'[q].seq = Seqid(Last(q)')
                      /\ \A n \in DOMAIN runs'[q] : /\ runs'[q][n] <= 1
                                                    /\ n > Last(q)' => runs'[q][n] = 0
    BY DEF SeqidOK, Seqid
  <2>1. /\ Last(q) \in Nat /\ slot[q].seq = Seqid(Last(q))
        /\ \A n \in DOMAIN runs[q] : runs[q][n] <= 1 /\ (n > Last(q) => runs[q][n] = 0)
        /\ DOMAIN runs[q] \subseteq Nat
    BY <1>11 DEF SlotsIInv, SeqidOK, HistoryOK
  <2>2. CASE q = s
    <3>1. \A n \in DOMAIN runs[q] : n > t.n => n > Last(q) /\ n # t.n
      BY <1>2, <1>4, <2>1, <2>2
    <3> QED
      BY <1>2, <1>12, <1>14, <1>18, <2>1, <2>2, <3>1
  <2>3. CASE q # s
    BY <1>12, <1>14, <1>18, <2>1, <2>3
  <2> QED
    BY <2>2, <2>3
<1>27. WireOK'
  <2>1. \A x \in wire' : SentOK(x)'
    BY <1>16, <1>19, <1>21 DEF SlotsIInv, WireOK
  <2>2. \A x \in wire' \cup {r.task : r \in running'} :
            x \in wire \cup {r.task : r \in running}
    BY <1>8, <1>16
  <2> QED
    BY <1>15, <2>1, <2>2 DEF SlotsIInv, WireOK
<1>28. WorkOK'
  <2>1. ASSUME NEW x \in Working'
        PROVE  SentOK(x)' /\ runs'[x.slot][x.n] = 1 /\ x \notin wire'
    <3>1. CASE x = t
      BY <1>2, <1>5, <1>12, <1>16, <1>19, <3>1 DEF s
    <3>2. CASE x \in Working
      <4>1. x.slot \in Slots /\ x.n \in DOMAIN runs[x.slot]
        BY <1>21, <1>22, <3>2 DEF Task, SentOK
      <4> QED
        BY <1>12, <1>16, <1>19, <1>21, <1>22, <1>23, <3>2, <4>1
    <3> QED
      BY <1>20, <3>1, <3>2
  <2>2. /\ \A q \in running : ~ (q.task.slot = s /\ q.task.n = t.n)
        /\ \A e \in encoded : ~ (e.task.slot = s /\ e.task.n = t.n)
    BY <1>21, <1>23
  <2>3. \A q, p \in running' : q.task.slot = p.task.slot /\ q.task.n = p.task.n => q = p
    BY <1>8, <1>16, <2>2 DEF SlotsIInv, WorkOK, s
  <2>4. \A e, f \in encoded' : e.task.slot = f.task.slot /\ e.task.n = f.task.n => e = f
    BY <1>9, <1>16, <2>2 DEF SlotsIInv, WorkOK, s
  <2>5. \A q \in running' : \A e \in encoded' : ~ (q.task.slot = e.task.slot /\ q.task.n = e.task.n)
    BY <1>8, <1>9, <1>16, <2>2 DEF SlotsIInv, WorkOK, s
  <2> QED
    BY <2>1, <2>3, <2>4, <2>5 DEF WorkOK
<1>29. LoopOK'
  <2> SUFFICES ASSUME NEW q \in running'
               PROVE  q.i \in 1..q.task.req.ops - 1 /\ q.i = done'[q.task.slot][q.task.n]
    BY DEF LoopOK
  <2>1. CASE q \in A
    BY <1>8, <1>13, <2>1 DEF s
  <2>2. CASE q \in running
    <3>1. q.task.slot \in Slots /\ q.task.n \in DOMAIN runs[q.task.slot]
      BY <1>21, <1>22, <2>2 DEF Task, SentOK
    <3> QED
      BY <1>13, <1>21, <1>23, <2>2, <3>1 DEF SlotsIInv, LoopOK
  <2> QED
    BY <1>16, <2>1, <2>2
<1>30. ASSUME NEW x, x = NoReply \/ x.slot \in Slots, TrueReply(x)
       PROVE  TrueReply(x)'
  <2> SUFFICES ASSUME x.kind \in {"Ok", "Failed"}
               PROVE  Over(x.slot, x.n)' /\ x.results = done'[x.slot][x.n]
    BY DEF TrueReply
  <2>1. x.slot \in Slots
    BY <1>30 DEF NoReply
  <2>2. Over(x.slot, x.n) /\ x.results = done[x.slot][x.n]
    BY <1>30 DEF TrueReply
  <2>3. ~ (x.slot = s /\ x.n = t.n)
    BY <1>6, <2>2 DEF Over
  <2>4. \A q \in running' : ~ (q.task.slot = x.slot /\ q.task.n = x.n)
    BY <1>8, <1>16, <2>2, <2>3 DEF Over, s
  <2>5. Over(x.slot, x.n)'
    BY <1>12, <2>1, <2>2, <2>3, <2>4 DEF Over
  <2> QED
    BY <1>13, <2>1, <2>2, <2>3, <2>5 DEF Over
<1>31. \A x \in ReplyVal : x = NoReply \/ x.slot \in Slots
  BY DEF ReplyVal
<1>32. RepliesTrue'
  <2>1. ASSUME NEW e \in encoded'
        PROVE  /\ TrueReply(e.reply)' /\ e.reply.kind \in Ran
               /\ e.reply.slot = e.task.slot /\ e.reply.n = e.task.n
    <3>1. CASE e \in encoded
      BY <1>30, <1>31, <3>1 DEF SlotsIInv, RepliesTrue, ShapeOK
    <3>2. CASE e \in B
      <4>1. running' = running
        BY <1>9, <1>16, <3>2
      <4>2. Over(s, t.n)'
        BY <1>2, <1>6, <1>12, <1>21, <1>23, <4>1 DEF Over
      <4>3. TrueReply(e.reply)'
        BY <1>9, <1>13, <3>2, <4>2 DEF TrueReply
      <4> QED
        BY <1>9, <3>2, <4>3 DEF s
    <3> QED
      BY <1>16, <3>1, <3>2
  <2>2. ASSUME NEW q \in Slots PROVE TrueReply(slot[q].cached)' /\ TrueReply(client[q].answer)'
    <3>1. slot[q].cached \in ReplyVal /\ client[q].answer \in ReplyVal
      BY DEF SlotsIInv, ShapeOK, SlotShape, CachedVal, ClientShape
    <3>2. TrueReply(slot[q].cached) /\ TrueReply(client[q].answer)
      BY DEF SlotsIInv, RepliesTrue
    <3>3. ASSUME NEW x, x = slot[q].cached \/ x = client[q].answer \/ x = NoReply
          PROVE  TrueReply(x)'
      <4>1. TrueReply(NoReply)
        BY DEF TrueReply, NoReply
      <4> QED
        BY <1>30, <1>31, <3>1, <3>2, <3>3, <4>1
    <3>4. client'[q] = client[q]
      BY <1>15
    <3>5. slot'[q].cached = slot[q].cached \/ slot'[q].cached = NoReply
      BY <1>14
    <3> QED
      BY <3>3, <3>4, <3>5
  <2>3. \A p \in replies' : TrueReply(p.body)'
    BY <1>15, <1>30, <1>31 DEF SlotsIInv, RepliesTrue, ShapeOK
  <2> QED
    BY <2>1, <2>2, <2>3 DEF RepliesTrue
<1>33. Last(s) # client[s].n /\ client[s].waiting
  BY <1>2, <1>4, <1>6 DEF SlotsIInv, ForNow
<1>34. \A p \in replies : p.to.slot \in Slots \ {s}
  <2> SUFFICES ASSUME NEW p \in replies PROVE p.to.slot \in Slots \ {s}
    OBVIOUS
  <2>1. p.to.slot \in Slots
    BY DEF SlotsIInv, ShapeOK, Task
  <2>2. p.to = Now(p.to.slot) /\ Last(p.to.slot) = p.to.n
    BY DEF SlotsIInv, ForNow
  <2>3. p.to.n = client[p.to.slot].n
    BY <2>2 DEF Now, Copy
  <2> QED
    BY <1>33, <2>1, <2>2, <2>3
<1>35. ForNow'
  <2>1. \A p \in replies' : /\ p.to = Now(p.to.slot)' /\ client'[p.to.slot].waiting
                            /\ p.to \notin wire' \cup Working'
                            /\ p.body.kind # "SeqMisordered"
                            /\ session' => Last(p.to.slot)' = p.to.n
    BY <1>15, <1>16, <1>18, <1>20, <1>34 DEF SlotsIInv, ForNow, s
  <2>2. ASSUME NEW q \in Slots
        PROVE  /\ client'[q].answer.kind # "SeqMisordered"
               /\ client'[q].waiting => client'[q].n \in DOMAIN runs'[q] /\ client'[q].req \in Requests
               /\ ~ client'[q].waiting => /\ Now(q)' \notin wire' \cup Working'
                                          /\ session' => Last(q)' = client'[q].n
    <3>1. CASE q = s
      BY <1>12, <1>15, <1>33, <3>1 DEF SlotsIInv, ForNow
    <3>2. CASE q # s
      <4>1. Now(q) # t
        BY <3>2 DEF Now, Copy, s
      <4> QED
        BY <1>12, <1>15, <1>16, <1>18, <1>20, <3>2, <4>1 DEF SlotsIInv, ForNow
    <3> QED
      BY <3>1, <3>2
  <2>3. \A p, q \in replies' : p.to.slot = q.to.slot => p = q
    BY <1>15 DEF SlotsIInv, ForNow
  <2> QED
    BY <2>1, <2>2, <2>3 DEF ForNow
<1>36. OwnOK'
  <2> SUFFICES ASSUME NEW q \in Slots \ overtaken'
               PROVE  /\ \A x \in Working' : x.slot = q => x.n = Last(q)'
                      /\ slot'[q].cached # NoReply => slot'[q].cached.slot = q /\ slot'[q].cached.n = Last(q)'
                      /\ client'[q].answer.kind \in Ran => client'[q].answer.slot = q
                                                           /\ client'[q].answer.n = client'[q].n
                      /\ \A x \in replies' : x.to.slot = q /\ x.body.kind \in Ran =>
                             x.body.slot = q /\ x.body.n = x.to.n
    BY DEF OwnOK
  <2>1. q \in Slots \ overtaken
    BY <1>17
  <2>2. /\ client'[q].answer.kind \in Ran => client'[q].answer.slot = q
                                             /\ client'[q].answer.n = client'[q].n
        /\ \A x \in replies' : x.to.slot = q /\ x.body.kind \in Ran =>
               x.body.slot = q /\ x.body.n = x.to.n
    BY <1>15, <2>1 DEF SlotsIInv, OwnOK
  <2>3. CASE q = s
    <3>1. \A x \in Working : x.slot # s
      BY <1>17, <2>3 DEF Working
    <3> QED
      BY <1>14, <1>18, <1>20, <2>2, <2>3, <3>1
  <2>4. CASE q # s
    BY <1>14, <1>18, <1>20, <2>1, <2>2, <2>4 DEF SlotsIInv, OwnOK, s
  <2> QED
    BY <2>3, <2>4
<1> QED
  BY <1>24, <1>25, <1>26, <1>27, <1>28, <1>29, <1>32, <1>35, <1>36 DEF SlotsIInv

-----------------------------------------------------------------------------
(* Replies. *)

(* What a reply to the copy that the client waits on has to be. *)
Fit(t, x) ==
    /\ x \in ReplyVal /\ TrueReply(x) /\ x.kind # "SeqMisordered"
    /\ session => Last(t.slot) = t.n
    /\ t.slot \notin overtaken /\ x.kind \in Ran => x.slot = t.slot /\ x.n = t.n

(* The reply to a copy whose handling ends here. *)
LEMMA WriteReply ==
  ASSUME SlotsIInv, NEW t \in wire \cup Working, NEW x, Write(t, x),
         t = Now(t.slot) => Fit(t, x),
         t \notin wire' \cup Working', wire' \subseteq wire, Working' \subseteq Working,
         UNCHANGED <<session, client, running, runs, done, overtaken>>
  PROVE  /\ replies' \subseteq [to : Task, body : ReplyVal]
         /\ \A p \in replies' : TrueReply(p.body)'
         /\ ForNow'
         /\ \A s \in Slots \ overtaken : \A p \in replies' :
                p.to.slot = s /\ p.body.kind \in Ran => p.body.slot = s /\ p.body.n = p.to.n
<1> DEFINE new == [to |-> t, body |-> x]
<1>1. UNCHANGED <<session, client, running, runs, done, overtaken>>
  OBVIOUS
<1>2. /\ \A p \in replies' : p \in replies \/ (p = new /\ t = Now(t.slot))
  BY DEF Write, Now
<1>3. new.to = t /\ new.body = x
  OBVIOUS
<1>4. t \in Task /\ t.slot \in Slots
  BY DEF SlotsIInv, ShapeOK, Working, Task
<1> HIDE DEF new
<1>5. /\ \A s \in Slots : Last(s)' = Last(s) /\ Now(s)' = Now(s)
      /\ \A y : TrueReply(y)' = TrueReply(y)
  BY <1>1 DEF Last, Now, Copy, TrueReply, Over
<1>6. \A p \in replies : p \in [to : Task, body : ReplyVal] /\ p.to.slot \in Slots
  BY DEF SlotsIInv, ShapeOK, Task
<1>7. replies' \subseteq [to : Task, body : ReplyVal]
  <2>1. t = Now(t.slot) => new \in [to : Task, body : ReplyVal]
    BY <1>4 DEF Fit, new
  <2> QED
    BY <1>2, <1>6, <2>1
<1>8. \A p \in replies' : TrueReply(p.body)'
  BY <1>2, <1>3, <1>5 DEF SlotsIInv, RepliesTrue, Fit
<1>9. t = Now(t.slot) => client[t.slot].waiting
  BY <1>4 DEF SlotsIInv, ForNow
<1>10. t = Now(t.slot) => \A p \in replies : p.to.slot # t.slot
  BY DEF SlotsIInv, ForNow
<1>11. ASSUME NEW p \in replies'
       PROVE  /\ p.to = Now(p.to.slot)' /\ client'[p.to.slot].waiting
              /\ p.to \notin wire' \cup Working'
              /\ p.body.kind # "SeqMisordered"
              /\ session' => Last(p.to.slot)' = p.to.n
  <2>1. CASE p \in replies
    BY <1>1, <1>5, <1>6, <2>1 DEF SlotsIInv, ForNow
  <2>2. CASE p = new /\ t = Now(t.slot)
    BY <1>1, <1>3, <1>4, <1>5, <1>9, <2>2 DEF Fit
  <2> QED
    BY <1>2, <2>1, <2>2
<1>12. \A p, q \in replies' : p.to.slot = q.to.slot => p = q
  BY <1>2, <1>3, <1>10 DEF SlotsIInv, ForNow
<1>13. \A s \in Slots : /\ client'[s].answer.kind # "SeqMisordered"
                        /\ client'[s].waiting => client'[s].n \in DOMAIN runs'[s] /\ client'[s].req \in Requests
                        /\ ~ client'[s].waiting => /\ Now(s)' \notin wire' \cup Working'
                                                   /\ session' => Last(s)' = client'[s].n
  BY <1>1, <1>5 DEF SlotsIInv, ForNow
<1>14. ForNow'
  BY <1>11, <1>12, <1>13 DEF ForNow
<1>15. \A s \in Slots \ overtaken : \A p \in replies' :
          p.to.slot = s /\ p.body.kind \in Ran => p.body.slot = s /\ p.body.n = p.to.n
  BY <1>2, <1>3 DEF SlotsIInv, OwnOK, Fit
<1> QED
  BY <1>7, <1>8, <1>14, <1>15

(* SEQUENCE does not let a copy run: a resend is answered from the cache,  *)
(* or told that there is nothing there.                                    *)
LEMMA RefuseStep ==
  ASSUME SlotsIInv, NEW t \in wire, Sequence(t),
         ~ (session /\ SeqStatus(t.slot, Seqid(t.n)) = "New")
  PROVE  SlotsIInv'
<1> DEFINE x == Refusal(t)
<1>1. /\ wire' = wire \ {t} /\ Write(t, x)
      /\ UNCHANGED <<session, client, slot, running, encoded, runs, done, overtaken>>
  BY DEF Sequence
<1>2. t \in Task /\ t.slot \in Slots /\ t.n \in Nat
  BY DEF SlotsIInv, ShapeOK, Task
<1>3. /\ \A k \in Answers, m \in Nat :
            LET y == Reply(t, k, m)
            IN  y \in ReplyVal /\ y.kind = k /\ y.slot = t.slot /\ y.n = t.n /\ y.results = m
  BY <1>2 DEF Reply, ReplyVal
<1>4. t = Now(t.slot) => Fit(t, x)
  <2> SUFFICES ASSUME t = Now(t.slot) PROVE Fit(t, x)
    OBVIOUS
  <2>1. t.n = client[t.slot].n
    BY DEF Now, Copy
  <2>2. session => SeqStatus(t.slot, Seqid(t.n)) # "Misordered" /\ Last(t.slot) = t.n
    BY <2>1, Verdict
  <2>3. \A k \in {"BadSession", "RetryUncachedRep", "ReqTooBig"}, m \in {0, 1} : Fit(t, Reply(t, k, m))
    BY <1>3, <2>2 DEF Fit, TrueReply, Answers, Ran
  <2>4. session /\ slot[t.slot].cached # NoReply => Fit(t, slot[t.slot].cached)
    <3>1. slot[t.slot].cached \in ReplyVal /\ TrueReply(slot[t.slot].cached)
      BY <1>2 DEF SlotsIInv, ShapeOK, SlotShape, CachedVal, RepliesTrue
    <3>2. slot[t.slot].cached.kind # "SeqMisordered"
      BY <1>2 DEF SlotsIInv, ShapeOK, SlotShape, CachedVal, Ran
    <3>3. t.slot \notin overtaken /\ slot[t.slot].cached # NoReply =>
             slot[t.slot].cached.slot = t.slot /\ slot[t.slot].cached.n = Last(t.slot)
      BY <1>2 DEF SlotsIInv, OwnOK
    <3> QED
      BY <2>2, <3>1, <3>2, <3>3 DEF Fit
  <2> QED
    BY <2>2, <2>3, <2>4 DEF Refusal, Told
<1> HIDE DEF x
<1>5. Working' = Working /\ t \notin Working
  BY <1>1 DEF SlotsIInv, WorkOK, Working
<1>6. /\ replies' \subseteq [to : Task, body : ReplyVal]
      /\ \A p \in replies' : TrueReply(p.body)'
      /\ ForNow'
      /\ \A s \in Slots \ overtaken : \A p \in replies' :
             p.to.slot = s /\ p.body.kind \in Ran => p.body.slot = s /\ p.body.n = p.to.n
  <2>1. t \in wire \cup Working /\ t \notin wire' \cup Working'
        /\ wire' \subseteq wire /\ Working' \subseteq Working
    BY <1>1, <1>5
  <2> QED
    BY <1>1, <1>4, <2>1, WriteReply
<1>7. UNCHANGED <<session, client, slot, running, encoded, runs, done, overtaken>>
      /\ wire' \subseteq wire
  BY <1>1
<1>8. /\ \A s \in Slots : Last(s)' = Last(s)
      /\ \A y : (TrueReply(y)' = TrueReply(y)) /\ (SentOK(y)' = SentOK(y))
  BY <1>7 DEF Last, TrueReply, Over, SentOK
<1>9. ShapeOK' /\ HistoryOK' /\ LoopOK'
  BY <1>6, <1>7 DEF SlotsIInv, ShapeOK, HistoryOK, LoopOK
<1>10. SeqidOK' /\ WireOK' /\ WorkOK'
  BY <1>5, <1>7, <1>8 DEF SlotsIInv, SeqidOK, WireOK, WorkOK
<1>11. RepliesTrue'
  BY <1>6, <1>7, <1>8 DEF SlotsIInv, RepliesTrue
<1>12. OwnOK'
  BY <1>5, <1>6, <1>7, <1>8 DEF SlotsIInv, OwnOK
<1> QED
  BY <1>6, <1>9, <1>10, <1>11, <1>12 DEF SlotsIInv

(* The reply of a COMPOUND that ran is cached and written. *)
LEMMA CacheStep ==
  ASSUME SlotsIInv, NEW e \in encoded, CacheSlotReply(e)
  PROVE  SlotsIInv'
<1> DEFINE t == e.task
           s == t.slot
           x == e.reply
<1>1. /\ encoded' = encoded \ {e} /\ Write(t, x)
      /\ slot' = slot \/ slot' = [slot EXCEPT ![s].cached = x]
      /\ UNCHANGED <<session, client, wire, running, runs, done, overtaken>>
  BY DEF CacheSlotReply
<1>2. /\ t \in Task /\ s \in Slots /\ t.n \in Nat /\ t \in Working /\ x \in ReplyVal
  BY DEF SlotsIInv, ShapeOK, Working, Task
<1>3. /\ TrueReply(x) /\ x.kind \in Ran /\ x.slot = s /\ x.n = t.n
  BY DEF SlotsIInv, RepliesTrue
<1>4. SentOK(t) /\ runs[s][t.n] = 1 /\ t \notin wire
  BY <1>2 DEF SlotsIInv, WorkOK
<1> HIDE DEF t, s, x
<1>5. t = Now(t.slot) => Fit(t, x)
  <2> SUFFICES ASSUME t = Now(t.slot) PROVE Fit(t, x)
    OBVIOUS
  <2>1. t.n = client[s].n
    BY DEF Now, Copy, s
  <2>2. Last(s) = t.n
    BY <1>4, <2>1 DEF Last
  <2> QED
    BY <1>2, <1>3, <2>2 DEF Fit, Ran, s
<1>6. Working' \subseteq Working /\ t \notin Working'
  <2>1. Working' \subseteq Working
    BY <1>1 DEF Working
  <2>2. \A r \in running' : r.task # t
    BY <1>1 DEF SlotsIInv, WorkOK, t
  <2>3. \A f \in encoded' : f.task # t
    BY <1>1 DEF SlotsIInv, WorkOK, t
  <2> QED
    BY <2>1, <2>2, <2>3 DEF Working
<1>7. UNCHANGED <<session, client, wire, running, runs, done, overtaken>>
      /\ encoded' \subseteq encoded
  BY <1>1
<1>8. /\ replies' \subseteq [to : Task, body : ReplyVal]
      /\ \A p \in replies' : TrueReply(p.body)'
      /\ ForNow'
      /\ \A q \in Slots \ overtaken : \A p \in replies' :
             p.to.slot = q /\ p.body.kind \in Ran => p.body.slot = q /\ p.body.n = p.to.n
  <2>1. t \in wire \cup Working /\ t \notin wire' \cup Working'
        /\ wire' \subseteq wire /\ Working' \subseteq Working
    BY <1>1, <1>2, <1>4, <1>6
  <2> QED
    BY <1>1, <1>5, <1>7, <2>1, WriteReply
<1>9. /\ slot' \in [Slots -> SlotShape]
      /\ \A q \in Slots : slot'[q].seq = slot[q].seq
      /\ \A q \in Slots : slot'[q].cached = slot[q].cached \/ (q = s /\ slot'[q].cached = x)
  <2>1. slot \in [Slots -> SlotShape]
    BY DEF SlotsIInv, ShapeOK
  <2>2. CASE slot' = slot
    BY <2>1, <2>2
  <2>3. CASE slot' = [slot EXCEPT ![s].cached = x]
    <3>1. slot[s] \in SlotShape /\ x \in CachedVal
      BY <1>2, <1>3, <2>1 DEF CachedVal
    <3>2. slot'[s] = [slot[s] EXCEPT !.cached = x] /\ \A q \in Slots \ {s} : slot'[q] = slot[q]
      BY <1>2, <2>1, <2>3
    <3>3. slot'[s] \in SlotShape /\ slot'[s].seq = slot[s].seq /\ slot'[s].cached = x
      BY <3>1, <3>2 DEF SlotShape
    <3>4. slot' \in [Slots -> SlotShape]
      BY <1>2, <2>1, <2>3, <3>2, <3>3
    <3> QED
      BY <3>2, <3>3, <3>4
  <2> QED
    BY <1>1, <2>2, <2>3
<1>10. /\ \A q \in Slots : Last(q)' = Last(q)
       /\ \A y : (TrueReply(y)' = TrueReply(y)) /\ (SentOK(y)' = SentOK(y))
  BY <1>7 DEF Last, TrueReply, Over, SentOK
<1>11. ShapeOK' /\ HistoryOK' /\ LoopOK'
  BY <1>7, <1>8, <1>9 DEF SlotsIInv, ShapeOK, HistoryOK, LoopOK
<1>12. SeqidOK'
  <2>1. \A q \in Slots : slot'[q].seq = Seqid(Last(q)')
    BY <1>9, <1>10 DEF SlotsIInv, SeqidOK
  <2> QED
    BY <1>7, <1>10, <2>1 DEF SlotsIInv, SeqidOK, Seqid
<1>13. WireOK' /\ WorkOK'
  <2>1. WireOK'
    BY <1>7, <1>10 DEF SlotsIInv, WireOK
  <2>2. WorkOK'
    BY <1>6, <1>7, <1>10 DEF SlotsIInv, WorkOK
  <2> QED
    BY <2>1, <2>2
<1>14. RepliesTrue'
  <2>1. \A q \in Slots : TrueReply(slot'[q].cached)
    BY <1>3, <1>9 DEF SlotsIInv, RepliesTrue
  <2>2. \A q \in Slots : TrueReply(slot[q].cached)' /\ TrueReply(client[q].answer)'
    BY <1>7, <1>10, <2>1 DEF SlotsIInv, RepliesTrue
  <2> QED
    BY <1>7, <1>8, <1>10, <2>2 DEF SlotsIInv, RepliesTrue
<1>15. OwnOK'
  <2> SUFFICES ASSUME NEW q \in Slots \ overtaken
               PROVE  /\ \A y \in Working' : y.slot = q => y.n = Last(q)'
                      /\ slot'[q].cached # NoReply => slot'[q].cached.slot = q /\ slot'[q].cached.n = Last(q)'
                      /\ client'[q].answer.kind \in Ran => client'[q].answer.slot = q
                                                           /\ client'[q].answer.n = client'[q].n
                      /\ \A y \in replies' : y.to.slot = q /\ y.body.kind \in Ran =>
                             y.body.slot = q /\ y.body.n = y.to.n
    BY <1>7 DEF OwnOK
  <2>1. \A y \in Working : y.slot = q => y.n = Last(q)
    BY DEF SlotsIInv, OwnOK
  <2>2. q = s => x.slot = q /\ x.n = Last(q)
    BY <1>2, <1>3, <2>1 DEF s
  <2>3. slot'[q].cached # NoReply => slot'[q].cached.slot = q /\ slot'[q].cached.n = Last(q)
    BY <1>9, <2>2 DEF SlotsIInv, OwnOK
  <2>4. client'[q].answer.kind \in Ran => client'[q].answer.slot = q /\ client'[q].answer.n = client'[q].n
    BY <1>7 DEF SlotsIInv, OwnOK
  <2> QED
    BY <1>6, <1>8, <1>10, <2>1, <2>3, <2>4
<1> QED
  BY <1>8, <1>11, <1>12, <1>13, <1>14, <1>15 DEF SlotsIInv

-----------------------------------------------------------------------------
(* The invariant, and what it says. *)

LEMMA SlotsStep ==
  ASSUME SlotsIInv, [Next]_vars
  PROVE  SlotsIInv'
<1>1. CASE \E s \in Slots, q \in Requests : Send(s, q)
  BY <1>1, SendStep
<1>2. CASE \E s \in Slots : Resend(s)
  BY <1>2, ResendStep
<1>3. CASE \E p \in replies : Accept(p)
  BY <1>3, AcceptStep
<1>4. CASE \E t \in wire : Sequence(t)
  BY <1>4, NewStep, RefuseStep
<1>5. CASE \E r \in running, ok \in BOOLEAN : Execute(r, ok)
  BY <1>5, ExecuteStep
<1>6. CASE \E e \in encoded : CacheSlotReply(e)
  BY <1>6, CacheStep
<1>7. CASE DestroySession
  BY <1>7, DestroyStep
<1>8. CASE UNCHANGED vars
  <2>1. UNCHANGED <<session, slot, client, wire, running, encoded, replies, runs, done, overtaken>>
    BY <1>8 DEF vars
  <2>2. Working' = Working /\ \A s : Last(s)' = Last(s) /\ Now(s)' = Now(s)
    BY <2>1 DEF Working, Last, Now, Copy
  <2>3. \A y : (TrueReply(y)' = TrueReply(y)) /\ (SentOK(y)' = SentOK(y))
    BY <2>1 DEF TrueReply, Over, SentOK
  <2>4. ShapeOK' /\ HistoryOK' /\ LoopOK'
    BY <2>1 DEF SlotsIInv, ShapeOK, HistoryOK, LoopOK
  <2>5. SeqidOK' /\ WireOK' /\ WorkOK'
    BY <2>1, <2>2, <2>3 DEF SlotsIInv, SeqidOK, WireOK, WorkOK
  <2>6. RepliesTrue' /\ ForNow' /\ OwnOK'
    BY <2>1, <2>2, <2>3 DEF SlotsIInv, RepliesTrue, ForNow, OwnOK
  <2> QED
    BY <2>4, <2>5, <2>6 DEF SlotsIInv
<1> QED
  BY <1>1, <1>2, <1>3, <1>4, <1>5, <1>6, <1>7, <1>8 DEF Next, Serve

LEMMA SlotsIInvIsEnough ==
  ASSUME SlotsIInv
  PROVE  SlotsInv /\ TrueAnswer
<1>1. ASSUME NEW t \in Task, t.n \in DOMAIN runs[t.slot]
      PROVE  t \in Copies
  <2>1. t.slot \in Slots
    BY DEF Task
  <2>2. t.n \in UNION {DOMAIN runs[s] : s \in Slots}
    BY <1>1, <2>1
  <2> QED
    BY <2>2 DEF Task, Copies
<1>2. ASSUME NEW s \in Slots
      PROVE  slot[s].seq \in 0..Modulus - 1 /\ \E n \in 0..client[s].n : slot[s].seq = Seqid(n)
  <2>1. slot[s].seq = Seqid(Last(s)) /\ Last(s) \in Nat
    BY DEF SlotsIInv, SeqidOK
  <2>2. Last(s) \in 0..client[s].n
    BY LastIs
  <2> QED
    BY <2>1, <2>2, SeqidType
<1>3. wire \subseteq Copies
  BY <1>1 DEF SlotsIInv, ShapeOK, WireOK, SentOK
<1>4. Working \subseteq Copies
  BY <1>1 DEF SlotsIInv, ShapeOK, WorkOK, Working, SentOK
<1>5. \A p \in replies : p.to \in Copies
  <2> SUFFICES ASSUME NEW p \in replies PROVE p.to \in Copies
    OBVIOUS
  <2>1. p.to \in Task /\ p.to.slot \in Slots
    BY DEF SlotsIInv, ShapeOK, Task
  <2>2. p.to = Now(p.to.slot) /\ client[p.to.slot].n \in DOMAIN runs[p.to.slot]
    BY <2>1 DEF SlotsIInv, ForNow
  <2>3. p.to.n = client[p.to.slot].n
    BY <2>2 DEF Now, Copy
  <2> QED
    BY <1>1, <2>1, <2>2, <2>3
<1>6. SlotsTypeOK
  <2>1. \A r \in running : r.task \in Copies /\ r.i \in 1..r.task.req.ops - 1
    BY <1>4 DEF Working, SlotsIInv, LoopOK
  <2>2. \A e \in encoded : e.task \in Copies /\ e.reply.kind \in Ran
    BY <1>4 DEF Working, SlotsIInv, RepliesTrue
  <2>3. session \in BOOLEAN
    BY DEF SlotsIInv, ShapeOK
  <2> QED
    BY <1>2, <1>3, <1>5, <2>1, <2>2, <2>3 DEF SlotsTypeOK
<1>7. AtMostOnce
  BY DEF SlotsIInv, SeqidOK, AtMostOnce
<1>8. OwnAnswer
  BY DEF SlotsIInv, OwnOK, OwnAnswer, Own
<1>9. ToldWhatRan
  BY DEF SlotsIInv, OwnOK, RepliesTrue, TrueReply, ToldWhatRan, Ran
<1>10. NeverMisordered
  BY DEF SlotsIInv, ForNow, NeverMisordered
<1> QED
  BY <1>6, <1>7, <1>8, <1>9, <1>10 DEF SlotsInv, TrueAnswer

(* The invariant of the slot table holds in every state of the server and  *)
(* its client.                                                             *)
THEOREM SlotsInvariant == Spec => []SlotsIInv
<1>1. Init => SlotsIInv
  BY SlotsInit
<1>2. SlotsIInv /\ [Next]_vars => SlotsIInv'
  BY SlotsStep
<1> QED
  BY <1>1, <1>2, PTL DEF Spec

(* process_sequence: whatever copies of a request arrive, in whatever      *)
(* order and however late, it runs at most once, for every modulus of the  *)
(* seqids, every number of slots, of requests and of resends.              *)
THEOREM RequestsRunOnce == Spec => []SlotsInv
<1>1. SlotsIInv => SlotsInv
  BY SlotsIInvIsEnough
<1> QED
  BY <1>1, SlotsInvariant, PTL

(* The reply cache and the COMPOUND loop: a client is answered with the    *)
(* reply of its own request and with as many results as took effect on a   *)
(* slot that was never overtaken, and never that it miscounted.            *)
THEOREM AnswersAreTrue == Spec => []TrueAnswer
<1>1. SlotsIInv => TrueAnswer
  BY SlotsIInvIsEnough
<1> QED
  BY <1>1, SlotsInvariant, PTL

=============================================================================

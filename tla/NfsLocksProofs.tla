--------------------------- MODULE NfsLocksProofs ---------------------------
(***************************************************************************)
(* The byte-range locks, for every number of clients, owners, threads,     *)
(* ranges and locks and for every width of the offsets.                    *)
(***************************************************************************)
EXTENDS NfsLocks, Integers, TLAPS, FiniteSetTheorems, WellFoundedInduction

(* A range that ends inside the file. *)
Plain(r) == r \in Range64 /\ r.length # 0 /\ r.offset + r.length <= TO_EOF

-----------------------------------------------------------------------------
(* What the threads have left to do.  A handler's list has a map operation *)
(* in progress at most at its head: push and row belong to an entry that   *)
(* is in the table already, unindex, dropfh and unrow to one that has left *)
(* it.                                                                     *)

AskOps == {"check", "allocate", "register", "trim", "carve", "unindex", "dropfh", "unrow",
           "insert", "push", "row"}

RetireOps == {"sessions", "record", "strip", "remove", "purge", "unindex", "dropfh", "unrow"}

KeyOps == {"carve", "remove", "unindex", "unrow", "push"}

BareOps == {"allocate", "register", "trim", "dropfh", "sessions", "record", "strip", "purge"}

LaterOps == {"register", "trim", "carve", "insert", "record", "strip", "remove", "purge"}

Ops == [op : {"check"}, new : BOOLEAN] \cup [op : BareOps] \cup [op : KeyOps, key : Nat]
         \cup [op : {"insert"}, lock : LockVals] \cup [op : {"row"}, key : Nat, val : LockVals]

Asks == [kind : {"lock", "locku"}, asker : Owners, owner : Owners,
         type : LockTypes \cup {"none"}, range : Range64, sid : Nat, todo : Seq(Ops)]

Retires == [kind : {"retire"}, client : Clients, todo : Seq(Ops)]

Works == {Idle} \cup Asks \cup Retires

Todo(t) == thr[t].todo

(* One operation x of the work W, when the table is L and the next key K:  *)
(* requests of this kind have it, and the key it is about has been minted. *)
OpOK(W, x, L, K) ==
    /\ W.kind \in {"lock", "locku"} => x.op \in AskOps
    /\ W.kind = "retire" => x.op \in RetireOps
    /\ x.op \in KeyOps \cup {"row"} => x.key \in 1 .. K - 1
    /\ x.op = "check" => W.kind = "lock"
    /\ x.op \in {"unindex", "unrow"} => x.key \notin DOMAIN L
    /\ x.op = "insert" => x.lock.owner = W.owner
    /\ x.op = "remove" /\ x.key \in DOMAIN L => ClientOf[L[x.key].owner] = W.client

(* Where in the list an operation may be. *)
ListOK(q) ==
    /\ \A i \in 3 .. Len(q) : q[i].op \in LaterOps
    /\ Len(q) >= 2 =>
          \/ q[1].op = "push" /\ q[2].op = "row" /\ q[2].key = q[1].key
          \/ q[1].op = "unindex" /\ q[2].op = "unrow" /\ q[2].key = q[1].key
          \/ q[1].op = "dropfh" /\ q[2].op = "unrow"
          \/ q[1].op \notin {"push", "unindex", "dropfh", "check"} /\ q[2].op \in LaterOps
    /\ Len(q) = 1 => q[1].op \notin {"push", "unindex", "dropfh"}

WorkOK(W, L, K) ==
    /\ W \in Works
    /\ W.kind = "lock" => W.type \in LockTypes
    /\ \A i \in 1 .. Len(W.todo) : OpOK(W, W.todo[i], L, K)
    /\ ListOK(W.todo)

ThreadsOK ==
    /\ thr \in [Threads -> Works]
    /\ \A t \in Threads : WorkOK(thr[t], locks, keyCtr)

(* The rows of the database, each table's with keys of its own. *)
RowIn(k, v, K, S) ==
    \/ k \in {"lock"} \X (1 .. K - 1) /\ v \in LockVals
    \/ k \in {"owner"} \X Nat /\ v \in Owners
    \/ k \in {"stateid"} \X (1 .. S - 1) /\ v \in Clients
    \/ k \in {"client"} \X Clients /\ v = k[2]

DbOK(d, K, S) == \A k \in DOMAIN d : RowIn(k, d[k], K, S)

TablesOK ==
    /\ keyCtr \in Nat \ {0} /\ sidCtr \in Nat \ {0}
    /\ DOMAIN locks \subseteq 1 .. keyCtr - 1
    /\ \A k \in DOMAIN locks : locks[k] \in LockVals
    /\ index \in Seq(1 .. keyCtr - 1)
    /\ DOMAIN owners \subseteq Nat
    /\ \A s \in DOMAIN owners : owners[s] \in Owners
    /\ DOMAIN states \subseteq 1 .. sidCtr - 1
    /\ \A s \in DOMAIN states : states[s] \in Clients
    /\ live \subseteq Clients /\ recs \subseteq Clients
    /\ grace \in BOOLEAN
    /\ told \in [Owners -> [U64 -> LockTypes \cup {"none"}]]
    /\ known \in [Owners -> Nat]

(* The count is exact at every step, not only between requests. *)
Entries(c) == {k \in DOMAIN locks : ClientOf[locks[k].owner] = c}

CountOK == count \in [Clients -> Nat] /\ \A c \in Clients : count[c] = Cardinality(Entries(c))

(* What holds however requests and teardowns overlap. *)
AnyInv == TablesOK /\ ThreadsOK /\ CountOK /\ DbOK(rows, keyCtr, sidCtr)
          /\ DbOK(disk, keyCtr, sidCtr)

-----------------------------------------------------------------------------
(* One request at a time.  The list is what the thread at work has left,   *)
(* or empty when none is: the map operations in progress are its first.    *)

Pushing(q, k) == Len(q) >= 1 /\ q[1].op = "push" /\ q[1].key = k

Rowing(q, k) == Len(q) >= 1 /\ q[1].op \in {"push", "row"} /\ q[1].key = k

Unlisting(q, k) == Len(q) >= 1 /\ q[1].op = "unindex" /\ q[1].key = k

Unrowing(q, k) == \/ Len(q) >= 1 /\ q[1].op \in {"unindex", "unrow"} /\ q[1].key = k
                  \/ Len(q) >= 2 /\ q[1].op = "dropfh" /\ q[2].key = k

(* The index has an entry from its push to its unindex, once. *)
Lists(q, L, ix, K) ==
    /\ \A k \in 1 .. K - 1 : (\E i \in 1 .. Len(ix) : ix[i] = k)
          <=> (k \in DOMAIN L /\ ~ Pushing(q, k)) \/ Unlisting(q, k)
    /\ \A i, j \in 1 .. Len(ix) : ix[i] = ix[j] => i = j
    /\ Len(q) >= 1 /\ q[1].op = "dropfh" => ix = <<>>

LockRow(d, k) == <<"lock", k>> \in DOMAIN d

(* The database has its row from its row to its unrow. *)
Mirrors(q, L, d, K) ==
    /\ \A k \in 1 .. K - 1 : LockRow(d, k) <=> (k \in DOMAIN L /\ ~ Rowing(q, k)) \/ Unrowing(q, k)
    /\ \A k \in DOMAIN L : LockRow(d, k) => d[<<"lock", k>>] = L[k]
    /\ \A i \in 1 .. Len(q) :
          /\ q[i].op \in {"push", "row"} => q[i].key \in DOMAIN L
          /\ q[i].op = "row" => q[i].val = L[q[i].key]

Exact(q) == Lists(q, locks, index, keyCtr) /\ Mirrors(q, locks, rows, keyCtr)

Alone(t) == \A u \in Threads \ {t} : thr[u] = Idle

OneInv ==
    ~ overlap => \/ (\A u \in Threads : thr[u] = Idle) /\ Exact(<<>>)
                 \/ \E t \in Threads : Alone(t) /\ Exact(Todo(t))

(* The other tables and their rows are written together. *)
RegFor(d, O, S, R) ==
    /\ \A s \in Nat : <<"owner", s>> \in DOMAIN d <=> s \in DOMAIN O
    /\ \A s \in DOMAIN O : d[<<"owner", s>>] = O[s]
    /\ \A s \in Nat : <<"stateid", s>> \in DOMAIN d <=> s \in DOMAIN S
    /\ \A s \in DOMAIN S : d[<<"stateid", s>>] = S[s]
    /\ \A c \in Clients : <<"client", c>> \in DOMAIN d <=> c \in R

RegOK == RegFor(rows, owners, states, recs)

(* Two locks that can both be held. *)
Compatible(a, b) ==
    a.owner # b.owner /\ Bytes(a.range) \cap Bytes(b.range) # {}
        => a.type = "read" /\ b.type = "read"

RowsCompatible(d) ==
    \A j, k \in Nat : LockRow(d, j) /\ LockRow(d, k) => Compatible(d[<<"lock", j>>], d[<<"lock", k>>])

(* Whatever is in the table or on its way into it is compatible. *)
PairsOK(L) == \A j, k \in DOMAIN L : Compatible(L[j], L[k])

Claims(q, L) ==
    \A i \in 1 .. Len(q) : q[i].op = "insert" => \A k \in DOMAIN L : Compatible(q[i].lock, L[k])

AllClaims(L) == \A t \in Threads : Claims(Todo(t), L)

ClaimsOK ==
    ~ overlap => /\ PairsOK(locks) /\ AllClaims(locks)
                 /\ RowsCompatible(rows) /\ RowsCompatible(disk)

(* Every range ends inside the file. *)
PlainLocks(L) == \A k \in DOMAIN L : Plain(L[k].range)

PlainOps(q) ==
    \A i \in 1 .. Len(q) : /\ q[i].op = "insert" => Plain(q[i].lock.range)
                           /\ q[i].op = "row" => Plain(q[i].val.range)

PlainThreads ==
    \A t \in Threads : /\ thr[t].kind \in {"lock", "locku"} => Plain(thr[t].range)
                       /\ PlainOps(Todo(t))

PlainRows(d) == \A k \in Nat : LockRow(d, k) => Plain(d[<<"lock", k>>].range)

PlainOK == PlainLocks(locks) /\ PlainThreads /\ PlainRows(rows) /\ PlainRows(disk)

-----------------------------------------------------------------------------
(* One request at a time and nothing lost: what the work W in progress,    *)
(* or Idle, makes of the stateids and of whose the locks are.              *)

Valid(s, o, O) == s \in DOMAIN O /\ O[s] = o

(* The stateid a client uses is registered to the owner it uses it for. *)
Knows(K, O) == \A o \in Owners : K[o] # 0 => Valid(K[o], o, O)

Tears(W, c) == W.kind = "retire" /\ W.client = c

Has(q, op) == \E i \in 1 .. Len(q) : q[i].op = op

(* A registered stateid is in the stateid table, until a teardown that has *)
(* its registration to purge.                                              *)
Minted(W, O, S, n) ==
    \A s \in DOMAIN O :
        /\ s \in 1 .. n - 1
        /\ IF Tears(W, ClientOf[O[s]])
           THEN Has(W.todo, "purge")
           ELSE s \in DOMAIN S /\ S[s] = ClientOf[O[s]]

Clears(q, k) == \E i \in 1 .. Len(q) : q[i].op = "strip" \/ (q[i].op = "remove" /\ q[i].key = k)

(* A lock is that of a client that is there and knows the stateid to       *)
(* release it by, or will with the reply; or a teardown has it to remove.  *)
Secured(W, L, R, K, O) ==
    \A k \in DOMAIN L :
        IF Tears(W, ClientOf[L[k].owner])
        THEN Clears(W.todo, k)
        ELSE /\ ClientOf[L[k].owner] \in R
             /\ \/ K[L[k].owner] # 0
                \/ W.kind \in {"lock", "locku"} /\ Valid(W.sid, L[k].owner, O)

(* The stateid of a LOCK or a LOCKU at each of its steps. *)
SidOK(W, K, O, S) ==
    LET q     == W.todo
        at(o) == Len(q) >= 1 /\ q[1].op = o
    IN  /\ at("check") => W.sid = (IF q[1].new THEN 0 ELSE K[W.asker]) /\ (~ q[1].new => W.sid # 0)
        /\ at("allocate") => W.sid = 0
        /\ at("register") => W.sid \in DOMAIN S /\ W.sid \notin DOMAIN O /\ S[W.sid] = ClientOf[W.owner]
        /\ ~ at("check") /\ ~ at("allocate") /\ ~ at("register") => Valid(W.sid, W.owner, O)

(* A registration follows its allocation, and a purge what it purges. *)
Ordered(q) ==
    /\ \A i \in 2 .. Len(q) : q[i].op = "register" => i = 2 /\ q[1].op = "allocate"
    /\ Len(q) >= 1 /\ q[1].op = "allocate" => Len(q) >= 2 /\ q[2].op = "register"
    /\ \A i, j \in 1 .. Len(q) : i < j /\ q[i].op = "purge" => q[j].op \notin {"strip", "remove"}

AskOK(W, V, K, O, S) ==
    W.kind \in {"lock", "locku"} =>
        W.owner = W.asker /\ ClientOf[W.asker] \in V /\ SidOK(W, K, O, S)

RetireOK(W, V, K) ==
    W.kind = "retire" /\ (W.client \in V \/ \E o \in Owners : ClientOf[o] = W.client /\ K[o] # 0)
        => Len(W.todo) >= 1 /\ W.todo[1].op = "sessions"

(* A lock row has the registration of its owner with it. *)
RowNamed(d, k) ==
    \E s \in Nat : <<"owner", s>> \in DOMAIN d /\ d[<<"owner", s>>] = d[<<"lock", k>>].owner

RegRows(d) == \A k \in Nat : LockRow(d, k) => RowNamed(d, k)

Holds(W) ==
    /\ Knows(known, owners) /\ Minted(W, owners, states, sidCtr)
    /\ Secured(W, locks, recs, known, owners) /\ live \subseteq recs
    /\ Ordered(W.todo) /\ AskOK(W, live, known, owners, states) /\ RetireOK(W, live, known)

HoldFor(W) == Holds(W) /\ RegRows(rows) /\ RegRows(disk)

HoldInv ==
    ~ overlap /\ ~ lost => \/ (\A u \in Threads : thr[u] = Idle) /\ HoldFor(Idle)
                           \/ \E t \in Threads : Alone(t) /\ HoldFor(thr[t])

-----------------------------------------------------------------------------
(* What the replies said, byte by byte.  The operations left, in whatever  *)
(* order, are a set Z; b is a byte of the file and o an owner.             *)

In(q) == {q[i] : i \in 1 .. Len(q)}

Gives(l, o, b) == l.owner = o /\ b \in Bytes(l.range)

Here(L, o, b, x) == \E k \in DOMAIN L : Gives(L[k], o, b) /\ L[k].type = x

Due(Z, o, b, x) == \E z \in Z : z.op = "insert" /\ Gives(z.lock, o, b) /\ z.lock.type = x

(* The entry k is one the trim has yet to look at. *)
Carvable(Z, k) ==
    \E z \in Z : z.op = "trim" \/ (z.op = "check" /\ ~ z.new) \/ (z.op = "carve" /\ z.key = k)

Checking(Z) == \E z \in Z : z.op = "check"

(* The bytes the request is about. *)
Asked(W, o, b) == W.kind \in {"lock", "locku"} /\ o = W.owner /\ b \in Bytes(W.range)

(* The owner was told m: it has that mode, or is about to get it back. *)
AsTold(Z, L, m, o, b) == \A x \in LockTypes : m = x <=> Here(L, o, b, x) \/ Due(Z, o, b, x)

(* What the owner has of the bytes it asks about is what it will be told,  *)
(* or is still to be carved; and a LOCK that was granted puts it there.    *)
AsAsked(W, Z, L, o, b) ==
    /\ \A k \in DOMAIN L : Gives(L[k], o, b) => Carvable(Z, k) \/ L[k].type = W.type
    /\ ~ Checking(Z) =>
          /\ \A x \in LockTypes : Due(Z, o, b, x) => x = W.type
          /\ W.kind = "lock" =>
                \/ Due(Z, o, b, W.type)
                \/ \E k \in DOMAIN L : /\ Gives(L[k], o, b) /\ L[k].type = W.type
                                       /\ ~ Carvable(Z, k)

Truth(W, Z, L, R, M) ==
    \A o \in Owners : \A b \in U64 : ClientOf[o] \in R /\ ~ Tears(W, ClientOf[o]) =>
        /\ ~ Asked(W, o, b) \/ Checking(Z) => AsTold(Z, L, M[o][b], o, b)
        /\ Asked(W, o, b) => AsAsked(W, Z, L, o, b)

(* A teardown takes the record, too. *)
Leaves(W, R) == W.kind = "retire" => Has(W.todo, "record") \/ W.client \notin R

TrimFirst(q) == \A i \in 2 .. Len(q) : q[i].op # "trim"

(* A LOCKU asks for no mode. *)
Unlocks(W) == W.kind = "locku" => W.type = "none"

HeldFor(W) == /\ Truth(W, In(W.todo), locks, recs, told)
              /\ Leaves(W, recs) /\ TrimFirst(W.todo) /\ Unlocks(W)

HeldInv ==
    ~ overlap /\ ~ lost => \/ (\A u \in Threads : thr[u] = Idle) /\ HeldFor(Idle)
                           \/ \E t \in Threads : Alone(t) /\ HeldFor(thr[t])

-----------------------------------------------------------------------------
(* Arithmetic. *)

LEMMA SmallMod ==
  ASSUME NEW m \in Int, NEW n \in Nat, n < m
  PROVE  n % m = n
<1>1. m > 0
  OBVIOUS
<1>2. n = m * (n \div m) + (n % m) /\ (n \div m) \in Int /\ n % m \in 0 .. m - 1
  BY <1>1
<1> DEFINE d == n \div m
           r == n % m
<1>3. d \in Int /\ r \in 0 .. m - 1 /\ n = m * d + r
  BY <1>2
<1> HIDE DEF d, r
<1>4. d < 1
  <2> SUFFICES ASSUME d >= 1 PROVE FALSE
    BY <1>3
  <2>1. m * d >= m
    BY <1>1, <1>3
  <2> QED
    BY <1>1, <1>3, <2>1
<1>5. d > -1
  <2> SUFFICES ASSUME d <= -1 PROVE FALSE
    BY <1>3
  <2>1. m * d <= -m
    BY <1>1, <1>3
  <2> QED
    BY <1>1, <1>3, <2>1
<1>6. d = 0
  BY <1>3, <1>4, <1>5
<1> QED
  BY <1>1, <1>3, <1>6 DEF r

LEMMA PlainIs ==
  ASSUME NEW r, Plain(r)
  PROVE  /\ r.offset \in Nat /\ r.length \in Nat \ {0} /\ TO_EOF \in Nat
         /\ r.offset + r.length <= TO_EOF
         /\ End(r) = r.offset + r.length
         /\ WrapAdd(r.offset, r.length) = r.offset + r.length
         /\ Bytes(r) = r.offset .. r.offset + r.length - 1
<1>1. 2 ^ Width \in Int
  BY WidthAssumption
<1>2. /\ r.offset \in Nat /\ r.length \in Nat \ {0} /\ TO_EOF \in Nat
      /\ r.offset + r.length <= TO_EOF /\ TO_EOF + 1 = 2 ^ Width
  BY <1>1 DEF Plain, Range64, U64, TO_EOF
<1>3. End(r) = r.offset + r.length
  <2>1. r.length = TO_EOF => r.offset + r.length = TO_EOF
    BY <1>2
  <2> QED
    BY <1>2, <2>1 DEF End, SaturatingAdd
<1>4. WrapAdd(r.offset, r.length) = r.offset + r.length
  <2>1. r.offset + r.length \in Nat /\ r.offset + r.length < 2 ^ Width
    BY <1>1, <1>2
  <2> QED
    BY <1>1, <2>1, SmallMod DEF WrapAdd
<1>5. Bytes(r) = r.offset .. r.offset + r.length - 1
  <2>1. U64 = 0 .. TO_EOF
    BY DEF U64, TO_EOF
  <2> QED
    BY <1>2, <1>3, <2>1 DEF Bytes
<1> QED
  BY <1>2, <1>3, <1>4, <1>5

(* trim_owner_range: of a lock that the cut overlaps, the two survivors    *)
(* are ranges again, and cover exactly the bytes of the lock that are not  *)
(* in the cut: no byte is lost and none is kept, for every width of the    *)
(* offsets.  Both ranges end inside the file: from an offset past 0 a      *)
(* length of "to the end" wraps.                                           *)
THEOREM CarveExact ==
  ASSUME NEW held, NEW cut, Plain(held), Plain(cut), Overlaps(held, cut)
  PROVE  LET S == LeftSurvivor(held, cut) \cup RightSurvivor(held, cut)
         IN  /\ \A r \in S : Plain(r)
             /\ UNION {Bytes(r) : r \in S} = Bytes(held) \ Bytes(cut)
<1> DEFINE L == LeftSurvivor(held, cut)
           R == RightSurvivor(held, cut)
           h == held.offset
           he == held.offset + held.length
           c == cut.offset
           ce == cut.offset + cut.length
           left == [offset |-> h, length |-> c - h]
           right == [offset |-> ce, length |-> he - ce]
<1>1. /\ h \in Nat /\ he \in Nat /\ c \in Nat /\ ce \in Nat /\ TO_EOF \in Nat
      /\ h < he /\ c < ce /\ he <= TO_EOF /\ ce <= TO_EOF
      /\ cut.length # 0 /\ held.length # 0
  <2>1. /\ h \in Nat /\ held.length \in Nat \ {0} /\ he <= TO_EOF /\ TO_EOF \in Nat
    BY PlainIs
  <2>2. /\ c \in Nat /\ cut.length \in Nat \ {0} /\ ce <= TO_EOF
    BY PlainIs
  <2> QED BY <2>1, <2>2
<1>2. h < ce /\ c < he
  BY PlainIs DEF Overlaps
<1>3. Bytes(held) = h .. he - 1 /\ Bytes(cut) = c .. ce - 1
  BY PlainIs
<1>4. U64 = 0 .. TO_EOF
  BY DEF U64, TO_EOF
<1>5. L = IF h < c THEN {left} ELSE {}
  BY DEF LeftSurvivor
<1>6. R = IF he > ce THEN {right} ELSE {}
  <2>1. WrapAdd(cut.offset, cut.length) = ce /\ WrapAdd(held.offset, held.length) = he
    BY PlainIs
  <2> QED
    BY <1>1, <2>1 DEF RightSurvivor
<1>7. h < c => /\ Plain(left) /\ Bytes(left) = h .. c - 1
  <2> SUFFICES ASSUME h < c PROVE Plain(left) /\ Bytes(left) = h .. c - 1
    OBVIOUS
  <2>1. /\ left \in Range64 /\ left.length # 0 /\ left.offset = h /\ left.length = c - h
        /\ h + (c - h) = c /\ c <= TO_EOF
    BY <1>1, <1>4 DEF Range64
  <2>2. Plain(left)
    BY <2>1 DEF Plain
  <2> QED
    BY <2>1, <2>2, PlainIs
<1>8. he > ce => /\ Plain(right) /\ Bytes(right) = ce .. he - 1
  <2> SUFFICES ASSUME he > ce PROVE Plain(right) /\ Bytes(right) = ce .. he - 1
    OBVIOUS
  <2>1. /\ right \in Range64 /\ right.length # 0 /\ right.offset = ce /\ right.length = he - ce
        /\ ce + (he - ce) = he
    BY <1>1, <1>4 DEF Range64
  <2>2. Plain(right)
    BY <1>1, <2>1 DEF Plain
  <2> QED
    BY <2>1, <2>2, PlainIs
<1> HIDE DEF L, R, left, right, h, he, c, ce
<1>9. \A r \in L \cup R : Plain(r)
  BY <1>5, <1>6, <1>7, <1>8
<1>10. UNION {Bytes(r) : r \in L \cup R} = Bytes(held) \ Bytes(cut)
  <2>1. UNION {Bytes(r) : r \in L \cup R}
          = (IF h < c THEN h .. c - 1 ELSE {}) \cup (IF he > ce THEN ce .. he - 1 ELSE {})
    BY <1>5, <1>6, <1>7, <1>8
  <2> QED
    BY <1>1, <1>2, <1>3, <2>1
<1> QED
  BY <1>9, <1>10 DEF L, R

-----------------------------------------------------------------------------
(* Lists of operations. *)

LEMMA NatCases ==
  \A n \in Nat : (n = 0 \/ n = 1 \/ n >= 2) /\ (n >= 1 => n = 1 \/ n >= 2)
OBVIOUS

LEMMA SeqWiden ==
  ASSUME NEW S, NEW T, S \subseteq T, NEW q \in Seq(S)
  PROVE  q \in Seq(T)
<1>1. Len(q) \in Nat /\ q \in [1 .. Len(q) -> S]
  OBVIOUS
<1>2. q \in [1 .. Len(q) -> T]
  BY <1>1
<1> QED
  BY <1>1, <1>2

LEMMA Concat ==
  ASSUME NEW S, NEW p \in Seq(S), NEW q \in Seq(S)
  PROVE  /\ p \o q \in Seq(S) /\ Len(p \o q) = Len(p) + Len(q)
         /\ Len(p) \in Nat /\ Len(q) \in Nat
         /\ \A i \in 1 .. Len(p) : (p \o q)[i] = p[i]
         /\ \A i \in 1 .. Len(q) : (p \o q)[Len(p) + i] = q[i]
<1>1. /\ p \o q \in Seq(S) /\ Len(p \o q) = Len(p) + Len(q) /\ Len(p) \in Nat /\ Len(q) \in Nat
      /\ \A i \in 1 .. Len(p) + Len(q) :
            (p \o q)[i] = IF i <= Len(p) THEN p[i] ELSE q[i - Len(p)]
  OBVIOUS
<1>2. \A i \in 1 .. Len(q) : (p \o q)[Len(p) + i] = q[i]
  <2> TAKE i \in 1 .. Len(q)
  <2>1. Len(p) + i \in 1 .. Len(p) + Len(q) /\ Len(p) + i > Len(p) /\ Len(p) + i - Len(p) = i
    BY <1>1
  <2> QED
    BY <1>1, <2>1
<1>3. \A i \in 1 .. Len(p) : (p \o q)[i] = p[i]
  BY <1>1
<1> QED
  BY <1>1, <1>2, <1>3

LEMMA Joined ==
  ASSUME NEW S, NEW ops \in Seq(S), NEW q \in Seq(S), q # <<>>
  PROVE  /\ ops \o Tail(q) \in Seq(S)
         /\ Len(q) \in Nat /\ Len(q) >= 1 /\ Len(ops) \in Nat
         /\ Len(ops \o Tail(q)) = Len(ops) + Len(q) - 1
         /\ \A i \in 1 .. Len(ops) + Len(q) - 1 :
               (ops \o Tail(q))[i] = IF i <= Len(ops) THEN ops[i] ELSE q[i - Len(ops) + 1]
<1>1. /\ Tail(q) \in Seq(S) /\ Len(Tail(q)) = Len(q) - 1 /\ Len(q) \in Nat /\ Len(q) >= 1
      /\ \A i \in 1 .. Len(q) - 1 : Tail(q)[i] = q[i + 1]
  OBVIOUS
<1> DEFINE r == Tail(q)
<1> HIDE DEF r
<1>2. r \in Seq(S) /\ Len(r) = Len(q) - 1 /\ \A i \in 1 .. Len(q) - 1 : r[i] = q[i + 1]
  BY <1>1 DEF r
<1>3. /\ ops \o r \in Seq(S) /\ Len(ops \o r) = Len(ops) + Len(r) /\ Len(ops) \in Nat
      /\ \A i \in 1 .. Len(ops) + Len(r) :
            (ops \o r)[i] = IF i <= Len(ops) THEN ops[i] ELSE r[i - Len(ops)]
  BY <1>2
<1>4. \A i \in 1 .. Len(ops) + Len(q) - 1 : i > Len(ops) => r[i - Len(ops)] = q[i - Len(ops) + 1]
  <2> TAKE i \in 1 .. Len(ops) + Len(q) - 1
  <2> HAVE i > Len(ops)
  <2>1. i - Len(ops) \in 1 .. Len(q) - 1
    BY <1>1, <1>3
  <2> QED
    BY <1>2, <2>1
<1> QED
  BY <1>1, <1>2, <1>3, <1>4 DEF r

(* A list that may stand before what is left when its first operation is   *)
(* done.                                                                   *)
LeadOK(ops) == ListOK(ops) /\ (Len(ops) >= 1 => ops[1].op # "check")

LEMMA ListThen ==
  ASSUME NEW ops \in Seq(Ops), NEW q \in Seq(Ops), q # <<>>, ListOK(q),
         \/ ops = <<>>
         \/ LeadOK(ops) /\ q[1].op \notin {"push", "unindex", "dropfh"}
         \/ q[1].op = "unindex" /\ Len(ops) = 1 /\ ops[1].op = "dropfh"
  PROVE  ListOK(ops \o Tail(q))
<1> DEFINE r == ops \o Tail(q)
<1>1. /\ Len(q) \in Nat /\ Len(q) >= 1 /\ Len(ops) \in Nat
      /\ Len(r) = Len(ops) + Len(q) - 1
      /\ \A i \in 1 .. Len(ops) + Len(q) - 1 :
               r[i] = IF i <= Len(ops) THEN ops[i] ELSE q[i - Len(ops) + 1]
  BY Joined
<1> HIDE DEF r
<1>2. \A i \in 3 .. Len(q) : q[i].op \in LaterOps
  BY DEF ListOK
<1>3. Len(q) >= 2 => \/ q[2].op \in LaterOps
                     \/ q[1].op = "push" /\ q[2].op = "row"
                     \/ q[1].op \in {"unindex", "dropfh"} /\ q[2].op = "unrow"
  BY DEF ListOK
<1>4. q[1].op \in {"push", "unindex", "dropfh"} => Len(q) >= 2
  <2>1. Len(q) = 1 \/ Len(q) >= 2
    BY <1>1, NatCases
  <2> QED
    BY <2>1 DEF ListOK
<1>5. CASE ops = <<>>
  <2>1. Len(ops) = 0
    BY <1>5
  <2>2. Len(r) = Len(q) - 1 /\ \A i \in 1 .. Len(q) - 1 : r[i] = q[i + 1]
    BY <1>1, <2>1
  <2>3. \A i \in 2 .. Len(r) : r[i].op \in LaterOps
    BY <1>1, <1>2, <2>2
  <2>4. Len(r) >= 1 => r[1].op \in LaterOps \cup {"row", "unrow"}
    BY <1>1, <1>3, <2>2
  <2> QED
    BY <1>1, <2>2, <2>3, <2>4 DEF ListOK, LaterOps, r
<1>6. CASE LeadOK(ops) /\ q[1].op \notin {"push", "unindex", "dropfh"}
  <2>1. \A i \in 2 .. Len(q) : q[i].op \in LaterOps
    BY <1>1, <1>2, <1>3, <1>6
  <2>2. \A i \in Len(ops) + 1 .. Len(r) : r[i].op \in LaterOps
    BY <1>1, <2>1
  <2>3. \A i \in 1 .. Len(ops) : r[i] = ops[i]
    BY <1>1
  <2>4. CASE Len(ops) = 0
    BY <1>1, <2>2, <2>4 DEF ListOK, LaterOps, r
  <2>5. CASE Len(ops) = 1
    <3>1. r[1].op \notin {"push", "unindex", "dropfh", "check"}
      BY <1>6, <2>3, <2>5 DEF LeadOK, ListOK
    <3> QED
      BY <1>1, <2>2, <2>5, <3>1 DEF ListOK, r
  <2>6. CASE Len(ops) >= 2
    <3>1. \A i \in 3 .. Len(r) : r[i].op \in LaterOps
      BY <1>1, <1>6, <2>2, <2>3, <2>6 DEF LeadOK, ListOK
    <3>2. Len(r) >= 2 /\ r[1] = ops[1] /\ r[2] = ops[2]
      BY <1>1, <2>3, <2>6
    <3> QED
      BY <1>1, <1>6, <2>6, <3>1, <3>2 DEF LeadOK, ListOK, r
  <2>7. Len(ops) = 0 \/ Len(ops) = 1 \/ Len(ops) >= 2
    BY <1>1, NatCases
  <2> QED
    BY <2>4, <2>5, <2>6, <2>7
<1>7. CASE q[1].op = "unindex" /\ Len(ops) = 1 /\ ops[1].op = "dropfh"
  <2>1. /\ Len(r) = Len(q) /\ r[1] = ops[1]
        /\ \A i \in 2 .. Len(q) : r[i] = q[i]
    BY <1>1, <1>7
  <2>2. Len(q) >= 2 /\ q[2].op = "unrow"
    BY <1>4, <1>7 DEF ListOK
  <2> QED
    BY <1>1, <1>2, <1>7, <2>1, <2>2 DEF ListOK, r
<1> QED
  BY <1>5, <1>6, <1>7

(* The table before and after a step: entries are added under new keys     *)
(* only, and none changes.                                                 *)
Grows(L, M, K, N) ==
    /\ K \in Nat /\ N \in Nat /\ K <= N
    /\ \A k \in DOMAIN M : k \in 1 .. K - 1 => k \in DOMAIN L /\ M[k] = L[k]

LEMMA OpKept ==
  ASSUME NEW W, NEW x, NEW L, NEW M, NEW K, NEW N, Grows(L, M, K, N), OpOK(W, x, L, K)
  PROVE  OpOK(W, x, M, N)
<1>1. x.op \in KeyOps \cup {"row"} => x.key \in 1 .. K - 1 /\ x.key \in 1 .. N - 1
  BY DEF OpOK, Grows
<1>2. x.op \in {"unindex", "unrow"} => x.key \notin DOMAIN M
  BY <1>1 DEF OpOK, Grows, KeyOps
<1>3. x.op = "remove" /\ x.key \in DOMAIN M => ClientOf[M[x.key].owner] = W.client
  BY <1>1 DEF OpOK, Grows, KeyOps
<1> QED
  BY <1>1, <1>2, <1>3 DEF OpOK

LEMMA WorkKept ==
  ASSUME NEW W, NEW L, NEW M, NEW K, NEW N, Grows(L, M, K, N), WorkOK(W, L, K)
  PROVE  WorkOK(W, M, N)
BY OpKept DEF WorkOK

LEMMA IdleOK ==
  ASSUME NEW L, NEW K
  PROVE  WorkOK(Idle, L, K)
<1>1. Idle.todo = <<>> /\ Idle.kind = "idle" /\ Len(<<>>) = 0
  BY DEF Idle
<1> QED
  BY <1>1 DEF WorkOK, Works, ListOK

(* A thread's work with another list. *)
LEMMA WorkThen ==
  ASSUME NEW W \in Works, W.todo # <<>>, NEW ops \in Seq(Ops)
  PROVE  LET V == [W EXCEPT !.todo = ops \o Tail(@)]
         IN  /\ V \in Works /\ V.todo = ops \o Tail(W.todo) /\ V.kind = W.kind
             /\ W.todo \in Seq(Ops) /\ W.kind \in {"lock", "locku", "retire"}
             /\ W.kind \in {"lock", "locku"} =>
                   /\ W \in Asks /\ V.asker = W.asker /\ V.owner = W.owner /\ V.type = W.type
                   /\ V.range = W.range /\ V.sid = W.sid
             /\ W.kind = "retire" => W \in Retires /\ V.client = W.client
<1>1. W.todo \in Seq(Ops) /\ W # Idle
  BY DEF Works, Asks, Retires, Idle
<1> DEFINE q == ops \o Tail(W.todo)
           V == [W EXCEPT !.todo = q]
<1>2. q \in Seq(Ops)
  BY <1>1, Joined
<1> HIDE DEF q
<1>3. CASE W \in Asks
  <2>1. /\ V \in Asks /\ V.todo = q /\ V.kind = W.kind /\ W.kind \in {"lock", "locku"}
        /\ V.asker = W.asker /\ V.owner = W.owner /\ V.type = W.type
        /\ V.range = W.range /\ V.sid = W.sid
    BY <1>2, <1>3 DEF Asks
  <2> QED
    BY <1>1, <1>3, <2>1 DEF Works, q
<1>4. CASE W \in Retires
  <2>1. /\ V \in Retires /\ V.todo = q /\ V.kind = W.kind /\ W.kind = "retire"
        /\ V.client = W.client
    BY <1>2, <1>4 DEF Retires
  <2> QED
    BY <1>1, <1>4, <2>1 DEF Works, q
<1> QED
  BY <1>1, <1>3, <1>4 DEF Works

-----------------------------------------------------------------------------
(* A step of one thread. *)

Moved(t, ops) ==
    /\ \A u \in Threads \ {t} : thr'[u] = thr[u]
    /\ thr'[t].todo = ops \o Tail(thr[t].todo)
    /\ thr'[t].kind = thr[t].kind
    /\ thr[t].kind \in {"lock", "locku"} =>
          /\ thr'[t].asker = thr[t].asker /\ thr'[t].owner = thr[t].owner
          /\ thr'[t].type = thr[t].type /\ thr'[t].range = thr[t].range
          /\ thr'[t].sid = thr[t].sid
    /\ thr[t].kind = "retire" => thr'[t].client = thr[t].client

(* What a thread may put before the rest of its list. *)
MayLead(ops, q) ==
    \/ ops = <<>>
    \/ LeadOK(ops) /\ q[1].op \notin {"push", "unindex", "dropfh"}
    \/ q[1].op = "unindex" /\ Len(ops) = 1 /\ ops[1].op = "dropfh"

LEMMA ThenMoves ==
  ASSUME ThreadsOK, NEW t \in Threads, Todo(t) # <<>>, NEW ops \in Seq(Ops), Then(t, ops)
  PROVE  thr' \in [Threads -> Works] /\ Moved(t, ops)
<1> DEFINE V == [thr[t] EXCEPT !.todo = ops \o Tail(@)]
<1>1. thr[t] \in Works /\ thr[t].todo # <<>>
  BY DEF ThreadsOK, Todo
<1>2. /\ V \in Works /\ V.todo = ops \o Tail(thr[t].todo) /\ V.kind = thr[t].kind
      /\ thr[t].kind \in {"lock", "locku"} =>
            /\ V.asker = thr[t].asker /\ V.owner = thr[t].owner /\ V.type = thr[t].type
            /\ V.range = thr[t].range /\ V.sid = thr[t].sid
      /\ thr[t].kind = "retire" => V.client = thr[t].client
  BY <1>1, WorkThen
<1>3. thr' = [thr EXCEPT ![t] = V]
  BY DEF Then
<1> HIDE DEF V
<1>4. thr' \in [Threads -> Works] /\ thr'[t] = V /\ \A u \in Threads \ {t} : thr'[u] = thr[u]
  BY <1>2, <1>3 DEF ThreadsOK
<1> QED
  BY <1>2, <1>4 DEF Moved

(* OpOK looks at no more of a work than its kind, owner and client. *)
LEMMA OpSame ==
  ASSUME NEW W, NEW V, NEW x, NEW L, NEW K, OpOK(W, x, L, K), V.kind = W.kind,
         W.kind \in {"lock", "locku", "retire"},
         W.kind \in {"lock", "locku"} => V.owner = W.owner,
         W.kind = "retire" => V.client = W.client
  PROVE  OpOK(V, x, L, K)
<1>1. x.op = "insert" => W.kind \in {"lock", "locku"}
  BY DEF OpOK, RetireOps
<1>2. x.op = "remove" => W.kind = "retire"
  BY DEF OpOK, AskOps
<1> QED
  BY <1>1, <1>2 DEF OpOK

LEMMA ThreadThen ==
  ASSUME ThreadsOK, NEW t \in Threads, Todo(t) # <<>>, NEW ops \in Seq(Ops), Then(t, ops),
         Grows(locks, locks', keyCtr, keyCtr'), MayLead(ops, Todo(t)),
         \A i \in 1 .. Len(ops) : OpOK(thr[t], ops[i], locks', keyCtr')
  PROVE  ThreadsOK' /\ Moved(t, ops)
<1>1. thr' \in [Threads -> Works] /\ Moved(t, ops)
  BY ThenMoves
<1>2. \A u \in Threads \ {t} : WorkOK(thr'[u], locks', keyCtr')
  BY <1>1, WorkKept DEF Moved, ThreadsOK
<1>3. WorkOK(thr'[t], locks', keyCtr')
  <2> DEFINE W == thr[t]
             V == thr'[t]
             q == W.todo
  <2>1. /\ W \in Works /\ WorkOK(W, locks, keyCtr) /\ q # <<>> /\ V \in Works
    BY <1>1 DEF ThreadsOK, Todo
  <2>2. W.kind \in {"lock", "locku", "retire"} /\ q \in Seq(Ops)
    BY <2>1, WorkThen
  <2>3. /\ V.todo = ops \o Tail(q) /\ V.kind = W.kind
        /\ W.kind \in {"lock", "locku"} => V.owner = W.owner /\ V.type = W.type
        /\ W.kind = "retire" => V.client = W.client
    BY <1>1 DEF Moved
  <2>4. ListOK(V.todo)
    BY <2>1, <2>2, <2>3, ListThen DEF WorkOK, MayLead, Todo
  <2>5. ASSUME NEW i \in 1 .. Len(V.todo) PROVE OpOK(V, V.todo[i], locks', keyCtr')
    <3>1. /\ Len(q) \in Nat /\ Len(q) >= 1 /\ Len(ops) \in Nat
          /\ Len(V.todo) = Len(ops) + Len(q) - 1
          /\ V.todo[i] = IF i <= Len(ops) THEN ops[i] ELSE q[i - Len(ops) + 1]
      BY <2>1, <2>2, <2>3, Joined
    <3>2. CASE i <= Len(ops)
      <4>1. V.todo[i] = ops[i] /\ i \in 1 .. Len(ops)
        BY <3>1, <3>2
      <4> HIDE DEF W, V, q
      <4>2. OpOK(W, V.todo[i], locks', keyCtr')
        BY <4>1 DEF W
      <4> QED
        BY <2>2, <2>3, <4>2, OpSame
    <3>3. CASE i > Len(ops)
      <4>1. V.todo[i] = q[i - Len(ops) + 1] /\ i - Len(ops) + 1 \in 1 .. Len(q)
        BY <3>1, <3>3
      <4>2. OpOK(W, V.todo[i], locks, keyCtr)
        BY <2>1, <4>1 DEF WorkOK
      <4> HIDE DEF W, V, q
      <4>3. OpOK(W, V.todo[i], locks', keyCtr')
        BY <4>2, OpKept
      <4> QED
        BY <2>2, <2>3, <4>3, OpSame
    <3> QED
      BY <3>1, <3>2, <3>3
  <2>6. V.kind = "lock" => V.type \in LockTypes
    BY <2>1, <2>3 DEF WorkOK
  <2> QED
    BY <2>1, <2>4, <2>5, <2>6 DEF WorkOK
<1> QED
  BY <1>1, <1>2, <1>3 DEF ThreadsOK

LEMMA ThreadBegin ==
  ASSUME ThreadsOK, NEW t \in Threads, NEW W, WorkOK(W, locks', keyCtr'),
         thr' = [thr EXCEPT ![t] = W], Grows(locks, locks', keyCtr, keyCtr')
  PROVE  ThreadsOK' /\ thr'[t] = W /\ \A u \in Threads \ {t} : thr'[u] = thr[u]
<1>1. /\ thr' \in [Threads -> Works] /\ thr'[t] = W
      /\ \A u \in Threads \ {t} : thr'[u] = thr[u]
  BY DEF ThreadsOK, WorkOK
<1>2. \A u \in Threads \ {t} : WorkOK(thr'[u], locks', keyCtr')
  BY <1>1, WorkKept DEF ThreadsOK
<1> QED
  BY <1>1, <1>2 DEF ThreadsOK

LEMMA ThreadKeep ==
  ASSUME ThreadsOK, UNCHANGED thr, Grows(locks, locks', keyCtr, keyCtr')
  PROVE  ThreadsOK'
BY WorkKept DEF ThreadsOK

-----------------------------------------------------------------------------
(* Rows. *)

LEMMA RowKept ==
  ASSUME NEW k, NEW v, NEW K, NEW S, NEW N \in Nat, NEW M \in Nat, K \in Nat, S \in Nat,
         K <= N, S <= M, RowIn(k, v, K, S)
  PROVE  RowIn(k, v, N, M)
<1>1. (1 .. K - 1) \subseteq (1 .. N - 1) /\ (1 .. S - 1) \subseteq (1 .. M - 1)
  OBVIOUS
<1> QED
  BY <1>1 DEF RowIn

LEMMA DbKept ==
  ASSUME NEW d, NEW K \in Nat, NEW S \in Nat, NEW N \in Nat, NEW M \in Nat, K <= N, S <= M,
         DbOK(d, K, S)
  PROVE  DbOK(d, N, M)
BY RowKept DEF DbOK

LEMMA DbPut ==
  ASSUME NEW d, NEW K, NEW S, DbOK(d, K, S), NEW k, NEW v, RowIn(k, v, K, S)
  PROVE  DbOK(Put(d, k, v), K, S)
BY DEF DbOK, Put

LEMMA DbDel ==
  ASSUME NEW d, NEW K, NEW S, DbOK(d, K, S), NEW X
  PROVE  DbOK(Del(d, X), K, S)
BY DEF DbOK, Del

LEMMA RowsOfIs ==
  ASSUME NEW d, NEW K, NEW S, DbOK(d, K, S), NEW table
  PROVE  \A n : n \in RowsOf(d, table) <=> <<table, n>> \in DOMAIN d
<1>1. \A k \in DOMAIN d : k = <<k[1], k[2]>>
  BY DEF DbOK, RowIn
<1>2. \A n : <<table, n>>[1] = table /\ <<table, n>>[2] = n
  OBVIOUS
<1> QED
  BY <1>1, <1>2 DEF RowsOf

LEMMA LeastIn ==
  ASSUME NEW U, U \subseteq Nat, U # {}
  PROVE  \E u \in U : \A v \in U : u <= v
<1> DEFINE R == OpToRel(<, Nat)
<1>1. PICK x \in U : \A y \in U : ~ (<<y, x>> \in R)
  <2>1. IsWellFoundedOn(R, Nat)
    BY NatLessThanWellFounded
  <2> HIDE DEF R
  <2> QED
    BY <2>1, WFMin
<1>2. \A y \in U : ~ (y < x)
  BY <1>1, Zenon DEF OpToRel
<1>3. \A y \in U : x <= y
  BY <1>2
<1> QED
  BY <1>3

LEMMA TopIs ==
  ASSUME NEW n \in Nat, NEW S \in SUBSET (1 .. n)
  PROVE  TopOf(S) \in Nat /\ \A m \in S : m <= TopOf(S)
<1>1. CASE S = {}
  BY <1>1 DEF TopOf
<1>2. CASE S # {}
  <2> DEFINE U == {u \in Nat : \A m \in S : m <= u}
  <2>1. n \in U
    OBVIOUS
  <2>2. PICK u \in U : \A v \in U : u <= v
    <3>1. U \in SUBSET Nat /\ U # {}
      BY <2>1
    <3> HIDE DEF U
    <3> QED
      BY <3>1, LeastIn
  <2>3. u \in S
    <3> SUFFICES ASSUME u \notin S PROVE FALSE
      OBVIOUS
    <3>1. PICK s \in S : TRUE
      BY <1>2
    <3>2. u \in Nat /\ s \in Nat /\ s >= 1 /\ s <= u
      BY <2>2
    <3>3. \A m \in S : m \in Nat /\ m <= u /\ m # u
      BY <2>2
    <3>4. u - 1 \in Nat /\ \A m \in S : m <= u - 1
      BY <3>2, <3>3
    <3>5. u - 1 \in U
      BY <3>4
    <3>6. u <= u - 1
      BY <2>2, <3>5
    <3> QED
      BY <3>2, <3>6
  <2> DEFINE Top(x) == \A m \in S : m <= x
  <2>4. \E x \in S : Top(x)
    BY <2>2, <2>3
  <2>5. TopOf(S) = CHOOSE x \in S : Top(x)
    BY <1>2 DEF TopOf
  <2> HIDE DEF Top, U
  <2>6. TopOf(S) \in S /\ Top(TopOf(S))
    BY <2>4, <2>5
  <2>7. \A m \in S : m \in Nat
    OBVIOUS
  <2>8. TopOf(S) \in Nat
    BY <2>6, <2>7
  <2>9. \A m \in S : m <= TopOf(S)
    BY <2>6, Zenon DEF Top
  <2> QED
    BY <2>8, <2>9
<1> QED
  BY <1>1, <1>2

LEMMA ListedIs ==
  ASSUME NEW S, IsFiniteSet(S)
  PROVE  /\ Listed(S) \in Seq(S) /\ Len(Listed(S)) = Cardinality(S) /\ Cardinality(S) \in Nat
         /\ \A k \in S : \E i \in 1 .. Len(Listed(S)) : Listed(S)[i] = k
         /\ \A i, j \in 1 .. Len(Listed(S)) : Listed(S)[i] = Listed(S)[j] => i = j
<1> DEFINE n == Cardinality(S)
           P(q) == \A k \in S : \E i \in DOMAIN q : q[i] = k
<1>1. n \in Nat /\ ExistsBijection(1 .. n, S)
  BY FS_CardinalityType
<1>2. \E q \in [1 .. n -> S] : P(q)
  BY <1>1 DEF ExistsBijection, Bijection, Surjection
<1>3. Listed(S) = CHOOSE q \in [1 .. n -> S] : P(q)
  BY DEF Listed
<1>4. Listed(S) \in [1 .. n -> S] /\ P(Listed(S))
  BY <1>2, <1>3
<1> DEFINE q == Listed(S)
<1> HIDE DEF q
<1>5. q \in [1 .. n -> S] /\ DOMAIN q = 1 .. n /\ q \in Seq(S) /\ Len(q) = n
  BY <1>1, <1>4 DEF q
<1>6. \A k \in S : \E i \in 1 .. n : q[i] = k
  BY <1>4, <1>5 DEF q
<1> HIDE DEF P
<1>7. q \in Surjection(1 .. n, S)
  BY <1>5, <1>6 DEF Surjection
<1>8. IsFiniteSet(1 .. n) /\ Cardinality(1 .. n) = n
  BY <1>1, FS_Interval
<1>9. q \in Injection(1 .. n, S)
  <2> DEFINE T == 1 .. n
  <2>1. q \in Surjection(T, S) /\ IsFiniteSet(T) /\ Cardinality(T) = Cardinality(S)
    BY <1>7, <1>8
  <2> HIDE DEF T
  <2>2. q \in Injection(T, S)
    BY <2>1, FS_SurjSameCardinalityImpliesInj
  <2> QED
    BY <2>2 DEF T
<1>10. \A i, j \in 1 .. n : q[i] = q[j] => i = j
  BY <1>9 DEF Injection, IsInjective
<1> QED
  BY <1>1, <1>5, <1>6, <1>10 DEF q

-----------------------------------------------------------------------------
(* The steps, however they overlap. *)

LEMMA HeadIs ==
  ASSUME ThreadsOK, NEW t \in Threads, NEW o, Does(t, o)
  PROVE  /\ Todo(t) # <<>> /\ Todo(t) \in Seq(Ops) /\ Len(Todo(t)) \in Nat /\ Len(Todo(t)) >= 1
         /\ NextOp(t) = Todo(t)[1] /\ NextOp(t).op = o /\ NextOp(t) \in Ops
         /\ OpOK(thr[t], NextOp(t), locks, keyCtr)
         /\ thr[t].kind \in {"lock", "locku", "retire"}
         /\ thr[t].kind \in {"lock", "locku"} => thr[t] \in Asks
         /\ thr[t].kind = "retire" => thr[t] \in Retires
<1>1. thr[t] \in Works /\ thr[t].todo # <<>> /\ NextOp(t).op = o /\ WorkOK(thr[t], locks, keyCtr)
  BY DEF Does, ThreadsOK
<1>2. /\ thr[t].todo \in Seq(Ops) /\ thr[t].kind \in {"lock", "locku", "retire"}
      /\ thr[t].kind \in {"lock", "locku"} => thr[t] \in Asks
      /\ thr[t].kind = "retire" => thr[t] \in Retires
  <2>1. <<>> \in Seq(Ops)
    OBVIOUS
  <2> QED
    BY <1>1, <2>1, WorkThen
<1> DEFINE q == thr[t].todo
<1>3. q # <<>> /\ q \in Seq(Ops)
  BY <1>1, <1>2
<1> HIDE DEF q
<1>4. Len(q) \in Nat /\ Len(q) >= 1 /\ Head(q) = q[1] /\ q[1] \in Ops
  BY <1>3
<1>5. OpOK(thr[t], q[1], locks, keyCtr)
  BY <1>1, <1>4 DEF WorkOK, q
<1> QED
  BY <1>1, <1>2, <1>3, <1>4, <1>5 DEF Todo, NextOp, q

LEMMA AskHead ==
  ASSUME ThreadsOK, NEW t \in Threads, NEW o, Does(t, o), o \notin RetireOps
  PROVE  thr[t] \in Asks /\ thr[t].kind \in {"lock", "locku"}
BY HeadIs DEF OpOK

LEMMA RetireHead ==
  ASSUME ThreadsOK, NEW t \in Threads, NEW o, Does(t, o), o \notin AskOps
  PROVE  thr[t] \in Retires /\ thr[t].kind = "retire"
BY HeadIs DEF OpOK

LEMMA GrowsSame ==
  ASSUME TablesOK, UNCHANGED <<locks, keyCtr>>
  PROVE  Grows(locks, locks', keyCtr, keyCtr')
BY DEF Grows, TablesOK

LEMMA Still ==
  ASSUME AnyInv, UNCHANGED <<mem, live, recs, grace, rows, disk, told, known>>, ThreadsOK'
  PROVE  AnyInv'
<1>1. /\ locks' = locks /\ index' = index /\ count' = count /\ keyCtr' = keyCtr
      /\ sidCtr' = sidCtr /\ owners' = owners /\ states' = states /\ live' = live
      /\ recs' = recs /\ grace' = grace /\ rows' = rows /\ disk' = disk /\ told' = told
      /\ known' = known
  BY DEF mem
<1>2. TablesOK'
  BY <1>1 DEF AnyInv, TablesOK
<1>3. CountOK'
  BY <1>1 DEF AnyInv, CountOK, Entries
<1>4. DbOK(rows, keyCtr, sidCtr)' /\ DbOK(disk, keyCtr, sidCtr)'
  BY <1>1 DEF AnyInv
<1> QED
  BY <1>2, <1>3, <1>4 DEF AnyInv

(* A step that puts nothing before the rest of the list. *)
LEMMA ThenNothing ==
  ASSUME ThreadsOK, NEW t \in Threads, Todo(t) # <<>>, Then(t, <<>>),
         Grows(locks, locks', keyCtr, keyCtr')
  PROVE  ThreadsOK' /\ Moved(t, <<>>)
<1>1. <<>> \in Seq(Ops) /\ Len(<<>>) = 0
  OBVIOUS
<1>2. MayLead(<<>>, Todo(t))
  BY DEF MayLead
<1>3. \A i \in 1 .. Len(<<>>) : OpOK(thr[t], <<>>[i], locks', keyCtr')
  BY <1>1
<1> QED
  BY <1>1, <1>2, <1>3, ThreadThen

(* Operations that are about no key. *)
LEMMA BareOp ==
  ASSUME NEW o \in BareOps
  PROVE  [op |-> o] \in Ops /\ [op |-> o].op = o
BY DEF Ops

LEMMA KeyOp ==
  ASSUME NEW o \in KeyOps, NEW k \in Nat
  PROVE  /\ [op |-> o, key |-> k] \in Ops /\ [op |-> o, key |-> k].op = o
         /\ [op |-> o, key |-> k].key = k
BY DEF Ops

LEMMA InsertOp ==
  ASSUME NEW o \in Owners, NEW type \in LockTypes, NEW r \in Range64
  PROVE  /\ Add(o, type, r) \in Ops /\ Add(o, type, r).op = "insert"
         /\ Add(o, type, r).lock = [owner |-> o, type |-> type, range |-> r]
         /\ Add(o, type, r).lock \in LockVals /\ Add(o, type, r).lock.owner = o
<1> DEFINE L == [owner |-> o, type |-> type, range |-> r]
<1>1. L \in LockVals /\ L.owner = o
  BY DEF LockVals
<1> HIDE DEF L
<1>2. [op |-> "insert", lock |-> L] \in Ops /\ [op |-> "insert", lock |-> L].op = "insert"
      /\ [op |-> "insert", lock |-> L].lock = L
  BY <1>1 DEF Ops
<1> QED
  BY <1>1, <1>2 DEF Add, L

(* What a conflict check leads to. *)
Granted(t) ==
    (IF NextOp(t).new THEN <<[op |-> "allocate"], [op |-> "register"]>> ELSE <<[op |-> "trim"]>>)
        \o <<Add(thr[t].owner, thr[t].type, thr[t].range)>>

GrantShape(g, new) ==
    IF new
    THEN Len(g) = 3 /\ g[1].op = "allocate" /\ g[2].op = "register" /\ g[3].op = "insert"
    ELSE Len(g) = 2 /\ g[1].op = "trim" /\ g[2].op = "insert"

LEMMA GrantedIs ==
  ASSUME ThreadsOK, NEW t \in Threads, Does(t, "check"), NEW L, NEW K
  PROVE  /\ Granted(t) \in Seq(Ops) /\ LeadOK(Granted(t)) /\ GrantShape(Granted(t), NextOp(t).new)
         /\ \A i \in 1 .. Len(Granted(t)) :
               /\ OpOK(thr[t], Granted(t)[i], L, K)
               /\ Granted(t)[i].op \in {"allocate", "register", "trim", "insert"}
               /\ Granted(t)[i].op = "insert" =>
                     Granted(t)[i].lock = [owner |-> thr[t].owner, type |-> thr[t].type,
                                           range |-> thr[t].range]
<1> DEFINE x == Add(thr[t].owner, thr[t].type, thr[t].range)
           a == [op |-> "allocate"]
           r == [op |-> "register"]
           m == [op |-> "trim"]
<1>1. thr[t] \in Asks /\ thr[t].kind = "lock" /\ thr[t].type \in LockTypes
  <2>1. "check" \notin RetireOps
    BY DEF RetireOps
  <2>2. thr[t] \in Asks
    BY <2>1, AskHead
  <2>3. thr[t].kind = "lock"
    BY HeadIs DEF OpOK
  <2> QED
    BY <2>2, <2>3 DEF ThreadsOK, WorkOK
<1>2. thr[t].owner \in Owners /\ thr[t].range \in Range64
  BY <1>1 DEF Asks
<1>3. /\ x \in Ops /\ x.op = "insert" /\ x.lock.owner = thr[t].owner
      /\ x.lock = [owner |-> thr[t].owner, type |-> thr[t].type, range |-> thr[t].range]
  BY <1>1, <1>2, InsertOp
<1>4. a \in Ops /\ r \in Ops /\ m \in Ops /\ a.op = "allocate" /\ r.op = "register" /\ m.op = "trim"
  BY BareOp DEF BareOps
<1>5. /\ OpOK(thr[t], a, L, K) /\ OpOK(thr[t], r, L, K) /\ OpOK(thr[t], m, L, K)
      /\ OpOK(thr[t], x, L, K)
  BY <1>1, <1>3, <1>4 DEF OpOK, AskOps, KeyOps
<1>6. Granted(t) = IF NextOp(t).new THEN <<a, r>> \o <<x>> ELSE <<m>> \o <<x>>
  BY DEF Granted
<1> HIDE DEF a, r, m, x
<1>7. CASE NextOp(t).new /\ Granted(t) = <<a, r>> \o <<x>>
  <2> DEFINE p == <<a, r>>
             s == <<x>>
             g == p \o s
  <2>1. p \in Seq(Ops) /\ Len(p) = 2 /\ p[1] = a /\ p[2] = r /\ s \in Seq(Ops) /\ Len(s) = 1 /\ s[1] = x
    BY <1>3, <1>4
  <2> HIDE DEF p, s
  <2>2. g \in Seq(Ops) /\ Len(g) = 3 /\ g[1] = a /\ g[2] = r /\ g[3] = x
    <3>1. /\ g \in Seq(Ops) /\ Len(g) = Len(p) + Len(s)
          /\ \A i \in 1 .. Len(p) : g[i] = p[i]
          /\ \A i \in 1 .. Len(s) : g[Len(p) + i] = s[i]
      <4>1. p \in Seq(Ops) /\ s \in Seq(Ops)
        BY <2>1
      <4> QED
        BY <4>1, Concat
    <3> HIDE DEF g
    <3> QED
      BY <2>1, <3>1
  <2> HIDE DEF g
  <2>3. \A i \in 1 .. Len(g) : i = 1 \/ i = 2 \/ i = 3
    BY <2>2
  <2>4. LeadOK(g)
    BY <1>3, <1>4, <2>2 DEF LeadOK, ListOK, LaterOps
  <2>5. Granted(t) = g
    BY <1>7 DEF g, p, s
  <2>6. GrantShape(g, NextOp(t).new)
    BY <1>3, <1>4, <1>7, <2>2 DEF GrantShape
  <2> QED
    BY <1>3, <1>4, <1>5, <2>2, <2>3, <2>4, <2>5, <2>6
<1>8. CASE ~ NextOp(t).new /\ Granted(t) = <<m>> \o <<x>>
  <2> DEFINE p == <<m>>
             s == <<x>>
             g == p \o s
  <2>1. p \in Seq(Ops) /\ Len(p) = 1 /\ p[1] = m /\ s \in Seq(Ops) /\ Len(s) = 1 /\ s[1] = x
    BY <1>3, <1>4
  <2> HIDE DEF p, s
  <2>2. g \in Seq(Ops) /\ Len(g) = 2 /\ g[1] = m /\ g[2] = x
    <3>1. /\ g \in Seq(Ops) /\ Len(g) = Len(p) + Len(s)
          /\ \A i \in 1 .. Len(p) : g[i] = p[i]
          /\ \A i \in 1 .. Len(s) : g[Len(p) + i] = s[i]
      <4>1. p \in Seq(Ops) /\ s \in Seq(Ops)
        BY <2>1
      <4> QED
        BY <4>1, Concat
    <3> HIDE DEF g
    <3> QED
      BY <2>1, <3>1
  <2> HIDE DEF g
  <2>3. \A i \in 1 .. Len(g) : i = 1 \/ i = 2
    BY <2>2
  <2>4. LeadOK(g)
    BY <1>3, <1>4, <2>2 DEF LeadOK, ListOK, LaterOps
  <2>5. Granted(t) = g
    BY <1>8 DEF g, p, s
  <2>6. GrantShape(g, NextOp(t).new)
    BY <1>3, <1>4, <1>8, <2>2 DEF GrantShape
  <2> QED
    BY <1>3, <1>4, <1>5, <2>2, <2>3, <2>4, <2>5, <2>6
<1> QED
  BY <1>6, <1>7, <1>8

LEMMA AnyCheck ==
  ASSUME AnyInv, NEW t \in Threads, Check(t)
  PROVE  /\ AnyInv'
         /\ IF ConflictFor(thr[t].owner, thr[t].type, thr[t].range)
            THEN thr' = [thr EXCEPT ![t] = Idle]
            ELSE Moved(t, Granted(t))
<1>1. /\ Does(t, "check") /\ UNCHANGED <<mem, live, recs, grace, rows, disk, told, known>>
      /\ IF ConflictFor(thr[t].owner, thr[t].type, thr[t].range)
         THEN thr' = [thr EXCEPT ![t] = Idle]
         ELSE Then(t, Granted(t))
  BY DEF Check, Denied, Granted
<1>2. TablesOK /\ ThreadsOK /\ UNCHANGED <<locks, keyCtr>>
  BY <1>1 DEF AnyInv, mem
<1>3. Grows(locks, locks', keyCtr, keyCtr')
  BY <1>2, GrowsSame
<1>4. CASE ConflictFor(thr[t].owner, thr[t].type, thr[t].range)
  <2>1. ThreadsOK'
    BY <1>1, <1>2, <1>3, <1>4, IdleOK, ThreadBegin
  <2> QED
    BY <1>1, <1>4, <2>1, Still
<1>5. CASE ~ ConflictFor(thr[t].owner, thr[t].type, thr[t].range)
  <2>1. /\ Granted(t) \in Seq(Ops) /\ LeadOK(Granted(t))
        /\ \A i \in 1 .. Len(Granted(t)) : OpOK(thr[t], Granted(t)[i], locks', keyCtr')
    BY <1>1, <1>2, GrantedIs
  <2>2. Todo(t) # <<>> /\ Todo(t)[1].op = "check"
    BY <1>1, <1>2, HeadIs
  <2>3. MayLead(Granted(t), Todo(t))
    BY <2>1, <2>2 DEF MayLead
  <2>4. ThreadsOK' /\ Moved(t, Granted(t))
    BY <1>1, <1>2, <1>3, <1>5, <2>1, <2>2, <2>3, ThreadThen
  <2> QED
    BY <1>1, <1>5, <2>4, Still
<1> QED
  BY <1>1, <1>4, <1>5

LEMMA EmptyJoin ==
  ASSUME NEW S, NEW q \in Seq(S)
  PROVE  <<>> \o q = q
OBVIOUS

LEMMA CountSame ==
  ASSUME CountOK, UNCHANGED <<locks, count>>
  PROVE  CountOK'
BY DEF CountOK, Entries

LEMMA AnyAllocate ==
  ASSUME AnyInv, NEW t \in Threads, Allocate(t)
  PROVE  /\ AnyInv' /\ \A u \in Threads \ {t} : thr'[u] = thr[u]
         /\ thr'[t] = [thr[t] EXCEPT !.sid = sidCtr, !.todo = Tail(@)]
         /\ thr'[t].todo = Tail(thr[t].todo) /\ thr'[t].sid = sidCtr /\ thr'[t].kind = thr[t].kind
         /\ thr'[t].asker = thr[t].asker /\ thr'[t].owner = thr[t].owner
         /\ thr'[t].type = thr[t].type /\ thr'[t].range = thr[t].range
<1> DEFINE W == thr[t]
           q == W.todo
           V == [W EXCEPT !.sid = sidCtr, !.todo = Tail(@)]
<1>1. /\ Does(t, "allocate") /\ TablesOK /\ ThreadsOK /\ CountOK
      /\ DbOK(rows, keyCtr, sidCtr) /\ DbOK(disk, keyCtr, sidCtr)
      /\ sidCtr' = sidCtr + 1 /\ states' = Put(states, sidCtr, ClientOf[W.owner])
      /\ rows' = Put(rows, <<"stateid", sidCtr>>, ClientOf[W.owner])
      /\ thr' = [thr EXCEPT ![t] = V]
      /\ UNCHANGED <<locks, index, count, keyCtr, owners, live, recs, grace, disk, told, known>>
  BY DEF Allocate, AnyInv
<1>2. /\ W \in Asks /\ W.kind \in {"lock", "locku"} /\ q # <<>> /\ q \in Seq(Ops)
      /\ WorkOK(W, locks, keyCtr)
  <2>1. "allocate" \notin RetireOps
    BY DEF RetireOps
  <2>2. Todo(t) # <<>> /\ Todo(t) \in Seq(Ops)
    BY <1>1, HeadIs
  <2> QED
    BY <1>1, <2>1, <2>2, AskHead DEF Todo, ThreadsOK
<1>3. sidCtr \in Nat \ {0} /\ keyCtr \in Nat
  BY <1>1 DEF TablesOK
<1>4. /\ V \in Asks /\ V.todo = Tail(q) /\ V.kind = W.kind /\ V.owner = W.owner
      /\ V.type = W.type /\ V.asker = W.asker /\ V.range = W.range /\ V.sid = sidCtr
  <2>1. Tail(q) \in Seq(Ops)
    BY <1>2
  <2> DEFINE r == Tail(q)
  <2>2. V = [W EXCEPT !.sid = sidCtr, !.todo = r]
    OBVIOUS
  <2> HIDE DEF r, V
  <2>3. /\ V \in Asks /\ V.todo = r /\ V.kind = W.kind /\ V.owner = W.owner
        /\ V.type = W.type /\ V.asker = W.asker /\ V.range = W.range /\ V.sid = sidCtr
    BY <1>2, <1>3, <2>1, <2>2 DEF Asks, r
  <2> QED
    BY <2>3 DEF r
<1> HIDE DEF V, W, q
<1>5. WorkOK(V, locks', keyCtr')
  <2>1. ListOK(Tail(q))
    <3>1. <<>> \in Seq(Ops) /\ Tail(q) \in Seq(Ops)
      BY <1>2
    <3>2. ListOK(<<>> \o Tail(q))
      BY <1>2, <3>1, ListThen DEF WorkOK, q
    <3> QED
      BY <3>1, <3>2, EmptyJoin
  <2>2. ASSUME NEW i \in 1 .. Len(Tail(q)) PROVE OpOK(V, Tail(q)[i], locks, keyCtr)
    <3>1. i + 1 \in 1 .. Len(q) /\ Tail(q)[i] = q[i + 1]
      BY <1>2
    <3>2. OpOK(W, Tail(q)[i], locks, keyCtr)
      BY <1>2, <3>1 DEF WorkOK, q
    <3> QED
      BY <1>2, <1>4, <3>2, OpSame
  <2> QED
    BY <1>1, <1>2, <1>4, <2>1, <2>2 DEF WorkOK, Works
<1>6. /\ ThreadsOK' /\ thr'[t] = V /\ \A u \in Threads \ {t} : thr'[u] = thr[u]
  <2>1. Grows(locks, locks', keyCtr, keyCtr')
    BY <1>1, GrowsSame
  <2> QED
    BY <1>1, <1>5, <2>1, ThreadBegin
<1>7. ClientOf[W.owner] \in Clients
  BY <1>2, LocksAssumption DEF Asks
<1>8. TablesOK'
  <2>1. DOMAIN states' \subseteq 1 .. sidCtr' - 1 /\ \A s \in DOMAIN states' : states'[s] \in Clients
    BY <1>1, <1>3, <1>7 DEF TablesOK, Put
  <2> QED
    BY <1>1, <1>3, <2>1 DEF TablesOK
<1>9. DbOK(rows', keyCtr', sidCtr') /\ DbOK(disk', keyCtr', sidCtr')
  <2>1. DbOK(rows, keyCtr, sidCtr') /\ DbOK(disk, keyCtr, sidCtr')
    BY <1>1, <1>3, DbKept
  <2>2. RowIn(<<"stateid", sidCtr>>, ClientOf[W.owner], keyCtr, sidCtr')
    BY <1>1, <1>3, <1>7 DEF RowIn
  <2> QED
    BY <1>1, <2>1, <2>2, DbPut
<1> QED
  BY <1>1, <1>4, <1>6, <1>8, <1>9, CountSame DEF AnyInv, V, W, q

LEMMA AnyRegister ==
  ASSUME AnyInv, NEW t \in Threads, Register(t)
  PROVE  AnyInv' /\ Moved(t, <<>>)
<1>1. /\ Does(t, "register") /\ TablesOK /\ ThreadsOK /\ CountOK /\ Then(t, <<>>)
      /\ DbOK(rows, keyCtr, sidCtr) /\ DbOK(disk, keyCtr, sidCtr)
      /\ owners' = Put(owners, thr[t].sid, thr[t].owner)
      /\ rows' = Put(rows, <<"owner", thr[t].sid>>, thr[t].owner)
      /\ UNCHANGED <<locks, index, count, keyCtr, sidCtr, states, live, recs, grace, disk, told,
                     known>>
  BY DEF Register, AnyInv
<1>2. thr[t].sid \in Nat /\ thr[t].owner \in Owners /\ Todo(t) # <<>>
  <2>1. "register" \notin RetireOps
    BY DEF RetireOps
  <2> QED
    BY <1>1, <2>1, HeadIs, AskHead DEF Asks
<1>3. ThreadsOK' /\ Moved(t, <<>>)
  BY <1>1, <1>2, GrowsSame, ThenNothing
<1>4. TablesOK'
  <2>1. DOMAIN owners' \subseteq Nat /\ \A s \in DOMAIN owners' : owners'[s] \in Owners
    BY <1>1, <1>2 DEF TablesOK, Put
  <2> QED
    BY <1>1, <2>1 DEF TablesOK
<1>5. DbOK(rows', keyCtr', sidCtr') /\ DbOK(disk', keyCtr', sidCtr')
  <2>1. RowIn(<<"owner", thr[t].sid>>, thr[t].owner, keyCtr, sidCtr)
    BY <1>2 DEF RowIn
  <2> QED
    BY <1>1, <2>1, DbPut
<1> QED
  BY <1>1, <1>3, <1>4, <1>5, CountSame DEF AnyInv

(* What a trim has to look at. *)
Carves == [i \in 1 .. Len(index) |-> [op |-> "carve", key |-> index[i]]]

LEMMA AnyTrim ==
  ASSUME AnyInv, NEW t \in Threads, Trim(t)
  PROVE  AnyInv' /\ Moved(t, Carves) /\ Carves \in Seq(Ops) /\ Len(Carves) = Len(index)
<1>1. /\ Does(t, "trim") /\ TablesOK /\ ThreadsOK /\ Then(t, Carves)
      /\ UNCHANGED <<mem, live, recs, grace, rows, disk, told, known>>
  BY DEF Trim, AnyInv, Carves
<1>2. /\ Todo(t) # <<>> /\ Todo(t)[1].op = "trim" /\ thr[t].kind \in {"lock", "locku"}
  <2>1. "trim" \notin RetireOps
    BY DEF RetireOps
  <2> QED
    BY <1>1, <2>1, HeadIs, AskHead
<1>3. keyCtr \in Nat /\ index \in Seq(1 .. keyCtr - 1) /\ Len(index) \in Nat
  BY <1>1 DEF TablesOK
<1>4. ASSUME NEW i \in 1 .. Len(index)
      PROVE  /\ index[i] \in 1 .. keyCtr - 1 /\ Carves[i] \in Ops /\ Carves[i].op = "carve"
             /\ Carves[i].key = index[i]
  <2>1. index[i] \in 1 .. keyCtr - 1
    BY <1>3
  <2>2. index[i] \in Nat /\ "carve" \in KeyOps
    BY <2>1 DEF KeyOps
  <2>3. Carves[i] = [op |-> "carve", key |-> index[i]]
    BY DEF Carves
  <2> QED
    BY <2>1, <2>2, <2>3, KeyOp
<1>5. Carves \in [1 .. Len(index) -> Ops]
  BY <1>4 DEF Carves
<1>6. Carves \in Seq(Ops) /\ Len(Carves) = Len(index)
  BY <1>3, <1>5
<1>7. \A i \in 1 .. Len(Carves) : OpOK(thr[t], Carves[i], locks', keyCtr')
  BY <1>1, <1>2, <1>4, <1>6 DEF OpOK, AskOps, mem
<1>8. LeadOK(Carves)
  BY <1>3, <1>4, <1>6 DEF LeadOK, ListOK, LaterOps
<1>9. ThreadsOK' /\ Moved(t, Carves)
  <2>1. MayLead(Carves, Todo(t))
    BY <1>2, <1>8 DEF MayLead
  <2>2. Grows(locks, locks', keyCtr, keyCtr')
    BY <1>1, GrowsSame DEF mem
  <2> QED
    BY <1>1, <1>2, <1>6, <1>7, <2>1, <2>2, ThreadThen
<1> QED
  BY <1>1, <1>6, <1>9, Still

LEMMA SurvivorTyped ==
  ASSUME NEW held \in Range64, NEW cut \in Range64
  PROVE  /\ LeftSurvivor(held, cut) \subseteq Range64 /\ RightSurvivor(held, cut) \subseteq Range64
         /\ \A x, y \in LeftSurvivor(held, cut) : x = y
         /\ \A x, y \in RightSurvivor(held, cut) : x = y
<1>1. 2 ^ Width \in Int
  BY WidthAssumption
<1>2. 2 ^ Width > 0
  <2>1. held.offset \in 0 .. 2 ^ Width - 1
    BY DEF Range64, U64
  <2> QED
    BY <1>1, <2>1
<1>3. /\ held.offset \in U64 /\ cut.offset \in U64 /\ held.length \in U64 /\ cut.length \in U64
      /\ \A n : n \in U64 <=> n \in Nat /\ n < 2 ^ Width
  BY <1>1 DEF Range64, U64
<1>4. LeftSurvivor(held, cut) \subseteq Range64 /\ \A x, y \in LeftSurvivor(held, cut) : x = y
  <2>1. CASE held.offset < cut.offset
    <3>1. cut.offset - held.offset \in U64
      BY <1>1, <1>3, <2>1
    <3>2. [offset |-> held.offset, length |-> cut.offset - held.offset] \in Range64
      BY <1>3, <3>1 DEF Range64
    <3> QED
      BY <2>1, <3>2 DEF LeftSurvivor
  <2>2. CASE ~ (held.offset < cut.offset)
    BY <2>2 DEF LeftSurvivor
  <2> QED
    BY <2>1, <2>2
<1>5. \A a, b \in U64 : WrapAdd(a, b) \in U64
  <2> SUFFICES ASSUME NEW a \in U64, NEW b \in U64 PROVE WrapAdd(a, b) \in U64
    OBVIOUS
  <2>1. a + b \in Int
    BY <1>3
  <2>2. (a + b) % (2 ^ Width) \in 0 .. 2 ^ Width - 1
    BY <1>1, <1>2, <2>1
  <2> QED
    BY <2>2 DEF WrapAdd, U64
<1> DEFINE ce == WrapAdd(cut.offset, cut.length)
           he == WrapAdd(held.offset, held.length)
<1>6. ce \in U64 /\ he \in U64
  BY <1>3, <1>5
<1>7. \/ RightSurvivor(held, cut) = {}
      \/ RightSurvivor(held, cut) = {[offset |-> ce, length |-> 0]}
      \/ he > ce /\ RightSurvivor(held, cut) = {[offset |-> ce, length |-> he - ce]}
  BY DEF RightSurvivor
<1> HIDE DEF ce, he
<1>8. 0 \in U64 /\ (he > ce => he - ce \in U64)
  BY <1>1, <1>2, <1>3, <1>6
<1>9. /\ [offset |-> ce, length |-> 0] \in Range64
      /\ he > ce => [offset |-> ce, length |-> he - ce] \in Range64
  BY <1>6, <1>8 DEF Range64
<1>10. RightSurvivor(held, cut) \subseteq Range64 /\ \A x, y \in RightSurvivor(held, cut) : x = y
  BY <1>7, <1>9
<1> QED
  BY <1>4, <1>10

(* The survivors of a carve, as operations. *)
LEMMA SurvivorsAre ==
  ASSUME NEW held \in LockVals, NEW cut \in Range64
  PROVE  LET S == Survivors(held, cut)
             R == LeftSurvivor(held.range, cut) \cup RightSurvivor(held.range, cut)
         IN  /\ S \in Seq(Ops) /\ Len(S) \in Nat
             /\ \A i \in 1 .. Len(S) :
                   /\ S[i].op = "insert" /\ S[i].lock \in LockVals
                   /\ S[i].lock.owner = held.owner /\ S[i].lock.type = held.type
                   /\ S[i].lock.range \in R
             /\ \A r \in R : \E i \in 1 .. Len(S) :
                   S[i].op = "insert" /\ S[i].lock = [owner |-> held.owner, type |-> held.type, range |-> r]
<1> DEFINE Made(T) == IF T = {} THEN <<>> ELSE <<Add(held.owner, held.type, CHOOSE x \in T : TRUE)>>
           Fits(T, s) ==
             /\ s \in Seq(Ops) /\ Len(s) \in Nat
             /\ \A i \in 1 .. Len(s) :
                   /\ s[i].op = "insert" /\ s[i].lock \in LockVals
                   /\ s[i].lock.owner = held.owner /\ s[i].lock.type = held.type
                   /\ s[i].lock.range \in T
             /\ \A r \in T : \E i \in 1 .. Len(s) :
                   s[i].op = "insert" /\ s[i].lock = [owner |-> held.owner, type |-> held.type, range |-> r]
<1>1. held.owner \in Owners /\ held.type \in LockTypes /\ held.range \in Range64
  BY DEF LockVals
<1>2. ASSUME NEW T, T \subseteq Range64, \A x, y \in T : x = y PROVE Fits(T, Made(T))
  <2>1. CASE T = {}
    <3>1. Made(T) = <<>> /\ Len(<<>>) = 0 /\ <<>> \in Seq(Ops)
      BY <2>1
    <3> QED
      BY <2>1, <3>1
  <2>2. CASE T # {}
    <3> DEFINE c == CHOOSE x \in T : TRUE
               a == Add(held.owner, held.type, c)
    <3>1. c \in T
      BY <2>2
    <3> HIDE DEF c
    <3>2. /\ a \in Ops /\ a.op = "insert" /\ a.lock \in LockVals
          /\ a.lock = [owner |-> held.owner, type |-> held.type, range |-> c]
      BY <1>1, <1>2, <3>1, InsertOp
    <3>3. a.lock.owner = held.owner /\ a.lock.type = held.type /\ a.lock.range = c
      BY <3>2
    <3>4. Made(T) = <<a>>
      BY <2>2 DEF c
    <3> HIDE DEF a
    <3>5. <<a>> \in Seq(Ops) /\ Len(<<a>>) = 1 /\ <<a>>[1] = a
      BY <3>2
    <3>6. \A r \in T : r = c
      BY <1>2, <3>1
    <3> QED
      BY <3>1, <3>2, <3>3, <3>4, <3>5, <3>6
  <2> QED
    BY <2>1, <2>2
<1> DEFINE A == LeftSurvivor(held.range, cut)
           B == RightSurvivor(held.range, cut)
<1>3. /\ A \subseteq Range64 /\ B \subseteq Range64
      /\ (\A x, y \in A : x = y) /\ (\A x, y \in B : x = y)
  BY <1>1, SurvivorTyped
<1> HIDE DEF Fits, Made
<1>4. Fits(A, Made(A)) /\ Fits(B, Made(B))
  <2> HIDE DEF A, B
  <2> QED
    BY <1>2, <1>3
<1>5. Survivors(held, cut) = Made(A) \o Made(B)
  BY DEF Survivors, Made
<1> DEFINE p == Made(A)
           q == Made(B)
<1> HIDE DEF p, q, A, B
<1>6. p \in Seq(Ops) /\ q \in Seq(Ops) /\ Fits(A, p) /\ Fits(B, q)
  BY <1>4 DEF p, q, Fits
<1>7. /\ p \o q \in Seq(Ops) /\ Len(p \o q) = Len(p) + Len(q) /\ Len(p) \in Nat /\ Len(q) \in Nat
      /\ \A i \in 1 .. Len(p) : (p \o q)[i] = p[i]
      /\ \A i \in 1 .. Len(q) : (p \o q)[Len(p) + i] = q[i]
  BY <1>6, Concat
<1> DEFINE s == p \o q
<1> HIDE DEF s
<1>8. /\ s \in Seq(Ops) /\ Len(s) = Len(p) + Len(q) /\ Len(s) \in Nat
      /\ \A i \in 1 .. Len(p) : i \in 1 .. Len(s) /\ s[i] = p[i]
      /\ \A i \in 1 .. Len(q) : Len(p) + i \in 1 .. Len(s) /\ s[Len(p) + i] = q[i]
  BY <1>7 DEF s
<1>9. \A i \in 1 .. Len(s) : \/ \E j \in 1 .. Len(p) : s[i] = p[j]
                             \/ \E j \in 1 .. Len(q) : s[i] = q[j]
  <2> TAKE i \in 1 .. Len(s)
  <2>1. CASE i <= Len(p)
    BY <1>7, <1>8, <2>1
  <2>2. CASE i > Len(p)
    <3>1. i - Len(p) \in 1 .. Len(q) /\ Len(p) + (i - Len(p)) = i
      BY <1>7, <1>8, <2>2
    <3>2. s[i] = q[i - Len(p)]
      BY <1>8, <3>1
    <3> QED
      BY <3>1, <3>2
  <2> QED
    BY <1>7, <2>1, <2>2
<1>10. \A i \in 1 .. Len(s) :
          /\ s[i].op = "insert" /\ s[i].lock \in LockVals
          /\ s[i].lock.owner = held.owner /\ s[i].lock.type = held.type
          /\ s[i].lock.range \in A \cup B
  BY <1>6, <1>9 DEF Fits
<1>11. \A r \in A \cup B : \E i \in 1 .. Len(s) :
          s[i].op = "insert" /\ s[i].lock = [owner |-> held.owner, type |-> held.type, range |-> r]
  <2> TAKE r \in A \cup B
  <2>1. CASE r \in A
    <3>1. PICK i \in 1 .. Len(p) : p[i].op = "insert"
                    /\ p[i].lock = [owner |-> held.owner, type |-> held.type, range |-> r]
      BY <1>6, <2>1 DEF Fits
    <3> QED
      BY <1>8, <3>1
  <2>2. CASE r \in B
    <3>1. PICK i \in 1 .. Len(q) : q[i].op = "insert"
                    /\ q[i].lock = [owner |-> held.owner, type |-> held.type, range |-> r]
      BY <1>6, <2>2 DEF Fits
    <3> QED
      BY <1>8, <3>1
  <2> QED
    BY <2>1, <2>2
<1> QED
  BY <1>5, <1>8, <1>10, <1>11 DEF s, p, q, A, B

LEMMA ForgetCounts ==
  ASSUME TablesOK, CountOK, NEW k \in DOMAIN locks, Forget(k)
  PROVE  CountOK' /\ locks' = Del(locks, {k})
<1>1. /\ keyCtr \in Nat /\ DOMAIN locks \subseteq 1 .. keyCtr - 1
      /\ count \in [Clients -> Nat]
  BY DEF TablesOK, CountOK
<1>0. PICK c \in Clients : c = ClientOf[locks[k].owner]
  BY LocksAssumption DEF TablesOK, LockVals
<1>2. /\ locks' = Del(locks, {k})
      /\ count' = [count EXCEPT ![c] = IF @ = 0 THEN 0 ELSE @ - 1]
  BY <1>0 DEF Forget
<1>3. DOMAIN locks' = DOMAIN locks \ {k} /\ \A j \in DOMAIN locks' : locks'[j] = locks[j]
  BY <1>2 DEF Del
<1>4. Entries(c)' = Entries(c) \ {k} /\ \A d \in Clients : d # c => Entries(d)' = Entries(d)
  BY <1>0, <1>3 DEF Entries
<1>5. IsFiniteSet(Entries(c)) /\ k \in Entries(c)
  <2>1. IsFiniteSet(1 .. keyCtr - 1)
    BY <1>1, FS_Interval
  <2>2. Entries(c) \in SUBSET (1 .. keyCtr - 1)
    BY <1>1 DEF Entries
  <2> QED
    BY <1>0, <2>1, <2>2, FS_Subset DEF Entries
<1>6. Cardinality(Entries(c)') = Cardinality(Entries(c)) - 1
  BY <1>4, <1>5, FS_RemoveElement
<1>7. Cardinality(Entries(c)) \in Nat /\ Cardinality(Entries(c)') \in Nat
  BY <1>4, <1>5, FS_CardinalityType, FS_RemoveElement
<1>8. count[c] = Cardinality(Entries(c)) /\ count[c] # 0
  BY <1>1, <1>6, <1>7 DEF CountOK
<1>9. count'[c] = count[c] - 1 /\ \A d \in Clients : d # c => count'[d] = count[d]
  BY <1>1, <1>2, <1>8
<1>10. count' \in [Clients -> Nat]
  BY <1>1, <1>2, <1>8
<1>11. \A d \in Clients : count'[d] = Cardinality(Entries(d)')
  BY <1>4, <1>6, <1>8, <1>9 DEF CountOK
<1> QED
  BY <1>2, <1>10, <1>11 DEF CountOK

LEMMA ForgetGrows ==
  ASSUME TablesOK, NEW X, locks' = Del(locks, X), UNCHANGED keyCtr
  PROVE  Grows(locks, locks', keyCtr, keyCtr')
BY DEF Grows, TablesOK, Del

LEMMA RemovalIs ==
  ASSUME NEW k \in Nat
  PROVE  LET r == Removal(k)
         IN  /\ r \in Seq(Ops) /\ Len(r) = 2 /\ r[1].op = "unindex" /\ r[1].key = k
             /\ r[2].op = "unrow" /\ r[2].key = k
<1> DEFINE u == [op |-> "unindex", key |-> k]
           w == [op |-> "unrow", key |-> k]
<1>1. u \in Ops /\ w \in Ops /\ u.op = "unindex" /\ w.op = "unrow" /\ u.key = k /\ w.key = k
  BY KeyOp DEF KeyOps
<1>2. Removal(k) = <<u, w>>
  BY DEF Removal
<1> HIDE DEF u, w
<1> QED
  BY <1>1, <1>2

(* What the carve of an entry puts before the rest of the trim. *)
Cut(t, k) == Removal(k) \o Survivors(locks[k], thr[t].range)

Inserts(S) == S \in Seq(Ops) /\ \A i \in 1 .. Len(S) : S[i].op = "insert"

CutShape(r, k, S) ==
    /\ r \in Seq(Ops) /\ Len(r) = Len(S) + 2 /\ Len(S) \in Nat
    /\ r[1].op = "unindex" /\ r[1].key = k /\ r[2].op = "unrow" /\ r[2].key = k
    /\ \A i \in 3 .. Len(r) : i - 2 \in 1 .. Len(S) /\ r[i] = S[i - 2]
    /\ LeadOK(r)

LEMMA CutIs ==
  ASSUME NEW k \in Nat, NEW S, Inserts(S)
  PROVE  CutShape(Removal(k) \o S, k, S)
<1> DEFINE p == Removal(k)
           r == p \o S
<1>0. S \in Seq(Ops) /\ \A i \in 1 .. Len(S) : S[i].op = "insert"
  BY DEF Inserts
<1>1. /\ p \in Seq(Ops) /\ Len(p) = 2 /\ p[1].op = "unindex" /\ p[1].key = k
      /\ p[2].op = "unrow" /\ p[2].key = k
  BY RemovalIs
<1> HIDE DEF p
<1>2. /\ r \in Seq(Ops) /\ Len(r) = Len(p) + Len(S) /\ Len(S) \in Nat
      /\ \A i \in 1 .. Len(p) : r[i] = p[i]
      /\ \A i \in 1 .. Len(S) : r[Len(p) + i] = S[i]
  <2>1. p \in Seq(Ops)
    BY <1>1
  <2> QED
    BY <1>0, <2>1, Concat
<1> HIDE DEF r
<1>3. r[1] = p[1] /\ r[2] = p[2] /\ Len(r) = Len(S) + 2
  BY <1>1, <1>2
<1>4. \A i \in 1 .. Len(S) : i + 2 \in 3 .. Len(r) /\ r[i + 2] = S[i]
  BY <1>1, <1>2
<1>5. \A i \in 3 .. Len(r) : i - 2 \in 1 .. Len(S) /\ r[i] = S[i - 2]
  <2> TAKE i \in 3 .. Len(r)
  <2>1. i - 2 \in 1 .. Len(S) /\ (i - 2) + 2 = i
    BY <1>2, <1>3
  <2> QED
    BY <1>4, <2>1
<1>6. LeadOK(r)
  BY <1>0, <1>1, <1>2, <1>3, <1>5 DEF LeadOK, ListOK, LaterOps
<1>7. CutShape(r, k, S)
  BY <1>1, <1>2, <1>3, <1>5, <1>6 DEF CutShape
<1> QED
  BY <1>7 DEF r, p

LEMMA AnyCarve ==
  ASSUME AnyInv, NEW t \in Threads, Carve(t)
  PROVE  /\ AnyInv' /\ thr[t].kind \in {"lock", "locku"}
         /\ UNCHANGED <<index, keyCtr, sidCtr, owners, states, live, recs, grace, rows, disk, told, known>>
         /\ LET k == NextOp(t).key
            IN  IF k \in DOMAIN locks /\ OwnedBy(k, thr[t].owner)
                     /\ Overlaps(locks[k].range, thr[t].range)
                THEN locks' = Del(locks, {k}) /\ Moved(t, Cut(t, k))
                ELSE UNCHANGED locks /\ Moved(t, <<>>)
<1>1. PICK k : k = NextOp(t).key
  OBVIOUS
<1> DEFINE hit == k \in DOMAIN locks /\ OwnedBy(k, thr[t].owner)
                     /\ Overlaps(locks[k].range, thr[t].range)
<1>2. /\ Does(t, "carve") /\ TablesOK /\ ThreadsOK /\ CountOK
      /\ DbOK(rows, keyCtr, sidCtr) /\ DbOK(disk, keyCtr, sidCtr)
      /\ UNCHANGED <<index, keyCtr, sidCtr, owners, states, live, recs, grace, rows, disk, told, known>>
      /\ IF hit THEN Forget(k) /\ Then(t, Cut(t, k)) ELSE Then(t, <<>>) /\ UNCHANGED <<locks, count>>
  BY <1>1 DEF Carve, AnyInv, Cut
<1>3. /\ Todo(t) # <<>> /\ Todo(t)[1].op = "carve" /\ thr[t].kind \in {"lock", "locku"}
      /\ thr[t] \in Asks /\ k \in 1 .. keyCtr - 1
  <2>1. "carve" \notin RetireOps /\ "carve" \in KeyOps
    BY DEF RetireOps, KeyOps
  <2>2. Todo(t) # <<>> /\ Todo(t)[1].op = "carve" /\ OpOK(thr[t], NextOp(t), locks, keyCtr)
        /\ NextOp(t).op = "carve"
    BY <1>2, HeadIs
  <2> QED
    BY <1>1, <1>2, <2>1, <2>2, AskHead DEF OpOK
<1>4. CASE hit
  <2>1. CountOK' /\ locks' = Del(locks, {k})
    BY <1>2, <1>4, ForgetCounts
  <2>2. Grows(locks, locks', keyCtr, keyCtr')
    BY <1>2, <2>1, ForgetGrows
  <2>3. locks[k] \in LockVals /\ thr[t].range \in Range64 /\ locks[k].owner = thr[t].owner
    BY <1>2, <1>3, <1>4 DEF TablesOK, Asks, OwnedBy
  <2>4. PICK S : S = Survivors(locks[k], thr[t].range)
    OBVIOUS
  <2>5. /\ S \in Seq(Ops)
        /\ \A i \in 1 .. Len(S) : S[i].op = "insert" /\ S[i].lock.owner = thr[t].owner
    BY <2>3, <2>4, SurvivorsAre
  <2>6. PICK r : r = Cut(t, k)
    OBVIOUS
  <2>7. r = Removal(k) \o S /\ k \in Nat
    BY <1>3, <2>4, <2>6 DEF Cut
  <2>8. /\ r \in Seq(Ops) /\ Len(r) = Len(S) + 2 /\ Len(S) \in Nat /\ LeadOK(r)
        /\ r[1].op = "unindex" /\ r[1].key = k /\ r[2].op = "unrow" /\ r[2].key = k
        /\ \A i \in 3 .. Len(r) : i - 2 \in 1 .. Len(S) /\ r[i] = S[i - 2]
    <3>1. Inserts(S) /\ CutShape(r, k, S)
      BY <2>5, <2>7, CutIs DEF Inserts
    <3> QED
      BY <3>1 DEF CutShape
  <2>9. \A i \in 1 .. Len(r) : OpOK(thr[t], r[i], locks', keyCtr')
    <3>1. k \in 1 .. keyCtr' - 1 /\ k \notin DOMAIN locks'
      BY <1>2, <1>3, <2>1 DEF Del
    <3>2. OpOK(thr[t], r[1], locks', keyCtr') /\ OpOK(thr[t], r[2], locks', keyCtr')
      BY <1>3, <2>8, <3>1 DEF OpOK, AskOps
    <3>3. \A i \in 3 .. Len(r) : OpOK(thr[t], r[i], locks', keyCtr')
      <4> TAKE i \in 3 .. Len(r)
      <4>1. r[i].op = "insert" /\ r[i].lock.owner = thr[t].owner
        BY <2>5, <2>8
      <4> QED
        BY <1>3, <4>1 DEF OpOK, AskOps, KeyOps
    <3>4. \A i \in 1 .. Len(r) : i = 1 \/ i = 2 \/ i \in 3 .. Len(r)
      BY <2>8
    <3> QED
      BY <3>2, <3>3, <3>4
  <2>10. ThreadsOK' /\ Moved(t, r)
    <3>1. MayLead(r, Todo(t))
      BY <1>3, <2>8 DEF MayLead
    <3>2. Then(t, r)
      BY <1>2, <1>4, <2>6
    <3> QED
      BY <1>2, <1>3, <2>2, <2>8, <2>9, <3>1, <3>2, ThreadThen
  <2>11. TablesOK'
    <3>1. /\ DOMAIN locks' \subseteq 1 .. keyCtr' - 1
          /\ \A j \in DOMAIN locks' : locks'[j] \in LockVals
      BY <1>2, <2>1 DEF TablesOK, Del
    <3> QED
      BY <1>2, <3>1 DEF TablesOK
  <2> QED
    BY <1>1, <1>2, <1>3, <1>4, <2>1, <2>6, <2>10, <2>11 DEF AnyInv
<1>5. CASE ~ hit
  <2>1. ThreadsOK' /\ Moved(t, <<>>)
    BY <1>2, <1>3, <1>5, GrowsSame, ThenNothing
  <2>2. TablesOK'
    BY <1>2, <1>5 DEF TablesOK
  <2> QED
    BY <1>1, <1>2, <1>3, <1>5, <2>1, <2>2, CountSame DEF AnyInv
<1> QED
  BY <1>4, <1>5

LEMMA AnyRemove ==
  ASSUME AnyInv, NEW t \in Threads, Remove(t)
  PROVE  /\ AnyInv' /\ thr[t].kind = "retire"
         /\ UNCHANGED <<index, keyCtr, sidCtr, owners, states, live, recs, grace, rows, disk, told, known>>
         /\ LET k == NextOp(t).key
            IN  IF k \in DOMAIN locks
                THEN /\ locks' = Del(locks, {k}) /\ Moved(t, Removal(k))
                     /\ ClientOf[locks[k].owner] = thr[t].client
                ELSE UNCHANGED locks /\ Moved(t, <<>>)
<1>1. PICK k : k = NextOp(t).key
  OBVIOUS
<1>2. /\ Does(t, "remove") /\ TablesOK /\ ThreadsOK /\ CountOK
      /\ DbOK(rows, keyCtr, sidCtr) /\ DbOK(disk, keyCtr, sidCtr)
      /\ UNCHANGED <<index, keyCtr, sidCtr, owners, states, live, recs, grace, rows, disk, told, known>>
      /\ IF k \in DOMAIN locks THEN Forget(k) /\ Then(t, Removal(k))
         ELSE Then(t, <<>>) /\ UNCHANGED <<locks, count>>
  BY <1>1 DEF Remove, AnyInv
<1>3. /\ Todo(t) # <<>> /\ Todo(t)[1].op = "remove" /\ thr[t].kind = "retire"
      /\ k \in 1 .. keyCtr - 1 /\ k \in Nat
      /\ k \in DOMAIN locks => ClientOf[locks[k].owner] = thr[t].client
  <2>1. "remove" \notin AskOps /\ "remove" \in KeyOps
    BY DEF AskOps, KeyOps
  <2>2. Todo(t) # <<>> /\ Todo(t)[1].op = "remove" /\ OpOK(thr[t], NextOp(t), locks, keyCtr)
        /\ NextOp(t).op = "remove"
    BY <1>2, HeadIs
  <2> QED
    BY <1>1, <1>2, <2>1, <2>2, RetireHead DEF OpOK
<1>4. CASE k \in DOMAIN locks
  <2>1. CountOK' /\ locks' = Del(locks, {k})
    BY <1>2, <1>4, ForgetCounts
  <2>2. Grows(locks, locks', keyCtr, keyCtr')
    BY <1>2, <2>1, ForgetGrows
  <2>3. PICK r : r = Removal(k)
    OBVIOUS
  <2>4. /\ r \in Seq(Ops) /\ Len(r) = 2 /\ r[1].op = "unindex" /\ r[1].key = k
        /\ r[2].op = "unrow" /\ r[2].key = k
    BY <1>3, <2>3, RemovalIs
  <2>5. \A i \in 1 .. Len(r) : OpOK(thr[t], r[i], locks', keyCtr')
    <3>1. k \in 1 .. keyCtr' - 1 /\ k \notin DOMAIN locks'
      BY <1>2, <1>3, <2>1 DEF Del
    <3>2. OpOK(thr[t], r[1], locks', keyCtr') /\ OpOK(thr[t], r[2], locks', keyCtr')
      BY <1>3, <2>4, <3>1 DEF OpOK, RetireOps
    <3>3. \A i \in 1 .. Len(r) : i = 1 \/ i = 2
      BY <2>4
    <3> QED
      BY <3>2, <3>3
  <2>6. ThreadsOK' /\ Moved(t, r)
    <3>1. MayLead(r, Todo(t))
      BY <1>3, <2>4 DEF MayLead, LeadOK, ListOK
    <3>2. Then(t, r)
      BY <1>2, <1>4, <2>3
    <3> QED
      BY <1>2, <1>3, <2>2, <2>4, <2>5, <3>1, <3>2, ThreadThen
  <2>7. TablesOK'
    <3>1. /\ DOMAIN locks' \subseteq 1 .. keyCtr' - 1
          /\ \A j \in DOMAIN locks' : locks'[j] \in LockVals
      BY <1>2, <2>1 DEF TablesOK, Del
    <3> QED
      BY <1>2, <3>1 DEF TablesOK
  <2> QED
    BY <1>1, <1>2, <1>3, <1>4, <2>1, <2>3, <2>6, <2>7 DEF AnyInv
<1>5. CASE k \notin DOMAIN locks
  <2>1. ThreadsOK' /\ Moved(t, <<>>)
    BY <1>2, <1>3, <1>5, GrowsSame, ThenNothing
  <2>2. TablesOK'
    BY <1>2, <1>5 DEF TablesOK
  <2> QED
    BY <1>1, <1>2, <1>3, <1>5, <2>1, <2>2, CountSame DEF AnyInv
<1> QED
  BY <1>4, <1>5

LEMMA UnlistedIs ==
  ASSUME NEW S, NEW q \in Seq(S), NEW k
  PROVE  LET r == Unlisted(q, k)
         IN  /\ r \in Seq(S)
             /\ (\A i, j \in 1 .. Len(q) : q[i] = q[j] => i = j) =>
                   /\ \A i, j \in 1 .. Len(r) : r[i] = r[j] => i = j
                   /\ \A i \in 1 .. Len(r) : r[i] # k /\ \E j \in 1 .. Len(q) : q[j] = r[i]
                   /\ \A j \in 1 .. Len(q) : q[j] # k => \E i \in 1 .. Len(r) : r[i] = q[j]
<1>1. Len(q) \in Nat /\ \A i \in 1 .. Len(q) : q[i] \in S
  OBVIOUS
<1>2. CASE ~ \E i \in 1 .. Len(q) : q[i] = k
  <2>1. Unlisted(q, k) = q
    BY <1>2 DEF Unlisted
  <2> QED
    BY <1>2, <2>1
<1>3. CASE \E i \in 1 .. Len(q) : q[i] = k
  <2> DEFINE p == CHOOSE i \in 1 .. Len(q) : q[i] = k
             r == [i \in 1 .. Len(q) - 1 |-> IF i < p THEN q[i] ELSE q[i + 1]]
  <2>1. p \in 1 .. Len(q) /\ q[p] = k
    BY <1>3
  <2>2. Unlisted(q, k) = r
    BY <1>3 DEF Unlisted
  <2> HIDE DEF p
  <2>3. r \in [1 .. Len(q) - 1 -> S] /\ Len(q) - 1 \in Nat
    BY <1>1, <2>1
  <2>4. r \in Seq(S) /\ Len(r) = Len(q) - 1
    BY <2>3
  <2>5. \A i \in 1 .. Len(q) - 1 : (i < p => r[i] = q[i]) /\ (i >= p => r[i] = q[i + 1])
    BY <1>1, <2>1
  <2> HIDE DEF r
  <2>6. ASSUME \A i, j \in 1 .. Len(q) : q[i] = q[j] => i = j
        PROVE  /\ \A i, j \in 1 .. Len(r) : r[i] = r[j] => i = j
               /\ \A i \in 1 .. Len(r) : r[i] # k /\ \E j \in 1 .. Len(q) : q[j] = r[i]
               /\ \A j \in 1 .. Len(q) : q[j] # k => \E i \in 1 .. Len(r) : r[i] = q[j]
    <3>1. \A i \in 1 .. Len(r) : \E m \in 1 .. Len(q) :
             /\ r[i] = q[m] /\ m # p /\ (i < p => m = i) /\ (i >= p => m = i + 1)
      <4> TAKE i \in 1 .. Len(r)
      <4>1. i \in 1 .. Len(q) - 1 /\ i \in 1 .. Len(q) /\ i + 1 \in 1 .. Len(q)
        BY <1>1, <2>4
      <4>2. CASE i < p
        BY <1>1, <2>1, <2>5, <4>1, <4>2
      <4>3. CASE i >= p
        BY <1>1, <2>1, <2>5, <4>1, <4>3
      <4> QED
        BY <2>1, <4>1, <4>2, <4>3
    <3>2. \A i \in 1 .. Len(r) : r[i] # k /\ \E j \in 1 .. Len(q) : q[j] = r[i]
      BY <2>1, <2>6, <3>1
    <3>3. \A i, j \in 1 .. Len(r) : r[i] = r[j] => i = j
      <4> TAKE i, j \in 1 .. Len(r)
      <4> HAVE r[i] = r[j]
      <4>1. PICK m \in 1 .. Len(q) :
               r[i] = q[m] /\ m # p /\ (i < p => m = i) /\ (i >= p => m = i + 1)
        BY <3>1
      <4>2. PICK n \in 1 .. Len(q) :
               r[j] = q[n] /\ n # p /\ (j < p => n = j) /\ (j >= p => n = j + 1)
        BY <3>1
      <4>3. m = n
        BY <2>6, <4>1, <4>2
      <4> QED
        BY <1>1, <2>1, <2>4, <4>1, <4>2, <4>3
    <3>4. \A j \in 1 .. Len(q) : q[j] # k => \E i \in 1 .. Len(r) : r[i] = q[j]
      <4> TAKE j \in 1 .. Len(q)
      <4> HAVE q[j] # k
      <4>1. j # p
        BY <2>1
      <4>2. CASE j < p
        <5>1. j \in 1 .. Len(q) - 1
          BY <1>1, <2>1, <4>2
        <5> QED
          BY <2>4, <2>5, <4>2, <5>1
      <4>3. CASE j > p
        <5>1. j - 1 \in 1 .. Len(q) - 1 /\ j - 1 >= p /\ (j - 1) + 1 = j
          BY <1>1, <2>1, <4>3
        <5>2. r[j - 1] = q[j]
          BY <2>5, <5>1
        <5> QED
          BY <2>4, <5>1, <5>2
      <4> QED
        BY <1>1, <2>1, <4>1, <4>2, <4>3
    <3> QED
      BY <3>2, <3>3, <3>4
  <2> QED
    BY <2>2, <2>4, <2>6
<1> QED
  BY <1>2, <1>3

(* What an unindex puts before the rest. *)
Emptied == IF index # <<>> /\ index' = <<>> THEN <<[op |-> "dropfh"]>> ELSE <<>>

LEMMA AnyUnindex ==
  ASSUME AnyInv, NEW t \in Threads, Unindex(t)
  PROVE  /\ AnyInv' /\ index' = Unlisted(index, NextOp(t).key) /\ Moved(t, Emptied)
         /\ UNCHANGED <<locks, keyCtr, sidCtr, owners, states, live, recs, grace, rows, disk, told, known>>
<1>1. /\ Does(t, "unindex") /\ TablesOK /\ ThreadsOK /\ CountOK
      /\ DbOK(rows, keyCtr, sidCtr) /\ DbOK(disk, keyCtr, sidCtr)
      /\ index' = Unlisted(index, NextOp(t).key) /\ Then(t, Emptied)
      /\ UNCHANGED <<locks, count, keyCtr, sidCtr, owners, states, live, recs, grace, rows, disk,
                     told, known>>
  BY DEF Unindex, AnyInv, Emptied
<1>2. Todo(t) # <<>> /\ Todo(t)[1].op = "unindex" /\ thr[t].kind \in {"lock", "locku", "retire"}
  BY <1>1, HeadIs
<1>3. Grows(locks, locks', keyCtr, keyCtr')
  BY <1>1, GrowsSame
<1>4. PICK r : r = Emptied
  OBVIOUS
<1>5. ThreadsOK' /\ Moved(t, r)
  <2>1. CASE r = <<>>
    BY <1>1, <1>2, <1>3, <1>4, <2>1, ThenNothing
  <2>2. CASE r = <<[op |-> "dropfh"]>>
    <3> DEFINE d == [op |-> "dropfh"]
    <3>1. d \in Ops /\ d.op = "dropfh"
      BY BareOp DEF BareOps
    <3> HIDE DEF d
    <3>2. r = <<d>>
      BY <2>2 DEF d
    <3>3. r \in Seq(Ops) /\ Len(r) = 1 /\ r[1].op = "dropfh"
      BY <3>1, <3>2
    <3>4. \A i \in 1 .. Len(r) : OpOK(thr[t], r[i], locks', keyCtr')
      BY <1>2, <3>3 DEF OpOK, AskOps, RetireOps, KeyOps
    <3>5. MayLead(r, Todo(t))
      BY <1>2, <3>3 DEF MayLead
    <3> QED
      BY <1>1, <1>2, <1>3, <1>4, <3>3, <3>4, <3>5, ThreadThen
  <2> QED
    BY <1>4, <2>1, <2>2 DEF Emptied
<1>6. TablesOK'
  <2>1. index' \in Seq(1 .. keyCtr - 1)
    BY <1>1, UnlistedIs DEF TablesOK
  <2> QED
    BY <1>1, <2>1 DEF TablesOK
<1> QED
  BY <1>1, <1>4, <1>5, <1>6, CountSame DEF AnyInv

LEMMA AnyDropFh ==
  ASSUME AnyInv, NEW t \in Threads, DropFh(t)
  PROVE  AnyInv' /\ Moved(t, <<>>)
<1>1. /\ Does(t, "dropfh") /\ TablesOK /\ ThreadsOK /\ CountOK
      /\ DbOK(rows, keyCtr, sidCtr) /\ DbOK(disk, keyCtr, sidCtr)
      /\ index' = <<>> /\ Then(t, <<>>)
      /\ UNCHANGED <<locks, count, keyCtr, sidCtr, owners, states, live, recs, grace, rows, disk,
                     told, known>>
  BY DEF DropFh, AnyInv
<1>2. ThreadsOK' /\ Moved(t, <<>>)
  BY <1>1, HeadIs, GrowsSame, ThenNothing
<1>3. TablesOK'
  <2>1. index' \in Seq(1 .. keyCtr - 1)
    BY <1>1
  <2> QED
    BY <1>1, <2>1 DEF TablesOK
<1> QED
  BY <1>1, <1>2, <1>3, CountSame DEF AnyInv

LEMMA AnyUnrow ==
  ASSUME AnyInv, NEW t \in Threads, Unrow(t)
  PROVE  AnyInv' /\ Moved(t, <<>>)
<1>1. /\ Does(t, "unrow") /\ TablesOK /\ ThreadsOK /\ CountOK
      /\ DbOK(rows, keyCtr, sidCtr) /\ DbOK(disk, keyCtr, sidCtr)
      /\ rows' = Del(rows, {<<"lock", NextOp(t).key>>}) /\ Then(t, <<>>)
      /\ UNCHANGED <<locks, index, count, keyCtr, sidCtr, owners, states, live, recs, grace, disk,
                     told, known>>
  BY DEF Unrow, AnyInv, mem
<1>2. ThreadsOK' /\ Moved(t, <<>>)
  BY <1>1, HeadIs, GrowsSame, ThenNothing
<1>3. TablesOK'
  BY <1>1 DEF TablesOK
<1>4. DbOK(rows', keyCtr', sidCtr') /\ DbOK(disk', keyCtr', sidCtr')
  BY <1>1, DbDel
<1> QED
  BY <1>1, <1>2, <1>3, <1>4, CountSame DEF AnyInv

LEMMA RowOp ==
  ASSUME NEW k \in Nat, NEW v \in LockVals
  PROVE  LET x == [op |-> "row", key |-> k, val |-> v]
         IN  x \in Ops /\ x.op = "row" /\ x.key = k /\ x.val = v
BY DEF Ops

(* What an insertion puts before the rest. *)
Inserting(k, L) == <<[op |-> "push", key |-> k], [op |-> "row", key |-> k, val |-> L]>>

LEMMA InsertingIs ==
  ASSUME NEW k \in Nat, NEW L \in LockVals
  PROVE  LET r == Inserting(k, L)
         IN  /\ r \in Seq(Ops) /\ Len(r) = 2 /\ r[1].op = "push" /\ r[1].key = k
             /\ r[2].op = "row" /\ r[2].key = k /\ r[2].val = L
<1> DEFINE p == [op |-> "push", key |-> k]
           w == [op |-> "row", key |-> k, val |-> L]
<1>1. p \in Ops /\ p.op = "push" /\ p.key = k
  BY KeyOp DEF KeyOps
<1>2. w \in Ops /\ w.op = "row" /\ w.key = k /\ w.val = L
  BY RowOp
<1>3. Inserting(k, L) = <<p, w>>
  BY DEF Inserting
<1> HIDE DEF p, w
<1> QED
  BY <1>1, <1>2, <1>3

LEMMA AnyInsert ==
  ASSUME AnyInv, NEW t \in Threads, Insert(t)
  PROVE  /\ AnyInv' /\ thr[t].kind \in {"lock", "locku"} /\ keyCtr \notin DOMAIN locks
         /\ NextOp(t).lock \in LockVals /\ NextOp(t).lock.owner = thr[t].owner
         /\ locks' = Put(locks, keyCtr, NextOp(t).lock) /\ keyCtr' = keyCtr + 1
         /\ Moved(t, Inserting(keyCtr, NextOp(t).lock))
         /\ UNCHANGED <<index, sidCtr, owners, states, live, recs, grace, rows, disk, told, known>>
<1>1. PICK L : L = NextOp(t).lock
  OBVIOUS
<1>2. PICK K : K = keyCtr
  OBVIOUS
<1>3. /\ Does(t, "insert") /\ TablesOK /\ ThreadsOK /\ CountOK
      /\ DbOK(rows, keyCtr, sidCtr) /\ DbOK(disk, keyCtr, sidCtr)
      /\ locks' = Put(locks, K, L) /\ keyCtr' = K + 1
      /\ count' = [count EXCEPT ![ClientOf[L.owner]] = @ + 1 - (IF K \in DOMAIN locks THEN 1 ELSE 0)]
      /\ Then(t, Inserting(K, L))
      /\ UNCHANGED <<index, sidCtr, owners, states, live, recs, grace, rows, disk, told, known>>
  BY <1>1, <1>2 DEF Insert, AnyInv, Inserting
<1>4. /\ Todo(t) # <<>> /\ Todo(t)[1].op = "insert" /\ thr[t].kind \in {"lock", "locku"}
      /\ L \in LockVals /\ L.owner = thr[t].owner
  <2>1. "insert" \notin RetireOps
    BY DEF RetireOps
  <2>2. /\ Todo(t) # <<>> /\ Todo(t)[1].op = "insert" /\ NextOp(t) \in Ops
        /\ NextOp(t).op = "insert" /\ OpOK(thr[t], NextOp(t), locks, keyCtr)
    BY <1>3, HeadIs
  <2>3. L \in LockVals
    BY <1>1, <2>2 DEF Ops, BareOps, KeyOps
  <2> QED
    BY <1>1, <1>3, <2>1, <2>2, <2>3, AskHead DEF OpOK
<1>5. /\ K \in Nat \ {0} /\ K \notin DOMAIN locks /\ DOMAIN locks \subseteq 1 .. K - 1
      /\ DOMAIN locks' = DOMAIN locks \cup {K} /\ locks'[K] = L
      /\ \A k \in DOMAIN locks : k # K /\ locks'[k] = locks[k]
  BY <1>2, <1>3 DEF TablesOK, Put
<1>6. Grows(locks, locks', keyCtr, keyCtr')
  BY <1>2, <1>3, <1>5 DEF Grows
<1>7. ThreadsOK' /\ Moved(t, Inserting(K, L))
  <2>1. PICK r : r = Inserting(K, L)
    OBVIOUS
  <2>2. /\ r \in Seq(Ops) /\ Len(r) = 2 /\ r[1].op = "push" /\ r[1].key = K
        /\ r[2].op = "row" /\ r[2].key = K
    BY <1>4, <1>5, <2>1, InsertingIs
  <2>3. K \in 1 .. keyCtr' - 1
    BY <1>3, <1>5
  <2>4. \A i \in 1 .. Len(r) : OpOK(thr[t], r[i], locks', keyCtr')
    <3>1. OpOK(thr[t], r[1], locks', keyCtr') /\ OpOK(thr[t], r[2], locks', keyCtr')
      BY <1>4, <2>2, <2>3 DEF OpOK, AskOps
    <3>2. \A i \in 1 .. Len(r) : i = 1 \/ i = 2
      BY <2>2
    <3> QED
      BY <3>1, <3>2
  <2>5. MayLead(r, Todo(t))
    BY <1>4, <2>2 DEF MayLead, LeadOK, ListOK
  <2> QED
    BY <1>3, <1>4, <1>6, <2>1, <2>2, <2>4, <2>5, ThreadThen
<1>8. CountOK'
  <2>1. PICK c \in Clients : c = ClientOf[L.owner]
    BY <1>4, LocksAssumption DEF LockVals
  <2>2. count \in [Clients -> Nat] /\ count' = [count EXCEPT ![c] = @ + 1]
    BY <1>3, <1>5, <2>1 DEF CountOK
  <2>3. Entries(c)' = Entries(c) \cup {K} /\ \A d \in Clients : d # c => Entries(d)' = Entries(d)
    BY <1>5, <2>1 DEF Entries
  <2>4. IsFiniteSet(Entries(c)) /\ K \notin Entries(c)
    <3>1. IsFiniteSet(1 .. K - 1)
      BY <1>5, FS_Interval
    <3>2. Entries(c) \in SUBSET (1 .. K - 1)
      BY <1>5 DEF Entries
    <3> QED
      BY <1>5, <3>1, <3>2, FS_Subset DEF Entries
  <2>5. Cardinality(Entries(c)') = Cardinality(Entries(c)) + 1 /\ Cardinality(Entries(c)) \in Nat
    BY <2>3, <2>4, FS_AddElement, FS_CardinalityType
  <2>6. count[c] = Cardinality(Entries(c))
    BY DEF CountOK, AnyInv
  <2>7. count'[c] = count[c] + 1 /\ \A d \in Clients : d # c => count'[d] = count[d]
    BY <2>2
  <2>8. count' \in [Clients -> Nat]
    BY <2>2
  <2>9. \A d \in Clients : count'[d] = Cardinality(Entries(d)')
    BY <1>3, <2>3, <2>5, <2>6, <2>7 DEF CountOK
  <2> QED
    BY <2>8, <2>9 DEF CountOK
<1>9. TablesOK'
  <2>1. /\ keyCtr' \in Nat \ {0} /\ DOMAIN locks' \subseteq 1 .. keyCtr' - 1
        /\ \A k \in DOMAIN locks' : locks'[k] \in LockVals
    BY <1>3, <1>4, <1>5 DEF TablesOK
  <2>2. index' \in Seq(1 .. keyCtr' - 1)
    <3>1. index \in Seq(1 .. K - 1) /\ (1 .. K - 1) \subseteq (1 .. K)
      BY <1>2, <1>3, <1>5 DEF TablesOK
    <3>2. index \in Seq(1 .. K)
      BY <3>1, SeqWiden
    <3>3. 1 .. keyCtr' - 1 = 1 .. K
      BY <1>3, <1>5
    <3> QED
      BY <1>3, <3>2, <3>3
  <2> QED
    BY <1>3, <2>1, <2>2 DEF TablesOK
<1>10. DbOK(rows', keyCtr', sidCtr') /\ DbOK(disk', keyCtr', sidCtr')
  <2>1. K \in Nat /\ K + 1 \in Nat /\ K <= K + 1 /\ sidCtr \in Nat /\ sidCtr <= sidCtr
    BY <1>3, <1>5 DEF TablesOK
  <2>2. DbOK(rows, K + 1, sidCtr) /\ DbOK(disk, K + 1, sidCtr)
    BY <1>2, <1>3, <2>1, DbKept
  <2> QED
    BY <1>3, <2>2
<1> QED
  BY <1>1, <1>2, <1>3, <1>4, <1>5, <1>7, <1>8, <1>9, <1>10 DEF AnyInv

LEMMA AnyPush ==
  ASSUME AnyInv, NEW t \in Threads, Push(t)
  PROVE  AnyInv' /\ Moved(t, <<>>)
<1>1. /\ Does(t, "push") /\ TablesOK /\ ThreadsOK /\ CountOK
      /\ DbOK(rows, keyCtr, sidCtr) /\ DbOK(disk, keyCtr, sidCtr)
      /\ index' = Append(index, NextOp(t).key) /\ Then(t, <<>>)
      /\ UNCHANGED <<locks, count, keyCtr, sidCtr, owners, states, live, recs, grace, rows, disk,
                     told, known>>
  BY DEF Push, AnyInv
<1>2. ThreadsOK' /\ Moved(t, <<>>)
  BY <1>1, HeadIs, GrowsSame, ThenNothing
<1>3. NextOp(t).key \in 1 .. keyCtr - 1
  <2>1. OpOK(thr[t], NextOp(t), locks, keyCtr) /\ NextOp(t).op = "push"
    BY <1>1, HeadIs
  <2> QED
    BY <2>1 DEF OpOK, KeyOps
<1>4. TablesOK'
  <2>1. index' \in Seq(1 .. keyCtr - 1)
    BY <1>1, <1>3 DEF TablesOK
  <2> QED
    BY <1>1, <2>1 DEF TablesOK
<1> QED
  BY <1>1, <1>2, <1>4, CountSame DEF AnyInv

LEMMA AnyRow ==
  ASSUME AnyInv, NEW t \in Threads, Row(t)
  PROVE  AnyInv' /\ Moved(t, <<>>) /\ NextOp(t).key \in 1 .. keyCtr - 1
<1>1. /\ Does(t, "row") /\ TablesOK /\ ThreadsOK /\ CountOK
      /\ DbOK(rows, keyCtr, sidCtr) /\ DbOK(disk, keyCtr, sidCtr)
      /\ rows' = Put(rows, <<"lock", NextOp(t).key>>, NextOp(t).val) /\ Then(t, <<>>)
      /\ UNCHANGED <<locks, index, count, keyCtr, sidCtr, owners, states, live, recs, grace, disk,
                     told, known>>
  BY DEF Row, AnyInv, mem
<1>2. ThreadsOK' /\ Moved(t, <<>>)
  BY <1>1, HeadIs, GrowsSame, ThenNothing
<1>3. NextOp(t).key \in 1 .. keyCtr - 1 /\ NextOp(t).val \in LockVals
  <2>1. OpOK(thr[t], NextOp(t), locks, keyCtr) /\ NextOp(t).op = "row" /\ NextOp(t) \in Ops
    BY <1>1, HeadIs
  <2>2. NextOp(t).val \in LockVals
    BY <2>1 DEF Ops, KeyOps, BareOps
  <2> QED
    BY <2>1, <2>2 DEF OpOK
<1>4. TablesOK'
  BY <1>1 DEF TablesOK
<1>5. DbOK(rows', keyCtr', sidCtr') /\ DbOK(disk', keyCtr', sidCtr')
  <2>1. RowIn(<<"lock", NextOp(t).key>>, NextOp(t).val, keyCtr, sidCtr)
    BY <1>3 DEF RowIn
  <2> QED
    BY <1>1, <2>1, DbPut
<1> QED
  BY <1>1, <1>2, <1>3, <1>4, <1>5, CountSame DEF AnyInv

LEMMA AnyReply ==
  ASSUME AnyInv, NEW t \in Threads, Reply(t)
  PROVE  AnyInv'
<1>1. /\ TablesOK /\ ThreadsOK /\ CountOK
      /\ DbOK(rows, keyCtr, sidCtr) /\ DbOK(disk, keyCtr, sidCtr)
      /\ thr' = [thr EXCEPT ![t] = Idle]
      /\ UNCHANGED <<locks, index, count, keyCtr, sidCtr, owners, states, live, recs, grace, rows,
                     disk>>
      /\ thr[t].kind \in {"lock", "locku"}
  BY DEF Reply, AnyInv, mem
<1>2. ThreadsOK'
  BY <1>1, GrowsSame, IdleOK, ThreadBegin
<1>3. /\ thr[t].asker \in Owners /\ thr[t].sid \in Nat /\ thr[t].type \in LockTypes \cup {"none"}
  BY <1>1 DEF ThreadsOK, Works, Asks, Retires, Idle
<1>4. /\ told' \in [Owners -> [U64 -> LockTypes \cup {"none"}]] /\ known' \in [Owners -> Nat]
  <2>1. told \in [Owners -> [U64 -> LockTypes \cup {"none"}]] /\ known \in [Owners -> Nat]
    BY <1>1 DEF TablesOK
  <2>2. CASE UNCHANGED <<told, known>>
    BY <2>1, <2>2
  <2>3. CASE /\ told' = [told EXCEPT ![thr[t].asker] =
                   [b \in U64 |-> IF b \in Bytes(thr[t].range) THEN thr[t].type ELSE @[b]]]
             /\ known' = [known EXCEPT ![thr[t].asker] = thr[t].sid]
    <3> DEFINE f == [b \in U64 |-> IF b \in Bytes(thr[t].range) THEN thr[t].type
                                   ELSE told[thr[t].asker][b]]
    <3>1. f \in [U64 -> LockTypes \cup {"none"}]
      BY <1>3, <2>1
    <3>2. told' = [told EXCEPT ![thr[t].asker] = f]
      BY <2>3
    <3> HIDE DEF f
    <3>3. told' \in [Owners -> [U64 -> LockTypes \cup {"none"}]]
      BY <2>1, <3>1, <3>2
    <3> QED
      BY <1>3, <2>1, <2>3, <3>3
  <2> QED
    BY <2>2, <2>3 DEF Reply
<1>5. TablesOK'
  BY <1>1, <1>4 DEF TablesOK
<1> QED
  BY <1>1, <1>2, <1>5, CountSame DEF AnyInv

LEMMA AnyRetired ==
  ASSUME AnyInv, NEW t \in Threads, Retired(t)
  PROVE  AnyInv'
<1>1. /\ TablesOK /\ ThreadsOK /\ thr' = [thr EXCEPT ![t] = Idle] /\ UNCHANGED <<locks, keyCtr>>
      /\ UNCHANGED <<mem, live, recs, grace, rows, disk, told, known>>
  BY DEF Retired, AnyInv, mem
<1>2. ThreadsOK'
  BY <1>1, GrowsSame, IdleOK, ThreadBegin
<1> QED
  BY <1>1, <1>2, Still

LEMMA AnyDropSessions ==
  ASSUME AnyInv, NEW t \in Threads, DropSessions(t)
  PROVE  AnyInv' /\ Moved(t, <<>>) /\ thr[t].kind = "retire" /\ thr[t].client \in Clients
<1>1. /\ Does(t, "sessions") /\ TablesOK /\ ThreadsOK /\ CountOK
      /\ DbOK(rows, keyCtr, sidCtr) /\ DbOK(disk, keyCtr, sidCtr)
      /\ Then(t, <<>>)
      /\ live' = live \ {thr[t].client} /\ states' = Del(states, StatesOf(thr[t].client))
      /\ rows' = Del(rows, {<<"stateid", s>> : s \in StatesOf(thr[t].client)})
      /\ told' = [o \in Owners |-> IF ClientOf[o] = thr[t].client THEN Nothing ELSE told[o]]
      /\ known' = [o \in Owners |-> IF ClientOf[o] = thr[t].client THEN 0 ELSE known[o]]
      /\ UNCHANGED <<locks, index, count, keyCtr, sidCtr, owners, recs, grace, disk>>
  BY DEF DropSessions, AnyInv
<1>2. ThreadsOK' /\ Moved(t, <<>>)
  BY <1>1, HeadIs, GrowsSame, ThenNothing
<1>3. thr[t].kind = "retire" /\ thr[t].client \in Clients
  <2>1. "sessions" \notin AskOps
    BY DEF AskOps
  <2> QED
    BY <1>1, <2>1, RetireHead DEF Retires
<1>4. TablesOK'
  <2>1. DOMAIN states' \subseteq 1 .. sidCtr' - 1 /\ \A s \in DOMAIN states' : states'[s] \in Clients
    BY <1>1 DEF TablesOK, Del
  <2>2. told' \in [Owners -> [U64 -> LockTypes \cup {"none"}]] /\ known' \in [Owners -> Nat]
    BY <1>1 DEF TablesOK, Nothing
  <2>3. live' \subseteq Clients
    BY <1>1 DEF TablesOK
  <2> QED
    BY <1>1, <2>1, <2>2, <2>3 DEF TablesOK
<1>5. DbOK(rows', keyCtr', sidCtr') /\ DbOK(disk', keyCtr', sidCtr')
  BY <1>1, DbDel
<1> QED
  BY <1>1, <1>2, <1>3, <1>4, <1>5, CountSame DEF AnyInv

LEMMA AnyDropRecord ==
  ASSUME AnyInv, NEW t \in Threads, DropRecord(t)
  PROVE  AnyInv' /\ Moved(t, <<>>) /\ thr[t].kind = "retire" /\ thr[t].client \in Clients
<1>1. /\ Does(t, "record") /\ TablesOK /\ ThreadsOK /\ CountOK
      /\ DbOK(rows, keyCtr, sidCtr) /\ DbOK(disk, keyCtr, sidCtr)
      /\ Then(t, <<>>)
      /\ recs' = recs \ {thr[t].client} /\ rows' = Del(rows, {<<"client", thr[t].client>>})
      /\ UNCHANGED <<locks, index, count, keyCtr, sidCtr, owners, states, live, grace, disk, told,
                     known>>
  BY DEF DropRecord, AnyInv, mem
<1>2. ThreadsOK' /\ Moved(t, <<>>)
  BY <1>1, HeadIs, GrowsSame, ThenNothing
<1>3. thr[t].kind = "retire" /\ thr[t].client \in Clients
  <2>1. "record" \notin AskOps
    BY DEF AskOps
  <2> QED
    BY <1>1, <2>1, RetireHead DEF Retires
<1>4. TablesOK'
  BY <1>1 DEF TablesOK
<1>5. DbOK(rows', keyCtr', sidCtr') /\ DbOK(disk', keyCtr', sidCtr')
  BY <1>1, DbDel
<1> QED
  BY <1>1, <1>2, <1>3, <1>4, <1>5, CountSame DEF AnyInv

LEMMA AnyPurge ==
  ASSUME AnyInv, NEW t \in Threads, Purge(t)
  PROVE  AnyInv' /\ Moved(t, <<>>) /\ thr[t].kind = "retire" /\ thr[t].client \in Clients
<1> DEFINE S == {s \in DOMAIN owners : ClientOf[owners[s]] = thr[t].client}
<1>1. /\ Does(t, "purge") /\ TablesOK /\ ThreadsOK /\ CountOK
      /\ DbOK(rows, keyCtr, sidCtr) /\ DbOK(disk, keyCtr, sidCtr)
      /\ Then(t, <<>>)
      /\ owners' = Del(owners, S) /\ rows' = Del(rows, {<<"owner", s>> : s \in S})
      /\ UNCHANGED <<locks, index, count, keyCtr, sidCtr, states, live, recs, grace, disk, told,
                     known>>
  BY DEF Purge, AnyInv
<1>2. ThreadsOK' /\ Moved(t, <<>>)
  BY <1>1, HeadIs, GrowsSame, ThenNothing
<1>3. thr[t].kind = "retire" /\ thr[t].client \in Clients
  <2>1. "purge" \notin AskOps
    BY DEF AskOps
  <2> QED
    BY <1>1, <2>1, RetireHead DEF Retires
<1>4. TablesOK'
  <2>1. DOMAIN owners' \subseteq Nat /\ \A s \in DOMAIN owners' : owners'[s] \in Owners
    BY <1>1 DEF TablesOK, Del
  <2> QED
    BY <1>1, <2>1 DEF TablesOK
<1> HIDE DEF S
<1>5. DbOK(rows', keyCtr', sidCtr') /\ DbOK(disk', keyCtr', sidCtr')
  BY <1>1, DbDel
<1> QED
  BY <1>1, <1>2, <1>3, <1>4, <1>5, CountSame DEF AnyInv

(* The removals a strip leads to. *)
Strips(c) ==
    LET K == Listed(Entries(c))
    IN  [i \in 1 .. Len(K) |-> [op |-> "remove", key |-> K[i]]]

LEMMA StripsAre ==
  ASSUME TablesOK, NEW c
  PROVE  LET r == Strips(c)
         IN  /\ r \in Seq(Ops) /\ Len(r) \in Nat /\ LeadOK(r)
             /\ \A i \in 1 .. Len(r) : r[i].op = "remove" /\ r[i].key \in Entries(c)
             /\ \A k \in Entries(c) : \E i \in 1 .. Len(r) : r[i].key = k
<1> DEFINE E == Entries(c)
           K == Listed(E)
           r == Strips(c)
<1>1. keyCtr \in Nat /\ E \subseteq 1 .. keyCtr - 1
  BY DEF TablesOK, Entries
<1>2. IsFiniteSet(E)
  <2>1. IsFiniteSet(1 .. keyCtr - 1) /\ E \in SUBSET (1 .. keyCtr - 1)
    BY <1>1, FS_Interval
  <2> HIDE DEF E
  <2> QED
    BY <2>1, FS_Subset
<1>3. r = [i \in 1 .. Len(K) |-> [op |-> "remove", key |-> K[i]]]
  BY DEF Strips
<1> HIDE DEF E, r
<1>4. /\ K \in Seq(E) /\ Len(K) \in Nat /\ \A k \in E : \E i \in 1 .. Len(K) : K[i] = k
  BY <1>2, ListedIs
<1> HIDE DEF K
<1>5. ASSUME NEW i \in 1 .. Len(K) PROVE r[i] \in Ops /\ r[i].op = "remove" /\ r[i].key = K[i] /\ K[i] \in E
  <2>1. K[i] \in E
    BY <1>4
  <2>2. K[i] \in Nat /\ "remove" \in KeyOps
    <3>1. K[i] \in 1 .. keyCtr - 1
      BY <1>1, <2>1
    <3>2. K[i] \in Nat
      BY <1>1, <3>1
    <3> QED
      BY <3>2 DEF KeyOps
  <2>3. r[i] = [op |-> "remove", key |-> K[i]]
    BY <1>3
  <2> QED
    BY <2>1, <2>2, <2>3, KeyOp
<1>6. r \in [1 .. Len(K) -> Ops]
  BY <1>3, <1>5
<1>7. r \in Seq(Ops) /\ Len(r) = Len(K)
  BY <1>4, <1>6
<1>8. LeadOK(r)
  BY <1>4, <1>5, <1>7 DEF LeadOK, ListOK, LaterOps
<1> QED
  BY <1>4, <1>5, <1>7, <1>8 DEF E, r

LEMMA AnyStrip ==
  ASSUME AnyInv, NEW t \in Threads, Strip(t)
  PROVE  AnyInv' /\ Moved(t, Strips(thr[t].client)) /\ thr[t].kind = "retire" /\ thr[t].client \in Clients
<1>1. /\ Does(t, "strip") /\ TablesOK /\ ThreadsOK /\ Then(t, Strips(thr[t].client))
      /\ UNCHANGED <<mem, live, recs, grace, rows, disk, told, known>> /\ UNCHANGED <<locks, keyCtr>>
  BY DEF Strip, AnyInv, Strips, Entries, mem
<1>2. /\ Todo(t) # <<>> /\ Todo(t)[1].op = "strip" /\ thr[t].kind = "retire"
      /\ thr[t].client \in Clients
  <2>1. "strip" \notin AskOps
    BY DEF AskOps
  <2> QED
    BY <1>1, <2>1, HeadIs, RetireHead DEF Retires
<1>3. PICK c : c = thr[t].client
  OBVIOUS
<1>4. PICK r : r = Strips(c)
  OBVIOUS
<1>5. /\ r \in Seq(Ops) /\ Len(r) \in Nat /\ LeadOK(r)
      /\ \A i \in 1 .. Len(r) : r[i].op = "remove" /\ r[i].key \in Entries(c)
  BY <1>1, <1>4, StripsAre
<1>6. \A k \in Entries(c) : k \in 1 .. keyCtr - 1 /\ ClientOf[locks[k].owner] = c
  BY <1>1 DEF TablesOK, Entries
<1>7. \A i \in 1 .. Len(r) : OpOK(thr[t], r[i], locks', keyCtr')
  BY <1>1, <1>2, <1>3, <1>5, <1>6 DEF OpOK, RetireOps
<1>8. ThreadsOK' /\ Moved(t, r)
  <2>1. MayLead(r, Todo(t))
    BY <1>2, <1>5 DEF MayLead
  <2>2. Then(t, r)
    BY <1>1, <1>3, <1>4
  <2> QED
    BY <1>1, <1>2, <1>5, <1>7, <2>1, <2>2, GrowsSame, ThreadThen
<1> QED
  BY <1>1, <1>2, <1>3, <1>4, <1>8, Still

-----------------------------------------------------------------------------
(* The requests. *)

LEMMA CheckOp ==
  ASSUME NEW n \in BOOLEAN
  PROVE  [op |-> "check", new |-> n] \in Ops /\ [op |-> "check", new |-> n].op = "check"
BY DEF Ops

LEMMA AskBegins ==
  ASSUME NEW kind \in {"lock", "locku"}, NEW a \in Owners, NEW o \in Owners,
         NEW type \in LockTypes \cup {"none"}, NEW r \in Range64, NEW s \in Nat, NEW x \in Ops,
         kind = "lock" => type \in LockTypes,
         \/ x.op = "check" /\ kind = "lock"
         \/ x.op = "trim",
         NEW L, NEW K
  PROVE  WorkOK([kind |-> kind, asker |-> a, owner |-> o, type |-> type, range |-> r,
                 sid |-> s, todo |-> <<x>>], L, K)
<1> DEFINE W == [kind |-> kind, asker |-> a, owner |-> o, type |-> type, range |-> r,
                 sid |-> s, todo |-> <<x>>]
<1>1. <<x>> \in Seq(Ops) /\ Len(<<x>>) = 1 /\ <<x>>[1] = x
  OBVIOUS
<1>2. W \in Asks /\ W.kind = kind /\ W.type = type /\ W.todo = <<x>>
  BY <1>1 DEF Asks
<1> HIDE DEF W
<1>3. OpOK(W, x, L, K)
  BY <1>2 DEF OpOK, AskOps, KeyOps
<1>4. ListOK(<<x>>)
  <2>1. x.op \notin {"push", "unindex", "dropfh"}
    OBVIOUS
  <2> QED
    BY <1>1, <2>1 DEF ListOK
<1>5. W \in Works
  BY <1>2 DEF Works
<1>6. WorkOK(W, L, K)
  BY <1>1, <1>2, <1>3, <1>4, <1>5 DEF WorkOK
<1> QED
  BY <1>6 DEF W

(* A teardown: any list of the operations a teardown starts with. *)
LEMMA RetireBegins ==
  ASSUME NEW c \in Clients, NEW q \in Seq(Ops),
         \A i \in 1 .. Len(q) : q[i].op \in {"sessions", "record", "strip", "purge"},
         \A i \in 2 .. Len(q) : q[i].op # "sessions",
         NEW L, NEW K
  PROVE  WorkOK(Retiring(c, q), L, K)
<1> DEFINE W == Retiring(c, q)
<1>1. W \in Retires /\ W.kind = "retire" /\ W.todo = q
  BY DEF Retires, Retiring
<1> HIDE DEF W
<1>2. \A i \in 1 .. Len(q) : OpOK(W, q[i], L, K)
  BY <1>1 DEF OpOK, RetireOps, KeyOps
<1>3. Len(q) \in Nat
  OBVIOUS
<1>4. \A i \in 2 .. Len(q) : q[i].op \in LaterOps
  BY <1>3 DEF LaterOps
<1>5. Len(q) >= 1 => q[1].op \notin {"push", "unindex", "dropfh", "check"}
  BY <1>3
<1>6. ListOK(q)
  BY <1>3, <1>4, <1>5 DEF ListOK
<1>7. W \in Works
  BY <1>1 DEF Works
<1>8. WorkOK(W, L, K)
  BY <1>1, <1>2, <1>6, <1>7 DEF WorkOK
<1> QED
  BY <1>8 DEF W

(* A request a thread takes up. *)
Took(t, W) ==
    /\ thr'[t] = W /\ \A u \in Threads \ {t} : thr'[u] = thr[u]

LEMMA AskTaken ==
  ASSUME AnyInv, NEW t \in Threads, NEW W, WorkOK(W, locks, keyCtr), thr' = [thr EXCEPT ![t] = W],
         UNCHANGED <<mem, live, recs, grace, rows, disk, told, known>>
  PROVE  AnyInv' /\ Took(t, W)
<1>1. TablesOK /\ ThreadsOK /\ UNCHANGED <<locks, keyCtr>>
  BY DEF AnyInv, mem
<1>2. ThreadsOK' /\ Took(t, W)
  BY <1>1, GrowsSame, ThreadBegin DEF Took
<1> QED
  BY <1>2, Still

LockWork(o, as, type, r) ==
    [kind |-> "lock", asker |-> o, owner |-> as, type |-> type, range |-> r, sid |-> known[o],
     todo |-> <<[op |-> "check", new |-> known[o] = 0]>>]

ReclaimWork(o, type, r) ==
    [kind |-> "lock", asker |-> o, owner |-> o, type |-> type, range |-> r, sid |-> 0,
     todo |-> <<[op |-> "check", new |-> TRUE]>>]

UnlockWork(o, r) ==
    [kind |-> "locku", asker |-> o, owner |-> owners[known[o]], type |-> "none", range |-> r,
     sid |-> known[o], todo |-> <<[op |-> "trim"]>>]

LEMMA AnyLock ==
  ASSUME AnyInv, NEW t \in Threads, NEW o \in Owners, NEW type \in LockTypes, NEW r \in Ranges,
         Lock(t, o, type, r)
  PROVE  /\ AnyInv' /\ Free(t)
         /\ UNCHANGED <<mem, live, recs, grace, rows, disk, told, known>>
         /\ \E as \in Owners : Took(t, LockWork(o, as, type, r))
<1> DEFINE as == IF known[o] = 0 THEN o ELSE owners[known[o]]
<1>1. /\ TablesOK /\ Free(t) /\ thr' = [thr EXCEPT ![t] = LockWork(o, as, type, r)]
      /\ known[o] # 0 => known[o] \in DOMAIN owners
      /\ UNCHANGED <<mem, live, recs, grace, rows, disk, told, known>>
  BY DEF Lock, LockWork, AnyInv
<1>2. as \in Owners /\ known[o] \in Nat /\ r \in Range64
  BY <1>1, LocksAssumption DEF TablesOK
<1> HIDE DEF as
<1>3. WorkOK(LockWork(o, as, type, r), locks, keyCtr)
  <2>1. [op |-> "check", new |-> known[o] = 0] \in Ops
        /\ [op |-> "check", new |-> known[o] = 0].op = "check"
    BY CheckOp
  <2> QED
    BY <1>2, <2>1, AskBegins DEF LockWork
<1>4. PICK W : W = LockWork(o, as, type, r)
  OBVIOUS
<1>5. AnyInv' /\ Took(t, W)
  BY <1>1, <1>3, <1>4, AskTaken
<1> QED
  BY <1>1, <1>2, <1>4, <1>5

LEMMA AnyLockU ==
  ASSUME AnyInv, NEW t \in Threads, NEW o \in Owners, NEW r \in Ranges, LockU(t, o, r)
  PROVE  /\ AnyInv' /\ Free(t)
         /\ UNCHANGED <<mem, live, recs, grace, rows, disk, told, known>>
         /\ Took(t, UnlockWork(o, r))
<1>1. /\ TablesOK /\ Free(t) /\ thr' = [thr EXCEPT ![t] = UnlockWork(o, r)]
      /\ known[o] \in DOMAIN owners
      /\ UNCHANGED <<mem, live, recs, grace, rows, disk, told, known>>
  BY DEF LockU, UnlockWork, AnyInv
<1>2. owners[known[o]] \in Owners /\ known[o] \in Nat /\ r \in Range64
  BY <1>1, LocksAssumption DEF TablesOK
<1>3. WorkOK(UnlockWork(o, r), locks, keyCtr)
  <2>1. "trim" \in BareOps
    BY DEF BareOps
  <2>2. [op |-> "trim"] \in Ops /\ [op |-> "trim"].op = "trim"
    BY <2>1, BareOp
  <2> QED
    BY <1>2, <2>2, AskBegins DEF UnlockWork
<1>4. PICK W : W = UnlockWork(o, r)
  OBVIOUS
<1>5. AnyInv' /\ Took(t, W)
  BY <1>1, <1>3, <1>4, AskTaken
<1> QED
  BY <1>1, <1>4, <1>5

LEMMA RetireOp ==
  \A o \in {"sessions", "record", "strip", "purge"} : [op |-> o] \in Ops /\ [op |-> o].op = o
BY BareOp DEF BareOps

(* The list a teardown starts with. *)
Teardown(q) ==
    /\ q \in Seq(Ops) /\ Len(q) >= 1
    /\ \A i \in 1 .. Len(q) : q[i].op \in {"sessions", "record", "strip", "purge"}
    /\ \A i \in 2 .. Len(q) : q[i].op # "sessions"

(* The three teardowns. *)
LEMMA AnyTeardown ==
  ASSUME AnyInv, NEW t \in Threads, NEW c \in Clients,
         Sweep(t, c) \/ Cascade(t, c) \/ DestroyClientId(t, c)
  PROVE  /\ AnyInv' /\ Free(t)
         /\ UNCHANGED <<mem, live, recs, grace, rows, disk, told, known>>
         /\ \E q : Teardown(q) /\ Took(t, Retiring(c, q))
<1>1. /\ Free(t) /\ UNCHANGED <<mem, live, recs, grace, rows, disk, told, known>>
  BY DEF Sweep, Cascade, DestroyClientId
<1>2. ASSUME NEW q, Teardown(q), thr' = [thr EXCEPT ![t] = Retiring(c, q)]
      PROVE  AnyInv' /\ \E p : Teardown(p) /\ Took(t, Retiring(c, p))
  <2>1. WorkOK(Retiring(c, q), locks, keyCtr)
    BY <1>2, RetireBegins DEF Teardown
  <2>2. AnyInv' /\ Took(t, Retiring(c, q))
    BY <1>1, <1>2, <2>1, AskTaken
  <2> QED
    BY <1>2, <2>2
<1>3. CASE Sweep(t, c)
  <2>1. PICK q : q = <<[op |-> "sessions"], [op |-> "record"], [op |-> "strip"], [op |-> "purge"]>>
    OBVIOUS
  <2>2. /\ q \in Seq(Ops) /\ Len(q) = 4 /\ q[1].op = "sessions" /\ q[2].op = "record"
        /\ q[3].op = "strip" /\ q[4].op = "purge"
    BY <2>1, RetireOp
  <2>3. thr' = [thr EXCEPT ![t] = Retiring(c, q)]
    BY <1>3, <2>1 DEF Sweep
  <2>4. Teardown(q)
    <3>1. \A i \in 1 .. 4 : i = 1 \/ i = 2 \/ i = 3 \/ i = 4
      OBVIOUS
    <3> QED
      BY <2>2, <3>1 DEF Teardown
  <2> QED
    BY <1>1, <1>2, <2>3, <2>4
<1>4. CASE Cascade(t, c)
  <2>1. PICK q : q = <<[op |-> "sessions"], [op |-> "strip"], [op |-> "purge"], [op |-> "record"]>>
    OBVIOUS
  <2>2. /\ q \in Seq(Ops) /\ Len(q) = 4 /\ q[1].op = "sessions" /\ q[2].op = "strip"
        /\ q[3].op = "purge" /\ q[4].op = "record"
    BY <2>1, RetireOp
  <2>3. thr' = [thr EXCEPT ![t] = Retiring(c, q)]
    BY <1>4, <2>1 DEF Cascade
  <2>4. Teardown(q)
    <3>1. \A i \in 1 .. 4 : i = 1 \/ i = 2 \/ i = 3 \/ i = 4
      OBVIOUS
    <3> QED
      BY <2>2, <3>1 DEF Teardown
  <2> QED
    BY <1>1, <1>2, <2>3, <2>4
<1>5. CASE DestroyClientId(t, c)
  <2>1. PICK q : q = <<[op |-> "record"]>>
    OBVIOUS
  <2>2. q \in Seq(Ops) /\ Len(q) = 1 /\ q[1].op = "record"
    BY <2>1, RetireOp
  <2>3. thr' = [thr EXCEPT ![t] = Retiring(c, q)]
    BY <1>5, <2>1 DEF DestroyClientId
  <2>4. Teardown(q)
    BY <2>2 DEF Teardown
  <2> QED
    BY <1>1, <1>2, <2>3, <2>4
<1> QED
  BY <1>3, <1>4, <1>5

LEMMA AnyReconnect ==
  ASSUME AnyInv, NEW t \in Threads, NEW c \in Clients, Reconnect(t, c)
  PROVE  /\ AnyInv' /\ UNCHANGED thr /\ UNCHANGED <<mem, recs, grace, rows, disk, told, known>>
<1>1. /\ TablesOK /\ ThreadsOK /\ CountOK /\ UNCHANGED thr /\ UNCHANGED <<mem, recs, grace, rows, disk, told, known>>
      /\ UNCHANGED <<locks, index, count, keyCtr, sidCtr, owners, states>>
      /\ live' = live \cup {c} /\ DbOK(rows, keyCtr, sidCtr) /\ DbOK(disk, keyCtr, sidCtr)
  BY DEF Reconnect, AnyInv, mem
<1>2. ThreadsOK' /\ CountOK'
  BY <1>1, GrowsSame, ThreadKeep, CountSame
<1>3. TablesOK'
  BY <1>1 DEF TablesOK
<1> QED
  BY <1>1, <1>2, <1>3 DEF AnyInv

LEMMA AnyFreeStateId ==
  ASSUME AnyInv, NEW t \in Threads, NEW o \in Owners, FreeStateId(t, o)
  PROVE  AnyInv' /\ UNCHANGED thr
<1>1. /\ TablesOK /\ ThreadsOK /\ CountOK /\ UNCHANGED thr
      /\ UNCHANGED <<locks, index, count, keyCtr, sidCtr, live, recs, grace, disk, told>>
      /\ owners' = Del(owners, {known[o]}) /\ states' = Del(states, {known[o]})
      /\ known' = [known EXCEPT ![o] = 0]
      /\ rows' = Del(rows, {<<"owner", known[o]>>, <<"stateid", known[o]>>})
      /\ DbOK(rows, keyCtr, sidCtr) /\ DbOK(disk, keyCtr, sidCtr)
  BY DEF FreeStateId, AnyInv
<1>2. ThreadsOK' /\ CountOK'
  BY <1>1, GrowsSame, ThreadKeep, CountSame
<1>3. TablesOK'
  <2>1. DOMAIN states' \subseteq 1 .. sidCtr' - 1 /\ \A s \in DOMAIN states' : states'[s] \in Clients
    BY <1>1 DEF TablesOK, Del
  <2>2. DOMAIN owners' \subseteq Nat /\ \A s \in DOMAIN owners' : owners'[s] \in Owners
    BY <1>1 DEF TablesOK, Del
  <2>3. known' \in [Owners -> Nat]
    BY <1>1 DEF TablesOK
  <2> QED
    BY <1>1, <2>1, <2>2, <2>3 DEF TablesOK
<1>4. DbOK(rows', keyCtr', sidCtr') /\ DbOK(disk', keyCtr', sidCtr')
  BY <1>1, DbDel
<1> QED
  BY <1>1, <1>2, <1>3, <1>4 DEF AnyInv

LEMMA AnyStateIdLost ==
  ASSUME AnyInv, NEW o \in Owners, StateIdLost(o)
  PROVE  AnyInv' /\ UNCHANGED thr
<1>1. /\ TablesOK /\ ThreadsOK /\ CountOK /\ UNCHANGED thr
      /\ UNCHANGED <<locks, index, count, keyCtr, sidCtr, owners, states, live, recs, grace, rows, disk>>
      /\ known' = [known EXCEPT ![o] = 0] /\ told' = [told EXCEPT ![o] = Nothing]
      /\ DbOK(rows, keyCtr, sidCtr) /\ DbOK(disk, keyCtr, sidCtr)
  BY DEF StateIdLost, AnyInv, mem
<1>2. ThreadsOK' /\ CountOK'
  BY <1>1, GrowsSame, ThreadKeep, CountSame
<1>3. TablesOK'
  <2>1. known' \in [Owners -> Nat] /\ told' \in [Owners -> [U64 -> LockTypes \cup {"none"}]]
    BY <1>1 DEF TablesOK, Nothing
  <2> QED
    BY <1>1, <2>1 DEF TablesOK
<1> QED
  BY <1>1, <1>2, <1>3 DEF AnyInv

(* A reclaim that finds its entry restored and its owner registered, one   *)
(* that registers it, and one that goes on as a LOCK.                      *)
LEMMA AnyReclaim ==
  ASSUME AnyInv, NEW t \in Threads, NEW o \in Owners, NEW type \in LockTypes, NEW r \in Ranges,
         Reclaim(t, o, type, r)
  PROVE  /\ AnyInv' /\ Free(t)
         /\ UNCHANGED <<locks, index, count, keyCtr, live, recs, grace, disk, told>>
         /\ \/ UNCHANGED thr /\ UNCHANGED <<sidCtr, owners, states, rows>>
            \/ /\ UNCHANGED thr /\ sidCtr' = sidCtr + 1
               /\ owners' = Put(owners, sidCtr, o)
               /\ states' = Put(states, sidCtr, ClientOf[o])
               /\ rows' = Put(Put(rows, <<"stateid", sidCtr>>, ClientOf[o]), <<"owner", sidCtr>>, o)
            \/ /\ Took(t, ReclaimWork(o, type, r))
               /\ UNCHANGED <<sidCtr, owners, states, rows, known>>
<1>1. /\ TablesOK /\ ThreadsOK /\ CountOK /\ DbOK(rows, keyCtr, sidCtr) /\ DbOK(disk, keyCtr, sidCtr)
      /\ Free(t) /\ UNCHANGED <<live, recs, grace, disk, told>>
  BY DEF Reclaim, AnyInv
<1>2. CASE /\ Canonicals(o) # {} /\ known' = [known EXCEPT ![o] = CHOOSE s \in Canonicals(o) : TRUE]
           /\ UNCHANGED <<locks, index, count, keyCtr, thr, sidCtr, owners, states, rows>>
  <2>1. ThreadsOK' /\ CountOK'
    BY <1>1, <1>2, GrowsSame, ThreadKeep, CountSame
  <2>2. known' \in [Owners -> Nat]
    <3>1. (CHOOSE s \in Canonicals(o) : TRUE) \in Canonicals(o)
      BY <1>2
    <3>2. (CHOOSE s \in Canonicals(o) : TRUE) \in Nat
      BY <1>1, <3>1 DEF Canonicals, TablesOK
    <3> QED
      BY <1>1, <1>2, <3>2 DEF TablesOK
  <2>3. TablesOK'
    BY <1>1, <1>2, <2>2 DEF TablesOK
  <2> QED
    BY <1>1, <1>2, <2>1, <2>3 DEF AnyInv
<1>3. CASE /\ known' = [known EXCEPT ![o] = sidCtr] /\ sidCtr' = sidCtr + 1
           /\ owners' = Put(owners, sidCtr, o) /\ states' = Put(states, sidCtr, ClientOf[o])
           /\ rows' = Put(Put(rows, <<"stateid", sidCtr>>, ClientOf[o]), <<"owner", sidCtr>>, o)
           /\ UNCHANGED <<locks, index, count, keyCtr, thr>>
  <2>1. ThreadsOK' /\ CountOK'
    BY <1>1, <1>3, GrowsSame, ThreadKeep, CountSame
  <2>2. sidCtr \in Nat \ {0} /\ keyCtr \in Nat \ {0} /\ ClientOf[o] \in Clients
    BY <1>1, LocksAssumption DEF TablesOK
  <2>3. known' \in [Owners -> Nat]
    BY <1>1, <1>3, <2>2 DEF TablesOK
  <2>4. DOMAIN states' \subseteq 1 .. sidCtr' - 1 /\ \A s \in DOMAIN states' : states'[s] \in Clients
    BY <1>1, <1>3, <2>2 DEF TablesOK, Put
  <2>5. DOMAIN owners' \subseteq Nat /\ \A s \in DOMAIN owners' : owners'[s] \in Owners
    BY <1>1, <1>3, <2>2 DEF TablesOK, Put
  <2>6. TablesOK'
    BY <1>1, <1>3, <2>2, <2>3, <2>4, <2>5 DEF TablesOK
  <2>7. PICK S \in Nat : S = sidCtr + 1
    BY <2>2
  <2>8. DbOK(rows, keyCtr, S) /\ DbOK(disk, keyCtr, S)
    BY <1>1, <2>2, <2>7, DbKept
  <2>9. /\ RowIn(<<"stateid", sidCtr>>, ClientOf[o], keyCtr, S)
        /\ RowIn(<<"owner", sidCtr>>, o, keyCtr, S)
    BY <2>2, <2>7 DEF RowIn
  <2>10. DbOK(Put(Put(rows, <<"stateid", sidCtr>>, ClientOf[o]), <<"owner", sidCtr>>, o), keyCtr, S)
    BY <2>8, <2>9, DbPut
  <2>11. DbOK(rows', keyCtr', sidCtr') /\ DbOK(disk', keyCtr', sidCtr')
    BY <1>1, <1>3, <2>7, <2>8, <2>10
  <2> QED
    BY <1>1, <1>3, <2>1, <2>6, <2>11 DEF AnyInv
<1>4. CASE /\ thr' = [thr EXCEPT ![t] = ReclaimWork(o, type, r)]
           /\ UNCHANGED <<mem, rows, known>>
  <2>1. r \in Range64
    BY LocksAssumption
  <2>2. WorkOK(ReclaimWork(o, type, r), locks, keyCtr)
    <3>1. [op |-> "check", new |-> TRUE] \in Ops /\ [op |-> "check", new |-> TRUE].op = "check"
      BY CheckOp
    <3> QED
      BY <2>1, <3>1, AskBegins DEF ReclaimWork
  <2>3. PICK W : W = ReclaimWork(o, type, r)
    OBVIOUS
  <2>4. AnyInv' /\ Took(t, W)
    BY <1>1, <1>4, <2>2, <2>3, AskTaken
  <2>5. UNCHANGED <<locks, index, count, keyCtr, sidCtr, owners, states, rows, known>>
    BY <1>4 DEF mem
  <2> QED
    BY <1>1, <2>3, <2>4, <2>5
<1> QED
  BY <1>2, <1>3, <1>4 DEF Reclaim, ReclaimWork

LEMMA AnyCommit ==
  ASSUME AnyInv, Commit
  PROVE  AnyInv' /\ UNCHANGED thr
<1>1. /\ TablesOK /\ ThreadsOK /\ CountOK /\ DbOK(rows, keyCtr, sidCtr) /\ disk' = rows
      /\ UNCHANGED <<locks, index, count, keyCtr, sidCtr, owners, states, live, recs, grace, rows, thr, told, known>>
  BY DEF Commit, AnyInv, mem
<1>2. ThreadsOK' /\ CountOK'
  BY <1>1, GrowsSame, ThreadKeep, CountSame
<1>3. TablesOK'
  BY <1>1 DEF TablesOK
<1> QED
  BY <1>1, <1>2, <1>3 DEF AnyInv

LEMMA AnyGraceEnds ==
  ASSUME AnyInv, GraceEnds
  PROVE  AnyInv' /\ UNCHANGED thr
<1>1. /\ TablesOK /\ ThreadsOK /\ CountOK /\ DbOK(rows, keyCtr, sidCtr) /\ DbOK(disk, keyCtr, sidCtr)
      /\ grace' = FALSE
      /\ UNCHANGED <<locks, index, count, keyCtr, sidCtr, owners, states, live, recs, rows, disk, thr, told, known>>
  BY DEF GraceEnds, AnyInv, mem
<1>2. ThreadsOK' /\ CountOK'
  BY <1>1, GrowsSame, ThreadKeep, CountSame
<1>3. TablesOK'
  BY <1>1 DEF TablesOK
<1> QED
  BY <1>1, <1>2, <1>3 DEF AnyInv

-----------------------------------------------------------------------------
(* What is loaded from the database. *)

LEMMA RowIs ==
  ASSUME NEW d, NEW N, NEW S, DbOK(d, N, S), NEW n
  PROVE  /\ <<"lock", n>> \in DOMAIN d => n \in 1 .. N - 1 /\ d[<<"lock", n>>] \in LockVals
         /\ <<"owner", n>> \in DOMAIN d => n \in Nat /\ d[<<"owner", n>>] \in Owners
         /\ <<"stateid", n>> \in DOMAIN d => n \in 1 .. S - 1 /\ d[<<"stateid", n>>] \in Clients
         /\ <<"client", n>> \in DOMAIN d => n \in Clients
BY DEF DbOK, RowIn

LEMMA LoadIs ==
  ASSUME NEW d, NEW N \in Nat, NEW S \in Nat, DbOK(d, N, S)
  PROVE  LET K == RowsOf(d, "lock")
             Q == RowsOf(d, "stateid")
         IN  /\ K \subseteq 1 .. N - 1 /\ IsFiniteSet(K)
             /\ ResumePast(K) \in Nat \ {0} /\ K \subseteq 1 .. ResumePast(K) - 1
             /\ ResumePast(Q) \in Nat \ {0} /\ Q \subseteq 1 .. ResumePast(Q) - 1
             /\ DbOK(d, ResumePast(K), ResumePast(Q))
<1> DEFINE K == RowsOf(d, "lock")
           Q == RowsOf(d, "stateid")
<1>1. /\ \A n : n \in K <=> <<"lock", n>> \in DOMAIN d
      /\ \A n : n \in Q <=> <<"stateid", n>> \in DOMAIN d
  BY RowsOfIs
<1> HIDE DEF K, Q
<1>2. K \subseteq 1 .. N - 1 /\ Q \subseteq 1 .. S - 1
  BY <1>1, RowIs
<1>3. IsFiniteSet(K)
  <2>1. IsFiniteSet(1 .. N - 1)
    BY FS_Interval
  <2> QED
    BY <1>2, <2>1, FS_Subset
<1>4. ASSUME NEW M \in Nat, NEW X, X \subseteq 1 .. M - 1
      PROVE  ResumePast(X) \in Nat \ {0} /\ X \subseteq 1 .. ResumePast(X) - 1
  <2>1. X \in SUBSET (1 .. M) /\ \A m \in X : m \in Nat /\ m >= 1
    BY <1>4
  <2>2. TopOf(X) \in Nat /\ \A m \in X : m <= TopOf(X)
    BY <2>1, TopIs
  <2> QED
    BY <2>1, <2>2 DEF ResumePast
<1>5. ResumePast(K) \in Nat \ {0} /\ K \subseteq 1 .. ResumePast(K) - 1
  BY <1>2, <1>4
<1>6. ResumePast(Q) \in Nat \ {0} /\ Q \subseteq 1 .. ResumePast(Q) - 1
  BY <1>2, <1>4
<1>7. DbOK(d, ResumePast(K), ResumePast(Q))
  <2> SUFFICES ASSUME NEW k \in DOMAIN d PROVE RowIn(k, d[k], ResumePast(K), ResumePast(Q))
    BY DEF DbOK
  <2>1. RowIn(k, d[k], N, S)
    BY DEF DbOK
  <2>2. CASE k \in {"lock"} \X (1 .. N - 1) /\ d[k] \in LockVals
    <3>1. k = <<"lock", k[2]>>
      BY <2>2
    <3>2. k[2] \in K
      BY <1>1, <3>1
    <3> QED
      BY <1>5, <2>2, <3>1, <3>2 DEF RowIn
  <2>3. CASE k \in {"stateid"} \X (1 .. S - 1) /\ d[k] \in Clients
    <3>1. k = <<"stateid", k[2]>>
      BY <2>3
    <3>2. k[2] \in Q
      BY <1>1, <3>1
    <3> QED
      BY <1>6, <2>3, <3>1, <3>2 DEF RowIn
  <2> QED
    BY <2>1, <2>2, <2>3 DEF RowIn
<1> QED
  BY <1>2, <1>3, <1>5, <1>6, <1>7 DEF K, Q

LEMMA AnyLoad ==
  ASSUME AnyInv, NEW d, DbOK(d, keyCtr, sidCtr), Load(d)
  PROVE  AnyInv' /\ thr' = [t \in Threads |-> Idle]
<1> DEFINE K == RowsOf(d, "lock")
           Q == RowsOf(d, "stateid")
           O == RowsOf(d, "owner")
<1>1. /\ TablesOK /\ keyCtr \in Nat /\ sidCtr \in Nat
  BY DEF AnyInv, TablesOK
<1>2. /\ \A n : n \in K <=> <<"lock", n>> \in DOMAIN d
      /\ \A n : n \in Q <=> <<"stateid", n>> \in DOMAIN d
      /\ \A n : n \in O <=> <<"owner", n>> \in DOMAIN d
      /\ \A n : n \in RowsOf(d, "client") <=> <<"client", n>> \in DOMAIN d
  BY RowsOfIs
<1>3. /\ K \subseteq 1 .. keyCtr - 1 /\ IsFiniteSet(K)
      /\ ResumePast(K) \in Nat \ {0} /\ K \subseteq 1 .. ResumePast(K) - 1
      /\ ResumePast(Q) \in Nat \ {0} /\ Q \subseteq 1 .. ResumePast(Q) - 1
      /\ DbOK(d, ResumePast(K), ResumePast(Q))
  BY <1>1, LoadIs
<1>4. /\ locks' = [k \in K |-> d[<<"lock", k>>]] /\ index' = Listed(K)
      /\ count' = [c \in Clients |-> Cardinality({k \in K : ClientOf[d[<<"lock", k>>].owner] = c})]
      /\ keyCtr' = ResumePast(K) /\ owners' = [s \in O |-> d[<<"owner", s>>]]
      /\ states' = [s \in Q |-> d[<<"stateid", s>>]] /\ sidCtr' = ResumePast(Q)
      /\ recs' = RowsOf(d, "client") /\ live' = {} /\ grace' = TRUE
      /\ rows' = d /\ disk' = d /\ thr' = [t \in Threads |-> Idle] /\ UNCHANGED <<told, known>>
  BY DEF Load
<1> HIDE DEF K, Q, O
<1>5. TablesOK'
  <2>1. index' \in Seq(1 .. keyCtr' - 1)
    <3>1. Listed(K) \in Seq(K)
      BY <1>3, ListedIs
    <3> QED
      BY <1>3, <1>4, <3>1, SeqWiden
  <2>2. DOMAIN locks' \subseteq 1 .. keyCtr' - 1 /\ \A k \in DOMAIN locks' : locks'[k] \in LockVals
    BY <1>2, <1>3, <1>4, RowIs
  <2>3. DOMAIN owners' \subseteq Nat /\ \A s \in DOMAIN owners' : owners'[s] \in Owners
    BY <1>2, <1>4, RowIs
  <2>4. DOMAIN states' \subseteq 1 .. sidCtr' - 1 /\ \A s \in DOMAIN states' : states'[s] \in Clients
    BY <1>2, <1>3, <1>4, RowIs
  <2>5. recs' \subseteq Clients
    BY <1>2, <1>4, RowIs
  <2> QED
    BY <1>1, <1>3, <1>4, <2>1, <2>2, <2>3, <2>4, <2>5 DEF TablesOK
<1>6. CountOK'
  <2>1. \A c \in Clients : Entries(c)' = {k \in K : ClientOf[d[<<"lock", k>>].owner] = c}
    BY <1>4 DEF Entries
  <2>2. ASSUME NEW c \in Clients PROVE count'[c] = Cardinality(Entries(c)') /\ count'[c] \in Nat
    <3> DEFINE E == {k \in K : ClientOf[d[<<"lock", k>>].owner] = c}
    <3>1. count'[c] = Cardinality(E) /\ Entries(c)' = E
      BY <1>4, <2>1
    <3>2. E \subseteq K
      OBVIOUS
    <3> HIDE DEF E
    <3>3. IsFiniteSet(E)
      BY <1>3, <3>2, FS_Subset
    <3>4. Cardinality(E) \in Nat
      BY <3>3, FS_CardinalityType
    <3> QED
      BY <3>1, <3>4
  <2>3. count' = [c \in Clients |-> count'[c]]
    BY <1>4
  <2>4. count' \in [Clients -> Nat]
    BY <2>2, <2>3
  <2> QED
    BY <2>2, <2>4 DEF CountOK
<1>7. ThreadsOK'
  <2>1. \A t \in Threads : WorkOK(thr'[t], locks', keyCtr')
    BY <1>4, IdleOK
  <2>2. thr' \in [Threads -> Works]
    BY <1>4 DEF Works
  <2> QED
    BY <2>1, <2>2 DEF ThreadsOK
<1> QED
  BY <1>3, <1>4, <1>5, <1>6, <1>7 DEF AnyInv

LEMMA AnyInit == Init => AnyInv
<1> SUFFICES ASSUME Init PROVE AnyInv
  OBVIOUS
<1> USE DEF Init
<1>1. TablesOK
  <2>1. DOMAIN locks = {} /\ DOMAIN owners = {} /\ DOMAIN states = {}
    OBVIOUS
  <2>2. index \in Seq(1 .. keyCtr - 1)
    OBVIOUS
  <2>3. keyCtr \in Nat \ {0} /\ sidCtr \in Nat \ {0}
    OBVIOUS
  <2>5. grace \in BOOLEAN
    OBVIOUS
  <2>4. told \in [Owners -> [U64 -> LockTypes \cup {"none"}]] /\ known \in [Owners -> Nat]
    BY DEF Nothing
  <2> QED
    BY <2>1, <2>2, <2>3, <2>4, <2>5 DEF TablesOK
<1>2. CountOK
  <2>1. \A c : Entries(c) = {}
    BY DEF Entries
  <2> QED
    BY <2>1, FS_EmptySet DEF CountOK
<1>3. ThreadsOK
  <2>1. \A t \in Threads : WorkOK(thr[t], locks, keyCtr)
    BY IdleOK
  <2> QED
    BY <2>1 DEF ThreadsOK, Works
<1>4. DbOK(rows, keyCtr, sidCtr) /\ rows = disk
  BY DEF DbOK, RowIn
<1> QED
  BY <1>1, <1>2, <1>3, <1>4 DEF AnyInv

LEMMA AnyStep ==
  ASSUME AnyInv, NEW t \in Threads, Step(t)
  PROVE  AnyInv'
BY AnyCheck, AnyAllocate, AnyRegister, AnyTrim, AnyCarve, AnyUnindex, AnyDropFh, AnyUnrow,
   AnyInsert, AnyPush, AnyRow, AnyReply, AnyDropSessions, AnyDropRecord, AnyStrip, AnyRemove,
   AnyPurge, AnyRetired DEF Step

LEMMA AnyRequest ==
  ASSUME AnyInv, NEW t \in Threads, Request(t)
  PROVE  AnyInv'
BY AnyLock, AnyReclaim, AnyLockU, AnyFreeStateId, AnyTeardown, AnyReconnect DEF Request

LEMMA AnyNext ==
  ASSUME AnyInv, [Next]_vars
  PROVE  AnyInv'
<1>1. CASE \E t \in Threads : Request(t)
  BY <1>1, AnyRequest
<1>2. CASE \E t \in Threads : Step(t)
  BY <1>2, AnyStep
<1>3. CASE (\E o \in Owners : StateIdLost(o)) \/ Commit \/ GraceEnds
  BY <1>3, AnyStateIdLost, AnyCommit, AnyGraceEnds
<1>4. CASE Restart
  <2>1. DbOK(rows, keyCtr, sidCtr) /\ Load(rows)
    BY <1>4 DEF AnyInv, Restart
  <2> QED
    BY <2>1, AnyLoad
<1>5. CASE Crash
  <2>1. DbOK(disk, keyCtr, sidCtr) /\ Load(disk)
    BY <1>5 DEF AnyInv, Crash
  <2> QED
    BY <2>1, AnyLoad
<1>6. CASE UNCHANGED vars
  <2>1. TablesOK /\ ThreadsOK /\ UNCHANGED thr /\ UNCHANGED <<locks, keyCtr>>
        /\ UNCHANGED <<mem, live, recs, grace, rows, disk, told, known>>
    BY <1>6 DEF AnyInv, vars, mem
  <2>2. ThreadsOK'
    BY <2>1, GrowsSame, ThreadKeep
  <2> QED
    BY <2>1, <2>2, Still
<1> QED
  BY <1>1, <1>2, <1>3, <1>4, <1>5, <1>6 DEF Next

(* LockManager, however its requests and the teardowns of clients overlap, *)
(* and across restarts and crashes: every key and stateid in a table was   *)
(* minted, every entry is a lock, and what a thread has left to do is a    *)
(* list its handler can have.                                              *)
THEOREM TablesAlwaysOK == Spec => []AnyInv
<1>1. Init => AnyInv
  BY AnyInit
<1>2. AnyInv /\ [Next]_vars => AnyInv'
  BY AnyNext
<1> QED
  BY <1>1, <1>2, PTL DEF Spec

(* The quota's counter: add_lock counts one up, remove_lock and the carve  *)
(* of trim_owner_range one down, and whatever requests and teardowns       *)
(* interleave, no entry is counted twice or given back twice.              *)
THEOREM QuotaCountsEntries == Spec => []CountExact
<1>1. AnyInv => CountExact
  BY DEF AnyInv, CountOK, CountExact, Entries
<1> QED
  BY <1>1, TablesAlwaysOK, PTL

-----------------------------------------------------------------------------
(* Whose locks a step touches. *)

Rightful(k) ==
    \E t \in Threads :
        \/ thr[t].kind \in {"lock", "locku"} /\ thr[t].owner = locks[k].owner
        \/ thr[t].kind = "retire" /\ thr[t].client = ClientOf[locks[k].owner]

LEMMA StepStays ==
  ASSUME NEW t \in Threads, Step(t)
  PROVE  UNCHANGED <<restarts, crashes>>
BY DEF Step, Check, Allocate, Register, Trim, Carve, Unindex, DropFh, Unrow, Insert, Push, Row,
   Reply, DropSessions, DropRecord, Strip, Remove, Purge, Retired

LEMMA RequestStays ==
  ASSUME NEW t \in Threads, Request(t)
  PROVE  UNCHANGED <<restarts, crashes, locks>>
<1>1. ASSUME NEW o, NEW type, NEW r, Lock(t, o, type, r) \/ LockU(t, o, r)
      PROVE  UNCHANGED <<restarts, crashes, locks>>
  BY <1>1 DEF Lock, LockU, mem
<1>2. ASSUME NEW o, NEW type, NEW r, Reclaim(t, o, type, r)
      PROVE  UNCHANGED <<restarts, crashes, locks>>
  BY <1>2 DEF Reclaim, mem
<1>3. ASSUME NEW o, FreeStateId(t, o) PROVE UNCHANGED <<restarts, crashes, locks>>
  BY <1>3 DEF FreeStateId
<1>4. ASSUME NEW c, Sweep(t, c) \/ Cascade(t, c) \/ DestroyClientId(t, c) \/ Reconnect(t, c)
      PROVE  UNCHANGED <<restarts, crashes, locks>>
  BY <1>4 DEF Sweep, Cascade, DestroyClientId, Reconnect, mem
<1> QED
  BY <1>1, <1>2, <1>3, <1>4 DEF Request

LEMMA RestStays ==
  ASSUME (\E o \in Owners : StateIdLost(o)) \/ Commit \/ GraceEnds
  PROVE  UNCHANGED <<restarts, crashes, locks>>
BY DEF StateIdLost, Commit, GraceEnds, mem

LEMMA OthersKeep ==
  ASSUME NEW t \in Threads, Step(t), ~ Carve(t), ~ Remove(t), ~ Insert(t)
  PROVE  UNCHANGED locks
BY DEF Step, Check, Allocate, Register, Trim, Unindex, DropFh, Unrow, Push, Row,
   Reply, DropSessions, DropRecord, Strip, Purge, Retired, mem

DownsOK == restarts \in Nat /\ crashes \in Nat

LEMMA DownsNext ==
  ASSUME DownsOK, [Next]_vars
  PROVE  DownsOK'
<1>1. CASE UNCHANGED <<restarts, crashes>>
  BY <1>1 DEF DownsOK
<1>2. CASE Restart \/ Crash
  BY <1>2 DEF DownsOK, Restart, Crash
<1> QED
  BY <1>1, <1>2, StepStays, RequestStays, RestStays DEF Next, vars

LEMMA TouchesOwn ==
  ASSUME AnyInv, DownsOK, [Next]_vars, <<restarts, crashes>>' = <<restarts, crashes>>,
         NEW k \in DOMAIN locks, k \notin DOMAIN locks' \/ locks'[k] # locks[k]
  PROVE  Rightful(k)
<1>1. ~ Restart /\ ~ Crash
  BY DEF Restart, Crash, DownsOK
<1>2. locks' # locks
  OBVIOUS
<1>3. PICK t \in Threads : Step(t)
  BY <1>1, <1>2, RequestStays, RestStays DEF Next, vars
<1>4. CASE Carve(t)
  <2> DEFINE j == NextOp(t).key
  <2>1. /\ thr[t].kind \in {"lock", "locku"} /\ j \in DOMAIN locks /\ OwnedBy(j, thr[t].owner)
        /\ locks' = Del(locks, {j})
    BY <1>2, <1>4, AnyCarve
  <2>2. k = j
    BY <2>1 DEF Del
  <2> QED
    BY <2>1, <2>2 DEF OwnedBy, Rightful
<1>5. CASE Remove(t)
  <2> DEFINE j == NextOp(t).key
  <2>1. /\ thr[t].kind = "retire" /\ j \in DOMAIN locks /\ ClientOf[locks[j].owner] = thr[t].client
        /\ locks' = Del(locks, {j})
    BY <1>2, <1>5, AnyRemove
  <2>2. k = j
    BY <2>1 DEF Del
  <2> QED
    BY <2>1, <2>2 DEF Rightful
<1>6. CASE Insert(t)
  BY <1>6, AnyInsert DEF Put
<1> QED
  BY <1>2, <1>3, <1>4, <1>5, <1>6, OthersKeep

(* remove_lock and the carve of trim_owner_range take a key they read      *)
(* earlier, with no lock held since: however requests and teardowns        *)
(* overlap, the entry they find under it is still one of their own owner   *)
(* or client, for no key is ever used twice.                               *)
THEOREM TouchesOwnLocksOnly == Spec => OwnLocksOnly
<1> DEFINE Inv == AnyInv /\ DownsOK
<1>1. Init => DownsOK
  BY DEF Init, DownsOK
<1>2. Inv /\ [Next]_vars => DownsOK'
  BY DownsNext
<1>3. Inv /\ [Next]_vars =>
        [<<restarts, crashes>>' = <<restarts, crashes>> =>
            \A k \in DOMAIN locks :
              (k \notin DOMAIN locks' \/ locks'[k] # locks[k]) =>
                  \E t \in Threads :
                      \/ thr[t].kind \in {"lock", "locku"} /\ thr[t].owner = locks[k].owner
                      \/ thr[t].kind = "retire" /\ thr[t].client = ClientOf[locks[k].owner]]_vars
  BY TouchesOwn DEF Rightful
<1> QED
  BY <1>1, <1>2, <1>3, TablesAlwaysOK, PTL DEF Spec, OwnLocksOnly

-----------------------------------------------------------------------------
(* The index and the rows, one request at a time. *)

(* No map operation in progress. *)
Bland(q) == \A i \in 1 .. Len(q) : q[i].op \notin {"push", "row", "unindex", "unrow", "dropfh"}

SameLockRows(d, e) ==
    \A k \in Nat : /\ LockRow(d, k) <=> LockRow(e, k)
                   /\ LockRow(d, k) => d[<<"lock", k>>] = e[<<"lock", k>>]

LEMMA BlandJoin ==
  ASSUME NEW ops \in Seq(Ops), NEW q \in Seq(Ops), q # <<>>, ListOK(q),
         q[1].op \notin {"push", "unindex", "dropfh"}, Bland(ops)
  PROVE  Bland(ops \o Tail(q)) /\ ops \o Tail(q) \in Seq(Ops)
<1> DEFINE r == ops \o Tail(q)
<1>1. /\ r \in Seq(Ops) /\ Len(q) \in Nat /\ Len(q) >= 1 /\ Len(ops) \in Nat
      /\ Len(r) = Len(ops) + Len(q) - 1
      /\ \A i \in 1 .. Len(ops) + Len(q) - 1 :
               r[i] = IF i <= Len(ops) THEN ops[i] ELSE q[i - Len(ops) + 1]
  BY Joined
<1> HIDE DEF r
<1>2. \A i \in 2 .. Len(q) : q[i].op \in LaterOps
  BY <1>1 DEF ListOK
<1>3. ASSUME NEW i \in 1 .. Len(r)
      PROVE  r[i].op \notin {"push", "row", "unindex", "unrow", "dropfh"}
  <2>1. CASE i <= Len(ops)
    BY <1>1, <2>1 DEF Bland
  <2>2. CASE i > Len(ops)
    <3>1. i - Len(ops) + 1 \in 2 .. Len(q) /\ r[i] = q[i - Len(ops) + 1]
      BY <1>1, <2>2
    <3> QED
      BY <1>2, <3>1 DEF LaterOps
  <2> QED
    BY <1>1, <2>1, <2>2
<1> QED
  BY <1>1, <1>3 DEF Bland, r

LEMMA BlandNone ==
  ASSUME NEW q \in Seq(Ops), Bland(q)
  PROVE  /\ \A k : ~ Pushing(q, k) /\ ~ Rowing(q, k) /\ ~ Unlisting(q, k) /\ ~ Unrowing(q, k)
         /\ ~ (Len(q) >= 1 /\ q[1].op = "dropfh")
<1>1. Len(q) \in Nat /\ (Len(q) >= 2 => Len(q) >= 1)
  OBVIOUS
<1>2. Len(q) >= 1 => q[1].op \notin {"push", "row", "unindex", "unrow", "dropfh"}
  BY <1>1 DEF Bland
<1> QED
  BY <1>1, <1>2 DEF Pushing, Rowing, Unlisting, Unrowing

LEMMA BlandLists ==
  ASSUME NEW p \in Seq(Ops), NEW q \in Seq(Ops), Bland(p), Bland(q), NEW L, NEW ix, NEW K,
         Lists(p, L, ix, K)
  PROVE  Lists(q, L, ix, K)
BY BlandNone DEF Lists

LEMMA BlandMirrors ==
  ASSUME NEW p \in Seq(Ops), NEW q \in Seq(Ops), Bland(p), Bland(q), NEW L, NEW d, NEW e, NEW K \in Nat,
         DOMAIN L \subseteq 1 .. K - 1, Mirrors(p, L, d, K), SameLockRows(d, e)
  PROVE  Mirrors(q, L, e, K)
<1>1. \A k \in 1 .. K - 1 : k \in Nat
  OBVIOUS
<1>2. \A k \in 1 .. K - 1 : LockRow(e, k) <=> k \in DOMAIN L
  BY <1>1, BlandNone DEF Mirrors, SameLockRows
<1>3. \A k \in DOMAIN L : LockRow(e, k) => e[<<"lock", k>>] = L[k]
  BY <1>1, BlandNone DEF Mirrors, SameLockRows
<1>4. \A k \in 1 .. K - 1 : LockRow(e, k) <=> (k \in DOMAIN L /\ ~ Rowing(q, k)) \/ Unrowing(q, k)
  BY <1>2, BlandNone
<1>5. \A i \in 1 .. Len(q) : q[i].op \notin {"push", "row"}
  BY DEF Bland
<1> QED
  BY <1>3, <1>4, <1>5 DEF Mirrors

LEMMA SameRowsPut ==
  ASSUME NEW d, NEW table \in {"owner", "stateid", "client"}, NEW n, NEW v
  PROVE  SameLockRows(d, Put(d, <<table, n>>, v))
<1>1. \A k : <<"lock", k>> # <<table, n>>
  OBVIOUS
<1> QED
  BY <1>1 DEF SameLockRows, LockRow, Put

LEMMA SameRowsDel ==
  ASSUME NEW d, NEW X, \A k : <<"lock", k>> \notin X
  PROVE  SameLockRows(d, Del(d, X))
BY DEF SameLockRows, LockRow, Del

(* The step is the whole of OneInv' when the thread that takes it is alone. *)
LEMMA OneThen ==
  ASSUME OneInv, ~ overlap, NEW t \in Threads, ThreadsOK, ~ Free(t)
  PROVE  Alone(t) /\ Exact(Todo(t))
<1>1. thr[t] # Idle
  BY DEF Free, Idle
<1> QED
  BY <1>1 DEF OneInv, Alone

OneAt(t) == Alone(t) /\ Exact(Todo(t))

LEMMA TodoIs ==
  ASSUME ThreadsOK, NEW t \in Threads
  PROVE  Todo(t) \in Seq(Ops) /\ ListOK(Todo(t))
<1>1. thr[t] \in Works /\ ListOK(thr[t].todo)
  BY DEF ThreadsOK, WorkOK
<1>2. thr[t].todo \in Seq(Ops)
  <2>1. CASE thr[t] = Idle
    BY <2>1 DEF Idle
  <2>2. CASE thr[t] \in Asks \cup Retires
    BY <2>2 DEF Asks, Retires
  <2> QED
    BY <1>1, <2>1, <2>2 DEF Works
<1> QED
  BY <1>1, <1>2 DEF Todo

LEMMA OneDoes ==
  ASSUME AnyInv, OneInv, ~ overlap, NEW t \in Threads, NEW o, Does(t, o)
  PROVE  /\ OneAt(t) /\ Todo(t) \in Seq(Ops) /\ Todo(t) # <<>> /\ ListOK(Todo(t))
         /\ Todo(t)[1].op = o /\ Len(Todo(t)) \in Nat /\ Len(Todo(t)) >= 1
<1>1. ThreadsOK
  BY DEF AnyInv
<1>2. ~ Free(t)
  BY <1>1, HeadIs DEF Free
<1> QED
  BY <1>1, <1>2, OneThen, HeadIs, TodoIs DEF OneAt

(* All that OneAt asks of how the threads moved. *)
Shifted(t, ops) ==
    /\ \A u \in Threads \ {t} : thr'[u] = thr[u]
    /\ thr'[t].todo = ops \o Tail(thr[t].todo)

LEMMA OneBland ==
  ASSUME AnyInv, OneInv, ~ overlap, NEW t \in Threads, NEW o, Does(t, o),
         o \notin {"push", "row", "unindex", "unrow", "dropfh"},
         NEW ops \in Seq(Ops), Bland(ops), Shifted(t, ops),
         UNCHANGED <<locks, index, keyCtr>>, SameLockRows(rows, rows')
  PROVE  OneAt(t)'
<1>1. /\ OneAt(t) /\ Todo(t) \in Seq(Ops) /\ Todo(t) # <<>> /\ ListOK(Todo(t)) /\ Todo(t)[1].op = o
      /\ Len(Todo(t)) \in Nat /\ Len(Todo(t)) >= 1
  BY OneDoes
<1>2. PICK q : q = Todo(t)
  OBVIOUS
<1>3. PICK r : r = ops \o Tail(q)
  OBVIOUS
<1>4. /\ Bland(r) /\ r \in Seq(Ops)
  BY <1>1, <1>2, <1>3, BlandJoin
<1>5. Bland(q)
  BY <1>1, <1>2 DEF Bland, ListOK, LaterOps
<1>6. Todo(t)' = r /\ Alone(t)'
  BY <1>1, <1>2, <1>3 DEF Shifted, Todo, OneAt, Alone
<1>7. Lists(q, locks, index, keyCtr) /\ Mirrors(q, locks, rows, keyCtr)
  BY <1>1, <1>2 DEF OneAt, Exact
<1>8. keyCtr \in Nat /\ DOMAIN locks \subseteq 1 .. keyCtr - 1
  BY DEF AnyInv, TablesOK
<1>9. Lists(r, locks, index, keyCtr)
  BY <1>1, <1>2, <1>4, <1>5, <1>7, BlandLists
<1>10. Mirrors(r, locks, rows', keyCtr)
  BY <1>1, <1>2, <1>4, <1>5, <1>7, <1>8, BlandMirrors
<1> QED
  BY <1>6, <1>9, <1>10 DEF OneAt, Exact

LEMMA NoneBland == Bland(<<>>) /\ <<>> \in Seq(Ops)
BY DEF Bland

(* The thread's request ends, or one begins. *)
LEMMA OneTurns ==
  ASSUME AnyInv, NEW t \in Threads, Alone(t), Exact(Todo(t)), Bland(Todo(t)),
         NEW W, Took(t, W), W.todo \in Seq(Ops), Bland(W.todo),
         UNCHANGED <<locks, index, keyCtr>>, SameLockRows(rows, rows')
  PROVE  OneAt(t)'
<1>1. PICK q : q = Todo(t)
  OBVIOUS
<1>2. q \in Seq(Ops) /\ keyCtr \in Nat /\ DOMAIN locks \subseteq 1 .. keyCtr - 1
  BY <1>1, TodoIs DEF AnyInv, TablesOK
<1>3. Lists(q, locks, index, keyCtr) /\ Mirrors(q, locks, rows, keyCtr) /\ Bland(q)
  BY <1>1 DEF Exact
<1>4. Lists(W.todo, locks, index, keyCtr)
  BY <1>2, <1>3, BlandLists
<1>5. Mirrors(W.todo, locks, rows', keyCtr)
  BY <1>2, <1>3, BlandMirrors
<1>6. Todo(t)' = W.todo /\ Alone(t)'
  BY DEF Took, Todo, Alone
<1> QED
  BY <1>4, <1>5, <1>6 DEF OneAt, Exact

(* remove_lock has taken the entry, and has its index and row to go. *)
LEMMA OneCut ==
  ASSUME AnyInv, OneInv, ~ overlap, NEW t \in Threads, NEW o, Does(t, o),
         o \notin {"push", "row", "unindex", "unrow", "dropfh"}, NEW k \in DOMAIN locks,
         NEW ops \in Seq(Ops), Len(ops) >= 2, ops[1].op = "unindex", ops[1].key = k,
         \A i \in 2 .. Len(ops) : ops[i].op \notin {"push", "row"}, Moved(t, ops),
         locks' = Del(locks, {k}), UNCHANGED <<index, keyCtr, rows>>
  PROVE  OneAt(t)'
<1>1. /\ OneAt(t) /\ Todo(t) \in Seq(Ops) /\ Todo(t) # <<>> /\ ListOK(Todo(t)) /\ Todo(t)[1].op = o
      /\ Len(Todo(t)) \in Nat /\ Len(Todo(t)) >= 1
  BY OneDoes
<1>2. PICK q : q = Todo(t)
  OBVIOUS
<1>3. PICK r : r = ops \o Tail(q)
  OBVIOUS
<1>4. Bland(q)
  BY <1>1, <1>2 DEF Bland, ListOK, LaterOps
<1>5. Todo(t)' = r /\ Alone(t)'
  BY <1>1, <1>2, <1>3 DEF Moved, Todo, OneAt, Alone
<1>6. /\ r \in Seq(Ops) /\ Len(r) \in Nat /\ Len(r) >= 2 /\ r[1].op = "unindex" /\ r[1].key = k
      /\ \A i \in 1 .. Len(r) : r[i].op \notin {"push", "row"}
  <2>1. /\ r \in Seq(Ops) /\ Len(ops) \in Nat /\ Len(r) = Len(ops) + Len(q) - 1
        /\ \A i \in 1 .. Len(ops) + Len(q) - 1 :
               r[i] = IF i <= Len(ops) THEN ops[i] ELSE q[i - Len(ops) + 1]
    BY <1>1, <1>2, <1>3, Joined
  <2>2. r[1] = ops[1] /\ Len(r) >= 2 /\ Len(r) \in Nat
    BY <1>1, <1>2, <2>1
  <2>3. ASSUME NEW i \in 1 .. Len(r) PROVE r[i].op \notin {"push", "row"}
    <3>1. CASE i <= Len(ops)
      <4>1. r[i] = ops[i] /\ (i = 1 \/ i \in 2 .. Len(ops))
        BY <2>1, <3>1
      <4> QED
        BY <4>1
    <3>2. CASE i > Len(ops)
      <4>1. r[i] = q[i - Len(ops) + 1] /\ i - Len(ops) + 1 \in 1 .. Len(q)
        BY <1>1, <1>2, <2>1, <3>2
      <4> QED
        BY <1>4, <4>1 DEF Bland
    <3> QED
      BY <2>1, <3>1, <3>2
  <2> QED
    BY <2>1, <2>2, <2>3
<1>7. \A j : /\ ~ Pushing(r, j) /\ ~ Rowing(r, j)
             /\ Unlisting(r, j) <=> j = k
             /\ Unrowing(r, j) <=> j = k
  BY <1>6 DEF Pushing, Rowing, Unlisting, Unrowing
<1>8. Lists(q, locks, index, keyCtr) /\ Mirrors(q, locks, rows, keyCtr)
  BY <1>1, <1>2 DEF OneAt, Exact
<1>9. \A j : ~ Pushing(q, j) /\ ~ Rowing(q, j) /\ ~ Unlisting(q, j) /\ ~ Unrowing(q, j)
  BY <1>1, <1>2, <1>4, BlandNone
<1>10. DOMAIN locks' = DOMAIN locks \ {k} /\ \A j \in DOMAIN locks' : locks'[j] = locks[j]
  BY DEF Del
<1>11. Lists(r, locks', index, keyCtr)
  <2>1. \A j \in 1 .. keyCtr - 1 : (\E i \in 1 .. Len(index) : index[i] = j) <=> j \in DOMAIN locks
    BY <1>8, <1>9 DEF Lists
  <2>2. \A j \in 1 .. keyCtr - 1 : (\E i \in 1 .. Len(index) : index[i] = j)
          <=> (j \in DOMAIN locks' /\ ~ Pushing(r, j)) \/ Unlisting(r, j)
    BY <1>7, <1>10, <2>1
  <2> QED
    BY <1>6, <1>8, <2>2 DEF Lists
<1>12. Mirrors(r, locks', rows, keyCtr)
  <2>1. \A j \in 1 .. keyCtr - 1 : LockRow(rows, j) <=> j \in DOMAIN locks
    BY <1>8, <1>9 DEF Mirrors
  <2>2. \A j \in 1 .. keyCtr - 1 : LockRow(rows, j)
          <=> (j \in DOMAIN locks' /\ ~ Rowing(r, j)) \/ Unrowing(r, j)
    BY <1>7, <1>10, <2>1
  <2>3. \A j \in DOMAIN locks' : LockRow(rows, j) => rows[<<"lock", j>>] = locks'[j]
    BY <1>8, <1>10 DEF Mirrors
  <2> QED
    BY <1>6, <2>2, <2>3 DEF Mirrors
<1> QED
  BY <1>5, <1>11, <1>12 DEF OneAt, Exact

(* The tail of a list whose head is a map operation in progress. *)
LEMMA NextIs ==
  ASSUME NEW q \in Seq(Ops), Len(q) >= 2
  PROVE  LET r == <<>> \o Tail(q)
         IN  r \in Seq(Ops) /\ Len(r) = Len(q) - 1 /\ \A i \in 1 .. Len(q) - 1 : r[i] = q[i + 1]
<1>1. q # <<>> /\ <<>> \in Seq(Ops) /\ Len(<<>>) = 0
  OBVIOUS
<1> QED
  BY <1>1, Joined

LEMMA OneUnindex ==
  ASSUME AnyInv, OneInv, ~ overlap, NEW t \in Threads, Unindex(t)
  PROVE  OneAt(t)'
<1>1. /\ AnyInv' /\ index' = Unlisted(index, NextOp(t).key) /\ Moved(t, Emptied)
      /\ UNCHANGED <<locks, keyCtr, rows>> /\ Does(t, "unindex") /\ ThreadsOK /\ TablesOK
  BY AnyUnindex DEF Unindex, AnyInv
<1>2. /\ OneAt(t) /\ Todo(t) \in Seq(Ops) /\ Todo(t) # <<>> /\ ListOK(Todo(t))
      /\ Todo(t)[1].op = "unindex" /\ Len(Todo(t)) \in Nat /\ Len(Todo(t)) >= 1
  BY <1>1, OneDoes
<1>3. PICK q : q = Todo(t)
  OBVIOUS
<1>4. PICK k : k = q[1].key
  OBVIOUS
<1>5. NextOp(t) = q[1] /\ k \in 1 .. keyCtr - 1 /\ k \notin DOMAIN locks /\ index \in Seq(1 .. keyCtr - 1)
  BY <1>1, <1>3, <1>4, HeadIs DEF OpOK, KeyOps, TablesOK
<1>6. /\ Len(q) >= 2 /\ q[2].op = "unrow" /\ q[2].key = k
      /\ \A i \in 3 .. Len(q) : q[i].op \in LaterOps
  <2>1. Len(q) = 1 \/ Len(q) >= 2
    BY <1>2, <1>3, NatCases
  <2> QED
    BY <1>2, <1>3, <1>4, <2>1 DEF ListOK
<1>7. PICK r : r = Emptied \o Tail(q)
  OBVIOUS
<1>8. Todo(t)' = r /\ Alone(t)'
  BY <1>1, <1>2, <1>3, <1>7 DEF Moved, Todo, OneAt, Alone
<1>9. /\ r \in Seq(Ops) /\ Len(r) \in Nat
      /\ \/ /\ Len(r) >= 1 /\ r[1] = q[2] /\ \A i \in 2 .. Len(r) : r[i].op \in LaterOps
         \/ /\ Len(r) >= 2 /\ r[1].op = "dropfh" /\ r[2] = q[2] /\ index' = <<>>
            /\ \A i \in 3 .. Len(r) : r[i].op \in LaterOps
  <2>1. CASE Emptied = <<>>
    <3>1. r \in Seq(Ops) /\ Len(r) = Len(q) - 1 /\ \A i \in 1 .. Len(q) - 1 : r[i] = q[i + 1]
      BY <1>2, <1>3, <1>6, <1>7, <2>1, NextIs
    <3>2. Len(r) >= 1 /\ r[1] = q[2] /\ Len(r) \in Nat
      BY <1>2, <1>3, <1>6, <3>1
    <3>3. \A i \in 2 .. Len(r) : i + 1 \in 3 .. Len(q) /\ r[i] = q[i + 1]
      BY <1>2, <1>3, <3>1
    <3> QED
      BY <1>6, <3>1, <3>2, <3>3
  <2>2. CASE Emptied = <<[op |-> "dropfh"]>> /\ index' = <<>>
    <3>1. PICK x : x = [op |-> "dropfh"]
      OBVIOUS
    <3>2. x \in Ops /\ x.op = "dropfh"
      BY <3>1, BareOp DEF BareOps
    <3>9. PICK p : p = <<x>>
      OBVIOUS
    <3>3. p \in Seq(Ops) /\ Len(p) = 1 /\ p[1] = x
      BY <3>2, <3>9
    <3>4. /\ r \in Seq(Ops) /\ Len(r) = Len(p) + Len(q) - 1
          /\ \A i \in 1 .. Len(p) + Len(q) - 1 :
                r[i] = IF i <= Len(p) THEN p[i] ELSE q[i - Len(p) + 1]
      BY <1>2, <1>3, <1>7, <2>2, <3>1, <3>3, <3>9, Joined
    <3>5. Len(r) = Len(q) /\ r[1] = x /\ \A i \in 2 .. Len(q) : r[i] = q[i]
      BY <1>2, <1>3, <3>3, <3>4
    <3> QED
      BY <1>2, <1>3, <1>6, <2>2, <3>2, <3>4, <3>5
  <2> QED
    BY <2>1, <2>2 DEF Emptied
<1>10. \A j : /\ ~ Pushing(r, j) /\ ~ Rowing(r, j) /\ ~ Unlisting(r, j)
              /\ Unrowing(r, j) <=> j = k
  BY <1>6, <1>9 DEF Pushing, Rowing, Unlisting, Unrowing
<1>11. \A j : /\ ~ Pushing(q, j) /\ ~ Rowing(q, j) /\ (Unlisting(q, j) <=> j = k)
              /\ Unrowing(q, j) <=> j = k
  BY <1>2, <1>3, <1>4 DEF Pushing, Rowing, Unlisting, Unrowing
<1>12. Lists(q, locks, index, keyCtr) /\ Mirrors(q, locks, rows, keyCtr)
  BY <1>2, <1>3 DEF OneAt, Exact
<1>13. PICK x : x = index'
  OBVIOUS
<1>14. /\ \A i, j \in 1 .. Len(x) : x[i] = x[j] => i = j
       /\ \A i \in 1 .. Len(x) : x[i] # k /\ \E j \in 1 .. Len(index) : index[j] = x[i]
       /\ \A j \in 1 .. Len(index) : index[j] # k => \E i \in 1 .. Len(x) : x[i] = index[j]
  <2>1. \A i, j \in 1 .. Len(index) : index[i] = index[j] => i = j
    BY <1>12 DEF Lists
  <2>2. x = Unlisted(index, k)
    BY <1>1, <1>4, <1>5, <1>13
  <2>3. LET r1 == Unlisted(index, k)
        IN  /\ \A i, j \in 1 .. Len(r1) : r1[i] = r1[j] => i = j
            /\ \A i \in 1 .. Len(r1) : r1[i] # k /\ \E j \in 1 .. Len(index) : index[j] = r1[i]
            /\ \A j \in 1 .. Len(index) : index[j] # k => \E i \in 1 .. Len(r1) : r1[i] = index[j]
    BY <1>5, <2>1, UnlistedIs, Zenon
  <2> QED
    BY <2>2, <2>3
<1>15. Lists(r, locks, x, keyCtr)
  <2>1. \A j \in 1 .. keyCtr - 1 :
           (\E i \in 1 .. Len(index) : index[i] = j) <=> (j \in DOMAIN locks \/ j = k)
    BY <1>11, <1>12 DEF Lists
  <2>2. \A j \in 1 .. keyCtr - 1 : (\E i \in 1 .. Len(x) : x[i] = j) <=> j \in DOMAIN locks
    BY <1>5, <1>14, <2>1
  <2>3. Len(r) >= 1 /\ r[1].op = "dropfh" => x = <<>>
    BY <1>6, <1>9, <1>13
  <2> QED
    BY <1>10, <1>14, <2>2, <2>3 DEF Lists
<1>16. Mirrors(r, locks, rows, keyCtr)
  <2>1. \A i \in 1 .. Len(r) : r[i].op \notin {"push", "row"}
    BY <1>6, <1>9 DEF LaterOps
  <2> QED
    BY <1>10, <1>11, <1>12, <2>1 DEF Mirrors
<1> QED
  BY <1>1, <1>8, <1>13, <1>15, <1>16 DEF OneAt, Exact

LEMMA OneDropFh ==
  ASSUME AnyInv, OneInv, ~ overlap, NEW t \in Threads, DropFh(t)
  PROVE  OneAt(t)'
<1>1. /\ Moved(t, <<>>) /\ index' = <<>> /\ UNCHANGED <<locks, keyCtr, rows>> /\ Does(t, "dropfh")
  BY AnyDropFh DEF DropFh
<1>2. /\ OneAt(t) /\ Todo(t) \in Seq(Ops) /\ Todo(t) # <<>> /\ ListOK(Todo(t))
      /\ Todo(t)[1].op = "dropfh" /\ Len(Todo(t)) \in Nat /\ Len(Todo(t)) >= 1
  BY <1>1, OneDoes
<1>3. PICK q : q = Todo(t)
  OBVIOUS
<1>4. /\ Len(q) >= 2 /\ q[2].op = "unrow" /\ \A i \in 3 .. Len(q) : q[i].op \in LaterOps
  <2>1. Len(q) = 1 \/ Len(q) >= 2
    BY <1>2, <1>3, NatCases
  <2> QED
    BY <1>2, <1>3, <2>1 DEF ListOK
<1>5. PICK r : r = <<>> \o Tail(q)
  OBVIOUS
<1>6. r \in Seq(Ops) /\ Len(r) = Len(q) - 1 /\ \A i \in 1 .. Len(q) - 1 : r[i] = q[i + 1]
  BY <1>2, <1>3, <1>4, <1>5, NextIs
<1>7. /\ Len(r) >= 1 /\ Len(r) \in Nat /\ r[1] = q[2] /\ \A i \in 2 .. Len(r) : r[i].op \in LaterOps
  <2>1. Len(r) >= 1 /\ r[1] = q[2] /\ Len(r) \in Nat
    BY <1>2, <1>3, <1>4, <1>6
  <2>2. \A i \in 2 .. Len(r) : i + 1 \in 3 .. Len(q) /\ r[i] = q[i + 1]
    BY <1>2, <1>3, <1>6
  <2> QED
    BY <1>4, <2>1, <2>2
<1>8. Todo(t)' = r /\ Alone(t)'
  BY <1>1, <1>2, <1>3, <1>5 DEF Moved, Todo, OneAt, Alone
<1>9. Lists(q, locks, index, keyCtr) /\ Mirrors(q, locks, rows, keyCtr) /\ index = <<>>
  BY <1>2, <1>3 DEF OneAt, Exact, Lists
<1>10. \A j : /\ ~ Pushing(r, j) /\ ~ Rowing(r, j) /\ ~ Unlisting(r, j)
              /\ Unrowing(r, j) <=> j = q[2].key
  BY <1>4, <1>7 DEF Pushing, Rowing, Unlisting, Unrowing
<1>11. \A j : /\ ~ Pushing(q, j) /\ ~ Rowing(q, j) /\ ~ Unlisting(q, j)
              /\ Unrowing(q, j) <=> j = q[2].key
  BY <1>2, <1>3, <1>4 DEF Pushing, Rowing, Unlisting, Unrowing
<1>12. Lists(r, locks, index, keyCtr)
  BY <1>4, <1>7, <1>9, <1>10, <1>11 DEF Lists
<1>13. Mirrors(r, locks, rows, keyCtr)
  <2>1. \A i \in 1 .. Len(r) : r[i].op \notin {"push", "row"}
    BY <1>4, <1>7 DEF LaterOps
  <2> QED
    BY <1>9, <1>10, <1>11, <2>1 DEF Mirrors
<1> QED
  BY <1>1, <1>8, <1>9, <1>12, <1>13 DEF OneAt, Exact

LEMMA OneUnrow ==
  ASSUME AnyInv, OneInv, ~ overlap, NEW t \in Threads, Unrow(t)
  PROVE  OneAt(t)'
<1>1. /\ Moved(t, <<>>) /\ rows' = Del(rows, {<<"lock", NextOp(t).key>>})
      /\ UNCHANGED <<locks, keyCtr, index>> /\ Does(t, "unrow") /\ ThreadsOK /\ TablesOK
  BY AnyUnrow DEF Unrow, mem, AnyInv
<1>2. /\ OneAt(t) /\ Todo(t) \in Seq(Ops) /\ Todo(t) # <<>> /\ ListOK(Todo(t))
      /\ Todo(t)[1].op = "unrow" /\ Len(Todo(t)) \in Nat /\ Len(Todo(t)) >= 1
  BY <1>1, OneDoes
<1>3. PICK q : q = Todo(t)
  OBVIOUS
<1>4. PICK k : k = q[1].key
  OBVIOUS
<1>5. NextOp(t) = q[1] /\ k \notin DOMAIN locks /\ DOMAIN locks \subseteq 1 .. keyCtr - 1
  BY <1>1, <1>3, <1>4, HeadIs DEF OpOK, TablesOK
<1>6. PICK r : r = <<>> \o Tail(q)
  OBVIOUS
<1>7. Bland(r) /\ r \in Seq(Ops)
  BY <1>2, <1>3, <1>6, NoneBland, BlandJoin
<1>8. Todo(t)' = r /\ Alone(t)'
  BY <1>1, <1>2, <1>3, <1>6 DEF Moved, Todo, OneAt, Alone
<1>9. Lists(q, locks, index, keyCtr) /\ Mirrors(q, locks, rows, keyCtr)
  BY <1>2, <1>3 DEF OneAt, Exact
<1>10. \A j : ~ Pushing(r, j) /\ ~ Rowing(r, j) /\ ~ Unlisting(r, j) /\ ~ Unrowing(r, j)
  BY <1>7, BlandNone
<1>11. \A j : /\ ~ Pushing(q, j) /\ ~ Rowing(q, j) /\ ~ Unlisting(q, j)
              /\ Unrowing(q, j) <=> j = k
  BY <1>2, <1>3, <1>4 DEF Pushing, Rowing, Unlisting, Unrowing
<1>12. Lists(r, locks, index, keyCtr)
  <2>1. ~ (Len(r) >= 1 /\ r[1].op = "dropfh")
    BY <1>7, BlandNone
  <2> QED
    BY <1>9, <1>10, <1>11, <2>1 DEF Lists
<1>13. PICK d : d = rows'
  OBVIOUS
<1>14. \A j : /\ LockRow(d, j) <=> LockRow(rows, j) /\ j # k
              /\ LockRow(d, j) => d[<<"lock", j>>] = rows[<<"lock", j>>]
  BY <1>1, <1>4, <1>5, <1>13 DEF LockRow, Del
<1>15. Mirrors(r, locks, d, keyCtr)
  <2>1. \A i \in 1 .. Len(r) : r[i].op \notin {"push", "row"}
    BY <1>7 DEF Bland
  <2>2. \A j \in 1 .. keyCtr - 1 : LockRow(rows, j) <=> j \in DOMAIN locks \/ j = k
    BY <1>9, <1>11 DEF Mirrors
  <2>3. \A j \in 1 .. keyCtr - 1 : LockRow(d, j) <=> j \in DOMAIN locks
    BY <1>5, <1>14, <2>2
  <2>4. \A j \in DOMAIN locks : LockRow(d, j) => d[<<"lock", j>>] = locks[j]
    BY <1>9, <1>14 DEF Mirrors
  <2> QED
    BY <1>10, <2>1, <2>3, <2>4 DEF Mirrors
<1> QED
  BY <1>1, <1>8, <1>12, <1>13, <1>15 DEF OneAt, Exact

LEMMA OneInsert ==
  ASSUME AnyInv, OneInv, ~ overlap, NEW t \in Threads, Insert(t)
  PROVE  OneAt(t)'
<1>1. PICK v : v = NextOp(t).lock
  OBVIOUS
<1>2. PICK n : n = keyCtr
  OBVIOUS
<1>3. /\ n \notin DOMAIN locks /\ v \in LockVals /\ locks' = Put(locks, n, v) /\ keyCtr' = n + 1
      /\ Moved(t, Inserting(n, v)) /\ UNCHANGED <<index, rows>> /\ Does(t, "insert")
      /\ ThreadsOK /\ TablesOK /\ DbOK(rows, n, sidCtr) /\ n \in Nat \ {0}
  BY <1>1, <1>2, AnyInsert DEF Insert, AnyInv, TablesOK
<1>4. /\ OneAt(t) /\ Todo(t) \in Seq(Ops) /\ Todo(t) # <<>> /\ ListOK(Todo(t))
      /\ Todo(t)[1].op = "insert" /\ Len(Todo(t)) \in Nat /\ Len(Todo(t)) >= 1
  BY <1>3, OneDoes
<1>5. PICK q : q = Todo(t)
  OBVIOUS
<1>6. Bland(q)
  BY <1>4, <1>5 DEF Bland, ListOK, LaterOps
<1>7. PICK p : p = Inserting(n, v)
  OBVIOUS
<1>8. /\ p \in Seq(Ops) /\ Len(p) = 2 /\ p[1].op = "push" /\ p[1].key = n
      /\ p[2].op = "row" /\ p[2].key = n /\ p[2].val = v
  BY <1>3, <1>7, InsertingIs
<1>9. PICK r : r = p \o Tail(q)
  OBVIOUS
<1>10. /\ r \in Seq(Ops) /\ Len(r) = Len(q) + 1 /\ r[1] = p[1] /\ r[2] = p[2]
       /\ \A i \in 3 .. Len(r) : r[i].op \notin {"push", "row"}
  <2>4. p \in Seq(Ops) /\ q \in Seq(Ops) /\ q # <<>>
    BY <1>4, <1>5, <1>8
  <2>5. /\ r \in Seq(Ops) /\ Len(r) = Len(p) + Len(q) - 1
        /\ \A i \in 1 .. Len(p) + Len(q) - 1 :
              r[i] = IF i <= Len(p) THEN p[i] ELSE q[i - Len(p) + 1]
    BY <1>9, <2>4, Joined
  <2>1. /\ r \in Seq(Ops) /\ Len(r) = 2 + Len(q) - 1
        /\ \A i \in 1 .. 2 + Len(q) - 1 : r[i] = IF i <= 2 THEN p[i] ELSE q[i - 2 + 1]
    BY <1>8, <2>5
  <2>2. \A i \in 3 .. Len(r) : r[i] = q[i - 1] /\ i - 1 \in 1 .. Len(q)
    BY <1>4, <1>5, <2>1
  <2>3. \A i \in 3 .. Len(r) : r[i].op \notin {"push", "row"}
    BY <1>6, <2>2 DEF Bland
  <2> QED
    BY <1>4, <1>5, <2>1, <2>3
<1>11. Todo(t)' = r /\ Alone(t)'
  BY <1>3, <1>4, <1>5, <1>7, <1>9 DEF Moved, Todo, OneAt, Alone
<1>12. Lists(q, locks, index, n) /\ Mirrors(q, locks, rows, n)
  BY <1>2, <1>4, <1>5 DEF OneAt, Exact
<1>13. \A j : ~ Pushing(q, j) /\ ~ Rowing(q, j) /\ ~ Unlisting(q, j) /\ ~ Unrowing(q, j)
  BY <1>4, <1>5, <1>6, BlandNone
<1>14. \A j : /\ (Pushing(r, j) <=> j = n) /\ (Rowing(r, j) <=> j = n)
              /\ ~ Unlisting(r, j) /\ ~ Unrowing(r, j)
  BY <1>4, <1>5, <1>8, <1>10 DEF Pushing, Rowing, Unlisting, Unrowing
<1>15. PICK L : L = locks'
  OBVIOUS
<1>16. DOMAIN L = DOMAIN locks \cup {n} /\ L[n] = v /\ \A j \in DOMAIN locks : L[j] = locks[j]
  BY <1>3, <1>15 DEF Put
<1>17. DOMAIN locks \subseteq 1 .. n - 1 /\ index \in Seq(1 .. n - 1)
  BY <1>2, <1>3 DEF TablesOK
<1>18. Lists(r, L, index, n + 1)
  <2>1. \A j \in 1 .. n - 1 : (\E i \in 1 .. Len(index) : index[i] = j) <=> j \in DOMAIN locks
    BY <1>12, <1>13 DEF Lists
  <2>2. \A i \in 1 .. Len(index) : index[i] # n
    <3>1. PICK S : S = 1 .. n - 1
      OBVIOUS
    <3>2. index \in Seq(S)
      BY <1>17, <3>1
    <3>3. \A i \in 1 .. Len(index) : index[i] \in S
      BY <3>2
    <3> QED
      BY <1>3, <3>1, <3>3
  <2>3. \A j \in 1 .. n : j = n \/ j \in 1 .. n - 1
    BY <1>3
  <2>4. \A j \in 1 .. n : (\E i \in 1 .. Len(index) : index[i] = j)
          <=> (j \in DOMAIN L /\ ~ Pushing(r, j)) \/ Unlisting(r, j)
    BY <1>3, <1>14, <1>16, <2>1, <2>2, <2>3
  <2>5. 1 .. n = 1 .. (n + 1) - 1 /\ r[1].op # "dropfh"
    BY <1>3, <1>8, <1>10
  <2> QED
    BY <1>12, <2>4, <2>5 DEF Lists
<1>19. Mirrors(r, L, rows, n + 1)
  <2>1. \A j \in 1 .. n - 1 : LockRow(rows, j) <=> j \in DOMAIN locks
    BY <1>12, <1>13 DEF Mirrors
  <2>2. ~ LockRow(rows, n)
    <3>1. n \notin 1 .. n - 1
      BY <1>3
    <3> QED
      BY <1>3, <3>1, RowIs DEF LockRow
  <2>3. \A j \in 1 .. n : j = n \/ j \in 1 .. n - 1
    BY <1>3
  <2>4. \A j \in 1 .. n : LockRow(rows, j)
          <=> (j \in DOMAIN L /\ ~ Rowing(r, j)) \/ Unrowing(r, j)
    BY <1>3, <1>14, <1>16, <2>1, <2>2, <2>3
  <2>5. 1 .. n = 1 .. (n + 1) - 1
    BY <1>3
  <2>6. \A j \in DOMAIN L : LockRow(rows, j) => rows[<<"lock", j>>] = L[j]
    BY <1>12, <1>16, <2>2 DEF Mirrors
  <2>7. ASSUME NEW i \in 1 .. Len(r)
        PROVE  /\ r[i].op \in {"push", "row"} => r[i].key \in DOMAIN L
               /\ r[i].op = "row" => r[i].val = L[r[i].key]
    <3>1. i = 1 \/ i = 2 \/ i \in 3 .. Len(r)
      BY <1>4, <1>5, <1>10
    <3> QED
      BY <1>8, <1>10, <1>16, <3>1
  <2> QED
    BY <2>4, <2>5, <2>6, <2>7 DEF Mirrors
<1> QED
  BY <1>3, <1>11, <1>15, <1>18, <1>19 DEF OneAt, Exact

LEMMA OnePush ==
  ASSUME AnyInv, OneInv, ~ overlap, NEW t \in Threads, Push(t)
  PROVE  OneAt(t)'
<1>1. /\ Moved(t, <<>>) /\ index' = Append(index, NextOp(t).key)
      /\ UNCHANGED <<locks, keyCtr, rows>> /\ Does(t, "push") /\ ThreadsOK /\ TablesOK
  BY AnyPush DEF Push, AnyInv
<1>2. /\ OneAt(t) /\ Todo(t) \in Seq(Ops) /\ Todo(t) # <<>> /\ ListOK(Todo(t))
      /\ Todo(t)[1].op = "push" /\ Len(Todo(t)) \in Nat /\ Len(Todo(t)) >= 1
  BY <1>1, OneDoes
<1>3. PICK q : q = Todo(t)
  OBVIOUS
<1>4. PICK k : k = q[1].key
  OBVIOUS
<1>5. NextOp(t) = q[1] /\ k \in 1 .. keyCtr - 1 /\ index \in Seq(1 .. keyCtr - 1)
  BY <1>1, <1>3, <1>4, HeadIs DEF OpOK, KeyOps, TablesOK
<1>6. /\ Len(q) >= 2 /\ q[2].op = "row" /\ q[2].key = k
      /\ \A i \in 3 .. Len(q) : q[i].op \in LaterOps
  <2>1. Len(q) = 1 \/ Len(q) >= 2
    BY <1>2, <1>3, NatCases
  <2> QED
    BY <1>2, <1>3, <1>4, <2>1 DEF ListOK
<1>7. PICK r : r = <<>> \o Tail(q)
  OBVIOUS
<1>8. r \in Seq(Ops) /\ Len(r) = Len(q) - 1 /\ \A i \in 1 .. Len(q) - 1 : r[i] = q[i + 1]
  BY <1>2, <1>3, <1>6, <1>7, NextIs
<1>9. Len(r) >= 1 /\ r[1] = q[2] /\ Len(r) \in Nat
  BY <1>2, <1>3, <1>6, <1>8
<1>10. Todo(t)' = r /\ Alone(t)'
  BY <1>1, <1>2, <1>3, <1>7 DEF Moved, Todo, OneAt, Alone
<1>11. Lists(q, locks, index, keyCtr) /\ Mirrors(q, locks, rows, keyCtr)
  BY <1>2, <1>3 DEF OneAt, Exact
<1>12. k \in DOMAIN locks
  BY <1>2, <1>3, <1>4, <1>11 DEF Mirrors
<1>13. \A j : /\ (Pushing(q, j) <=> j = k) /\ (Rowing(q, j) <=> j = k)
              /\ ~ Unlisting(q, j) /\ ~ Unrowing(q, j)
  BY <1>2, <1>3, <1>4 DEF Pushing, Rowing, Unlisting, Unrowing
<1>14. \A j : /\ ~ Pushing(r, j) /\ (Rowing(r, j) <=> j = k)
              /\ ~ Unlisting(r, j) /\ ~ Unrowing(r, j)
  BY <1>6, <1>9 DEF Pushing, Rowing, Unlisting, Unrowing
<1>15. PICK x : x = index'
  OBVIOUS
<1>16. /\ Len(index) \in Nat /\ Len(x) = Len(index) + 1 /\ x[Len(index) + 1] = k
       /\ \A i \in 1 .. Len(index) : x[i] = index[i]
  <2>1. PICK S : S = 1 .. keyCtr - 1
    OBVIOUS
  <2>2. x = Append(index, k) /\ index \in Seq(S) /\ k \in S
    BY <1>1, <1>4, <1>5, <1>15, <2>1
  <2> QED
    BY <2>2
<1>17. Lists(r, locks, x, keyCtr)
  <2>1. \A j \in 1 .. keyCtr - 1 :
          (\E i \in 1 .. Len(index) : index[i] = j) <=> (j \in DOMAIN locks /\ j # k)
    BY <1>11, <1>13 DEF Lists
  <2>2. \A i \in 1 .. Len(index) : index[i] # k
    BY <1>5, <2>1
  <2>3. \A i \in 1 .. Len(x) : i = Len(index) + 1 \/ i \in 1 .. Len(index)
    BY <1>16
  <2>4. ASSUME NEW j \in 1 .. keyCtr - 1
        PROVE  (\E i \in 1 .. Len(x) : x[i] = j) <=> j \in DOMAIN locks
    <3>1. CASE j = k
      <4>1. Len(index) + 1 \in 1 .. Len(x)
        BY <1>16
      <4> QED
        BY <1>12, <1>16, <3>1, <4>1
    <3>2. CASE j # k
      <4>1. \A i \in 1 .. Len(index) : i \in 1 .. Len(x)
        BY <1>16
      <4> QED
        BY <1>16, <2>1, <2>3, <3>2, <4>1
    <3> QED
      BY <3>1, <3>2
  <2>5. \A i, j \in 1 .. Len(x) : x[i] = x[j] => i = j
    <3>1. \A i, j \in 1 .. Len(index) : index[i] = index[j] => i = j
      BY <1>11 DEF Lists
    <3> QED
      BY <1>16, <2>2, <2>3, <3>1
  <2> QED
    BY <1>6, <1>9, <1>14, <2>4, <2>5 DEF Lists
<1>18. Mirrors(r, locks, rows, keyCtr)
  <2>1. ASSUME NEW i \in 1 .. Len(r)
        PROVE  /\ r[i].op \in {"push", "row"} => r[i].key \in DOMAIN locks
               /\ r[i].op = "row" => r[i].val = locks[r[i].key]
    <3>1. r[i] = q[i + 1] /\ i + 1 \in 1 .. Len(q)
      BY <1>2, <1>3, <1>8
    <3> QED
      BY <1>11, <3>1 DEF Mirrors
  <2>2. \A j \in 1 .. keyCtr - 1 :
          LockRow(rows, j) <=> (j \in DOMAIN locks /\ ~ Rowing(r, j)) \/ Unrowing(r, j)
    BY <1>11, <1>13, <1>14 DEF Mirrors
  <2> QED
    BY <1>11, <2>1, <2>2 DEF Mirrors
<1> QED
  BY <1>1, <1>10, <1>15, <1>17, <1>18 DEF OneAt, Exact

LEMMA OneRow ==
  ASSUME AnyInv, OneInv, ~ overlap, NEW t \in Threads, Row(t)
  PROVE  /\ OneAt(t)' /\ NextOp(t).key \in DOMAIN locks
         /\ NextOp(t).val = locks[NextOp(t).key]
         /\ \A k \in 1 .. keyCtr - 1 : LockRow(rows, k) => k \in DOMAIN locks
<1>1. /\ Moved(t, <<>>) /\ rows' = Put(rows, <<"lock", NextOp(t).key>>, NextOp(t).val)
      /\ UNCHANGED <<locks, keyCtr, index>> /\ Does(t, "row") /\ ThreadsOK /\ TablesOK
  BY AnyRow DEF Row, mem, AnyInv
<1>2. /\ OneAt(t) /\ Todo(t) \in Seq(Ops) /\ Todo(t) # <<>> /\ ListOK(Todo(t))
      /\ Todo(t)[1].op = "row" /\ Len(Todo(t)) \in Nat /\ Len(Todo(t)) >= 1
  BY <1>1, OneDoes
<1>3. PICK q : q = Todo(t)
  OBVIOUS
<1>4. PICK k : k = q[1].key
  OBVIOUS
<1>5. Lists(q, locks, index, keyCtr) /\ Mirrors(q, locks, rows, keyCtr)
  BY <1>2, <1>3 DEF OneAt, Exact
<1>6. NextOp(t) = q[1] /\ k \in DOMAIN locks /\ q[1].val = locks[k]
  BY <1>1, <1>2, <1>3, <1>4, <1>5, HeadIs DEF Mirrors
<1>7. PICK r : r = <<>> \o Tail(q)
  OBVIOUS
<1>8. Bland(r) /\ r \in Seq(Ops)
  BY <1>2, <1>3, <1>7, NoneBland, BlandJoin
<1>9. Todo(t)' = r /\ Alone(t)'
  BY <1>1, <1>2, <1>3, <1>7 DEF Moved, Todo, OneAt, Alone
<1>10. \A j : ~ Pushing(r, j) /\ ~ Rowing(r, j) /\ ~ Unlisting(r, j) /\ ~ Unrowing(r, j)
  BY <1>8, BlandNone
<1>11. \A j : /\ ~ Pushing(q, j) /\ (Rowing(q, j) <=> j = k) /\ ~ Unlisting(q, j)
              /\ ~ Unrowing(q, j)
  BY <1>2, <1>3, <1>4 DEF Pushing, Rowing, Unlisting, Unrowing
<1>12. Lists(r, locks, index, keyCtr)
  <2>1. ~ (Len(r) >= 1 /\ r[1].op = "dropfh")
    BY <1>8, BlandNone
  <2> QED
    BY <1>5, <1>10, <1>11, <2>1 DEF Lists
<1>13. PICK d : d = rows'
  OBVIOUS
<1>14. \A j : /\ LockRow(d, j) <=> LockRow(rows, j) \/ j = k
              /\ j # k /\ LockRow(d, j) => d[<<"lock", j>>] = rows[<<"lock", j>>]
              /\ d[<<"lock", k>>] = locks[k]
  BY <1>1, <1>4, <1>6, <1>13 DEF LockRow, Put
<1>15. \A j \in 1 .. keyCtr - 1 : LockRow(rows, j) <=> j \in DOMAIN locks /\ j # k
  BY <1>5, <1>11 DEF Mirrors
<1>16. Mirrors(r, locks, d, keyCtr)
  <2>1. \A i \in 1 .. Len(r) : r[i].op \notin {"push", "row"}
    BY <1>8 DEF Bland
  <2>2. \A j \in 1 .. keyCtr - 1 : LockRow(d, j) <=> j \in DOMAIN locks
    BY <1>6, <1>14, <1>15
  <2>3. \A j \in DOMAIN locks : LockRow(d, j) => d[<<"lock", j>>] = locks[j]
    BY <1>5, <1>14 DEF Mirrors
  <2> QED
    BY <1>10, <2>1, <2>2, <2>3 DEF Mirrors
<1> QED
  BY <1>1, <1>4, <1>6, <1>9, <1>12, <1>13, <1>15, <1>16 DEF OneAt, Exact

LEMMA SameRowsSame == \A d : SameLockRows(d, d)
BY DEF SameLockRows

LEMMA EndsTook ==
  ASSUME ThreadsOK, NEW t \in Threads, thr' = [thr EXCEPT ![t] = Idle]
  PROVE  Took(t, Idle)
BY DEF ThreadsOK, Took

LEMMA IdleBland == Idle.todo \in Seq(Ops) /\ Bland(Idle.todo)
BY NoneBland DEF Idle

(* The steps of a request that are no map operation on the locks. *)
LEMMA OneStepBland ==
  ASSUME AnyInv, OneInv, ~ overlap, NEW t \in Threads,
         Check(t) \/ Allocate(t) \/ Register(t) \/ Trim(t)
  PROVE  OneAt(t)'
<1>1. ThreadsOK /\ TablesOK
  BY DEF AnyInv
<1>2. CASE Check(t)
  <2>1. Does(t, "check") /\ UNCHANGED <<locks, index, keyCtr, rows>>
    BY <1>2 DEF Check, mem
  <2>2. CASE Moved(t, Granted(t))
    <3>1. PICK r : r = Granted(t)
      OBVIOUS
    <3>2. /\ r \in Seq(Ops)
          /\ \A i \in 1 .. Len(r) : r[i].op \in {"allocate", "register", "trim", "insert"}
      BY <1>1, <2>1, <3>1, GrantedIs
    <3>3. Bland(r) /\ Shifted(t, r)
      BY <2>2, <3>1, <3>2 DEF Bland, Moved, Shifted
    <3> QED
      BY <2>1, <3>2, <3>3, OneBland, SameRowsSame
  <2>3. CASE thr' = [thr EXCEPT ![t] = Idle]
    <3>1. /\ OneAt(t) /\ Todo(t) \in Seq(Ops) /\ Todo(t) # <<>> /\ ListOK(Todo(t))
          /\ Todo(t)[1].op = "check" /\ Len(Todo(t)) \in Nat /\ Len(Todo(t)) >= 1
      BY <2>1, OneDoes
    <3>2. Bland(Todo(t))
      BY <3>1 DEF Bland, ListOK, LaterOps
    <3> QED
      BY <1>1, <2>1, <2>3, <3>1, <3>2, EndsTook, IdleBland, OneTurns, SameRowsSame DEF OneAt
  <2> QED
    BY <1>2, <2>2, <2>3, AnyCheck
<1>3. CASE Allocate(t)
  <2>1. /\ Does(t, "allocate") /\ UNCHANGED <<locks, index, keyCtr>>
        /\ rows' = Put(rows, <<"stateid", sidCtr>>, ClientOf[thr[t].owner])
    BY <1>3 DEF Allocate
  <2>2. Shifted(t, <<>>)
    <3>1. thr'[t].todo = Tail(thr[t].todo) /\ \A u \in Threads \ {t} : thr'[u] = thr[u]
      BY <1>3, AnyAllocate
    <3>2. Todo(t) \in Seq(Ops) /\ Todo(t) # <<>>
      BY <1>1, <2>1, HeadIs
    <3>3. Tail(Todo(t)) \in Seq(Ops)
      BY <3>2
    <3>4. <<>> \o Tail(Todo(t)) = Tail(Todo(t))
      BY <3>3, EmptyJoin
    <3> QED
      BY <3>1, <3>4 DEF Shifted, Todo
  <2>3. SameLockRows(rows, rows')
    BY <2>1, SameRowsPut
  <2> QED
    BY <2>1, <2>2, <2>3, NoneBland, OneBland
<1>4. CASE Register(t)
  <2>1. /\ Does(t, "register") /\ UNCHANGED <<locks, index, keyCtr>>
        /\ rows' = Put(rows, <<"owner", thr[t].sid>>, thr[t].owner)
    BY <1>4 DEF Register
  <2>2. Shifted(t, <<>>)
    BY <1>4, AnyRegister DEF Moved, Shifted
  <2>3. SameLockRows(rows, rows')
    BY <2>1, SameRowsPut
  <2> QED
    BY <2>1, <2>2, <2>3, NoneBland, OneBland
<1>5. CASE Trim(t)
  <2>1. Does(t, "trim") /\ UNCHANGED <<locks, index, keyCtr, rows>>
    BY <1>5 DEF Trim, mem
  <2>2. PICK r : r = Carves
    OBVIOUS
  <2>3. r \in Seq(Ops) /\ Len(r) = Len(index) /\ Shifted(t, r)
    BY <1>5, <2>2, AnyTrim DEF Moved, Shifted
  <2>4. \A i \in 1 .. Len(index) : r[i].op = "carve"
    BY <2>2 DEF Carves
  <2>5. Bland(r)
    BY <2>3, <2>4 DEF Bland
  <2> QED
    BY <2>1, <2>3, <2>5, OneBland, SameRowsSame
<1> QED
  BY <1>2, <1>3, <1>4, <1>5

(* Those of a teardown. *)
LEMMA OneStepRetire ==
  ASSUME AnyInv, OneInv, ~ overlap, NEW t \in Threads,
         DropSessions(t) \/ DropRecord(t) \/ Strip(t) \/ Purge(t)
  PROVE  OneAt(t)'
<1>1. ThreadsOK /\ TablesOK
  BY DEF AnyInv
<1>2. CASE DropSessions(t)
  <2>1. /\ Does(t, "sessions") /\ UNCHANGED <<locks, index, keyCtr>>
        /\ rows' = Del(rows, {<<"stateid", s>> : s \in StatesOf(thr[t].client)})
    BY <1>2 DEF DropSessions
  <2>2. Shifted(t, <<>>)
    BY <1>2, AnyDropSessions DEF Moved, Shifted
  <2>3. PICK X : X = {<<"stateid", s>> : s \in StatesOf(thr[t].client)}
    OBVIOUS
  <2>4. \A k : <<"lock", k>> \notin X
    BY <2>3
  <2>5. SameLockRows(rows, rows')
    BY <2>1, <2>3, <2>4, SameRowsDel
  <2> QED
    BY <2>1, <2>2, <2>5, NoneBland, OneBland
<1>3. CASE DropRecord(t)
  <2>1. /\ Does(t, "record") /\ UNCHANGED <<locks, index, keyCtr>>
        /\ rows' = Del(rows, {<<"client", thr[t].client>>})
    BY <1>3 DEF DropRecord, mem
  <2>2. Shifted(t, <<>>)
    BY <1>3, AnyDropRecord DEF Moved, Shifted
  <2>3. \A k : <<"lock", k>> \notin {<<"client", thr[t].client>>}
    OBVIOUS
  <2>4. SameLockRows(rows, rows')
    BY <2>1, <2>3, SameRowsDel
  <2> QED
    BY <2>1, <2>2, <2>4, NoneBland, OneBland
<1>4. CASE Purge(t)
  <2>1. PICK S : S = {s \in DOMAIN owners : ClientOf[owners[s]] = thr[t].client}
    OBVIOUS
  <2>2. /\ Does(t, "purge") /\ UNCHANGED <<locks, index, keyCtr>>
        /\ rows' = Del(rows, {<<"owner", s>> : s \in S})
    BY <1>4, <2>1 DEF Purge
  <2>3. Shifted(t, <<>>)
    BY <1>4, AnyPurge DEF Moved, Shifted
  <2>4. \A k : <<"lock", k>> \notin {<<"owner", s>> : s \in S}
    OBVIOUS
  <2>5. SameLockRows(rows, rows')
    BY <2>2, <2>4, SameRowsDel
  <2> QED
    BY <2>2, <2>3, <2>5, NoneBland, OneBland
<1>5. CASE Strip(t)
  <2>1. Does(t, "strip") /\ UNCHANGED <<locks, index, keyCtr, rows>>
    BY <1>5 DEF Strip, mem
  <2>2. PICK r : r = Strips(thr[t].client)
    OBVIOUS
  <2>3. r \in Seq(Ops) /\ \A i \in 1 .. Len(r) : r[i].op = "remove"
    BY <1>1, <2>2, StripsAre
  <2>4. Bland(r) /\ Shifted(t, r)
    BY <1>5, <2>2, <2>3, AnyStrip DEF Bland, Moved, Shifted
  <2> QED
    BY <2>1, <2>3, <2>4, OneBland, SameRowsSame
<1> QED
  BY <1>2, <1>3, <1>4, <1>5

LEMMA OneStepCut ==
  ASSUME AnyInv, OneInv, ~ overlap, NEW t \in Threads, Carve(t) \/ Remove(t)
  PROVE  OneAt(t)'
<1>1. ThreadsOK /\ TablesOK
  BY DEF AnyInv
<1>2. PICK k : k = NextOp(t).key
  OBVIOUS
<1>3. CASE Carve(t)
  <2>1. Does(t, "carve") /\ UNCHANGED <<index, keyCtr, rows>> /\ thr[t].kind \in {"lock", "locku"}
    BY <1>3, AnyCarve DEF Carve
  <2>2. CASE UNCHANGED locks /\ Moved(t, <<>>)
    BY <2>1, <2>2, NoneBland, OneBland, SameRowsSame DEF Moved, Shifted
  <2>3. CASE k \in DOMAIN locks /\ locks' = Del(locks, {k}) /\ Moved(t, Cut(t, k))
    <3>1. locks[k] \in LockVals /\ thr[t].range \in Range64 /\ k \in Nat
      <4>1. thr[t] \in Asks
        BY <1>1, <2>1, HeadIs
      <4>2. thr[t].range \in Range64
        BY <4>1 DEF Asks
      <4>3. keyCtr \in Nat /\ k \in 1 .. keyCtr - 1 /\ locks[k] \in LockVals
        BY <1>1, <2>3 DEF TablesOK
      <4> QED
        BY <4>2, <4>3
    <3>2. PICK S : S = Survivors(locks[k], thr[t].range)
      OBVIOUS
    <3>3. S \in Seq(Ops) /\ \A i \in 1 .. Len(S) : S[i].op = "insert"
      BY <3>1, <3>2, SurvivorsAre
    <3>4. PICK r : r = Removal(k) \o S
      OBVIOUS
    <3>5. /\ r \in Seq(Ops) /\ Len(r) = Len(S) + 2 /\ Len(S) \in Nat
          /\ r[1].op = "unindex" /\ r[1].key = k /\ r[2].op = "unrow"
          /\ \A i \in 3 .. Len(r) : i - 2 \in 1 .. Len(S) /\ r[i] = S[i - 2]
      <4>1. Inserts(S) /\ CutShape(r, k, S)
        BY <3>1, <3>3, <3>4, CutIs DEF Inserts
      <4> QED
        BY <4>1 DEF CutShape
    <3>6. Len(r) >= 2 /\ \A i \in 2 .. Len(r) : i = 2 \/ i \in 3 .. Len(r)
      BY <3>5
    <3>7. \A i \in 2 .. Len(r) : r[i].op \notin {"push", "row"}
      BY <3>3, <3>5, <3>6
    <3>8. Moved(t, r)
      BY <2>3, <3>2, <3>4 DEF Cut
    <3> QED
      BY <2>1, <2>3, <3>5, <3>6, <3>7, <3>8, OneCut
  <2> QED
    BY <1>2, <1>3, <2>2, <2>3, AnyCarve
<1>4. CASE Remove(t)
  <2>1. Does(t, "remove") /\ UNCHANGED <<index, keyCtr, rows>>
    BY <1>4, AnyRemove DEF Remove
  <2>2. CASE UNCHANGED locks /\ Moved(t, <<>>)
    BY <2>1, <2>2, NoneBland, OneBland, SameRowsSame DEF Moved, Shifted
  <2>3. CASE k \in DOMAIN locks /\ locks' = Del(locks, {k}) /\ Moved(t, Removal(k))
    <3>1. k \in Nat
      <4>1. keyCtr \in Nat /\ k \in 1 .. keyCtr - 1
        BY <1>1, <2>3 DEF TablesOK
      <4> QED
        BY <4>1
    <3>2. PICK r : r = Removal(k)
      OBVIOUS
    <3>3. /\ r \in Seq(Ops) /\ Len(r) = 2 /\ r[1].op = "unindex" /\ r[1].key = k
          /\ r[2].op = "unrow"
      BY <3>1, <3>2, RemovalIs
    <3>4. Len(r) >= 2 /\ \A i \in 2 .. Len(r) : r[i].op \notin {"push", "row"}
      BY <3>3
    <3>5. Moved(t, r)
      BY <2>3, <3>2
    <3> QED
      BY <2>1, <2>3, <3>3, <3>4, <3>5, OneCut
  <2> QED
    BY <1>2, <1>4, <2>2, <2>3, AnyRemove
<1> QED
  BY <1>3, <1>4

LEMMA OneStepEnds ==
  ASSUME AnyInv, OneInv, ~ overlap, NEW t \in Threads, Reply(t) \/ Retired(t)
  PROVE  OneAt(t)'
<1>1. /\ ThreadsOK /\ TablesOK /\ ~ Free(t) /\ Todo(t) = <<>> /\ thr' = [thr EXCEPT ![t] = Idle]
      /\ UNCHANGED <<locks, index, keyCtr, rows>>
  BY DEF AnyInv, Reply, Retired, Free, Todo, mem
<1>2. Alone(t) /\ Exact(Todo(t)) /\ Bland(Todo(t))
  BY <1>1, OneThen, NoneBland
<1> QED
  BY <1>1, <1>2, EndsTook, IdleBland, OneTurns, SameRowsSame

LEMMA OneStep ==
  ASSUME AnyInv, OneInv, ~ overlap, NEW t \in Threads, Step(t)
  PROVE  OneAt(t)'
BY OneStepBland, OneStepRetire, OneStepCut, OneUnindex, OneDropFh, OneUnrow, OneInsert, OnePush,
   OneRow, OneStepEnds DEF Step

LEMMA FreeIdle ==
  ASSUME ThreadsOK, NEW t \in Threads, Free(t)
  PROVE  thr[t] = Idle
BY DEF ThreadsOK, Free, Works, Asks, Retires

LEMMA KeepTook ==
  ASSUME ThreadsOK, NEW t \in Threads, Free(t), UNCHANGED thr
  PROVE  Took(t, Idle)
BY FreeIdle DEF Took

(* What a request leaves for its thread to do, and what it may have done   *)
(* at once.  No lock is on its way into the table yet.                     *)
Fresh(W) ==
    /\ W.kind \in {"lock", "locku"} => W.range \in Ranges
    /\ \A i \in 1 .. Len(W.todo) : W.todo[i].op # "insert"

Begun(t) ==
    /\ UNCHANGED <<locks, index, keyCtr>> /\ SameLockRows(rows, rows')
    /\ \E W : Took(t, W) /\ W.todo \in Seq(Ops) /\ Bland(W.todo) /\ Fresh(W)

LEMMA IdleFresh == Fresh(Idle)
BY DEF Fresh, Idle

LEMMA OneOpBland ==
  ASSUME NEW x \in Ops, x.op \in {"check", "trim"}
  PROVE  <<x>> \in Seq(Ops) /\ Bland(<<x>>) /\ \A i \in 1 .. Len(<<x>>) : <<x>>[i].op # "insert"
<1>1. <<x>> \in Seq(Ops) /\ Len(<<x>>) = 1 /\ <<x>>[1] = x
  OBVIOUS
<1> QED
  BY <1>1 DEF Bland

LEMMA RequestBegins ==
  ASSUME AnyInv, NEW t \in Threads, Request(t)
  PROVE  Begun(t)
<1>1. ThreadsOK
  BY DEF AnyInv
<1>2. ASSUME NEW o \in Owners, NEW type \in LockTypes, NEW r \in Ranges, Lock(t, o, type, r)
      PROVE  Begun(t)
  <2>1. PICK as \in Owners : Took(t, LockWork(o, as, type, r))
    BY <1>2, AnyLock
  <2>2. UNCHANGED <<locks, index, keyCtr, rows>>
    BY <1>2 DEF Lock, mem
  <2>3. LockWork(o, as, type, r).todo \in Seq(Ops) /\ Bland(LockWork(o, as, type, r).todo)
        /\ Fresh(LockWork(o, as, type, r))
    BY CheckOp, OneOpBland DEF LockWork, Fresh
  <2> QED
    BY <2>1, <2>2, <2>3, SameRowsSame DEF Begun
<1>3. ASSUME NEW o \in Owners, NEW r \in Ranges, LockU(t, o, r)
      PROVE  Begun(t)
  <2>1. Took(t, UnlockWork(o, r)) /\ UNCHANGED <<locks, index, keyCtr, rows>>
    BY <1>3, AnyLockU DEF mem
  <2>2. [op |-> "trim"] \in Ops /\ [op |-> "trim"].op = "trim"
    BY BareOp DEF BareOps
  <2>3. UnlockWork(o, r).todo \in Seq(Ops) /\ Bland(UnlockWork(o, r).todo)
        /\ Fresh(UnlockWork(o, r))
    BY <2>2, OneOpBland DEF UnlockWork, Fresh
  <2> QED
    BY <2>1, <2>3, SameRowsSame DEF Begun
<1>4. ASSUME NEW o \in Owners, NEW type \in LockTypes, NEW r \in Ranges, Reclaim(t, o, type, r)
      PROVE  Begun(t)
  <2>1. Free(t) /\ UNCHANGED <<locks, index, keyCtr>>
    BY <1>4, AnyReclaim
  <2>2. CASE UNCHANGED thr /\ UNCHANGED <<sidCtr, owners, states, rows>>
    BY <1>1, <2>1, <2>2, KeepTook, IdleBland, SameRowsSame, IdleFresh DEF Begun
  <2>3. CASE /\ UNCHANGED thr
             /\ rows' = Put(Put(rows, <<"stateid", sidCtr>>, ClientOf[o]), <<"owner", sidCtr>>, o)
    <3>1. PICK d : d = Put(rows, <<"stateid", sidCtr>>, ClientOf[o])
      OBVIOUS
    <3>2. SameLockRows(rows, d) /\ SameLockRows(d, rows')
      BY <2>3, <3>1, SameRowsPut
    <3>3. SameLockRows(rows, rows')
      BY <3>2 DEF SameLockRows
    <3> QED
      BY <1>1, <2>1, <2>3, <3>3, KeepTook, IdleBland, IdleFresh DEF Begun
  <2>4. CASE Took(t, ReclaimWork(o, type, r)) /\ UNCHANGED <<sidCtr, owners, states, rows, known>>
    <3>1. ReclaimWork(o, type, r).todo \in Seq(Ops) /\ Bland(ReclaimWork(o, type, r).todo)
          /\ Fresh(ReclaimWork(o, type, r))
      BY CheckOp, OneOpBland DEF ReclaimWork, Fresh
    <3> QED
      BY <2>1, <2>4, <3>1, SameRowsSame DEF Begun
  <2> QED
    BY <1>4, <2>2, <2>3, <2>4, AnyReclaim
<1>5. ASSUME NEW o \in Owners, FreeStateId(t, o)
      PROVE  Begun(t)
  <2>1. /\ Free(t) /\ UNCHANGED thr /\ UNCHANGED <<locks, index, keyCtr>>
        /\ rows' = Del(rows, {<<"owner", known[o]>>, <<"stateid", known[o]>>})
    BY <1>5 DEF FreeStateId
  <2>2. \A k : <<"lock", k>> \notin {<<"owner", known[o]>>, <<"stateid", known[o]>>}
    OBVIOUS
  <2>3. SameLockRows(rows, rows')
    BY <2>1, <2>2, SameRowsDel
  <2> QED
    BY <1>1, <2>1, <2>3, KeepTook, IdleBland, IdleFresh DEF Begun
<1>6. ASSUME NEW c \in Clients, Sweep(t, c) \/ Cascade(t, c) \/ DestroyClientId(t, c)
      PROVE  Begun(t)
  <2>1. PICK q : Teardown(q) /\ Took(t, Retiring(c, q))
    BY <1>6, AnyTeardown
  <2>2. UNCHANGED <<locks, index, keyCtr, rows>>
    BY <1>6 DEF Sweep, Cascade, DestroyClientId, mem
  <2>3. Retiring(c, q).todo = q /\ q \in Seq(Ops) /\ Bland(q) /\ Fresh(Retiring(c, q))
    BY <2>1 DEF Retiring, Teardown, Bland, Fresh
  <2> QED
    BY <2>1, <2>2, <2>3, SameRowsSame DEF Begun
<1>7. ASSUME NEW c \in Clients, Reconnect(t, c)
      PROVE  Begun(t)
  <2>1. Free(t) /\ UNCHANGED thr /\ UNCHANGED <<locks, index, keyCtr, rows>>
    BY <1>7 DEF Reconnect, mem
  <2> QED
    BY <1>1, <2>1, KeepTook, IdleBland, SameRowsSame, IdleFresh DEF Begun
<1> QED
  BY <1>2, <1>3, <1>4, <1>5, <1>6, <1>7 DEF Request

LEMMA QuietExact ==
  ASSUME AnyInv, OneInv, ~ overlap, Quiet
  PROVE  Exact(<<>>) /\ \A t \in Threads : thr[t] = Idle
<1>1. \A t \in Threads : thr[t] = Idle
  BY FreeIdle DEF AnyInv, Quiet
<1>2. \A t \in Threads : Todo(t) = <<>>
  BY <1>1 DEF Todo, Idle
<1> QED
  BY <1>1, <1>2 DEF OneInv

LEMMA OneRequest ==
  ASSUME AnyInv, OneInv, ~ overlap, Quiet, NEW t \in Threads, Request(t)
  PROVE  OneAt(t)'
<1>1. Exact(Todo(t)) /\ Alone(t) /\ Bland(Todo(t))
  BY QuietExact, NoneBland, IdleBland DEF Todo, Idle, Alone
<1>2. /\ UNCHANGED <<locks, index, keyCtr>> /\ SameLockRows(rows, rows')
      /\ \E W : Took(t, W) /\ W.todo \in Seq(Ops) /\ Bland(W.todo)
  BY RequestBegins DEF Begun
<1>3. PICK W : Took(t, W) /\ W.todo \in Seq(Ops) /\ Bland(W.todo)
  BY <1>2
<1> QED
  BY <1>1, <1>2, <1>3, OneTurns

(* What is loaded agrees with the rows it was loaded from. *)
LEMMA OneLoad ==
  ASSUME AnyInv, NEW d, DbOK(d, keyCtr, sidCtr), Load(d)
  PROVE  Exact(<<>>)' /\ \A u \in Threads : thr'[u] = Idle
<1> DEFINE K == RowsOf(d, "lock")
<1>1. keyCtr \in Nat /\ sidCtr \in Nat
  BY DEF AnyInv, TablesOK
<1>2. \A n : n \in K <=> <<"lock", n>> \in DOMAIN d
  BY RowsOfIs
<1>3. IsFiniteSet(K)
  BY <1>1, LoadIs
<1>4. /\ locks' = [k \in K |-> d[<<"lock", k>>]] /\ index' = Listed(K)
      /\ rows' = d /\ thr' = [t \in Threads |-> Idle]
  BY DEF Load
<1> HIDE DEF K
<1>5. /\ Listed(K) \in Seq(K)
      /\ \A k \in K : \E i \in 1 .. Len(Listed(K)) : Listed(K)[i] = k
      /\ \A i, j \in 1 .. Len(Listed(K)) : Listed(K)[i] = Listed(K)[j] => i = j
  BY <1>3, ListedIs
<1>6. PICK x : x = index'
  OBVIOUS
<1>7. PICK L : L = locks'
  OBVIOUS
<1>8. PICK n : n = keyCtr'
  OBVIOUS
<1>9. \A k : ~ Pushing(<<>>, k) /\ ~ Rowing(<<>>, k) /\ ~ Unlisting(<<>>, k) /\ ~ Unrowing(<<>>, k)
  BY NoneBland, BlandNone
<1>10. Lists(<<>>, L, x, n)
  <2>1. DOMAIN L = K /\ x \in Seq(K) /\ x = Listed(K)
    BY <1>4, <1>5, <1>6, <1>7
  <2>2. \A i \in 1 .. Len(x) : x[i] \in K
    BY <2>1
  <2>3. \A k : (\E i \in 1 .. Len(x) : x[i] = k) <=> k \in K
    BY <1>5, <2>1, <2>2
  <2>4. ~ (Len(<<>>) >= 1)
    OBVIOUS
  <2> QED
    BY <1>5, <1>9, <2>1, <2>3, <2>4 DEF Lists
<1>11. Mirrors(<<>>, L, d, n)
  <2>1. DOMAIN L = K /\ \A k \in K : L[k] = d[<<"lock", k>>]
    BY <1>4, <1>7
  <2>2. \A i \in 1 .. Len(<<>>) : FALSE
    OBVIOUS
  <2> QED
    BY <1>2, <1>9, <2>1, <2>2 DEF Mirrors, LockRow
<1> QED
  BY <1>4, <1>6, <1>7, <1>8, <1>10, <1>11 DEF Exact

LEMMA OneNext ==
  ASSUME AnyInv, OneInv, [Next]_vars
  PROVE  OneInv'
<1> SUFFICES ASSUME ~ overlap' PROVE OneInv'
  BY DEF OneInv
<1>1. CASE (\E t \in Threads : Request(t)) /\ overlap' = (overlap \/ ~ Quiet)
  <2>1. ~ overlap /\ Quiet
    BY <1>1
  <2>2. PICK t \in Threads : Request(t)
    BY <1>1
  <2>3. OneAt(t)'
    BY <2>1, <2>2, OneRequest
  <2> QED
    BY <2>3 DEF OneInv, OneAt
<1>2. CASE (\E t \in Threads : Step(t)) /\ UNCHANGED overlap
  <2>1. PICK t \in Threads : Step(t)
    BY <1>2
  <2>2. OneAt(t)'
    BY <1>2, <2>1, OneStep
  <2> QED
    BY <2>2 DEF OneInv, OneAt
<1>3. CASE UNCHANGED <<overlap, thr, locks, index, keyCtr, rows>>
  BY <1>3 DEF OneInv, Alone, Exact, Todo
<1>4. CASE Restart \/ Crash
  <2>1. CASE Restart
    <3>1. DbOK(rows, keyCtr, sidCtr) /\ Load(rows)
      BY <2>1 DEF AnyInv, Restart
    <3> QED
      BY <3>1, OneLoad DEF OneInv
  <2>2. CASE Crash
    <3>1. DbOK(disk, keyCtr, sidCtr) /\ Load(disk)
      BY <2>2 DEF AnyInv, Crash
    <3> QED
      BY <3>1, OneLoad DEF OneInv
  <2> QED
    BY <1>4, <2>1, <2>2
<1>5. (\E o \in Owners : StateIdLost(o)) \/ Commit \/ GraceEnds =>
         UNCHANGED <<thr, locks, index, keyCtr, rows>>
  BY DEF StateIdLost, Commit, GraceEnds, mem
<1>6. UNCHANGED vars => UNCHANGED <<overlap, thr, locks, index, keyCtr, rows>>
  BY DEF vars
<1> QED
  BY <1>1, <1>2, <1>3, <1>4, <1>5, <1>6 DEF Next

LEMMA OneInit == Init => OneInv
<1> SUFFICES ASSUME Init PROVE OneInv
  OBVIOUS
<1>1. \A k : ~ Pushing(<<>>, k) /\ ~ Rowing(<<>>, k) /\ ~ Unlisting(<<>>, k) /\ ~ Unrowing(<<>>, k)
  BY NoneBland, BlandNone
<1>2. DOMAIN locks = {} /\ Len(index) = 0 /\ Len(<<>>) = 0
  BY DEF Init
<1>3. \A k : ~ LockRow(rows, k)
  BY DEF Init, LockRow
<1>4. Lists(<<>>, locks, index, keyCtr)
  BY <1>1, <1>2 DEF Lists
<1>5. Mirrors(<<>>, locks, rows, keyCtr)
  BY <1>1, <1>2, <1>3 DEF Mirrors
<1> QED
  BY <1>4, <1>5 DEF Init, OneInv, Exact

LEMMA OneAlways == Spec => [](AnyInv /\ OneInv)
<1>1. Init => OneInv
  BY OneInit
<1>2. AnyInv /\ OneInv /\ [Next]_vars => OneInv'
  BY OneNext
<1> QED
  BY <1>1, <1>2, TablesAlwaysOK, PTL DEF Spec

-----------------------------------------------------------------------------
(* The registrations and their rows. *)

(* The row under a key in another table is what it was. *)
LEMMA PutOther ==
  ASSUME NEW d, NEW k, NEW v, NEW j, j # k
  PROVE  /\ j \in DOMAIN Put(d, k, v) <=> j \in DOMAIN d
         /\ j \in DOMAIN d => Put(d, k, v)[j] = d[j]
BY DEF Put

LEMMA PutSame ==
  ASSUME NEW d, NEW k, NEW v
  PROVE  k \in DOMAIN Put(d, k, v) /\ Put(d, k, v)[k] = v
BY DEF Put

LEMMA DelIs ==
  ASSUME NEW d, NEW X, NEW j
  PROVE  /\ j \in DOMAIN Del(d, X) <=> j \in DOMAIN d /\ j \notin X
         /\ j \in DOMAIN Del(d, X) => Del(d, X)[j] = d[j]
BY DEF Del

(* Rows of other tables, equal in two databases. *)
SameTable(d, e, table) ==
    \A n : /\ <<table, n>> \in DOMAIN d <=> <<table, n>> \in DOMAIN e
           /\ <<table, n>> \in DOMAIN d => d[<<table, n>>] = e[<<table, n>>]

LEMMA TablePut ==
  ASSUME NEW d, NEW table, NEW other, table # other, NEW n, NEW v
  PROVE  SameTable(d, Put(d, <<other, n>>, v), table)
<1>1. \A m : <<table, m>> # <<other, n>>
  OBVIOUS
<1> QED
  BY <1>1, PutOther DEF SameTable

LEMMA TableDel ==
  ASSUME NEW d, NEW table, NEW X, \A n : <<table, n>> \notin X
  PROVE  SameTable(d, Del(d, X), table)
BY DelIs DEF SameTable

LEMMA RegSame ==
  ASSUME NEW d, NEW e, NEW O, NEW S, NEW R, RegFor(d, O, S, R),
         DOMAIN O \subseteq Nat, DOMAIN S \subseteq Nat,
         SameTable(d, e, "owner"), SameTable(d, e, "stateid"), SameTable(d, e, "client")
  PROVE  RegFor(e, O, S, R)
BY DEF RegFor, SameTable

LEMMA RegOwner ==
  ASSUME NEW d, NEW O, NEW S, NEW R, RegFor(d, O, S, R), NEW s, NEW v,
         DOMAIN O \subseteq Nat, DOMAIN S \subseteq Nat
  PROVE  RegFor(Put(d, <<"owner", s>>, v), Put(O, s, v), S, R)
<1> DEFINE e == Put(d, <<"owner", s>>, v)
           P == Put(O, s, v)
<1>1. SameTable(d, e, "stateid") /\ SameTable(d, e, "client")
  BY TablePut
<1>2. /\ <<"owner", s>> \in DOMAIN e /\ e[<<"owner", s>>] = v /\ s \in DOMAIN P /\ P[s] = v
  BY PutSame
<1>3. \A n : n # s =>
         /\ <<"owner", n>> \in DOMAIN e <=> <<"owner", n>> \in DOMAIN d
         /\ <<"owner", n>> \in DOMAIN d => e[<<"owner", n>>] = d[<<"owner", n>>]
         /\ n \in DOMAIN P <=> n \in DOMAIN O
         /\ n \in DOMAIN O => P[n] = O[n]
  <2> TAKE n
  <2> HAVE n # s
  <2>1. <<"owner", n>> # <<"owner", s>>
    OBVIOUS
  <2> QED
    BY <2>1, PutOther
<1> HIDE DEF e, P
<1>4. \A n \in Nat : <<"owner", n>> \in DOMAIN e <=> n \in DOMAIN P
  BY <1>2, <1>3 DEF RegFor
<1>5. \A n \in DOMAIN P : e[<<"owner", n>>] = P[n]
  BY <1>2, <1>3 DEF RegFor
<1>6. RegFor(e, P, S, R)
  BY <1>1, <1>4, <1>5 DEF RegFor, SameTable
<1> QED
  BY <1>6 DEF e, P

LEMMA RegState ==
  ASSUME NEW d, NEW O, NEW S, NEW R, RegFor(d, O, S, R), NEW s, NEW v,
         DOMAIN O \subseteq Nat, DOMAIN S \subseteq Nat
  PROVE  RegFor(Put(d, <<"stateid", s>>, v), O, Put(S, s, v), R)
<1> DEFINE e == Put(d, <<"stateid", s>>, v)
           P == Put(S, s, v)
<1>1. SameTable(d, e, "owner") /\ SameTable(d, e, "client")
  BY TablePut
<1>2. /\ <<"stateid", s>> \in DOMAIN e /\ e[<<"stateid", s>>] = v /\ s \in DOMAIN P /\ P[s] = v
  BY PutSame
<1>3. \A n : n # s =>
         /\ <<"stateid", n>> \in DOMAIN e <=> <<"stateid", n>> \in DOMAIN d
         /\ <<"stateid", n>> \in DOMAIN d => e[<<"stateid", n>>] = d[<<"stateid", n>>]
         /\ n \in DOMAIN P <=> n \in DOMAIN S
         /\ n \in DOMAIN S => P[n] = S[n]
  <2> TAKE n
  <2> HAVE n # s
  <2>1. <<"stateid", n>> # <<"stateid", s>>
    OBVIOUS
  <2> QED
    BY <2>1, PutOther
<1> HIDE DEF e, P
<1>4. \A n \in Nat : <<"stateid", n>> \in DOMAIN e <=> n \in DOMAIN P
  BY <1>2, <1>3 DEF RegFor
<1>5. \A n \in DOMAIN P : e[<<"stateid", n>>] = P[n]
  BY <1>2, <1>3 DEF RegFor
<1>6. RegFor(e, O, P, R)
  BY <1>1, <1>4, <1>5 DEF RegFor, SameTable
<1> QED
  BY <1>6 DEF e, P

(* P is what is left of the function O without the keys Y. *)
Without(P, O, Y) == DOMAIN P = DOMAIN O \ Y /\ \A n \in DOMAIN P : P[n] = O[n]

LEMMA WithoutDel ==
  ASSUME NEW O, NEW Y
  PROVE  Without(Del(O, Y), O, Y) /\ Without(O, O, {})
BY DEF Without, Del

(* The rows X are those of the owners Y, the stateids Z and the clients C. *)
Takes(X, Y, Z, C) ==
    \A n : /\ <<"owner", n>> \in X <=> n \in Y
           /\ <<"stateid", n>> \in X <=> n \in Z
           /\ <<"client", n>> \in X <=> n \in C

(* Registrations taken out together with their rows. *)
LEMMA RegTaken ==
  ASSUME NEW d, NEW O, NEW S, NEW R, RegFor(d, O, S, R),
         DOMAIN O \subseteq Nat, DOMAIN S \subseteq Nat,
         NEW P, NEW Y, Without(P, O, Y), NEW Q, NEW Z, Without(Q, S, Z), NEW C, NEW X,
         Takes(X, Y, Z, C)
  PROVE  RegFor(Del(d, X), P, Q, R \ C)
<1> DEFINE e == Del(d, X)
<1>1. \A j : /\ j \in DOMAIN e <=> j \in DOMAIN d /\ j \notin X
             /\ j \in DOMAIN e => e[j] = d[j]
  BY DelIs
<1> HIDE DEF e
<1>2. \A n \in Nat : <<"owner", n>> \in DOMAIN e <=> n \in DOMAIN P
  BY <1>1 DEF RegFor, Without, Takes
<1>3. \A n \in DOMAIN P : e[<<"owner", n>>] = P[n]
  BY <1>1 DEF RegFor, Without, Takes
<1>4. \A n \in Nat : <<"stateid", n>> \in DOMAIN e <=> n \in DOMAIN Q
  BY <1>1 DEF RegFor, Without, Takes
<1>5. \A n \in DOMAIN Q : e[<<"stateid", n>>] = Q[n]
  BY <1>1 DEF RegFor, Without, Takes
<1>6. \A c \in Clients : <<"client", c>> \in DOMAIN e <=> c \in R \ C
  BY <1>1 DEF RegFor, Takes
<1>7. RegFor(e, P, Q, R \ C)
  BY <1>2, <1>3, <1>4, <1>5, <1>6 DEF RegFor
<1> QED
  BY <1>7 DEF e

LEMMA RegStep ==
  ASSUME AnyInv, RegOK, NEW t \in Threads, Step(t)
  PROVE  RegOK'
<1>1. DOMAIN owners \subseteq Nat /\ DOMAIN states \subseteq Nat
  <2>1. sidCtr \in Nat /\ DOMAIN states \subseteq 1 .. sidCtr - 1 /\ DOMAIN owners \subseteq Nat
    BY DEF AnyInv, TablesOK
  <2> QED
    BY <2>1
<1>2. RegFor(rows, owners, states, recs)
  BY DEF RegOK
<1>3. CASE UNCHANGED <<rows, owners, states, recs>>
  BY <1>2, <1>3 DEF RegOK
<1>4. CASE Allocate(t)
  <2>1. /\ states' = Put(states, sidCtr, ClientOf[thr[t].owner]) /\ UNCHANGED <<owners, recs>>
        /\ rows' = Put(rows, <<"stateid", sidCtr>>, ClientOf[thr[t].owner])
    BY <1>4 DEF Allocate
  <2> QED
    BY <1>1, <1>2, <2>1, RegState DEF RegOK
<1>5. CASE Register(t)
  <2>1. /\ owners' = Put(owners, thr[t].sid, thr[t].owner) /\ UNCHANGED <<states, recs>>
        /\ rows' = Put(rows, <<"owner", thr[t].sid>>, thr[t].owner)
    BY <1>5 DEF Register
  <2> QED
    BY <1>1, <1>2, <2>1, RegOwner DEF RegOK
<1>6. CASE Unrow(t)
  <2>1. rows' = Del(rows, {<<"lock", NextOp(t).key>>}) /\ UNCHANGED <<owners, states, recs>>
    BY <1>6 DEF Unrow, mem
  <2>2. \A n : /\ <<"owner", n>> \notin {<<"lock", NextOp(t).key>>}
               /\ <<"stateid", n>> \notin {<<"lock", NextOp(t).key>>}
               /\ <<"client", n>> \notin {<<"lock", NextOp(t).key>>}
    OBVIOUS
  <2>3. /\ SameTable(rows, rows', "owner") /\ SameTable(rows, rows', "stateid")
        /\ SameTable(rows, rows', "client")
    BY <2>1, <2>2, TableDel
  <2> QED
    BY <1>1, <1>2, <2>1, <2>3, RegSame DEF RegOK
<1>7. CASE Row(t)
  <2>1. rows' = Put(rows, <<"lock", NextOp(t).key>>, NextOp(t).val) /\ UNCHANGED <<owners, states, recs>>
    BY <1>7 DEF Row, mem
  <2>2. /\ SameTable(rows, rows', "owner") /\ SameTable(rows, rows', "stateid")
        /\ SameTable(rows, rows', "client")
    BY <2>1, TablePut
  <2> QED
    BY <1>1, <1>2, <2>1, <2>2, RegSame DEF RegOK
<1>8. CASE DropSessions(t)
  <2>1. PICK Z : Z = StatesOf(thr[t].client)
    OBVIOUS
  <2>2. PICK X : X = {<<"stateid", s>> : s \in Z}
    OBVIOUS
  <2>3. /\ states' = Del(states, Z) /\ rows' = Del(rows, X) /\ UNCHANGED <<owners, recs>>
    BY <1>8, <2>1, <2>2 DEF DropSessions
  <2>4. Takes(X, {}, Z, {})
    BY <2>2 DEF Takes
  <2>5. Without(states', states, Z) /\ Without(owners', owners, {}) /\ recs' = recs \ {}
    BY <2>3, WithoutDel
  <2>6. RegFor(Del(rows, X), owners', states', recs \ {})
    BY <1>1, <1>2, <2>4, <2>5, RegTaken
  <2> QED
    BY <2>3, <2>5, <2>6 DEF RegOK
<1>9. CASE DropRecord(t)
  <2>1. PICK X : X = {<<"client", thr[t].client>>}
    OBVIOUS
  <2>2. /\ recs' = recs \ {thr[t].client} /\ rows' = Del(rows, X) /\ UNCHANGED <<owners, states>>
    BY <1>9, <2>1 DEF DropRecord, mem
  <2>3. Takes(X, {}, {}, {thr[t].client})
    BY <2>1 DEF Takes
  <2>4. Without(states', states, {}) /\ Without(owners', owners, {})
    BY <2>2, WithoutDel
  <2>5. RegFor(Del(rows, X), owners', states', recs \ {thr[t].client})
    BY <1>1, <1>2, <2>3, <2>4, RegTaken
  <2> QED
    BY <2>2, <2>5 DEF RegOK
<1>10. CASE Purge(t)
  <2>1. PICK Y : Y = {s \in DOMAIN owners : ClientOf[owners[s]] = thr[t].client}
    OBVIOUS
  <2>2. PICK X : X = {<<"owner", s>> : s \in Y}
    OBVIOUS
  <2>3. /\ owners' = Del(owners, Y) /\ rows' = Del(rows, X) /\ UNCHANGED <<states, recs>>
    BY <1>10, <2>1, <2>2 DEF Purge
  <2>4. Takes(X, Y, {}, {})
    BY <2>2 DEF Takes
  <2>5. Without(states', states, {}) /\ Without(owners', owners, Y) /\ recs' = recs \ {}
    BY <2>3, WithoutDel
  <2>6. RegFor(Del(rows, X), owners', states', recs \ {})
    BY <1>1, <1>2, <2>4, <2>5, RegTaken
  <2> QED
    BY <2>3, <2>5, <2>6 DEF RegOK
<1>11. Check(t) \/ Trim(t) \/ Carve(t) \/ Unindex(t) \/ DropFh(t) \/ Insert(t) \/ Push(t)
         \/ Reply(t) \/ Strip(t) \/ Remove(t) \/ Retired(t)
         => UNCHANGED <<rows, owners, states, recs>>
  BY DEF Check, Trim, Carve, Unindex, DropFh, Insert, Push, Reply, Strip, Remove, Retired, mem
<1> QED
  BY <1>3, <1>4, <1>5, <1>6, <1>7, <1>8, <1>9, <1>10, <1>11 DEF Step

LEMMA RegRequest ==
  ASSUME AnyInv, RegOK, NEW t \in Threads, Request(t)
  PROVE  RegOK'
<1>1. DOMAIN owners \subseteq Nat /\ DOMAIN states \subseteq Nat /\ sidCtr \in Nat
  <2>1. sidCtr \in Nat /\ DOMAIN states \subseteq 1 .. sidCtr - 1 /\ DOMAIN owners \subseteq Nat
    BY DEF AnyInv, TablesOK
  <2> QED
    BY <2>1
<1>2. RegFor(rows, owners, states, recs)
  BY DEF RegOK
<1>3. CASE UNCHANGED <<rows, owners, states, recs>>
  BY <1>2, <1>3 DEF RegOK
<1>4. ASSUME NEW o \in Owners, NEW type \in LockTypes, NEW r \in Ranges, Reclaim(t, o, type, r)
      PROVE  RegOK'
  <2>1. UNCHANGED recs
    BY <1>4 DEF Reclaim
  <2>2. CASE UNCHANGED <<sidCtr, owners, states, rows>>
    BY <1>3, <2>1, <2>2
  <2>3. CASE /\ owners' = Put(owners, sidCtr, o) /\ states' = Put(states, sidCtr, ClientOf[o])
             /\ rows' = Put(Put(rows, <<"stateid", sidCtr>>, ClientOf[o]), <<"owner", sidCtr>>, o)
    <3>1. PICK d : d = Put(rows, <<"stateid", sidCtr>>, ClientOf[o])
      OBVIOUS
    <3>2. RegFor(d, owners, states', recs)
      BY <1>1, <1>2, <2>3, <3>1, RegState
    <3>3. DOMAIN states' \subseteq Nat
      BY <1>1, <2>3 DEF Put
    <3>4. RegFor(Put(d, <<"owner", sidCtr>>, o), Put(owners, sidCtr, o), states', recs)
      BY <1>1, <3>2, <3>3, RegOwner
    <3> QED
      BY <2>1, <2>3, <3>1, <3>4 DEF RegOK
  <2> QED
    BY <1>4, <2>2, <2>3, AnyReclaim
<1>5. ASSUME NEW o \in Owners, FreeStateId(t, o)
      PROVE  RegOK'
  <2>1. PICK s : s = known[o]
    OBVIOUS
  <2>2. PICK X : X = {<<"owner", s>>, <<"stateid", s>>}
    OBVIOUS
  <2>3. /\ owners' = Del(owners, {s}) /\ states' = Del(states, {s}) /\ rows' = Del(rows, X)
        /\ UNCHANGED recs
    BY <1>5, <2>1, <2>2 DEF FreeStateId
  <2>4. Takes(X, {s}, {s}, {})
    BY <2>2 DEF Takes
  <2>5. Without(states', states, {s}) /\ Without(owners', owners, {s}) /\ recs' = recs \ {}
    BY <2>3, WithoutDel
  <2>6. RegFor(Del(rows, X), owners', states', recs \ {})
    BY <1>1, <1>2, <2>4, <2>5, RegTaken
  <2> QED
    BY <2>3, <2>5, <2>6 DEF RegOK
<1>6. ASSUME NEW o, NEW type, NEW r, NEW c,
             \/ Lock(t, o, type, r) \/ LockU(t, o, r) \/ Sweep(t, c) \/ Cascade(t, c)
             \/ DestroyClientId(t, c) \/ Reconnect(t, c)
      PROVE  UNCHANGED <<rows, owners, states, recs>>
  BY <1>6 DEF Lock, LockU, Sweep, Cascade, DestroyClientId, Reconnect, mem
<1> QED
  BY <1>3, <1>4, <1>5, <1>6 DEF Request

LEMMA RegLoad ==
  ASSUME AnyInv, NEW d, DbOK(d, keyCtr, sidCtr), Load(d)
  PROVE  RegOK'
<1>1. /\ owners' = [s \in RowsOf(d, "owner") |-> d[<<"owner", s>>]]
      /\ states' = [s \in RowsOf(d, "stateid") |-> d[<<"stateid", s>>]]
      /\ recs' = RowsOf(d, "client") /\ rows' = d
  BY DEF Load
<1>2. /\ \A n : n \in RowsOf(d, "owner") <=> <<"owner", n>> \in DOMAIN d
      /\ \A n : n \in RowsOf(d, "stateid") <=> <<"stateid", n>> \in DOMAIN d
      /\ \A n : n \in RowsOf(d, "client") <=> <<"client", n>> \in DOMAIN d
  BY RowsOfIs
<1>3. RegFor(d, owners', states', recs')
  BY <1>1, <1>2 DEF RegFor
<1> QED
  BY <1>1, <1>3 DEF RegOK

LEMMA RegNext ==
  ASSUME AnyInv, RegOK, [Next]_vars
  PROVE  RegOK'
<1>1. CASE Restart
  <2>1. DbOK(rows, keyCtr, sidCtr) /\ Load(rows)
    BY <1>1 DEF AnyInv, Restart
  <2> QED
    BY <2>1, RegLoad
<1>2. CASE Crash
  <2>1. DbOK(disk, keyCtr, sidCtr) /\ Load(disk)
    BY <1>2 DEF AnyInv, Crash
  <2> QED
    BY <2>1, RegLoad
<1>3. CASE UNCHANGED <<rows, owners, states, recs>>
  BY <1>3 DEF RegOK
<1>4. (\E o \in Owners : StateIdLost(o)) \/ Commit \/ GraceEnds \/ UNCHANGED vars =>
         UNCHANGED <<rows, owners, states, recs>>
  BY DEF StateIdLost, Commit, GraceEnds, mem, vars
<1> QED
  BY <1>1, <1>2, <1>3, <1>4, RegStep, RegRequest DEF Next

LEMMA RegInit == Init => RegOK
<1> SUFFICES ASSUME Init PROVE RegOK
  OBVIOUS
<1>1. DOMAIN owners = {} /\ DOMAIN states = {} /\ recs = Clients
  BY DEF Init
<1>2. DOMAIN rows = {<<"client", c>> : c \in Clients}
  BY DEF Init
<1>3. \A n : <<"owner", n>> \notin DOMAIN rows /\ <<"stateid", n>> \notin DOMAIN rows
  BY <1>2
<1> QED
  BY <1>1, <1>2, <1>3 DEF RegOK, RegFor

LEMMA RegAlways == Spec => []RegOK
<1>1. Init => RegOK
  BY RegInit
<1>2. AnyInv /\ RegOK /\ [Next]_vars => RegOK'
  BY RegNext
<1> QED
  BY <1>1, <1>2, TablesAlwaysOK, PTL DEF Spec

(* A list that has each element of a set once is as long as the set. *)
LEMMA ListCounts ==
  ASSUME NEW S, NEW q \in Seq(S), \A k \in S : \E i \in 1 .. Len(q) : q[i] = k,
         \A i, j \in 1 .. Len(q) : q[i] = q[j] => i = j
  PROVE  Len(q) = Cardinality(S)
<1>1. PICK n \in Nat : n = Len(q)
  OBVIOUS
<1>2. q \in [1 .. n -> S] /\ DOMAIN q = 1 .. n
  BY <1>1
<1>3. q \in Injection(1 .. n, S)
  BY <1>1, <1>2 DEF Injection, IsInjective
<1>4. q \in Surjection(1 .. n, S)
  BY <1>1, <1>2 DEF Surjection
<1>5. ExistsBijection(1 .. n, S)
  BY <1>3, <1>4 DEF ExistsBijection, Bijection
<1>6. Cardinality(S) = n
  BY <1>5, FS_CountingElements
<1> QED
  BY <1>1, <1>6

(* add_lock and remove_lock write the map and the file's index in separate *)
(* steps; between requests, when no two were worked on at a time, the      *)
(* index lists every entry once, restarts and crashes included.            *)
THEOREM IndexListsEntries == Spec => []IndexExact
<1>1. AnyInv /\ OneInv => IndexExact
  <2> SUFFICES ASSUME AnyInv, OneInv, Settled
               PROVE  /\ {index[i] : i \in 1 .. Len(index)} = DOMAIN locks
                      /\ Len(index) = Cardinality(DOMAIN locks)
    BY DEF IndexExact
  <2>1. Exact(<<>>)
    BY QuietExact DEF Settled
  <2>2. \A k : ~ Pushing(<<>>, k) /\ ~ Unlisting(<<>>, k)
    BY NoneBland, BlandNone
  <2>3. /\ \A k \in 1 .. keyCtr - 1 :
              (\E i \in 1 .. Len(index) : index[i] = k) <=> k \in DOMAIN locks
        /\ \A i, j \in 1 .. Len(index) : index[i] = index[j] => i = j
    BY <2>1, <2>2 DEF Exact, Lists
  <2>4. PICK S : S = 1 .. keyCtr - 1
    OBVIOUS
  <2>5. index \in Seq(S) /\ DOMAIN locks \subseteq S
    BY <2>4 DEF AnyInv, TablesOK
  <2>6. \A i \in 1 .. Len(index) : index[i] \in S
    BY <2>5
  <2>7. \A i \in 1 .. Len(index) : index[i] \in DOMAIN locks
    BY <2>3, <2>4, <2>6
  <2>8. \A k \in DOMAIN locks : \E i \in 1 .. Len(index) : index[i] = k
    BY <2>3, <2>4, <2>5
  <2>9. index \in Seq(DOMAIN locks)
    <3>1. Len(index) \in Nat /\ index \in [1 .. Len(index) -> S]
      BY <2>5
    <3>2. index \in [1 .. Len(index) -> DOMAIN locks]
      BY <2>7, <3>1
    <3> QED
      BY <3>1, <3>2
  <2>10. Len(index) = Cardinality(DOMAIN locks)
    BY <2>3, <2>8, <2>9, ListCounts
  <2> QED
    BY <2>7, <2>8, <2>10
<1> QED
  BY <1>1, OneAlways, PTL

(* The database mirror: between requests, when no two were worked on at a  *)
(* time, the captured writes of persist_lock, delete_lock and the stateid  *)
(* tables come to exactly the rows of the tables, so an orderly restart    *)
(* neither forgets a lock nor brings one back.                             *)
THEOREM DatabaseMirrorsTables == Spec => []RowsFollow
<1>1. AnyInv /\ OneInv /\ RegOK => RowsFollow
  <2> SUFFICES ASSUME AnyInv, OneInv, RegOK, Settled
               PROVE  /\ RowsOf(rows, "lock") = DOMAIN locks
                      /\ \A k \in DOMAIN locks : rows[<<"lock", k>>] = locks[k]
                      /\ RowsOf(rows, "owner") = DOMAIN owners
                      /\ RowsOf(rows, "stateid") = DOMAIN states
    BY DEF RowsFollow
  <2>1. Mirrors(<<>>, locks, rows, keyCtr)
    BY QuietExact DEF Settled, Exact
  <2>2. \A k : ~ Rowing(<<>>, k) /\ ~ Unrowing(<<>>, k)
    BY NoneBland, BlandNone
  <2>3. DbOK(rows, keyCtr, sidCtr)
    BY DEF AnyInv
  <2>4. /\ \A n : n \in RowsOf(rows, "lock") <=> <<"lock", n>> \in DOMAIN rows
        /\ \A n : n \in RowsOf(rows, "owner") <=> <<"owner", n>> \in DOMAIN rows
        /\ \A n : n \in RowsOf(rows, "stateid") <=> <<"stateid", n>> \in DOMAIN rows
    BY <2>3, RowsOfIs
  <2>5. /\ \A n : <<"lock", n>> \in DOMAIN rows => n \in 1 .. keyCtr - 1
        /\ \A n : <<"owner", n>> \in DOMAIN rows => n \in Nat
        /\ \A n : <<"stateid", n>> \in DOMAIN rows => n \in 1 .. sidCtr - 1
    BY <2>3, RowIs
  <2>6. /\ DOMAIN locks \subseteq 1 .. keyCtr - 1 /\ DOMAIN owners \subseteq Nat
        /\ DOMAIN states \subseteq 1 .. sidCtr - 1 /\ sidCtr \in Nat
    BY DEF AnyInv, TablesOK
  <2>7. \A k \in 1 .. keyCtr - 1 : <<"lock", k>> \in DOMAIN rows <=> k \in DOMAIN locks
    BY <2>1, <2>2 DEF Mirrors, LockRow
  <2>8. RowsOf(rows, "lock") = DOMAIN locks
    BY <2>4, <2>5, <2>6, <2>7
  <2>9. \A k \in DOMAIN locks : rows[<<"lock", k>>] = locks[k]
    BY <2>1, <2>6, <2>7 DEF Mirrors, LockRow
  <2>10. RowsOf(rows, "owner") = DOMAIN owners
    BY <2>4, <2>5, <2>6 DEF RegOK, RegFor
  <2>11. \A n \in 1 .. sidCtr - 1 : n \in Nat
    BY <2>6
  <2>12. RowsOf(rows, "stateid") = DOMAIN states
    BY <2>4, <2>5, <2>6, <2>11 DEF RegOK, RegFor
  <2> QED
    BY <2>8, <2>9, <2>10, <2>12
<1> QED
  BY <1>1, OneAlways, RegAlways, PTL

-----------------------------------------------------------------------------
(* Ranges that end inside the file stay so. *)

LEMMA PlainJoin ==
  ASSUME NEW ops \in Seq(Ops), NEW q \in Seq(Ops), q # <<>>, PlainOps(ops), PlainOps(q)
  PROVE  PlainOps(ops \o Tail(q))
<1> DEFINE r == ops \o Tail(q)
<1>1. /\ Len(q) \in Nat /\ Len(q) >= 1 /\ Len(ops) \in Nat /\ Len(r) = Len(ops) + Len(q) - 1
      /\ \A i \in 1 .. Len(ops) + Len(q) - 1 :
               r[i] = IF i <= Len(ops) THEN ops[i] ELSE q[i - Len(ops) + 1]
  BY Joined
<1> HIDE DEF r
<1>2. ASSUME NEW i \in 1 .. Len(r)
      PROVE  (\E j \in 1 .. Len(ops) : r[i] = ops[j]) \/ (\E j \in 1 .. Len(q) : r[i] = q[j])
  <2>1. CASE i <= Len(ops)
    BY <1>1, <2>1
  <2>2. CASE i > Len(ops)
    <3>1. i - Len(ops) + 1 \in 1 .. Len(q) /\ r[i] = q[i - Len(ops) + 1]
      BY <1>1, <2>2
    <3> QED
      BY <3>1
  <2> QED
    BY <1>1, <2>1, <2>2
<1>3. PlainOps(r)
  BY <1>2 DEF PlainOps
<1> QED
  BY <1>3 DEF r

(* The thread goes on with the same range. *)
SameRange(t) ==
    /\ thr'[t].kind = thr[t].kind
    /\ thr[t].kind \in {"lock", "locku"} => thr'[t].range = thr[t].range

LEMMA PlainTodo ==
  ASSUME PlainThreads, NEW t \in Threads
  PROVE  PlainOps(Todo(t))
BY DEF PlainThreads

LEMMA PlainShift ==
  ASSUME ThreadsOK, PlainThreads, NEW t \in Threads, Todo(t) # <<>>, NEW ops \in Seq(Ops),
         PlainOps(ops), Shifted(t, ops), SameRange(t)
  PROVE  PlainThreads'
<1>1. Todo(t) \in Seq(Ops) /\ PlainOps(Todo(t))
  BY TodoIs, PlainTodo
<1>2. PICK q : q = Todo(t)
  OBVIOUS
<1>3. PlainOps(ops \o Tail(q))
  BY <1>1, <1>2, PlainJoin
<1>4. Todo(t)' = ops \o Tail(q) /\ \A u \in Threads \ {t} : thr'[u] = thr[u]
  BY <1>2 DEF Shifted, Todo
<1> QED
  BY <1>3, <1>4 DEF PlainThreads, SameRange, Todo

LEMMA MovedIs ==
  ASSUME NEW t, NEW ops, Moved(t, ops)
  PROVE  Shifted(t, ops) /\ SameRange(t)
BY DEF Moved, Shifted, SameRange

LEMMA PlainTook ==
  ASSUME PlainThreads, NEW t \in Threads, NEW W, Took(t, W), PlainOps(W.todo),
         W.kind \in {"lock", "locku"} => Plain(W.range)
  PROVE  PlainThreads'
BY DEF PlainThreads, Took, Todo

LEMMA PlainNone == PlainOps(<<>>) /\ PlainOps(Idle.todo) /\ Idle.kind = "idle"
BY DEF PlainOps, Idle

LEMMA PlainSameRows ==
  ASSUME NEW d, NEW e, PlainRows(d),
         \A k \in Nat : LockRow(e, k) => LockRow(d, k) /\ e[<<"lock", k>>] = d[<<"lock", k>>]
  PROVE  PlainRows(e)
BY DEF PlainRows

LEMMA RowsFewer ==
  ASSUME NEW d, NEW X, NEW k, LockRow(Del(d, X), k)
  PROVE  LockRow(d, k) /\ Del(d, X)[<<"lock", k>>] = d[<<"lock", k>>]
BY DEF LockRow, Del

LEMMA LocksFewer ==
  ASSUME NEW L, NEW X
  PROVE  DOMAIN Del(L, X) \subseteq DOMAIN L /\ \A k \in DOMAIN Del(L, X) : Del(L, X)[k] = L[k]
BY DEF Del

(* What a carve puts back. *)
LEMMA CutNarrows ==
  ASSUME NEW held \in LockVals, NEW cut, Plain(held.range), Plain(cut), Overlaps(held.range, cut),
         NEW i \in 1 .. Len(Survivors(held, cut))
  PROVE  LET v == Survivors(held, cut)[i].lock
         IN  /\ v.owner = held.owner /\ v.type = held.type /\ Plain(v.range)
             /\ Bytes(v.range) \subseteq Bytes(held.range)
<1>1. cut \in Range64
  BY DEF Plain
<1> DEFINE S == LeftSurvivor(held.range, cut) \cup RightSurvivor(held.range, cut)
           v == Survivors(held, cut)[i].lock
<1>2. v.owner = held.owner /\ v.type = held.type /\ v.range \in S
  BY <1>1, SurvivorsAre
<1>3. (\A r \in S : Plain(r)) /\ UNION {Bytes(r) : r \in S} = Bytes(held.range) \ Bytes(cut)
  BY CarveExact
<1> HIDE DEF S, v
<1>4. Plain(v.range) /\ Bytes(v.range) \subseteq Bytes(held.range)
  BY <1>2, <1>3
<1> QED
  BY <1>2, <1>4 DEF v

(* Operations that bring no range with them. *)
Rangeless(q) == \A i \in 1 .. Len(q) : q[i].op \notin {"insert", "row"}

LEMMA PlainFree ==
  ASSUME NEW q, Rangeless(q)
  PROVE  PlainOps(q)
BY DEF PlainOps, Rangeless

LEMMA PlainCarve ==
  ASSUME AnyInv, PlainOK, NEW t \in Threads, Carve(t)
  PROVE  PlainLocks(locks') /\ PlainThreads'
<1>1. /\ ThreadsOK /\ TablesOK /\ PlainThreads /\ PlainLocks(locks) /\ Does(t, "carve")
      /\ thr[t].kind \in {"lock", "locku"}
  BY AnyCarve DEF AnyInv, PlainOK, Carve
<1>2. Todo(t) # <<>>
  BY <1>1, HeadIs
<1>3. PICK k : k = NextOp(t).key
  OBVIOUS
<1>4. CASE UNCHANGED locks /\ Moved(t, <<>>)
  BY <1>1, <1>2, <1>4, MovedIs, NoneBland, PlainNone, PlainShift
<1>5. CASE /\ k \in DOMAIN locks /\ Overlaps(locks[k].range, thr[t].range)
           /\ locks' = Del(locks, {k}) /\ Moved(t, Cut(t, k))
  <2>1. PICK held : held = locks[k]
    OBVIOUS
  <2>2. PICK cut : cut = thr[t].range
    OBVIOUS
  <2>3. held \in LockVals /\ Plain(held.range) /\ Plain(cut) /\ Overlaps(held.range, cut) /\ cut \in Range64
    BY <1>1, <1>5, <2>1, <2>2 DEF TablesOK, PlainLocks, PlainThreads, Plain
  <2>4. keyCtr \in Nat /\ k \in 1 .. keyCtr - 1
    BY <1>1, <1>5 DEF TablesOK
  <2>5. k \in Nat
    BY <2>4
  <2>6. PICK S : S = Survivors(held, cut)
    OBVIOUS
  <2>7. S \in Seq(Ops) /\ \A i \in 1 .. Len(S) : S[i].op = "insert"
    BY <2>3, <2>6, SurvivorsAre
  <2>8. \A i \in 1 .. Len(S) : Plain(S[i].lock.range)
    BY <2>3, <2>6, CutNarrows
  <2>9. PICK r : r = Removal(k) \o S
    OBVIOUS
  <2>10. /\ r \in Seq(Ops) /\ Len(r) = Len(S) + 2 /\ Len(S) \in Nat
         /\ r[1].op = "unindex" /\ r[1].key = k /\ r[2].op = "unrow"
         /\ \A i \in 3 .. Len(r) : i - 2 \in 1 .. Len(S) /\ r[i] = S[i - 2]
    <3>1. Inserts(S) /\ CutShape(r, k, S)
      BY <2>5, <2>7, <2>9, CutIs DEF Inserts
    <3> QED
      BY <3>1 DEF CutShape
  <2>11. PlainOps(r)
    <3>1. \A i \in 1 .. Len(r) : i = 1 \/ i = 2 \/ i \in 3 .. Len(r)
      BY <2>10
    <3>2. \A i \in 3 .. Len(r) : r[i].op = "insert" /\ Plain(r[i].lock.range)
      BY <2>7, <2>8, <2>10
    <3> QED
      BY <2>10, <3>1, <3>2 DEF PlainOps
  <2>12. Shifted(t, r) /\ SameRange(t)
    <3>1. Moved(t, r)
      BY <1>5, <2>1, <2>2, <2>6, <2>9 DEF Cut
    <3> QED
      BY <3>1, MovedIs
  <2>13. PlainThreads'
    BY <1>1, <1>2, <2>10, <2>11, <2>12, PlainShift
  <2>14. PlainLocks(locks')
    BY <1>1, <1>5, LocksFewer DEF PlainLocks
  <2> QED
    BY <2>13, <2>14
<1> QED
  BY <1>1, <1>3, <1>4, <1>5, AnyCarve

LEMMA PlainInsert ==
  ASSUME AnyInv, PlainOK, NEW t \in Threads, Insert(t)
  PROVE  PlainLocks(locks') /\ PlainThreads'
<1>1. PICK v : v = NextOp(t).lock
  OBVIOUS
<1>2. PICK n : n = keyCtr
  OBVIOUS
<1>3. /\ v \in LockVals /\ locks' = Put(locks, n, v) /\ Moved(t, Inserting(n, v)) /\ Does(t, "insert")
      /\ n \notin DOMAIN locks /\ ThreadsOK /\ n \in Nat /\ PlainThreads /\ PlainLocks(locks)
  BY <1>1, <1>2, AnyInsert DEF Insert, AnyInv, TablesOK, PlainOK
<1>4. Todo(t) # <<>> /\ NextOp(t) = Todo(t)[1] /\ Todo(t)[1].op = "insert" /\ Len(Todo(t)) \in Nat
      /\ Len(Todo(t)) >= 1
  BY <1>3, HeadIs
<1>5. Plain(v.range)
  <2>1. PICK q : q = Todo(t)
    OBVIOUS
  <2>2. PlainOps(q) /\ 1 \in 1 .. Len(q) /\ q[1].op = "insert" /\ v = q[1].lock
    BY <1>1, <1>3, <1>4, <2>1, PlainTodo
  <2> QED
    BY <2>2 DEF PlainOps
<1>6. PICK r : r = Inserting(n, v)
  OBVIOUS
<1>7. /\ r \in Seq(Ops) /\ Len(r) = 2 /\ r[1].op = "push" /\ r[2].op = "row" /\ r[2].val = v
  BY <1>3, <1>6, InsertingIs
<1>8. PlainOps(r)
  <2>1. \A i \in 1 .. 2 : i = 1 \/ i = 2
    OBVIOUS
  <2> QED
    BY <1>5, <1>7, <2>1 DEF PlainOps
<1>9. PlainThreads'
  BY <1>3, <1>4, <1>6, <1>7, <1>8, MovedIs, PlainShift
<1>10. PlainLocks(locks')
  BY <1>3, <1>5 DEF PlainLocks, Put
<1> QED
  BY <1>9, <1>10

LEMMA PlainCheck ==
  ASSUME AnyInv, PlainOK, NEW t \in Threads, Check(t)
  PROVE  PlainThreads'
<1>1. ThreadsOK /\ PlainThreads /\ Does(t, "check")
  BY DEF Check, AnyInv, PlainOK
<1>2. CASE thr' = [thr EXCEPT ![t] = Idle]
  BY <1>1, <1>2, EndsTook, PlainNone, PlainTook
<1>3. CASE Moved(t, Granted(t))
  <2>1. PICK r : r = Granted(t)
    OBVIOUS
  <2>2. /\ r \in Seq(Ops)
        /\ \A i \in 1 .. Len(r) :
              /\ r[i].op \in {"allocate", "register", "trim", "insert"}
              /\ r[i].op = "insert" => r[i].lock = [owner |-> thr[t].owner, type |-> thr[t].type,
                                                    range |-> thr[t].range]
    BY <1>1, <2>1, GrantedIs
  <2>3. Todo(t) # <<>> /\ thr[t].kind \in {"lock", "locku"}
    <3>1. "check" \notin RetireOps
      BY DEF RetireOps
    <3> QED
      BY <1>1, <3>1, HeadIs, AskHead
  <2>4. Plain(thr[t].range)
    BY <1>1, <2>3 DEF PlainThreads
  <2>5. PlainOps(r)
    BY <2>2, <2>4 DEF PlainOps
  <2> QED
    BY <1>1, <1>3, <2>1, <2>2, <2>3, <2>5, MovedIs, PlainShift
<1> QED
  BY <1>2, <1>3, AnyCheck

(* The other steps: no range comes with what they lead to. *)
Turned(t) ==
    \/ Took(t, Idle)
    \/ Todo(t) # <<>> /\ \E ops \in Seq(Ops) : Rangeless(ops) /\ Shifted(t, ops) /\ SameRange(t)

LEMMA OthersTurn ==
  ASSUME AnyInv, NEW t \in Threads, Step(t), ~ Check(t), ~ Carve(t), ~ Insert(t)
  PROVE  Turned(t)
<1>1. ThreadsOK /\ TablesOK
  BY DEF AnyInv
<1>2. ASSUME NEW o, Does(t, o), NEW ops \in Seq(Ops), Rangeless(ops), Moved(t, ops)
      PROVE  Turned(t)
  BY <1>1, <1>2, HeadIs, MovedIs DEF Turned
<1>0. <<>> \in Seq(Ops) /\ Rangeless(<<>>)
  BY DEF Rangeless
<1>3. CASE Register(t) \/ DropFh(t) \/ Unrow(t) \/ Push(t) \/ Row(t) \/ DropSessions(t)
           \/ DropRecord(t) \/ Purge(t)
  <2>1. Moved(t, <<>>)
    BY <1>3, AnyRegister, AnyDropFh, AnyUnrow, AnyPush, AnyRow, AnyDropSessions, AnyDropRecord,
       AnyPurge
  <2>2. \E o : Does(t, o)
    BY <1>3 DEF Register, DropFh, Unrow, Push, Row, DropSessions, DropRecord, Purge
  <2> QED
    BY <1>0, <1>2, <2>1, <2>2
<1>4. CASE Reply(t) \/ Retired(t)
  <2>1. thr' = [thr EXCEPT ![t] = Idle]
    BY <1>4 DEF Reply, Retired
  <2> QED
    BY <1>1, <2>1, EndsTook DEF Turned
<1>5. CASE Allocate(t)
  <2>1. Does(t, "allocate")
    BY <1>5 DEF Allocate
  <2>2. /\ \A u \in Threads \ {t} : thr'[u] = thr[u] /\ thr'[t].todo = Tail(thr[t].todo)
        /\ SameRange(t)
    BY <1>5, AnyAllocate DEF SameRange
  <2>3. Todo(t) \in Seq(Ops) /\ Todo(t) # <<>>
    BY <1>1, <2>1, HeadIs
  <2>4. Tail(Todo(t)) \in Seq(Ops)
    BY <2>3
  <2>5. <<>> \o Tail(Todo(t)) = Tail(Todo(t))
    BY <2>4, EmptyJoin
  <2>6. Shifted(t, <<>>)
    <3>1. thr'[t].todo = Tail(thr[t].todo) /\ \A u \in Threads \ {t} : thr'[u] = thr[u]
      BY <1>5, AnyAllocate
    <3> QED
      BY <2>5, <3>1 DEF Shifted, Todo
  <2> QED
    BY <1>0, <2>2, <2>3, <2>6 DEF Turned
<1>6. CASE Trim(t)
  <2>1. Does(t, "trim")
    BY <1>6 DEF Trim
  <2>2. PICK r : r = Carves
    OBVIOUS
  <2>3. r \in Seq(Ops) /\ Len(r) = Len(index) /\ Moved(t, r)
    BY <1>6, <2>2, AnyTrim
  <2>4. \A i \in 1 .. Len(index) : r[i].op = "carve"
    BY <2>2 DEF Carves
  <2>5. Rangeless(r)
    BY <2>3, <2>4 DEF Rangeless
  <2> QED
    BY <1>2, <2>1, <2>3, <2>5
<1>7. CASE Unindex(t)
  <2>1. Does(t, "unindex")
    BY <1>7 DEF Unindex
  <2>2. PICK r : r = Emptied
    OBVIOUS
  <2>3. Moved(t, r)
    BY <1>7, <2>2, AnyUnindex
  <2>4. r \in Seq(Ops) /\ Rangeless(r)
    <3>1. CASE r = <<>>
      BY <1>0, <3>1
    <3>2. CASE r = <<[op |-> "dropfh"]>>
      <4>1. [op |-> "dropfh"] \in Ops /\ [op |-> "dropfh"].op = "dropfh"
        BY BareOp DEF BareOps
      <4>2. r \in Seq(Ops) /\ Len(r) = 1 /\ r[1].op = "dropfh"
        BY <3>2, <4>1
      <4> QED
        BY <4>2 DEF Rangeless
    <3> QED
      BY <2>2, <3>1, <3>2 DEF Emptied
  <2> QED
    BY <1>2, <2>1, <2>3, <2>4
<1>8. CASE Strip(t)
  <2>1. Does(t, "strip")
    BY <1>8 DEF Strip
  <2>2. PICK r : r = Strips(thr[t].client)
    OBVIOUS
  <2>3. r \in Seq(Ops) /\ \A i \in 1 .. Len(r) : r[i].op = "remove"
    BY <1>1, <2>2, StripsAre
  <2>4. Moved(t, r) /\ Rangeless(r)
    BY <1>8, <2>2, <2>3, AnyStrip DEF Rangeless
  <2> QED
    BY <1>2, <2>1, <2>3, <2>4
<1>9. CASE Remove(t)
  <2>1. Does(t, "remove") /\ NextOp(t).key \in Nat
    <3>1. Does(t, "remove")
      BY <1>9 DEF Remove
    <3>2. keyCtr \in Nat /\ NextOp(t).key \in 1 .. keyCtr - 1
      BY <1>1, <3>1, HeadIs DEF OpOK, KeyOps, TablesOK
    <3> QED
      BY <3>1, <3>2
  <2>2. PICK r : r = Removal(NextOp(t).key)
    OBVIOUS
  <2>3. /\ r \in Seq(Ops) /\ Len(r) = 2 /\ r[1].op = "unindex" /\ r[2].op = "unrow"
    BY <2>1, <2>2, RemovalIs
  <2>4. Rangeless(r)
    <3>1. \A i \in 1 .. 2 : i = 1 \/ i = 2
      OBVIOUS
    <3> QED
      BY <2>3, <3>1 DEF Rangeless
  <2>5. Moved(t, r) \/ Moved(t, <<>>)
    BY <1>9, <2>2, AnyRemove
  <2> QED
    BY <1>0, <1>2, <2>1, <2>3, <2>4, <2>5
<1> QED
  BY <1>3, <1>4, <1>5, <1>6, <1>7, <1>8, <1>9 DEF Step

LEMMA PlainOthers ==
  ASSUME AnyInv, PlainOK, NEW t \in Threads, Step(t), ~ Check(t), ~ Carve(t), ~ Insert(t)
  PROVE  PlainThreads'
<1>1. ThreadsOK /\ PlainThreads /\ Turned(t)
  BY OthersTurn DEF AnyInv, PlainOK
<1>2. CASE Took(t, Idle)
  BY <1>1, <1>2, PlainNone, PlainTook
<1>3. CASE Todo(t) # <<>> /\ \E ops \in Seq(Ops) : Rangeless(ops) /\ Shifted(t, ops) /\ SameRange(t)
  BY <1>1, <1>3, PlainFree, PlainShift
<1> QED
  BY <1>1, <1>2, <1>3 DEF Turned

(* The lock rows of e are rows of d. *)
FewerRows(e, d) ==
    \A k \in Nat : LockRow(e, k) => LockRow(d, k) /\ e[<<"lock", k>>] = d[<<"lock", k>>]

LEMMA FewerSame ==
  ASSUME NEW d, NEW e, SameLockRows(d, e)
  PROVE  FewerRows(e, d)
BY DEF FewerRows, SameLockRows

(* Only the row of add_lock adds a lock to the database. *)
LEMMA StepRows ==
  ASSUME AnyInv, NEW t \in Threads, Step(t)
  PROVE  /\ UNCHANGED disk
         /\ ~ Row(t) => FewerRows(rows', rows)
<1>1. UNCHANGED disk
  BY DEF Step, Check, Allocate, Register, Trim, Carve, Unindex, DropFh, Unrow, Insert, Push, Row,
     Reply, DropSessions, DropRecord, Strip, Remove, Purge, Retired
<1>2. CASE UNCHANGED rows
  BY <1>1, <1>2 DEF FewerRows
<1>3. CASE Allocate(t)
  <2>1. rows' = Put(rows, <<"stateid", sidCtr>>, ClientOf[thr[t].owner])
    BY <1>3 DEF Allocate
  <2> QED
    BY <1>1, <2>1, SameRowsPut, FewerSame
<1>4. CASE Register(t)
  <2>1. rows' = Put(rows, <<"owner", thr[t].sid>>, thr[t].owner)
    BY <1>4 DEF Register
  <2> QED
    BY <1>1, <2>1, SameRowsPut, FewerSame
<1>5. CASE \E X : rows' = Del(rows, X)
  BY <1>1, <1>5, RowsFewer DEF FewerRows
<1>6. CASE DropSessions(t) \/ DropRecord(t) \/ Purge(t) \/ Unrow(t)
  BY <1>5, <1>6 DEF DropSessions, DropRecord, Purge, Unrow
<1>7. \/ Allocate(t) \/ Register(t) \/ Row(t) \/ UNCHANGED rows
      \/ DropSessions(t) \/ DropRecord(t) \/ Purge(t) \/ Unrow(t)
  BY DEF Step, Check, Trim, Carve, Unindex, DropFh, Insert, Push, Reply, Strip, Remove, Retired
<1> QED
  BY <1>1, <1>2, <1>3, <1>4, <1>6, <1>7

LEMMA PlainRow ==
  ASSUME AnyInv, PlainOK, NEW t \in Threads, Row(t)
  PROVE  PlainRows(rows')
<1>1. ThreadsOK /\ PlainThreads /\ PlainRows(rows) /\ Does(t, "row")
  BY DEF AnyInv, PlainOK, Row
<1>2. PICK q : q = Todo(t)
  OBVIOUS
<1>3. PlainOps(q) /\ 1 \in 1 .. Len(q) /\ q[1].op = "row" /\ NextOp(t) = q[1]
  BY <1>1, <1>2, HeadIs, PlainTodo
<1>4. Plain(q[1].val.range)
  BY <1>3 DEF PlainOps
<1>5. PICK j : j = <<"lock", q[1].key>>
  OBVIOUS
<1>6. rows' = Put(rows, j, q[1].val)
  BY <1>3, <1>5 DEF Row
<1>7. ASSUME NEW k \in Nat, LockRow(rows', k)
      PROVE  Plain(rows'[<<"lock", k>>].range)
  <2>1. CASE <<"lock", k>> = j
    BY <1>4, <1>6, <2>1, PutSame
  <2>2. CASE <<"lock", k>> # j
    BY <1>1, <1>6, <1>7, <2>2, PutOther DEF PlainRows, LockRow
  <2> QED
    BY <2>1, <2>2
<1> QED
  BY <1>7 DEF PlainRows

LEMMA PlainStep ==
  ASSUME AnyInv, PlainOK, NEW t \in Threads, Step(t)
  PROVE  PlainOK'
<1>1. PlainLocks(locks) /\ PlainRows(rows) /\ PlainRows(disk)
  BY DEF PlainOK
<1>2. PlainThreads'
  BY PlainCheck, PlainCarve, PlainInsert, PlainOthers
<1>3. PlainLocks(locks')
  <2>1. CASE Carve(t) \/ Insert(t)
    BY <2>1, PlainCarve, PlainInsert
  <2>2. CASE Remove(t)
    <3>1. PICK X : locks' = Del(locks, X) \/ locks' = locks
      BY <2>2 DEF Remove, Forget
    <3> QED
      BY <1>1, <3>1, LocksFewer DEF PlainLocks
  <2>3. CASE UNCHANGED locks
    BY <1>1, <2>3
  <2> QED
    BY <2>1, <2>2, <2>3, OthersKeep
<1>4. PlainRows(disk')
  BY <1>1, StepRows
<1>5. PlainRows(rows')
  <2>1. CASE Row(t)
    BY <2>1, PlainRow
  <2>2. CASE ~ Row(t)
    BY <1>1, <2>2, StepRows, PlainSameRows DEF FewerRows
  <2> QED
    BY <2>1, <2>2
<1> QED
  BY <1>2, <1>3, <1>4, <1>5 DEF PlainOK

(* The ranges clients ask for end inside the file. *)
RangesEnd == \A r \in Ranges : Plain(r)

LEMMA RequestDisk ==
  ASSUME NEW t \in Threads, Request(t)
  PROVE  UNCHANGED disk
<1>1. ASSUME NEW o, NEW type, NEW r, Lock(t, o, type, r) \/ LockU(t, o, r)
      PROVE  UNCHANGED disk
  BY <1>1 DEF Lock, LockU
<1>2. ASSUME NEW o, NEW type, NEW r, Reclaim(t, o, type, r)
      PROVE  UNCHANGED disk
  BY <1>2 DEF Reclaim
<1>3. ASSUME NEW o, FreeStateId(t, o) PROVE UNCHANGED disk
  BY <1>3 DEF FreeStateId
<1>4. ASSUME NEW c, Sweep(t, c) \/ Cascade(t, c) \/ DestroyClientId(t, c) \/ Reconnect(t, c)
      PROVE  UNCHANGED disk
  BY <1>4 DEF Sweep, Cascade, DestroyClientId, Reconnect
<1> QED
  BY <1>1, <1>2, <1>3, <1>4 DEF Request

LEMMA PlainRequest ==
  ASSUME AnyInv, PlainOK, RangesEnd, NEW t \in Threads, Request(t)
  PROVE  PlainOK'
<1>1. PlainLocks(locks) /\ PlainThreads /\ PlainRows(rows) /\ PlainRows(disk)
  BY DEF PlainOK
<1>2. /\ UNCHANGED <<locks, index, keyCtr>> /\ SameLockRows(rows, rows')
      /\ \E W : Took(t, W) /\ W.todo \in Seq(Ops) /\ Bland(W.todo) /\ Fresh(W)
  BY RequestBegins DEF Begun
<1>3. PICK W : Took(t, W) /\ W.todo \in Seq(Ops) /\ Bland(W.todo) /\ Fresh(W)
  BY <1>2
<1>4. PlainOps(W.todo)
  BY <1>3 DEF PlainOps, Bland, Fresh
<1>5. PlainThreads'
  BY <1>1, <1>3, <1>4, PlainTook DEF Fresh, RangesEnd
<1>6. PlainRows(rows')
  BY <1>1, <1>2, FewerSame, PlainSameRows DEF FewerRows
<1> QED
  BY <1>1, <1>2, <1>5, <1>6, RequestDisk DEF PlainOK

LEMMA PlainLoad ==
  ASSUME AnyInv, NEW d, DbOK(d, keyCtr, sidCtr), PlainRows(d), Load(d)
  PROVE  PlainOK'
<1>1. \A n : n \in RowsOf(d, "lock") <=> <<"lock", n>> \in DOMAIN d
  BY RowsOfIs
<1>2. /\ locks' = [k \in RowsOf(d, "lock") |-> d[<<"lock", k>>]]
      /\ rows' = d /\ disk' = d /\ thr' = [t \in Threads |-> Idle]
  BY DEF Load
<1>3. keyCtr \in Nat
  BY DEF AnyInv, TablesOK
<1>4. \A n \in RowsOf(d, "lock") : n \in Nat /\ LockRow(d, n)
  <2>1. \A n \in RowsOf(d, "lock") : <<"lock", n>> \in DOMAIN d /\ n \in 1 .. keyCtr - 1
    BY <1>1, RowIs
  <2>2. \A n \in 1 .. keyCtr - 1 : n \in Nat
    BY <1>3
  <2> QED
    BY <2>1, <2>2 DEF LockRow
<1>5. PlainLocks(locks')
  BY <1>2, <1>4 DEF PlainLocks, PlainRows
<1>6. PlainThreads'
  BY <1>2, PlainNone DEF PlainThreads, Todo
<1> QED
  BY <1>2, <1>5, <1>6 DEF PlainOK

LEMMA PlainNext ==
  ASSUME AnyInv, PlainOK, RangesEnd, [Next]_vars
  PROVE  PlainOK'
<1>1. PlainLocks(locks) /\ PlainThreads /\ PlainRows(rows) /\ PlainRows(disk)
  BY DEF PlainOK
<1>2. CASE Restart
  <2>1. DbOK(rows, keyCtr, sidCtr) /\ Load(rows)
    BY <1>2 DEF AnyInv, Restart
  <2> QED
    BY <1>1, <2>1, PlainLoad
<1>3. CASE Crash
  <2>1. DbOK(disk, keyCtr, sidCtr) /\ Load(disk)
    BY <1>3 DEF AnyInv, Crash
  <2> QED
    BY <1>1, <2>1, PlainLoad
<1>4. CASE UNCHANGED <<locks, thr, rows>> /\ disk' \in {disk, rows}
  BY <1>1, <1>4 DEF PlainOK, PlainThreads, Todo
<1>5. (\E o \in Owners : StateIdLost(o)) \/ Commit \/ GraceEnds \/ UNCHANGED vars =>
         UNCHANGED <<locks, thr, rows>> /\ disk' \in {disk, rows}
  BY DEF StateIdLost, Commit, GraceEnds, mem, vars
<1> QED
  BY <1>2, <1>3, <1>4, <1>5, PlainStep, PlainRequest DEF Next

LEMMA PlainInit == Init => PlainOK
<1> SUFFICES ASSUME Init PROVE PlainOK
  OBVIOUS
<1>1. DOMAIN locks = {} /\ thr = [t \in Threads |-> Idle] /\ disk = rows
  BY DEF Init
<1>2. \A k : ~ LockRow(rows, k)
  BY DEF Init, LockRow
<1>3. PlainThreads
  BY <1>1, PlainNone DEF PlainThreads, Todo
<1> QED
  BY <1>1, <1>2, <1>3 DEF PlainOK, PlainLocks, PlainRows

LEMMA PlainAlways ==
  ASSUME RangesEnd
  PROVE  Spec => []PlainOK
<1>1. Init => PlainOK
  BY PlainInit
<1>2. AnyInv /\ PlainOK /\ [Next]_vars => PlainOK'
  BY PlainNext
<1> QED
  BY <1>1, <1>2, TablesAlwaysOK, PTL DEF Spec

-----------------------------------------------------------------------------
(* Two owners and one byte. *)

LEMMA EndIs ==
  ASSUME NEW r \in Range64
  PROVE  r.offset \in Nat /\ End(r) \in Nat
<1>1. 2 ^ Width \in Int
  BY WidthAssumption
<1>2. r.offset \in Nat /\ r.length \in Nat /\ TO_EOF \in Nat
  BY <1>1 DEF Range64, U64, TO_EOF
<1> QED
  BY <1>2 DEF End, SaturatingAdd

(* Ranges with a byte in common overlap as check_conflicts sees it. *)
LEMMA SharedOverlap ==
  ASSUME NEW a \in Range64, NEW b \in Range64, Bytes(a) \cap Bytes(b) # {}
  PROVE  Overlaps(a, b)
<1>1. PICK i \in U64 : a.offset <= i /\ i < End(a) /\ b.offset <= i /\ i < End(b)
  BY DEF Bytes
<1>2. 2 ^ Width \in Int /\ i \in Nat
  BY WidthAssumption DEF U64
<1> QED
  BY <1>1, <1>2, EndIs DEF Overlaps

LEMMA CompatSymmetric ==
  ASSUME NEW a, NEW b, Compatible(a, b)
  PROVE  Compatible(b, a)
BY DEF Compatible

LEMMA CompatNarrow ==
  ASSUME NEW a, NEW b, NEW v, Compatible(a, b), v.owner = a.owner, v.type = a.type,
         Bytes(v.range) \subseteq Bytes(a.range)
  PROVE  Compatible(v, b)
BY DEF Compatible

(* The locks of M are locks of L. *)
FewerLocks(M, L) == \A k \in DOMAIN M : k \in DOMAIN L /\ M[k] = L[k]

LEMMA ClaimsFewer ==
  ASSUME NEW q, NEW L, NEW M, FewerLocks(M, L), Claims(q, L)
  PROVE  Claims(q, M)
BY DEF Claims, FewerLocks

LEMMA PairsFewer ==
  ASSUME NEW L, NEW M, FewerLocks(M, L), PairsOK(L)
  PROVE  PairsOK(M)
BY DEF PairsOK, FewerLocks

LEMMA CompatFewer ==
  ASSUME NEW d, NEW e, FewerRows(e, d), RowsCompatible(d)
  PROVE  RowsCompatible(e)
BY DEF RowsCompatible, FewerRows

LEMMA ClaimsJoin ==
  ASSUME NEW ops \in Seq(Ops), NEW q \in Seq(Ops), q # <<>>, NEW L, Claims(ops, L), Claims(q, L)
  PROVE  Claims(ops \o Tail(q), L)
<1> DEFINE r == ops \o Tail(q)
<1>1. /\ Len(q) \in Nat /\ Len(q) >= 1 /\ Len(ops) \in Nat /\ Len(r) = Len(ops) + Len(q) - 1
      /\ \A i \in 1 .. Len(ops) + Len(q) - 1 :
               r[i] = IF i <= Len(ops) THEN ops[i] ELSE q[i - Len(ops) + 1]
  BY Joined
<1> HIDE DEF r
<1>2. ASSUME NEW i \in 1 .. Len(r)
      PROVE  (\E j \in 1 .. Len(ops) : r[i] = ops[j]) \/ (\E j \in 1 .. Len(q) : r[i] = q[j])
  <2>1. CASE i <= Len(ops)
    BY <1>1, <2>1
  <2>2. CASE i > Len(ops)
    <3>1. i - Len(ops) + 1 \in 1 .. Len(q) /\ r[i] = q[i - Len(ops) + 1]
      BY <1>1, <2>2
    <3> QED
      BY <3>1
  <2> QED
    BY <1>1, <2>1, <2>2
<1>3. Claims(r, L)
  BY <1>2 DEF Claims
<1> QED
  BY <1>3 DEF r

LEMMA ClaimsShift ==
  ASSUME ThreadsOK, AllClaims(locks), FewerLocks(locks', locks), NEW t \in Threads,
         Todo(t) # <<>>, NEW ops \in Seq(Ops), Claims(ops, locks'), Shifted(t, ops)
  PROVE  AllClaims(locks)'
<1>1. PICK q : q = Todo(t)
  OBVIOUS
<1>2. PICK M : M = locks'
  OBVIOUS
<1>3. q \in Seq(Ops) /\ q # <<>> /\ Claims(q, M) /\ Claims(ops, M)
  BY <1>1, <1>2, TodoIs, ClaimsFewer DEF AllClaims
<1>4. Claims(ops \o Tail(q), M)
  BY <1>3, ClaimsJoin
<1>5. Todo(t)' = ops \o Tail(q) /\ \A u \in Threads \ {t} : Todo(u)' = Todo(u)
  BY <1>1 DEF Shifted, Todo
<1>6. \A u \in Threads : Claims(Todo(u), M)
  BY <1>2, ClaimsFewer DEF AllClaims
<1>7. \A u \in Threads : Claims(Todo(u)', M)
  BY <1>4, <1>5, <1>6
<1> QED
  BY <1>2, <1>7 DEF AllClaims

LEMMA ClaimsTook ==
  ASSUME AllClaims(locks), UNCHANGED locks, NEW t \in Threads, NEW W, Took(t, W),
         \A i \in 1 .. Len(W.todo) : W.todo[i].op # "insert"
  PROVE  AllClaims(locks)'
<1>1. PICK M : M = locks'
  OBVIOUS
<1>2. Todo(t)' = W.todo /\ \A u \in Threads \ {t} : Todo(u)' = Todo(u)
  BY DEF Took, Todo
<1>3. Claims(W.todo, M)
  BY DEF Claims
<1>4. \A u \in Threads : Claims(Todo(u)', M)
  BY <1>1, <1>2, <1>3 DEF AllClaims
<1> QED
  BY <1>1, <1>4 DEF AllClaims

(* check_conflicts has looked at every lock there is. *)
LEMMA ClaimsCheck ==
  ASSUME AnyInv, OneInv, ~ overlap, AllClaims(locks), NEW t \in Threads, Check(t)
  PROVE  AllClaims(locks)'
<1>1. ThreadsOK /\ TablesOK /\ Does(t, "check") /\ UNCHANGED locks
  BY DEF Check, AnyInv, mem
<1>2. CASE thr' = [thr EXCEPT ![t] = Idle]
  <2>1. Took(t, Idle)
    BY <1>1, <1>2, EndsTook
  <2> QED
    BY <1>1, <2>1, ClaimsTook, IdleFresh DEF Fresh
<1>3. CASE ~ ConflictFor(thr[t].owner, thr[t].type, thr[t].range) /\ Moved(t, Granted(t))
  <2>1. /\ OneAt(t) /\ Todo(t) \in Seq(Ops) /\ Todo(t) # <<>> /\ Todo(t)[1].op = "check"
    BY <1>1, OneDoes
  <2>2. \A k \in DOMAIN locks : k \in 1 .. keyCtr - 1 /\ locks[k] \in LockVals
    BY <1>1 DEF TablesOK
  <2>3. \A k \in DOMAIN locks : \E i \in 1 .. Len(index) : index[i] = k
    BY <2>1, <2>2 DEF OneAt, Exact, Lists, Pushing
  <2>4. thr[t] \in Asks
    <3>1. "check" \notin RetireOps
      BY DEF RetireOps
    <3> QED
      BY <1>1, <3>1, HeadIs, AskHead
  <2>5. PICK v : v = [owner |-> thr[t].owner, type |-> thr[t].type, range |-> thr[t].range]
    OBVIOUS
  <2>6. v.owner = thr[t].owner /\ v.type = thr[t].type /\ v.range = thr[t].range /\ v.range \in Range64
    BY <2>4, <2>5 DEF Asks
  <2>7. ASSUME NEW k \in DOMAIN locks
        PROVE  Compatible(v, locks[k])
    <3>1. PICK i \in 1 .. Len(index) : index[i] = k
      BY <2>3
    <3>2. OwnedBy(k, v.owner) \/ ~ ConflictsWith(v.range, locks[k].range, v.type, locks[k].type)
      BY <1>3, <2>6, <3>1 DEF ConflictFor
    <3>3. locks[k].range \in Range64
      BY <2>2 DEF LockVals
    <3>4. Bytes(v.range) \cap Bytes(locks[k].range) # {} => Overlaps(v.range, locks[k].range)
      BY <2>6, <3>3, SharedOverlap
    <3> QED
      BY <3>2, <3>4 DEF Compatible, OwnedBy, ConflictsWith
  <2>8. PICK r : r = Granted(t)
    OBVIOUS
  <2>9. r \in Seq(Ops) /\ \A i \in 1 .. Len(r) : r[i].op = "insert" => r[i].lock = v
    BY <1>1, <2>5, <2>8, GrantedIs
  <2>10. Claims(r, locks')
    BY <1>1, <2>7, <2>9 DEF Claims
  <2>11. FewerLocks(locks', locks)
    BY <1>1 DEF FewerLocks
  <2>12. Shifted(t, r)
    BY <1>3, <2>8, MovedIs
  <2> QED
    BY <1>1, <2>1, <2>9, <2>10, <2>11, <2>12, ClaimsShift
<1> QED
  BY <1>2, <1>3, AnyCheck

(* The survivors of a carve claim no byte their lock did not. *)
LEMMA ClaimsCarve ==
  ASSUME AnyInv, PlainOK, PairsOK(locks), AllClaims(locks), NEW t \in Threads, Carve(t)
  PROVE  AllClaims(locks)' /\ FewerLocks(locks', locks)
<1>1. /\ ThreadsOK /\ TablesOK /\ PlainThreads /\ PlainLocks(locks) /\ Does(t, "carve")
      /\ thr[t].kind \in {"lock", "locku"}
  BY AnyCarve DEF AnyInv, PlainOK, Carve
<1>2. Todo(t) # <<>>
  BY <1>1, HeadIs
<1>3. PICK k : k = NextOp(t).key
  OBVIOUS
<1>4. CASE UNCHANGED locks /\ Moved(t, <<>>)
  <2>1. FewerLocks(locks', locks)
    BY <1>4 DEF FewerLocks
  <2>2. Claims(<<>>, locks')
    BY DEF Claims
  <2> QED
    BY <1>1, <1>2, <1>4, <2>1, <2>2, MovedIs, NoneBland, ClaimsShift
<1>5. CASE /\ k \in DOMAIN locks /\ Overlaps(locks[k].range, thr[t].range)
           /\ locks' = Del(locks, {k}) /\ Moved(t, Cut(t, k))
  <2>1. PICK held : held = locks[k]
    OBVIOUS
  <2>2. PICK cut : cut = thr[t].range
    OBVIOUS
  <2>3. held \in LockVals /\ Plain(held.range) /\ Plain(cut) /\ Overlaps(held.range, cut) /\ cut \in Range64
    BY <1>1, <1>5, <2>1, <2>2 DEF TablesOK, PlainLocks, PlainThreads, Plain
  <2>4. keyCtr \in Nat /\ k \in 1 .. keyCtr - 1
    BY <1>1, <1>5 DEF TablesOK
  <2>5. k \in Nat
    BY <2>4
  <2>6. PICK S : S = Survivors(held, cut)
    OBVIOUS
  <2>7. Inserts(S)
    BY <2>3, <2>6, SurvivorsAre DEF Inserts
  <2>8. \A i \in 1 .. Len(S) : /\ S[i].lock.owner = held.owner /\ S[i].lock.type = held.type
                               /\ Bytes(S[i].lock.range) \subseteq Bytes(held.range)
    BY <2>3, <2>6, CutNarrows
  <2>9. PICK r : r = Removal(k) \o S
    OBVIOUS
  <2>10. /\ r \in Seq(Ops) /\ Len(r) = Len(S) + 2 /\ Len(S) \in Nat
         /\ r[1].op = "unindex" /\ r[2].op = "unrow"
         /\ \A i \in 3 .. Len(r) : i - 2 \in 1 .. Len(S) /\ r[i] = S[i - 2]
    <3>1. CutShape(r, k, S)
      BY <2>5, <2>7, <2>9, CutIs
    <3> QED
      BY <3>1 DEF CutShape
  <2>11. FewerLocks(locks', locks)
    BY <1>5, LocksFewer DEF FewerLocks
  <2>12. PICK M : M = locks'
    OBVIOUS
  <2>13. \A j \in DOMAIN M : Compatible(held, M[j])
    BY <1>5, <2>1, <2>11, <2>12 DEF FewerLocks, PairsOK
  <2>14. \A i \in 1 .. Len(S) : \A j \in DOMAIN M : Compatible(S[i].lock, M[j])
    BY <2>8, <2>13, CompatNarrow
  <2>15. Claims(r, M)
    <3>1. \A i \in 1 .. Len(r) : i = 1 \/ i = 2 \/ i \in 3 .. Len(r)
      BY <2>10
    <3>2. \A i \in 1 .. Len(r) : r[i].op = "insert" => i \in 3 .. Len(r)
      BY <2>10, <3>1
    <3>3. \A i \in 3 .. Len(r) : \A j \in DOMAIN M : Compatible(r[i].lock, M[j])
      BY <2>10, <2>14
    <3> QED
      BY <3>2, <3>3 DEF Claims
  <2>16. Shifted(t, r)
    <3>1. Moved(t, r)
      BY <1>5, <2>1, <2>2, <2>6, <2>9 DEF Cut
    <3> QED
      BY <3>1, MovedIs
  <2> QED
    BY <1>1, <1>2, <2>10, <2>11, <2>12, <2>15, <2>16, ClaimsShift
<1> QED
  BY <1>1, <1>3, <1>4, <1>5, AnyCarve

(* add_lock puts a claim into the table; the thread's other claims are the *)
(* same owner's, and no other thread has one.                              *)
LEMMA ClaimsInsert ==
  ASSUME AnyInv, OneInv, ~ overlap, PairsOK(locks), AllClaims(locks), NEW t \in Threads, Insert(t)
  PROVE  PairsOK(locks') /\ AllClaims(locks)'
<1>1. PICK v : v = NextOp(t).lock
  OBVIOUS
<1>2. PICK n : n = keyCtr
  OBVIOUS
<1>3. /\ v \in LockVals /\ locks' = Put(locks, n, v) /\ Moved(t, Inserting(n, v)) /\ Does(t, "insert")
      /\ ThreadsOK /\ n \in Nat
  BY <1>1, <1>2, AnyInsert DEF Insert, AnyInv, TablesOK
<1>4. PICK q : q = Todo(t)
  OBVIOUS
<1>5. /\ q # <<>> /\ NextOp(t) = q[1] /\ q[1].op = "insert" /\ q \in Seq(Ops)
      /\ 1 \in 1 .. Len(q) /\ OneAt(t)
  BY <1>3, <1>4, HeadIs, OneDoes
<1>6. PICK M : M = locks'
  OBVIOUS
<1>7. /\ DOMAIN M = DOMAIN locks \cup {n} /\ M[n] = v
      /\ \A k \in DOMAIN locks : k # n => M[k] = locks[k]
  BY <1>3, <1>6 DEF Put
<1>8. Claims(q, locks)
  BY <1>4 DEF AllClaims
<1>9. \A k \in DOMAIN locks : Compatible(v, locks[k])
  BY <1>1, <1>5, <1>8 DEF Claims
<1>10. \A i \in 1 .. Len(q) : q[i].op = "insert" => q[i].lock.owner = thr[t].owner
  BY <1>3, <1>4 DEF ThreadsOK, WorkOK, OpOK, Todo
<1>11. \A i \in 1 .. Len(q) : q[i].op = "insert" => Compatible(q[i].lock, v)
  BY <1>1, <1>5, <1>10 DEF Compatible
<1>12. PairsOK(M)
  <2> SUFFICES ASSUME NEW j \in DOMAIN M, NEW k \in DOMAIN M PROVE Compatible(M[j], M[k])
    BY DEF PairsOK
  <2>1. Compatible(v, v)
    BY DEF Compatible
  <2>2. CASE j = n
    BY <1>7, <1>9, <2>1, <2>2
  <2>3. CASE j # n
    BY <1>7, <1>9, <2>3, CompatSymmetric DEF PairsOK
  <2> QED
    BY <2>2, <2>3
<1>13. Claims(q, M)
  BY <1>7, <1>8, <1>11 DEF Claims
<1>14. PICK r : r = Inserting(n, v)
  OBVIOUS
<1>15. r \in Seq(Ops) /\ Len(r) = 2 /\ r[1].op = "push" /\ r[2].op = "row"
  BY <1>3, <1>14, InsertingIs
<1>16. Claims(r, M)
  <2>1. \A i \in 1 .. 2 : i = 1 \/ i = 2
    OBVIOUS
  <2> QED
    BY <1>15, <2>1 DEF Claims
<1>17. Claims(r \o Tail(q), M)
  BY <1>5, <1>13, <1>15, <1>16, ClaimsJoin
<1>18. Todo(t)' = r \o Tail(q) /\ \A u \in Threads \ {t} : Todo(u)' = <<>>
  BY <1>3, <1>4, <1>5, <1>14 DEF Moved, Todo, OneAt, Alone, Idle
<1>19. Claims(<<>>, M)
  BY DEF Claims
<1>20. \A u \in Threads : Claims(Todo(u)', M)
  BY <1>17, <1>18, <1>19
<1> QED
  BY <1>6, <1>12, <1>20 DEF AllClaims

(* Once the row of an entry is captured the lock rows are the table's. *)
LEMMA ClaimsRow ==
  ASSUME AnyInv, OneInv, ~ overlap, PairsOK(locks), NEW t \in Threads, Row(t)
  PROVE  RowsCompatible(rows')
<1>1. Does(t, "row") /\ Moved(t, <<>>) /\ UNCHANGED <<locks, keyCtr>> /\ AnyInv'
  BY AnyRow DEF Row, mem
<1>2. PICK q : q = Todo(t)
  OBVIOUS
<1>3. q \in Seq(Ops) /\ q # <<>> /\ ListOK(q) /\ q[1].op = "row"
  BY <1>1, <1>2, OneDoes
<1>4. PICK r : r = <<>> \o Tail(q)
  OBVIOUS
<1>5. Bland(r) /\ r \in Seq(Ops)
  BY <1>3, <1>4, NoneBland, BlandJoin
<1>6. Todo(t)' = r
  BY <1>1, <1>2, <1>4 DEF Moved, Todo
<1>7. OneAt(t)'
  BY OneRow
<1>8. PICK d : d = rows'
  OBVIOUS
<1>9. Mirrors(r, locks, d, keyCtr)
  BY <1>1, <1>6, <1>7, <1>8 DEF OneAt, Exact
<1>10. DbOK(d, keyCtr, sidCtr')
  BY <1>1, <1>8 DEF AnyInv
<1>11. \A k \in Nat : LockRow(d, k) => k \in 1 .. keyCtr - 1
  BY <1>10, RowIs DEF LockRow
<1>12. \A k \in Nat : LockRow(d, k) => k \in DOMAIN locks /\ d[<<"lock", k>>] = locks[k]
  BY <1>5, <1>9, <1>11, BlandNone DEF Mirrors
<1>13. RowsCompatible(d)
  BY <1>12 DEF RowsCompatible, PairsOK
<1> QED
  BY <1>8, <1>13

LEMMA ClaimsOthers ==
  ASSUME AnyInv, AllClaims(locks), FewerLocks(locks', locks), NEW t \in Threads, Turned(t)
  PROVE  AllClaims(locks)'
<1>1. ThreadsOK
  BY DEF AnyInv
<1>2. CASE Took(t, Idle)
  <2>1. PICK M : M = locks'
    OBVIOUS
  <2>2. \A u \in Threads : Claims(Todo(u), M)
    BY <2>1, ClaimsFewer DEF AllClaims
  <2>3. Claims(<<>>, M)
    BY DEF Claims
  <2>4. \A u \in Threads : Todo(u)' = Todo(u) \/ Todo(u)' = <<>>
    BY <1>2 DEF Took, Todo, Idle
  <2>5. \A u \in Threads : Claims(Todo(u)', M)
    BY <2>2, <2>3, <2>4
  <2> QED
    BY <2>1, <2>5 DEF AllClaims
<1>3. CASE Todo(t) # <<>> /\ \E ops \in Seq(Ops) : Rangeless(ops) /\ Shifted(t, ops) /\ SameRange(t)
  <2>1. PICK ops \in Seq(Ops) : Rangeless(ops) /\ Shifted(t, ops)
    BY <1>3
  <2>2. Claims(ops, locks')
    BY <2>1 DEF Claims, Rangeless
  <2> QED
    BY <1>1, <1>3, <2>1, <2>2, ClaimsShift
<1> QED
  BY <1>2, <1>3 DEF Turned

(* A step of the one request that is being worked on. *)
LEMMA ClaimsStep ==
  ASSUME AnyInv, OneInv, PlainOK, ClaimsOK, ~ overlap, NEW t \in Threads, Step(t)
  PROVE  /\ PairsOK(locks') /\ AllClaims(locks)' /\ RowsCompatible(rows') /\ RowsCompatible(disk')
<1>1. PairsOK(locks) /\ AllClaims(locks) /\ RowsCompatible(rows) /\ RowsCompatible(disk)
  BY DEF ClaimsOK
<1>2. RowsCompatible(rows') /\ RowsCompatible(disk')
  BY <1>1, StepRows, CompatFewer, ClaimsRow
<1>3. CASE Insert(t)
  BY <1>1, <1>2, <1>3, ClaimsInsert
<1>4. CASE Carve(t)
  BY <1>1, <1>2, <1>4, ClaimsCarve, PairsFewer
<1>5. CASE Check(t)
  <2>1. UNCHANGED locks
    BY <1>5 DEF Check, mem
  <2> QED
    BY <1>1, <1>2, <1>5, <2>1, ClaimsCheck
<1>6. CASE ~ Insert(t) /\ ~ Carve(t) /\ ~ Check(t)
  <2>1. FewerLocks(locks', locks)
    <3>1. CASE Remove(t)
      <4>1. PICK X : locks' = Del(locks, X) \/ locks' = locks
        BY <3>1 DEF Remove, Forget
      <4> QED
        BY <4>1, LocksFewer DEF FewerLocks
    <3>2. CASE UNCHANGED locks
      BY <3>2 DEF FewerLocks
    <3> QED
      BY <1>6, <3>1, <3>2, OthersKeep
  <2>2. Turned(t)
    BY <1>6, OthersTurn
  <2> QED
    BY <1>1, <1>2, <2>1, <2>2, ClaimsOthers, PairsFewer
<1> QED
  BY <1>3, <1>4, <1>5, <1>6

LEMMA ClaimsRequest ==
  ASSUME AnyInv, ClaimsOK, ~ overlap, NEW t \in Threads, Request(t)
  PROVE  /\ PairsOK(locks') /\ AllClaims(locks)' /\ RowsCompatible(rows') /\ RowsCompatible(disk')
<1>1. PairsOK(locks) /\ AllClaims(locks) /\ RowsCompatible(rows) /\ RowsCompatible(disk)
  BY DEF ClaimsOK
<1>2. /\ UNCHANGED <<locks, index, keyCtr>> /\ SameLockRows(rows, rows')
      /\ \E W : Took(t, W) /\ W.todo \in Seq(Ops) /\ Bland(W.todo) /\ Fresh(W)
  BY RequestBegins DEF Begun
<1>3. AllClaims(locks)'
  BY <1>1, <1>2, ClaimsTook DEF Fresh
<1>4. RowsCompatible(rows')
  BY <1>1, <1>2, FewerSame, CompatFewer
<1> QED
  BY <1>1, <1>2, <1>3, <1>4, RequestDisk

LEMMA ClaimsLoad ==
  ASSUME AnyInv, NEW d, DbOK(d, keyCtr, sidCtr), RowsCompatible(d), Load(d)
  PROVE  ClaimsOK'
<1>1. \A n : n \in RowsOf(d, "lock") <=> <<"lock", n>> \in DOMAIN d
  BY RowsOfIs
<1>2. /\ locks' = [k \in RowsOf(d, "lock") |-> d[<<"lock", k>>]]
      /\ rows' = d /\ disk' = d /\ thr' = [t \in Threads |-> Idle]
  BY DEF Load
<1>3. \A n \in RowsOf(d, "lock") : n \in Nat /\ LockRow(d, n)
  <2>1. \A n \in RowsOf(d, "lock") : <<"lock", n>> \in DOMAIN d /\ n \in 1 .. keyCtr - 1
    BY <1>1, RowIs
  <2>2. keyCtr \in Nat /\ \A n \in 1 .. keyCtr - 1 : n \in Nat
    BY DEF AnyInv, TablesOK
  <2> QED
    BY <2>1, <2>2 DEF LockRow
<1>4. PairsOK(locks')
  BY <1>2, <1>3 DEF PairsOK, RowsCompatible
<1>5. AllClaims(locks)'
  <2>1. \A t \in Threads : Todo(t)' = <<>>
    BY <1>2 DEF Todo, Idle
  <2>2. \A L : Claims(<<>>, L)
    BY DEF Claims
  <2> QED
    BY <2>1, <2>2 DEF AllClaims
<1> QED
  BY <1>2, <1>4, <1>5 DEF ClaimsOK

LEMMA ClaimsNext ==
  ASSUME AnyInv, OneInv, PlainOK, ClaimsOK, [Next]_vars
  PROVE  ClaimsOK'
<1> SUFFICES ASSUME ~ overlap' PROVE ClaimsOK'
  BY DEF ClaimsOK
<1>1. ~ overlap
  <2>1. CASE UNCHANGED overlap
    BY <2>1
  <2>2. CASE overlap' = (overlap \/ ~ Quiet)
    BY <2>2
  <2> QED
    BY <2>1, <2>2 DEF Next, vars
<1>2. PairsOK(locks) /\ AllClaims(locks) /\ RowsCompatible(rows) /\ RowsCompatible(disk)
  BY <1>1 DEF ClaimsOK
<1>3. CASE \E t \in Threads : Step(t)
  BY <1>1, <1>3, ClaimsStep DEF ClaimsOK
<1>4. CASE \E t \in Threads : Request(t)
  BY <1>1, <1>4, ClaimsRequest DEF ClaimsOK
<1>5. CASE Restart
  <2>1. DbOK(rows, keyCtr, sidCtr) /\ Load(rows)
    BY <1>5 DEF AnyInv, Restart
  <2> QED
    BY <1>2, <2>1, ClaimsLoad
<1>6. CASE Crash
  <2>1. DbOK(disk, keyCtr, sidCtr) /\ Load(disk)
    BY <1>6 DEF AnyInv, Crash
  <2> QED
    BY <1>2, <2>1, ClaimsLoad
<1>7. CASE UNCHANGED <<locks, thr, rows>> /\ disk' \in {disk, rows}
  <2>1. AllClaims(locks)'
    BY <1>2, <1>7 DEF AllClaims, Todo
  <2> QED
    BY <1>2, <1>7, <2>1 DEF ClaimsOK
<1>8. (\E o \in Owners : StateIdLost(o)) \/ Commit \/ GraceEnds \/ UNCHANGED vars =>
         UNCHANGED <<locks, thr, rows>> /\ disk' \in {disk, rows}
  BY DEF StateIdLost, Commit, GraceEnds, mem, vars
<1> QED
  BY <1>3, <1>4, <1>5, <1>6, <1>7, <1>8 DEF Next

LEMMA ClaimsInit == Init => ClaimsOK
<1> SUFFICES ASSUME Init PROVE ClaimsOK
  OBVIOUS
<1>1. DOMAIN locks = {} /\ thr = [t \in Threads |-> Idle] /\ disk = rows
  BY DEF Init
<1>2. \A k : ~ LockRow(rows, k)
  BY DEF Init, LockRow
<1> QED
  BY <1>1, <1>2 DEF ClaimsOK, PairsOK, AllClaims, Claims, RowsCompatible

(* Mutual exclusion of the byte-range locks, as long as the requests come  *)
(* one at a time: the conflict check of LOCK sees every entry, a carve     *)
(* gives its owner back no byte it did not have, and what a restart or a   *)
(* crash restores are locks that were compatible.  The ranges end inside   *)
(* the file: after a length of "to the end" from an offset past 0 the      *)
(* carve hands out bytes of others.                                        *)
THEOREM LocksExclude ==
  ASSUME RangesEnd
  PROVE  Spec => []Exclusive
<1>1. Init => ClaimsOK
  BY ClaimsInit
<1>2. AnyInv /\ OneInv /\ PlainOK /\ ClaimsOK /\ [Next]_vars => ClaimsOK'
  BY ClaimsNext
<1>3. ClaimsOK => Exclusive
  BY DEF ClaimsOK, PairsOK, Compatible, Exclusive
<1> QED
  BY <1>1, <1>2, <1>3, OneAlways, PlainAlways, PTL DEF Spec

-----------------------------------------------------------------------------
(* The stateids and the locks, one request at a time and nothing lost. *)

(* The work goes on as the same request. *)
Goes(W, X) ==
    /\ X.kind = W.kind
    /\ W.kind = "retire" => X.client = W.client
    /\ W.kind \in {"lock", "locku"} => X.asker = W.asker /\ X.owner = W.owner /\ X.sid = W.sid

(* Operations that neither mint, register nor purge. *)
Tame(q) ==
    \A i \in 1 .. Len(q) : q[i].op \notin {"check", "allocate", "register", "purge", "sessions"}

Past(q) == \A i \in 1 .. Len(q) : q[i].op \notin {"check", "allocate", "register", "sessions"}

LEMMA TameJoin ==
  ASSUME NEW ops \in Seq(Ops), NEW q \in Seq(Ops), q # <<>>, ListOK(q), Ordered(q), Tame(ops),
         q[1].op # "allocate"
  PROVE  /\ Past(ops \o Tail(q)) /\ Ordered(ops \o Tail(q))
         /\ q[1].op # "purge" /\ Has(q, "purge") => Has(ops \o Tail(q), "purge")
<1> DEFINE r == ops \o Tail(q)
<1>1. /\ Len(q) \in Nat /\ Len(q) >= 1 /\ Len(ops) \in Nat /\ Len(r) = Len(ops) + Len(q) - 1
      /\ \A i \in 1 .. Len(ops) + Len(q) - 1 :
               r[i] = IF i <= Len(ops) THEN ops[i] ELSE q[i - Len(ops) + 1]
  BY Joined
<1> HIDE DEF r
<1>2. \A i \in 1 .. Len(r) : i <= Len(ops) => i \in 1 .. Len(ops) /\ r[i] = ops[i]
  BY <1>1
<1>3. \A i \in 1 .. Len(r) : i > Len(ops) => i - Len(ops) + 1 \in 2 .. Len(q) /\ r[i] = q[i - Len(ops) + 1]
  BY <1>1
<1>4. \A i \in 2 .. Len(q) : q[i].op \notin {"check", "allocate", "register", "sessions"}
  <2>1. \A i \in 2 .. Len(q) : q[i].op \in LaterOps \cup {"row", "unrow"}
    BY <1>1 DEF ListOK
  <2>2. \A i \in 2 .. Len(q) : q[i].op # "register"
    BY DEF Ordered
  <2> QED
    BY <2>1, <2>2 DEF LaterOps
<1>5. ASSUME NEW i \in 1 .. Len(r)
      PROVE  r[i].op \notin {"check", "allocate", "register", "sessions"}
  <2>1. i <= Len(ops) \/ i > Len(ops)
    BY <1>1
  <2> QED
    BY <1>2, <1>3, <1>4, <2>1 DEF Tame
<1>6. ASSUME NEW i \in 1 .. Len(r), NEW j \in 1 .. Len(r), i < j, r[i].op = "purge"
      PROVE  r[j].op \notin {"strip", "remove"}
  <2>1. i > Len(ops)
    BY <1>1, <1>2, <1>6 DEF Tame
  <2>2. j > Len(ops) /\ i - Len(ops) + 1 < j - Len(ops) + 1
    BY <1>1, <1>6, <2>1
  <2>3. PICK a \in 1 .. Len(q) : a = i - Len(ops) + 1 /\ r[i] = q[a]
    BY <1>1, <1>3, <2>1
  <2>4. PICK b \in 1 .. Len(q) : b = j - Len(ops) + 1 /\ r[j] = q[b]
    BY <1>1, <1>3, <2>2
  <2>5. a < b
    BY <2>2, <2>3, <2>4
  <2> QED
    BY <1>6, <2>3, <2>4, <2>5 DEF Ordered
<1>7. Past(r)
  BY <1>5 DEF Past
<1>8. Ordered(r)
  <2>1. \A i \in 2 .. Len(r) : i \in 1 .. Len(r)
    BY <1>1
  <2>2. Len(r) \in Nat /\ (Len(r) >= 1 => 1 \in 1 .. Len(r))
    BY <1>1
  <2> QED
    BY <1>5, <1>6, <2>1, <2>2 DEF Ordered
<1>9. ASSUME q[1].op # "purge", Has(q, "purge")
      PROVE  Has(r, "purge")
  <2>1. PICK i \in 1 .. Len(q) : q[i].op = "purge"
    BY <1>9 DEF Has
  <2>2. i # 1
    BY <1>9, <2>1
  <2>3. i - 1 + Len(ops) \in 1 .. Len(r) /\ i - 1 + Len(ops) > Len(ops)
        /\ i - 1 + Len(ops) - Len(ops) + 1 = i
    BY <1>1, <2>2
  <2>4. r[i - 1 + Len(ops)] = q[i]
    BY <1>3, <2>3
  <2> QED
    BY <2>1, <2>3, <2>4 DEF Has
<1> QED
  BY <1>7, <1>8, <1>9 DEF r

(* What the list has to remove stays to be removed. *)
LEMMA ClearsJoin ==
  ASSUME NEW ops \in Seq(Ops), NEW q \in Seq(Ops), q # <<>>, NEW k, Clears(q, k),
         \/ q[1].op \notin {"strip", "remove"}
         \/ q[1].op = "remove" /\ q[1].key # k
         \/ Clears(ops, k)
  PROVE  Clears(ops \o Tail(q), k)
<1> DEFINE r == ops \o Tail(q)
<1>1. /\ Len(q) \in Nat /\ Len(q) >= 1 /\ Len(ops) \in Nat /\ Len(r) = Len(ops) + Len(q) - 1
      /\ \A i \in 1 .. Len(ops) + Len(q) - 1 :
               r[i] = IF i <= Len(ops) THEN ops[i] ELSE q[i - Len(ops) + 1]
  BY Joined
<1> HIDE DEF r
<1>2. \A i \in 1 .. Len(ops) : i \in 1 .. Len(r) /\ r[i] = ops[i]
  BY <1>1
<1>3. \A i \in 1 .. Len(q) : i # 1 => i - 1 + Len(ops) \in 1 .. Len(r) /\ r[i - 1 + Len(ops)] = q[i]
  <2> TAKE i \in 1 .. Len(q)
  <2> HAVE i # 1
  <2>1. PICK j : j = i - 1 + Len(ops)
    OBVIOUS
  <2>2. /\ j \in 1 .. Len(ops) + Len(q) - 1 /\ ~ (j <= Len(ops)) /\ j - Len(ops) + 1 = i
        /\ j \in 1 .. Len(r)
    BY <1>1, <2>1
  <2>3. r[j] = q[i]
    BY <1>1, <2>2
  <2> QED
    BY <2>1, <2>2, <2>3
<1>4. CASE Clears(ops, k)
  <2>1. Clears(r, k)
    BY <1>2, <1>4 DEF Clears
  <2> QED
    BY <2>1 DEF r
<1>5. CASE ~ (q[1].op = "strip" \/ (q[1].op = "remove" /\ q[1].key = k))
  <2>1. PICK i \in 1 .. Len(q) : q[i].op = "strip" \/ (q[i].op = "remove" /\ q[i].key = k)
    BY DEF Clears
  <2>2. i # 1
    BY <1>5, <2>1
  <2>3. Clears(r, k)
    BY <1>3, <2>1, <2>2 DEF Clears
  <2> QED
    BY <2>3 DEF r
<1> QED
  BY <1>4, <1>5

LEMMA MintedGoes ==
  ASSUME NEW W, NEW X, NEW O, NEW S, NEW n, Minted(W, O, S, n), Goes(W, X),
         Has(W.todo, "purge") => Has(X.todo, "purge")
  PROVE  Minted(X, O, S, n)
<1>1. \A c : Tears(X, c) <=> Tears(W, c)
  BY DEF Tears, Goes
<1> QED
  BY <1>1 DEF Minted

LEMMA SecuredGoes ==
  ASSUME NEW W, NEW X, NEW L, NEW M, NEW R, NEW K, NEW O, Secured(W, L, R, K, O), Goes(W, X),
         FewerLocks(M, L),
         \A k \in DOMAIN M : Tears(W, ClientOf[M[k].owner]) /\ Clears(W.todo, k) => Clears(X.todo, k)
  PROVE  Secured(X, M, R, K, O)
<1>1. \A c : Tears(X, c) <=> Tears(W, c)
  BY DEF Tears, Goes
<1> SUFFICES ASSUME NEW k \in DOMAIN M
             PROVE  IF Tears(X, ClientOf[M[k].owner])
                    THEN Clears(X.todo, k)
                    ELSE /\ ClientOf[M[k].owner] \in R
                         /\ \/ K[M[k].owner] # 0
                            \/ X.kind \in {"lock", "locku"} /\ Valid(X.sid, M[k].owner, O)
  BY DEF Secured
<1>2. k \in DOMAIN L /\ M[k] = L[k]
  BY DEF FewerLocks
<1> QED
  BY <1>1, <1>2 DEF Secured, Goes

LEMMA AskGoes ==
  ASSUME NEW W, NEW X, NEW V, NEW K, NEW O, NEW S, AskOK(W, V, K, O, S), Goes(W, X),
         X.todo \in Seq(Ops), Past(X.todo),
         ~ (Len(W.todo) >= 1 /\ W.todo[1].op \in {"check", "allocate", "register"})
  PROVE  AskOK(X, V, K, O, S)
<1> SUFFICES ASSUME X.kind \in {"lock", "locku"}
             PROVE  X.owner = X.asker /\ ClientOf[X.asker] \in V /\ SidOK(X, K, O, S)
  BY DEF AskOK
<1>1. W.kind \in {"lock", "locku"} /\ X.asker = W.asker /\ X.owner = W.owner /\ X.sid = W.sid
  BY DEF Goes
<1>2. W.owner = W.asker /\ ClientOf[W.asker] \in V /\ Valid(W.sid, W.owner, O)
  BY <1>1 DEF AskOK, SidOK
<1>3. Len(X.todo) >= 1 => X.todo[1].op \notin {"check", "allocate", "register"}
  BY DEF Past
<1> QED
  BY <1>1, <1>2, <1>3 DEF SidOK

LEMMA RetireGoes ==
  ASSUME NEW W, NEW X, NEW V, NEW K, RetireOK(W, V, K), Goes(W, X),
         ~ (Len(W.todo) >= 1 /\ W.todo[1].op = "sessions")
  PROVE  RetireOK(X, V, K)
BY DEF RetireOK, Goes

LEMMA MovedGoes ==
  ASSUME NEW t, NEW ops, Moved(t, ops)
  PROVE  Goes(thr[t], thr'[t]) /\ thr'[t].todo = ops \o Tail(thr[t].todo)
BY DEF Moved, Goes

(* A step that touches no stateid, no session and no record. *)
LEMMA HoldMoves ==
  ASSUME ThreadsOK, NEW t \in Threads, Holds(thr[t]), NEW o, Does(t, o),
         o \notin {"check", "allocate", "register", "sessions", "purge"},
         NEW ops \in Seq(Ops), Tame(ops), Moved(t, ops),
         UNCHANGED <<known, owners, states, sidCtr, live, recs>>, FewerLocks(locks', locks),
         \A k \in DOMAIN locks' :
            o \in {"strip", "remove"} /\ Tears(thr[t], ClientOf[locks'[k].owner]) =>
               Clears(ops, k) \/ (o = "remove" /\ k # NextOp(t).key)
  PROVE  Holds(thr[t])'
<1>1. PICK W : W = thr[t]
  OBVIOUS
<1>2. PICK X : X = thr'[t]
  OBVIOUS
<1>3. PICK M : M = locks'
  OBVIOUS
<1>4. PICK q : q = W.todo
  OBVIOUS
<1>5. /\ q \in Seq(Ops) /\ q # <<>> /\ ListOK(q) /\ q[1].op = o /\ NextOp(t) = q[1]
      /\ Len(q) \in Nat /\ Len(q) >= 1
  BY <1>1, <1>4, HeadIs, TodoIs DEF Todo
<1>6. /\ Knows(known, owners) /\ Minted(W, owners, states, sidCtr)
      /\ Secured(W, locks, recs, known, owners) /\ live \subseteq recs /\ Ordered(q)
      /\ AskOK(W, live, known, owners, states) /\ RetireOK(W, live, known)
  BY <1>1, <1>4 DEF Holds
<1>7. Goes(W, X) /\ X.todo = ops \o Tail(q)
  BY <1>1, <1>2, <1>4, MovedGoes
<1>8. /\ Past(X.todo) /\ Ordered(X.todo) /\ (Has(q, "purge") => Has(X.todo, "purge"))
  BY <1>5, <1>6, <1>7, TameJoin
<1>9. X.todo \in Seq(Ops)
  BY <1>5, <1>7, Joined
<1>10. Minted(X, owners, states, sidCtr)
  BY <1>4, <1>6, <1>7, <1>8, MintedGoes
<1>11. ASSUME NEW k \in DOMAIN M, Tears(W, ClientOf[M[k].owner]), Clears(q, k)
       PROVE  Clears(X.todo, k)
  <2>1. \/ q[1].op \notin {"strip", "remove"}
        \/ q[1].op = "remove" /\ q[1].key # k
        \/ Clears(ops, k)
    BY <1>1, <1>3, <1>5, <1>11
  <2> QED
    BY <1>5, <1>7, <1>11, <2>1, ClearsJoin
<1>12. Secured(X, M, recs, known, owners)
  BY <1>3, <1>4, <1>6, <1>7, <1>11, SecuredGoes
<1>13. ~ (Len(q) >= 1 /\ q[1].op \in {"check", "allocate", "register"}) /\ q[1].op # "sessions"
  BY <1>5
<1>14. AskOK(X, live, known, owners, states) /\ RetireOK(X, live, known)
  BY <1>4, <1>6, <1>7, <1>8, <1>9, <1>13, AskGoes, RetireGoes
<1> QED
  BY <1>2, <1>3, <1>6, <1>8, <1>10, <1>12, <1>14 DEF Holds

LEMMA FewerSelf == \A L : FewerLocks(L, L)
BY DEF FewerLocks

(* The map operations in progress, and the lists of keys to go through. *)
LEMMA HoldPlain ==
  ASSUME AnyInv, NEW t \in Threads, Holds(thr[t]),
         Trim(t) \/ Unindex(t) \/ DropFh(t) \/ Unrow(t) \/ Push(t) \/ Row(t)
  PROVE  Holds(thr[t])'
<1>1. ThreadsOK /\ TablesOK
  BY DEF AnyInv
<1>2. UNCHANGED <<locks, known, owners, states, sidCtr, live, recs>>
  BY DEF Trim, Unindex, DropFh, Unrow, Push, Row, mem
<1>3. ASSUME NEW o, Does(t, o),
             o \notin {"check", "allocate", "register", "sessions", "purge", "strip", "remove"},
             NEW ops \in Seq(Ops), Tame(ops), Moved(t, ops)
      PROVE  Holds(thr[t])'
  BY <1>1, <1>2, <1>3, FewerSelf, HoldMoves
<1>4. <<>> \in Seq(Ops) /\ Tame(<<>>)
  BY DEF Tame
<1>5. CASE DropFh(t) \/ Unrow(t) \/ Push(t) \/ Row(t)
  <2>1. Moved(t, <<>>)
    BY <1>5, AnyDropFh, AnyUnrow, AnyPush, AnyRow
  <2>2. \E o \in {"dropfh", "unrow", "push", "row"} : Does(t, o)
    BY <1>5 DEF DropFh, Unrow, Push, Row
  <2> QED
    BY <1>3, <1>4, <2>1, <2>2
<1>6. CASE Trim(t)
  <2>1. Does(t, "trim")
    BY <1>6 DEF Trim
  <2>2. PICK r : r = Carves
    OBVIOUS
  <2>3. r \in Seq(Ops) /\ Len(r) = Len(index) /\ Moved(t, r)
    BY <1>6, <2>2, AnyTrim
  <2>4. \A i \in 1 .. Len(index) : r[i].op = "carve"
    BY <2>2 DEF Carves
  <2>5. Tame(r)
    BY <2>3, <2>4 DEF Tame
  <2> QED
    BY <1>3, <2>1, <2>3, <2>5
<1>7. CASE Unindex(t)
  <2>1. Does(t, "unindex")
    BY <1>7 DEF Unindex
  <2>2. PICK r : r = Emptied
    OBVIOUS
  <2>3. Moved(t, r)
    BY <1>7, <2>2, AnyUnindex
  <2>4. r \in Seq(Ops) /\ Tame(r)
    <3>1. CASE r = <<>>
      BY <1>4, <3>1
    <3>2. CASE r = <<[op |-> "dropfh"]>>
      <4>1. [op |-> "dropfh"] \in Ops /\ [op |-> "dropfh"].op = "dropfh"
        BY BareOp DEF BareOps
      <4>2. r \in Seq(Ops) /\ Len(r) = 1 /\ r[1].op = "dropfh"
        BY <3>2, <4>1
      <4> QED
        BY <4>2 DEF Tame
    <3> QED
      BY <2>2, <3>1, <3>2 DEF Emptied
  <2> QED
    BY <1>3, <2>1, <2>3, <2>4
<1> QED
  BY <1>5, <1>6, <1>7

LEMMA HoldCarve ==
  ASSUME AnyInv, NEW t \in Threads, Holds(thr[t]), Carve(t)
  PROVE  Holds(thr[t])'
<1>1. /\ ThreadsOK /\ TablesOK /\ Does(t, "carve") /\ thr[t].kind \in {"lock", "locku"}
      /\ UNCHANGED <<known, owners, states, sidCtr, live, recs>>
  BY AnyCarve DEF AnyInv, Carve
<1>2. PICK k : k = NextOp(t).key
  OBVIOUS
<1>3. CASE UNCHANGED locks /\ Moved(t, <<>>)
  <2>1. PICK r : r = <<>>
    OBVIOUS
  <2>2. r \in Seq(Ops) /\ Tame(r) /\ Moved(t, r)
    BY <1>3, <2>1 DEF Tame
  <2>3. FewerLocks(locks', locks)
    BY <1>3, FewerSelf
  <2> QED
    BY <1>1, <2>2, <2>3, HoldMoves
<1>4. CASE k \in DOMAIN locks /\ locks' = Del(locks, {k}) /\ Moved(t, Cut(t, k))
  <2>1. locks[k] \in LockVals /\ thr[t].range \in Range64 /\ k \in Nat
    <3>1. thr[t] \in Asks
      BY <1>1, HeadIs
    <3>2. thr[t].range \in Range64
      BY <3>1 DEF Asks
    <3>3. keyCtr \in Nat /\ k \in 1 .. keyCtr - 1 /\ locks[k] \in LockVals
      BY <1>1, <1>4 DEF TablesOK
    <3> QED
      BY <3>2, <3>3
  <2>2. PICK S : S = Survivors(locks[k], thr[t].range)
    OBVIOUS
  <2>3. Inserts(S)
    BY <2>1, <2>2, SurvivorsAre DEF Inserts
  <2>4. PICK r : r = Removal(k) \o S
    OBVIOUS
  <2>5. CutShape(r, k, S)
    BY <2>1, <2>3, <2>4, CutIs
  <2>6. r \in Seq(Ops) /\ Tame(r)
    <3>1. \A i \in 1 .. Len(r) : i = 1 \/ i = 2 \/ i \in 3 .. Len(r)
      BY <2>5 DEF CutShape
    <3>2. \A i \in 3 .. Len(r) : r[i].op = "insert"
      BY <2>3, <2>5 DEF CutShape, Inserts
    <3>3. r \in Seq(Ops) /\ r[1].op = "unindex" /\ r[2].op = "unrow"
      BY <2>5 DEF CutShape
    <3> QED
      BY <3>1, <3>2, <3>3 DEF Tame
  <2>7. Moved(t, r)
    BY <1>4, <2>2, <2>4 DEF Cut
  <2>8. FewerLocks(locks', locks)
    BY <1>4, LocksFewer DEF FewerLocks
  <2> QED
    BY <1>1, <2>6, <2>7, <2>8, HoldMoves
<1> QED
  BY <1>1, <1>2, <1>3, <1>4, AnyCarve

(* remove_client_locks lists every lock of the client, and takes it out. *)
LEMMA HoldStrip ==
  ASSUME AnyInv, NEW t \in Threads, Holds(thr[t]), Strip(t)
  PROVE  Holds(thr[t])'
<1>1. /\ ThreadsOK /\ TablesOK /\ Does(t, "strip") /\ thr[t].kind = "retire"
      /\ UNCHANGED <<locks, known, owners, states, sidCtr, live, recs>>
  BY AnyStrip DEF AnyInv, Strip, mem
<1>2. PICK r : r = Strips(thr[t].client)
  OBVIOUS
<1>3. PICK c : c = thr[t].client
  OBVIOUS
<1>4. /\ r \in Seq(Ops)
      /\ \A i \in 1 .. Len(r) : r[i].op = "remove"
      /\ \A k \in Entries(c) : \E i \in 1 .. Len(r) : r[i].key = k
  BY <1>1, <1>2, <1>3, StripsAre
<1>5. Moved(t, r) /\ Tame(r)
  BY <1>2, <1>4, AnyStrip DEF Tame
<1>6. \A k \in DOMAIN locks : Tears(thr[t], ClientOf[locks[k].owner]) => Clears(r, k)
  BY <1>3, <1>4 DEF Tears, Clears, Entries
<1> QED
  BY <1>1, <1>4, <1>5, <1>6, FewerSelf, HoldMoves

LEMMA HoldRemove ==
  ASSUME AnyInv, NEW t \in Threads, Holds(thr[t]), Remove(t)
  PROVE  Holds(thr[t])'
<1>1. /\ ThreadsOK /\ TablesOK /\ Does(t, "remove")
      /\ UNCHANGED <<known, owners, states, sidCtr, live, recs>>
  BY AnyRemove DEF AnyInv, Remove
<1>2. PICK k : k = NextOp(t).key
  OBVIOUS
<1>3. CASE k \notin DOMAIN locks /\ UNCHANGED locks /\ Moved(t, <<>>)
  <2>1. <<>> \in Seq(Ops) /\ Tame(<<>>)
    BY DEF Tame
  <2> QED
    BY <1>1, <1>2, <1>3, <2>1, FewerSelf, HoldMoves
<1>4. CASE k \in DOMAIN locks /\ locks' = Del(locks, {k}) /\ Moved(t, Removal(k))
  <2>1. k \in Nat
    <3>1. keyCtr \in Nat /\ k \in 1 .. keyCtr - 1
      BY <1>1, <1>4 DEF TablesOK
    <3> QED
      BY <3>1
  <2>2. PICK r : r = Removal(k)
    OBVIOUS
  <2>3. /\ r \in Seq(Ops) /\ Len(r) = 2 /\ r[1].op = "unindex" /\ r[2].op = "unrow"
    BY <2>1, <2>2, RemovalIs
  <2>4. Tame(r)
    <3>1. \A i \in 1 .. 2 : i = 1 \/ i = 2
      OBVIOUS
    <3> QED
      BY <2>3, <3>1 DEF Tame
  <2>5. FewerLocks(locks', locks) /\ \A j \in DOMAIN locks' : j # k
    BY <1>4, LocksFewer DEF FewerLocks, Del
  <2> QED
    BY <1>1, <1>2, <1>4, <2>2, <2>3, <2>4, <2>5, HoldMoves
<1> QED
  BY <1>2, <1>3, <1>4, AnyRemove

(* A list the thread has nothing of left: the request is over. *)
AllNamed(O, S, n) ==
    \A s \in DOMAIN O : s \in 1 .. n - 1 /\ s \in DOMAIN S /\ S[s] = ClientOf[O[s]]

AllKnown(L, R, K) == \A k \in DOMAIN L : ClientOf[L[k].owner] \in R /\ K[L[k].owner] # 0

LEMMA IdleHolds ==
  ASSUME NEW L, NEW R, NEW K, NEW O, NEW S, NEW n, NEW V, AllNamed(O, S, n), AllKnown(L, R, K)
  PROVE  /\ Minted(Idle, O, S, n) /\ Secured(Idle, L, R, K, O) /\ Ordered(Idle.todo)
         /\ AskOK(Idle, V, K, O, S) /\ RetireOK(Idle, V, K)
<1>1. Idle.kind = "idle" /\ Idle.todo = <<>> /\ Len(<<>>) = 0
  BY DEF Idle
<1>2. Minted(Idle, O, S, n)
  BY <1>1 DEF Minted, Tears, AllNamed
<1>3. Secured(Idle, L, R, K, O)
  BY <1>1 DEF Secured, Tears, AllKnown
<1>4. Ordered(<<>>)
  BY <1>1 DEF Ordered
<1> QED
  BY <1>1, <1>2, <1>3, <1>4 DEF AskOK, RetireOK

LEMMA HoldCheck ==
  ASSUME AnyInv, NEW t \in Threads, Holds(thr[t]), Check(t)
  PROVE  Holds(thr[t])'
<1>1. /\ ThreadsOK /\ Does(t, "check")
      /\ UNCHANGED <<locks, known, owners, states, sidCtr, live, recs>>
  BY DEF AnyInv, Check, mem
<1>2. PICK W : W = thr[t]
  OBVIOUS
<1>3. PICK q : q = W.todo
  OBVIOUS
<1>4. /\ q \in Seq(Ops) /\ q # <<>> /\ ListOK(q) /\ q[1].op = "check" /\ NextOp(t) = q[1]
      /\ Len(q) \in Nat /\ Len(q) >= 1 /\ W.kind = "lock" /\ W \in Asks
  BY <1>1, <1>2, <1>3, HeadIs, TodoIs DEF Todo, OpOK
<1>5. Len(q) = 1
  <2>1. ~ (Len(q) >= 2)
    BY <1>4 DEF ListOK
  <2>2. Len(q) \in Nat /\ Len(q) >= 1
    BY <1>4
  <2>3. PICK n \in Nat : n = Len(q)
    BY <2>2
  <2> QED
    BY <2>1, <2>2, <2>3, NatCases
<1>6. /\ Knows(known, owners) /\ Minted(W, owners, states, sidCtr)
      /\ Secured(W, locks, recs, known, owners) /\ live \subseteq recs
      /\ AskOK(W, live, known, owners, states) /\ RetireOK(W, live, known)
  BY <1>2 DEF Holds
<1>7. /\ W.owner = W.asker /\ W.asker \in Owners /\ ClientOf[W.asker] \in live
      /\ q[1].new => W.sid = 0
      /\ ~ q[1].new => W.sid # 0 /\ W.sid = known[W.asker]
  BY <1>3, <1>4, <1>6 DEF AskOK, SidOK, Asks
<1>8. \A c : ~ Tears(W, c)
  BY <1>4 DEF Tears
<1>9. AllNamed(owners, states, sidCtr)
  BY <1>6, <1>8 DEF Minted, AllNamed
<1>10. 0 \notin DOMAIN owners
  <2>1. sidCtr \in Nat /\ 0 \notin 1 .. sidCtr - 1
    BY DEF AnyInv, TablesOK
  <2> QED
    BY <1>9, <2>1 DEF AllNamed
<1>11. CASE thr' = [thr EXCEPT ![t] = Idle]
  <2>1. thr'[t] = Idle
    BY <1>1, <1>11, EndsTook DEF Took
  <2>2. ASSUME NEW k \in DOMAIN locks
        PROVE  ClientOf[locks[k].owner] \in recs /\ known[locks[k].owner] # 0
    <3>1. /\ ClientOf[locks[k].owner] \in recs
          /\ known[locks[k].owner] # 0 \/ Valid(W.sid, locks[k].owner, owners)
      BY <1>6, <1>8 DEF Secured
    <3>2. CASE Valid(W.sid, locks[k].owner, owners)
      <4>1. W.sid # 0 /\ owners[W.sid] = locks[k].owner
        BY <1>10, <3>2 DEF Valid
      <4>2. W.sid = known[W.asker] /\ owners[known[W.asker]] = W.asker
        BY <1>6, <1>7, <4>1 DEF Knows, Valid
      <4> QED
        BY <3>1, <4>1, <4>2
    <3> QED
      BY <3>1, <3>2
  <2>3. AllKnown(locks, recs, known)
    BY <2>2 DEF AllKnown
  <2>4. /\ Minted(Idle, owners, states, sidCtr) /\ Secured(Idle, locks, recs, known, owners)
        /\ Ordered(Idle.todo) /\ AskOK(Idle, live, known, owners, states) /\ RetireOK(Idle, live, known)
    BY <1>9, <2>3, IdleHolds
  <2> QED
    BY <1>1, <1>6, <2>1, <2>4 DEF Holds
<1>12. CASE Moved(t, Granted(t))
  <2>1. PICK g : g = Granted(t)
    OBVIOUS
  <2>2. PICK X : X = thr'[t]
    OBVIOUS
  <2>3. g \in Seq(Ops) /\ GrantShape(g, q[1].new) /\ Goes(W, X) /\ X.todo = g \o Tail(q)
    <3>1. g \in Seq(Ops) /\ GrantShape(g, NextOp(t).new)
      BY <1>1, <2>1, GrantedIs
    <3>2. Moved(t, g)
      BY <1>12, <2>1
    <3>3. Goes(W, X) /\ X.todo = g \o Tail(q)
      BY <1>2, <1>3, <2>2, <3>2, MovedGoes
    <3> QED
      BY <1>4, <3>1, <3>3
  <2>4. PICK r : r = X.todo
    OBVIOUS
  <2>5. Len(r) = Len(g) /\ Len(g) \in Nat /\ r \in Seq(Ops) /\ \A i \in 1 .. Len(g) : r[i] = g[i]
    <3>1. /\ r \in Seq(Ops) /\ Len(g) \in Nat /\ Len(r) = Len(g) + Len(q) - 1
          /\ \A i \in 1 .. Len(g) + Len(q) - 1 :
               r[i] = IF i <= Len(g) THEN g[i] ELSE q[i - Len(g) + 1]
      BY <1>4, <2>3, <2>4, Joined
    <3> QED
      BY <1>5, <3>1
  <2>6. GrantShape(r, q[1].new)
    BY <2>3, <2>5 DEF GrantShape
  <2>7. Ordered(r)
    <3>1. CASE q[1].new
      <4>1. Len(r) = 3 /\ r[1].op = "allocate" /\ r[2].op = "register" /\ r[3].op = "insert"
        BY <2>6, <3>1 DEF GrantShape
      <4>2. \A i \in 1 .. 3 : i = 1 \/ i = 2 \/ i = 3
        OBVIOUS
      <4>3. \A i \in 2 .. 3 : i = 2 \/ i = 3
        OBVIOUS
      <4> QED
        BY <4>1, <4>2, <4>3 DEF Ordered
    <3>2. CASE ~ q[1].new
      <4>1. Len(r) = 2 /\ r[1].op = "trim" /\ r[2].op = "insert"
        BY <2>6, <3>2 DEF GrantShape
      <4>2. \A i \in 1 .. 2 : i = 1 \/ i = 2
        OBVIOUS
      <4>3. \A i \in 2 .. 2 : i = 2
        OBVIOUS
      <4> QED
        BY <4>1, <4>2, <4>3 DEF Ordered
    <3> QED
      BY <3>1, <3>2
  <2>8. Minted(X, owners, states, sidCtr) /\ Secured(X, locks, recs, known, owners)
    <3>1. ~ Has(W.todo, "purge")
      <4>1. \A i \in 1 .. Len(q) : i = 1
        BY <1>5
      <4> QED
        BY <1>3, <1>4, <4>1 DEF Has
    <3> QED
      BY <1>6, <1>8, <2>3, <3>1, FewerSelf, MintedGoes, SecuredGoes
  <2>9. X.kind \in {"lock", "locku"} /\ X.owner = W.owner /\ X.asker = W.asker /\ X.sid = W.sid
        /\ X.kind # "retire"
    BY <1>4, <2>3 DEF Goes
  <2>10. SidOK(X, known, owners, states)
    <3>1. CASE q[1].new
      <4>1. Len(r) = 3 /\ r[1].op = "allocate"
        BY <2>6, <3>1 DEF GrantShape
      <4> QED
        BY <1>7, <2>4, <2>9, <3>1, <4>1 DEF SidOK
    <3>2. CASE ~ q[1].new
      <4>1. Len(r) = 2 /\ r[1].op = "trim"
        BY <2>6, <3>2 DEF GrantShape
      <4>2. Valid(X.sid, X.owner, owners)
        BY <1>6, <1>7, <2>9, <3>2 DEF Knows
      <4> QED
        BY <2>4, <4>1, <4>2 DEF SidOK
    <3> QED
      BY <3>1, <3>2
  <2>11. AskOK(X, live, known, owners, states) /\ RetireOK(X, live, known)
    BY <1>7, <2>9, <2>10 DEF AskOK, RetireOK
  <2> QED
    BY <1>1, <1>6, <2>2, <2>4, <2>7, <2>8, <2>11 DEF Holds
<1> QED
  BY <1>11, <1>12, AnyCheck

(* The stateid is minted past every one that is registered. *)
LEMMA HoldAllocate ==
  ASSUME AnyInv, NEW t \in Threads, Holds(thr[t]), Allocate(t)
  PROVE  Holds(thr[t])'
<1>1. PICK W : W = thr[t]
  OBVIOUS
<1>2. PICK X : X = thr'[t]
  OBVIOUS
<1>3. PICK q : q = W.todo
  OBVIOUS
<1>4. PICK n : n = sidCtr
  OBVIOUS
<1>5. PICK S : S = Put(states, n, ClientOf[W.owner])
  OBVIOUS
<1>6. /\ ThreadsOK /\ Does(t, "allocate") /\ UNCHANGED <<locks, known, owners, live, recs>>
      /\ states' = S /\ sidCtr' = n + 1 /\ n \in Nat
  BY <1>1, <1>4, <1>5 DEF AnyInv, TablesOK, Allocate
<1>7. /\ q \in Seq(Ops) /\ q # <<>> /\ ListOK(q) /\ q[1].op = "allocate"
      /\ Len(q) \in Nat /\ Len(q) >= 1 /\ W.kind \in {"lock", "locku"}
  <2>1. "allocate" \notin RetireOps
    BY DEF RetireOps
  <2> QED
    BY <1>1, <1>3, <1>6, <2>1, HeadIs, TodoIs, AskHead DEF Todo
<1>8. /\ Knows(known, owners) /\ Minted(W, owners, states, n)
      /\ Secured(W, locks, recs, known, owners) /\ live \subseteq recs /\ Ordered(q)
      /\ AskOK(W, live, known, owners, states)
  BY <1>1, <1>3, <1>4 DEF Holds
<1>9. /\ X.todo = Tail(q) /\ X.sid = n /\ X.kind = W.kind /\ X.asker = W.asker /\ X.owner = W.owner
  <2>1. thr \in [Threads -> Works] /\ W \in Asks
    BY <1>1, <1>6, <1>7, HeadIs DEF ThreadsOK
  <2>2. thr' = [thr EXCEPT ![t].sid = sidCtr, ![t].todo = Tail(@)]
    BY DEF Allocate
  <2>3. X = [W EXCEPT !.sid = n, !.todo = Tail(q)]
    BY <1>1, <1>2, <1>3, <1>4, <2>1, <2>2
  <2> QED
    BY <2>1, <2>3 DEF Asks
<1>10. W.owner = W.asker /\ ClientOf[W.asker] \in live /\ W.sid = 0
  BY <1>3, <1>7, <1>8 DEF AskOK, SidOK
<1>11. \A c : ~ Tears(W, c) /\ ~ Tears(X, c)
  BY <1>7, <1>9 DEF Tears
<1>12. \A s \in DOMAIN owners : s \in 1 .. n - 1 /\ s \in DOMAIN states /\ states[s] = ClientOf[owners[s]]
  BY <1>8, <1>11 DEF Minted
<1>13. 0 \notin DOMAIN owners /\ n \notin DOMAIN owners
  <2>1. 0 \notin 1 .. n - 1 /\ n \notin 1 .. n - 1
    BY <1>6
  <2> QED
    BY <1>12, <2>1
<1>14. Minted(X, owners, S, n + 1)
  <2>1. \A s \in 1 .. n - 1 : s \in 1 .. (n + 1) - 1
    BY <1>6
  <2>2. \A s \in DOMAIN owners : s \in DOMAIN S /\ S[s] = states[s]
    BY <1>5, <1>12, <1>13, PutOther
  <2> QED
    BY <1>11, <1>12, <2>1, <2>2 DEF Minted
<1>15. Secured(X, locks, recs, known, owners)
  <2>1. \A o : ~ Valid(W.sid, o, owners)
    BY <1>10, <1>13 DEF Valid
  <2> QED
    BY <1>8, <1>11, <2>1 DEF Secured
<1>16. PICK r : r = X.todo
  OBVIOUS
<1>17. /\ Len(q) >= 2 /\ q[2].op = "register"
  BY <1>7, <1>8 DEF Ordered
<1>18. /\ r \in Seq(Ops) /\ Len(r) = Len(q) - 1 /\ Len(r) >= 1
       /\ \A i \in 1 .. Len(r) : i + 1 \in 2 .. Len(q) /\ r[i] = q[i + 1]
  BY <1>7, <1>9, <1>16, <1>17
<1>19. r[1].op = "register"
  BY <1>7, <1>17, <1>18
<1>20. Ordered(r)
  <2>1. \A i \in 2 .. Len(r) : i + 1 \in 2 .. Len(q) /\ i + 1 # 2 /\ r[i] = q[i + 1]
    BY <1>7, <1>18
  <2>2. \A i \in 2 .. Len(r) : r[i].op # "register"
    BY <1>8, <2>1 DEF Ordered
  <2>3. ASSUME NEW i \in 1 .. Len(r), NEW j \in 1 .. Len(r), i < j, r[i].op = "purge"
        PROVE  r[j].op \notin {"strip", "remove"}
    <3>1. i + 1 \in 1 .. Len(q) /\ j + 1 \in 1 .. Len(q) /\ i + 1 < j + 1
      BY <1>7, <1>18, <2>3
    <3> QED
      BY <1>8, <1>18, <2>3, <3>1 DEF Ordered
  <2> QED
    BY <1>19, <2>2, <2>3 DEF Ordered
<1>21. AskOK(X, live, known, owners, S)
  <2>1. n \in DOMAIN S /\ S[n] = ClientOf[W.owner]
    BY <1>5, PutSame
  <2>2. SidOK(X, known, owners, S)
    BY <1>9, <1>13, <1>16, <1>18, <1>19, <2>1 DEF SidOK
  <2> QED
    BY <1>9, <1>10, <2>2 DEF AskOK
<1>22. RetireOK(X, live, known)
  BY <1>7, <1>9 DEF RetireOK
<1> QED
  BY <1>2, <1>6, <1>8, <1>14, <1>15, <1>16, <1>20, <1>21, <1>22 DEF Holds

LEMMA HoldRegister ==
  ASSUME AnyInv, NEW t \in Threads, Holds(thr[t]), Register(t)
  PROVE  Holds(thr[t])'
<1>1. PICK W : W = thr[t]
  OBVIOUS
<1>2. PICK X : X = thr'[t]
  OBVIOUS
<1>3. PICK q : q = W.todo
  OBVIOUS
<1>4. PICK O : O = Put(owners, W.sid, W.owner)
  OBVIOUS
<1>5. /\ ThreadsOK /\ Does(t, "register") /\ UNCHANGED <<locks, known, states, sidCtr, live, recs>>
      /\ owners' = O /\ Moved(t, <<>>) /\ DOMAIN states \subseteq 1 .. sidCtr - 1
  BY <1>1, <1>4, AnyRegister DEF AnyInv, TablesOK, Register
<1>6. /\ q \in Seq(Ops) /\ q # <<>> /\ ListOK(q) /\ q[1].op = "register"
      /\ Len(q) \in Nat /\ Len(q) >= 1 /\ W.kind \in {"lock", "locku"}
  <2>1. "register" \notin RetireOps
    BY DEF RetireOps
  <2> QED
    BY <1>1, <1>3, <1>5, <2>1, HeadIs, TodoIs, AskHead DEF Todo
<1>7. /\ Knows(known, owners) /\ Minted(W, owners, states, sidCtr)
      /\ Secured(W, locks, recs, known, owners) /\ live \subseteq recs /\ Ordered(q)
      /\ AskOK(W, live, known, owners, states)
  BY <1>1, <1>3 DEF Holds
<1>8. Goes(W, X) /\ X.todo = <<>> \o Tail(q)
  BY <1>1, <1>2, <1>3, <1>5, MovedGoes
<1>9. /\ W.owner = W.asker /\ ClientOf[W.asker] \in live
      /\ W.sid \in DOMAIN states /\ W.sid \notin DOMAIN owners /\ states[W.sid] = ClientOf[W.owner]
  BY <1>3, <1>6, <1>7 DEF AskOK, SidOK
<1>10. X.kind = W.kind /\ X.asker = W.asker /\ X.owner = W.owner /\ X.sid = W.sid
  BY <1>6, <1>8 DEF Goes
<1>11. \A c : ~ Tears(W, c) /\ ~ Tears(X, c)
  BY <1>6, <1>10 DEF Tears
<1>12. /\ DOMAIN O = DOMAIN owners \cup {W.sid} /\ O[W.sid] = W.owner
       /\ \A s \in DOMAIN owners : O[s] = owners[s]
  BY <1>4, <1>9 DEF Put
<1>13. Knows(known, O)
  BY <1>7, <1>12 DEF Knows, Valid
<1>14. Minted(X, O, states, sidCtr)
  BY <1>5, <1>7, <1>9, <1>11, <1>12 DEF Minted
<1>15. Secured(X, locks, recs, known, O)
  <2>1. \A o : ~ Valid(W.sid, o, owners)
    BY <1>9 DEF Valid
  <2> QED
    BY <1>7, <1>11, <2>1 DEF Secured
<1>16. <<>> \in Seq(Ops) /\ Tame(<<>>)
  BY DEF Tame
<1>17. Past(X.todo) /\ Ordered(X.todo)
  BY <1>6, <1>7, <1>8, <1>16, TameJoin
<1>18. X.todo \in Seq(Ops)
  BY <1>6, <1>8, <1>16, Joined
<1>19. AskOK(X, live, known, O, states)
  <2>1. Len(X.todo) >= 1 => X.todo[1].op \notin {"check", "allocate", "register"}
    BY <1>17, <1>18 DEF Past
  <2>2. Valid(X.sid, X.owner, O)
    BY <1>10, <1>12 DEF Valid
  <2>3. SidOK(X, known, O, states)
    BY <2>1, <2>2 DEF SidOK
  <2> QED
    BY <1>9, <1>10, <2>3 DEF AskOK
<1>20. RetireOK(X, live, known)
  BY <1>6, <1>10 DEF RetireOK
<1> QED
  BY <1>2, <1>5, <1>7, <1>13, <1>14, <1>15, <1>17, <1>19, <1>20 DEF Holds

(* What a request inserts is its owner's, who has a stateid by then. *)
LEMMA HoldInsert ==
  ASSUME AnyInv, NEW t \in Threads, Holds(thr[t]), Insert(t)
  PROVE  Holds(thr[t])'
<1>1. PICK W : W = thr[t]
  OBVIOUS
<1>2. PICK X : X = thr'[t]
  OBVIOUS
<1>3. PICK q : q = W.todo
  OBVIOUS
<1>4. PICK v : v = NextOp(t).lock
  OBVIOUS
<1>5. PICK n : n = keyCtr
  OBVIOUS
<1>6. /\ v \in LockVals /\ locks' = Put(locks, n, v) /\ Moved(t, Inserting(n, v)) /\ Does(t, "insert")
      /\ n \notin DOMAIN locks /\ ThreadsOK /\ n \in Nat
      /\ UNCHANGED <<known, owners, states, sidCtr, live, recs>>
  BY <1>4, <1>5, AnyInsert DEF Insert, AnyInv, TablesOK
<1>7. /\ q \in Seq(Ops) /\ q # <<>> /\ ListOK(q) /\ q[1].op = "insert"
      /\ Len(q) \in Nat /\ Len(q) >= 1 /\ W.kind \in {"lock", "locku"} /\ v.owner = W.owner
  <2>1. "insert" \notin RetireOps
    BY DEF RetireOps
  <2> QED
    BY <1>1, <1>3, <1>4, <1>6, <2>1, HeadIs, TodoIs, AskHead DEF Todo, OpOK
<1>8. /\ Knows(known, owners) /\ Minted(W, owners, states, sidCtr)
      /\ Secured(W, locks, recs, known, owners) /\ live \subseteq recs /\ Ordered(q)
      /\ AskOK(W, live, known, owners, states)
  BY <1>1, <1>3 DEF Holds
<1>9. PICK r : r = Inserting(n, v)
  OBVIOUS
<1>10. /\ r \in Seq(Ops) /\ Len(r) = 2 /\ r[1].op = "push" /\ r[2].op = "row"
  BY <1>6, <1>9, InsertingIs
<1>11. Tame(r)
  <2>1. \A i \in 1 .. 2 : i = 1 \/ i = 2
    OBVIOUS
  <2> QED
    BY <1>10, <2>1 DEF Tame
<1>12. Goes(W, X) /\ X.todo = r \o Tail(q)
  BY <1>1, <1>2, <1>3, <1>6, <1>9, MovedGoes
<1>13. /\ Past(X.todo) /\ Ordered(X.todo) /\ (Has(q, "purge") => Has(X.todo, "purge"))
  BY <1>7, <1>8, <1>10, <1>11, <1>12, TameJoin
<1>14. X.todo \in Seq(Ops)
  BY <1>7, <1>10, <1>12, Joined
<1>15. Minted(X, owners, states, sidCtr)
  BY <1>3, <1>8, <1>12, <1>13, MintedGoes
<1>16. ~ (Len(q) >= 1 /\ q[1].op \in {"check", "allocate", "register"})
  BY <1>7
<1>17. AskOK(X, live, known, owners, states)
  BY <1>3, <1>8, <1>12, <1>13, <1>14, <1>16, AskGoes
<1>18. X.kind \in {"lock", "locku"} /\ X.sid = W.sid /\ \A c : ~ Tears(X, c) /\ ~ Tears(W, c)
  BY <1>7, <1>12 DEF Goes, Tears
<1>19. Valid(W.sid, W.owner, owners) /\ ClientOf[W.owner] \in recs
  BY <1>3, <1>7, <1>8, <1>16 DEF AskOK, SidOK
<1>20. PICK M : M = locks'
  OBVIOUS
<1>21. /\ DOMAIN M = DOMAIN locks \cup {n} /\ M[n] = v /\ \A k \in DOMAIN locks : M[k] = locks[k]
  BY <1>6, <1>20 DEF Put
<1>22. Secured(X, M, recs, known, owners)
  BY <1>7, <1>8, <1>18, <1>19, <1>21 DEF Secured
<1>23. RetireOK(X, live, known)
  BY <1>18 DEF RetireOK
<1> QED
  BY <1>2, <1>6, <1>8, <1>13, <1>15, <1>17, <1>20, <1>22, <1>23 DEF Holds

(* The steps of a teardown on the sessions, the record and the owners. *)
LEMMA RetireMoves ==
  ASSUME AnyInv, NEW t \in Threads, Holds(thr[t]), NEW o, Does(t, o), Moved(t, <<>>),
         thr[t].kind = "retire", o \in {"sessions", "record", "purge"}
  PROVE  /\ Goes(thr[t], thr'[t]) /\ thr'[t].kind = "retire" /\ thr'[t].client = thr[t].client
         /\ Ordered(thr'[t].todo)
         /\ o # "purge" /\ Has(thr[t].todo, "purge") => Has(thr'[t].todo, "purge")
         /\ \A k : Clears(thr[t].todo, k) => Clears(thr'[t].todo, k)
         /\ o # "sessions" => /\ thr[t].client \notin live
                              /\ \A p \in Owners : ClientOf[p] = thr[t].client => known[p] = 0
         /\ o = "purge" => \A k : ~ Clears(thr[t].todo, k)
<1>1. PICK W : W = thr[t]
  OBVIOUS
<1>2. PICK X : X = thr'[t]
  OBVIOUS
<1>3. PICK q : q = W.todo
  OBVIOUS
<1>4. ThreadsOK
  BY DEF AnyInv
<1>5. /\ q \in Seq(Ops) /\ q # <<>> /\ ListOK(q) /\ q[1].op = o /\ Len(q) \in Nat /\ Len(q) >= 1
  BY <1>1, <1>3, <1>4, HeadIs, TodoIs DEF Todo
<1>6. Ordered(q) /\ RetireOK(W, live, known) /\ W.kind = "retire"
  BY <1>1, <1>3 DEF Holds
<1>7. Goes(W, X) /\ X.todo = <<>> \o Tail(q)
  BY <1>1, <1>2, <1>3, MovedGoes
<1>8. <<>> \in Seq(Ops) /\ Tame(<<>>)
  BY DEF Tame
<1>9. Ordered(X.todo) /\ (o # "purge" /\ Has(q, "purge") => Has(X.todo, "purge"))
  BY <1>5, <1>6, <1>7, <1>8, TameJoin
<1>10. ASSUME NEW k, Clears(q, k)
       PROVE  Clears(X.todo, k)
  <2>1. q[1].op \notin {"strip", "remove"}
    BY <1>5
  <2>2. Clears(<<>> \o Tail(q), k)
    BY <1>5, <1>8, <1>10, <2>1, ClearsJoin
  <2> QED
    BY <1>7, <2>2
<1>11. ASSUME o = "purge", NEW k
       PROVE  ~ Clears(q, k)
  <2>1. \A i \in 1 .. Len(q) : i = 1 \/ 1 < i
    BY <1>5
  <2>2. 1 \in 1 .. Len(q)
    BY <1>5
  <2>3. \A i \in 1 .. Len(q) : q[i].op \notin {"strip", "remove"}
    BY <1>5, <1>6, <1>11, <2>1, <2>2 DEF Ordered
  <2> QED
    BY <2>3 DEF Clears
<1>12. ASSUME o # "sessions"
       PROVE  /\ W.client \notin live
              /\ \A p \in Owners : ClientOf[p] = W.client => known[p] = 0
  BY <1>3, <1>5, <1>6, <1>12 DEF RetireOK
<1>13. X.kind = "retire" /\ X.client = W.client
  BY <1>6, <1>7 DEF Goes
<1> QED
  BY <1>1, <1>2, <1>3, <1>7, <1>9, <1>10, <1>11, <1>12, <1>13

LEMMA HoldDropSessions ==
  ASSUME AnyInv, NEW t \in Threads, Holds(thr[t]), DropSessions(t)
  PROVE  Holds(thr[t])'
<1>1. PICK W : W = thr[t]
  OBVIOUS
<1>2. PICK X : X = thr'[t]
  OBVIOUS
<1>3. PICK c : c = W.client
  OBVIOUS
<1>4. PICK S : S = Del(states, StatesOf(c))
  OBVIOUS
<1>5. PICK K : K = [o \in Owners |-> IF ClientOf[o] = c THEN 0 ELSE known[o]]
  OBVIOUS
<1>6. /\ Does(t, "sessions") /\ live' = live \ {c} /\ states' = S /\ known' = K
      /\ UNCHANGED <<locks, owners, sidCtr, recs>> /\ W.kind = "retire" /\ Moved(t, <<>>)
      /\ \A k \in DOMAIN locks : locks[k].owner \in Owners
  BY <1>1, <1>3, <1>4, <1>5, AnyDropSessions DEF DropSessions, AnyInv, TablesOK, LockVals
<1>7. /\ Knows(known, owners) /\ Minted(W, owners, states, sidCtr)
      /\ Secured(W, locks, recs, known, owners) /\ live \subseteq recs
  BY <1>1 DEF Holds
<1>8. /\ Goes(W, X) /\ X.kind = "retire" /\ X.client = c /\ Ordered(X.todo)
      /\ Has(W.todo, "purge") => Has(X.todo, "purge")
      /\ \A k : Clears(W.todo, k) => Clears(X.todo, k)
  BY <1>1, <1>2, <1>3, <1>6, RetireMoves
<1>9. \A d : (Tears(W, d) <=> d = c) /\ (Tears(X, d) <=> d = c)
  BY <1>3, <1>6, <1>8 DEF Tears
<1>10. Knows(K, owners)
  BY <1>5, <1>7 DEF Knows
<1>11. Minted(X, owners, S, sidCtr)
  <2>1. \A s \in DOMAIN states : states[s] # c => s \in DOMAIN S /\ S[s] = states[s]
    BY <1>4 DEF Del, StatesOf
  <2> QED
    BY <1>7, <1>8, <1>9, <2>1 DEF Minted
<1>12. Secured(X, locks, recs, K, owners)
  <2>1. \A k \in DOMAIN locks : ClientOf[locks[k].owner] # c => K[locks[k].owner] = known[locks[k].owner]
    BY <1>5, <1>6
  <2> QED
    BY <1>6, <1>7, <1>8, <1>9, <2>1 DEF Secured
<1>13. AskOK(X, live \ {c}, K, owners, S)
  BY <1>8 DEF AskOK
<1>14. RetireOK(X, live \ {c}, K)
  BY <1>5, <1>8 DEF RetireOK
<1> QED
  BY <1>2, <1>6, <1>7, <1>8, <1>10, <1>11, <1>12, <1>13, <1>14 DEF Holds

LEMMA HoldDropRecord ==
  ASSUME AnyInv, NEW t \in Threads, Holds(thr[t]), DropRecord(t)
  PROVE  Holds(thr[t])'
<1>1. PICK W : W = thr[t]
  OBVIOUS
<1>2. PICK X : X = thr'[t]
  OBVIOUS
<1>3. PICK c : c = W.client
  OBVIOUS
<1>4. /\ Does(t, "record") /\ recs' = recs \ {c} /\ W.kind = "retire" /\ Moved(t, <<>>)
      /\ UNCHANGED <<locks, known, owners, states, sidCtr, live>>
  BY <1>1, <1>3, AnyDropRecord DEF DropRecord, mem
<1>5. /\ Knows(known, owners) /\ Minted(W, owners, states, sidCtr)
      /\ Secured(W, locks, recs, known, owners) /\ live \subseteq recs /\ RetireOK(W, live, known)
  BY <1>1 DEF Holds
<1>6. /\ Goes(W, X) /\ X.kind = "retire" /\ X.client = c /\ Ordered(X.todo)
      /\ Has(W.todo, "purge") => Has(X.todo, "purge")
      /\ \A k : Clears(W.todo, k) => Clears(X.todo, k)
      /\ c \notin live /\ \A p \in Owners : ClientOf[p] = c => known[p] = 0
  BY <1>1, <1>2, <1>3, <1>4, RetireMoves
<1>7. \A d : (Tears(W, d) <=> d = c) /\ (Tears(X, d) <=> d = c)
  BY <1>3, <1>4, <1>6 DEF Tears
<1>8. Minted(X, owners, states, sidCtr)
  BY <1>5, <1>6, MintedGoes
<1>9. Secured(X, locks, recs \ {c}, known, owners)
  BY <1>4, <1>5, <1>6, <1>7 DEF Secured
<1>10. AskOK(X, live, known, owners, states)
  BY <1>6 DEF AskOK
<1>11. RetireOK(X, live, known) /\ live \subseteq recs \ {c}
  BY <1>5, <1>6 DEF RetireOK
<1> QED
  BY <1>2, <1>4, <1>5, <1>6, <1>8, <1>9, <1>10, <1>11 DEF Holds

LEMMA HoldPurge ==
  ASSUME AnyInv, NEW t \in Threads, Holds(thr[t]), Purge(t)
  PROVE  Holds(thr[t])'
<1>1. PICK W : W = thr[t]
  OBVIOUS
<1>2. PICK X : X = thr'[t]
  OBVIOUS
<1>3. PICK c : c = W.client
  OBVIOUS
<1>4. PICK O : O = Del(owners, {s \in DOMAIN owners : ClientOf[owners[s]] = c})
  OBVIOUS
<1>5. /\ Does(t, "purge") /\ owners' = O /\ W.kind = "retire" /\ Moved(t, <<>>)
      /\ UNCHANGED <<locks, known, states, sidCtr, live, recs>>
  BY <1>1, <1>3, <1>4, AnyPurge DEF Purge
<1>6. /\ Knows(known, owners) /\ Minted(W, owners, states, sidCtr)
      /\ Secured(W, locks, recs, known, owners) /\ live \subseteq recs
  BY <1>1 DEF Holds
<1>7. /\ Goes(W, X) /\ X.kind = "retire" /\ X.client = c /\ Ordered(X.todo)
      /\ \A k : Clears(W.todo, k) => Clears(X.todo, k)
      /\ c \notin live /\ \A p \in Owners : ClientOf[p] = c => known[p] = 0
  BY <1>1, <1>2, <1>3, <1>5, RetireMoves
<1>8. \A d : (Tears(W, d) <=> d = c) /\ (Tears(X, d) <=> d = c)
  BY <1>3, <1>5, <1>7 DEF Tears
<1>9. /\ \A s \in DOMAIN O : s \in DOMAIN owners /\ O[s] = owners[s] /\ ClientOf[O[s]] # c
      /\ \A s \in DOMAIN owners : ClientOf[owners[s]] # c => s \in DOMAIN O /\ O[s] = owners[s]
  BY <1>4 DEF Del
<1>10. Knows(known, O)
  BY <1>6, <1>7, <1>9 DEF Knows, Valid
<1>11. Minted(X, O, states, sidCtr)
  BY <1>6, <1>8, <1>9 DEF Minted
<1>12. Secured(X, locks, recs, known, O)
  BY <1>5, <1>6, <1>7, <1>8 DEF Secured
<1>13. AskOK(X, live, known, O, states) /\ RetireOK(X, live, known)
  BY <1>7 DEF AskOK, RetireOK
<1> QED
  BY <1>2, <1>5, <1>6, <1>7, <1>10, <1>11, <1>12, <1>13 DEF Holds

(* The reply tells the client the stateid its owner is registered under. *)
LEMMA HoldReply ==
  ASSUME AnyInv, NEW t \in Threads, Holds(thr[t]), Reply(t)
  PROVE  Holds(thr[t])'
<1>1. PICK W : W = thr[t]
  OBVIOUS
<1>2. /\ W.kind \in {"lock", "locku"} /\ W.todo = <<>> /\ ThreadsOK
      /\ thr' = [thr EXCEPT ![t] = Idle] /\ known \in [Owners -> Nat]
      /\ UNCHANGED <<locks, owners, states, sidCtr, live, recs>> /\ sidCtr \in Nat
  BY <1>1 DEF Reply, AnyInv, TablesOK, mem
<1>3. /\ Knows(known, owners) /\ Minted(W, owners, states, sidCtr)
      /\ Secured(W, locks, recs, known, owners) /\ live \subseteq recs
      /\ AskOK(W, live, known, owners, states)
  BY <1>1 DEF Holds
<1>4. W.owner = W.asker /\ ClientOf[W.asker] \in live /\ Valid(W.sid, W.owner, owners)
  <2>1. Len(<<>>) = 0
    OBVIOUS
  <2> QED
    BY <1>2, <1>3, <2>1 DEF AskOK, SidOK
<1>5. PICK K : K = [known EXCEPT ![W.asker] = W.sid]
  OBVIOUS
<1>6. known' = K
  BY <1>1, <1>4, <1>5 DEF Reply
<1>7. thr'[t] = Idle
  BY <1>2, EndsTook DEF Took
<1>8. \A c : ~ Tears(W, c)
  BY <1>2 DEF Tears
<1>9. AllNamed(owners, states, sidCtr)
  BY <1>3, <1>8 DEF Minted, AllNamed
<1>10. W.sid # 0
  <2>1. 0 \notin 1 .. sidCtr - 1
    BY <1>2
  <2> QED
    BY <1>4, <1>9, <2>1 DEF AllNamed, Valid
<1>11. \A o \in Owners : K[o] = IF o = W.asker THEN W.sid ELSE known[o]
  BY <1>2, <1>5
<1>12. Knows(K, owners)
  BY <1>3, <1>4, <1>11 DEF Knows
<1>13. ASSUME NEW k \in DOMAIN locks
       PROVE  ClientOf[locks[k].owner] \in recs /\ K[locks[k].owner] # 0
  <2>1. locks[k].owner \in Owners
    BY <1>13 DEF AnyInv, TablesOK, LockVals
  <2>2. /\ ClientOf[locks[k].owner] \in recs
        /\ known[locks[k].owner] # 0 \/ Valid(W.sid, locks[k].owner, owners)
    BY <1>3, <1>8 DEF Secured
  <2> QED
    BY <1>4, <1>10, <1>11, <2>1, <2>2 DEF Valid
<1>14. AllKnown(locks, recs, K)
  BY <1>13 DEF AllKnown
<1>15. /\ Minted(Idle, owners, states, sidCtr) /\ Secured(Idle, locks, recs, K, owners)
       /\ Ordered(Idle.todo) /\ AskOK(Idle, live, K, owners, states) /\ RetireOK(Idle, live, K)
  BY <1>9, <1>14, IdleHolds
<1> QED
  BY <1>2, <1>3, <1>6, <1>7, <1>12, <1>15 DEF Holds

LEMMA HoldRetired ==
  ASSUME AnyInv, NEW t \in Threads, Holds(thr[t]), Retired(t)
  PROVE  Holds(thr[t])'
<1>1. PICK W : W = thr[t]
  OBVIOUS
<1>2. /\ W.kind = "retire" /\ W.todo = <<>> /\ ThreadsOK /\ thr' = [thr EXCEPT ![t] = Idle]
      /\ UNCHANGED <<locks, known, owners, states, sidCtr, live, recs>>
  BY <1>1 DEF Retired, AnyInv, mem
<1>3. /\ Knows(known, owners) /\ Minted(W, owners, states, sidCtr)
      /\ Secured(W, locks, recs, known, owners) /\ live \subseteq recs
  BY <1>1 DEF Holds
<1>4. ~ Has(W.todo, "purge") /\ \A k : ~ Clears(W.todo, k)
  <2>1. Len(<<>>) = 0
    OBVIOUS
  <2> QED
    BY <1>2, <2>1 DEF Has, Clears
<1>5. thr'[t] = Idle
  BY <1>2, EndsTook DEF Took
<1>6. AllNamed(owners, states, sidCtr)
  BY <1>3, <1>4 DEF Minted, AllNamed
<1>7. AllKnown(locks, recs, known)
  BY <1>2, <1>3, <1>4 DEF Secured, AllKnown
<1>8. /\ Minted(Idle, owners, states, sidCtr) /\ Secured(Idle, locks, recs, known, owners)
      /\ Ordered(Idle.todo) /\ AskOK(Idle, live, known, owners, states) /\ RetireOK(Idle, live, known)
  BY <1>6, <1>7, IdleHolds
<1> QED
  BY <1>2, <1>3, <1>5, <1>8 DEF Holds

LEMMA HoldStep ==
  ASSUME AnyInv, NEW t \in Threads, Holds(thr[t]), Step(t)
  PROVE  Holds(thr[t])'
BY HoldCheck, HoldAllocate, HoldRegister, HoldPlain, HoldCarve, HoldInsert, HoldReply,
   HoldDropSessions, HoldDropRecord, HoldStrip, HoldRemove, HoldPurge, HoldRetired DEF Step

(* The lock rows keep the registrations of their owners with them. *)
LEMMA RegRowsKept ==
  ASSUME NEW d, NEW e, RegRows(d), FewerRows(e, d),
         \A s \in Nat : <<"owner", s>> \in DOMAIN d =>
            <<"owner", s>> \in DOMAIN e /\ e[<<"owner", s>>] = d[<<"owner", s>>]
  PROVE  RegRows(e)
<1> SUFFICES ASSUME NEW k \in Nat, LockRow(e, k)
             PROVE  RowNamed(e, k)
  BY DEF RegRows
<1>1. LockRow(d, k) /\ e[<<"lock", k>>] = d[<<"lock", k>>]
  BY DEF FewerRows
<1>2. PICK s \in Nat : <<"owner", s>> \in DOMAIN d /\ d[<<"owner", s>>] = d[<<"lock", k>>].owner
  BY <1>1 DEF RegRows, RowNamed
<1> QED
  BY <1>1, <1>2 DEF RowNamed

LEMMA RegRowsTable ==
  ASSUME NEW d, NEW e, RegRows(d), FewerRows(e, d), SameTable(d, e, "owner")
  PROVE  RegRows(e)
BY RegRowsKept DEF SameTable

(* add_lock captures the row of a lock whose owner is registered. *)
LEMMA RegRowsRow ==
  ASSUME AnyInv, OneInv, RegOK, ~ overlap, NEW t \in Threads, Holds(thr[t]), RegRows(rows), Row(t)
  PROVE  RegRows(rows')
<1>1. PICK W : W = thr[t]
  OBVIOUS
<1>2. PICK q : q = Todo(t)
  OBVIOUS
<1>3. Does(t, "row") /\ ThreadsOK /\ RegFor(rows, owners, states, recs) /\ DOMAIN owners \subseteq Nat
  BY DEF Row, AnyInv, TablesOK, RegOK
<1>4. /\ q \in Seq(Ops) /\ q[1].op = "row" /\ Len(q) \in Nat /\ Len(q) >= 1 /\ OneAt(t)
      /\ NextOp(t) = q[1]
  BY <1>2, <1>3, OneDoes, HeadIs
<1>5. PICK k : k = q[1].key
  OBVIOUS
<1>6. k \in DOMAIN locks /\ q[1].val = locks[k] /\ locks[k].owner \in Owners
  <2>1. Mirrors(q, locks, rows, keyCtr) /\ 1 \in 1 .. Len(q)
    BY <1>2, <1>4 DEF OneAt, Exact
  <2>2. k \in DOMAIN locks /\ q[1].val = locks[k]
    BY <1>4, <1>5, <2>1 DEF Mirrors
  <2> QED
    BY <2>2 DEF AnyInv, TablesOK, LockVals
<1>7. W.kind \in {"lock", "locku"}
  <2>1. "row" \notin RetireOps
    BY DEF RetireOps
  <2> QED
    BY <1>1, <1>3, <2>1, AskHead
<1>8. Knows(known, owners) /\ Secured(W, locks, recs, known, owners)
  BY <1>1 DEF Holds
<1>9. \E s \in DOMAIN owners : owners[s] = locks[k].owner
  <2>1. known[locks[k].owner] # 0 \/ Valid(W.sid, locks[k].owner, owners)
    BY <1>6, <1>7, <1>8 DEF Secured, Tears
  <2> QED
    BY <1>6, <1>8, <2>1 DEF Knows, Valid
<1>10. PICK s \in Nat : <<"owner", s>> \in DOMAIN rows /\ rows[<<"owner", s>>] = locks[k].owner
  BY <1>3, <1>9 DEF RegFor
<1>11. PICK e : e = rows'
  OBVIOUS
<1>12. e = Put(rows, <<"lock", k>>, locks[k])
  BY <1>4, <1>5, <1>6, <1>11 DEF Row
<1>13. SameTable(rows, e, "owner")
  BY <1>12, TablePut
<1>14. ASSUME NEW j \in Nat, LockRow(e, j)
       PROVE  RowNamed(e, j)
  <2>1. CASE j = k
    <3>1. e[<<"lock", j>>] = locks[k]
      BY <1>12, <2>1, PutSame
    <3> QED
      BY <1>10, <1>13, <3>1 DEF SameTable, RowNamed
  <2>2. CASE j # k
    <3>1. <<"lock", j>> # <<"lock", k>>
      BY <2>2
    <3>2. LockRow(rows, j) /\ e[<<"lock", j>>] = rows[<<"lock", j>>]
      BY <1>12, <1>14, <3>1, PutOther DEF LockRow
    <3>3. PICK n \in Nat : <<"owner", n>> \in DOMAIN rows /\ rows[<<"owner", n>>] = rows[<<"lock", j>>].owner
      BY <3>2 DEF RegRows, RowNamed
    <3> QED
      BY <1>13, <3>2, <3>3 DEF SameTable, RowNamed
  <2> QED
    BY <2>1, <2>2
<1> QED
  BY <1>11, <1>14 DEF RegRows

(* A teardown purges the owners of a client when its lock rows are gone. *)
LEMMA RegRowsPurge ==
  ASSUME AnyInv, OneInv, RegOK, ~ overlap, NEW t \in Threads, Holds(thr[t]), RegRows(rows), Purge(t)
  PROVE  RegRows(rows')
<1>1. PICK W : W = thr[t]
  OBVIOUS
<1>2. PICK q : q = Todo(t)
  OBVIOUS
<1>3. PICK c : c = W.client
  OBVIOUS
<1>4. PICK Y : Y = {s \in DOMAIN owners : ClientOf[owners[s]] = c}
  OBVIOUS
<1>5. PICK e : e = rows'
  OBVIOUS
<1>6. /\ Does(t, "purge") /\ ThreadsOK /\ RegFor(rows, owners, states, recs) /\ DOMAIN owners \subseteq Nat
      /\ e = Del(rows, {<<"owner", s>> : s \in Y}) /\ W.kind = "retire" /\ Moved(t, <<>>)
      /\ keyCtr \in Nat /\ DbOK(rows, keyCtr, sidCtr)
  BY <1>1, <1>3, <1>4, <1>5, AnyPurge DEF Purge, AnyInv, TablesOK, RegOK
<1>7. q \in Seq(Ops) /\ q[1].op = "purge" /\ Len(q) \in Nat /\ Len(q) >= 1 /\ OneAt(t)
  BY <1>2, <1>6, OneDoes
<1>8. \A k : ~ Unrowing(q, k)
  <2>1. q[1].op \notin {"unindex", "unrow", "dropfh"}
    BY <1>7
  <2> QED
    BY <2>1 DEF Unrowing
<1>9. \A k \in DOMAIN locks : ClientOf[locks[k].owner] # c
  <2>1. \A k : ~ Clears(W.todo, k)
    BY <1>1, <1>6, RetireMoves
  <2>2. Secured(W, locks, recs, known, owners)
    BY <1>1 DEF Holds
  <2> QED
    BY <1>3, <1>6, <2>1, <2>2 DEF Secured, Tears
<1>10. \A k \in Nat : LockRow(rows, k) => k \in DOMAIN locks /\ rows[<<"lock", k>>] = locks[k]
  <2>1. \A k \in Nat : LockRow(rows, k) => k \in 1 .. keyCtr - 1
    BY <1>6, RowIs DEF LockRow
  <2>2. Mirrors(q, locks, rows, keyCtr)
    BY <1>2, <1>7 DEF OneAt, Exact
  <2> QED
    BY <1>8, <2>1, <2>2 DEF Mirrors
<1>11. ASSUME NEW k \in Nat, LockRow(e, k)
       PROVE  RowNamed(e, k)
  <2>1. LockRow(rows, k) /\ e[<<"lock", k>>] = rows[<<"lock", k>>]
    BY <1>6, <1>11, DelIs DEF LockRow
  <2>2. PICK s \in Nat : <<"owner", s>> \in DOMAIN rows /\ rows[<<"owner", s>>] = rows[<<"lock", k>>].owner
    BY <2>1 DEF RegRows, RowNamed
  <2>3. s \in DOMAIN owners /\ owners[s] = rows[<<"lock", k>>].owner
    BY <1>6, <2>2 DEF RegFor
  <2>4. ClientOf[owners[s]] # c
    BY <1>9, <1>10, <2>1, <2>3
  <2>5. <<"owner", s>> \notin {<<"owner", n>> : n \in Y}
    BY <1>4, <2>4
  <2>6. <<"owner", s>> \in DOMAIN e /\ e[<<"owner", s>>] = rows[<<"owner", s>>]
    BY <1>6, <2>2, <2>5, DelIs
  <2> QED
    BY <2>1, <2>2, <2>6 DEF RowNamed
<1> QED
  BY <1>5, <1>11 DEF RegRows

LEMMA RegRowsStep ==
  ASSUME AnyInv, OneInv, RegOK, ~ overlap, NEW t \in Threads, Holds(thr[t]), RegRows(rows), Step(t)
  PROVE  RegRows(rows')
<1>1. CASE Row(t)
  BY <1>1, RegRowsRow
<1>2. CASE Purge(t)
  BY <1>2, RegRowsPurge
<1>3. CASE UNCHANGED rows
  BY <1>3
<1>4. ASSUME ~ Row(t) PROVE FewerRows(rows', rows)
  BY <1>4, StepRows
<1>5. CASE Allocate(t)
  <2>1. rows' = Put(rows, <<"stateid", sidCtr>>, ClientOf[thr[t].owner]) /\ ~ Row(t)
    BY <1>5 DEF Allocate, Row, Does
  <2>2. SameTable(rows, rows', "owner")
    BY <2>1, TablePut
  <2>3. FewerRows(rows', rows)
    BY <1>4, <2>1
  <2> QED
    BY <2>2, <2>3, RegRowsTable
<1>6. CASE Register(t)
  <2>1. PICK W : W = thr[t]
    OBVIOUS
  <2>2. /\ rows' = Put(rows, <<"owner", W.sid>>, W.owner) /\ ~ Row(t) /\ Does(t, "register") /\ ThreadsOK
    BY <1>6, <2>1 DEF Register, Row, Does, AnyInv
  <2>3. W.kind \in {"lock", "locku"} /\ Len(W.todo) >= 1 /\ W.todo[1].op = "register"
    <3>1. "register" \notin RetireOps
      BY DEF RetireOps
    <3> QED
      BY <2>1, <2>2, <3>1, AskHead, HeadIs DEF Todo
  <2>4. W.sid \notin DOMAIN owners
    <3>1. AskOK(W, live, known, owners, states)
      BY <2>1 DEF Holds
    <3> QED
      BY <2>3, <3>1 DEF AskOK, SidOK
  <2>5. \A s \in Nat : <<"owner", s>> \in DOMAIN rows => <<"owner", s>> # <<"owner", W.sid>>
    BY <2>4 DEF RegOK, RegFor
  <2>6. \A s \in Nat : <<"owner", s>> \in DOMAIN rows =>
           <<"owner", s>> \in DOMAIN rows' /\ rows'[<<"owner", s>>] = rows[<<"owner", s>>]
    BY <2>2, <2>5, PutOther
  <2>7. FewerRows(rows', rows)
    BY <1>4, <2>2
  <2> QED
    BY <2>6, <2>7, RegRowsKept
<1>7. ASSUME NEW X, rows' = Del(rows, X), \A n : <<"owner", n>> \notin X, ~ Row(t)
      PROVE  RegRows(rows')
  BY <1>4, <1>7, TableDel, RegRowsTable
<1>8. CASE DropSessions(t)
  <2>1. rows' = Del(rows, {<<"stateid", s>> : s \in StatesOf(thr[t].client)}) /\ ~ Row(t)
    BY <1>8 DEF DropSessions, Row, Does
  <2>2. \A n : <<"owner", n>> \notin {<<"stateid", s>> : s \in StatesOf(thr[t].client)}
    OBVIOUS
  <2> QED
    BY <1>7, <2>1, <2>2
<1>9. CASE DropRecord(t)
  <2>1. rows' = Del(rows, {<<"client", thr[t].client>>}) /\ ~ Row(t)
    BY <1>9 DEF DropRecord, Row, Does
  <2>2. \A n : <<"owner", n>> \notin {<<"client", thr[t].client>>}
    OBVIOUS
  <2> QED
    BY <1>7, <2>1, <2>2
<1>10. CASE Unrow(t)
  <2>1. rows' = Del(rows, {<<"lock", NextOp(t).key>>}) /\ ~ Row(t)
    BY <1>10 DEF Unrow, Row, Does
  <2>2. \A n : <<"owner", n>> \notin {<<"lock", NextOp(t).key>>}
    OBVIOUS
  <2> QED
    BY <1>7, <2>1, <2>2
<1>11. \/ Allocate(t) \/ Register(t) \/ Row(t) \/ UNCHANGED rows
       \/ DropSessions(t) \/ DropRecord(t) \/ Purge(t) \/ Unrow(t)
  BY DEF Step, Check, Trim, Carve, Unindex, DropFh, Insert, Push, Reply, Strip, Remove, Retired
<1> QED
  BY <1>1, <1>2, <1>3, <1>5, <1>6, <1>8, <1>9, <1>10, <1>11

-----------------------------------------------------------------------------
(* A request that comes when no other is worked on. *)

(* The tables between requests. *)
Rested(K, O, S, n, L, R, V) ==
    Knows(K, O) /\ AllNamed(O, S, n) /\ AllKnown(L, R, K) /\ V \subseteq R

LEMMA RestedIs ==
  ASSUME Holds(Idle)
  PROVE  Rested(known, owners, states, sidCtr, locks, recs, live)
<1>1. Idle.kind = "idle"
  BY DEF Idle
<1>2. \A c : ~ Tears(Idle, c)
  BY <1>1 DEF Tears
<1>3. /\ Knows(known, owners) /\ Minted(Idle, owners, states, sidCtr)
      /\ Secured(Idle, locks, recs, known, owners) /\ live \subseteq recs
  BY DEF Holds
<1>4. AllNamed(owners, states, sidCtr)
  BY <1>2, <1>3 DEF Minted, AllNamed
<1>5. AllKnown(locks, recs, known)
  BY <1>1, <1>2, <1>3 DEF Secured, AllKnown
<1> QED
  BY <1>3, <1>4, <1>5 DEF Rested

LEMMA RestedHolds ==
  ASSUME NEW t, thr'[t] = Idle, Rested(known, owners, states, sidCtr, locks, recs, live)'
  PROVE  Holds(thr[t])'
<1>1. /\ Minted(Idle, owners', states', sidCtr') /\ Secured(Idle, locks', recs', known', owners')
      /\ Ordered(Idle.todo) /\ AskOK(Idle, live', known', owners', states')
      /\ RetireOK(Idle, live', known')
  BY IdleHolds DEF Rested
<1> QED
  BY <1>1 DEF Holds, Rested

(* The list of a LOCK or a LOCKU that has been admitted. *)
LEMMA AskHolds ==
  ASSUME NEW X, NEW x, X.todo = <<x>>, x.op \in {"check", "trim"}, X.kind \in {"lock", "locku"},
         X.owner = X.asker, NEW t, thr'[t] = X, Rested(known, owners, states, sidCtr, locks, recs, live),
         ClientOf[X.asker] \in live,
         UNCHANGED <<known, owners, states, sidCtr, locks, recs, live>>,
         x.op = "check" => X.sid = (IF x.new THEN 0 ELSE known[X.asker]) /\ (~ x.new => X.sid # 0),
         x.op = "trim" => Valid(X.sid, X.owner, owners)
  PROVE  Holds(thr[t])'
<1>1. PICK q : q = X.todo
  OBVIOUS
<1>2. Len(q) = 1 /\ q[1] = x /\ \A i \in 1 .. Len(q) : i = 1
  BY <1>1
<1>3. \A i \in 2 .. Len(q) : FALSE
  BY <1>2
<1>4. Ordered(q)
  BY <1>2, <1>3 DEF Ordered
<1>5. \A c : ~ Tears(X, c)
  BY DEF Tears
<1>6. Minted(X, owners, states, sidCtr)
  BY <1>5 DEF Minted, Rested, AllNamed
<1>7. Secured(X, locks, recs, known, owners)
  BY <1>5 DEF Secured, Rested, AllKnown
<1>8. SidOK(X, known, owners, states)
  BY <1>1, <1>2 DEF SidOK
<1>9. AskOK(X, live, known, owners, states) /\ RetireOK(X, live, known)
  BY <1>8 DEF AskOK, RetireOK
<1> QED
  BY <1>1, <1>4, <1>6, <1>7, <1>9 DEF Holds, Rested

LEMMA HoldLock ==
  ASSUME AnyInv, NEW t \in Threads, Rested(known, owners, states, sidCtr, locks, recs, live),
         NEW o \in Owners, NEW type \in LockTypes, NEW r \in Ranges, Lock(t, o, type, r)
  PROVE  Holds(thr[t])' /\ UNCHANGED rows
<1>1. PICK W : W = LockWork(o, o, type, r)
  OBVIOUS
<1>2. /\ UNCHANGED <<known, owners, states, sidCtr, locks, recs, live, rows>> /\ ClientOf[o] \in live
      /\ ThreadsOK
  BY DEF Lock, mem, AnyInv
<1>3. (IF known[o] = 0 THEN o ELSE owners[known[o]]) = o
  BY DEF Rested, Knows, Valid
<1>4. thr' = [thr EXCEPT ![t] = W]
  BY <1>1, <1>3 DEF Lock, LockWork
<1>5. thr'[t] = W
  BY <1>2, <1>4 DEF ThreadsOK
<1>6. PICK x : x = [op |-> "check", new |-> known[o] = 0]
  OBVIOUS
<1>7. /\ W.todo = <<x>> /\ W.kind = "lock" /\ W.owner = o /\ W.asker = o /\ W.sid = known[o]
      /\ x.op = "check" /\ x.new = (known[o] = 0)
  BY <1>1, <1>6 DEF LockWork
<1> QED
  BY <1>2, <1>5, <1>7, AskHolds

LEMMA HoldLockU ==
  ASSUME AnyInv, NEW t \in Threads, Rested(known, owners, states, sidCtr, locks, recs, live),
         NEW o \in Owners, NEW r \in Ranges, LockU(t, o, r)
  PROVE  Holds(thr[t])' /\ UNCHANGED rows
<1>1. PICK W : W = UnlockWork(o, r)
  OBVIOUS
<1>2. /\ UNCHANGED <<known, owners, states, sidCtr, locks, recs, live, rows>> /\ ClientOf[o] \in live
      /\ ThreadsOK /\ known[o] # 0 /\ thr' = [thr EXCEPT ![t] = W]
  BY <1>1 DEF LockU, UnlockWork, mem, AnyInv
<1>3. Valid(known[o], o, owners)
  BY <1>2 DEF Rested, Knows
<1>4. thr'[t] = W
  BY <1>2 DEF ThreadsOK
<1>5. PICK x : x = [op |-> "trim"]
  OBVIOUS
<1>6. /\ W.todo = <<x>> /\ W.kind = "locku" /\ W.owner = o /\ W.asker = o /\ W.sid = known[o]
      /\ x.op = "trim"
  BY <1>1, <1>3, <1>5 DEF UnlockWork, Valid
<1> QED
  BY <1>2, <1>3, <1>4, <1>6, AskHolds

LEMMA HoldReclaim ==
  ASSUME AnyInv, RegOK, NEW t \in Threads, Rested(known, owners, states, sidCtr, locks, recs, live),
         RegRows(rows), NEW o \in Owners, NEW type \in LockTypes, NEW r \in Ranges,
         Reclaim(t, o, type, r)
  PROVE  Holds(thr[t])' /\ RegRows(rows')
<1>1. /\ UNCHANGED <<live, recs>> /\ ClientOf[o] \in live /\ ThreadsOK /\ Free(t)
      /\ known \in [Owners -> Nat] /\ sidCtr \in Nat \ {0}
      /\ \A k \in DOMAIN locks : locks[k].owner \in Owners
  BY DEF Reclaim, AnyInv, TablesOK, LockVals
<1>2. /\ Knows(known, owners) /\ AllNamed(owners, states, sidCtr) /\ AllKnown(locks, recs, known)
      /\ live \subseteq recs
  BY DEF Rested
<1>3. thr[t] = Idle
  BY <1>1, FreeIdle
<1>4. CASE /\ Canonicals(o) # {} /\ known' = [known EXCEPT ![o] = CHOOSE s \in Canonicals(o) : TRUE]
           /\ UNCHANGED <<locks, thr, sidCtr, owners, states, rows>>
  <2>1. PICK s : s = CHOOSE n \in Canonicals(o) : TRUE
    OBVIOUS
  <2>2. Valid(s, o, owners)
    BY <1>4, <2>1 DEF Canonicals, Valid
  <2>3. s # 0
    <3>1. s \in 1 .. sidCtr - 1
      BY <1>2, <2>2 DEF AllNamed, Valid
    <3> QED
      BY <1>1, <3>1
  <2>4. \A p \in Owners : known'[p] = IF p = o THEN s ELSE known[p]
    BY <1>1, <1>4, <2>1
  <2>5. Knows(known', owners) /\ AllKnown(locks, recs, known')
    BY <1>1, <1>2, <2>2, <2>3, <2>4 DEF Knows, AllKnown
  <2>6. Rested(known, owners, states, sidCtr, locks, recs, live)'
    BY <1>1, <1>2, <1>4, <2>5 DEF Rested
  <2> QED
    BY <1>3, <1>4, <2>6, RestedHolds
<1>5. CASE /\ known' = [known EXCEPT ![o] = sidCtr] /\ sidCtr' = sidCtr + 1
           /\ owners' = Put(owners, sidCtr, o) /\ states' = Put(states, sidCtr, ClientOf[o])
           /\ rows' = Put(Put(rows, <<"stateid", sidCtr>>, ClientOf[o]), <<"owner", sidCtr>>, o)
           /\ UNCHANGED <<locks, thr>>
  <2>1. PICK n : n = sidCtr
    OBVIOUS
  <2>2. \A s \in 1 .. n - 1 : s # n /\ s \in 1 .. (n + 1) - 1
    BY <1>1, <2>1
  <2>3. n # 0 /\ n \in 1 .. (n + 1) - 1
    BY <1>1, <2>1
  <2>4. n \notin DOMAIN owners
    BY <1>2, <2>1, <2>2 DEF AllNamed
  <2>5. PICK O : O = owners'
    OBVIOUS
  <2>6. PICK S : S = states'
    OBVIOUS
  <2>7. /\ DOMAIN O = DOMAIN owners \cup {n} /\ O[n] = o /\ \A s \in DOMAIN owners : O[s] = owners[s]
    BY <1>5, <2>1, <2>4, <2>5 DEF Put
  <2>8. /\ DOMAIN S = DOMAIN states \cup {n} /\ S[n] = ClientOf[o]
        /\ \A s \in DOMAIN states : s # n => S[s] = states[s]
    BY <1>5, <2>1, <2>6 DEF Put
  <2>9. \A p \in Owners : known'[p] = IF p = o THEN n ELSE known[p]
    BY <1>1, <1>5, <2>1
  <2>10. Knows(known', O)
    BY <1>2, <2>7, <2>9 DEF Knows, Valid
  <2>11. AllNamed(O, S, n + 1)
    <3>1. \A s \in DOMAIN owners : /\ s \in 1 .. n - 1 /\ s # n /\ s \in 1 .. (n + 1) - 1
                                   /\ s \in DOMAIN states /\ states[s] = ClientOf[owners[s]]
      BY <1>2, <2>1, <2>2 DEF AllNamed
    <3> QED
      BY <2>3, <2>7, <2>8, <3>1 DEF AllNamed
  <2>12. AllKnown(locks, recs, known')
    BY <1>1, <1>2, <2>3, <2>9 DEF AllKnown
  <2>13. Rested(known, owners, states, sidCtr, locks, recs, live)'
    BY <1>1, <1>2, <1>5, <2>1, <2>5, <2>6, <2>10, <2>11, <2>12 DEF Rested
  <2>14. RegRows(rows')
    <3>1. PICK d : d = Put(rows, <<"stateid", n>>, ClientOf[o])
      OBVIOUS
    <3>2. SameTable(rows, d, "owner") /\ FewerRows(d, rows)
      <4>1. SameTable(rows, d, "owner")
        BY <3>1, TablePut
      <4>2. SameLockRows(rows, d)
        BY <3>1, SameRowsPut
      <4> QED
        BY <4>1, <4>2, FewerSame
    <3>3. RegRows(d)
      BY <3>2, RegRowsTable
    <3>4. \A s \in Nat : <<"owner", s>> \in DOMAIN d => <<"owner", s>> # <<"owner", n>>
      <4>1. \A s \in Nat : <<"owner", s>> \in DOMAIN rows => s \in DOMAIN owners
        BY DEF RegOK, RegFor
      <4> QED
        BY <2>4, <3>2, <4>1 DEF SameTable
    <3>5. PICK e : e = Put(d, <<"owner", n>>, o)
      OBVIOUS
    <3>6. \A s \in Nat : <<"owner", s>> \in DOMAIN d =>
             <<"owner", s>> \in DOMAIN e /\ e[<<"owner", s>>] = d[<<"owner", s>>]
      BY <3>4, <3>5, PutOther
    <3>7. FewerRows(e, d)
      BY <3>5, SameRowsPut, FewerSame
    <3>8. RegRows(e)
      BY <3>3, <3>6, <3>7, RegRowsKept
    <3> QED
      BY <1>5, <2>1, <3>1, <3>5, <3>8
  <2> QED
    BY <1>3, <1>5, <2>13, <2>14, RestedHolds
<1>6. CASE thr' = [thr EXCEPT ![t] = ReclaimWork(o, type, r)] /\ UNCHANGED <<mem, rows, known>>
  <2>1. PICK W : W = ReclaimWork(o, type, r)
    OBVIOUS
  <2>2. UNCHANGED <<known, owners, states, sidCtr, locks, recs, live, rows>> /\ thr'[t] = W
    BY <1>1, <1>6, <2>1 DEF mem, ThreadsOK
  <2>3. PICK x : x = [op |-> "check", new |-> TRUE]
    OBVIOUS
  <2>4. /\ W.todo = <<x>> /\ W.kind = "lock" /\ W.owner = o /\ W.asker = o /\ W.sid = 0
        /\ x.op = "check" /\ x.new = TRUE
    BY <2>1, <2>3 DEF ReclaimWork
  <2> QED
    BY <1>1, <2>2, <2>4, AskHolds
<1> QED
  BY <1>4, <1>5, <1>6 DEF Reclaim, ReclaimWork

(* FREE_STATEID: the index it goes through has every lock of the owner. *)
LEMMA HoldFree ==
  ASSUME AnyInv, Exact(<<>>), RegOK, NEW t \in Threads,
         Rested(known, owners, states, sidCtr, locks, recs, live),
         RegRows(rows), NEW o \in Owners, FreeStateId(t, o)
  PROVE  Holds(thr[t])' /\ RegRows(rows')
<1>1. PICK s : s = known[o]
  OBVIOUS
<1>2. /\ UNCHANGED <<locks, sidCtr, live, recs, thr>> /\ ThreadsOK /\ Free(t) /\ s # 0
      /\ owners' = Del(owners, {s}) /\ states' = Del(states, {s})
      /\ rows' = Del(rows, {<<"owner", s>>, <<"stateid", s>>}) /\ known' = [known EXCEPT ![o] = 0]
      /\ s \in DOMAIN owners =>
            ~ \E i \in 1 .. Len(index) : index[i] \in DOMAIN locks /\ OwnedBy(index[i], owners[s])
      /\ known \in [Owners -> Nat] /\ DOMAIN locks \subseteq 1 .. keyCtr - 1 /\ keyCtr \in Nat
      /\ DbOK(rows, keyCtr, sidCtr) /\ DOMAIN owners \subseteq Nat
      /\ \A k \in DOMAIN locks : locks[k].owner \in Owners
  BY <1>1 DEF FreeStateId, AnyInv, TablesOK, LockVals
<1>3. /\ Knows(known, owners) /\ AllNamed(owners, states, sidCtr) /\ AllKnown(locks, recs, known)
      /\ live \subseteq recs
  BY DEF Rested
<1>4. s \in DOMAIN owners /\ owners[s] = o
  BY <1>1, <1>2, <1>3 DEF Knows, Valid
<1>5. \A k : ~ Pushing(<<>>, k) /\ ~ Rowing(<<>>, k) /\ ~ Unlisting(<<>>, k) /\ ~ Unrowing(<<>>, k)
  BY NoneBland, BlandNone
<1>6. \A k \in DOMAIN locks : locks[k].owner # o
  <2>1. Lists(<<>>, locks, index, keyCtr)
    BY DEF Exact
  <2>2. \A k \in DOMAIN locks : \E i \in 1 .. Len(index) : index[i] = k
    BY <1>2, <1>5, <2>1 DEF Lists
  <2> QED
    BY <1>2, <1>4, <2>2 DEF OwnedBy
<1>7. \A p \in Owners : known'[p] = IF p = o THEN 0 ELSE known[p]
  BY <1>2
<1>8. PICK O : O = owners'
  OBVIOUS
<1>9. PICK S : S = states'
  OBVIOUS
<1>10. DOMAIN O = DOMAIN owners \ {s} /\ \A n \in DOMAIN O : O[n] = owners[n]
  BY <1>2, <1>8 DEF Del
<1>11. DOMAIN S = DOMAIN states \ {s} /\ \A n \in DOMAIN S : S[n] = states[n]
  BY <1>2, <1>9 DEF Del
<1>12. Knows(known', O)
  BY <1>3, <1>4, <1>7, <1>10 DEF Knows, Valid
<1>13. AllNamed(O, S, sidCtr) /\ AllKnown(locks, recs, known')
  BY <1>2, <1>3, <1>6, <1>7, <1>10, <1>11 DEF AllNamed, AllKnown
<1>14. Rested(known, owners, states, sidCtr, locks, recs, live)'
  BY <1>2, <1>3, <1>8, <1>9, <1>12, <1>13 DEF Rested
<1>15. PICK e : e = rows'
  OBVIOUS
<1>16. ASSUME NEW k \in Nat, LockRow(e, k)
       PROVE  RowNamed(e, k)
  <2>1. LockRow(rows, k) /\ e[<<"lock", k>>] = rows[<<"lock", k>>]
    BY <1>2, <1>15, <1>16, DelIs DEF LockRow
  <2>2. k \in DOMAIN locks /\ rows[<<"lock", k>>] = locks[k]
    <3>1. k \in 1 .. keyCtr - 1
      BY <1>2, <2>1, RowIs DEF LockRow
    <3>2. Mirrors(<<>>, locks, rows, keyCtr)
      BY DEF Exact
    <3> QED
      BY <1>5, <2>1, <3>1, <3>2 DEF Mirrors
  <2>3. PICK n \in Nat : <<"owner", n>> \in DOMAIN rows /\ rows[<<"owner", n>>] = rows[<<"lock", k>>].owner
    BY <2>1 DEF RegRows, RowNamed
  <2>4. n \in DOMAIN owners /\ owners[n] = locks[k].owner
    BY <2>2, <2>3 DEF RegOK, RegFor
  <2>5. n # s
    BY <1>4, <1>6, <2>2, <2>4
  <2>6. <<"owner", n>> \notin {<<"owner", s>>, <<"stateid", s>>}
    BY <2>5
  <2>7. <<"owner", n>> \in DOMAIN e /\ e[<<"owner", n>>] = rows[<<"owner", n>>]
    BY <1>2, <1>15, <2>3, <2>6, DelIs
  <2> QED
    BY <2>1, <2>3, <2>7 DEF RowNamed
<1>17. thr'[t] = Idle
  BY <1>2, FreeIdle
<1> QED
  BY <1>14, <1>15, <1>16, <1>17, RestedHolds DEF RegRows

(* The teardowns that strip the locks and purge the owners. *)
LEMMA HoldSweep ==
  ASSUME AnyInv, NEW t \in Threads, Rested(known, owners, states, sidCtr, locks, recs, live),
         NEW c \in Clients, Sweep(t, c) \/ Cascade(t, c)
  PROVE  Holds(thr[t])' /\ UNCHANGED rows
<1>1. /\ UNCHANGED <<known, owners, states, sidCtr, locks, recs, live, rows>> /\ ThreadsOK
      /\ \/ thr' = [thr EXCEPT ![t] = Retiring(c, <<[op |-> "sessions"], [op |-> "record"],
                                                    [op |-> "strip"], [op |-> "purge"]>>)]
         \/ thr' = [thr EXCEPT ![t] = Retiring(c, <<[op |-> "sessions"], [op |-> "strip"],
                                                    [op |-> "purge"], [op |-> "record"]>>)]
  BY DEF Sweep, Cascade, mem, AnyInv
<1>2. PICK q : /\ q \in {<<[op |-> "sessions"], [op |-> "record"], [op |-> "strip"], [op |-> "purge"]>>,
                         <<[op |-> "sessions"], [op |-> "strip"], [op |-> "purge"], [op |-> "record"]>>}
               /\ thr' = [thr EXCEPT ![t] = Retiring(c, q)]
  BY <1>1
<1>3. PICK X : X = Retiring(c, q)
  OBVIOUS
<1>4. thr'[t] = X /\ X.kind = "retire" /\ X.client = c /\ X.todo = q
  BY <1>1, <1>2, <1>3 DEF ThreadsOK, Retiring
<1>5. /\ Len(q) = 4 /\ q[1].op = "sessions"
      /\ \/ q[2].op = "record" /\ q[3].op = "strip" /\ q[4].op = "purge"
         \/ q[2].op = "strip" /\ q[3].op = "purge" /\ q[4].op = "record"
  BY <1>2
<1>6. /\ \A i \in 1 .. 4 : i = 1 \/ i = 2 \/ i = 3 \/ i = 4
      /\ 1 \in 1 .. 4 /\ 2 \in 1 .. 4 /\ 3 \in 1 .. 4 /\ 4 \in 1 .. 4
      /\ \A i \in 2 .. 4 : i = 2 \/ i = 3 \/ i = 4
  OBVIOUS
<1>7. Has(q, "purge") /\ \A k : Clears(q, k)
  BY <1>5, <1>6 DEF Has, Clears
<1>8. \A i, j \in 1 .. 4 : i < j /\ q[i].op = "purge" => q[j].op \notin {"strip", "remove"}
  <2> SUFFICES ASSUME NEW i \in 1 .. 4, NEW j \in 1 .. 4, i < j, q[i].op = "purge"
               PROVE  q[j].op \notin {"strip", "remove"}
    OBVIOUS
  <2>1. i \notin {1, 2}
    BY <1>5
  <2>2. i = 3 /\ j = 4
    BY <1>6, <2>1
  <2> QED
    BY <1>5, <2>2
<1>9. Ordered(q)
  <2>1. \A i \in 2 .. Len(q) : q[i].op # "register"
    BY <1>5, <1>6
  <2>2. q[1].op # "allocate"
    BY <1>5
  <2> QED
    BY <1>5, <1>8, <2>1, <2>2 DEF Ordered
<1>10. Minted(X, owners, states, sidCtr)
  BY <1>4, <1>7 DEF Minted, Rested, AllNamed
<1>11. Secured(X, locks, recs, known, owners)
  BY <1>4, <1>7 DEF Secured, Rested, AllKnown
<1>12. AskOK(X, live, known, owners, states) /\ RetireOK(X, live, known)
  BY <1>4, <1>5 DEF AskOK, RetireOK
<1> QED
  BY <1>1, <1>4, <1>9, <1>10, <1>11, <1>12 DEF Holds, Rested

(* DESTROY_CLIENTID takes the record only of a client with nothing left. *)
LEMMA HoldDestroy ==
  ASSUME AnyInv, NEW t \in Threads, Rested(known, owners, states, sidCtr, locks, recs, live),
         NEW c \in Clients, DestroyClientId(t, c)
  PROVE  Holds(thr[t])' /\ UNCHANGED rows
<1>1. PICK x : x = [op |-> "record"]
  OBVIOUS
<1>2. PICK X : X = Retiring(c, <<x>>)
  OBVIOUS
<1>3. /\ UNCHANGED <<known, owners, states, sidCtr, locks, recs, live, rows>> /\ ThreadsOK
      /\ thr' = [thr EXCEPT ![t] = X] /\ c \notin live /\ StatesOf(c) = {} /\ count[c] = 0
      /\ count[c] = Cardinality(Entries(c)) /\ keyCtr \in Nat /\ DOMAIN locks \subseteq 1 .. keyCtr - 1
  BY <1>1, <1>2 DEF DestroyClientId, mem, AnyInv, CountOK, TablesOK
<1>4. PICK q : q = X.todo
  OBVIOUS
<1>5. /\ thr'[t] = X /\ X.kind = "retire" /\ X.client = c /\ q = <<x>>
  BY <1>2, <1>3, <1>4 DEF ThreadsOK, Retiring
<1>6. Len(q) = 1 /\ q[1] = x /\ x.op = "record" /\ \A i \in 1 .. Len(q) : i = 1
  BY <1>1, <1>5
<1>7. \A k \in DOMAIN locks : ClientOf[locks[k].owner] # c
  <2>1. IsFiniteSet(Entries(c))
    <3>1. IsFiniteSet(1 .. keyCtr - 1) /\ Entries(c) \subseteq 1 .. keyCtr - 1
      BY <1>3, FS_Interval DEF Entries
    <3> QED
      BY <3>1, FS_Subset
  <2>2. Entries(c) = {}
    BY <1>3, <2>1, FS_EmptySet
  <2> QED
    BY <2>2 DEF Entries
<1>8. \A s \in DOMAIN owners : ClientOf[owners[s]] # c
  BY <1>3 DEF Rested, AllNamed, StatesOf
<1>9. \A o \in Owners : ClientOf[o] = c => known[o] = 0
  BY <1>8 DEF Rested, Knows, Valid
<1>10. Ordered(q)
  <2>1. \A i \in 2 .. Len(q) : FALSE
    BY <1>6
  <2> QED
    BY <1>6, <2>1 DEF Ordered
<1>11. Minted(X, owners, states, sidCtr)
  BY <1>5, <1>8 DEF Minted, Rested, AllNamed, Tears
<1>12. Secured(X, locks, recs, known, owners)
  BY <1>5, <1>7 DEF Secured, Rested, AllKnown, Tears
<1>13. AskOK(X, live, known, owners, states) /\ RetireOK(X, live, known)
  BY <1>3, <1>5, <1>9 DEF AskOK, RetireOK
<1> QED
  BY <1>3, <1>4, <1>5, <1>10, <1>11, <1>12, <1>13 DEF Holds, Rested

LEMMA HoldReconnect ==
  ASSUME AnyInv, NEW t \in Threads, Rested(known, owners, states, sidCtr, locks, recs, live),
         NEW c \in Clients, Reconnect(t, c)
  PROVE  Holds(thr[t])' /\ UNCHANGED rows
<1>1. /\ UNCHANGED <<known, owners, states, sidCtr, locks, recs, rows, thr>> /\ ThreadsOK /\ Free(t)
      /\ live' = live \cup {c} /\ c \in recs
  BY DEF Reconnect, mem, AnyInv
<1>2. Rested(known, owners, states, sidCtr, locks, recs, live)'
  BY <1>1 DEF Rested
<1>3. thr'[t] = Idle
  BY <1>1, FreeIdle
<1> QED
  BY <1>1, <1>2, <1>3, RestedHolds

LEMMA HoldRequest ==
  ASSUME AnyInv, Exact(<<>>), RegOK, NEW t \in Threads, HoldFor(Idle), Request(t)
  PROVE  HoldFor(thr[t])'
<1>1. Rested(known, owners, states, sidCtr, locks, recs, live) /\ RegRows(rows) /\ RegRows(disk)
  BY RestedIs DEF HoldFor
<1>2. UNCHANGED disk
  BY RequestDisk
<1>3. Holds(thr[t])' /\ RegRows(rows')
  BY <1>1, HoldLock, HoldReclaim, HoldLockU, HoldFree, HoldSweep, HoldDestroy, HoldReconnect
     DEF Request
<1> QED
  BY <1>1, <1>2, <1>3 DEF HoldFor

-----------------------------------------------------------------------------
(* The rest of the steps. *)

(* A restart, or a crash that loses nothing, brings the tables back. *)
LEMMA HoldLoad ==
  ASSUME AnyInv, Exact(<<>>), RegOK, HoldFor(Idle), Load(rows)
  PROVE  HoldFor(Idle)' /\ \A u \in Threads : thr'[u] = Idle
<1>1. /\ locks' = [k \in RowsOf(rows, "lock") |-> rows[<<"lock", k>>]]
      /\ owners' = [s \in RowsOf(rows, "owner") |-> rows[<<"owner", s>>]]
      /\ states' = [s \in RowsOf(rows, "stateid") |-> rows[<<"stateid", s>>]]
      /\ recs' = RowsOf(rows, "client") /\ live' = {} /\ UNCHANGED <<rows, known>> /\ disk' = rows
      /\ thr' = [t \in Threads |-> Idle]
  BY DEF Load
<1>2. DbOK(rows, keyCtr, sidCtr) /\ recs \subseteq Clients /\ keyCtr \in Nat /\ sidCtr \in Nat
      /\ DOMAIN owners \subseteq Nat /\ DOMAIN states \subseteq Nat
  <2>1. /\ DbOK(rows, keyCtr, sidCtr) /\ recs \subseteq Clients /\ keyCtr \in Nat /\ sidCtr \in Nat
        /\ DOMAIN owners \subseteq Nat /\ DOMAIN states \subseteq 1 .. sidCtr - 1
    BY DEF AnyInv, TablesOK
  <2> QED
    BY <2>1
<1>3. /\ Knows(known, owners) /\ AllNamed(owners, states, sidCtr) /\ AllKnown(locks, recs, known)
      /\ RegRows(rows)
  BY RestedIs DEF HoldFor, Rested
<1>4. RegFor(rows, owners, states, recs)
  BY DEF RegOK
<1>5. PICK O : O = owners'
  OBVIOUS
<1>6. PICK S : S = states'
  OBVIOUS
<1>7. PICK L : L = locks'
  OBVIOUS
<1>8. PICK R : R = recs'
  OBVIOUS
<1>9. /\ \A n : n \in RowsOf(rows, "lock") <=> <<"lock", n>> \in DOMAIN rows
      /\ \A n : n \in RowsOf(rows, "owner") <=> <<"owner", n>> \in DOMAIN rows
      /\ \A n : n \in RowsOf(rows, "stateid") <=> <<"stateid", n>> \in DOMAIN rows
      /\ \A n : n \in RowsOf(rows, "client") <=> <<"client", n>> \in DOMAIN rows
  BY <1>2, RowsOfIs
<1>10. /\ \A n : <<"owner", n>> \in DOMAIN rows => n \in Nat
       /\ \A n : <<"stateid", n>> \in DOMAIN rows => n \in Nat
       /\ \A n : <<"client", n>> \in DOMAIN rows => n \in Clients
       /\ \A n : <<"lock", n>> \in DOMAIN rows => n \in 1 .. keyCtr - 1
  <2>1. /\ \A n : <<"owner", n>> \in DOMAIN rows => n \in Nat
        /\ \A n : <<"stateid", n>> \in DOMAIN rows => n \in 1 .. sidCtr - 1
        /\ \A n : <<"client", n>> \in DOMAIN rows => n \in Clients
        /\ \A n : <<"lock", n>> \in DOMAIN rows => n \in 1 .. keyCtr - 1
    BY <1>2, RowIs
  <2>2. \A n \in 1 .. sidCtr - 1 : n \in Nat
    BY <1>2
  <2> QED
    BY <2>1, <2>2
<1>11. \A s : (s \in DOMAIN O <=> s \in DOMAIN owners) /\ (s \in DOMAIN O => O[s] = owners[s])
  <2>1. \A s : s \in DOMAIN O <=> <<"owner", s>> \in DOMAIN rows
    BY <1>1, <1>5, <1>9
  <2>2. \A s \in DOMAIN O : O[s] = rows[<<"owner", s>>]
    BY <1>1, <1>5
  <2>3. \A s : s \in DOMAIN O <=> s \in DOMAIN owners
    BY <1>2, <1>4, <1>10, <2>1 DEF RegFor
  <2>4. \A s \in DOMAIN O : O[s] = owners[s]
    BY <1>4, <2>2, <2>3 DEF RegFor
  <2> QED
    BY <2>3, <2>4
<1>12. \A s : (s \in DOMAIN S <=> s \in DOMAIN states) /\ (s \in DOMAIN S => S[s] = states[s])
  <2>1. \A s : s \in DOMAIN S <=> <<"stateid", s>> \in DOMAIN rows
    BY <1>1, <1>6, <1>9
  <2>2. \A s \in DOMAIN S : S[s] = rows[<<"stateid", s>>]
    BY <1>1, <1>6
  <2>3. \A s : s \in DOMAIN S <=> s \in DOMAIN states
    BY <1>2, <1>4, <1>10, <2>1 DEF RegFor
  <2>4. \A s \in DOMAIN S : S[s] = states[s]
    BY <1>4, <2>2, <2>3 DEF RegFor
  <2> QED
    BY <2>3, <2>4
<1>13. R = recs
  BY <1>1, <1>2, <1>4, <1>8, <1>9, <1>10 DEF RegFor
<1>14. \A k \in DOMAIN L : k \in DOMAIN locks /\ L[k] = locks[k]
  <2>1. \A k : ~ Rowing(<<>>, k) /\ ~ Unrowing(<<>>, k)
    BY NoneBland, BlandNone
  <2>2. Mirrors(<<>>, locks, rows, keyCtr)
    BY DEF Exact
  <2>3. \A k \in 1 .. keyCtr - 1 : <<"lock", k>> \in DOMAIN rows =>
           k \in DOMAIN locks /\ rows[<<"lock", k>>] = locks[k]
    BY <2>1, <2>2 DEF Mirrors, LockRow
  <2>4. \A k : k \in DOMAIN L <=> <<"lock", k>> \in DOMAIN rows
    BY <1>1, <1>7, <1>9
  <2>5. \A k \in DOMAIN L : L[k] = rows[<<"lock", k>>]
    BY <1>1, <1>7
  <2> QED
    BY <1>10, <2>3, <2>4, <2>5
<1>15. PICK n : n = sidCtr'
  OBVIOUS
<1>16. DOMAIN S \subseteq 1 .. n - 1
  <2>1. AnyInv'
    BY <1>2, AnyLoad
  <2> QED
    BY <1>6, <1>15, <2>1 DEF AnyInv, TablesOK
<1>17. Knows(known, O) /\ AllNamed(O, S, n)
  BY <1>3, <1>11, <1>12, <1>16 DEF Knows, Valid, AllNamed
<1>18. AllKnown(L, R, known)
  BY <1>3, <1>13, <1>14 DEF AllKnown
<1>19. /\ Minted(Idle, O, S, n) /\ Secured(Idle, L, R, known, O) /\ Ordered(Idle.todo)
       /\ AskOK(Idle, {}, known, O, S) /\ RetireOK(Idle, {}, known)
  BY <1>17, <1>18, IdleHolds
<1>20. Holds(Idle)'
  BY <1>1, <1>5, <1>6, <1>7, <1>8, <1>15, <1>17, <1>19 DEF Holds
<1> QED
  BY <1>1, <1>3, <1>20 DEF HoldFor

(* A client learns that its stateid is gone only when it is torn down. *)
LEMMA HoldStateIdLost ==
  ASSUME AnyInv, NEW W, Holds(W), NEW o \in Owners, StateIdLost(o)
  PROVE  Holds(W)'
<1>1. /\ UNCHANGED <<owners, states, sidCtr, locks, recs, live>>
      /\ known[o] # 0 /\ known[o] \notin DOMAIN states /\ known' = [known EXCEPT ![o] = 0]
      /\ known \in [Owners -> Nat] /\ \A k \in DOMAIN locks : locks[k].owner \in Owners
  BY DEF StateIdLost, mem, AnyInv, TablesOK, LockVals
<1>2. /\ Knows(known, owners) /\ Minted(W, owners, states, sidCtr)
      /\ Secured(W, locks, recs, known, owners) /\ live \subseteq recs
      /\ Ordered(W.todo) /\ AskOK(W, live, known, owners, states) /\ RetireOK(W, live, known)
  BY DEF Holds
<1>3. Tears(W, ClientOf[o])
  <2>1. Valid(known[o], o, owners)
    BY <1>1, <1>2 DEF Knows
  <2> QED
    BY <1>1, <1>2, <2>1 DEF Minted, Valid
<1>4. PICK K : K = known'
  OBVIOUS
<1>5. \A p \in Owners : K[p] = IF p = o THEN 0 ELSE known[p]
  BY <1>1, <1>4
<1>6. Knows(K, owners)
  BY <1>2, <1>5 DEF Knows
<1>7. Secured(W, locks, recs, K, owners)
  <2>1. \A k \in DOMAIN locks : ~ Tears(W, ClientOf[locks[k].owner]) => locks[k].owner # o
    BY <1>3
  <2> QED
    BY <1>1, <1>2, <1>5, <2>1 DEF Secured
<1>8. AskOK(W, live, K, owners, states)
  BY <1>3 DEF AskOK, Tears
<1>9. RetireOK(W, live, K)
  BY <1>2, <1>5 DEF RetireOK
<1> QED
  BY <1>1, <1>2, <1>4, <1>6, <1>7, <1>8, <1>9 DEF Holds

LEMMA HoldThen ==
  ASSUME HoldInv, ~ overlap, ~ lost, NEW t \in Threads, thr[t] # Idle
  PROVE  Alone(t) /\ HoldFor(thr[t])
BY DEF HoldInv, Alone

LEMMA HoldQuiet ==
  ASSUME HoldInv, ~ overlap, ~ lost, NEW t \in Threads, \A u \in Threads : thr[u] = Idle
  PROVE  HoldFor(Idle)
BY DEF HoldInv

LEMMA StepWorks ==
  ASSUME NEW t \in Threads, Step(t)
  PROVE  thr[t] # Idle
<1>1. Idle.todo = <<>> /\ Idle.kind = "idle"
  BY DEF Idle
<1>2. \/ thr[t].todo # <<>> \/ thr[t].kind \in {"lock", "locku", "retire"}
  BY DEF Step, Check, Allocate, Register, Trim, Carve, Unindex, DropFh, Unrow, Insert, Push, Row,
     Reply, DropSessions, DropRecord, Strip, Remove, Purge, Retired, Does
<1> QED
  BY <1>1, <1>2

(* A step that leaves the threads as they are. *)
LEMMA HoldSame ==
  ASSUME HoldInv, ~ overlap, ~ lost, UNCHANGED thr, \A W : HoldFor(W) => HoldFor(W)'
  PROVE  HoldInv'
<1>1. CASE (\A u \in Threads : thr[u] = Idle) /\ HoldFor(Idle)
  BY <1>1 DEF HoldInv
<1>2. CASE \E t \in Threads : Alone(t) /\ HoldFor(thr[t])
  <2>1. PICK t \in Threads : Alone(t) /\ HoldFor(thr[t])
    BY <1>2
  <2>2. PICK W : W = thr[t]
    OBVIOUS
  <2>3. HoldFor(W)' /\ thr'[t] = W
    BY <2>1, <2>2
  <2>4. HoldFor(thr[t])' /\ Alone(t)'
    BY <2>1, <2>3 DEF Alone, HoldFor, Holds
  <2> QED
    BY <2>4 DEF HoldInv
<1> QED
  BY <1>1, <1>2 DEF HoldInv

LEMMA HoldNext ==
  ASSUME AnyInv, OneInv, RegOK, HoldInv, [Next]_vars
  PROVE  HoldInv'
<1> SUFFICES ASSUME ~ overlap', ~ lost' PROVE HoldInv'
  BY DEF HoldInv
<1>1. ~ overlap /\ ~ lost
  <2>1. UNCHANGED overlap \/ overlap' = (overlap \/ ~ Quiet)
    BY DEF Next, vars
  <2>2. UNCHANGED lost \/ lost' = (lost \/ disk # rows \/ ~ Quiet)
    BY DEF Next, vars
  <2>3. ~ overlap
    <3>1. CASE UNCHANGED overlap
      BY <3>1
    <3>2. CASE overlap' = (overlap \/ ~ Quiet)
      BY <3>2
    <3> QED
      BY <2>1, <3>1, <3>2
  <2>4. ~ lost
    <3>1. CASE UNCHANGED lost
      BY <3>1
    <3>2. CASE lost' = (lost \/ disk # rows \/ ~ Quiet)
      BY <3>2
    <3> QED
      BY <2>2, <3>1, <3>2
  <2> QED
    BY <2>3, <2>4
<1>2. CASE (\E t \in Threads : Request(t)) /\ overlap' = (overlap \/ ~ Quiet)
  <2>1. PICK t \in Threads : Request(t)
    BY <1>2
  <2>2. Quiet
    BY <1>2
  <2>3. Exact(<<>>) /\ \A u \in Threads : thr[u] = Idle
    BY <1>1, <2>2, QuietExact
  <2>4. HoldFor(Idle)
    BY <1>1, <2>1, <2>3, HoldQuiet
  <2>5. HoldFor(thr[t])'
    BY <2>1, <2>3, <2>4, HoldRequest
  <2>6. Alone(t)'
    BY <1>1, <2>1, <2>2, OneRequest DEF OneAt
  <2> QED
    BY <2>5, <2>6 DEF HoldInv
<1>3. CASE \E t \in Threads : Step(t)
  <2>1. PICK t \in Threads : Step(t)
    BY <1>3
  <2>2. HoldFor(thr[t])
    BY <1>1, <2>1, StepWorks, HoldThen
  <2>3. Holds(thr[t])'
    BY <2>1, <2>2, HoldStep DEF HoldFor
  <2>4. RegRows(rows')
    BY <1>1, <2>1, <2>2, RegRowsStep DEF HoldFor
  <2>5. RegRows(disk')
    BY <2>1, <2>2, StepRows DEF HoldFor
  <2>6. Alone(t)'
    BY <1>1, <2>1, OneStep DEF OneAt
  <2>7. HoldFor(thr[t])'
    BY <2>3, <2>4, <2>5 DEF HoldFor
  <2> QED
    BY <2>6, <2>7 DEF HoldInv
<1>4. ASSUME Quiet, Load(rows)
      PROVE  HoldInv'
  <2>1. Exact(<<>>) /\ \A u \in Threads : thr[u] = Idle
    BY <1>1, <1>4, QuietExact
  <2>2. HoldFor(Idle)
    BY <1>1, <2>1 DEF HoldInv
  <2>3. HoldFor(Idle)' /\ \A u \in Threads : thr'[u] = Idle
    BY <1>4, <2>1, <2>2, HoldLoad
  <2> QED
    BY <2>3 DEF HoldInv
<1>5. CASE Restart
  BY <1>4, <1>5 DEF Restart
<1>6. CASE Crash /\ lost' = (lost \/ disk # rows \/ ~ Quiet)
  <2>1. ~ (lost \/ disk # rows \/ ~ Quiet)
    BY <1>6
  <2>2. disk = rows /\ Quiet
    BY <2>1
  <2> QED
    BY <1>4, <1>6, <2>2 DEF Crash
<1>7. CASE \E o \in Owners : StateIdLost(o)
  <2>1. PICK o \in Owners : StateIdLost(o)
    BY <1>7
  <2>2. UNCHANGED <<thr, rows, disk>>
    BY <2>1 DEF StateIdLost
  <2>3. ASSUME NEW W, HoldFor(W) PROVE HoldFor(W)'
    BY <2>1, <2>2, <2>3, HoldStateIdLost DEF HoldFor
  <2> QED
    BY <1>1, <2>2, <2>3, HoldSame
<1>8. CASE /\ UNCHANGED <<thr, known, owners, states, sidCtr, locks, recs, live, rows>>
           /\ disk' \in {disk, rows}
  <2>1. ASSUME NEW W, HoldFor(W) PROVE HoldFor(W)'
    BY <1>8, <2>1 DEF HoldFor, Holds
  <2> QED
    BY <1>1, <1>8, <2>1, HoldSame
<1>9. Commit \/ GraceEnds \/ UNCHANGED vars =>
         /\ UNCHANGED <<thr, known, owners, states, sidCtr, locks, recs, live, rows>>
         /\ disk' \in {disk, rows}
  BY DEF Commit, GraceEnds, mem, vars
<1> QED
  BY <1>2, <1>3, <1>5, <1>6, <1>7, <1>8, <1>9 DEF Next

LEMMA HoldInit == Init => HoldInv
<1> SUFFICES ASSUME Init PROVE HoldInv
  OBVIOUS
<1>1. /\ DOMAIN locks = {} /\ DOMAIN owners = {} /\ known = [o \in Owners |-> 0] /\ disk = rows
      /\ live = Clients /\ recs = Clients /\ thr = [t \in Threads |-> Idle]
  BY DEF Init
<1>2. \A k : ~ LockRow(rows, k)
  BY DEF Init, LockRow
<1>3. AllNamed(owners, states, sidCtr) /\ AllKnown(locks, recs, known) /\ Knows(known, owners)
  BY <1>1 DEF AllNamed, AllKnown, Knows
<1>4. /\ Minted(Idle, owners, states, sidCtr) /\ Secured(Idle, locks, recs, known, owners)
      /\ Ordered(Idle.todo) /\ AskOK(Idle, live, known, owners, states) /\ RetireOK(Idle, live, known)
  BY <1>3, IdleHolds
<1>5. HoldFor(Idle)
  BY <1>1, <1>2, <1>3, <1>4 DEF HoldFor, Holds, RegRows
<1> QED
  BY <1>1, <1>5 DEF HoldInv

LEMMA HoldAlways == Spec => []HoldInv
<1>1. Init => HoldInv
  BY HoldInit
<1>2. AnyInv /\ OneInv /\ RegOK /\ HoldInv /\ [Next]_vars => HoldInv'
  BY HoldNext
<1> QED
  BY <1>1, <1>2, OneAlways, RegAlways, PTL DEF Spec

LEMMA HoldRests ==
  ASSUME AnyInv, HoldInv, Settled, ~ lost
  PROVE  AllNamed(owners, states, sidCtr) /\ AllKnown(locks, recs, known) /\ Knows(known, owners)
<1>1. ~ overlap /\ \A u \in Threads : thr[u] = Idle
  BY FreeIdle DEF Settled, Quiet, AnyInv
<1>2. HoldFor(Idle)
  BY <1>1 DEF HoldInv
<1> QED
  BY <1>2, RestedIs DEF HoldFor, Rested

(* LockManager's tables agree with one another, between requests that did  *)
(* not overlap and as long as no crash has lost work: the index and the    *)
(* quota's count are those of the locks, no lock is left of a client whose *)
(* record is gone, and whoever holds a lock holds the stateid that LOCKU   *)
(* resolves to it, however locks, releases, reclaims, teardowns and        *)
(* restarts follow one another.                                            *)
THEOREM TablesAgree == Spec => []LocksInv
<1>1. AnyInv /\ HoldInv => LocksTypeOK
  <2> SUFFICES ASSUME AnyInv, HoldInv PROVE LocksTypeOK
    OBVIOUS
  <2>1. TablesOK /\ ThreadsOK /\ count \in [Clients -> Nat]
    BY DEF AnyInv, CountOK
  <2>2. \A t \in Threads : thr[t].kind \in {"idle", "lock", "locku", "retire"}
    BY <2>1 DEF ThreadsOK, Works, Idle, Asks, Retires
  <2>3. \A i \in 1 .. Len(index) : index[i] \in 1 .. (keyCtr - 1)
    <3>1. PICK S : S = 1 .. keyCtr - 1
      OBVIOUS
    <3>2. index \in Seq(S)
      BY <2>1, <3>1 DEF TablesOK
    <3>3. \A i \in 1 .. Len(index) : index[i] \in S
      BY <3>2
    <3> QED
      BY <3>1, <3>3
  <2>4. ASSUME ~ lost, ~ overlap PROVE DOMAIN owners \subseteq 1 .. sidCtr - 1
    <3>1. \E W : HoldFor(W)
      BY <2>4 DEF HoldInv
    <3>2. PICK W : Minted(W, owners, states, sidCtr)
      BY <3>1 DEF HoldFor, Holds
    <3> QED
      BY <3>2 DEF Minted
  <2> QED
    BY <2>1, <2>2, <2>3, <2>4 DEF TablesOK, LocksTypeOK
<1>2. AnyInv /\ HoldInv => Releasable
  <2> SUFFICES ASSUME AnyInv, HoldInv, Settled, ~ lost, NEW k \in DOMAIN locks
               PROVE  LET o == locks[k].owner
                      IN  /\ known[o] \in DOMAIN states /\ known[o] \in DOMAIN owners
                          /\ owners[known[o]] = o
    BY DEF Releasable
  <2>1. locks[k].owner \in Owners
    BY DEF AnyInv, TablesOK, LockVals
  <2>2. known[locks[k].owner] # 0 /\ Knows(known, owners) /\ AllNamed(owners, states, sidCtr)
    BY HoldRests DEF AllKnown
  <2>3. Valid(known[locks[k].owner], locks[k].owner, owners)
    BY <2>1, <2>2 DEF Knows
  <2> QED
    BY <2>2, <2>3 DEF Valid, AllNamed
<1>3. AnyInv /\ HoldInv => NoOrphan
  BY HoldRests DEF NoOrphan, AllKnown
<1> QED
  BY <1>1, <1>2, <1>3, TablesAlwaysOK, HoldAlways, IndexListsEntries, QuotaCountsEntries, PTL
     DEF LocksInv

(* The state database follows the tables: between requests its captured    *)
(* writes come to exactly their rows, and at every moment what of them is  *)
(* committed has, with each lock, the registration of its owner, so that   *)
(* whatever a crash restores can be unlocked.                              *)
THEOREM DatabaseAlwaysFollows == Spec => []DatabaseFollows
<1>1. AnyInv /\ HoldInv => RegisteredOnDisk
  <2> SUFFICES ASSUME AnyInv, HoldInv, ~ overlap, ~ lost, NEW k \in RowsOf(disk, "lock")
               PROVE  \E s \in RowsOf(disk, "owner") : disk[<<"owner", s>>] = disk[<<"lock", k>>].owner
    BY DEF RegisteredOnDisk
  <2>1. RegRows(disk)
    BY DEF HoldInv, HoldFor
  <2>2. DbOK(disk, keyCtr, sidCtr) /\ keyCtr \in Nat
    BY DEF AnyInv, TablesOK
  <2>3. /\ \A n : n \in RowsOf(disk, "lock") <=> <<"lock", n>> \in DOMAIN disk
        /\ \A n : n \in RowsOf(disk, "owner") <=> <<"owner", n>> \in DOMAIN disk
    BY <2>2, RowsOfIs
  <2>4. LockRow(disk, k) /\ k \in Nat
    <3>1. <<"lock", k>> \in DOMAIN disk
      BY <2>3
    <3>2. k \in 1 .. keyCtr - 1
      BY <2>2, <3>1, RowIs
    <3> QED
      BY <2>2, <3>1, <3>2 DEF LockRow
  <2>5. PICK s \in Nat : <<"owner", s>> \in DOMAIN disk /\ disk[<<"owner", s>>] = disk[<<"lock", k>>].owner
    BY <2>1, <2>4 DEF RegRows, RowNamed
  <2> QED
    BY <2>3, <2>5
<1> QED
  BY <1>1, TablesAlwaysOK, HoldAlways, DatabaseMirrorsTables, PTL DEF DatabaseFollows

-----------------------------------------------------------------------------
(* Each owner has what it was told: HeldInv.  The operations left are      *)
(* taken as a set.                                                         *)

LEMMA InJoin ==
  ASSUME NEW ops \in Seq(Ops), NEW q \in Seq(Ops), q # <<>>
  PROVE  /\ In(ops \o Tail(q)) = In(ops) \cup In(Tail(q))
         /\ In(q) = {q[1]} \cup In(Tail(q))
         /\ In(Tail(q)) = {q[i] : i \in 2 .. Len(q)}
<1> DEFINE r == ops \o Tail(q)
<1>1. /\ Len(q) \in Nat /\ Len(q) >= 1 /\ Len(ops) \in Nat /\ Len(r) = Len(ops) + Len(q) - 1
      /\ \A i \in 1 .. Len(ops) + Len(q) - 1 :
               r[i] = IF i <= Len(ops) THEN ops[i] ELSE q[i - Len(ops) + 1]
  BY Joined
<1> HIDE DEF r
<1>2. Len(Tail(q)) = Len(q) - 1 /\ \A i \in 1 .. Len(q) - 1 : Tail(q)[i] = q[i + 1]
  OBVIOUS
<1>3. In(Tail(q)) = {q[i] : i \in 2 .. Len(q)}
  <2>1. \A i \in 1 .. Len(q) - 1 : i + 1 \in 2 .. Len(q)
    BY <1>1
  <2>2. \A i \in 2 .. Len(q) : i - 1 \in 1 .. Len(q) - 1 /\ (i - 1) + 1 = i
    BY <1>1
  <2>3. \A i \in 2 .. Len(q) : Tail(q)[i - 1] = q[i]
    BY <1>2, <2>2
  <2>4. \A z \in In(Tail(q)) : z \in {q[i] : i \in 2 .. Len(q)}
    BY <1>2, <2>1 DEF In
  <2>5. \A i \in 2 .. Len(q) : q[i] \in In(Tail(q))
    BY <1>2, <2>2, <2>3 DEF In
  <2> QED
    BY <2>4, <2>5
<1>4. In(q) = {q[1]} \cup In(Tail(q))
  <2>1. \A i \in 1 .. Len(q) : i = 1 \/ i \in 2 .. Len(q)
    BY <1>1
  <2>2. 1 \in 1 .. Len(q) /\ \A i \in 2 .. Len(q) : i \in 1 .. Len(q)
    BY <1>1
  <2> QED
    BY <1>3, <2>1, <2>2 DEF In
<1>5. \A i \in 1 .. Len(r) : \/ i \in 1 .. Len(ops) /\ r[i] = ops[i]
                             \/ i - Len(ops) + 1 \in 2 .. Len(q) /\ r[i] = q[i - Len(ops) + 1]
  BY <1>1
<1>6. \A i \in 1 .. Len(ops) : i \in 1 .. Len(r) /\ r[i] = ops[i]
  BY <1>1
<1>7. \A i \in 2 .. Len(q) : \E j \in 1 .. Len(r) : r[j] = q[i]
  <2> TAKE i \in 2 .. Len(q)
  <2>1. PICK j : j = i - 1 + Len(ops)
    OBVIOUS
  <2>2. /\ j \in 1 .. Len(ops) + Len(q) - 1 /\ ~ (j <= Len(ops)) /\ j - Len(ops) + 1 = i
        /\ j \in 1 .. Len(r)
    BY <1>1, <2>1
  <2> QED
    BY <1>1, <2>2
<1>8. In(r) = In(ops) \cup {q[i] : i \in 2 .. Len(q)}
  <2>1. ASSUME NEW z \in In(r) PROVE z \in In(ops) \cup {q[i] : i \in 2 .. Len(q)}
    BY <1>5, <2>1 DEF In
  <2>2. \A z \in In(ops) : z \in In(r)
    BY <1>6 DEF In
  <2>3. \A i \in 2 .. Len(q) : q[i] \in In(r)
    BY <1>7 DEF In
  <2> QED
    BY <2>1, <2>2, <2>3
<1> QED
  BY <1>3, <1>4, <1>8 DEF r

LEMMA InNone == In(<<>>) = {}
BY DEF In

LEMMA InOne ==
  ASSUME NEW x
  PROVE  In(<<x>>) = {x}
<1>1. Len(<<x>>) = 1 /\ <<x>>[1] = x /\ 1 .. 1 = {1}
  OBVIOUS
<1> QED
  BY <1>1 DEF In

(* What follows the head is neither a check nor, for now, a trim. *)
LEMMA RestIs ==
  ASSUME NEW q \in Seq(Ops), q # <<>>, ListOK(q)
  PROVE  /\ \A z \in In(Tail(q)) : z.op # "check"
         /\ TrimFirst(q) => \A z \in In(Tail(q)) : z.op # "trim"
<1>1. In(Tail(q)) = {q[i] : i \in 2 .. Len(q)}
  BY InJoin
<1>2. Len(q) \in Nat
  OBVIOUS
<1>3. \A i \in 2 .. Len(q) : q[i].op \in LaterOps \cup {"row", "unrow"}
  BY <1>2 DEF ListOK
<1> QED
  BY <1>1, <1>3 DEF LaterOps, TrimFirst

LEMMA TrimNever ==
  ASSUME NEW q \in Seq(Ops), \A z \in In(q) : z.op # "trim"
  PROVE  TrimFirst(q)
BY DEF In, TrimFirst

(* Two works of the same request. *)
Alike(W, X) ==
    /\ X.kind = W.kind
    /\ W.kind = "retire" => X.client = W.client
    /\ W.kind \in {"lock", "locku"} => X.owner = W.owner /\ X.type = W.type /\ X.range = W.range

LEMMA AlikeIs ==
  ASSUME NEW W, NEW X, Alike(W, X)
  PROVE  /\ \A c : Tears(X, c) <=> Tears(W, c)
         /\ \A o, b : Asked(X, o, b) <=> Asked(W, o, b)
BY DEF Alike, Tears, Asked

(* The operations that move bytes. *)
Movers == {"check", "trim", "carve", "insert"}

SameMoves(Z, Y) == \A z : z.op \in Movers => (z \in Y <=> z \in Z)

LEMMA SameDue ==
  ASSUME NEW Z, NEW Y, SameMoves(Z, Y)
  PROVE  /\ \A o, b, x : Due(Y, o, b, x) <=> Due(Z, o, b, x)
         /\ \A k : Carvable(Y, k) <=> Carvable(Z, k)
         /\ Checking(Y) <=> Checking(Z)
<1>1. \A z : z.op \in {"check", "trim", "carve", "insert"} => (z \in Y <=> z \in Z)
  BY DEF SameMoves, Movers
<1>2. ASSUME NEW o, NEW b, NEW x PROVE Due(Y, o, b, x) <=> Due(Z, o, b, x)
  BY <1>1 DEF Due
<1>3. ASSUME NEW k PROVE Carvable(Y, k) <=> Carvable(Z, k)
  BY <1>1 DEF Carvable
<1>4. Checking(Y) <=> Checking(Z)
  BY <1>1 DEF Checking
<1> QED
  BY <1>2, <1>3, <1>4

(* The locks of owners that are not torn down are the same. *)
KeptLocks(W, L, N) ==
    \A o \in Owners : ~ Tears(W, ClientOf[o]) =>
        \A k : /\ k \in DOMAIN N /\ N[k].owner = o <=> k \in DOMAIN L /\ L[k].owner = o
               /\ k \in DOMAIN N /\ N[k].owner = o => N[k] = L[k]

KeptWord(W, R, M, P) == \A o \in Owners : ClientOf[o] \in R /\ ~ Tears(W, ClientOf[o]) => P[o] = M[o]

(* A step that moves no byte of an owner that stays. *)
LEMMA HeldGoes ==
  ASSUME NEW W, NEW X, NEW Z, NEW Y, NEW L, NEW N, NEW R, NEW S, NEW M, NEW P,
         Truth(W, Z, L, R, M), Alike(W, X), SameMoves(Z, Y), S \subseteq R,
         KeptLocks(W, L, N), KeptWord(W, S, M, P)
  PROVE  Truth(X, Y, N, S, P)
<1> SUFFICES ASSUME NEW o \in Owners, NEW b \in U64, ClientOf[o] \in S, ~ Tears(X, ClientOf[o])
             PROVE  /\ ~ Asked(X, o, b) \/ Checking(Y) => AsTold(Y, N, P[o][b], o, b)
                    /\ Asked(X, o, b) => AsAsked(X, Y, N, o, b)
  BY DEF Truth
<1>1. ~ Tears(W, ClientOf[o]) /\ (Asked(X, o, b) <=> Asked(W, o, b))
  BY AlikeIs
<1>2. /\ ~ Asked(W, o, b) \/ Checking(Z) => AsTold(Z, L, M[o][b], o, b)
      /\ Asked(W, o, b) => AsAsked(W, Z, L, o, b)
  BY <1>1 DEF Truth
<1>3. /\ \A x : Due(Y, o, b, x) <=> Due(Z, o, b, x)
      /\ \A k : Carvable(Y, k) <=> Carvable(Z, k)
      /\ Checking(Y) <=> Checking(Z)
  BY SameDue
<1>4. P[o] = M[o]
  BY <1>1 DEF KeptWord
<1>5. \A k : /\ k \in DOMAIN N /\ Gives(N[k], o, b) <=> k \in DOMAIN L /\ Gives(L[k], o, b)
             /\ k \in DOMAIN N /\ Gives(N[k], o, b) => N[k] = L[k]
  BY <1>1 DEF KeptLocks, Gives
<1>6. \A x : Here(N, o, b, x) <=> Here(L, o, b, x)
  BY <1>5 DEF Here
<1>7. ASSUME ~ Asked(X, o, b) \/ Checking(Y) PROVE AsTold(Y, N, P[o][b], o, b)
  BY <1>1, <1>2, <1>3, <1>4, <1>6, <1>7 DEF AsTold
<1>8. ASSUME Asked(X, o, b) PROVE AsAsked(X, Y, N, o, b)
  <2>1. AsAsked(W, Z, L, o, b) /\ X.type = W.type /\ X.kind = W.kind
    BY <1>1, <1>2, <1>8 DEF Alike, Asked
  <2>2. \A k \in DOMAIN N : Gives(N[k], o, b) => Carvable(Y, k) \/ N[k].type = X.type
    BY <1>3, <1>5, <2>1 DEF AsAsked
  <2>3. ASSUME ~ Checking(Y)
        PROVE  /\ \A x \in LockTypes : Due(Y, o, b, x) => x = X.type
               /\ X.kind = "lock" =>
                     \/ Due(Y, o, b, X.type)
                     \/ \E k \in DOMAIN N : /\ Gives(N[k], o, b) /\ N[k].type = X.type
                                            /\ ~ Carvable(Y, k)
    BY <1>3, <1>5, <2>1, <2>3 DEF AsAsked
  <2> QED
    BY <2>2, <2>3 DEF AsAsked
<1> QED
  BY <1>7, <1>8

LEMMA KeptSame == \A W, L : KeptLocks(W, L, L)
BY DEF KeptLocks

LEMMA MovedAlike ==
  ASSUME NEW t, NEW ops, Moved(t, ops)
  PROVE  Alike(thr[t], thr'[t]) /\ thr'[t].todo = ops \o Tail(thr[t].todo)
BY DEF Moved, Alike

(* The steps of a request that move no byte of an owner that stays. *)
LEMMA HeldMoves ==
  ASSUME ThreadsOK, NEW t \in Threads, HeldFor(thr[t]), NEW o, Does(t, o), o \notin Movers,
         NEW ops \in Seq(Ops), \A i \in 1 .. Len(ops) : ops[i].op \notin Movers,
         Alike(thr[t], thr'[t]), thr'[t].todo = ops \o Tail(thr[t].todo),
         KeptLocks(thr[t], locks, locks'), recs' \subseteq recs, KeptWord(thr[t], recs', told, told'),
         o = "record" => thr[t].client \notin recs'
  PROVE  HeldFor(thr[t])'
<1>1. PICK W : W = thr[t]
  OBVIOUS
<1>2. PICK X : X = thr'[t]
  OBVIOUS
<1>3. PICK q : q = W.todo
  OBVIOUS
<1>4. /\ q \in Seq(Ops) /\ q # <<>> /\ ListOK(q) /\ q[1].op = o
  BY <1>1, <1>3, HeadIs, TodoIs DEF Todo
<1>5. Truth(W, In(q), locks, recs, told) /\ Leaves(W, recs) /\ TrimFirst(q) /\ Unlocks(W)
  BY <1>1, <1>3 DEF HeldFor
<1>6. PICK Y : Y = In(X.todo)
  OBVIOUS
<1>7. PICK T : T = In(Tail(q))
  OBVIOUS
<1>8. Y = In(ops) \cup T /\ In(q) = {q[1]} \cup T
  BY <1>1, <1>2, <1>3, <1>4, <1>6, <1>7, InJoin
<1>9. \A z \in In(ops) : z.op \notin Movers
  BY DEF In
<1>10. SameMoves(In(q), Y)
  BY <1>4, <1>8, <1>9 DEF SameMoves
<1>11. Truth(X, Y, locks', recs', told')
  BY <1>1, <1>2, <1>5, <1>10, HeldGoes
<1>12. TrimFirst(X.todo)
  <2>1. X.todo \in Seq(Ops)
    <3>1. ops \o Tail(q) \in Seq(Ops)
      BY <1>4, Joined
    <3> QED
      BY <1>1, <1>2, <1>3, <3>1
  <2>2. \A z \in T : z.op # "trim"
    BY <1>4, <1>5, <1>7, RestIs
  <2>3. \A z \in Y : z.op # "trim"
    BY <1>8, <1>9, <2>2 DEF Movers
  <2> QED
    BY <1>6, <2>1, <2>3, TrimNever
<1>13. Leaves(X, recs')
  <2> SUFFICES ASSUME X.kind = "retire", X.client \in recs'
               PROVE  Has(X.todo, "record")
    BY DEF Leaves
  <2>1. W.kind = "retire" /\ X.client = W.client /\ W.client \in recs
    BY <1>1, <1>2 DEF Alike
  <2>2. Has(q, "record") /\ o # "record"
    BY <1>1, <1>3, <1>5, <2>1 DEF Leaves
  <2>3. \E z \in In(q) : z.op = "record"
    BY <2>2 DEF Has, In
  <2>4. \E z \in Y : z.op = "record"
    BY <1>4, <1>8, <2>2, <2>3
  <2> QED
    BY <1>6, <2>4 DEF Has, In
<1>14. Unlocks(X)
  BY <1>1, <1>2, <1>5 DEF Unlocks, Alike
<1> QED
  BY <1>2, <1>6, <1>11, <1>12, <1>13, <1>14 DEF HeldFor

LEMMA HeldPlain ==
  ASSUME AnyInv, NEW t \in Threads, HeldFor(thr[t]),
         \/ Allocate(t) \/ Register(t) \/ Unindex(t) \/ DropFh(t) \/ Unrow(t) \/ Push(t) \/ Row(t)
         \/ Strip(t) \/ Purge(t)
  PROVE  HeldFor(thr[t])'
<1>1. ThreadsOK /\ TablesOK
  BY DEF AnyInv
<1>2. UNCHANGED <<locks, recs, told>>
  BY DEF Allocate, Register, Unindex, DropFh, Unrow, Push, Row, Strip, Purge, mem
<1>3. ASSUME NEW o, Does(t, o), o \notin Movers, o # "record",
             NEW ops \in Seq(Ops), \A i \in 1 .. Len(ops) : ops[i].op \notin Movers,
             Alike(thr[t], thr'[t]), thr'[t].todo = ops \o Tail(thr[t].todo)
      PROVE  HeldFor(thr[t])'
  <2>1. KeptLocks(thr[t], locks, locks') /\ KeptWord(thr[t], recs', told, told') /\ recs' \subseteq recs
    BY <1>2, KeptSame DEF KeptWord
  <2> QED
    BY <1>1, <1>3, <2>1, HeldMoves
<1>4. <<>> \in Seq(Ops) /\ \A i \in 1 .. Len(<<>>) : <<>>[i].op \notin Movers
  OBVIOUS
<1>5. CASE Register(t) \/ DropFh(t) \/ Unrow(t) \/ Push(t) \/ Row(t) \/ Purge(t)
  <2>1. Moved(t, <<>>)
    BY <1>5, AnyRegister, AnyDropFh, AnyUnrow, AnyPush, AnyRow, AnyPurge
  <2>2. \E o \in {"register", "dropfh", "unrow", "push", "row", "purge"} : Does(t, o)
    BY <1>5 DEF Register, DropFh, Unrow, Push, Row, Purge
  <2>3. {"register", "dropfh", "unrow", "push", "row", "purge"} \cap Movers = {}
    BY DEF Movers
  <2> QED
    BY <1>3, <1>4, <2>1, <2>2, <2>3, MovedAlike
<1>6. CASE Allocate(t)
  <2>1. Does(t, "allocate") /\ "allocate" \notin Movers
    BY <1>6 DEF Allocate, Movers
  <2>2. thr[t].todo \in Seq(Ops) /\ thr[t].todo # <<>> /\ thr[t].kind \in {"lock", "locku"}
    BY <1>1, <2>1, HeadIs, AskHead DEF Todo, RetireOps
  <2>3. Tail(thr[t].todo) \in Seq(Ops)
    BY <2>2
  <2>4. thr'[t].todo = <<>> \o Tail(thr[t].todo)
    BY <1>6, <2>3, AnyAllocate, EmptyJoin
  <2>5. Alike(thr[t], thr'[t])
    BY <1>6, <2>2, AnyAllocate DEF Alike
  <2> QED
    BY <1>3, <1>4, <2>1, <2>4, <2>5
<1>7. CASE Strip(t)
  <2>1. Does(t, "strip") /\ "strip" \notin Movers /\ "remove" \notin Movers
    BY <1>7 DEF Strip, Movers
  <2>2. PICK r : r = Strips(thr[t].client)
    OBVIOUS
  <2>3. r \in Seq(Ops) /\ \A i \in 1 .. Len(r) : r[i].op = "remove"
    BY <1>1, <2>2, StripsAre
  <2>4. Moved(t, r)
    BY <1>7, <2>2, AnyStrip
  <2> QED
    BY <1>3, <2>1, <2>3, <2>4, MovedAlike
<1>8. CASE Unindex(t)
  <2>1. Does(t, "unindex") /\ "unindex" \notin Movers /\ "dropfh" \notin Movers
    BY <1>8 DEF Unindex, Movers
  <2>2. PICK r : r = Emptied
    OBVIOUS
  <2>3. Moved(t, r)
    BY <1>8, <2>2, AnyUnindex
  <2>4. r \in Seq(Ops) /\ \A i \in 1 .. Len(r) : r[i].op \notin Movers
    <3>1. CASE r = <<>>
      BY <1>4, <3>1
    <3>2. CASE r = <<[op |-> "dropfh"]>>
      <4>1. [op |-> "dropfh"] \in Ops /\ [op |-> "dropfh"].op = "dropfh"
        BY BareOp DEF BareOps
      <4>2. r \in Seq(Ops) /\ Len(r) = 1 /\ r[1].op = "dropfh"
        BY <3>2, <4>1
      <4> QED
        BY <2>1, <4>2
    <3> QED
      BY <2>2, <3>1, <3>2 DEF Emptied
  <2> QED
    BY <1>3, <2>1, <2>3, <2>4, MovedAlike
<1> QED
  BY <1>5, <1>6, <1>7, <1>8

(* The teardown takes the sessions, the record and the locks of its own    *)
(* client only.                                                            *)
LEMMA HeldRetire ==
  ASSUME AnyInv, NEW t \in Threads, HeldFor(thr[t]), DropSessions(t) \/ DropRecord(t) \/ Remove(t)
  PROVE  HeldFor(thr[t])'
<1>1. ThreadsOK /\ TablesOK
  BY DEF AnyInv
<1>2. <<>> \in Seq(Ops) /\ \A i \in 1 .. Len(<<>>) : <<>>[i].op \notin Movers
  OBVIOUS
<1>3. {"sessions", "record", "remove", "unindex", "unrow"} \cap Movers = {}
  BY DEF Movers
<1>4. CASE DropSessions(t)
  <2>1. /\ Does(t, "sessions") /\ Moved(t, <<>>) /\ thr[t].kind = "retire"
        /\ UNCHANGED <<locks, recs>>
        /\ \A o \in Owners : told'[o] = IF ClientOf[o] = thr[t].client THEN Nothing ELSE told[o]
    BY <1>4, AnyDropSessions DEF DropSessions
  <2>2. KeptLocks(thr[t], locks, locks') /\ KeptWord(thr[t], recs', told, told') /\ recs' \subseteq recs
    BY <2>1, KeptSame DEF KeptWord, Tears
  <2>3. "sessions" # "record" /\ "sessions" \notin Movers
    BY <1>3
  <2>4. Alike(thr[t], thr'[t]) /\ thr'[t].todo = <<>> \o Tail(thr[t].todo)
    BY <2>1, MovedAlike
  <2> QED
    BY <1>1, <1>2, <2>1, <2>2, <2>3, <2>4, HeldMoves
<1>5. CASE DropRecord(t)
  <2>1. /\ Does(t, "record") /\ Moved(t, <<>>) /\ thr[t].kind = "retire"
        /\ UNCHANGED <<locks, told>> /\ recs' = recs \ {thr[t].client}
    BY <1>5, AnyDropRecord DEF DropRecord, mem
  <2>2. KeptLocks(thr[t], locks, locks') /\ KeptWord(thr[t], recs', told, told') /\ recs' \subseteq recs
    BY <2>1, KeptSame DEF KeptWord
  <2>3. thr[t].client \notin recs' /\ "record" \notin Movers
    BY <1>3, <2>1
  <2>4. Alike(thr[t], thr'[t]) /\ thr'[t].todo = <<>> \o Tail(thr[t].todo)
    BY <2>1, MovedAlike
  <2> QED
    BY <1>1, <1>2, <2>1, <2>2, <2>3, <2>4, HeldMoves
<1>6. CASE Remove(t)
  <2>1. /\ Does(t, "remove") /\ thr[t].kind = "retire" /\ UNCHANGED <<recs, told>>
    BY <1>6, AnyRemove DEF Remove
  <2>2. KeptWord(thr[t], recs', told, told') /\ recs' \subseteq recs
    BY <2>1 DEF KeptWord
  <2>3. PICK k : k = NextOp(t).key
    OBVIOUS
  <2>4. CASE UNCHANGED locks /\ Moved(t, <<>>)
    <3>1. KeptLocks(thr[t], locks, locks')
      BY <2>4, KeptSame
    <3> QED
      BY <1>1, <1>2, <1>3, <2>1, <2>2, <2>4, <3>1, HeldMoves, MovedAlike
  <2>5. CASE /\ k \in DOMAIN locks /\ locks' = Del(locks, {k}) /\ Moved(t, Removal(k))
             /\ ClientOf[locks[k].owner] = thr[t].client
    <3>1. k \in Nat
      <4>1. keyCtr \in Nat /\ k \in 1 .. keyCtr - 1
        BY <1>1, <2>5 DEF TablesOK
      <4> QED
        BY <4>1
    <3>2. PICK r : r = Removal(k)
      OBVIOUS
    <3>3. /\ r \in Seq(Ops) /\ Len(r) = 2 /\ r[1].op = "unindex" /\ r[2].op = "unrow"
      BY <3>1, <3>2, RemovalIs
    <3>4. \A i \in 1 .. Len(r) : r[i].op \notin Movers
      <4>1. \A i \in 1 .. 2 : i = 1 \/ i = 2
        OBVIOUS
      <4> QED
        BY <1>3, <3>3, <4>1
    <3>5. PICK N : N = locks'
      OBVIOUS
    <3>6. DOMAIN N = DOMAIN locks \ {k} /\ \A j \in DOMAIN N : N[j] = locks[j]
      BY <2>5, <3>5 DEF Del
    <3>7. Tears(thr[t], ClientOf[locks[k].owner])
      BY <2>1, <2>5 DEF Tears
    <3>8. KeptLocks(thr[t], locks, N)
      BY <3>6, <3>7 DEF KeptLocks
    <3>9. Alike(thr[t], thr'[t]) /\ thr'[t].todo = r \o Tail(thr[t].todo)
      BY <2>5, <3>2, MovedAlike
    <3>10. KeptLocks(thr[t], locks, locks')
      BY <3>5, <3>8
    <3>11. "remove" \notin Movers /\ "remove" # "record" /\ Does(t, "remove") /\ r \in Seq(Ops)
      BY <1>3, <2>1, <3>3
    <3> QED
      BY <1>1, <2>2, <3>4, <3>9, <3>10, <3>11, HeldMoves, Zenon
  <2> QED
    BY <1>6, <2>3, <2>4, <2>5, AnyRemove
<1> QED
  BY <1>4, <1>5, <1>6

-----------------------------------------------------------------------------
(* What each step of a LOCK or a LOCKU makes of the bytes.  z is the       *)
(* operation it does and T what is left after it.                          *)

LEMMA DueUnion ==
  ASSUME NEW A, NEW B
  PROVE  /\ \A o, b, x : Due(A \cup B, o, b, x) <=> Due(A, o, b, x) \/ Due(B, o, b, x)
         /\ \A k : Carvable(A \cup B, k) <=> Carvable(A, k) \/ Carvable(B, k)
         /\ Checking(A \cup B) <=> Checking(A) \/ Checking(B)
BY DEF Due, Carvable, Checking

LEMMA DueNone ==
  ASSUME NEW A, \A z \in A : z.op # "insert"
  PROVE  \A o, b, x : ~ Due(A, o, b, x)
BY DEF Due

LEMMA CarvesNone ==
  ASSUME NEW A, \A z \in A : z.op \notin {"check", "trim", "carve"}
  PROVE  ~ Checking(A) /\ \A k : ~ Carvable(A, k)
BY DEF Carvable, Checking

(* trim_owner_range lists every entry there is. *)
LEMMA TruthTrim ==
  ASSUME NEW W, NEW X, NEW T, NEW C, NEW z, z.op = "trim", NEW L, NEW R, NEW M,
         Truth(W, {z} \cup T, L, R, M), Alike(W, X), ~ Checking(T),
         \A y \in C : y.op = "carve", \A k \in DOMAIN L : \E y \in C : y.key = k
  PROVE  Truth(X, C \cup T, L, R, M)
<1> SUFFICES ASSUME NEW o \in Owners, NEW b \in U64, ClientOf[o] \in R, ~ Tears(X, ClientOf[o])
             PROVE  /\ ~ Asked(X, o, b) \/ Checking(C \cup T) => AsTold(C \cup T, L, M[o][b], o, b)
                    /\ Asked(X, o, b) => AsAsked(X, C \cup T, L, o, b)
  BY DEF Truth
<1> DEFINE Z == {z} \cup T
           Y == C \cup T
<1>1. ~ Tears(W, ClientOf[o]) /\ (Asked(X, o, b) <=> Asked(W, o, b))
  BY AlikeIs
<1>2. /\ ~ Asked(W, o, b) \/ Checking(Z) => AsTold(Z, L, M[o][b], o, b)
      /\ Asked(W, o, b) => AsAsked(W, Z, L, o, b)
  BY <1>1 DEF Truth
<1>3. ~ Checking({z}) /\ ~ Checking(C)
  BY DEF Checking
<1>4. (\A x : ~ Due({z}, o, b, x)) /\ \A x : ~ Due(C, o, b, x)
  BY DueNone
<1>5. /\ \A x : Due(Y, o, b, x) <=> Due(T, o, b, x)
      /\ \A x : Due(Z, o, b, x) <=> Due(T, o, b, x)
      /\ ~ Checking(Y) /\ ~ Checking(Z)
  BY <1>3, <1>4, DueUnion
<1>6. /\ \A k : Carvable(Z, k)
      /\ \A k \in DOMAIN L : Carvable(Y, k)
  BY DEF Carvable
<1> HIDE DEF Y, Z
<1>7. ASSUME ~ Asked(X, o, b) PROVE AsTold(Y, L, M[o][b], o, b)
  BY <1>1, <1>2, <1>5, <1>7 DEF AsTold
<1>8. ASSUME Asked(X, o, b) PROVE AsAsked(X, Y, L, o, b)
  <2>1. AsAsked(W, Z, L, o, b) /\ X.type = W.type /\ X.kind = W.kind
    BY <1>1, <1>2, <1>8 DEF Alike, Asked
  <2> QED
    BY <1>5, <1>6, <2>1 DEF AsAsked
<1> QED
  BY <1>5, <1>7, <1>8 DEF Y

(* A key of the trim that is not the owner's, or shares no byte. *)
LEMMA TruthSkip ==
  ASSUME NEW W, NEW X, NEW T, NEW z, z.op = "carve", NEW L, NEW R, NEW M,
         Truth(W, {z} \cup T, L, R, M), Alike(W, X),
         z.key \in DOMAIN L => \A o, b : Gives(L[z.key], o, b) => ~ Asked(W, o, b)
  PROVE  Truth(X, T, L, R, M)
<1> SUFFICES ASSUME NEW o \in Owners, NEW b \in U64, ClientOf[o] \in R, ~ Tears(X, ClientOf[o])
             PROVE  /\ ~ Asked(X, o, b) \/ Checking(T) => AsTold(T, L, M[o][b], o, b)
                    /\ Asked(X, o, b) => AsAsked(X, T, L, o, b)
  BY DEF Truth
<1> DEFINE Z == {z} \cup T
<1>1. ~ Tears(W, ClientOf[o]) /\ (Asked(X, o, b) <=> Asked(W, o, b))
  BY AlikeIs
<1>2. /\ ~ Asked(W, o, b) \/ Checking(Z) => AsTold(Z, L, M[o][b], o, b)
      /\ Asked(W, o, b) => AsAsked(W, Z, L, o, b)
  BY <1>1 DEF Truth
<1>3. ~ Checking({z}) /\ \A x : ~ Due({z}, o, b, x)
  BY DueNone DEF Checking
<1>4. /\ \A x : Due(Z, o, b, x) <=> Due(T, o, b, x)
      /\ Checking(Z) <=> Checking(T)
  BY <1>3, DueUnion
<1>5. \A k : Carvable({z}, k) <=> k = z.key
  BY DEF Carvable
<1>6. \A k : Carvable(Z, k) <=> k = z.key \/ Carvable(T, k)
  BY <1>5, DueUnion
<1> HIDE DEF Z
<1>7. ASSUME ~ Asked(X, o, b) \/ Checking(T) PROVE AsTold(T, L, M[o][b], o, b)
  BY <1>1, <1>2, <1>4, <1>7 DEF AsTold
<1>8. ASSUME Asked(X, o, b) PROVE AsAsked(X, T, L, o, b)
  <2>1. AsAsked(W, Z, L, o, b) /\ X.type = W.type /\ X.kind = W.kind
    BY <1>1, <1>2, <1>8 DEF Alike, Asked
  <2>2. \A k \in DOMAIN L : Gives(L[k], o, b) => k # z.key
    BY <1>1, <1>8
  <2> QED
    BY <1>4, <1>6, <2>1, <2>2 DEF AsAsked
<1> QED
  BY <1>7, <1>8

(* A key of the trim that is the owner's: D puts back what was not cut. *)
LEMMA TruthCut ==
  ASSUME NEW W, NEW X, NEW T, NEW D, NEW z, z.op = "carve", NEW L, NEW N, NEW R, NEW M,
         Truth(W, {z} \cup T, L, R, M), Alike(W, X), ~ Checking(T), z.key \in DOMAIN L,
         DOMAIN N = DOMAIN L \ {z.key}, \A k \in DOMAIN N : N[k] = L[k],
         \A y \in D : y.op \notin {"check", "trim", "carve"},
         \A o, b, x : Due(D, o, b, x) <=> /\ Gives(L[z.key], o, b) /\ ~ Asked(W, o, b)
                                          /\ L[z.key].type = x
  PROVE  Truth(X, D \cup T, N, R, M)
<1> SUFFICES ASSUME NEW o \in Owners, NEW b \in U64, ClientOf[o] \in R, ~ Tears(X, ClientOf[o])
             PROVE  /\ ~ Asked(X, o, b) \/ Checking(D \cup T) => AsTold(D \cup T, N, M[o][b], o, b)
                    /\ Asked(X, o, b) => AsAsked(X, D \cup T, N, o, b)
  BY DEF Truth
<1> DEFINE Z == {z} \cup T
           Y == D \cup T
<1>1. ~ Tears(W, ClientOf[o]) /\ (Asked(X, o, b) <=> Asked(W, o, b))
  BY AlikeIs
<1>2. /\ ~ Asked(W, o, b) \/ Checking(Z) => AsTold(Z, L, M[o][b], o, b)
      /\ Asked(W, o, b) => AsAsked(W, Z, L, o, b)
  BY <1>1 DEF Truth
<1>3. ~ Checking({z}) /\ \A x : ~ Due({z}, o, b, x)
  BY DueNone DEF Checking
<1>4. ~ Checking(D) /\ \A k : ~ Carvable(D, k)
  BY CarvesNone
<1>5. \A k : Carvable({z}, k) <=> k = z.key
  BY DEF Carvable
<1>6. /\ \A x : Due(Z, o, b, x) <=> Due(T, o, b, x)
      /\ \A x : Due(Y, o, b, x) <=> Due(D, o, b, x) \/ Due(T, o, b, x)
      /\ ~ Checking(Z) /\ ~ Checking(Y)
  BY <1>3, <1>4, DueUnion
<1>7. /\ \A k : Carvable(Z, k) <=> k = z.key \/ Carvable(T, k)
      /\ \A k : Carvable(Y, k) <=> Carvable(T, k)
  BY <1>4, <1>5, DueUnion
<1> HIDE DEF Y, Z
<1>8. ASSUME ~ Asked(X, o, b) PROVE AsTold(Y, N, M[o][b], o, b)
  <2>1. \A x : Here(L, o, b, x) <=> Here(N, o, b, x) \/ (Gives(L[z.key], o, b) /\ L[z.key].type = x)
    BY DEF Here
  <2>2. \A x : Here(L, o, b, x) \/ Due(Z, o, b, x) <=> Here(N, o, b, x) \/ Due(Y, o, b, x)
    BY <1>1, <1>6, <1>8, <2>1
  <2> QED
    BY <1>1, <1>2, <1>8, <2>2 DEF AsTold
<1>9. ASSUME Asked(X, o, b) PROVE AsAsked(X, Y, N, o, b)
  <2>1. AsAsked(W, Z, L, o, b) /\ X.type = W.type /\ X.kind = W.kind
    BY <1>1, <1>2, <1>9 DEF Alike, Asked
  <2>2. \A x : Due(Y, o, b, x) <=> Due(Z, o, b, x)
    BY <1>1, <1>6, <1>9
  <2> QED
    BY <1>6, <1>7, <2>1, <2>2 DEF AsAsked
<1> QED
  BY <1>6, <1>8, <1>9 DEF Y

(* check_conflicts found none: the range asked for is on its way. *)
LEMMA TruthGrant ==
  ASSUME NEW W, NEW X, NEW Y, NEW z, z.op = "check", NEW L, NEW R, NEW M, W.type \in LockTypes,
         Truth(W, {z}, L, R, M), Alike(W, X), ~ Checking(Y),
         ~ z.new => \E y \in Y : y.op = "trim",
         \A o, b, x : Due(Y, o, b, x) <=> Asked(W, o, b) /\ x = W.type
  PROVE  Truth(X, Y, L, R, M)
<1> SUFFICES ASSUME NEW o \in Owners, NEW b \in U64, ClientOf[o] \in R, ~ Tears(X, ClientOf[o])
             PROVE  /\ ~ Asked(X, o, b) => AsTold(Y, L, M[o][b], o, b)
                    /\ Asked(X, o, b) => AsAsked(X, Y, L, o, b)
  BY DEF Truth
<1>1. ~ Tears(W, ClientOf[o]) /\ (Asked(X, o, b) <=> Asked(W, o, b))
  BY AlikeIs
<1>2. Checking({z}) /\ \A x : ~ Due({z}, o, b, x)
  BY DueNone DEF Checking
<1>3. /\ AsTold({z}, L, M[o][b], o, b)
      /\ Asked(W, o, b) => AsAsked(W, {z}, L, o, b)
  BY <1>1, <1>2 DEF Truth
<1>4. \A k : Carvable({z}, k) => Carvable(Y, k)
  BY DEF Carvable
<1>5. ASSUME ~ Asked(X, o, b) PROVE AsTold(Y, L, M[o][b], o, b)
  BY <1>1, <1>2, <1>3, <1>5 DEF AsTold
<1>6. ASSUME Asked(X, o, b) PROVE AsAsked(X, Y, L, o, b)
  <2>1. AsAsked(W, {z}, L, o, b) /\ X.type = W.type /\ X.kind = W.kind
    BY <1>1, <1>3, <1>6 DEF Alike, Asked
  <2>2. \A x : Due(Y, o, b, x) <=> x = W.type
    BY <1>1, <1>6
  <2> QED
    BY <1>4, <2>1, <2>2 DEF AsAsked
<1> QED
  BY <1>5, <1>6

(* add_lock: what was due is there, and nothing is left that carves it. *)
LEMMA TruthInsert ==
  ASSUME NEW W, NEW X, NEW T, NEW D, NEW z, z.op = "insert", NEW L, NEW N, NEW R, NEW M, NEW k,
         Truth(W, {z} \cup T, L, R, M), Alike(W, X), ~ Checking(T), z.lock.type \in LockTypes,
         k \notin DOMAIN L, DOMAIN N = DOMAIN L \cup {k}, N[k] = z.lock,
         \A j \in DOMAIN L : N[j] = L[j], ~ Carvable(T, k),
         \A y \in D : y.op \notin Movers
  PROVE  Truth(X, D \cup T, N, R, M)
<1> SUFFICES ASSUME NEW o \in Owners, NEW b \in U64, ClientOf[o] \in R, ~ Tears(X, ClientOf[o])
             PROVE  /\ ~ Asked(X, o, b) \/ Checking(D \cup T) => AsTold(D \cup T, N, M[o][b], o, b)
                    /\ Asked(X, o, b) => AsAsked(X, D \cup T, N, o, b)
  BY DEF Truth
<1> DEFINE Z == {z} \cup T
           Y == D \cup T
<1>1. ~ Tears(W, ClientOf[o]) /\ (Asked(X, o, b) <=> Asked(W, o, b))
  BY AlikeIs
<1>2. /\ ~ Asked(W, o, b) \/ Checking(Z) => AsTold(Z, L, M[o][b], o, b)
      /\ Asked(W, o, b) => AsAsked(W, Z, L, o, b)
  BY <1>1 DEF Truth
<1>3. ~ Checking({z}) /\ \A j : ~ Carvable({z}, j)
  <2>1. \A y \in {z} : y.op \notin {"check", "trim", "carve"}
    OBVIOUS
  <2> QED
    BY <2>1, CarvesNone
<1>4. ~ Checking(D) /\ (\A j : ~ Carvable(D, j)) /\ \A x : ~ Due(D, o, b, x)
  BY CarvesNone, DueNone DEF Movers
<1>5. \A x : Due({z}, o, b, x) <=> Gives(z.lock, o, b) /\ z.lock.type = x
  BY DEF Due
<1>6. /\ \A x : Due(Z, o, b, x) <=> (Gives(z.lock, o, b) /\ z.lock.type = x) \/ Due(T, o, b, x)
      /\ \A x : Due(Y, o, b, x) <=> Due(T, o, b, x)
      /\ ~ Checking(Z) /\ ~ Checking(Y)
  BY <1>3, <1>4, <1>5, DueUnion
<1>7. /\ \A j : Carvable(Z, j) <=> Carvable(T, j)
      /\ \A j : Carvable(Y, j) <=> Carvable(T, j)
  BY <1>3, <1>4, DueUnion
<1> HIDE DEF Y, Z
<1>8. ASSUME ~ Asked(X, o, b) PROVE AsTold(Y, N, M[o][b], o, b)
  <2>1. \A x : Here(N, o, b, x) <=> Here(L, o, b, x) \/ (Gives(z.lock, o, b) /\ z.lock.type = x)
    BY DEF Here
  <2>2. \A x : Here(L, o, b, x) \/ Due(Z, o, b, x) <=> Here(N, o, b, x) \/ Due(Y, o, b, x)
    BY <1>6, <2>1
  <2> QED
    BY <1>1, <1>2, <1>8, <2>2 DEF AsTold
<1>9. ASSUME Asked(X, o, b) PROVE AsAsked(X, Y, N, o, b)
  <2>1. AsAsked(W, Z, L, o, b) /\ X.type = W.type /\ X.kind = W.kind
    BY <1>1, <1>2, <1>9 DEF Alike, Asked
  <2>2. Gives(z.lock, o, b) => z.lock.type = W.type
    BY <1>6, <2>1 DEF AsAsked
  <2>3. \A j \in DOMAIN N : Gives(N[j], o, b) => Carvable(Y, j) \/ N[j].type = X.type
    BY <1>7, <2>1, <2>2 DEF AsAsked
  <2>4. \A x \in LockTypes : Due(Y, o, b, x) => x = X.type
    BY <1>6, <2>1 DEF AsAsked
  <2>5. ASSUME X.kind = "lock"
        PROVE  \/ Due(Y, o, b, X.type)
               \/ \E j \in DOMAIN N : Gives(N[j], o, b) /\ N[j].type = X.type /\ ~ Carvable(Y, j)
    <3>1. CASE Due(Z, o, b, W.type)
      BY <1>6, <1>7, <2>1, <3>1
    <3>2. CASE \E j \in DOMAIN L : Gives(L[j], o, b) /\ L[j].type = W.type /\ ~ Carvable(Z, j)
      BY <1>7, <2>1, <3>2
    <3> QED
      BY <1>6, <2>1, <2>5, <3>1, <3>2 DEF AsAsked
  <2> QED
    BY <2>3, <2>4, <2>5 DEF AsAsked
<1> QED
  BY <1>6, <1>8, <1>9 DEF Y

LEMMA IdleAsks == \A o, b, c : ~ Asked(Idle, o, b) /\ ~ Tears(Idle, c)
BY DEF Asked, Tears, Idle

(* The reply tells the owner what it now has. *)
LEMMA TruthReply ==
  ASSUME NEW W, NEW L, NEW R, NEW M, NEW P, Truth(W, {}, L, R, M), W.kind \in {"lock", "locku"},
         \A k \in DOMAIN L : L[k].type \in LockTypes, W.kind = "lock" => W.type \in LockTypes,
         W.kind = "locku" => W.type \notin LockTypes,
         \A o \in Owners : \A b \in U64 : P[o][b] = IF Asked(W, o, b) THEN W.type ELSE M[o][b]
  PROVE  Truth(Idle, {}, L, R, P)
<1> SUFFICES ASSUME NEW o \in Owners, NEW b \in U64, ClientOf[o] \in R
             PROVE  AsTold({}, L, P[o][b], o, b)
  BY IdleAsks DEF Truth
<1>1. ~ Checking({}) /\ (\A k : ~ Carvable({}, k)) /\ \A x : ~ Due({}, o, b, x)
  BY DEF Checking, Carvable, Due
<1>2. ~ Tears(W, ClientOf[o])
  BY DEF Tears
<1>3. CASE ~ Asked(W, o, b)
  BY <1>2, <1>3 DEF Truth
<1>4. CASE Asked(W, o, b)
  <2>1. AsAsked(W, {}, L, o, b) /\ P[o][b] = W.type
    BY <1>2, <1>4 DEF Truth
  <2>2. \A k \in DOMAIN L : Gives(L[k], o, b) => L[k].type = W.type
    BY <1>1, <2>1 DEF AsAsked
  <2>3. W.kind = "lock" => \E k \in DOMAIN L : Gives(L[k], o, b) /\ L[k].type = W.type
    BY <1>1, <2>1 DEF AsAsked
  <2>4. \A x \in LockTypes : Here(L, o, b, x) <=> W.type = x
    BY <2>2, <2>3 DEF Here
  <2> QED
    BY <1>1, <2>1, <2>4 DEF AsTold
<1> QED
  BY <1>3, <1>4

(* A LOCK that is denied has changed nothing. *)
LEMMA TruthDenied ==
  ASSUME NEW W, NEW z, z.op = "check", NEW L, NEW R, NEW M, Truth(W, {z}, L, R, M),
         \A c : ~ Tears(W, c)
  PROVE  Truth(Idle, {}, L, R, M)
<1> SUFFICES ASSUME NEW o \in Owners, NEW b \in U64, ClientOf[o] \in R
             PROVE  AsTold({}, L, M[o][b], o, b)
  BY IdleAsks DEF Truth
<1>1. Checking({z}) /\ (\A x : ~ Due({z}, o, b, x)) /\ \A x : ~ Due({}, o, b, x)
  BY DEF Checking, Due
<1>2. AsTold({z}, L, M[o][b], o, b)
  BY <1>1 DEF Truth
<1> QED
  BY <1>1, <1>2 DEF AsTold

(* A teardown that is over has taken the record. *)
LEMMA TruthLeft ==
  ASSUME NEW W, NEW L, NEW R, NEW M, Truth(W, {}, L, R, M), W.kind = "retire", W.client \notin R
  PROVE  Truth(Idle, {}, L, R, M)
<1> SUFFICES ASSUME NEW o \in Owners, NEW b \in U64, ClientOf[o] \in R
             PROVE  AsTold({}, L, M[o][b], o, b)
  BY IdleAsks DEF Truth
<1>1. ~ Tears(W, ClientOf[o]) /\ ~ Asked(W, o, b)
  BY DEF Tears, Asked
<1> QED
  BY <1>1 DEF Truth

(* The operation a thread does, and what it has left after it. *)
LEMMA HeldHead ==
  ASSUME ThreadsOK, NEW t \in Threads, HeldFor(thr[t]), NEW o, Does(t, o)
  PROVE  /\ Truth(thr[t], {NextOp(t)} \cup In(Tail(Todo(t))), locks, recs, told)
         /\ ~ Checking(In(Tail(Todo(t))))
         /\ \A z \in In(Tail(Todo(t))) : z.op # "trim"
<1>1. /\ Todo(t) \in Seq(Ops) /\ Todo(t) # <<>> /\ NextOp(t) = Todo(t)[1] /\ ListOK(Todo(t))
  BY HeadIs, TodoIs
<1>2. Truth(thr[t], In(Todo(t)), locks, recs, told) /\ TrimFirst(Todo(t))
  BY DEF HeldFor, Todo
<1>3. PICK q : q = Todo(t)
  OBVIOUS
<1>4. <<>> \in Seq(Ops)
  OBVIOUS
<1>5. In(q) = {q[1]} \cup In(Tail(q))
  BY <1>1, <1>3, <1>4, InJoin
<1>6. (\A z \in In(Tail(q)) : z.op # "check") /\ \A z \in In(Tail(q)) : z.op # "trim"
  BY <1>1, <1>2, <1>3, RestIs
<1> QED
  BY <1>1, <1>2, <1>3, <1>5, <1>6 DEF Checking

LEMMA HeldAsk ==
  ASSUME ThreadsOK, NEW t \in Threads, HeldFor(thr[t]), NEW o, Does(t, o),
         thr[t].kind \in {"lock", "locku"}, NEW ops \in Seq(Ops), Moved(t, ops),
         \A z \in In(ops) : z.op # "trim",
         Truth(thr'[t], In(ops) \cup In(Tail(Todo(t))), locks', recs', told')
  PROVE  HeldFor(thr[t])'
<1>1. /\ Todo(t) \in Seq(Ops) /\ Todo(t) # <<>>
  BY HeadIs
<1>2. \A z \in In(Tail(Todo(t))) : z.op # "trim"
  BY HeldHead
<1>3. PICK q : q = Todo(t)
  OBVIOUS
<1>4. PICK X : X = thr'[t]
  OBVIOUS
<1>5. X.todo = ops \o Tail(q) /\ Alike(thr[t], X) /\ X.kind = thr[t].kind
  BY <1>3, <1>4, MovedAlike DEF Todo, Alike
<1>6. In(X.todo) = In(ops) \cup In(Tail(q))
  BY <1>1, <1>3, <1>5, InJoin
<1>7. X.todo \in Seq(Ops)
  BY <1>1, <1>3, <1>5, Joined
<1>8. TrimFirst(X.todo)
  BY <1>2, <1>3, <1>6, <1>7, TrimNever
<1>9. Leaves(X, recs')
  BY <1>5 DEF Leaves
<1>10. Unlocks(X)
  BY <1>5 DEF Unlocks, HeldFor, Alike
<1>11. Truth(X, In(X.todo), locks', recs', told')
  BY <1>3, <1>4, <1>6
<1> QED
  BY <1>4, <1>8, <1>9, <1>10, <1>11 DEF HeldFor

LEMMA HeldTrim ==
  ASSUME AnyInv, OneInv, ~ overlap, NEW t \in Threads, HeldFor(thr[t]), Trim(t)
  PROVE  HeldFor(thr[t])'
<1>1. ThreadsOK /\ TablesOK /\ Does(t, "trim") /\ UNCHANGED <<locks, recs, told>>
  BY DEF AnyInv, Trim, mem
<1>2. thr[t].kind \in {"lock", "locku"} /\ NextOp(t).op = "trim"
  BY <1>1, AskHead, HeadIs DEF RetireOps
<1>3. Moved(t, Carves) /\ Carves \in Seq(Ops)
  BY AnyTrim
<1>4. Lists(Todo(t), locks, index, keyCtr) /\ Todo(t)[1].op = "trim"
  BY <1>1, OneDoes DEF OneAt, Exact
<1>5. PICK C : C = In(Carves)
  OBVIOUS
<1>6. index \in Seq(1 .. keyCtr - 1) /\ Len(index) \in Nat /\ DOMAIN locks \subseteq 1 .. keyCtr - 1
  BY <1>1 DEF TablesOK
<1>7. /\ Len(Carves) = Len(index)
      /\ \A i \in 1 .. Len(index) : Carves[i].op = "carve" /\ Carves[i].key = index[i]
  BY <1>6, AnyTrim DEF Carves
<1>8. \A z \in C : z.op = "carve"
  BY <1>5, <1>7 DEF In
<1>9. \A k \in DOMAIN locks : \E z \in C : z.key = k
  <2> TAKE k \in DOMAIN locks
  <2>1. PICK i \in 1 .. Len(index) : index[i] = k
    BY <1>4, <1>6 DEF Lists, Pushing
  <2>2. Carves[i] \in C /\ Carves[i].key = k
    BY <1>5, <1>7, <2>1 DEF In
  <2> QED
    BY <2>2
<1>10. PICK W : W = thr[t]
  OBVIOUS
<1>11. PICK X : X = thr'[t]
  OBVIOUS
<1>12. PICK z : z = NextOp(t)
  OBVIOUS
<1>13. PICK T : T = In(Tail(Todo(t)))
  OBVIOUS
<1>14. Truth(W, {z} \cup T, locks, recs, told) /\ ~ Checking(T)
  BY <1>1, <1>10, <1>12, <1>13, HeldHead
<1>15. Alike(W, X)
  BY <1>3, <1>10, <1>11, MovedAlike
<1>16. Truth(X, C \cup T, locks, recs, told)
  BY <1>2, <1>8, <1>9, <1>12, <1>14, <1>15, TruthTrim
<1>17. Truth(thr'[t], In(Carves) \cup In(Tail(Todo(t))), locks', recs', told')
  BY <1>1, <1>5, <1>11, <1>13, <1>16
<1>18. PICK r : r = Carves
  OBVIOUS
<1>19. r \in Seq(Ops) /\ Moved(t, r) /\ \A y \in In(r) : y.op # "trim"
  BY <1>3, <1>5, <1>8, <1>18
<1> QED
  BY <1>1, <1>2, <1>17, <1>18, <1>19, HeldAsk

(* The request W carves an entry of its owner. *)
Carved(W, held, r, k) ==
    /\ held \in LockVals /\ W.kind \in {"lock", "locku"} /\ held.owner = W.owner
    /\ Plain(held.range) /\ Plain(W.range) /\ Overlaps(held.range, W.range)
    /\ CutShape(r, k, Survivors(held, W.range))

(* The survivors of an entry have its bytes that were not cut. *)
LEMMA CutDue ==
  ASSUME NEW W, NEW held, NEW r, NEW k, Carved(W, held, r, k)
  PROVE  /\ \A y \in In(r) : y.op \notin {"check", "trim", "carve"}
         /\ \A o, b, x : Due(In(r), o, b, x) <=> /\ Gives(held, o, b) /\ ~ Asked(W, o, b)
                                                 /\ held.type = x
<1>1. PICK cut : cut = W.range
  OBVIOUS
<1> DEFINE S == Survivors(held, cut)
<1>2. /\ cut \in Range64 /\ held \in LockVals /\ W.kind \in {"lock", "locku"} /\ CutShape(r, k, S)
      /\ Plain(held.range) /\ Plain(cut) /\ Overlaps(held.range, cut) /\ held.owner = W.owner
  BY <1>1 DEF Plain, Carved
<1> HIDE DEF S
<1>3. PICK V : V = LeftSurvivor(held.range, cut) \cup RightSurvivor(held.range, cut)
  OBVIOUS
<1>4. /\ Len(S) \in Nat
      /\ \A i \in 1 .. Len(S) : /\ S[i].op = "insert"
                                /\ S[i].lock.owner = held.owner
                                /\ S[i].lock.type = held.type /\ S[i].lock.range \in V
      /\ \A v \in V : \E i \in 1 .. Len(S) : S[i].op = "insert"
                           /\ S[i].lock = [owner |-> held.owner, type |-> held.type, range |-> v]
  BY <1>2, <1>3, SurvivorsAre DEF S
<1>5. UNION {Bytes(v) : v \in V} = Bytes(held.range) \ Bytes(cut)
  BY <1>2, <1>3, CarveExact
<1>6. /\ Len(r) = Len(S) + 2 /\ r[1].op = "unindex" /\ r[2].op = "unrow"
      /\ \A i \in 3 .. Len(r) : i - 2 \in 1 .. Len(S) /\ r[i] = S[i - 2]
  BY <1>2 DEF CutShape
<1>7. \A i \in 1 .. Len(r) : i = 1 \/ i = 2 \/ i \in 3 .. Len(r)
  BY <1>4, <1>6
<1>8. \A y \in In(r) : y.op \in {"unindex", "unrow"} \/ \E i \in 1 .. Len(S) : y = S[i]
  <2> SUFFICES ASSUME NEW i \in 1 .. Len(r)
               PROVE  r[i].op \in {"unindex", "unrow"} \/ \E j \in 1 .. Len(S) : r[i] = S[j]
    BY DEF In
  <2> QED
    BY <1>6, <1>7
<1>9. \A i \in 1 .. Len(S) : S[i] \in In(r)
  <2> TAKE i \in 1 .. Len(S)
  <2>1. i + 2 \in 3 .. Len(r) /\ (i + 2) - 2 = i /\ i + 2 \in 1 .. Len(r)
    BY <1>4, <1>6
  <2>2. r[i + 2] = S[i]
    BY <1>6, <2>1
  <2> QED
    BY <2>1, <2>2 DEF In
<1>10. \A y \in In(r) : y.op \notin {"check", "trim", "carve"}
  BY <1>4, <1>8
<1>11. ASSUME NEW o, NEW b, NEW x
       PROVE  Due(In(r), o, b, x) <=> Gives(held, o, b) /\ ~ Asked(W, o, b) /\ held.type = x
  <2>1. Gives(held, o, b) /\ ~ Asked(W, o, b) <=> held.owner = o /\ b \in Bytes(held.range) \ Bytes(cut)
    BY <1>1, <1>2 DEF Gives, Asked
  <2>2. ASSUME Due(In(r), o, b, x) PROVE Gives(held, o, b) /\ ~ Asked(W, o, b) /\ held.type = x
    <3>1. PICK y \in In(r) : y.op = "insert" /\ Gives(y.lock, o, b) /\ y.lock.type = x
      BY <2>2 DEF Due
    <3>2. PICK i \in 1 .. Len(S) : y = S[i]
      BY <1>8, <3>1
    <3>3. y.lock.range \in V /\ y.lock.owner = held.owner /\ y.lock.type = held.type
      BY <1>4, <3>2
    <3>4. b \in Bytes(y.lock.range) /\ held.owner = o /\ held.type = x
      BY <3>1, <3>3 DEF Gives
    <3>5. b \in UNION {Bytes(v) : v \in V}
      BY <3>3, <3>4
    <3> QED
      BY <1>5, <2>1, <3>4, <3>5
  <2>3. ASSUME Gives(held, o, b) /\ ~ Asked(W, o, b) /\ held.type = x PROVE Due(In(r), o, b, x)
    <3>1. b \in UNION {Bytes(v) : v \in V} /\ held.owner = o
      BY <1>5, <2>1, <2>3
    <3>2. PICK v \in V : b \in Bytes(v)
      BY <3>1
    <3>3. PICK i \in 1 .. Len(S) :
             S[i].op = "insert" /\ S[i].lock = [owner |-> held.owner, type |-> held.type, range |-> v]
      BY <1>4
    <3>4. Gives(S[i].lock, o, b) /\ S[i].lock.type = x
      BY <2>3, <3>1, <3>2, <3>3 DEF Gives
    <3> QED
      BY <1>9, <3>3, <3>4 DEF Due
  <2> QED
    BY <2>2, <2>3
<1> QED
  BY <1>10, <1>11

LEMMA HeldCarve ==
  ASSUME AnyInv, PlainOK, NEW t \in Threads, HeldFor(thr[t]), Carve(t)
  PROVE  HeldFor(thr[t])'
<1>1. /\ ThreadsOK /\ TablesOK /\ PlainThreads /\ PlainLocks(locks) /\ Does(t, "carve")
      /\ thr[t].kind \in {"lock", "locku"} /\ UNCHANGED <<recs, told>>
  BY AnyCarve DEF AnyInv, PlainOK, Carve
<1>2. NextOp(t).op = "carve"
  BY <1>1, HeadIs
<1>3. PICK k : k = NextOp(t).key
  OBVIOUS
<1>4. PICK W : W = thr[t]
  OBVIOUS
<1>5. PICK X : X = thr'[t]
  OBVIOUS
<1>6. PICK z : z = NextOp(t)
  OBVIOUS
<1>7. PICK T : T = In(Tail(Todo(t)))
  OBVIOUS
<1>8. Truth(W, {z} \cup T, locks, recs, told) /\ ~ Checking(T) /\ z.op = "carve" /\ z.key = k
  BY <1>1, <1>2, <1>3, <1>4, <1>6, <1>7, HeldHead
<1>9. W.kind \in {"lock", "locku"} /\ Plain(W.range) /\ W.range \in Range64
  BY <1>1, <1>4 DEF PlainThreads, Plain
<1>10. CASE /\ ~ (k \in DOMAIN locks /\ OwnedBy(k, W.owner) /\ Overlaps(locks[k].range, W.range))
            /\ UNCHANGED locks /\ Moved(t, <<>>)
  <2>1. ASSUME k \in DOMAIN locks, NEW o, NEW b, Gives(locks[k], o, b), Asked(W, o, b)
        PROVE  FALSE
    <3>1. OwnedBy(k, W.owner) /\ b \in Bytes(locks[k].range) \cap Bytes(W.range)
      BY <2>1 DEF Gives, Asked, OwnedBy
    <3>2. locks[k] \in LockVals
      BY <1>1, <2>1 DEF TablesOK
    <3>3. locks[k].range \in Range64
      BY <3>2 DEF LockVals
    <3>4. Overlaps(locks[k].range, W.range)
      BY <1>9, <3>1, <3>3, SharedOverlap
    <3> QED
      BY <1>10, <2>1, <3>1, <3>4
  <2>2. Alike(W, X)
    BY <1>4, <1>5, <1>10, MovedAlike
  <2>3. z.key \in DOMAIN locks => \A o, b : Gives(locks[z.key], o, b) => ~ Asked(W, o, b)
    BY <1>8, <2>1
  <2>4. Truth(X, T, locks, recs, told)
    BY <1>8, <2>2, <2>3, TruthSkip
  <2>5. In(<<>>) = {} /\ <<>> \in Seq(Ops)
    BY InNone
  <2>6. Truth(thr'[t], In(<<>>) \cup In(Tail(Todo(t))), locks', recs', told')
    BY <1>1, <1>5, <1>7, <1>10, <2>4, <2>5
  <2> QED
    BY <1>1, <1>10, <2>5, <2>6, HeldAsk
<1>11. CASE /\ k \in DOMAIN locks /\ OwnedBy(k, W.owner) /\ Overlaps(locks[k].range, W.range)
            /\ locks' = Del(locks, {k}) /\ Moved(t, Cut(t, k))
  <2>1. PICK held : held = locks[k]
    OBVIOUS
  <2>2. held \in LockVals /\ Plain(held.range) /\ Overlaps(held.range, W.range) /\ held.owner = W.owner
    BY <1>1, <1>11, <2>1 DEF TablesOK, PlainLocks, OwnedBy
  <2>3. keyCtr \in Nat /\ k \in 1 .. keyCtr - 1
    BY <1>1, <1>11 DEF TablesOK
  <2>4. k \in Nat
    BY <2>3
  <2>5. PICK S : S = Survivors(held, W.range)
    OBVIOUS
  <2>6. Inserts(S)
    BY <1>9, <2>2, <2>5, SurvivorsAre DEF Inserts
  <2>7. PICK r : r = Removal(k) \o S
    OBVIOUS
  <2>8. CutShape(r, k, S)
    BY <2>4, <2>6, <2>7, CutIs
  <2>9. /\ \A y \in In(r) : y.op \notin {"check", "trim", "carve"}
        /\ \A o, b, x : Due(In(r), o, b, x) <=> /\ Gives(held, o, b) /\ ~ Asked(W, o, b)
                                                /\ held.type = x
    <3>1. Carved(W, held, r, k)
      BY <1>9, <2>2, <2>5, <2>8 DEF Carved
    <3> QED
      BY <3>1, CutDue
  <2>10. Moved(t, r) /\ r \in Seq(Ops)
    BY <1>4, <1>11, <2>1, <2>5, <2>7, <2>8 DEF Cut, CutShape
  <2>11. Alike(W, X)
    BY <1>4, <1>5, <2>10, MovedAlike
  <2>12. PICK N : N = locks'
    OBVIOUS
  <2>13. DOMAIN N = DOMAIN locks \ {k} /\ \A j \in DOMAIN N : N[j] = locks[j]
    BY <1>11, <2>12 DEF Del
  <2>14. PICK D : D = In(r)
    OBVIOUS
  <2>15. /\ \A y \in D : y.op \notin {"check", "trim", "carve"}
         /\ \A o, b, x : Due(D, o, b, x) <=> /\ Gives(locks[z.key], o, b) /\ ~ Asked(W, o, b)
                                             /\ locks[z.key].type = x
    BY <1>8, <2>1, <2>9, <2>14
  <2>16. Truth(X, D \cup T, N, recs, told)
    BY <1>8, <1>11, <2>11, <2>13, <2>15, TruthCut
  <2>17. Truth(thr'[t], In(r) \cup In(Tail(Todo(t))), locks', recs', told')
    BY <1>1, <1>5, <1>7, <2>12, <2>14, <2>16
  <2>18. \A y \in In(r) : y.op # "trim"
    BY <2>9
  <2> QED
    BY <1>1, <2>10, <2>17, <2>18, HeldAsk
<1> QED
  BY <1>3, <1>4, <1>10, <1>11, AnyCarve

LEMMA HeldInsert ==
  ASSUME AnyInv, NEW t \in Threads, HeldFor(thr[t]), Insert(t)
  PROVE  HeldFor(thr[t])'
<1>1. /\ ThreadsOK /\ TablesOK /\ Does(t, "insert")
      /\ thr[t].kind \in {"lock", "locku"} /\ UNCHANGED <<recs, told>>
  BY AnyInsert DEF AnyInv, Insert
<1>2. /\ NextOp(t).op = "insert" /\ NextOp(t).lock \in LockVals /\ keyCtr \notin DOMAIN locks
      /\ locks' = Put(locks, keyCtr, NextOp(t).lock) /\ keyCtr \in Nat
      /\ Moved(t, Inserting(keyCtr, NextOp(t).lock))
  BY <1>1, HeadIs, AnyInsert DEF TablesOK
<1>3. PICK z : z = NextOp(t)
  OBVIOUS
<1>4. PICK W : W = thr[t]
  OBVIOUS
<1>5. PICK X : X = thr'[t]
  OBVIOUS
<1>6. PICK q : q = Todo(t)
  OBVIOUS
<1>7. PICK T : T = In(Tail(q))
  OBVIOUS
<1>8. /\ Truth(W, {z} \cup T, locks, recs, told) /\ ~ Checking(T) /\ z.op = "insert"
      /\ \A y \in T : y.op # "trim"
  BY <1>1, <1>2, <1>3, <1>4, <1>6, <1>7, HeldHead
<1>9. z.lock.type \in LockTypes
  BY <1>2, <1>3 DEF LockVals
<1>10. PICK k : k = keyCtr
  OBVIOUS
<1>11. PICK r : r = Inserting(k, z.lock)
  OBVIOUS
<1>12. r \in Seq(Ops) /\ Len(r) = 2 /\ r[1].op = "push" /\ r[2].op = "row"
  BY <1>2, <1>3, <1>10, <1>11, InsertingIs
<1>13. \A y \in In(r) : y.op \notin Movers
  <2>1. \A i \in 1 .. 2 : i = 1 \/ i = 2
    OBVIOUS
  <2> QED
    BY <1>12, <2>1 DEF In, Movers
<1>14. ~ Carvable(T, k)
  <2>1. /\ q \in Seq(Ops) /\ q # <<>> /\ <<>> \in Seq(Ops)
    BY <1>1, <1>6, HeadIs
  <2>2. T = {q[i] : i \in 2 .. Len(q)} /\ Len(q) \in Nat
    BY <1>7, <2>1, InJoin
  <2>3. \A i \in 1 .. Len(q) : OpOK(W, q[i], locks, keyCtr)
    BY <1>1, <1>4, <1>6 DEF ThreadsOK, WorkOK, Todo
  <2>4. \A y \in T : OpOK(W, y, locks, keyCtr)
    BY <2>2, <2>3
  <2>5. \A y \in T : y.op = "carve" => y.key # k
    BY <1>2, <1>10, <2>4 DEF OpOK, KeyOps
  <2> QED
    BY <1>8, <2>5 DEF Carvable, Checking
<1>15. PICK N : N = locks'
  OBVIOUS
<1>16. DOMAIN N = DOMAIN locks \cup {k} /\ N[k] = z.lock /\ \A j \in DOMAIN locks : N[j] = locks[j]
  BY <1>2, <1>3, <1>10, <1>15 DEF Put
<1>17. Moved(t, r) /\ Alike(W, X)
  BY <1>2, <1>3, <1>4, <1>5, <1>10, <1>11, MovedAlike
<1>18. PICK D : D = In(r)
  OBVIOUS
<1>19. Truth(X, D \cup T, N, recs, told)
  BY <1>2, <1>8, <1>9, <1>10, <1>13, <1>14, <1>16, <1>17, <1>18, TruthInsert
<1>20. Truth(thr'[t], In(r) \cup In(Tail(Todo(t))), locks', recs', told')
  BY <1>1, <1>5, <1>6, <1>7, <1>15, <1>18, <1>19
<1>21. \A y \in In(r) : y.op # "trim"
  BY <1>13 DEF Movers
<1> QED
  BY <1>1, <1>12, <1>17, <1>20, <1>21, HeldAsk

LEMMA IdleHeld ==
  ASSUME NEW R
  PROVE  /\ In(Idle.todo) = {} /\ Leaves(Idle, R) /\ TrimFirst(Idle.todo) /\ Unlocks(Idle)
<1>1. Idle.todo = <<>> /\ Idle.kind = "idle" /\ Len(<<>>) = 0 /\ 2 .. 0 = {}
  BY DEF Idle
<1>2. TrimFirst(<<>>)
  BY <1>1 DEF TrimFirst
<1> QED
  BY <1>1, <1>2, InNone DEF Leaves, Unlocks

LEMMA HeldEnds ==
  ASSUME NEW t, thr'[t] = Idle, Truth(Idle, {}, locks', recs', told')
  PROVE  HeldFor(thr[t])'
<1>1. PICK X : X = thr'[t]
  OBVIOUS
<1>2. PICK R : R = recs'
  OBVIOUS
<1>3. In(X.todo) = {} /\ Leaves(X, R) /\ TrimFirst(X.todo) /\ Unlocks(X)
  BY <1>1, IdleHeld
<1>4. Truth(X, In(X.todo), locks', recs', told')
  BY <1>1, <1>3
<1> QED
  BY <1>1, <1>2, <1>3, <1>4 DEF HeldFor

(* The range of a LOCK that was granted, and no other, is on its way. *)
LEMMA GrantDue ==
  ASSUME NEW W, W.kind \in {"lock", "locku"}, NEW g, NEW new, GrantShape(g, new),
         \A i \in 1 .. Len(g) : g[i].op = "insert" =>
              g[i].lock = [owner |-> W.owner, type |-> W.type, range |-> W.range]
  PROVE  /\ ~ Checking(In(g)) /\ TrimFirst(g)
         /\ ~ new => \E y \in In(g) : y.op = "trim"
         /\ \A o, b, x : Due(In(g), o, b, x) <=> Asked(W, o, b) /\ x = W.type
<1> DEFINE n == IF new THEN 3 ELSE 2
<1>1. /\ n \in {2, 3} /\ Len(g) = n /\ g[n].op = "insert" /\ (~ new => g[1].op = "trim")
      /\ \A i \in 1 .. n : i # n => g[i].op \in {"allocate", "register", "trim"}
      /\ \A i \in 2 .. n : g[i].op # "trim"
  <2>1. CASE new
    <3>1. Len(g) = 3 /\ g[1].op = "allocate" /\ g[2].op = "register" /\ g[3].op = "insert" /\ n = 3
      BY <2>1 DEF GrantShape
    <3>2. (\A i \in 1 .. 3 : i = 1 \/ i = 2 \/ i = 3) /\ \A i \in 2 .. 3 : i = 2 \/ i = 3
      OBVIOUS
    <3> HIDE DEF n
    <3> QED
      BY <2>1, <3>1, <3>2
  <2>2. CASE ~ new
    <3>1. Len(g) = 2 /\ g[1].op = "trim" /\ g[2].op = "insert" /\ n = 2
      BY <2>2 DEF GrantShape
    <3>2. (\A i \in 1 .. 2 : i = 1 \/ i = 2) /\ \A i \in 2 .. 2 : i = 2
      OBVIOUS
    <3> HIDE DEF n
    <3> QED
      BY <2>2, <3>1, <3>2
  <2> QED
    BY <2>1, <2>2
<1> HIDE DEF n
<1>2. n \in 1 .. Len(g) /\ 1 \in 1 .. Len(g)
  BY <1>1
<1>3. g[n].lock = [owner |-> W.owner, type |-> W.type, range |-> W.range]
  BY <1>1, <1>2
<1>4. \A y \in In(g) : y = g[n] \/ y.op \in {"allocate", "register", "trim"}
  BY <1>1 DEF In
<1>5. g[n] \in In(g) /\ g[1] \in In(g)
  BY <1>2 DEF In
<1>6. ~ Checking(In(g))
  BY <1>1, <1>4 DEF Checking
<1>7. TrimFirst(g)
  BY <1>1 DEF TrimFirst
<1>8. ASSUME NEW o, NEW b, NEW x PROVE Due(In(g), o, b, x) <=> Asked(W, o, b) /\ x = W.type
  <2>1. Due(In(g), o, b, x) <=> Gives(g[n].lock, o, b) /\ g[n].lock.type = x
    BY <1>1, <1>4, <1>5 DEF Due
  <2>2. Gives(g[n].lock, o, b) /\ g[n].lock.type = x <=> Asked(W, o, b) /\ x = W.type
    BY <1>3 DEF Gives, Asked
  <2> QED
    BY <2>1, <2>2
<1> QED
  BY <1>1, <1>5, <1>6, <1>7, <1>8

LEMMA HeldCheck ==
  ASSUME AnyInv, NEW t \in Threads, HeldFor(thr[t]), Check(t)
  PROVE  HeldFor(thr[t])'
<1>1. ThreadsOK /\ Does(t, "check") /\ UNCHANGED <<locks, recs, told>>
  BY DEF AnyInv, Check, mem
<1>2. PICK W : W = thr[t]
  OBVIOUS
<1>3. PICK q : q = W.todo
  OBVIOUS
<1>4. /\ q \in Seq(Ops) /\ q # <<>> /\ ListOK(q) /\ q[1].op = "check" /\ NextOp(t) = q[1]
      /\ Len(q) \in Nat /\ Len(q) >= 1 /\ W.kind = "lock" /\ W \in Asks
  BY <1>1, <1>2, <1>3, HeadIs, TodoIs DEF Todo, OpOK
<1>5. Len(q) = 1
  <2>1. ~ (Len(q) >= 2)
    BY <1>4 DEF ListOK
  <2>2. Len(q) \in Nat /\ Len(q) >= 1
    BY <1>4
  <2>3. PICK n \in Nat : n = Len(q)
    BY <2>2
  <2> QED
    BY <2>1, <2>2, <2>3, NatCases
<1>6. W.type \in LockTypes
  BY <1>1, <1>2, <1>4 DEF ThreadsOK, WorkOK
<1>7. PICK z : z = q[1]
  OBVIOUS
<1>8. Truth(W, {z}, locks, recs, told) /\ Unlocks(W) /\ z.op = "check"
  <2>1. In(q) = {z}
    <3>1. \A i \in 1 .. Len(q) : i = 1
      BY <1>5
    <3>2. 1 \in 1 .. Len(q)
      BY <1>5
    <3> QED
      BY <1>7, <3>1, <3>2 DEF In
  <2> QED
    BY <1>2, <1>3, <1>4, <1>7, <2>1 DEF HeldFor
<1>9. CASE thr' = [thr EXCEPT ![t] = Idle]
  <2>1. thr'[t] = Idle
    BY <1>1, <1>9, EndsTook DEF Took
  <2>2. \A c : ~ Tears(W, c)
    BY <1>4 DEF Tears
  <2>3. Truth(Idle, {}, locks, recs, told)
    BY <1>8, <2>2, TruthDenied
  <2> QED
    BY <1>1, <2>1, <2>3, HeldEnds
<1>10. CASE Moved(t, Granted(t))
  <2>1. PICK g : g = Granted(t)
    OBVIOUS
  <2>2. PICK X : X = thr'[t]
    OBVIOUS
  <2>3. /\ g \in Seq(Ops) /\ GrantShape(g, z.new)
        /\ \A i \in 1 .. Len(g) : g[i].op = "insert" =>
              g[i].lock = [owner |-> W.owner, type |-> W.type, range |-> W.range]
    BY <1>1, <1>2, <1>4, <1>7, <2>1, GrantedIs
  <2>4. Alike(W, X) /\ X.todo = g \o Tail(q)
    BY <1>2, <1>3, <1>10, <2>1, <2>2, MovedAlike
  <2>5. PICK r : r = X.todo
    OBVIOUS
  <2>6. Len(r) = Len(g) /\ Len(g) \in Nat /\ \A i \in 1 .. Len(g) : r[i] = g[i]
    <3>1. /\ Len(g) \in Nat /\ Len(r) = Len(g) + Len(q) - 1
          /\ \A i \in 1 .. Len(g) + Len(q) - 1 :
               r[i] = IF i <= Len(g) THEN g[i] ELSE q[i - Len(g) + 1]
      BY <1>4, <2>3, <2>4, <2>5, Joined
    <3> QED
      BY <1>5, <3>1
  <2>7. /\ GrantShape(r, z.new)
        /\ \A i \in 1 .. Len(r) : r[i].op = "insert" =>
              r[i].lock = [owner |-> W.owner, type |-> W.type, range |-> W.range]
    BY <2>3, <2>6 DEF GrantShape
  <2>8. PICK Y : Y = In(r)
    OBVIOUS
  <2>9. /\ ~ Checking(Y) /\ TrimFirst(r)
        /\ ~ z.new => \E y \in Y : y.op = "trim"
        /\ \A o, b, x : Due(Y, o, b, x) <=> Asked(W, o, b) /\ x = W.type
    <3>1. W.kind \in {"lock", "locku"}
      BY <1>4
    <3> QED
      BY <2>7, <2>8, <3>1, GrantDue
  <2>10. Truth(X, Y, locks, recs, told)
    BY <1>6, <1>8, <2>4, <2>9, TruthGrant
  <2>11. Leaves(X, recs) /\ Unlocks(X)
    BY <1>4, <2>4 DEF Leaves, Unlocks, Alike
  <2> QED
    BY <1>1, <2>2, <2>5, <2>8, <2>9, <2>10, <2>11 DEF HeldFor
<1> QED
  BY <1>9, <1>10, AnyCheck

LEMMA HeldReply ==
  ASSUME AnyInv, NEW t \in Threads, Holds(thr[t]), HeldFor(thr[t]), Reply(t)
  PROVE  HeldFor(thr[t])'
<1>1. PICK W : W = thr[t]
  OBVIOUS
<1>2. /\ W.kind \in {"lock", "locku"} /\ W.todo = <<>> /\ ThreadsOK /\ TablesOK
      /\ thr' = [thr EXCEPT ![t] = Idle] /\ UNCHANGED <<locks, recs>>
  BY <1>1 DEF Reply, AnyInv, mem
<1>3. W.owner = W.asker /\ ClientOf[W.asker] \in live
  BY <1>1, <1>2 DEF Holds, AskOK
<1>4. Truth(W, {}, locks, recs, told) /\ Unlocks(W)
  BY <1>1, <1>2, InNone DEF HeldFor
<1>5. PICK P : P = told'
  OBVIOUS
<1>6. P = [told EXCEPT ![W.asker] = [b \in U64 |-> IF b \in Bytes(W.range) THEN W.type ELSE @[b]]]
  BY <1>1, <1>3, <1>5 DEF Reply
<1>7. told \in [Owners -> [U64 -> LockTypes \cup {"none"}]]
  BY <1>2 DEF TablesOK
<1>8. ASSUME NEW o \in Owners, NEW b \in U64
      PROVE  P[o][b] = IF Asked(W, o, b) THEN W.type ELSE told[o][b]
  <2>1. CASE o = W.asker
    <3>1. P[o] = [c \in U64 |-> IF c \in Bytes(W.range) THEN W.type ELSE told[o][c]]
      BY <1>6, <1>7, <2>1
    <3> QED
      BY <1>2, <1>3, <2>1, <3>1 DEF Asked
  <2>2. CASE o # W.asker
    BY <1>3, <1>6, <1>7, <2>2 DEF Asked
  <2> QED
    BY <2>1, <2>2
<1>9. W.kind = "lock" => W.type \in LockTypes
  BY <1>1, <1>2 DEF ThreadsOK, WorkOK
<1>10. W.kind = "locku" => W.type \notin LockTypes
  BY <1>4 DEF Unlocks, LockTypes
<1>11. \A k \in DOMAIN locks : locks[k].type \in LockTypes
  BY <1>2 DEF TablesOK, LockVals
<1>12. Truth(Idle, {}, locks, recs, P)
  BY <1>2, <1>4, <1>8, <1>9, <1>10, <1>11, TruthReply
<1>13. thr'[t] = Idle
  BY <1>2, EndsTook DEF Took
<1> QED
  BY <1>2, <1>5, <1>12, <1>13, HeldEnds

LEMMA HeldRetired ==
  ASSUME AnyInv, NEW t \in Threads, HeldFor(thr[t]), Retired(t)
  PROVE  HeldFor(thr[t])'
<1>1. PICK W : W = thr[t]
  OBVIOUS
<1>2. /\ W.kind = "retire" /\ W.todo = <<>> /\ ThreadsOK
      /\ thr' = [thr EXCEPT ![t] = Idle] /\ UNCHANGED <<locks, recs, told>>
  BY <1>1 DEF Retired, AnyInv, mem
<1>3. Truth(W, {}, locks, recs, told) /\ Leaves(W, recs)
  BY <1>1, <1>2, InNone DEF HeldFor
<1>4. W.client \notin recs
  <2>1. Len(<<>>) = 0
    OBVIOUS
  <2> QED
    BY <1>2, <1>3, <2>1 DEF Leaves, Has
<1>5. Truth(Idle, {}, locks, recs, told)
  BY <1>2, <1>3, <1>4, TruthLeft
<1>6. thr'[t] = Idle
  BY <1>2, EndsTook DEF Took
<1> QED
  BY <1>2, <1>5, <1>6, HeldEnds

LEMMA HeldStep ==
  ASSUME AnyInv, OneInv, PlainOK, ~ overlap, NEW t \in Threads, Holds(thr[t]), HeldFor(thr[t]),
         Step(t)
  PROVE  HeldFor(thr[t])'
BY HeldPlain, HeldRetire, HeldTrim, HeldCarve, HeldCheck, HeldInsert, HeldReply, HeldRetired DEF Step

-----------------------------------------------------------------------------
(* The requests. *)

LEMMA IdleTruth ==
  ASSUME NEW L, NEW R, NEW M
  PROVE  Truth(Idle, {}, L, R, M) <=>
            \A o \in Owners : ClientOf[o] \in R =>
               \A b \in U64 : \A x \in LockTypes : M[o][b] = x <=> Here(L, o, b, x)
<1>1. ~ Checking({}) /\ \A o, b, x : ~ Due({}, o, b, x)
  BY DEF Checking, Due
<1>2. \A o, b : AsTold({}, L, M[o][b], o, b) <=> \A x \in LockTypes : M[o][b] = x <=> Here(L, o, b, x)
  BY <1>1 DEF AsTold
<1> QED
  BY <1>2, IdleAsks DEF Truth

(* A LOCK that trims nothing has nothing to trim, or nothing that differs. *)
Fits(L, W) ==
    \A k \in DOMAIN L : \A b \in U64 :
        Gives(L[k], W.owner, b) /\ b \in Bytes(W.range) => L[k].type = W.type

LEMMA TruthAsk ==
  ASSUME NEW W, NEW z, NEW L, NEW R, NEW M, Truth(Idle, {}, L, R, M),
         W.kind \in {"lock", "locku"}, z.op \in {"check", "trim"},
         z.op = "trim" => W.kind = "locku", z.op = "check" /\ z.new => Fits(L, W)
  PROVE  Truth(W, {z}, L, R, M)
<1> SUFFICES ASSUME NEW o \in Owners, NEW b \in U64, ClientOf[o] \in R
             PROVE  /\ AsTold({z}, L, M[o][b], o, b)
                    /\ Asked(W, o, b) => AsAsked(W, {z}, L, o, b)
  BY DEF Truth
<1>1. \A x : ~ Due({z}, o, b, x)
  BY DEF Due
<1>2. \A x \in LockTypes : M[o][b] = x <=> Here(L, o, b, x)
  BY IdleTruth
<1>3. AsTold({z}, L, M[o][b], o, b)
  BY <1>1, <1>2 DEF AsTold
<1>4. ASSUME Asked(W, o, b) PROVE AsAsked(W, {z}, L, o, b)
  <2>1. ASSUME NEW k \in DOMAIN L, Gives(L[k], o, b)
        PROVE  Carvable({z}, k) \/ L[k].type = W.type
    <3>1. CASE z.op = "check" /\ z.new
      BY <1>4, <2>1, <3>1 DEF Fits, Asked
    <3>2. CASE ~ (z.op = "check" /\ z.new)
      BY <3>2 DEF Carvable
    <3> QED
      BY <3>1, <3>2
  <2>2. ~ Checking({z}) => z.op = "trim" /\ W.kind # "lock"
    BY DEF Checking
  <2> QED
    BY <1>1, <2>1, <2>2 DEF AsAsked
<1> QED
  BY <1>3, <1>4

LEMMA AskHeld ==
  ASSUME NEW X, NEW x, X.todo = <<x>>, x.op \in {"check", "trim"}, X.kind \in {"lock", "locku"},
         NEW t, thr'[t] = X, UNCHANGED <<locks, recs, told>>, Truth(Idle, {}, locks, recs, told),
         x.op = "trim" => X.kind = "locku", x.op = "check" /\ x.new => Fits(locks, X),
         X.kind = "locku" => X.type = "none"
  PROVE  HeldFor(thr[t])'
<1>1. Truth(X, {x}, locks, recs, told)
  BY TruthAsk
<1>2. In(X.todo) = {x}
  BY InOne
<1>3. Leaves(X, recs) /\ Unlocks(X)
  BY DEF Leaves, Unlocks
<1>4. TrimFirst(X.todo)
  <2>1. PICK q : q = X.todo
    OBVIOUS
  <2>2. Len(q) = 1
    BY <2>1
  <2>3. \A i \in 2 .. Len(q) : FALSE
    BY <2>2
  <2> QED
    BY <2>1, <2>3 DEF TrimFirst
<1> QED
  BY <1>1, <1>2, <1>3, <1>4 DEF HeldFor

LEMMA HeldLock ==
  ASSUME AnyInv, NEW t \in Threads, Rested(known, owners, states, sidCtr, locks, recs, live),
         Truth(Idle, {}, locks, recs, told),
         NEW o \in Owners, NEW type \in LockTypes, NEW r \in Ranges, Lock(t, o, type, r)
  PROVE  HeldFor(thr[t])'
<1>1. PICK W : W = LockWork(o, o, type, r)
  OBVIOUS
<1>2. UNCHANGED <<locks, recs, told>> /\ ThreadsOK
  BY DEF Lock, mem, AnyInv
<1>3. (IF known[o] = 0 THEN o ELSE owners[known[o]]) = o
  BY DEF Rested, Knows, Valid
<1>4. thr' = [thr EXCEPT ![t] = W]
  BY <1>1, <1>3 DEF Lock, LockWork
<1>5. thr'[t] = W
  BY <1>2, <1>4 DEF ThreadsOK
<1>6. PICK x : x = [op |-> "check", new |-> known[o] = 0]
  OBVIOUS
<1>7. W.todo = <<x>> /\ W.kind = "lock" /\ W.owner = o /\ x.op = "check" /\ x.new = (known[o] = 0)
  BY <1>1, <1>6 DEF LockWork
<1>8. x.new => Fits(locks, W)
  BY <1>7 DEF Fits, Gives, Rested, AllKnown
<1> QED
  BY <1>2, <1>5, <1>7, <1>8, AskHeld

LEMMA HeldLockU ==
  ASSUME AnyInv, NEW t \in Threads, Truth(Idle, {}, locks, recs, told),
         NEW o \in Owners, NEW r \in Ranges, LockU(t, o, r)
  PROVE  HeldFor(thr[t])'
<1>1. PICK W : W = UnlockWork(o, r)
  OBVIOUS
<1>2. UNCHANGED <<locks, recs, told>> /\ ThreadsOK /\ thr' = [thr EXCEPT ![t] = W]
  BY <1>1 DEF LockU, UnlockWork, mem, AnyInv
<1>3. thr'[t] = W
  BY <1>2 DEF ThreadsOK
<1>4. PICK x : x = [op |-> "trim"]
  OBVIOUS
<1>5. W.todo = <<x>> /\ W.kind = "locku" /\ W.type = "none" /\ x.op = "trim"
  BY <1>1, <1>4 DEF UnlockWork
<1> QED
  BY <1>2, <1>3, <1>5, AskHeld

(* A reclaim that no entry matches asks for what the owner was told, so    *)
(* what it has of the range already is of that mode.                       *)
LEMMA HeldReclaim ==
  ASSUME AnyInv, NEW t \in Threads, Rested(known, owners, states, sidCtr, locks, recs, live),
         Truth(Idle, {}, locks, recs, told), thr[t] = Idle,
         NEW o \in Owners, NEW type \in LockTypes, NEW r \in Ranges, Reclaim(t, o, type, r)
  PROVE  HeldFor(thr[t])'
<1>1. /\ UNCHANGED <<locks, recs, told>> /\ ThreadsOK /\ ClientOf[o] \in recs
      /\ \A b \in Bytes(r) : told[o][b] = type
  BY AnyReclaim DEF Reclaim, AnyInv, Rested
<1>2. CASE UNCHANGED thr
  BY <1>1, <1>2, HeldEnds
<1>3. CASE Took(t, ReclaimWork(o, type, r))
  <2>1. PICK W : W = ReclaimWork(o, type, r)
    OBVIOUS
  <2>2. PICK x : x = [op |-> "check", new |-> TRUE]
    OBVIOUS
  <2>3. /\ W.todo = <<x>> /\ W.kind = "lock" /\ W.owner = o /\ W.type = type /\ W.range = r
        /\ x.op = "check" /\ thr'[t] = W
    BY <1>3, <2>1, <2>2 DEF ReclaimWork, Took
  <2>4. ASSUME NEW k \in DOMAIN locks, NEW b \in U64, Gives(locks[k], o, b), b \in Bytes(r)
        PROVE  locks[k].type = type
    <3>1. locks[k].type \in LockTypes
      BY <2>4 DEF AnyInv, TablesOK, LockVals
    <3>2. Here(locks, o, b, locks[k].type)
      BY <2>4 DEF Here
    <3>3. told[o][b] = locks[k].type
      BY <1>1, <3>1, <3>2, IdleTruth
    <3> QED
      BY <1>1, <2>4, <3>3
  <2>5. Fits(locks, W)
    BY <2>3, <2>4 DEF Fits
  <2> QED
    BY <1>1, <2>3, <2>5, AskHeld
<1> QED
  BY <1>2, <1>3, AnyReclaim

LEMMA HeldTeardown ==
  ASSUME AnyInv, NEW t \in Threads, Truth(Idle, {}, locks, recs, told),
         NEW c \in Clients, Sweep(t, c) \/ Cascade(t, c) \/ DestroyClientId(t, c)
  PROVE  HeldFor(thr[t])'
<1>1. /\ UNCHANGED <<locks, recs, told>> /\ ThreadsOK
      /\ \E q \in {<<[op |-> "sessions"], [op |-> "record"], [op |-> "strip"], [op |-> "purge"]>>,
                   <<[op |-> "sessions"], [op |-> "strip"], [op |-> "purge"], [op |-> "record"]>>,
                   <<[op |-> "record"]>>} : thr' = [thr EXCEPT ![t] = Retiring(c, q)]
  BY DEF Sweep, Cascade, DestroyClientId, mem, AnyInv
<1>2. PICK q \in {<<[op |-> "sessions"], [op |-> "record"], [op |-> "strip"], [op |-> "purge"]>>,
                  <<[op |-> "sessions"], [op |-> "strip"], [op |-> "purge"], [op |-> "record"]>>,
                  <<[op |-> "record"]>>} : thr' = [thr EXCEPT ![t] = Retiring(c, q)]
  BY <1>1
<1>3. PICK X : X = Retiring(c, q)
  OBVIOUS
<1>4. thr'[t] = X /\ X.kind = "retire" /\ X.client = c /\ X.todo = q
  BY <1>1, <1>2, <1>3 DEF ThreadsOK, Retiring
<1>5. /\ \A i \in 1 .. Len(q) : q[i].op \in {"sessions", "record", "strip", "purge"}
      /\ \E i \in 1 .. Len(q) : q[i].op = "record"
  <2>1. CASE q = <<[op |-> "record"]>>
    BY <2>1
  <2>2. CASE q # <<[op |-> "record"]>>
    <3>1. /\ Len(q) = 4 /\ q[1].op = "sessions"
          /\ \/ q[2].op = "record" /\ q[3].op = "strip" /\ q[4].op = "purge"
             \/ q[2].op = "strip" /\ q[3].op = "purge" /\ q[4].op = "record"
      BY <1>2, <2>2
    <3>2. /\ \A i \in 1 .. 4 : i = 1 \/ i = 2 \/ i = 3 \/ i = 4
          /\ 2 \in 1 .. 4 /\ 4 \in 1 .. 4
      OBVIOUS
    <3> QED
      BY <3>1, <3>2
  <2> QED
    BY <2>1, <2>2
<1>6. Leaves(X, recs) /\ Unlocks(X)
  BY <1>4, <1>5 DEF Leaves, Has, Unlocks
<1>7. TrimFirst(q)
  <2>1. Len(q) \in Nat
    BY <1>2
  <2>2. \A i \in 2 .. Len(q) : i \in 1 .. Len(q)
    BY <2>1
  <2> QED
    BY <1>5, <2>2 DEF TrimFirst
<1>8. Truth(X, In(q), locks, recs, told)
  <2> SUFFICES ASSUME NEW o \in Owners, NEW b \in U64, ClientOf[o] \in recs
               PROVE  AsTold(In(q), locks, told[o][b], o, b) /\ ~ Asked(X, o, b)
    BY DEF Truth
  <2>1. \A x : ~ Due(In(q), o, b, x)
    BY <1>5 DEF Due, In
  <2>2. \A x \in LockTypes : told[o][b] = x <=> Here(locks, o, b, x)
    BY IdleTruth
  <2>3. ~ Asked(X, o, b)
    BY <1>4 DEF Asked
  <2> QED
    BY <2>1, <2>2, <2>3 DEF AsTold
<1> QED
  BY <1>1, <1>4, <1>6, <1>7, <1>8 DEF HeldFor

LEMMA HeldIdle == HeldFor(Idle) <=> Truth(Idle, {}, locks, recs, told)
BY IdleHeld DEF HeldFor

LEMMA HeldRequest ==
  ASSUME AnyInv, NEW t \in Threads, Holds(Idle), HeldFor(Idle), thr[t] = Idle, Request(t)
  PROVE  HeldFor(thr[t])'
<1>1. /\ Rested(known, owners, states, sidCtr, locks, recs, live)
      /\ Truth(Idle, {}, locks, recs, told)
  BY RestedIs, HeldIdle
<1>2. ASSUME \/ \E o \in Owners : FreeStateId(t, o)
             \/ \E c \in Clients : Reconnect(t, c)
      PROVE  HeldFor(thr[t])'
  <2>1. UNCHANGED <<locks, recs, told, thr>>
    BY <1>2 DEF FreeStateId, Reconnect, mem
  <2> QED
    BY <1>1, <2>1, HeldEnds
<1>3. ASSUME NEW o \in Owners, NEW r \in Ranges,
             \/ \E type \in LockTypes : Lock(t, o, type, r) \/ Reclaim(t, o, type, r)
             \/ LockU(t, o, r)
      PROVE  HeldFor(thr[t])'
  BY <1>1, <1>3, HeldLock, HeldReclaim, HeldLockU
<1> QED
  BY <1>1, <1>2, <1>3, HeldTeardown DEF Request

-----------------------------------------------------------------------------
(* The rest of the steps. *)

(* What is loaded is what was there. *)
LEMMA HeldLoad ==
  ASSUME AnyInv, Exact(<<>>), RegOK, HeldFor(Idle), Load(rows)
  PROVE  HeldFor(Idle)'
<1>1. /\ locks' = [k \in RowsOf(rows, "lock") |-> rows[<<"lock", k>>]]
      /\ recs' = RowsOf(rows, "client") /\ UNCHANGED told
  BY DEF Load
<1>2. /\ DbOK(rows, keyCtr, sidCtr) /\ recs \subseteq Clients
      /\ DOMAIN locks \subseteq 1 .. keyCtr - 1
  BY DEF AnyInv, TablesOK
<1>3. RegFor(rows, owners, states, recs)
  BY DEF RegOK
<1>4. PICK L : L = locks'
  OBVIOUS
<1>5. PICK R : R = recs'
  OBVIOUS
<1>6. /\ \A n : n \in RowsOf(rows, "lock") <=> <<"lock", n>> \in DOMAIN rows
      /\ \A n : n \in RowsOf(rows, "client") <=> <<"client", n>> \in DOMAIN rows
  BY <1>2, RowsOfIs
<1>7. /\ \A n : <<"client", n>> \in DOMAIN rows => n \in Clients
      /\ \A n : <<"lock", n>> \in DOMAIN rows => n \in 1 .. keyCtr - 1
  BY <1>2, RowIs
<1>8. R = recs
  BY <1>1, <1>2, <1>3, <1>5, <1>6, <1>7 DEF RegFor
<1>9. \A k : (k \in DOMAIN L <=> k \in DOMAIN locks) /\ (k \in DOMAIN L => L[k] = locks[k])
  <2>1. \A k : ~ Rowing(<<>>, k) /\ ~ Unrowing(<<>>, k)
    BY NoneBland, BlandNone
  <2>2. Mirrors(<<>>, locks, rows, keyCtr)
    BY DEF Exact
  <2>3. /\ \A k \in 1 .. keyCtr - 1 : <<"lock", k>> \in DOMAIN rows <=> k \in DOMAIN locks
        /\ \A k \in DOMAIN locks : <<"lock", k>> \in DOMAIN rows => rows[<<"lock", k>>] = locks[k]
    BY <2>1, <2>2 DEF Mirrors, LockRow
  <2>4. \A k : k \in DOMAIN L <=> <<"lock", k>> \in DOMAIN rows
    BY <1>1, <1>4, <1>6
  <2>5. \A k \in DOMAIN L : L[k] = rows[<<"lock", k>>]
    BY <1>1, <1>4
  <2>6. \A k : k \in DOMAIN L <=> k \in DOMAIN locks
    BY <1>2, <1>7, <2>3, <2>4
  <2> QED
    BY <2>3, <2>4, <2>5, <2>6
<1>10. \A o, b, x : Here(L, o, b, x) <=> Here(locks, o, b, x)
  BY <1>9 DEF Here
<1>11. Truth(Idle, {}, locks, recs, told)
  BY HeldIdle
<1>12. Truth(Idle, {}, L, R, told)
  BY <1>8, <1>10, <1>11, IdleTruth
<1>13. In(Idle.todo) = {} /\ Leaves(Idle, R) /\ TrimFirst(Idle.todo) /\ Unlocks(Idle)
  BY IdleHeld
<1> QED
  BY <1>1, <1>4, <1>5, <1>12, <1>13 DEF HeldFor

(* A client that learns that its stateid is gone is being torn down. *)
LEMMA HeldStateIdLost ==
  ASSUME AnyInv, NEW W, Holds(W), HeldFor(W), NEW o \in Owners, StateIdLost(o)
  PROVE  HeldFor(W)'
<1>1. /\ UNCHANGED <<locks, recs>> /\ known[o] # 0 /\ known[o] \notin DOMAIN states
      /\ told' = [told EXCEPT ![o] = Nothing]
      /\ told \in [Owners -> [U64 -> LockTypes \cup {"none"}]]
  BY DEF StateIdLost, mem, AnyInv, TablesOK
<1>2. Tears(W, ClientOf[o])
  <2>1. Knows(known, owners) /\ Minted(W, owners, states, sidCtr)
    BY DEF Holds
  <2>2. Valid(known[o], o, owners)
    BY <1>1, <2>1 DEF Knows
  <2> QED
    BY <1>1, <2>1, <2>2 DEF Minted, Valid
<1>3. PICK P : P = told'
  OBVIOUS
<1>4. \A p \in Owners : p # o => P[p] = told[p]
  BY <1>1, <1>3
<1>5. KeptWord(W, recs, told, P)
  BY <1>2, <1>4 DEF KeptWord
<1>6. PICK Z : Z = In(W.todo)
  OBVIOUS
<1>7. SameMoves(Z, Z) /\ Alike(W, W) /\ KeptLocks(W, locks, locks)
  BY KeptSame DEF SameMoves, Alike
<1>8. Truth(W, Z, locks, recs, told) /\ Leaves(W, recs) /\ TrimFirst(W.todo) /\ Unlocks(W)
  BY <1>6 DEF HeldFor
<1>9. Truth(W, Z, locks, recs, P)
  BY <1>5, <1>7, <1>8, HeldGoes
<1> QED
  BY <1>1, <1>3, <1>6, <1>8, <1>9 DEF HeldFor

LEMMA HeldThen ==
  ASSUME HeldInv, ~ overlap, ~ lost, NEW t \in Threads, thr[t] # Idle
  PROVE  Alone(t) /\ HeldFor(thr[t])
BY DEF HeldInv, Alone

LEMMA HeldQuiet ==
  ASSUME HeldInv, ~ overlap, ~ lost, NEW t \in Threads, \A u \in Threads : thr[u] = Idle
  PROVE  HeldFor(Idle)
BY DEF HeldInv

(* A step that leaves the threads as they are. *)
LEMMA HeldSame ==
  ASSUME HoldInv, HeldInv, ~ overlap, ~ lost, UNCHANGED thr,
         \A W : HoldFor(W) /\ HeldFor(W) => HeldFor(W)'
  PROVE  HeldInv'
<1>1. CASE \A u \in Threads : thr[u] = Idle
  <2>1. CASE HeldFor(Idle)
    <3>1. CASE HoldFor(Idle)
      BY <1>1, <2>1, <3>1 DEF HeldInv
    <3>2. CASE ~ HoldFor(Idle)
      <4>1. PICK t \in Threads : Alone(t) /\ HoldFor(thr[t])
        BY <3>2 DEF HoldInv
      <4> QED
        BY <1>1, <3>2, <4>1
    <3> QED
      BY <3>1, <3>2
  <2>2. CASE ~ HeldFor(Idle)
    <3>1. PICK t \in Threads : Alone(t) /\ HeldFor(thr[t])
      BY <2>2 DEF HeldInv
    <3> QED
      BY <1>1, <2>2, <3>1
  <2> QED
    BY <2>1, <2>2
<1>2. CASE \E t \in Threads : thr[t] # Idle
  <2>1. PICK t \in Threads : thr[t] # Idle
    BY <1>2
  <2>2. PICK W : W = thr[t]
    OBVIOUS
  <2>3. HoldFor(W) /\ HeldFor(W) /\ Alone(t)
    BY <2>1, <2>2, HoldThen, HeldThen
  <2>4. HeldFor(W)' /\ thr'[t] = W
    BY <2>2, <2>3
  <2>5. HeldFor(thr[t])' /\ Alone(t)'
    BY <2>3, <2>4 DEF Alone, HeldFor
  <2> QED
    BY <2>5 DEF HeldInv
<1> QED
  BY <1>1, <1>2

LEMMA HeldNext ==
  ASSUME AnyInv, OneInv, RegOK, PlainOK, HoldInv, HeldInv, [Next]_vars
  PROVE  HeldInv'
<1> SUFFICES ASSUME ~ overlap', ~ lost' PROVE HeldInv'
  BY DEF HeldInv
<1>1. ~ overlap /\ ~ lost
  <2>1. UNCHANGED overlap \/ overlap' = (overlap \/ ~ Quiet)
    BY DEF Next, vars
  <2>2. UNCHANGED lost \/ lost' = (lost \/ disk # rows \/ ~ Quiet)
    BY DEF Next, vars
  <2>3. ~ overlap
    <3>1. CASE UNCHANGED overlap
      BY <3>1
    <3>2. CASE overlap' = (overlap \/ ~ Quiet)
      BY <3>2
    <3> QED
      BY <2>1, <3>1, <3>2
  <2>4. ~ lost
    <3>1. CASE UNCHANGED lost
      BY <3>1
    <3>2. CASE lost' = (lost \/ disk # rows \/ ~ Quiet)
      BY <3>2
    <3> QED
      BY <2>2, <3>1, <3>2
  <2> QED
    BY <2>3, <2>4
<1>2. CASE (\E t \in Threads : Request(t)) /\ overlap' = (overlap \/ ~ Quiet)
  <2>1. PICK t \in Threads : Request(t)
    BY <1>2
  <2>2. Quiet
    BY <1>2
  <2>3. \A u \in Threads : thr[u] = Idle
    BY <1>1, <2>2, QuietExact
  <2>4. Holds(Idle) /\ HeldFor(Idle)
    BY <1>1, <2>1, <2>3, HoldQuiet, HeldQuiet DEF HoldFor
  <2>5. HeldFor(thr[t])'
    BY <2>1, <2>3, <2>4, HeldRequest
  <2>6. Alone(t)'
    BY <1>1, <2>1, <2>2, OneRequest DEF OneAt
  <2> QED
    BY <2>5, <2>6 DEF HeldInv
<1>3. CASE \E t \in Threads : Step(t)
  <2>1. PICK t \in Threads : Step(t)
    BY <1>3
  <2>2. Holds(thr[t]) /\ HeldFor(thr[t])
    BY <1>1, <2>1, StepWorks, HoldThen, HeldThen DEF HoldFor
  <2>3. HeldFor(thr[t])'
    BY <1>1, <2>1, <2>2, HeldStep
  <2>4. Alone(t)'
    BY <1>1, <2>1, OneStep DEF OneAt
  <2> QED
    BY <2>3, <2>4 DEF HeldInv
<1>4. ASSUME Quiet, Load(rows)
      PROVE  HeldInv'
  <2>1. Exact(<<>>) /\ \A u \in Threads : thr[u] = Idle
    BY <1>1, <1>4, QuietExact
  <2>2. HoldFor(Idle) /\ HeldFor(Idle)
    BY <1>1, <2>1 DEF HoldInv, HeldInv
  <2>3. HeldFor(Idle)' /\ \A u \in Threads : thr'[u] = Idle
    BY <1>4, <2>1, <2>2, HoldLoad, HeldLoad
  <2> QED
    BY <2>3 DEF HeldInv
<1>5. CASE Restart
  BY <1>4, <1>5 DEF Restart
<1>6. CASE Crash /\ lost' = (lost \/ disk # rows \/ ~ Quiet)
  <2>1. ~ (lost \/ disk # rows \/ ~ Quiet)
    BY <1>6
  <2>2. disk = rows /\ Quiet
    BY <2>1
  <2> QED
    BY <1>4, <1>6, <2>2 DEF Crash
<1>7. CASE \E o \in Owners : StateIdLost(o)
  <2>1. PICK o \in Owners : StateIdLost(o)
    BY <1>7
  <2>2. UNCHANGED thr
    BY <2>1 DEF StateIdLost
  <2>3. ASSUME NEW W, HoldFor(W), HeldFor(W) PROVE HeldFor(W)'
    BY <2>1, <2>3, HeldStateIdLost DEF HoldFor
  <2> QED
    BY <1>1, <2>2, <2>3, HeldSame
<1>8. CASE UNCHANGED <<thr, locks, recs, told>>
  <2>1. ASSUME NEW W, HeldFor(W) PROVE HeldFor(W)'
    BY <1>8, <2>1 DEF HeldFor
  <2> QED
    BY <1>1, <1>8, <2>1, HeldSame
<1>9. Commit \/ GraceEnds \/ UNCHANGED vars => UNCHANGED <<thr, locks, recs, told>>
  BY DEF Commit, GraceEnds, mem, vars
<1> QED
  BY <1>2, <1>3, <1>5, <1>6, <1>7, <1>8, <1>9 DEF Next

LEMMA HeldInit == Init => HeldInv
<1> SUFFICES ASSUME Init PROVE HeldInv
  OBVIOUS
<1>1. DOMAIN locks = {} /\ told = [o \in Owners |-> Nothing] /\ thr = [t \in Threads |-> Idle]
  BY DEF Init
<1>2. \A o \in Owners : \A b \in U64 : told[o][b] = "none"
  BY <1>1 DEF Nothing
<1>3. \A o, b, x : ~ Here(locks, o, b, x)
  BY <1>1 DEF Here
<1>4. Truth(Idle, {}, locks, recs, told)
  BY <1>2, <1>3, IdleTruth DEF LockTypes
<1> QED
  BY <1>1, <1>4, HeldIdle DEF HeldInv

LEMMA HeldAlways ==
  ASSUME RangesEnd
  PROVE  Spec => []HeldInv
<1>1. Init => HeldInv
  BY HeldInit
<1>2. AnyInv /\ OneInv /\ RegOK /\ PlainOK /\ HoldInv /\ HeldInv /\ [Next]_vars => HeldInv'
  BY HeldNext
<1>3. Spec => []PlainOK
  BY PlainAlways
<1> QED
  BY <1>1, <1>2, <1>3, OneAlways, RegAlways, HoldAlways, PTL DEF Spec

(* LOCK and LOCKU as their callers see them (lockops.rs, handle_lock,      *)
(* handle_locku, trim_owner_range): between requests, and with nothing     *)
(* lost in a crash, the table gives every owner on every byte exactly the  *)
(* mode that the replies it got let it believe it has, through upgrades,   *)
(* downgrades, splits, partial releases, reclaims, teardowns and restarts. *)
(* RangesEnd leaves out the to-EOF lengths that start past 0, for which    *)
(* the bare additions of trim_owner_range wrap and this is false.          *)
THEOREM HoldsWhatItWasTold ==
  ASSUME RangesEnd
  PROVE  Spec => []HeldAsTold
<1>1. AnyInv /\ OneInv /\ HeldInv => HeldAsTold
  <2> SUFFICES ASSUME AnyInv, OneInv, HeldInv, Settled, ~ lost,
                      NEW o \in Owners, ClientOf[o] \in recs, NEW b \in U64
               PROVE  Covering(o, b) = {told[o][b]} \ {"none"}
    BY DEF HeldAsTold
  <2>1. ~ overlap /\ \A u \in Threads : thr[u] = Idle
    BY QuietExact DEF Settled
  <2>2. Truth(Idle, {}, locks, recs, told)
    <3>1. HeldFor(Idle)
      BY <2>1 DEF HeldInv
    <3> QED
      BY <3>1, HeldIdle
  <2>3. \A x \in LockTypes : told[o][b] = x <=> Here(locks, o, b, x)
    BY <2>2, IdleTruth
  <2>4. /\ told[o][b] \in LockTypes \cup {"none"}
        /\ \A k \in DOMAIN locks : locks[k].type \in LockTypes
    BY DEF AnyInv, TablesOK, LockVals
  <2>5. ASSUME NEW x \in Covering(o, b) PROVE x \in {told[o][b]} \ {"none"}
    <3>1. PICK k \in DOMAIN locks : Gives(locks[k], o, b) /\ x = locks[k].type
      BY <2>5 DEF Covering, OwnedBy, Gives
    <3>2. Here(locks, o, b, x) /\ x \in LockTypes
      BY <2>4, <3>1 DEF Here
    <3> QED
      BY <2>3, <3>2 DEF LockTypes
  <2>6. ASSUME NEW x \in {told[o][b]} \ {"none"} PROVE x \in Covering(o, b)
    <3>1. x \in LockTypes /\ Here(locks, o, b, x)
      BY <2>3, <2>4, <2>6
    <3>2. PICK k \in DOMAIN locks : Gives(locks[k], o, b) /\ x = locks[k].type
      BY <3>1 DEF Here
    <3> QED
      BY <3>2 DEF Covering, OwnedBy, Gives
  <2> QED
    BY <2>5, <2>6
<1>2. Spec => []HeldInv
  BY HeldAlways
<1> QED
  BY <1>1, <1>2, OneAlways, PTL

=============================================================================

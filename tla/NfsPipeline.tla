---------------------------- MODULE NfsPipeline ----------------------------
(***************************************************************************)
(* The request pipeline of the NFS server's connections (nfs/pipeline.rs,  *)
(* the read loop of nfs/server_v4.rs, the writer of v4/back_channel.rs)    *)
(* and the drain on SIGTERM (nfs_main.rs): a read loop per connection      *)
(* dispatches each request inline or as a task under a permit, a gate      *)
(* counts the replies that are under way, and the process exits when the   *)
(* count is zero or a deadline passes.                                     *)
(*                                                                         *)
(* A COMPOUND may itself wait for a callback's reply, which only the read  *)
(* loop of the connection can deliver.                                     *)
(***************************************************************************)
EXTENDS Integers, FiniteSets

CONSTANTS
    Conns,        \* connections
    MaxInflight,  \* permits of a connection, FLINT_NFS_MAX_INFLIGHT
    MaxFrames     \* bound: requests on each connection

ASSUME PipelineAssumption ==
    MaxInflight \in Nat \ {0} /\ MaxFrames \in [Conns -> Nat]

(* A request binds its connection as a back channel, waits for a callback  *)
(* on it, or does neither.                                                 *)
Kinds == {"plain", "bind", "callback"}

VARIABLES
    draining,  \* DrainGate.draining
    inflight,  \* DrainGate.inflight
    sig,       \* the shutdown: "none", "draining", "drained" or "expired"
    reader,    \* per connection: where its read loop is, and with what frame
    permits,   \* per connection: available permits
    broken,    \* per connection: a spawned task's write failed
    back,      \* per connection: is_back_channel
    bound,     \* per connection: its writer is in the back-channel registry
    sent,      \* per connection: frames the client sent
    read,      \* per connection: frames the loop has read
    disp       \* per connection: its dispatches, by frame number

vars == <<draining, inflight, sig, reader, permits, broken, back, bound, sent, read, disp>>

(* Where a dispatch is. *)
Stages == {"run", "await", "reply", "write"}

At(p) == [at |-> p]

Init ==
    /\ draining = FALSE /\ inflight = 0 /\ sig = "none"
    /\ reader = [c \in Conns |-> At("top")]
    /\ permits = [c \in Conns |-> MaxInflight]
    /\ broken = [c \in Conns |-> FALSE]
    /\ back = [c \in Conns |-> FALSE]
    /\ bound = [c \in Conns |-> FALSE]
    /\ sent = [c \in Conns |-> 0]
    /\ read = [c \in Conns |-> 0]
    /\ disp = [c \in Conns |-> {}]

Go(c, p) == reader' = [reader EXCEPT ![c] = p]

(* The loop returns and its guard cleans up: the callbacks waited for on   *)
(* the connection are dropped, so that whoever waits for one goes on       *)
(* without, and its writer leaves the registry.                            *)
Released(ds) == {IF d.stage = "await" THEN [d EXCEPT !.stage = "reply"] ELSE d : d \in ds}

Close(c) ==
    /\ Go(c, At("closed"))
    /\ disp' = [disp EXCEPT ![c] = Released(@)]
    /\ bound' = [bound EXCEPT ![c] = FALSE]

(***************************************************************************)
(* The read loop.                                                          *)
(***************************************************************************)
Send(c) ==
    /\ sent[c] < MaxFrames[c]
    /\ sent' = [sent EXCEPT ![c] = @ + 1]
    /\ UNCHANGED <<draining, inflight, sig, reader, permits, broken, back, bound, read, disp>>

Top(c) ==
    /\ reader[c].at = "top"
    /\ IF draining THEN Close(c) ELSE Go(c, At("read")) /\ UNCHANGED <<disp, bound>>
    /\ UNCHANGED <<draining, inflight, sig, permits, broken, back, sent, read>>

(* A request is read, and with it whether more is buffered and whether the *)
(* connection is a back channel.                                           *)
Read(c, k) ==
    /\ reader[c].at = "read" /\ read[c] < sent[c]
    /\ read' = [read EXCEPT ![c] = @ + 1]
    /\ Go(c, [at |-> "submit", kind |-> k, more |-> sent[c] > read[c] + 1,
              spawn |-> back[c]])
    /\ UNCHANGED <<draining, inflight, sig, permits, broken, back, bound, sent, disp>>

(* The frame is the reply of a callback some dispatch waits for. *)
DeliverReply(c, d) ==
    /\ reader[c].at = "read" /\ d \in disp[c] /\ d.stage = "await"
    /\ disp' = [disp EXCEPT ![c] = (@ \ {d}) \cup {[d EXCEPT !.stage = "reply"]}]
    /\ Go(c, At("top"))
    /\ UNCHANGED <<draining, inflight, sig, permits, broken, back, bound, sent, read>>

(* The client hangs up between two frames. *)
HangUp(c) ==
    /\ reader[c].at = "read"
    /\ Close(c)
    /\ UNCHANGED <<draining, inflight, sig, permits, broken, back, sent, read>>

(***************************************************************************)
(* submit: the gate is entered by a check, a count and a second check.     *)
(***************************************************************************)
Enter(c) ==
    /\ reader[c].at = "submit"
    /\ IF broken[c] \/ draining THEN Close(c)
       ELSE Go(c, [reader[c] EXCEPT !.at = "count"]) /\ UNCHANGED <<disp, bound>>
    /\ UNCHANGED <<draining, inflight, sig, permits, broken, back, sent, read>>

Count(c) ==
    /\ reader[c].at = "count"
    /\ inflight' = inflight + 1
    /\ Go(c, [reader[c] EXCEPT !.at = "recheck"])
    /\ UNCHANGED <<draining, sig, permits, broken, back, bound, sent, read, disp>>

(* Mutant: no second check. *)
RecheckNone(c) ==
    /\ reader[c].at = "recheck"
    /\ Go(c, [reader[c] EXCEPT !.at = "acquire"])
    /\ UNCHANGED <<draining, inflight, sig, permits, broken, back, bound, sent, read, disp>>

Recheck(c) ==
    /\ reader[c].at = "recheck"
    /\ IF draining THEN Close(c) /\ inflight' = inflight - 1
       ELSE /\ Go(c, [reader[c] EXCEPT !.at = "acquire"])
            /\ UNCHANGED <<inflight, disp, bound>>
    /\ UNCHANGED <<draining, sig, permits, broken, back, sent, read>>

(* A permit, then inline when nothing argues for a task of its own. *)
Acquire(c) ==
    LET r == reader[c]
        others == permits[c] - 1 < MaxInflight - 1
        inline == ~r.spawn /\ ~r.more /\ ~others
        d == [frame |-> read[c], kind |-> r.kind, stage |-> "run", inline |-> inline]
    IN /\ r.at = "acquire" /\ permits[c] > 0
       /\ permits' = [permits EXCEPT ![c] = @ - 1]
       /\ disp' = [disp EXCEPT ![c] = @ \cup {d}]
       /\ Go(c, At(IF inline THEN "inline" ELSE "top"))
       /\ UNCHANGED <<draining, inflight, sig, broken, back, bound, sent, read>>

(***************************************************************************)
(* A dispatch.                                                             *)
(***************************************************************************)
Move(c, d, s) == disp' = [disp EXCEPT ![c] = (@ \ {d}) \cup {[d EXCEPT !.stage = s]}]

(* The COMPOUND runs.  One that binds registers the connection's writer;   *)
(* one that needs a callback looks the writer up, sends it and waits.  The *)
(* look-up may be older than the end of the loop.                          *)
Dispatch(c, d, s) ==
    /\ d \in disp[c] /\ d.stage = "run"
    /\ s = "await" => d.kind = "callback" /\ back[c]
    /\ s = "reply" => d.kind # "callback" \/ ~bound[c]
    /\ back' = [back EXCEPT ![c] = @ \/ d.kind = "bind"]
    /\ bound' = [bound EXCEPT ![c] = @ \/ d.kind = "bind"]
    /\ Move(c, d, s)
    /\ UNCHANGED <<draining, inflight, sig, reader, permits, broken, sent, read>>

(* Mutant: a callback is waited for without end. *)
CbTimeoutNever(c, d) == FALSE /\ UNCHANGED vars

CbTimeout(c, d) ==
    /\ d \in disp[c] /\ d.stage = "await"
    /\ Move(c, d, "reply")
    /\ UNCHANGED <<draining, inflight, sig, reader, permits, broken, back, bound, sent, read>>

(* The writer's mutex: one frame at a time. *)
StartWrite(c, d) ==
    /\ d \in disp[c] /\ d.stage = "reply"
    /\ \A e \in disp[c] : e.stage # "write"
    /\ Move(c, d, "write")
    /\ UNCHANGED <<draining, inflight, sig, reader, permits, broken, back, bound, sent, read>>

(* Mutant: a failed write returns before the token is dropped. *)
EndWriteLeaks(c, d, ok) ==
    /\ d \in disp[c] /\ d.stage = "write"
    /\ inflight' = IF ok THEN inflight - 1 ELSE inflight
    /\ permits' = [permits EXCEPT ![c] = @ + 1]
    /\ broken' = [broken EXCEPT ![c] = @ \/ ~ok]
    /\ IF ~d.inline THEN disp' = [disp EXCEPT ![c] = @ \ {d}] /\ UNCHANGED reader
       ELSE /\ Go(c, At(IF ok THEN "top" ELSE "closed"))
            /\ disp' = [disp EXCEPT ![c] = IF ok THEN @ \ {d} ELSE Released(@ \ {d})]
    /\ bound' = [bound EXCEPT ![c] = @ /\ (ok \/ ~d.inline)]
    /\ UNCHANGED <<draining, sig, back, sent, read>>

(* The reply is out, or its write failed: token and permit are dropped, an *)
(* inline dispatch gives the loop back or ends it.                         *)
EndWrite(c, d, ok) ==
    /\ d \in disp[c] /\ d.stage = "write"
    /\ inflight' = inflight - 1
    /\ permits' = [permits EXCEPT ![c] = @ + 1]
    /\ broken' = [broken EXCEPT ![c] = @ \/ ~ok]
    /\ IF ~d.inline THEN disp' = [disp EXCEPT ![c] = @ \ {d}] /\ UNCHANGED reader
       ELSE /\ Go(c, At(IF ok THEN "top" ELSE "closed"))
            /\ disp' = [disp EXCEPT ![c] = IF ok THEN @ \ {d} ELSE Released(@ \ {d})]
    /\ bound' = [bound EXCEPT ![c] = @ /\ (ok \/ ~d.inline)]
    /\ UNCHANGED <<draining, sig, back, sent, read>>

(***************************************************************************)
(* SIGTERM.                                                                *)
(***************************************************************************)
Begin ==
    /\ sig = "none"
    /\ draining' = TRUE /\ sig' = "draining"
    /\ UNCHANGED <<inflight, reader, permits, broken, back, bound, sent, read, disp>>

(* drain looks at the count every 10 ms until the deadline. *)
Drain(out) ==
    /\ sig = "draining"
    /\ out = "drained" => inflight = 0
    /\ sig' = out
    /\ UNCHANGED <<draining, inflight, reader, permits, broken, back, bound, sent, read, disp>>

Serve(c) ==
    \/ Top(c) \/ Enter(c) \/ Count(c) \/ Recheck(c) \/ Acquire(c)
    \/ \E k \in Kinds : Read(c, k)
    \/ \E d \in disp[c] : \/ \E s \in {"await", "reply"} : Dispatch(c, d, s)
                          \/ CbTimeout(c, d) \/ StartWrite(c, d)
                          \/ \E ok \in BOOLEAN : EndWrite(c, d, ok)

Next ==
    \/ \E c \in Conns : Send(c) \/ HangUp(c) \/ Serve(c)
    \/ \E c \in Conns : \E d \in disp[c] : DeliverReply(c, d)
    \/ Begin
    \/ Drain("drained")
    \/ Drain("expired")

(* The runtime keeps polling every task and timer, and a peer reads what   *)
(* is written to it or its connection fails.  A callback's reply and the   *)
(* next request are the client's to send or not.                           *)
Spec == /\ Init /\ [][Next]_vars
        /\ \A c \in Conns : WF_vars(Serve(c))
        /\ WF_vars(Drain("drained"))

(***************************************************************************)
(* Properties.                                                             *)
(***************************************************************************)
(* The replies under way: dispatches, and loops past their count. *)
Entered(c) == disp[c] \cup {r \in {reader[c]} : r.at \in {"recheck", "acquire"}}

(* Every field has its type, and a permit is out for every dispatch.       *)
PipelineTypeOK ==
    /\ draining = (sig # "none") /\ inflight \in Nat
    /\ sig \in {"none", "draining", "drained", "expired"}
    /\ \A c \in Conns :
        /\ reader[c].at \in {"top", "read", "submit", "count", "recheck", "acquire",
                             "inline", "closed"}
        /\ disp[c] \subseteq [frame : 1..MaxFrames[c], kind : Kinds, stage : Stages,
                               inline : BOOLEAN]
        /\ permits[c] = MaxInflight - Cardinality(disp[c]) /\ permits[c] >= 0
        /\ reader[c].at = "inline" <=> \E d \in disp[c] : d.inline

(* DrainGate: the count that the drain trusts is that of the replies under *)
(* way, whatever ends a dispatch.                                          *)
CountHonest ==
    inflight = Cardinality(UNION {{<<c, x>> : x \in Entered(c)} : c \in Conns})

(* nfs_main: after a clean drain no reply is under way and none is         *)
(* started, so that the exit cannot cut a frame in two.                    *)
CleanExit == sig = "drained" => \A c \in Conns : disp[c] = {}

(* A read loop that took a request comes back to the connection, or ends:  *)
(* permits, the writer and callbacks never block it for good.              *)
ComesBack ==
    LET idle == {"top", "read", "closed"} IN
    \A c \in Conns : reader[c].at \notin idle ~> reader[c].at \in idle

(* DrainGate and the semaphore: permits and the in-flight count are those  *)
(* of the dispatches there are, whatever ends one.                         *)
PipelineInv == PipelineTypeOK /\ CountHonest

=============================================================================

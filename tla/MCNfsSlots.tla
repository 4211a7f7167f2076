----------------------------- MODULE MCNfsSlots -----------------------------
(* Instances of NfsSlots for TLC. *)
EXTENDS NfsSlots

Ask(o, c, b, z) == [ops |-> o, cache |-> c, big |-> b, size |-> z]

(* With and without sa_cachethis, and a reply too large to cache. *)
MCRequests ==
    {Ask(2, TRUE, FALSE, "cachable"), Ask(2, FALSE, FALSE, "cachable"),
     Ask(2, TRUE, FALSE, "uncachable")}

(* Requests and replies over a limit of the session. *)
MCLimits ==
    {Ask(2, TRUE, TRUE, "cachable"), Ask(3, TRUE, FALSE, "cachable"),
     Ask(2, TRUE, FALSE, "toobig")}

MCAll == MCRequests \cup MCLimits

=============================================================================

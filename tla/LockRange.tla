----------------------------- MODULE LockRange -----------------------------
(***************************************************************************)
(* Byte ranges of NFSv4 locks, as nfs/v4/operations/lockops.rs computes    *)
(* with them: 64-bit offsets and lengths, here Width bits wide, where a    *)
(* bare addition wraps (the release build has no overflow checks) and the  *)
(* all-ones length stands for "to the end of the file".                    *)
(***************************************************************************)
EXTENDS Naturals

CONSTANT Width

ASSUME WidthAssumption == Width \in Nat \ {0}

U64 == 0 .. (2 ^ Width - 1)

(* LockRange::TO_EOF, u64::MAX. *)
TO_EOF == 2 ^ Width - 1

Range64 == [offset : U64, length : U64]

(* The plain "+" of the release build. *)
WrapAdd(a, b) == (a + b) % (2 ^ Width)

SaturatingAdd(a, b) == IF a + b > TO_EOF THEN TO_EOF ELSE a + b

(* A non-sentinel length may not overflow, and a length is never zero. *)
ValidLockRange(r) ==
    /\ r.length # 0
    /\ r.length = TO_EOF \/ r.offset + r.length <= TO_EOF

(* The exclusive end; a zero length is an older build's to-EOF row. *)
End(r) == IF r.length = TO_EOF \/ r.length = 0
          THEN TO_EOF
          ELSE SaturatingAdd(r.offset, r.length)

Overlaps(a, b) == a.offset < End(b) /\ b.offset < End(a)

(* Mutant: a read lock conflicts with nothing. *)
ConflictsWithWriters(a, b, atype, btype) ==
    /\ Overlaps(a, b)
    /\ ~ (atype = "read" \/ btype = "read")

ConflictsWith(a, b, atype, btype) ==
    /\ Overlaps(a, b)
    /\ ~ (atype = "read" /\ btype = "read")

(* What a range is for: the bytes it covers. *)
Bytes(r) == {i \in U64 : r.offset <= i /\ i < End(r)}

-----------------------------------------------------------------------------

(* What is left of a held range when cut is carved out of it: the part    *)
(* before the cut, and the part after it.                                 *)
LeftSurvivor(held, cut) ==
    IF held.offset < cut.offset
    THEN {[offset |-> held.offset, length |-> cut.offset - held.offset]}
    ELSE {}

(* Mutant: the tail is measured from where the cut starts. *)
RightSurvivorLong(held, cut) ==
    LET cutEnd == WrapAdd(cut.offset, cut.length)
    IN  IF held.length # 0 /\ WrapAdd(held.offset, held.length) > cutEnd
        THEN {[offset |-> cutEnd, length |-> held.offset + held.length - cut.offset]}
        ELSE {}

(* The cut's end and the held range's end are bare additions. *)
RightSurvivor(held, cut) ==
    LET cutEnd  == WrapAdd(cut.offset, cut.length)
        heldEnd == WrapAdd(held.offset, held.length)
        Tail(n) == {[offset |-> cutEnd, length |-> n]}
    IN  IF cut.length = 0 THEN {}
        ELSE IF held.length = 0 THEN Tail(0)
        ELSE IF heldEnd > cutEnd THEN Tail(heldEnd - cutEnd)
        ELSE {}

=============================================================================

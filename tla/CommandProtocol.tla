-------------------------- MODULE CommandProtocol --------------------------
(***************************************************************************)
(* The pure part of the remote-command path: what CommandHandler decides   *)
(* about a parsed command (src/src/protocol/command_handler.cpp) and the   *)
(* bounded FIFO table in which InMemoryDedupCache remembers the decisions  *)
(* (src/src/protocol/command_cache.cpp).                                   *)
(*                                                                         *)
(* A command is an element of Cmd, which stands for its command_id; the    *)
(* fields the handler looks at are the functions Kind, Issued and Expires. *)
(***************************************************************************)
EXTENDS Integers, Sequences

CONSTANTS
    Cmd,             \* command identifiers
    Kind,            \* Kind[c]: "OPEN_DOOR", "RESERVED" or "UNKNOWN"
    Issued,          \* Issued[c]: issued_at, in seconds
    Expires,         \* Expires[c]: expires_at, in seconds
    MaxValidity,     \* kOpenDoorMaxValiditySeconds
    SkewTolerance,   \* kClockSkewToleranceSeconds
    DoorOpenCapability,  \* kDoorOpenCapability, "Disabled" in this firmware
    CacheCapacity    \* capacity of the dedup cache

ASSUME CommandAssumption ==
    /\ Kind \in [Cmd -> {"OPEN_DOOR", "RESERVED", "UNKNOWN"}]
    /\ Issued \in [Cmd -> Int]
    /\ Expires \in [Cmd -> Int]
    /\ MaxValidity \in Nat
    /\ SkewTolerance \in Nat
    /\ DoorOpenCapability \in {"Disabled", "Dtmf", "Relay"}
    /\ CacheCapacity \in Nat \ {0}

(* The error codes of a terminal response.  Every terminal status this     *)
(* firmware produces is REJECTED, so the code alone tells them apart.      *)
Verdict == {"CLOCK_NOT_TRUSTWORTHY", "INVALID_TIMESTAMP", "COMMAND_EXPIRED",
            "CAPABILITY_DISABLED", "COMMAND_NOT_ALLOWED", "UNKNOWN_COMMAND"}

----------------------------------------------------------------------------
(* checkTimeSafety(): trustBefore and trustAfter are the two readings of   *)
(* hasValidTime(), which an SNTP transition may separate; t is the wall    *)
(* clock sampled between them.  "OK" stands for std::nullopt.              *)

WellFormedWindow(c) ==
    /\ Issued[c] >= 0
    /\ Expires[c] > Issued[c]
    /\ Expires[c] - Issued[c] <= MaxValidity

(* Mutant of TimeSafety: the clock is trusted on the first reading alone.  *)
TimeSafetyOneReading(c, trustBefore, trustAfter, t) ==
    IF ~trustBefore THEN "CLOCK_NOT_TRUSTWORTHY"
    ELSE IF ~WellFormedWindow(c) THEN "INVALID_TIMESTAMP"
    ELSE IF t < 0 THEN "CLOCK_NOT_TRUSTWORTHY"
    ELSE IF Issued[c] > t + SkewTolerance THEN "INVALID_TIMESTAMP"
    ELSE IF t > Expires[c] THEN "COMMAND_EXPIRED"
    ELSE "OK"

(* Mutant of TimeSafety: expiry is not looked at.                          *)
TimeSafetyNoExpiry(c, trustBefore, trustAfter, t) ==
    IF ~trustBefore THEN "CLOCK_NOT_TRUSTWORTHY"
    ELSE IF ~WellFormedWindow(c) THEN "INVALID_TIMESTAMP"
    ELSE IF ~trustAfter \/ t < 0 THEN "CLOCK_NOT_TRUSTWORTHY"
    ELSE IF Issued[c] > t + SkewTolerance THEN "INVALID_TIMESTAMP"
    ELSE "OK"

TimeSafety(c, trustBefore, trustAfter, t) ==
    IF ~trustBefore THEN "CLOCK_NOT_TRUSTWORTHY"
    ELSE IF ~WellFormedWindow(c) THEN "INVALID_TIMESTAMP"
    ELSE IF ~trustAfter \/ t < 0 THEN "CLOCK_NOT_TRUSTWORTHY"
    ELSE IF Issued[c] > t + SkewTolerance THEN "INVALID_TIMESTAMP"
    ELSE IF t > Expires[c] THEN "COMMAND_EXPIRED"
    ELSE "OK"

(* handle() on a command_id the cache does not know.                       *)
Decision(c, trustBefore, trustAfter, t) ==
    IF Kind[c] = "OPEN_DOOR" THEN
        LET safety == TimeSafety(c, trustBefore, trustAfter, t)
        IN  IF safety # "OK" THEN safety
            ELSE IF DoorOpenCapability # "Disabled" THEN "COMMAND_NOT_ALLOWED"
            ELSE "CAPABILITY_DISABLED"
    ELSE IF Kind[c] = "RESERVED" THEN "COMMAND_NOT_ALLOWED"
    ELSE "UNKNOWN_COMMAND"

(* Only a time-safe OPEN_DOOR is announced with ACCEPTED first, and only   *)
(* while the capability is disabled.                                       *)
HasAccepted(v) == v = "CAPABILITY_DISABLED"

----------------------------------------------------------------------------
(* The dedup cache: rows in insertion order, oldest first.                 *)

Row == [id : Cmd, verdict : Verdict]

(* InMemoryDedupCache::find() *)
Known(rows, c) == \E i \in DOMAIN rows : rows[i].id = c

VerdictOf(rows, c) == rows[CHOOSE i \in DOMAIN rows : rows[i].id = c].verdict

(* InMemoryDedupCache::record(): overwrite in place, else evict the oldest *)
(* row of a full cache and append.                                         *)
Overwrite(rows, c, v) ==
    [i \in DOMAIN rows |-> IF rows[i].id = c THEN [rows[i] EXCEPT !.verdict = v]
                                             ELSE rows[i]]

(* Mutant of Record: the table evicts one row too early.                   *)
RecordEvictsEarly(rows, c, v) ==
    IF Known(rows, c) THEN Overwrite(rows, c, v)
    ELSE Append(IF Len(rows) + 1 >= CacheCapacity /\ rows # <<>> THEN Tail(rows) ELSE rows,
                [id |-> c, verdict |-> v])

Record(rows, c, v) ==
    IF Known(rows, c) THEN Overwrite(rows, c, v)
    ELSE Append(IF Len(rows) >= CacheCapacity THEN Tail(rows) ELSE rows,
                [id |-> c, verdict |-> v])
=============================================================================

-------------------------------- MODULE Dedup --------------------------------
(***************************************************************************)
(* The time-based message deduplication (internal/weixin/dedup.go).        *)
(* isDuplicate reads the clock before it takes the lock, so calls may run  *)
(* with clock readings out of order, and a map that has grown past a limit *)
(* is swept of expired ids with the reading of whichever call is running.  *)
(* Names that other modules have too carry the module's, so that it can be *)
(* extended beside Routing, which makes the keys.                          *)
(***************************************************************************)
EXTENDS Naturals, FiniteSets

CONSTANTS
    Ids,        \* message keys, as scoped by dedupScopedKey
    Callers,    \* monitor goroutines
    TTL,        \* time an id is remembered; parseWeixinConfig makes it positive
    Limit,      \* size of the map that triggers a sweep (5000 in the code)
    MaxTime     \* bound on the clock

ASSUME DedupAssumption ==
    /\ TTL \in Nat \ {0}
    /\ Limit \in Nat
    /\ MaxTime \in Nat

VARIABLES
    clock,      \* the monotonic clock
    known,      \* keys of d.m
    at,         \* d.m[id] for the ids in known
    pc,         \* caller: "idle" or "locking", between time.Now and d.mu.Lock
    arg,        \* the id it asks about
    now,        \* its clock reading
    accepted,   \* ghost: ids reported as new at least once
    last,       \* ghost: clock reading of the latest such report of an id
    sweptAt     \* ghost: clock reading of the latest report of any id

dedupVars == <<clock, known, at, pc, arg, now, accepted, last, sweptAt>>

Time == 0 .. MaxTime

DedupInit ==
    /\ clock = 0
    /\ known = {}
    /\ at = [id \in Ids |-> 0]
    /\ pc = [c \in Callers |-> "idle"]
    /\ arg \in [Callers -> Ids]
    /\ now = [c \in Callers |-> 0]
    /\ accepted = {}
    /\ last = [id \in Ids |-> 0]
    /\ sweptAt = 0

-----------------------------------------------------------------------------
(* Faulty variants, used only to show that the properties can fail *)

\* An age is kept in an unsigned number: a reading older than the record
\* makes it huge.
FreshIfNotEarlier(id, t) == id \in known /\ at[id] <= t /\ t < at[id] + TTL

\* The sweep starts at half the TTL.
ExpiredTooSoon(ids, stamps, t) == {id \in ids : 2 * t >= 2 * stamps[id] + TTL}

-----------------------------------------------------------------------------
(* isDuplicate *)

\* The test of the map: remembered, and not for as long as TTL.
Fresh(id, t) == id \in known /\ t < at[id] + TTL

\* Ids the sweep deletes.
Expired(ids, stamps, t) == {id \in ids : t > stamps[id] + TTL}

(* One more faulty variant *)

\* The map is not swept.
NewUnswept(c) ==
    /\ pc[c] = "locking"
    /\ ~Fresh(arg[c], now[c])
    /\ at' = [at EXCEPT ![arg[c]] = now[c]]
    /\ known' = known \cup {arg[c]}
    /\ accepted' = accepted \cup {arg[c]}
    /\ last' = [last EXCEPT ![arg[c]] = now[c]]
    /\ sweptAt' = now[c]
    /\ pc' = [pc EXCEPT ![c] = "idle"]
    /\ UNCHANGED <<clock, arg, now>>

Tick ==
    /\ clock < MaxTime
    /\ clock' = clock + 1
    /\ UNCHANGED <<known, at, pc, arg, now, accepted, last, sweptAt>>

\* now := time.Now(), before the lock.
Call(c, id) ==
    /\ pc[c] = "idle"
    /\ pc' = [pc EXCEPT ![c] = "locking"]
    /\ arg' = [arg EXCEPT ![c] = id]
    /\ now' = [now EXCEPT ![c] = clock]
    /\ UNCHANGED <<clock, known, at, accepted, last, sweptAt>>

Duplicate(c) ==
    /\ pc[c] = "locking"
    /\ Fresh(arg[c], now[c])
    /\ pc' = [pc EXCEPT ![c] = "idle"]
    /\ UNCHANGED <<clock, known, at, arg, now, accepted, last, sweptAt>>

\* A new id is recorded, then the map is swept if it is over the limit.
New(c) ==
    /\ pc[c] = "locking"
    /\ ~Fresh(arg[c], now[c])
    /\ at' = [at EXCEPT ![arg[c]] = now[c]]
    /\ LET keys == known \cup {arg[c]}
       IN  known' = IF Cardinality(keys) > Limit
                    THEN keys \ Expired(keys, at', now[c])
                    ELSE keys
    /\ accepted' = accepted \cup {arg[c]}
    /\ last' = [last EXCEPT ![arg[c]] = now[c]]
    /\ sweptAt' = now[c]
    /\ pc' = [pc EXCEPT ![c] = "idle"]
    /\ UNCHANGED <<clock, arg, now>>

\* The model's clock stops at MaxTime; callers may still call.
DedupNext ==
    \/ Tick
    \/ \E c \in Callers, id \in Ids : Call(c, id)
    \/ \E c \in Callers : Duplicate(c) \/ New(c)

DedupSpec == DedupInit /\ [][DedupNext]_dedupVars

-----------------------------------------------------------------------------
(* Properties *)

\* Every variable has its type and no clock reading lies in the future.
TypeOK ==
    /\ clock \in Time
    /\ known \subseteq Ids
    /\ at \in [Ids -> Time]
    /\ pc \in [Callers -> {"idle", "locking"}]
    /\ arg \in [Callers -> Ids]
    /\ now \in [Callers -> Time]
    /\ \A c \in Callers : now[c] <= clock
    /\ accepted \subseteq Ids
    /\ last \in [Ids -> Time]
    /\ sweptAt \in Time

\* The map holds every id reported as new less than TTL ago, with the reading
\* of that report: neither a sweep by another caller nor a call with an older
\* reading makes it forget one.
LiveIdIsRemembered ==
    \A id \in accepted :
        clock < last[id] + TTL => id \in known /\ at[id] = last[id]

\* Past the limit the map holds only ids of the last TTL, as the latest
\* report saw the clock: old ids do not pile up.
OverflowIsRecent ==
    Cardinality(known) > Limit => \A id \in known : sweptAt <= at[id] + TTL

\* The sweep drops what is old and nothing else, with whichever caller's
\* reading it is made.
SweepIsExact == LiveIdIsRemembered /\ OverflowIsRecent

\* An id is reported as new a second time only when TTL has passed since the
\* clock reading of the first, however long the calls were held up: a message
\* the gateway delivers again within that time is not handled twice.
NoEarlyRepeat ==
    [][\A c \in Callers :
           New(c) /\ arg[c] \in accepted => clock >= last[arg[c]] + TTL]_dedupVars
=============================================================================

--------------------------- MODULE TimedMapSystem ---------------------------
(***************************************************************************)
(* One TimedHashMap, its callers and the clock.  An action is a call of    *)
(* one of its methods, or the pair of calls through which the callers use  *)
(* entry(); every reader (get, iter, keys) sees Visible.                   *)
(***************************************************************************)
EXTENDS TimedHashMap, Integers

CONSTANTS Key, Value,
          Timeouts,    \* the timeouts a configuration may ask for, in seconds
          TickSteps,   \* bound: by how many milliseconds the clock may advance
          MaxUptime    \* bound: the last uptime explored, in milliseconds

ASSUME TimedMapAssumption ==
    /\ Timeouts \subseteq Nat
    /\ TickSteps \subseteq Nat \ {0}
    /\ MaxUptime \in Nat

VARIABLES tm,        \* the TimedHashMap
          uptime,    \* Instant::elapsed() of the timer, in milliseconds
          written,   \* history: the last write of each key not removed since
          overdue    \* history: for each key the cleanup() calls made while an
                     \* outdated entry for it was in the map

vars == <<tm, uptime, written, overdue>>

Now == FromMillis(uptime)

Visible == [k \in ValidKeys(tm, Now) |-> tm.map[k].value]

Outdated(m, now) == Keys(m) \ ValidKeys(m, now)

Init ==
    /\ \E t \in Timeouts : tm = NewMap(t)
    /\ uptime = 0
    /\ written = [k \in {} |-> {}]
    /\ overdue = [k \in Key |-> 0]

\* A method call turns the map into m; n says how often it called cleanup().
Becomes(m, n) ==
    /\ tm' = m
    /\ overdue' = [k \in Key |-> IF k \in Outdated(tm, Now) \cap Outdated(m, Now)
                                 THEN overdue[k] + n ELSE 0]
    /\ UNCHANGED uptime

Wrote(k, v) ==
    written' = [x \in DOMAIN written \cup {k} |->
                   IF x = k THEN [value |-> v, born |-> uptime] ELSE written[x]]

Erased(S) == written' = Restrict(written, DOMAIN written \ S)

CallInsert(k, v) == Becomes(Insert(tm, k, v, Now), 1) /\ Wrote(k, v)

CallRemove(k) == Becomes(Remove(tm, k), 0) /\ Erased({k})

CallClear == Becomes(Clear(tm), 0) /\ Erased(Key)

CallRetain(S) == Becomes(Retain(tm, S, Now), 0) /\ Erased(Key \ S)

CallSetTimeout(t) == Becomes(SetTimeout(tm, t), 0) /\ UNCHANGED written

CleanupsOfEntry(k) == IF k \in Keys(tm) THEN 0 ELSE 1

\* entry(k).or_insert_with(..): server_challenge_add, allow_game_request.
CallOrInsert(k, v) ==
    LET e == Entry(tm, k, Now) IN
    IF k \in Keys(e)
    THEN Becomes(e, CleanupsOfEntry(k)) /\ UNCHANGED written
    ELSE Becomes(Put(e, k, v, Now), CleanupsOfEntry(k)) /\ Wrote(k, v)

\* entry(k) finds an entry, whose value and time are replaced: add_server.
CallReplace(k, v) ==
    LET e == Entry(tm, k, Now) IN
    k \in Keys(e) /\ Becomes(Put(e, k, v, Now), 0) /\ Wrote(k, v)

\* entry(k) finds nothing and nothing is inserted: a rejected add_server.
CallEntry(k) ==
    LET e == Entry(tm, k, Now) IN
    k \notin Keys(e) /\ Becomes(e, CleanupsOfEntry(k)) /\ UNCHANGED written

Tick(d) ==
    /\ uptime + d <= MaxUptime
    /\ uptime' = uptime + d
    /\ UNCHANGED <<tm, written, overdue>>

Next ==
    \/ \E k \in Key : \/ CallRemove(k) \/ CallEntry(k)
                      \/ \E v \in Value : \/ CallInsert(k, v)
                                          \/ CallOrInsert(k, v)
                                          \/ CallReplace(k, v)
    \/ CallClear
    \/ \E S \in SUBSET Key : CallRetain(S)
    \/ \E t \in Timeouts : CallSetTimeout(t)
    \/ \E d \in TickSteps : Tick(d)

Spec == Init /\ [][Next]_vars

-----------------------------------------------------------------------------
TypeOK ==
    /\ IsTimedHashMap(tm, Key, Value, Timeouts)
    /\ uptime \in 0 .. MaxUptime
    /\ DOMAIN written \subseteq Key
    /\ \A k \in DOMAIN written : written[k] \in [value : Value, born : 0 .. uptime]
    /\ overdue \in [Key -> 0 .. PeriodicLimit]

\* An outdated entry is dropped by the PeriodicLimit-th cleanup() at the latest,
\* whatever calls come in between: the memory a map holds for forgotten keys is
\* bounded by the writes since (hash_map.rs, cleanup; the test `cleanup`).
GarbageBounded == \A k \in Key : overdue[k] < PeriodicLimit

\* The map keeps the promise of TtlMap, up to the unit of the clock.
Promise == INSTANCE TtlMap WITH
    store <- written, visible <- Visible, timeout <- tm.timeout,
    clock <- uptime, Slack <- UnitsPerSec

PromiseKept == Promise!Spec

\* time.rs, l. 12: "125ms units provide ~17 years of uptime without overflow".
\* Within that uptime no entry is ever newer than the clock.
NoOverflowWithinDocumentedUptime ==
    uptime < ClockRange * MillisPerUnit => \A k \in Keys(tm) : tm.map[k].time <= Now

=============================================================================

---------------------------- MODULE TimedHashMap ----------------------------
(***************************************************************************)
(* TimedHashMap (xash3d-master/src/hash_map.rs) and the Periodic counter   *)
(* that drives its cleanup (periodic.rs), as operators on a value          *)
(*     [timeout |-> seconds, cur |-> Periodic::cur, map |-> entries]       *)
(* where an entry is [time |-> RelativeTime, value |-> v] and `now` is the *)
(* reading of the clock the method takes.                                  *)
(*                                                                         *)
(* An entry that is older than the timeout stays in the map until some     *)
(* call removes it: every reader has to check IsValid.                     *)
(***************************************************************************)
EXTENDS RelativeTime, Functions

CONSTANT PeriodicLimit   \* Periodic::DEFAULT_LIMIT, 100 in the code

ASSUME PeriodicLimitAssumption == PeriodicLimit \in Nat \ {0}

\* m is a map with keys in K, values in V and a timeout in T.
IsTimedHashMap(m, K, V, T) ==
    /\ m = [timeout |-> m.timeout, cur |-> m.cur, map |-> m.map]
    /\ m.timeout \in T
    /\ m.cur \in 0 .. PeriodicLimit - 1
    /\ DOMAIN m.map \subseteq K
    /\ m.map \in [DOMAIN m.map -> [time : RelativeTimes, value : V]]

NewMap(timeout) == [timeout |-> timeout, cur |-> 0, map |-> [k \in {} |-> {}]]

\* Mutants: the timeout stays what it was; a new timeout takes a new map.
SetTimeout_Ignored(m, timeout) == m
SetTimeout_NewMap(m, timeout) == NewMap(timeout)

SetTimeout(m, timeout) == [m EXCEPT !.timeout = timeout]

\* len() is their number: outdated entries count.
Keys(m) == DOMAIN m.map

\* Mutant: an entry lives one second too long.
IsValid_Late(m, k, now) == AsSecs(DurationSince(now, m.map[k].time)) <= m.timeout

IsValid(m, k, now) == AsSecs(DurationSince(now, m.map[k].time)) < m.timeout

\* Mutant: readers do not look at the time.
ValidKeys_All(m, now) == Keys(m)

\* What iter() and keys() yield and get() finds.
ValidKeys(m, now) == {k \in Keys(m) : IsValid(m, k, now)}

Keep(m, S) == [m EXCEPT !.map = Restrict(m.map, S)]

\* clear() leaves the periodic counter alone.
Clear(m) == Keep(m, {})

ResetPeriodic(m) == [m EXCEPT !.cur = 0]

\* cleanup(): every PeriodicLimit-th call drops the outdated entries.
Cleanup(m, now) ==
    IF m.cur + 1 < PeriodicLimit
    THEN [m EXCEPT !.cur = m.cur + 1]
    ELSE ResetPeriodic(Keep(m, ValidKeys(m, now)))

\* The write of the wrapped hash map.
Put(m, k, v, now) ==
    [m EXCEPT !.map = [x \in Keys(m) \cup {k} |->
                          IF x = k THEN [time |-> now, value |-> v] ELSE m.map[x]]]

Insert(m, k, v, now) == Cleanup(Put(m, k, v, now), now)

\* Mutant: the entry is read but stays.
Remove_Keeps(m, k) == m

\* remove() takes the entry out even when it returns None for an outdated one.
Remove(m, k) == Keep(m, Keys(m) \ {k})

\* entry(): the map when the Entry is handed out.  Only a lookup of an absent
\* key counts for the periodic cleanup.
Entry(m, k, now) ==
    IF k \notin Keys(m) THEN Cleanup(m, now)
    ELSE IF IsValid(m, k, now) THEN m
    ELSE Remove(m, k)

\* Mutant: the periodic cleanup is put off although outdated entries remain.
Retain_KeepsOutdated(m, S, now) ==
    IF Keys(m) = {} THEN m ELSE ResetPeriodic(Keep(m, Keys(m) \cap S))

\* retain(): of the valid entries those with a key in S stay.
Retain(m, S, now) ==
    IF Keys(m) = {} THEN m ELSE ResetPeriodic(Keep(m, ValidKeys(m, now) \cap S))

=============================================================================

------------------------- MODULE TimedHashMapProofs -------------------------
(***************************************************************************)
(* Facts about the methods of TimedHashMap: each returns a timed hash map, *)
(* and what it does to the keys.  The modules about the master server and  *)
(* about a single map cite them instead of the definitions.                *)
(***************************************************************************)
EXTENDS TimedHashMap, TLAPS

-----------------------------------------------------------------------------
(* The clock                                                               *)

\* Whatever the uptime, the 32-bit counter is in range (RelativeTime::from_millis).
THEOREM FromMillisType ==
    ASSUME NEW ms \in Nat
    PROVE  FromMillis(ms) \in RelativeTimes
<1>1. ms \div UnitsPerSec \in Nat
    BY DEF UnitsPerSec
<1>2. ClockRange \in Nat /\ ClockRange > 0
    BY ClockRangeAssumption
<1>3. \A n \in Nat : n % ClockRange \in 0 .. ClockRange - 1
    BY <1>2
<1> QED
    BY <1>1, <1>3 DEF FromMillis, RelativeTimes

\* Before it wraps the counter is the number of whole units (from_millis).
LEMMA WholeUnits ==
    ASSUME NEW n \in Nat, n < ClockRange * UnitsPerSec
    PROVE  /\ FromMillis(n) \in Nat
           /\ 8 * FromMillis(n) <= n /\ n < 8 * FromMillis(n) + 8
<1>1. ClockRange \in Nat
    BY ClockRangeAssumption
<1>2. \A i \in Nat, r \in Nat : i < r => i % r = i
    OBVIOUS
<1>3. n \div 8 \in Nat /\ 8 * (n \div 8) <= n /\ n < 8 * (n \div 8) + 8
    OBVIOUS
<1>4. n \div 8 < ClockRange
    BY <1>1, <1>3 DEF UnitsPerSec
<1> QED
    BY <1>1, <1>2, <1>3, <1>4 DEF FromMillis, UnitsPerSec

\* While the counter has not wrapped, two readings of the clock are apart by the
\* time between them, to the unit (RelativeTime::duration_since).
THEOREM ElapsedTime ==
    ASSUME NEW born \in Nat, NEW ms \in Nat, born <= ms, ms < ClockRange * UnitsPerSec
    PROVE  LET elapsed == DurationSince(FromMillis(ms), FromMillis(born)) IN
           /\ elapsed \in Nat
           /\ elapsed < ms - born + UnitsPerSec
           /\ ms - born < elapsed + UnitsPerSec
<1>1. ClockRange \in Nat
    BY ClockRangeAssumption
<1>4. born < ClockRange * UnitsPerSec
    BY <1>1 DEF UnitsPerSec
<1> DEFINE now == FromMillis(ms)
           then == FromMillis(born)
<1>5. /\ now \in Nat /\ 8 * now <= ms /\ ms < 8 * now + 8
      /\ then \in Nat /\ 8 * then <= born /\ born < 8 * then + 8
    BY <1>4, WholeUnits
<1> HIDE DEF now, then
<1> QED
    BY <1>5 DEF DurationSince, AsMillis, UnitsPerSec, now, then

\* An entry is valid for its timeout in whole seconds (Timed::is_valid).
THEOREM ValidMillis ==
    ASSUME NEW m, NEW k, NEW now, m.timeout \in Nat,
           DurationSince(now, m.map[k].time) \in Nat
    PROVE  IsValid(m, k, now) <=> DurationSince(now, m.map[k].time) < 1000 * m.timeout
BY DEF IsValid, AsSecs

\* A key that a reader of the clock at ms does not see was written a timeout ago,
\* one that it sees was not, to the unit of the clock (TimedHashMap::get, iter).
THEOREM AgeOfEntry ==
    ASSUME NEW m, m.timeout \in Nat, NEW k \in Keys(m),
           NEW born \in Nat, NEW ms \in Nat, born <= ms, ms < ClockRange * UnitsPerSec,
           m.map[k].time = FromMillis(born)
    PROVE  IF k \in ValidKeys(m, FromMillis(ms))
           THEN ms - born < 1000 * m.timeout + UnitsPerSec
           ELSE ms - born > 1000 * m.timeout - UnitsPerSec
<1> DEFINE now == FromMillis(ms)
           elapsed == DurationSince(now, FromMillis(born))
<1>1. /\ elapsed \in Nat
      /\ elapsed < ms - born + UnitsPerSec
      /\ ms - born < elapsed + UnitsPerSec
    BY ElapsedTime
<1> HIDE DEF now
<1>2. elapsed = DurationSince(now, m.map[k].time)
    OBVIOUS
<1> HIDE DEF elapsed
<1>3. IsValid(m, k, now) <=> elapsed < 1000 * m.timeout
    BY <1>1, <1>2, ValidMillis
<1>4. k \in ValidKeys(m, now) <=> elapsed < 1000 * m.timeout
    BY <1>3 DEF ValidKeys
<1> QED
    BY <1>1, <1>4 DEF now, UnitsPerSec

-----------------------------------------------------------------------------
(* Types                                                                   *)

\* An empty map is well formed (TimedHashMap::new).
THEOREM NewMapType ==
    ASSUME NEW K, NEW V, NEW T, NEW t \in T
    PROVE  /\ IsTimedHashMap(NewMap(t), K, V, T)
           /\ Keys(NewMap(t)) = {}
BY PeriodicLimitAssumption DEF IsTimedHashMap, NewMap, Keys

\* Dropping entries keeps a map well formed.
THEOREM KeepType ==
    ASSUME NEW K, NEW V, NEW T, NEW m, IsTimedHashMap(m, K, V, T),
           NEW S \in SUBSET Keys(m)
    PROVE  /\ IsTimedHashMap(Keep(m, S), K, V, T)
           /\ Keys(Keep(m, S)) = S
           /\ Keep(m, S).cur = m.cur
           /\ Keep(m, S).timeout = m.timeout
           /\ \A k \in S : Keep(m, S).map[k] = m.map[k]
BY DEF IsTimedHashMap, Keep, Keys, Restrict

\* Resetting the periodic counter keeps it well formed (Periodic::reset).
THEOREM ResetPeriodicType ==
    ASSUME NEW K, NEW V, NEW T, NEW m, IsTimedHashMap(m, K, V, T)
    PROVE  /\ IsTimedHashMap(ResetPeriodic(m), K, V, T)
           /\ Keys(ResetPeriodic(m)) = Keys(m)
           /\ ResetPeriodic(m).map = m.map
           /\ ResetPeriodic(m).cur = 0
           /\ ResetPeriodic(m).timeout = m.timeout
BY PeriodicLimitAssumption DEF IsTimedHashMap, ResetPeriodic, Keys

\* cleanup() drops entries at most.
THEOREM CleanupType ==
    ASSUME NEW K, NEW V, NEW T, NEW m, IsTimedHashMap(m, K, V, T), NEW now
    PROVE  /\ IsTimedHashMap(Cleanup(m, now), K, V, T)
           /\ Keys(Cleanup(m, now)) \subseteq Keys(m)
           /\ ValidKeys(m, now) \subseteq Keys(Cleanup(m, now))
           /\ Cleanup(m, now).timeout = m.timeout
           /\ \A k \in Keys(Cleanup(m, now)) : Cleanup(m, now).map[k] = m.map[k]
<1>0. ValidKeys(m, now) \in SUBSET Keys(m)
    BY DEF ValidKeys
<1>1. CASE m.cur + 1 < PeriodicLimit
    <2>1. Cleanup(m, now) = [m EXCEPT !.cur = m.cur + 1]
        BY <1>1 DEF Cleanup
    <2> QED
        BY <1>0, <1>1, <2>1, PeriodicLimitAssumption DEF IsTimedHashMap, Keys
<1>2. CASE ~(m.cur + 1 < PeriodicLimit)
    <2>1. Cleanup(m, now) = ResetPeriodic(Keep(m, ValidKeys(m, now)))
        BY <1>2 DEF Cleanup
    <2>2. /\ IsTimedHashMap(Keep(m, ValidKeys(m, now)), K, V, T)
          /\ Keys(Keep(m, ValidKeys(m, now))) = ValidKeys(m, now)
          /\ Keep(m, ValidKeys(m, now)).timeout = m.timeout
          /\ \A k \in ValidKeys(m, now) :
                Keep(m, ValidKeys(m, now)).map[k] = m.map[k]
        BY <1>0, KeepType
    <2> QED
        BY <1>0, <2>1, <2>2, ResetPeriodicType
<1> QED
    BY <1>1, <1>2

\* A write adds its key and nothing else.
THEOREM PutType ==
    ASSUME NEW K, NEW V, NEW T, NEW m, IsTimedHashMap(m, K, V, T),
           NEW k \in K, NEW v \in V, NEW now \in RelativeTimes
    PROVE  /\ IsTimedHashMap(Put(m, k, v, now), K, V, T)
           /\ Keys(Put(m, k, v, now)) = Keys(m) \cup {k}
           /\ Put(m, k, v, now).timeout = m.timeout
           /\ Put(m, k, v, now).cur = m.cur
BY DEF IsTimedHashMap, Put, Keys

\* It leaves the other entries alone (Timed::new, AHashMap::insert).
THEOREM PutEntries ==
    ASSUME NEW K, NEW V, NEW T, NEW m, IsTimedHashMap(m, K, V, T),
           NEW k, NEW v, NEW now
    PROVE  /\ Put(m, k, v, now).map[k] = [time |-> now, value |-> v]
           /\ \A x \in Keys(m) \ {k} : Put(m, k, v, now).map[x] = m.map[x]
BY DEF IsTimedHashMap, Put, Keys

\* Changing a value in place keeps the map well formed (Timed is DerefMut).
THEOREM ReplaceValueType ==
    ASSUME NEW K, NEW V, NEW T, NEW m, IsTimedHashMap(m, K, V, T),
           NEW k \in Keys(m), NEW v \in V
    PROVE  /\ IsTimedHashMap([m EXCEPT !.map[k].value = v], K, V, T)
           /\ Keys([m EXCEPT !.map[k].value = v]) = Keys(m)
<1> DEFINE new == [m.map EXCEPT ![k] = [m.map[k] EXCEPT !.value = v]]
<1>1. [m.map[k] EXCEPT !.value = v] \in [time : RelativeTimes, value : V]
    BY DEF IsTimedHashMap, Keys
<1>2. new \in [DOMAIN m.map -> [time : RelativeTimes, value : V]]
    BY <1>1 DEF IsTimedHashMap, Keys
<1>3. DOMAIN new = DOMAIN m.map
    BY <1>2
<1>4. [m EXCEPT !.map[k].value = v] = [timeout |-> m.timeout, cur |-> m.cur, map |-> new]
    <2>1. m = [timeout |-> m.timeout, cur |-> m.cur, map |-> m.map]
        BY DEF IsTimedHashMap
    <2> QED
        BY <2>1
<1> HIDE DEF new
<1> QED
    BY <1>2, <1>3, <1>4 DEF IsTimedHashMap, Keys

\* insert() adds its key at most; it may drop outdated ones.
THEOREM InsertType ==
    ASSUME NEW K, NEW V, NEW T, NEW m, IsTimedHashMap(m, K, V, T),
           NEW k \in K, NEW v \in V, NEW now \in RelativeTimes
    PROVE  /\ IsTimedHashMap(Insert(m, k, v, now), K, V, T)
           /\ Keys(Insert(m, k, v, now)) \subseteq Keys(m) \cup {k}
           /\ Insert(m, k, v, now).timeout = m.timeout
<1>1. /\ IsTimedHashMap(Put(m, k, v, now), K, V, T)
      /\ Keys(Put(m, k, v, now)) = Keys(m) \cup {k}
      /\ Put(m, k, v, now).timeout = m.timeout
    BY PutType
<1> QED
    BY <1>1, CleanupType DEF Insert

\* It keeps what is valid, and the entries it keeps are the ones that were there.
THEOREM InsertEntries ==
    ASSUME NEW K, NEW V, NEW T, NEW m, IsTimedHashMap(m, K, V, T),
           NEW k \in K, NEW v \in V, NEW now \in RelativeTimes
    PROVE  /\ ValidKeys(m, now) \ {k} \subseteq Keys(Insert(m, k, v, now))
           /\ \A x \in Keys(Insert(m, k, v, now)) :
                 IF x = k THEN Insert(m, k, v, now).map[x].time = now
                          ELSE Insert(m, k, v, now).map[x] = m.map[x]
<1> DEFINE n == Put(m, k, v, now)
           i == Insert(m, k, v, now)
<1>1. /\ IsTimedHashMap(n, K, V, T)
      /\ Keys(n) = Keys(m) \cup {k}
      /\ n.timeout = m.timeout
    BY PutType
<1>2. /\ n.map[k] = [time |-> now, value |-> v]
      /\ \A x \in Keys(m) \ {k} : n.map[x] = m.map[x]
    BY PutEntries
<1>3. i = Cleanup(n, now)
    BY DEF Insert
<1> HIDE DEF n, i
<1>4. /\ Keys(i) \subseteq Keys(n)
      /\ ValidKeys(n, now) \subseteq Keys(i)
      /\ \A x \in Keys(i) : i.map[x] = n.map[x]
    BY <1>1, <1>3, CleanupType
<1>5. ValidKeys(m, now) \ {k} \subseteq ValidKeys(n, now)
    BY <1>1, <1>2 DEF ValidKeys, IsValid
<1>6. \A x \in Keys(i) : IF x = k THEN i.map[x].time = now ELSE i.map[x] = m.map[x]
    BY <1>1, <1>2, <1>4
<1> QED
    BY <1>4, <1>5, <1>6 DEF i

\* What was just inserted stays, unless entries have no time at all.
THEOREM InsertOwnKey ==
    ASSUME NEW K, NEW V, NEW T, NEW m, IsTimedHashMap(m, K, V, T), m.timeout \in Nat,
           NEW k \in K, NEW v \in V, NEW now \in RelativeTimes
    PROVE  m.timeout > 0 => k \in Keys(Insert(m, k, v, now))
<1> SUFFICES ASSUME m.timeout > 0 PROVE k \in Keys(Insert(m, k, v, now))
    OBVIOUS
<1> DEFINE n == Put(m, k, v, now)
<1>1. /\ IsTimedHashMap(n, K, V, T)
      /\ Keys(n) = Keys(m) \cup {k}
      /\ n.timeout = m.timeout
    BY PutType
<1>2. n.map[k] = [time |-> now, value |-> v]
    BY PutEntries
<1>3. DurationSince(now, now) = 0
    BY ClockRangeAssumption DEF DurationSince, AsMillis, RelativeTimes, UnitsPerSec
<1>4. Insert(m, k, v, now) = Cleanup(n, now)
    BY DEF Insert
<1> HIDE DEF n
<1>5. IsValid(n, k, now)
    BY <1>1, <1>2, <1>3 DEF IsValid, AsSecs
<1>6. k \in ValidKeys(n, now)
    BY <1>1, <1>5 DEF ValidKeys
<1>7. ValidKeys(n, now) \subseteq Keys(Cleanup(n, now))
    BY <1>1, CleanupType
<1> QED
    BY <1>4, <1>6, <1>7

\* remove() drops its key.
THEOREM RemoveType ==
    ASSUME NEW K, NEW V, NEW T, NEW m, IsTimedHashMap(m, K, V, T), NEW k
    PROVE  /\ IsTimedHashMap(Remove(m, k), K, V, T)
           /\ Keys(Remove(m, k)) = Keys(m) \ {k}
           /\ Remove(m, k).timeout = m.timeout
           /\ Remove(m, k).cur = m.cur
           /\ \A x \in Keys(m) \ {k} : Remove(m, k).map[x] = m.map[x]
BY KeepType DEF Remove

\* clear() drops all keys.
THEOREM ClearType ==
    ASSUME NEW K, NEW V, NEW T, NEW m, IsTimedHashMap(m, K, V, T)
    PROVE  /\ IsTimedHashMap(Clear(m), K, V, T)
           /\ Keys(Clear(m)) = {}
BY KeepType DEF Clear

\* entry() drops entries at most.
THEOREM EntryType ==
    ASSUME NEW K, NEW V, NEW T, NEW m, IsTimedHashMap(m, K, V, T), NEW k, NEW now
    PROVE  /\ IsTimedHashMap(Entry(m, k, now), K, V, T)
           /\ Keys(Entry(m, k, now)) \subseteq Keys(m)
           /\ k \in Keys(Entry(m, k, now)) <=> k \in ValidKeys(m, now)
           /\ ValidKeys(m, now) \subseteq Keys(Entry(m, k, now))
           /\ Entry(m, k, now).timeout = m.timeout
           /\ \A x \in Keys(Entry(m, k, now)) : Entry(m, k, now).map[x] = m.map[x]
<1>1. CASE k \notin Keys(m)
    BY <1>1, CleanupType DEF Entry, ValidKeys
<1>2. CASE k \in Keys(m) /\ IsValid(m, k, now)
    BY <1>2 DEF Entry, ValidKeys
<1>3. CASE k \in Keys(m) /\ ~IsValid(m, k, now)
    BY <1>3, RemoveType DEF Entry, ValidKeys
<1> QED
    BY <1>1, <1>2, <1>3

\* retain() keeps keys of S only.
THEOREM RetainType ==
    ASSUME NEW K, NEW V, NEW T, NEW m, IsTimedHashMap(m, K, V, T), NEW S, NEW now
    PROVE  /\ IsTimedHashMap(Retain(m, S, now), K, V, T)
           /\ Keys(Retain(m, S, now)) \subseteq Keys(m) \cap S
           /\ ValidKeys(m, now) \cap S \subseteq Keys(Retain(m, S, now))
           /\ Retain(m, S, now).timeout = m.timeout
           /\ \A k \in Keys(Retain(m, S, now)) : Retain(m, S, now).map[k] = m.map[k]
<1>1. CASE Keys(m) = {}
    BY <1>1 DEF Retain, ValidKeys
<1>2. CASE Keys(m) # {}
    <2> DEFINE R == ValidKeys(m, now) \cap S
    <2>1. R \in SUBSET Keys(m)
        BY DEF ValidKeys
    <2>2. /\ IsTimedHashMap(Keep(m, R), K, V, T)
          /\ Keys(Keep(m, R)) = R
          /\ Keep(m, R).timeout = m.timeout
          /\ \A k \in R : Keep(m, R).map[k] = m.map[k]
        BY <2>1, KeepType
    <2>3. Retain(m, S, now) = ResetPeriodic(Keep(m, R))
        BY <1>2 DEF Retain
    <2> HIDE DEF R
    <2>4. /\ IsTimedHashMap(Retain(m, S, now), K, V, T)
          /\ Keys(Retain(m, S, now)) = R
          /\ Retain(m, S, now).timeout = m.timeout
          /\ Retain(m, S, now).map = Keep(m, R).map
        BY <2>2, <2>3, ResetPeriodicType
    <2> QED
        BY <2>1, <2>2, <2>4 DEF R
<1> QED
    BY <1>1, <1>2

\* set_timeout() changes what is valid, not what is there.
THEOREM SetTimeoutType ==
    ASSUME NEW K, NEW V, NEW T, NEW U, NEW m, IsTimedHashMap(m, K, V, T), NEW t \in U
    PROVE  /\ IsTimedHashMap(SetTimeout(m, t), K, V, U)
           /\ Keys(SetTimeout(m, t)) = Keys(m)
           /\ SetTimeout(m, t).map = m.map
           /\ SetTimeout(m, t).cur = m.cur
BY DEF IsTimedHashMap, SetTimeout, Keys

=============================================================================

------------------------ MODULE TimedMapSystemProofs ------------------------
(***************************************************************************)
(* A single TimedHashMap: it stays well formed, it does not hoard outdated *)
(* entries, and it keeps the promise of TtlMap as long as the clock has    *)
(* not wrapped.                                                            *)
(***************************************************************************)
EXTENDS TimedMapSystem, TimedHashMapProofs

\* The clock does not wrap before the last uptime explored (time.rs, l. 12).
NoWrap == MaxUptime < ClockRange * UnitsPerSec

-----------------------------------------------------------------------------
(* What the methods do to the number of outdated entries and to the counter *)

\* The calls counted as cleanup() move the counter on or leave nothing outdated.
Counted(m, n) ==
    m.cur = tm.cur + n \/ Outdated(tm, Now) \cap Outdated(m, Now) = {}

\* cleanup() counts a call or drops what is outdated (Periodic::next).
LEMMA CleanupCount ==
    ASSUME NEW K, NEW V, NEW T, NEW m, IsTimedHashMap(m, K, V, T), NEW now
    PROVE  Cleanup(m, now).cur = m.cur + 1 \/ Outdated(Cleanup(m, now), now) = {}
<1>1. CASE m.cur + 1 < PeriodicLimit
    BY <1>1 DEF Cleanup, IsTimedHashMap
<1>2. CASE ~(m.cur + 1 < PeriodicLimit)
    <2> DEFINE V1 == ValidKeys(m, now)
    <2>1. V1 \in SUBSET Keys(m)
        BY DEF ValidKeys
    <2>2. Cleanup(m, now) = ResetPeriodic(Keep(m, V1))
        BY <1>2 DEF Cleanup
    <2> HIDE DEF V1
    <2>3. /\ IsTimedHashMap(Keep(m, V1), K, V, T)
          /\ Keys(Keep(m, V1)) = V1
          /\ Keep(m, V1).timeout = m.timeout
          /\ \A k \in V1 : Keep(m, V1).map[k] = m.map[k]
        BY <2>1, KeepType
    <2>4. /\ Keys(Cleanup(m, now)) = V1
          /\ Cleanup(m, now).timeout = m.timeout
          /\ \A k \in V1 : Cleanup(m, now).map[k] = m.map[k]
        BY <2>2, <2>3, ResetPeriodicType
    <2> QED
        BY <2>4 DEF V1, Outdated, ValidKeys, IsValid
<1> QED
    BY <1>1, <1>2

\* A map whose entries come from another is as valid as that one.
LEMMA SameValidity ==
    ASSUME NEW m, NEW n, NEW now, n.timeout = m.timeout, NEW S,
           \A k \in Keys(n) \cap S : k \in Keys(m) /\ n.map[k] = m.map[k]
    PROVE  ValidKeys(n, now) \cap S = ValidKeys(m, now) \cap S \cap Keys(n)
BY DEF ValidKeys, IsValid

\* A write at now is valid at now, if entries have any time at all.
LEMMA NewIsValid ==
    ASSUME NEW m, m.timeout \in Nat, NEW k \in Keys(m), NEW now \in RelativeTimes,
           m.map[k].time = now
    PROVE  k \in ValidKeys(m, now) <=> m.timeout > 0
<1>1. DurationSince(now, now) = 0
    BY ClockRangeAssumption DEF DurationSince, AsMillis, RelativeTimes, UnitsPerSec
<1> QED
    BY <1>1 DEF ValidKeys, IsValid, AsSecs

\* With no time to live there is nothing to see.
LEMMA NoTimeNoEntries ==
    ASSUME NEW K, NEW V, NEW T, NEW m, IsTimedHashMap(m, K, V, T), m.timeout = 0,
           NEW now \in RelativeTimes
    PROVE  ValidKeys(m, now) = {}
<1> SUFFICES ASSUME NEW k \in Keys(m) PROVE ~IsValid(m, k, now)
    BY DEF ValidKeys
<1> DEFINE elapsed == DurationSince(now, m.map[k].time)
<1>1. m.map[k].time \in Nat /\ now \in Nat
    BY ClockRangeAssumption DEF IsTimedHashMap, Keys, RelativeTimes
<1>2. elapsed \in Nat
    BY <1>1 DEF DurationSince, AsMillis, UnitsPerSec
<1> HIDE DEF elapsed
<1>3. \A n \in Nat : n \div 1000 >= 0
    OBVIOUS
<1> QED
    BY <1>2, <1>3 DEF IsValid, AsSecs, elapsed

\* The reading of the clock is in range.
LEMMA NowType ==
    ASSUME TypeOK
    PROVE  Now \in RelativeTimes /\ uptime \in Nat
<1>1. uptime \in Nat
    BY TimedMapAssumption DEF TypeOK
<1> QED
    BY <1>1, FromMillisType DEF Now

\* What TypeOK says about the map.
LEMMA MapFacts ==
    ASSUME TypeOK
    PROVE  /\ IsTimedHashMap(tm, Key, Value, Timeouts)
           /\ tm.timeout \in Nat
           /\ tm.cur \in 0 .. PeriodicLimit - 1
           /\ Keys(tm) \subseteq Key
BY TimedMapAssumption DEF TypeOK, IsTimedHashMap, Keys

-----------------------------------------------------------------------------
(* Types and the bound on garbage                                          *)

\* The periodic counter has seen every cleanup() an outdated entry has survived.
GarbageCounted == \A k \in Key : overdue[k] <= tm.cur

IInv == TypeOK /\ GarbageCounted

\* A call that counts right keeps the account.
LEMMA BecomesStep ==
    ASSUME IInv, NEW m, NEW n \in {0, 1}, Becomes(m, n),
           IsTimedHashMap(m, Key, Value, Timeouts), Counted(m, n)
    PROVE  /\ tm' = m /\ uptime' = uptime
           /\ overdue' \in [Key -> 0 .. PeriodicLimit]
           /\ GarbageCounted'
<1>1. /\ tm' = m /\ uptime' = uptime
      /\ overdue' = [k \in Key |-> IF k \in Outdated(tm, Now) \cap Outdated(m, Now)
                                   THEN overdue[k] + n ELSE 0]
    BY DEF Becomes
<1>2. /\ m.cur \in 0 .. PeriodicLimit - 1
      /\ tm.cur \in 0 .. PeriodicLimit - 1
      /\ PeriodicLimit \in Nat
    BY MapFacts, PeriodicLimitAssumption DEF IInv, IsTimedHashMap
<1>3. ASSUME NEW k \in Key
      PROVE  overdue'[k] \in 0 .. PeriodicLimit /\ overdue'[k] <= m.cur
    <2>1. /\ overdue[k] \in 0 .. PeriodicLimit
          /\ overdue[k] <= tm.cur
        BY DEF IInv, TypeOK, GarbageCounted
    <2>2. CASE k \in Outdated(tm, Now) \cap Outdated(m, Now)
        <3>1. m.cur = tm.cur + n
            BY <2>2 DEF Counted
        <3>2. overdue'[k] = overdue[k] + n
            BY <1>1, <2>2
        <3> QED
            BY <1>2, <2>1, <3>1, <3>2
    <2>3. CASE k \notin Outdated(tm, Now) \cap Outdated(m, Now)
        BY <1>1, <1>2, <2>3
    <2> QED
        BY <2>2, <2>3
<1> QED
    BY <1>1, <1>3 DEF GarbageCounted

-----------------------------------------------------------------------------
(* The calls, by what they do to the entries                               *)

\* Every entry is the last write of its key (Timed { time, value }).
Linked == \A k \in Keys(tm) :
    /\ k \in DOMAIN written
    /\ tm.map[k] = [time |-> FromMillis(written[k].born), value |-> written[k].value]

RInv == IInv /\ Linked

WrittenType(w, now) ==
    /\ DOMAIN w \subseteq Key
    /\ \A k \in DOMAIN w : w[k] \in [value : Value, born : 0 .. now]

\* m has entries of tm only, and all the valid ones of S.
Survives(m, S) ==
    /\ IsTimedHashMap(m, Key, Value, Timeouts)
    /\ m.timeout = tm.timeout
    /\ Keys(m) \subseteq Keys(tm) \cap S
    /\ ValidKeys(tm, Now) \cap S \subseteq Keys(m)
    /\ \A x \in Keys(m) : m.map[x] = tm.map[x]

\* m is tm after a write of v under k, without some of its outdated entries.
WritesTo(m, k, v) ==
    /\ IsTimedHashMap(m, Key, Value, Timeouts)
    /\ m.timeout = tm.timeout
    /\ Keys(m) \subseteq Keys(tm) \cup {k}
    /\ ValidKeys(tm, Now) \ {k} \subseteq Keys(m)
    /\ tm.timeout > 0 => k \in Keys(m)
    /\ k \in Keys(m) => m.map[k] = [time |-> Now, value |-> v]
    /\ \A x \in Keys(m) \ {k} : m.map[x] = tm.map[x]

\* An insert keeps the valid entries and adds its own (TimedHashMap::insert).
LEMMA InsertWrites ==
    ASSUME IInv, NEW k \in Key, NEW v \in Value
    PROVE  WritesTo(Insert(tm, k, v, Now), k, v) /\ Counted(Insert(tm, k, v, Now), 1)
<1> DEFINE n == Put(tm, k, v, Now)
           i == Insert(tm, k, v, Now)
<1>1. /\ IsTimedHashMap(tm, Key, Value, Timeouts) /\ tm.timeout \in Nat
      /\ Now \in RelativeTimes
    BY MapFacts, NowType DEF IInv
<1>2. /\ IsTimedHashMap(n, Key, Value, Timeouts)
      /\ Keys(n) = Keys(tm) \cup {k}
      /\ n.timeout = tm.timeout
      /\ n.cur = tm.cur
    BY <1>1, PutType
<1>3. /\ n.map[k] = [time |-> Now, value |-> v]
      /\ \A x \in Keys(tm) \ {k} : n.map[x] = tm.map[x]
    BY <1>1, PutEntries
<1>4. i = Cleanup(n, Now)
    BY DEF Insert
<1> HIDE DEF n, i
<1>5. /\ IsTimedHashMap(i, Key, Value, Timeouts)
      /\ Keys(i) \subseteq Keys(n)
      /\ ValidKeys(n, Now) \subseteq Keys(i)
      /\ i.timeout = n.timeout
      /\ \A x \in Keys(i) : i.map[x] = n.map[x]
      /\ i.cur = n.cur + 1 \/ Outdated(i, Now) = {}
    BY <1>2, <1>4, CleanupType, CleanupCount
<1>6. ValidKeys(tm, Now) \ {k} \subseteq ValidKeys(n, Now)
    BY <1>2, <1>3 DEF ValidKeys, IsValid
<1>7. tm.timeout > 0 => k \in ValidKeys(n, Now)
    BY <1>1, <1>2, <1>3, NewIsValid
<1>8. WritesTo(i, k, v)
    BY <1>2, <1>3, <1>5, <1>6, <1>7 DEF WritesTo
<1>9. Counted(i, 1)
    BY <1>2, <1>5 DEF Counted
<1> QED
    BY <1>8, <1>9 DEF i

\* A lookup for a write drops outdated entries at most (TimedHashMap::entry).
LEMMA EntrySurvives ==
    ASSUME IInv, NEW k \in Key
    PROVE  LET e == Entry(tm, k, Now) IN
           /\ Survives(e, Key)
           /\ k \in Keys(e) <=> k \in ValidKeys(tm, Now)
           /\ k \in Keys(e) => e = tm
           /\ Counted(e, CleanupsOfEntry(k))
           /\ k \in Keys(tm) => e.cur = tm.cur
           /\ k \notin Keys(tm) => e.cur = tm.cur + 1 \/ Outdated(e, Now) = {}
<1> DEFINE e == Entry(tm, k, Now)
<1>1. /\ IsTimedHashMap(tm, Key, Value, Timeouts)
      /\ tm.cur \in Nat
      /\ Keys(tm) \subseteq Key
    BY MapFacts, PeriodicLimitAssumption DEF IInv
<1>2. /\ IsTimedHashMap(e, Key, Value, Timeouts)
      /\ Keys(e) \subseteq Keys(tm)
      /\ k \in Keys(e) <=> k \in ValidKeys(tm, Now)
      /\ ValidKeys(tm, Now) \subseteq Keys(e)
      /\ e.timeout = tm.timeout
      /\ \A x \in Keys(e) : e.map[x] = tm.map[x]
    BY <1>1, EntryType
<1>3. k \in Keys(e) => e = tm
    BY <1>2 DEF Entry, ValidKeys
<1>4. k \in Keys(tm) => e.cur = tm.cur
    BY <1>1, RemoveType DEF Entry
<1>5. k \notin Keys(tm) => e.cur = tm.cur + 1 \/ Outdated(e, Now) = {}
    BY <1>1, CleanupCount DEF Entry
<1>6. Counted(e, CleanupsOfEntry(k))
    BY <1>1, <1>4, <1>5 DEF Counted, CleanupsOfEntry
<1>7. Survives(e, Key)
    BY <1>1, <1>2 DEF Survives, ValidKeys
<1> QED
    BY <1>2, <1>3, <1>4, <1>5, <1>6, <1>7

\* Inserting through a vacant entry (VacantEntry::insert).
LEMMA VacantWrites ==
    ASSUME IInv, NEW k \in Key, NEW v \in Value, k \notin Keys(Entry(tm, k, Now))
    PROVE  LET m == Put(Entry(tm, k, Now), k, v, Now)
           IN  WritesTo(m, k, v) /\ Counted(m, CleanupsOfEntry(k))
<1> DEFINE e == Entry(tm, k, Now)
           m == Put(e, k, v, Now)
<1>1. /\ Survives(e, Key)
      /\ k \in Keys(tm) => e.cur = tm.cur
      /\ k \notin Keys(tm) => e.cur = tm.cur + 1 \/ Outdated(e, Now) = {}
    BY EntrySurvives
<1>2. Now \in RelativeTimes /\ tm.cur \in Nat /\ Keys(tm) \subseteq Key
    BY NowType, MapFacts, PeriodicLimitAssumption DEF IInv
<1> HIDE DEF e
<1>3. /\ IsTimedHashMap(m, Key, Value, Timeouts)
      /\ Keys(m) = Keys(e) \cup {k}
      /\ m.timeout = e.timeout
      /\ m.cur = e.cur
    BY <1>1, <1>2, PutType DEF Survives
<1>4. /\ m.map[k] = [time |-> Now, value |-> v]
      /\ \A x \in Keys(e) \ {k} : m.map[x] = e.map[x]
    BY <1>1, PutEntries DEF Survives
<1> HIDE DEF m
<1>5. WritesTo(m, k, v)
    BY <1>1, <1>2, <1>3, <1>4 DEF WritesTo, Survives, ValidKeys
<1>6. Counted(m, CleanupsOfEntry(k))
    <2>1. CASE k \in Keys(tm)
        BY <1>1, <1>2, <1>3, <2>1 DEF Counted, CleanupsOfEntry
    <2>2. CASE k \notin Keys(tm)
        <3>1. CASE e.cur = tm.cur + 1
            BY <1>3, <2>2, <3>1 DEF Counted, CleanupsOfEntry
        <3>2. CASE Outdated(e, Now) = {}
            <4>1. Keys(e) \subseteq ValidKeys(m, Now)
                BY <1>1, <1>3, <1>4, <3>2, k \notin Keys(e)
                   DEF Outdated, ValidKeys, IsValid, Survives, e
            <4> QED
                BY <1>3, <2>2, <4>1 DEF Counted, Outdated
        <3> QED
            BY <1>1, <2>2, <3>1, <3>2
    <2> QED
        BY <2>1, <2>2
<1> QED
    BY <1>5, <1>6 DEF m, e

\* Replacing a valid entry (OccupiedEntry::insert).
LEMMA OccupiedWrites ==
    ASSUME IInv, NEW k \in Key, NEW v \in Value, k \in Keys(Entry(tm, k, Now))
    PROVE  LET m == Put(Entry(tm, k, Now), k, v, Now)
           IN  WritesTo(m, k, v) /\ Counted(m, 0)
<1> DEFINE m == Put(tm, k, v, Now)
<1>1. Entry(tm, k, Now) = tm
    BY EntrySurvives
<1>2. /\ IsTimedHashMap(tm, Key, Value, Timeouts) /\ tm.cur \in Nat
      /\ Now \in RelativeTimes
    BY NowType, MapFacts, PeriodicLimitAssumption DEF IInv
<1>3. /\ IsTimedHashMap(m, Key, Value, Timeouts)
      /\ Keys(m) = Keys(tm) \cup {k}
      /\ m.timeout = tm.timeout
      /\ m.cur = tm.cur
    BY <1>2, PutType
<1>4. /\ m.map[k] = [time |-> Now, value |-> v]
      /\ \A x \in Keys(tm) \ {k} : m.map[x] = tm.map[x]
    BY <1>2, PutEntries
<1> HIDE DEF m
<1>5. WritesTo(m, k, v)
    BY <1>3, <1>4 DEF WritesTo, ValidKeys
<1>6. Counted(m, 0)
    BY <1>2, <1>3 DEF Counted
<1> QED
    BY <1>1, <1>5, <1>6 DEF m

\* What remove(), clear() and retain() leave.
LEMMA ErasingSurvives ==
    ASSUME IInv
    PROVE  /\ \A k \in Key : /\ Survives(Remove(tm, k), Key \ {k})
                             /\ Counted(Remove(tm, k), 0)
           /\ Survives(Clear(tm), {}) /\ Counted(Clear(tm), 0)
           /\ \A S \in SUBSET Key : /\ Survives(Retain(tm, S, Now), S)
                                    /\ Counted(Retain(tm, S, Now), 0)
<1>1. /\ IsTimedHashMap(tm, Key, Value, Timeouts) /\ tm.cur \in Nat
      /\ Keys(tm) \subseteq Key
    BY MapFacts, PeriodicLimitAssumption DEF IInv
<1>2. ASSUME NEW k \in Key
      PROVE  Survives(Remove(tm, k), Key \ {k}) /\ Counted(Remove(tm, k), 0)
    BY <1>1, RemoveType DEF Survives, Counted, ValidKeys
<1>3. Survives(Clear(tm), {}) /\ Counted(Clear(tm), 0)
    <2>1. Clear(tm) = Keep(tm, {})
        BY DEF Clear
    <2>2. /\ IsTimedHashMap(Clear(tm), Key, Value, Timeouts)
          /\ Keys(Clear(tm)) = {}
          /\ Clear(tm).cur = tm.cur
          /\ Clear(tm).timeout = tm.timeout
        BY <1>1, <2>1, KeepType
    <2> QED
        BY <1>1, <2>2 DEF Survives, Counted
<1>4. ASSUME NEW S \in SUBSET Key
      PROVE  Survives(Retain(tm, S, Now), S) /\ Counted(Retain(tm, S, Now), 0)
    <2> DEFINE r == Retain(tm, S, Now)
               R == ValidKeys(tm, Now) \cap S
    <2>1. Survives(r, S)
        BY <1>1, RetainType DEF Survives
    <2>2. CASE Keys(tm) = {}
        BY <2>1, <2>2 DEF Counted, Outdated
    <2>3. CASE Keys(tm) # {}
        <3>1. R \in SUBSET Keys(tm)
            BY DEF ValidKeys
        <3>2. r = ResetPeriodic(Keep(tm, R))
            BY <2>3 DEF Retain
        <3> HIDE DEF R
        <3>3. Keys(r) = R
            <4>1. /\ IsTimedHashMap(Keep(tm, R), Key, Value, Timeouts)
                  /\ Keys(Keep(tm, R)) = R
                BY <1>1, <3>1, KeepType
            <4> QED
                BY <3>2, <4>1, ResetPeriodicType
        <3>4. Outdated(r, Now) = {}
            BY <2>1, <3>3 DEF R, Outdated, Survives, ValidKeys, IsValid
        <3> QED
            BY <2>1, <3>4 DEF Counted
    <2> QED
        BY <2>1, <2>2, <2>3
<1> QED
    BY <1>2, <1>3, <1>4

-----------------------------------------------------------------------------
(* The history and the promise                                             *)

\* A write is the Write of TtlMap (insert, VacantEntry, OccupiedEntry).
LEMMA WriteStep ==
    ASSUME RInv, NEW k \in Key, NEW v \in Value, WritesTo(tm', k, v),
           uptime' = uptime, Wrote(k, v)
    PROVE  WrittenType(written, uptime)' /\ Linked' /\ Promise!Write(k, v)
<1>1. /\ uptime \in Nat /\ Now \in RelativeTimes
      /\ tm.timeout \in Nat /\ Now' = Now
      /\ WrittenType(written, uptime)
    BY NowType, MapFacts DEF RInv, IInv, Now, TypeOK, WrittenType
<1>2. written' = [x \in DOMAIN written \cup {k} |->
                     IF x = k THEN [value |-> v, born |-> uptime] ELSE written[x]]
    BY DEF Wrote
<1>3. WrittenType(written, uptime)'
    BY <1>1, <1>2 DEF WrittenType
<1>4. Linked'
    <2> SUFFICES ASSUME NEW x \in Keys(tm')
                 PROVE  /\ x \in DOMAIN written'
                        /\ tm'.map[x] = [time |-> FromMillis(written'[x].born),
                                         value |-> written'[x].value]
        BY DEF Linked
    <2>1. CASE x = k
        BY <1>2, <2>1 DEF WritesTo, Now
    <2>2. CASE x # k
        <3>1. x \in Keys(tm) /\ tm'.map[x] = tm.map[x]
            BY <2>2 DEF WritesTo
        <3>2. x \in DOMAIN written' /\ written'[x] = written[x]
            BY <1>2, <2>2, <3>1 DEF RInv, Linked
        <3> QED
            BY <3>1, <3>2 DEF RInv, Linked
    <2> QED
        BY <2>1, <2>2
<1>5. ValidKeys(tm', Now) =
         IF tm.timeout = 0 THEN {} ELSE ValidKeys(tm, Now) \cup {k}
    <2>1. \A x \in Keys(tm') \ {k} :
             x \in ValidKeys(tm', Now) <=> x \in ValidKeys(tm, Now)
        BY DEF WritesTo, ValidKeys, IsValid
    <2>2. k \in Keys(tm') => (k \in ValidKeys(tm', Now) <=> tm.timeout > 0)
        <3> SUFFICES ASSUME k \in Keys(tm')
                     PROVE  k \in ValidKeys(tm', Now) <=> tm.timeout > 0
            OBVIOUS
        <3>1. tm'.map[k].time = Now /\ tm'.timeout = tm.timeout
            BY DEF WritesTo
        <3> QED
            BY <1>1, <3>1, NewIsValid
    <2>3. CASE tm.timeout = 0
        <3>1. IsTimedHashMap(tm', Key, Value, Timeouts) /\ tm'.timeout = 0
            BY <2>3 DEF WritesTo
        <3> QED
            BY <1>1, <2>3, <3>1, NoTimeNoEntries
    <2>4. CASE tm.timeout # 0
        BY <1>1, <2>1, <2>2, <2>4 DEF WritesTo, ValidKeys
    <2> QED
        BY <2>3, <2>4
<1>6. /\ DOMAIN Visible = ValidKeys(tm, Now)
      /\ Visible' = [x \in ValidKeys(tm', Now) |-> tm'.map[x].value]
    BY <1>1 DEF Visible
<1>7. Visible' = [x \in ValidKeys(tm', Now) |-> written'[x].value]
    <2>1. ASSUME NEW x \in ValidKeys(tm', Now)
          PROVE  tm'.map[x].value = written'[x].value
        <3>1. x \in Keys(tm')
            BY DEF ValidKeys
        <3>2. tm'.map[x] = [time |-> FromMillis(written'[x].born),
                            value |-> written'[x].value]
            BY <1>4, <3>1 DEF Linked
        <3> QED
            BY <3>2
    <2> QED
        BY <1>6, <2>1
<1>8. Promise!Write(k, v)
    <2>1. Promise!ShowNext(IF tm.timeout = 0 THEN {} ELSE DOMAIN Visible \cup {k})
        BY <1>5, <1>6, <1>7 DEF Promise!ShowNext
    <2>2. tm'.timeout = tm.timeout
        BY DEF WritesTo
    <2> QED
        BY <1>2, <2>1, <2>2 DEF Promise!Write
<1> QED
    BY <1>3, <1>4, <1>8

\* Dropping entries is the Erase of TtlMap (remove, clear, retain).
LEMMA EraseStep ==
    ASSUME RInv, NEW S \in SUBSET Key, Survives(tm', Key \ S),
           uptime' = uptime, Erased(S)
    PROVE  WrittenType(written, uptime)' /\ Linked' /\ Promise!Erase(S)
<1>1. Now' = Now /\ WrittenType(written, uptime)
    BY DEF RInv, IInv, Now, TypeOK, WrittenType
<1>2. written' = [x \in DOMAIN written \ S |-> written[x]]
    BY DEF Erased, Restrict
<1>3. WrittenType(written, uptime)'
    BY <1>1, <1>2 DEF WrittenType
<1>4. ASSUME NEW x \in Keys(tm')
      PROVE  /\ x \in DOMAIN written'
             /\ tm'.map[x] = [time |-> FromMillis(written'[x].born),
                              value |-> written'[x].value]
    <2>1. x \in Keys(tm) \ S /\ tm'.map[x] = tm.map[x]
        BY DEF Survives
    <2>2. x \in DOMAIN written' /\ written'[x] = written[x]
        BY <1>2, <2>1 DEF RInv, Linked
    <2> QED
        BY <2>1, <2>2 DEF RInv, Linked
<1>5. ValidKeys(tm', Now) = ValidKeys(tm, Now) \ S
    <2>1. Keys(tm) \subseteq Key
        BY MapFacts DEF RInv, IInv
    <2> QED
        BY <2>1 DEF Survives, ValidKeys, IsValid
<1>6. Promise!ShowNext(DOMAIN Visible \ S)
    <2>1. Visible' = [x \in ValidKeys(tm', Now) |-> tm'.map[x].value]
        BY <1>1 DEF Visible
    <2>2. ASSUME NEW x \in ValidKeys(tm', Now)
          PROVE  tm'.map[x].value = written'[x].value
        <3>1. x \in Keys(tm')
            BY DEF ValidKeys
        <3>2. tm'.map[x] = [time |-> FromMillis(written'[x].born),
                            value |-> written'[x].value]
            BY <1>4, <3>1
        <3> QED
            BY <3>2
    <2> QED
        BY <1>5, <2>1, <2>2 DEF Visible, Promise!ShowNext
<1>7. Linked'
    BY <1>4 DEF Linked
<1>8. Promise!Erase(S)
    BY <1>6 DEF Erased, Promise!Erase, Survives, Restrict, Promise!Restrict
<1> QED
    BY <1>3, <1>7, <1>8

\* A lookup is no step of TtlMap at all (TimedHashMap::entry).
LEMMA LookupStep ==
    ASSUME RInv, Survives(tm', Key), uptime' = uptime, written' = written
    PROVE  WrittenType(written, uptime)' /\ Linked' /\ UNCHANGED Promise!vars
<1>1. Now' = Now /\ WrittenType(written, uptime)
    BY DEF RInv, IInv, Now, TypeOK, WrittenType
<1>2. WrittenType(written, uptime)'
    BY <1>1 DEF WrittenType
<1>3. Linked'
    BY DEF RInv, Linked, Survives
<1>4. ValidKeys(tm', Now) = ValidKeys(tm, Now)
    BY MapFacts DEF RInv, IInv, Survives, ValidKeys, IsValid
<1>5. Visible' = Visible
    <2>1. \A x \in ValidKeys(tm, Now) : tm'.map[x].value = tm.map[x].value
        BY <1>4 DEF Survives, ValidKeys
    <2> QED
        BY <1>1, <1>4, <2>1 DEF Visible
<1> QED
    BY <1>2, <1>3, <1>5 DEF Promise!vars, Survives

\* What a reader sees after the clock or the timeout has changed is as old as
\* TtlMap allows.
LEMMA AgesNext ==
    ASSUME NoWrap, TypeOK', Linked',
           Visible' = [x \in ValidKeys(tm', Now') |-> tm'.map[x].value]
    PROVE  /\ Promise!ShowNext(ValidKeys(tm', Now'))
           /\ \A k \in ValidKeys(tm', Now') : Promise!MayShow(k)'
           /\ \A k \in Keys(tm') \ ValidKeys(tm', Now') : Promise!MayHide(k)'
<1>1. /\ tm'.timeout \in Nat
      /\ uptime' \in 0 .. MaxUptime
      /\ \A k \in DOMAIN written' : written'[k].born \in 0 .. uptime'
    BY TimedMapAssumption DEF TypeOK, IsTimedHashMap
<1>2. uptime' \in Nat /\ uptime' < ClockRange * UnitsPerSec
    BY <1>1, TimedMapAssumption, ClockRangeAssumption DEF NoWrap, UnitsPerSec
<1>3. ASSUME NEW k \in Keys(tm')
      PROVE  /\ k \in DOMAIN written'
             /\ tm'.map[k].time = FromMillis(written'[k].born)
             /\ tm'.map[k].value = written'[k].value
             /\ written'[k].born \in Nat /\ written'[k].born <= uptime'
    <2>1. /\ k \in DOMAIN written'
          /\ tm'.map[k] = [time |-> FromMillis(written'[k].born),
                           value |-> written'[k].value]
        BY DEF Linked
    <2>2. /\ tm'.map[k].time = FromMillis(written'[k].born)
          /\ tm'.map[k].value = written'[k].value
        BY <2>1
    <2>3. written'[k].born \in 0 .. uptime'
        BY <1>1, <2>1
    <2> QED
        BY <1>2, <2>1, <2>2, <2>3
<1>4. Promise!ShowNext(ValidKeys(tm', Now'))
    BY <1>3 DEF Promise!ShowNext, ValidKeys
<1>5. ASSUME NEW k \in Keys(tm')
      PROVE  IF k \in ValidKeys(tm', FromMillis(uptime'))
             THEN uptime' - written'[k].born < 1000 * tm'.timeout + UnitsPerSec
             ELSE uptime' - written'[k].born > 1000 * tm'.timeout - UnitsPerSec
    BY <1>1, <1>2, <1>3, AgeOfEntry
<1>6. Now' = FromMillis(uptime')
    BY DEF Now
<1> QED
    BY <1>4, <1>5, <1>6
       DEF Promise!MayShow, Promise!MayHide, Promise!Age, ValidKeys

\* A new timeout is the ChangeTimeout of TtlMap (TimedHashMap::set_timeout).
LEMMA SetTimeoutStep ==
    ASSUME NoWrap, RInv, NEW t \in Timeouts, CallSetTimeout(t), RInv'
    PROVE  Promise!ChangeTimeout
<1>1. /\ IsTimedHashMap(tm, Key, Value, Timeouts) /\ tm.timeout \in Nat
      /\ Now \in RelativeTimes /\ t \in Nat
      /\ uptime' = uptime /\ written' = written /\ Now' = Now
      /\ tm' = SetTimeout(tm, t)
    BY MapFacts, NowType, TimedMapAssumption
       DEF RInv, IInv, CallSetTimeout, Becomes, Now
<1>2. Keys(tm') = Keys(tm) /\ tm'.map = tm.map /\ tm'.timeout = t
    <2>1. /\ IsTimedHashMap(tm', Key, Value, Timeouts)
          /\ Keys(tm') = Keys(tm) /\ tm'.map = tm.map
        BY <1>1, SetTimeoutType
    <2>2. tm = [timeout |-> tm.timeout, cur |-> tm.cur, map |-> tm.map]
        BY <1>1 DEF IsTimedHashMap
    <2> QED
        BY <1>1, <2>1, <2>2 DEF SetTimeout
<1>3. TypeOK' /\ Linked'
    BY DEF RInv, IInv
<1>4. Visible' = [x \in ValidKeys(tm', Now') |-> tm'.map[x].value]
    BY DEF Visible
<1> DEFINE S == ValidKeys(tm', Now')
<1>5. /\ Promise!ShowNext(S)
      /\ \A k \in S : Promise!MayShow(k)'
      /\ \A k \in Keys(tm') \ S : Promise!MayHide(k)'
    BY <1>3, <1>4, AgesNext
<1>6. S \subseteq DOMAIN written
    BY <1>2 DEF RInv, Linked, ValidKeys
<1>7. DOMAIN Visible \subseteq Keys(tm')
    BY <1>2 DEF Visible, ValidKeys
<1>8. S \subseteq DOMAIN Visible \/ t > tm.timeout
    <2> SUFFICES ASSUME t <= tm.timeout, NEW k \in S PROVE k \in ValidKeys(tm, Now)
        BY <1>1 DEF Visible
    <2> DEFINE secs == AsSecs(DurationSince(Now, tm.map[k].time))
    <2>1. k \in Keys(tm) /\ secs < t
        BY <1>1, <1>2 DEF ValidKeys, IsValid
    <2>2. secs \in Int
        <3>1. tm.map[k].time \in Nat /\ Now \in Nat
            BY <1>1, <2>1, ClockRangeAssumption
               DEF IsTimedHashMap, Keys, RelativeTimes
        <3> QED
            BY <3>1 DEF AsSecs, DurationSince, AsMillis, UnitsPerSec
    <2> HIDE DEF secs
    <2>3. secs < tm.timeout
        BY <1>1, <2>1, <2>2
    <2> QED
        BY <2>1, <2>3 DEF secs, ValidKeys, IsValid
<1> HIDE DEF S
<1> QED
    BY <1>1, <1>2, <1>3, <1>5, <1>6, <1>7, <1>8 DEF Promise!ChangeTimeout

\* Nothing gets younger (RelativeTime::duration_since).
LEMMA ElapsedGrows ==
    ASSUME NEW t \in Nat, NEW a \in Nat, NEW b \in Nat, a <= b
    PROVE  /\ DurationSince(a, t) \in Nat /\ DurationSince(b, t) \in Nat
           /\ DurationSince(a, t) <= DurationSince(b, t)
BY DEF DurationSince, AsMillis, UnitsPerSec

\* Time passing is the Advance of TtlMap: what a reader saw may disappear, and
\* nothing appears (RelativeTimer::elapsed).
LEMMA TickStep ==
    ASSUME NoWrap, RInv, NEW d \in TickSteps, Tick(d), RInv'
    PROVE  Promise!Advance
<1>1. /\ uptime \in Nat /\ d \in Nat \ {0} /\ MaxUptime \in Nat
      /\ uptime' = uptime + d /\ uptime' <= MaxUptime
      /\ tm' = tm /\ written' = written
      /\ IsTimedHashMap(tm, Key, Value, Timeouts) /\ tm.timeout \in Nat
    BY NowType, MapFacts, TimedMapAssumption DEF RInv, IInv, Tick
<1>2. TypeOK' /\ Linked'
    BY DEF RInv, IInv
<1>3. Visible' = [x \in ValidKeys(tm', Now') |-> tm'.map[x].value]
    BY DEF Visible
<1> DEFINE S == ValidKeys(tm', Now')
<1>4. /\ Promise!ShowNext(S)
      /\ \A k \in S : Promise!MayShow(k)'
      /\ \A k \in Keys(tm') \ S : Promise!MayHide(k)'
    BY <1>2, <1>3, AgesNext
<1>5. Now \in Nat /\ Now' \in Nat /\ Now <= Now'
    <2>1. uptime < ClockRange * UnitsPerSec /\ uptime' < ClockRange * UnitsPerSec
        BY <1>1, ClockRangeAssumption DEF NoWrap, UnitsPerSec
    <2> DEFINE a == Now
               b == Now'
    <2>2. /\ a \in Nat /\ 8 * a <= uptime
          /\ b \in Nat /\ uptime' < 8 * b + 8
        BY <1>1, <2>1, WholeUnits DEF Now
    <2> HIDE DEF a, b
    <2>3. a <= b
        BY <1>1, <2>2
    <2> QED
        BY <2>2, <2>3 DEF a, b
<1>6. S \subseteq DOMAIN Visible
    <2> SUFFICES ASSUME NEW k \in S PROVE k \in ValidKeys(tm, Now)
        BY DEF Visible
    <2> DEFINE time == tm.map[k].time
               before == DurationSince(Now, time)
               after == DurationSince(Now', time)
    <2>1. k \in Keys(tm) /\ IsValid(tm, k, Now')
        BY <1>1 DEF ValidKeys
    <2>2. time \in Nat
        BY <1>1, <2>1, ClockRangeAssumption DEF IsTimedHashMap, Keys, RelativeTimes
    <2> HIDE DEF time
    <2>3. before \in Nat /\ after \in Nat /\ before <= after
        BY <1>5, <2>2, ElapsedGrows
    <2>4. after < 1000 * tm.timeout
        BY <1>1, <2>1, <2>3, ValidMillis DEF time
    <2>5. before < 1000 * tm.timeout
        BY <1>1, <2>3, <2>4
    <2>6. IsValid(tm, k, Now)
        BY <1>1, <2>3, <2>5, ValidMillis DEF time
    <2> QED
        BY <2>1, <2>6 DEF ValidKeys
<1>7. DOMAIN Visible \subseteq Keys(tm')
    BY <1>1 DEF Visible, ValidKeys
<1> HIDE DEF S
<1> QED
    BY <1>1, <1>4, <1>6, <1>7 DEF Promise!Advance

-----------------------------------------------------------------------------
(* All calls                                                               *)

\* What TypeOK asks for after a call that keeps the account.
LEMMA CallType ==
    ASSUME RInv, NEW m, NEW n \in {0, 1}, Becomes(m, n), Counted(m, n),
           IsTimedHashMap(m, Key, Value, Timeouts),
           WrittenType(written, uptime)', Linked'
    PROVE  RInv'
<1>1. /\ tm' = m /\ uptime' = uptime
      /\ overdue' \in [Key -> 0 .. PeriodicLimit]
      /\ GarbageCounted'
    BY BecomesStep DEF RInv
<1>2. uptime' \in 0 .. MaxUptime
    BY <1>1 DEF RInv, IInv, TypeOK
<1>3. TypeOK'
    BY <1>1, <1>2 DEF TypeOK, WrittenType
<1> QED
    BY <1>1, <1>3 DEF RInv, IInv

\* A call that writes.
LEMMA WriteCall ==
    ASSUME RInv, NEW k \in Key, NEW v \in Value, NEW m, NEW n \in {0, 1},
           WritesTo(m, k, v), Counted(m, n), Becomes(m, n), Wrote(k, v)
    PROVE  RInv' /\ Promise!Write(k, v)
<1>1. tm' = m /\ uptime' = uptime
    BY DEF Becomes
<1>2. WrittenType(written, uptime)' /\ Linked' /\ Promise!Write(k, v)
    BY <1>1, WriteStep
<1> QED
    BY <1>2, CallType DEF WritesTo

\* A call that erases.
LEMMA EraseCall ==
    ASSUME RInv, NEW S \in SUBSET Key, NEW m, Survives(m, Key \ S),
           Counted(m, 0), Becomes(m, 0), Erased(S)
    PROVE  RInv' /\ Promise!Erase(S)
<1>1. tm' = m /\ uptime' = uptime
    BY DEF Becomes
<1>2. WrittenType(written, uptime)' /\ Linked' /\ Promise!Erase(S)
    BY <1>1, EraseStep
<1> QED
    BY <1>2, CallType DEF Survives

\* A call that only looks.
LEMMA LookupCall ==
    ASSUME RInv, NEW m, NEW n \in {0, 1}, Survives(m, Key), Counted(m, n),
           Becomes(m, n), UNCHANGED written
    PROVE  RInv' /\ UNCHANGED Promise!vars
<1>1. tm' = m /\ uptime' = uptime
    BY DEF Becomes
<1>2. WrittenType(written, uptime)' /\ Linked' /\ UNCHANGED Promise!vars
    BY <1>1, LookupStep
<1> QED
    BY <1>2, CallType DEF Survives

\* Init satisfies the invariant.
LEMMA InitInv == Init => RInv
<1> SUFFICES ASSUME Init PROVE RInv
    OBVIOUS
<1>1. PICK t \in Timeouts : tm = NewMap(t)
    BY DEF Init
<1>2. /\ IsTimedHashMap(tm, Key, Value, Timeouts)
      /\ Keys(tm) = {}
      /\ tm.cur = 0
    BY <1>1, NewMapType DEF NewMap
<1>3. TypeOK
    BY <1>2, TimedMapAssumption, PeriodicLimitAssumption DEF Init, TypeOK
<1> QED
    BY <1>2, <1>3 DEF Init, RInv, IInv, GarbageCounted, Linked

\* A new timeout and a tick keep it.
LEMMA OtherInv ==
    ASSUME RInv,
           \/ \E t \in Timeouts : CallSetTimeout(t)
           \/ \E d \in TickSteps : Tick(d)
    PROVE  RInv'
<1>1. ASSUME NEW t \in Timeouts, CallSetTimeout(t) PROVE RInv'
    <2> DEFINE m == SetTimeout(tm, t)
    <2>1. /\ Becomes(m, 0) /\ written' = written /\ uptime' = uptime /\ tm' = m
        BY <1>1 DEF CallSetTimeout, Becomes
    <2>2. /\ IsTimedHashMap(m, Key, Value, Timeouts)
          /\ Keys(m) = Keys(tm) /\ m.map = tm.map /\ m.cur = tm.cur
        BY MapFacts, SetTimeoutType DEF RInv, IInv
    <2> HIDE DEF m
    <2>3. Counted(m, 0)
        BY <2>2, MapFacts, PeriodicLimitAssumption DEF RInv, IInv, Counted
    <2>4. Linked'
        BY <2>1, <2>2 DEF RInv, Linked
    <2>5. WrittenType(written, uptime)'
        BY <2>1 DEF RInv, IInv, TypeOK, WrittenType
    <2> QED
        BY <2>1, <2>2, <2>3, <2>4, <2>5, CallType
<1>2. ASSUME NEW d \in TickSteps, Tick(d) PROVE RInv'
    <2>1. /\ uptime' = uptime + d /\ uptime' <= MaxUptime
          /\ tm' = tm /\ written' = written /\ overdue' = overdue
          /\ uptime \in Nat /\ d \in Nat /\ MaxUptime \in Nat
        BY <1>2, NowType, TimedMapAssumption DEF RInv, IInv, Tick
    <2>2. uptime' \in 0 .. MaxUptime /\ 0 .. uptime \subseteq 0 .. uptime'
        BY <2>1
    <2>3. WrittenType(written, uptime)'
        BY <2>1, <2>2 DEF RInv, IInv, TypeOK, WrittenType
    <2>4. TypeOK'
        BY <2>1, <2>2, <2>3 DEF RInv, IInv, TypeOK, WrittenType
    <2> QED
        BY <2>1, <2>4 DEF RInv, IInv, GarbageCounted, Linked
<1> QED
    BY <1>1, <1>2

\* A call keeps the invariant and is a step of TtlMap or none.
LEMMA CallStep ==
    ASSUME RInv,
           \/ \E k \in Key : \/ CallRemove(k) \/ CallEntry(k)
                             \/ \E v \in Value : \/ CallInsert(k, v)
                                                 \/ CallOrInsert(k, v)
                                                 \/ CallReplace(k, v)
           \/ CallClear
           \/ \E S \in SUBSET Key : CallRetain(S)
    PROVE  RInv' /\ [Promise!Next]_Promise!vars
<1>0. \A k \in Key : CleanupsOfEntry(k) \in {0, 1}
    BY DEF CleanupsOfEntry
<1>1. ASSUME NEW k \in Key, CallRemove(k)
      PROVE  RInv' /\ Promise!Next
    <2>1. Survives(Remove(tm, k), Key \ {k}) /\ Counted(Remove(tm, k), 0)
        BY ErasingSurvives DEF RInv
    <2>2. {k} \in SUBSET Key
        OBVIOUS
    <2>3. RInv' /\ Promise!Erase({k})
        BY <1>1, <2>1, <2>2, EraseCall DEF CallRemove
    <2> QED
        BY <2>2, <2>3 DEF Promise!Next
<1>2. ASSUME NEW k \in Key, CallEntry(k)
      PROVE  RInv' /\ UNCHANGED Promise!vars
    <2> DEFINE e == Entry(tm, k, Now)
    <2>1. Survives(e, Key) /\ Counted(e, CleanupsOfEntry(k))
        BY EntrySurvives DEF RInv
    <2>2. Becomes(e, CleanupsOfEntry(k)) /\ UNCHANGED written
        BY <1>2 DEF CallEntry
    <2> HIDE DEF e
    <2> QED
        BY <1>0, <2>1, <2>2, LookupCall
<1>3. ASSUME NEW k \in Key, NEW v \in Value, CallInsert(k, v)
      PROVE  RInv' /\ Promise!Next
    <2>1. WritesTo(Insert(tm, k, v, Now), k, v) /\ Counted(Insert(tm, k, v, Now), 1)
        BY InsertWrites DEF RInv
    <2>2. RInv' /\ Promise!Write(k, v)
        BY <1>3, <2>1, WriteCall DEF CallInsert
    <2> QED
        BY <2>2 DEF Promise!Next
<1>4. ASSUME NEW k \in Key, NEW v \in Value, CallOrInsert(k, v)
      PROVE  RInv' /\ [Promise!Next]_Promise!vars
    <2> DEFINE e == Entry(tm, k, Now)
               m == Put(e, k, v, Now)
    <2>1. CASE k \in Keys(e)
        <3>1. Becomes(e, CleanupsOfEntry(k)) /\ UNCHANGED written
            BY <1>4, <2>1 DEF CallOrInsert
        <3>2. Survives(e, Key) /\ Counted(e, CleanupsOfEntry(k))
            BY EntrySurvives DEF RInv
        <3> HIDE DEF e
        <3> QED
            BY <1>0, <3>1, <3>2, LookupCall
    <2>2. CASE k \notin Keys(e)
        <3>1. Becomes(m, CleanupsOfEntry(k)) /\ Wrote(k, v)
            BY <1>4, <2>2 DEF CallOrInsert
        <3>2. WritesTo(m, k, v) /\ Counted(m, CleanupsOfEntry(k))
            BY <2>2, VacantWrites DEF RInv
        <3> HIDE DEF m
        <3>3. RInv' /\ Promise!Write(k, v)
            BY <1>0, <3>1, <3>2, WriteCall
        <3> QED
            BY <3>3 DEF Promise!Next
    <2> QED
        BY <2>1, <2>2
<1>5. ASSUME NEW k \in Key, NEW v \in Value, CallReplace(k, v)
      PROVE  RInv' /\ Promise!Next
    <2> DEFINE m == Put(Entry(tm, k, Now), k, v, Now)
    <2>1. Becomes(m, 0) /\ Wrote(k, v) /\ k \in Keys(Entry(tm, k, Now))
        BY <1>5 DEF CallReplace
    <2>2. WritesTo(m, k, v) /\ Counted(m, 0)
        BY <2>1, OccupiedWrites DEF RInv
    <2> HIDE DEF m
    <2>3. RInv' /\ Promise!Write(k, v)
        BY <2>1, <2>2, WriteCall
    <2> QED
        BY <2>3 DEF Promise!Next
<1>6. ASSUME CallClear
      PROVE  RInv' /\ Promise!Next
    <2>1. Survives(Clear(tm), Key \ Key) /\ Counted(Clear(tm), 0)
        <3>1. Key \ Key = {}
            OBVIOUS
        <3> QED
            BY <3>1, ErasingSurvives DEF RInv
    <2>2. RInv' /\ Promise!Erase(Key)
        BY <1>6, <2>1, EraseCall DEF CallClear
    <2> QED
        BY <2>2 DEF Promise!Next
<1>7. ASSUME NEW S \in SUBSET Key, CallRetain(S)
      PROVE  RInv' /\ Promise!Next
    <2> DEFINE m == Retain(tm, S, Now)
               Gone == Key \ S
    <2>1. Survives(m, S) /\ Counted(m, 0)
        BY ErasingSurvives DEF RInv
    <2>2. Becomes(m, 0) /\ Erased(Gone)
        BY <1>7 DEF CallRetain
    <2>3. Gone \in SUBSET Key /\ Key \ Gone = S
        OBVIOUS
    <2> HIDE DEF m, Gone
    <2>4. RInv' /\ Promise!Erase(Gone)
        BY <2>1, <2>2, <2>3, EraseCall
    <2> QED
        BY <2>3, <2>4 DEF Promise!Next
<1> QED
    BY <1>1, <1>2, <1>3, <1>4, <1>5, <1>6, <1>7

\* Every step keeps the invariant.
LEMMA NextInv == RInv /\ [Next]_vars => RInv'
<1> SUFFICES ASSUME RInv, [Next]_vars PROVE RInv'
    OBVIOUS
<1>1. CASE Next
    BY <1>1, CallStep, OtherInv DEF Next
<1>2. CASE UNCHANGED vars
    BY <1>2 DEF vars, RInv, IInv, TypeOK, GarbageCounted, Linked
<1> QED
    BY <1>1, <1>2

\* Every step is one of TtlMap or changes nothing it speaks of.
LEMMA NextRefines ==
    ASSUME NoWrap, RInv, RInv', [Next]_vars
    PROVE  [Promise!Next]_Promise!vars
<1>1. CASE \E t \in Timeouts : CallSetTimeout(t)
    BY <1>1, SetTimeoutStep DEF Promise!Next
<1>2. CASE \E d \in TickSteps : Tick(d)
    BY <1>2, TickStep DEF Promise!Next
<1>3. CASE UNCHANGED vars
    BY <1>3 DEF vars, Promise!vars, Visible, Now
<1> QED
    BY <1>1, <1>2, <1>3, CallStep DEF Next

\* The initial map is the empty map of TtlMap.
LEMMA InitRefines == Init => Promise!Init
<1> SUFFICES ASSUME Init PROVE Promise!Init
    OBVIOUS
<1>1. PICK t \in Timeouts : tm = NewMap(t)
    BY DEF Init
<1>2. tm.timeout = t /\ Keys(tm) = {} /\ t \in Nat
    BY <1>1, TimedMapAssumption DEF NewMap, Keys
<1>3. ValidKeys(tm, Now) = {}
    BY <1>2 DEF ValidKeys
<1>4. Visible = [k \in {} |-> {}]
    BY <1>3 DEF Visible
<1> QED
    BY <1>2, <1>4 DEF Init, Promise!Init, Promise!EmptyFunction

-----------------------------------------------------------------------------
(* The theorems                                                            *)

\* The map and its history stay well formed under every sequence of calls.
THEOREM TypeCorrectness == Spec => []TypeOK
<1>1. RInv => TypeOK
    BY DEF RInv, IInv
<1> QED
    BY <1>1, InitInv, NextInv, PTL DEF Spec

\* An outdated entry survives fewer than PeriodicLimit calls of cleanup(),
\* whatever the other methods do in between (hash_map.rs, periodic.rs).
THEOREM NoHoarding == Spec => []GarbageBounded
<1>1. RInv => GarbageBounded
    <2> SUFFICES ASSUME RInv, NEW k \in Key PROVE overdue[k] < PeriodicLimit
        BY DEF GarbageBounded
    <2>1. overdue[k] \in 0 .. PeriodicLimit /\ overdue[k] <= tm.cur
        BY DEF RInv, IInv, TypeOK, GarbageCounted
    <2> QED
        BY <2>1, MapFacts, PeriodicLimitAssumption DEF RInv, IInv
<1> QED
    BY <1>1, InitInv, NextInv, PTL DEF Spec

\* TimedHashMap implements TtlMap while the clock has not wrapped: no reader sees
\* an entry much older than the timeout or misses a younger one.
THEOREM MapKeepsItsPromise ==
    ASSUME NoWrap
    PROVE  Spec => PromiseKept
<1>1. RInv /\ RInv' /\ [Next]_vars => [Promise!Next]_Promise!vars
    BY NextRefines
<1> QED
    BY <1>1, InitInv, NextInv, InitRefines, PTL DEF Spec, PromiseKept, Promise!Spec

=============================================================================

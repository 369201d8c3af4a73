-------------------------------- MODULE TtlMap --------------------------------
(***************************************************************************)
(* What a TimedHashMap promises to the master server, without entries that *)
(* linger, a cleanup counter or a clock of its own: a map whose entries    *)
(* disappear when they are `timeout` seconds old, give or take Slack       *)
(* milliseconds, and never before.                                         *)
(*                                                                         *)
(* store remembers the last write of every key that was not removed since; *)
(* visible is the part of it a reader sees.                                *)
(***************************************************************************)
EXTENDS Integers, Functions

CONSTANTS Key, Value, Slack

VARIABLES store,     \* key -> [value, born], born in milliseconds
          visible,   \* key -> value
          timeout,   \* seconds
          clock      \* milliseconds

vars == <<store, visible, timeout, clock>>

EmptyFunction == [k \in {} |-> {}]

Init ==
    /\ store = EmptyFunction
    /\ visible = EmptyFunction
    /\ timeout \in Nat
    /\ clock = 0

Age(k) == clock - store[k].born

MayShow(k) == Age(k) < 1000 * timeout + Slack
MayHide(k) == Age(k) > 1000 * timeout - Slack

\* The readers of the next state see the keys of S, each with its last write.
ShowNext(S) == visible' = [k \in S |-> store'[k].value]

Write(k, v) ==
    /\ store' = [x \in DOMAIN store \cup {k} |->
                    IF x = k THEN [value |-> v, born |-> clock] ELSE store[x]]
    /\ ShowNext(IF timeout = 0 THEN {} ELSE DOMAIN visible \cup {k})
    /\ UNCHANGED <<timeout, clock>>

Erase(S) ==
    /\ store' = Restrict(store, DOMAIN store \ S)
    /\ ShowNext(DOMAIN visible \ S)
    /\ UNCHANGED <<timeout, clock>>

\* Time passes: only what may be hidden disappears, what must be hidden does.
Advance ==
    /\ clock' > clock
    /\ \E S \in SUBSET DOMAIN visible :
          /\ ShowNext(S)
          /\ \A k \in S : MayShow(k)'
          /\ \A k \in DOMAIN visible \ S : MayHide(k)'
    /\ UNCHANGED <<store, timeout>>

\* A new timeout counts for the entries already there.  A longer one can bring
\* an outdated entry back; a shorter one cannot.
ChangeTimeout ==
    /\ timeout' \in Nat
    /\ \E S \in SUBSET DOMAIN store :
          /\ ShowNext(S)
          /\ \A k \in S : MayShow(k)'
          /\ \A k \in DOMAIN visible \ S : MayHide(k)'
          /\ S \subseteq DOMAIN visible \/ timeout' > timeout
    /\ UNCHANGED <<store, clock>>

Next ==
    \/ \E k \in Key, v \in Value : Write(k, v)
    \/ \E S \in SUBSET Key : Erase(S)
    \/ Advance
    \/ ChangeTimeout

Spec == Init /\ [][Next]_vars

=============================================================================

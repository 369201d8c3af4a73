----------------------------- MODULE ObserverApi -----------------------------
(***************************************************************************)
(* What the user of an Observer may rely on.  An event is about a master or *)
(* a server that is being watched when it happens; a server leaves by the   *)
(* user's will, with the event that refuses it, or with a notice that is     *)
(* delivered once; and no call waits while notices are undelivered.          *)
(***************************************************************************)
CONSTANTS Masters, Servers, None

VARIABLES
    masters, watched,   \* what is being watched
    notices,            \* events that are to be delivered by the next calls
    calling,            \* whether a call of wait_event is running
    event               \* what the last one returned

apiVars == <<masters, watched, notices, calling, event>>

Notice(kind, s) == [kind |-> kind, addr |-> s]

Init ==
    /\ masters = {} /\ watched = {} /\ notices = {}
    /\ calling = FALSE /\ event = None

\* Between calls the user watches whom it likes, and is done with the event.
User ==
    /\ ~calling
    /\ masters' \in SUBSET Masters /\ watched' \in SUBSET Servers
    /\ event' \in {event, None}
    /\ UNCHANGED <<notices, calling>>

Call ==
    /\ ~calling /\ notices = {}
    /\ calling' = TRUE /\ event' = None
    /\ UNCHANGED <<masters, watched, notices>>

Deliver ==
    /\ event' \in notices /\ notices' = notices \ {event'}
    /\ calling' = FALSE
    /\ UNCHANGED <<masters, watched>>

\* Servers that do not answer; the call may end with an error there.
Overdue ==
    /\ calling
    /\ \E ss \in SUBSET watched :
          notices' = notices \cup {Notice("server_timeout", s) : s \in ss}
    /\ \/ UNCHANGED <<calling, event>>
       \/ calling' = FALSE /\ event' = [kind |-> "error"]
    /\ UNCHANGED <<masters, watched>>

Expire ==
    /\ calling
    /\ \E ss \in SUBSET watched :
          /\ watched' = watched \ ss
          /\ notices' = notices \cup {Notice("server_remove", s) : s \in ss}
    /\ UNCHANGED <<masters, calling, event>>

Report ==
    /\ calling /\ calling' = FALSE
    /\ \/ event'.kind = "timeout" /\ UNCHANGED watched
       \/ /\ event'.kind \in {"server_list", "master_invalid_packet", "server_info"}
          /\ event'.addr \in masters /\ UNCHANGED watched
       \/ /\ event'.kind \in {"server_info", "server_players", "server_invalid_packet"}
          /\ event'.addr \in watched /\ UNCHANGED watched
       \/ /\ event'.kind = "server_invalid_protocol"
          /\ event'.addr \in watched /\ watched' = watched \ {event'.addr}
    /\ notices = {}
    /\ UNCHANGED <<masters, notices>>

Next ==
    \/ User \/ Call \/ Deliver \/ Overdue \/ Expire \/ Report

Spec == Init /\ [][Next]_apiVars

=============================================================================

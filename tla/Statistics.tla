----------------------------- MODULE Statistics -----------------------------
(***************************************************************************)
(* The statistics of the master server (xash3d-master/src/stats/imp.rs):   *)
(* the main thread counts requests, a second thread prints and resets the  *)
(* counters once per interval.  They share atomic counters, and a channel  *)
(* that carries the configuration.  The channel is closed when the main    *)
(* thread drops its Stats: Master::update_config replaces the server that  *)
(* owns it when the IP version changes.                                    *)
(*                                                                         *)
(* A step of either thread is one operation on an atomic or on the         *)
(* channel.  Time passes while the printing thread waits.                  *)
(***************************************************************************)
EXTENDS Naturals, Sequences

CONSTANTS Intervals,    \* StatConfig::interval of the configurations, in seconds
          MaxCount,     \* bound: how far a counter is followed
          MaxServers,   \* bound: how many servers register
          MaxUpdates    \* bound: how many configurations are sent

ASSUME StatisticsAssumption ==
    /\ Intervals \subseteq Nat
    /\ {MaxCount, MaxServers, MaxUpdates} \subseteq Nat

\* The counters in the order in which clear() and print() go through them.
Cells == <<"servers", "server_add", "server_del", "query_servers", "errors">>
Requests == {"server_add", "server_del", "query_servers", "errors"}

VARIABLES
    enabled,     \* Stats::enabled
    connected,   \* the Stats exists, and so its end of the channel
    channel,     \* the intervals sent and not yet received
    main,        \* where the main thread is in a call: [pc, at, interval]
    counters,    \* Counters
    thread,      \* where the printing thread is: [pc, at]
    config,      \* the interval the printing thread knows
    elapsed,     \* start.elapsed() of the printing thread
    taken,       \* what print() has taken from the counters so far
    len,         \* servers.len() of the master server
    updates,     \* how many configurations were sent
    balance,     \* history: requests counted, but neither printed nor cleared
    stale        \* history: those counted before the last switch off

mainVars == <<enabled, connected, main, len, updates>>
threadVars == <<thread, config, elapsed, taken>>
history == <<balance, stale>>
vars == <<mainVars, channel, counters, threadVars, history>>

Idle == [pc |-> "idle", at |-> 0, interval |-> 0]
NothingTaken == [c \in Requests \cup {"servers"} |-> 0]

Init ==
    /\ config \in Intervals
    /\ enabled = (config # 0)
    /\ connected = TRUE
    /\ channel = <<>>
    /\ main = Idle
    /\ counters = NothingTaken
    /\ thread = [pc |-> "loop", at |-> 0]
    /\ elapsed = 0
    /\ taken = NothingTaken
    /\ len = 0
    /\ updates = 0
    /\ balance = [k \in Requests |-> 0]
    /\ stale = balance

-----------------------------------------------------------------------------
(* The main thread                                                         *)

FetchAdd(k) ==
    /\ counters[k] < MaxCount
    /\ counters' = [counters EXCEPT ![k] = @ + 1]
    /\ balance' = [balance EXCEPT ![k] = @ + 1]

\* on_server_del, on_query_servers, on_error.
OnRequest(k) ==
    /\ main.pc = "idle" /\ connected
    /\ enabled /\ FetchAdd(k)
    /\ UNCHANGED <<mainVars, channel, threadVars, stale>>

\* handle_server_add: the list grows by one, or not at all, and may lose outdated
\* servers; then on_server_add() and servers_count(servers.len()).
OnServerAdd ==
    /\ main.pc = "idle" /\ connected
    /\ \E n \in 0 .. len + 1 : n <= MaxServers /\ len' = n
    /\ IF enabled THEN FetchAdd("server_add") ELSE UNCHANGED <<counters, balance>>
    /\ main' = [main EXCEPT !.pc = "count"]
    /\ UNCHANGED <<enabled, connected, updates, channel, threadVars, stale>>

ServersCount ==
    /\ main.pc = "count"
    /\ counters' = IF enabled THEN [counters EXCEPT !["servers"] = len] ELSE counters
    /\ main' = Idle
    /\ UNCHANGED <<enabled, connected, updates, len, channel, threadVars, history>>

\* A ban takes servers off the list; no call tells the statistics.
Ban ==
    /\ main.pc = "idle" /\ connected
    /\ len' \in 0 .. len
    /\ UNCHANGED <<enabled, connected, main, updates, channel, counters, threadVars, history>>

\* The store of a zero, the at-th of clear().
StoreZero(at) ==
    LET c == Cells[at] IN
    /\ counters' = [counters EXCEPT ![c] = 0]
    /\ IF c \in Requests
       THEN /\ balance' = [balance EXCEPT ![c] = @ - counters[c]]
            /\ stale' = [stale EXCEPT ![c] = 0]
       ELSE UNCHANGED <<balance, stale>>

\* A reload: a new address clears everything first (MasterServer::clear).
Reload(i) ==
    /\ main.pc = "idle" /\ connected
    /\ updates < MaxUpdates /\ updates' = updates + 1
    /\ \/ main' = [pc |-> "clear", at |-> 1, interval |-> i] /\ len' = 0
       \/ main' = [pc |-> "update", at |-> 0, interval |-> i] /\ len' = len
    /\ UNCHANGED <<enabled, connected, channel, counters, threadVars, history>>

MainClear ==
    /\ main.pc = "clear"
    /\ StoreZero(main.at)
    /\ main' = IF main.at < Len(Cells) THEN [main EXCEPT !.at = @ + 1]
                                       ELSE [main EXCEPT !.pc = "update"]
    /\ UNCHANGED <<enabled, connected, updates, len, channel, threadVars>>

\* Mutant: the thread is only told of intervals it has to print at.
UpdateConfig_OnlyWhenOn ==
    /\ main.pc = "update"
    /\ enabled' = (main.interval # 0)
    /\ channel' = IF main.interval = 0 THEN channel ELSE Append(channel, main.interval)
    /\ stale' = IF main.interval = 0 THEN [k \in Requests |-> counters[k]] ELSE stale
    /\ main' = Idle
    /\ UNCHANGED <<connected, updates, len, counters, threadVars, balance>>

UpdateConfig ==
    /\ main.pc = "update"
    /\ enabled' = (main.interval # 0)
    /\ channel' = Append(channel, main.interval)
    /\ stale' = IF main.interval = 0 THEN [k \in Requests |-> counters[k]] ELSE stale
    /\ main' = Idle
    /\ UNCHANGED <<connected, updates, len, counters, threadVars, balance>>

\* Another IP version: the MasterServer is replaced and its Stats dropped.
Drop ==
    /\ main.pc = "idle" /\ connected
    /\ connected' = FALSE
    /\ UNCHANGED <<enabled, main, updates, len, channel, counters, threadVars, history>>

-----------------------------------------------------------------------------
(* The printing thread                                                     *)

At(place) == thread' = [pc |-> place, at |-> 1]

Loop ==
    /\ thread.pc = "loop"
    /\ IF config = 0 THEN At("recv") /\ UNCHANGED elapsed
                     ELSE At("wait") /\ elapsed' = 0
    /\ UNCHANGED <<mainVars, channel, counters, config, taken, history>>

NextConfig ==
    /\ channel # <<>>
    /\ config' = Head(channel)
    /\ channel' = Tail(channel)

\* Mutant: the counters of the time before are not cleared.
Recv_NoClear ==
    /\ thread.pc = "recv"
    /\ NextConfig
    /\ At("loop")
    /\ UNCHANGED <<mainVars, counters, elapsed, taken, history>>

\* Mutant: the configuration that was received is thrown away.
Recv_KeepsConfig ==
    /\ thread.pc = "recv"
    /\ channel # <<>> /\ channel' = Tail(channel)
    /\ At("clear")
    /\ UNCHANGED <<mainVars, counters, config, elapsed, taken, history>>

\* rx.recv() while the statistics are switched off.
Recv ==
    /\ thread.pc = "recv"
    /\ NextConfig
    /\ At("clear")
    /\ UNCHANGED <<mainVars, counters, elapsed, taken, history>>

\* unwrap() of a closed channel: the thread panics.
RecvPanics ==
    /\ thread.pc = "recv"
    /\ channel = <<>> /\ ~connected
    /\ At("panicked")
    /\ UNCHANGED <<mainVars, channel, counters, config, elapsed, taken, history>>

ThreadClear ==
    /\ thread.pc = "clear"
    /\ StoreZero(thread.at)
    /\ IF thread.at < Len(Cells) THEN thread' = [thread EXCEPT !.at = @ + 1] ELSE At("loop")
    /\ UNCHANGED <<mainVars, channel, config, elapsed, taken>>

\* rx.recv_timeout() finds a configuration.
RecvConfig ==
    /\ thread.pc = "wait"
    /\ NextConfig
    /\ At("loop")
    /\ UNCHANGED <<mainVars, counters, elapsed, taken, history>>

\* It does not: the interval is over, or the channel is closed.
RecvTimeout ==
    /\ thread.pc = "wait"
    /\ channel = <<>>
    /\ elapsed >= config \/ ~connected
    /\ At("print")
    /\ UNCHANGED <<mainVars, channel, counters, config, elapsed, taken, history>>

\* Mutant: the counters are read, and set to zero when the line is complete.
TakeCounter_Load ==
    /\ thread.pc = "print"
    /\ taken' = [taken EXCEPT ![Cells[thread.at]] = counters[Cells[thread.at]]]
    /\ IF thread.at < Len(Cells)
       THEN thread' = [thread EXCEPT !.at = @ + 1] /\ UNCHANGED counters
       ELSE At("log") /\ counters' = [counters EXCEPT !["errors"] = 0,
                !["query_servers"] = 0, !["server_add"] = 0, !["server_del"] = 0]
    /\ UNCHANGED <<mainVars, channel, config, elapsed, history>>

\* print(): the gauge is loaded, each counter swapped with zero.
TakeCounter ==
    LET c == Cells[thread.at] IN
    /\ thread.pc = "print"
    /\ taken' = [taken EXCEPT ![c] = counters[c]]
    /\ IF c = "servers"
       THEN UNCHANGED <<counters, stale>>
       ELSE /\ counters' = [counters EXCEPT ![c] = 0]
            /\ stale' = [stale EXCEPT ![c] = 0]
    /\ IF thread.at < Len(Cells) THEN thread' = [thread EXCEPT !.at = @ + 1] ELSE At("log")
    /\ UNCHANGED <<mainVars, channel, config, elapsed, balance>>

\* The line is written to the log.
Log ==
    /\ thread.pc = "log"
    /\ At("loop")
    /\ taken' = NothingTaken
    /\ balance' = [k \in Requests |-> balance[k] - taken[k]]
    /\ UNCHANGED <<mainVars, channel, counters, config, elapsed, stale>>

\* A second passes; it is only counted while the thread waits for the interval.
Tick ==
    /\ thread.pc = "wait"
    /\ elapsed < config
    /\ elapsed' = elapsed + 1
    /\ UNCHANGED <<mainVars, channel, counters, thread, config, taken, history>>

MainNext ==
    \/ \E k \in Requests \ {"server_add"} : OnRequest(k)
    \/ OnServerAdd \/ ServersCount \/ Ban
    \/ \E i \in Intervals : Reload(i)
    \/ MainClear \/ UpdateConfig \/ Drop

ThreadNext ==
    \/ Loop \/ Recv \/ RecvPanics \/ ThreadClear
    \/ RecvConfig \/ RecvTimeout \/ TakeCounter \/ Log

Next == MainNext \/ ThreadNext \/ Tick

\* Both threads are scheduled, calls of the main thread return, and time passes.
Spec ==
    /\ Init /\ [][Next]_vars
    /\ WF_vars(ThreadNext) /\ WF_vars(Tick)
    /\ WF_vars(ServersCount \/ MainClear \/ UpdateConfig)

-----------------------------------------------------------------------------
(* Properties                                                              *)

TypeOK ==
    /\ enabled \in BOOLEAN /\ connected \in BOOLEAN
    /\ channel \in Seq(Intervals)
    /\ main \in [pc : {"idle", "count", "clear", "update"},
                  at : 0 .. Len(Cells), interval : Intervals \cup {0}]
    /\ counters \in [Requests \cup {"servers"} -> Nat]
    /\ taken \in [Requests \cup {"servers"} -> Nat]
    /\ thread \in [pc : {"loop", "recv", "clear", "wait", "print", "log", "panicked"},
                    at : 0 .. Len(Cells)]
    /\ config \in Intervals
    /\ elapsed \in Nat /\ len \in Nat /\ updates \in Nat
    /\ balance \in [Requests -> Nat] /\ stale \in [Requests -> Nat]

\* What was counted and not cleared is in its counter or in the line being written:
\* no request is lost or printed twice, whenever it comes in between the swaps of
\* print() and the stores of either clear().
RequestsPrintedOnce ==
    \A k \in Requests : balance[k] = counters[k] + taken[k]

\* The thread never starts a line while the main thread has switched the statistics
\* off: the channel told it before its interval was over (Stats::update_config).
QuietWhenOff ==
    [][thread.pc = "wait" /\ thread'.pc = "print" => enabled]_vars

\* A line starts without requests of the time before the statistics were last
\* switched off, however fast they are switched on again.
NoStaleRequests ==
    [][thread.pc = "wait" /\ thread'.pc = "print" => \A k \in Requests : stale[k] = 0]_vars

\* While the statistics are on, what is in a counter is taken out of it.
Reported ==
    \A k \in Requests : counters[k] > 0 ~> counters[k] = 0 \/ ~enabled

=============================================================================

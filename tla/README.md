# A TLA+ development of xash3d-master

This directory models the master server of the Xash3D game engine and the tools
around it. It states what has to hold of them, model-checks that on small
instances with TLC, and proves the most important parts for every instance with
TLAPS. Line numbers refer to `src/crates/...` at the commit modelled.

## 1. The system

A *game server* announces itself to the *master server* over UDP: it asks for a
challenge, the master answers with a random number, and the server sends a
`ServerAdd` carrying that number. A *game client* asks the master for the servers
of a region that match a filter. A client too old for them is shown one server,
the *update address*, and asks that "server" for its info, which the master
answers itself. An *administrator* asks for a challenge, hashes the password with
it and sends a command (ban, unban) with the hash. The *observer* library asks
masters and servers in turn and is the base of the *query tool*.

| component | state | operations | shares with |
|---|---|---|---|
| clock (`time.rs`) | start instant; a reading is a u32 | `from_millis`, `duration_since` | every timed map |
| timed maps (`hash_map.rs`, `periodic.rs`) | entries with the time of writing, timeout, cleanup counter | `insert`, `entry`, `remove`, `retain`, `clear`, `set_timeout`, `iter`, `get` | six maps of the master |
| master server (`master_server.rs`) | challenges, servers, admin challenges, admin lock, game directories, request counters, blocklist, update address, configuration | one handler per datagram, `update_config`, `clear` | main loop, statistics |
| main loop, signals (`main.rs`, `signal_flags.rs`) | an atomic of two flags, the loop's position | signal handlers, `run`, reload of the file | master server |
| statistics (`stats/`) | counters and gauges, a channel, a printing thread | one call per event, `update_config`, `clear` | master server, thread |
| configuration (`cli.rs`, `config.rs`, `main.rs`) | options of the command line, the file, what is in force | start, reload, a reload that fails | main loop, logger |
| protocol (`xash3d-protocol`) | none but iterators | encode and decode packets, `Filter`, `MapIter`, cursors, frames of the Steam broker, color codes | all programs |
| observer (`xash3d-observer`) | masters with keys, connections, pending requests, put-off events, three periodic tasks | `insert_*`, `remove_*`, `wait_event` | UDP, its user |
| query tool (`xash3d-query`) | a result per server, the servers waited for, two timeouts | `all`, `info`, `list`, `monitor` | observer |
| admin tool (`xash3d-admin`) | the password typed | challenge, hash, command | master server |

What is hard: UDP loses, repeats, delays and reorders datagrams; every map keeps
outdated entries until some call happens to drop them, so each reader has to look
at the time; the clock is a wrapped 32-bit counter of coarse units; a reload
changes timeouts and addresses under the maps, and may fail half way; bans race
registrations; signals arrive between any two instructions of the main thread;
the statistics thread runs beside the main thread; the observer runs three tasks
with periods of their own and hands out one event per call, any send may fail in the
middle of a task, and answers to earlier questions come late; a datagram may be cut,
and is told apart from others by trying headers in turn.

What makes each correct: a timed map shows exactly what was written less than the
timeout ago and does not hoard; a challenge is used once; the list contains the
servers that registered in time, all of them and no banned one; the limits per
address hold; a wrong password locks, whatever comes after it; nothing of another
IP version survives a change of it; no signal is lost; whoever an observer watches
has been asked, is reported once, blamed for cause and forgotten in time; the query
tool ends in time with every good answer it got; what is encoded is what is decoded,
and a cut datagram is never read as something else; a user is shown the servers of
the filter that the options spell. `PROJECT.json` lists the hazards, each at its
line, with the properties that would catch it.

## 2. Modules

| module | what it is | code |
|---|---|---|
| `RelativeTime` | the clock as operators | `time.rs` |
| `TimedHashMap` | the methods of the timed map as operators on a value; no state | `hash_map.rs`, `periodic.rs` |
| `TtlMap` | *abstract*: a map whose entries disappear with age | - |
| `TimedMapSystem` | one timed map, every caller's sequence of calls, the clock; implements `TtlMap` | as above |
| `MasterServer` | the state of `MasterServer`; one action per handler, per outcome of a reload, and for time | `master_server.rs` |
| `MasterRegistration`, `MasterAdmin`, `MasterClients` | `MasterServer` with the history its properties of game servers, administrators and clients speak about | as above |
| `SignalLoop` | the main thread between signals, socket and configuration file | `main.rs`, `signal_flags.rs`, `run` |
| `Statistics` | the main thread, the channel and the printing thread, one operation on an atomic or the channel per step | `stats/imp.rs` |
| `StatisticsLines` | `Statistics` with the time since the last line | as above |
| `Configuration` | where the settings come from: defaults, file, options; start and reload | `cli.rs`, `config.rs`, `main.rs` |
| `Observer` | the state of an `Observer`; one action per method, per stage of a turn of `wait_event`, per datagram | `observer.rs`, `connection.rs` |
| `ObserverSystem` | an observer, any user, masters and servers that answer late, twice or never; implements `ObserverApi` | as above |
| `ObserverApi` | *abstract*: what a user of the observer may rely on | - |
| `QueryTool` | each command of the tool as the user of `ObserverSystem` | `query_servers_info.rs`, `list_servers.rs`, `monitor_servers.rs` |
| `Cursors` | reading and writing bytes at a position, with the error each may end in | `cursor.rs`, `wrappers.rs` |
| `KeyValues` | strings of pairs, their iterator, the values in them | `map.rs`, `cursor.rs` |
| `ServerFilter` | the filter of a query: parsing, flags and mask, matching, printing | `filter.rs` |
| `ServerPackets`, `ClientPackets`, `BrokerPackets` | encoders and decoders of the packets of game servers; of clients, administrators and masters; of the Steam broker | `net/*.rs` |
| `Datagrams` | a packet is encoded, cut anywhere, and decoded by any side | `net/*.rs` |
| `BrokerStream` | frames over a stream that comes in pieces | `net/broker.rs` |
| `ColoredText` | color codes in names | `color.rs` |
| `CommandLine` | options of the query tool up to the filter text | `cli.rs`, `filter.rs` of the observer |
| `Listing` | one list of servers from the options to what is shown, split over datagrams | as above, `master_server.rs`, `net/master.rs` |
| `AdminTool` | two administrators behind one address, with the challenges of the master server | `xash3d-admin/src/main.rs` |
| `*Proofs` | theorems: `TimedHashMap`, `TimedMapSystem`, `MasterServer`, `MasterRegistration`, `MasterRequests` (administrators and clients), `Program` (signals, configuration, admin tool, statistics), `Observer` (the library and the query tool), `Protocol` (frames, lists, colors) | |
| `MC*` | constants and scenarios of the runs | |

Who extends whom: `MasterRegistration`, `MasterAdmin` and `MasterClients` extend
`MasterServer`, which takes `TimedHashMap` and `RelativeTime`; `QueryTool` extends
`ObserverSystem` extends `Observer`; `Cursors` - `KeyValues` - `ServerFilter` -
`ServerPackets` - `ClientPackets` - `BrokerPackets` is one chain, on which
`Datagrams`, `BrokerStream` and (with `CommandLine`) `Listing` stand.

A value `[timeout, cur, map]` is a `TimedHashMap`: `cur` is the counter of its
`Periodic`, `map` its `AHashMap` with the entries nobody has dropped yet.
`ValidKeys` is what `iter()` yields and `get()` finds, `Keys` what `len()` counts.
`Entry` is the state of the map when `entry()` hands out its `Entry`: a lookup of
an absent key counts for the periodic cleanup, an outdated entry is dropped, and
a valid one changes nothing.

In `MasterServer` the action `Receive(p)` is one turn of the loop in `run()`: the
datagram `p` is taken from `Packets` at any moment and any number of times (this is
the loss, duplication, delay and reordering of UDP), is dropped when its address
is blocked, and is handed to the handler of its type. Its reply and its calls of
the statistics are the variable `out`, which says what the last step sent.
Conventions:

* A datagram is a record here; its bytes are those of `ServerPackets` and
  `ClientPackets`. The two ways a decoder can
  refuse are datagram types of their own, because a malformed game request is
  counted by the request limit and another is not.
* A handler reads the clock wherever the code does. Two readings that the code
  compares with each other are apart (`ClockMayAdvance` in `HandleServerAdd` and
  `HandleAdminCommand`); the readings inside `add_server`, inside `retain` and for
  one `insert` are one.
* Random numbers are chosen from `Numbers`: two draws may coincide.
* `Send` covers a `send_to` that fails: the handler ends there, and what it did to
  the state before stays. Messages to several servers are sent in hash order, so
  any subset may be reached.
* A list of servers is one message, however many datagrams it takes (`Listing` has
  the split).
* `UpdateConfig`, `Restart` and `FailToBind` are the outcomes of
  `Master::update_config`: same IP version, another one, and an address that cannot
  be bound, which leaves everything as it was. `update_addr` is chosen between the
  listen address and the configured one, since resolving may fail.

`SignalLoop` cuts the main thread at every point where a signal or a datagram
makes a difference: the test of the flags, the call of `recv_from`, the wait in the
kernel. Signals are delivered to the main thread (the other thread of the process
inherits the same mask; a signal delivered there would set the flag and not
interrupt `recv_from`, which only widens the window `signals_quiet` shows).

In `Statistics`, `main` and `thread` say where the two threads are between two of
their operations: `print()` is a load and four swaps, `clear()` five stores (by
either thread), `handle_server_add` two calls. `len` is `servers.len()`. `Drop` is
the restart of `Master::update_config`, which drops the old `Stats` and with it the
sender of the channel; its thread is the one the model follows, the new `Stats` has
a thread and counters of its own. `balance` and `stale` are history: requests not
yet printed or cleared, and those of them that were counted before the statistics
were last switched off. `Tick` is a second of the interval. In `StatisticsLines` a
second passes only while the main thread is between two calls and the channel is
empty, so that its finding does not rest on a call that takes seconds.

In `Observer`, `pc` is where `wait_event` is: outside ("user"), before one of the
three tasks, at the pending requests, or at the socket. A turn of its loop takes no
time; time passes while the user is busy and while the socket is read. Any send may
fail (once per address, at most `MaxFailures`), which ends the call with an error
there: what the task did before stays, and the rest of the turn is not done. So does
an error of the socket while it is read (`ReceiveFails`), at any time. Masters
and connections are in hash maps, so that those asked before the failure are any
subset. `delayed` holds the events of a turn that later calls return. A key is the
number of the round it was drawn in. `ObserverSystem` adds `wire`, the answers that
the requests sent so far may be given - any of them arrives at any time, any number
of times - and `asked`, the history the properties speak about. In `QueryTool` the
user is the tool: `stage` is where its loop is, `results` its map, `listed` and
`custom` the sets its properties need.

In the modules of the protocol a datagram is a sequence of tokens; a token is one byte,
or a word whose parts nothing tells apart. A result is a value with the bytes after it,
or an error; `Then(r, next)` is the `?` of the code: the next step, if the one before
went well. A cursor is the rest of the bytes, and a writer has a size, so that a buffer
that is too small is an error where the code has it. Numbers of which the code compares
or adds (ports, flags, protocol versions, player counts) are numbers with their width;
those it only copies are their bytes.

## 3. Runs

| run | question | result |
|---|---|---|
| `timed_map` | does a timed map keep the promise of `TtlMap` under every order of its calls, and drop garbage by the `PeriodicLimit`-th cleanup? | holds |
| `timed_map_overflow` | does the clock last the 17 years its comment promises? | no: the unit is 8 ms, not 125 ms |
| `registration` | who is on the list, how long, how many per IP, across reloads too? | holds |
| `server_limit_reload` | does the limit per IP survive a longer server timeout? | no: outdated servers come back |
| `requests` | four scenarios of one master server: do bans hold against servers, clients and reloads (`blocklist`); is a challenge good for one command, and does a wrong password lock (`password`); how many requests pass in any second, across reloads that lower the limit or move the master (`rate`); is an old client answered with its own game directory (`gamedir`)? | holds; at most two windows' worth of requests |
| `observer` | is everybody asked, forgotten in time and blamed for cause, under any user; is `ObserverApi` implemented; and does each command of the query tool end in time, without a panic, with every good answer and showing what is current? | holds |
| `parts` | six scenarios of parts that share no state: is what is encoded what is decoded, by whom, and cut where (`datagrams`); are frames kept apart (`stream`); are colors cut and nothing else (`text`); is the request read as it was meant, and is what was asked shown, however the list is split (`listing`); is one configuration in force (`configuration`); does the password decide between two administrators (`admin`)? | holds |
| `filter_map_all` | does `--map all` ask for all maps, as its help says? | no: the line for maps ignores the value `map` |
| `signals` | are exit and reload honoured when traffic goes on? | holds |
| `signals_quiet` | and without traffic? | not always: a signal can slip in before `recv_from` |
| `statistics` | is every request printed once, while the statistics are on, and no old one? | holds |
| `statistics_interval` | are lines an interval apart? | no: the thread of a replaced master does not wait |

The five negative answers are findings in `PROJECT.json`; each is a property that
a comment, the help or the default configuration states. More places where the code
and what is said of it differ are known and have no run:

* the request counter counts in windows of a second that start with a request, so
  the limit "per second" can be passed twice in one second (`AtMostTwoWindows` is
  what holds, and the scenario `rate` reaches it);
* any reload starts the time a line of the statistics divides by again, and keeps
  the counters (`imp.rs:98`), so the rates of the next line are too high;
* the gauge `%s` is set by `handle_server_add` only: after a ban it is too high until
  a server registers, and after switching on it is zero;
* the table and the example at the head of `filter.rs` (lines 13-15 and 22-25) say that
  `full` and `empty` select servers that are *not* full and *not* empty, and so does
  the comment of the flag (line 63); the code sets the flags for full and empty
  servers and compares them with the filter, so that `\full\1` selects the full ones
  (`IsWanted` in `Listing` follows the code).

A run with scenarios starts in any of them and stays there (the variable `scenario`
of `MCRequests`, `part` of `MCParts`, `cli` of `MCObserver`). A user of the library
in `observer` watches one server, or any masters: what is kept for one address does
not depend on another one but through the order of the sends of a turn, which
failures cover, and the commands of the tool watch them together.
`CHECK_DEADLOCK FALSE` stands where the system may stop: a tool ends, and an exchange
of datagrams is over.

**Bounds.** `MaxUptime` ends the clock; it is one step of the clock past the
longest timeout of the instance, so every entry is seen fresh, at the boundary and
outdated, and rewritten after that. `TickSteps` are steps just below and just above
a second (or a half) where the boundary matters (996 and 1004 in `password`, 500 and
992 in `rate`, 2000 and 2996 in `gamedir`), so that entries of 992, 996, 1000 and
1004 ms occur, and exactly a second where it does not; `registration` steps by one and
a half, which is less than its timeouts of 2 s and more than the server timeout of
1 s that its reloads set. `PeriodicLimit` (100 in the code) is 1 to 5: `hash_map.rs`
only ever compares the counter with it, and the choice decides whether a cleanup
falls between two given calls; `requests` uses 1, so that every insertion cleans up,
and `server_limit_reload` 5, so that none does. Two `Numbers` let a draw repeat or
differ; two IPs, one with two ports, are what the properties tell apart (same
address, same IP, another IP), and a third of the other IP version is added where a
reload can change the version. `CounterMax` 4 lets the request counters saturate
(u32 in the code). `ClockRange` is large in all runs but `timed_map_overflow`: the
other properties are about uptimes below the wrap, and say so. `MaxQueue` and
`MaxEdits` bound the socket buffer and the edits of the configuration file: a second
datagram can follow the first and a second edit can come while the first is read. In
`Statistics` an interval is 2 seconds or none, `MaxUpdates` 2 allows switching off and
on again (or on and off) while the thread has received neither, and `MaxCount` 1 is
enough for a request to come between any two swaps: counters are only ever added to,
emptied and compared with nothing.

In `observer` the intervals are scaled down with their order kept (masters and the
cleanup every 3 units, infos every unit, a server is outdated after 3); until
`MaxNow` 8 a silent server is asked, reported, asked again and removed, and the
masters are asked a second and a third time. `MaxKeys` 3 bounds how many rounds the
user starts by inserting masters, `MaxFailures` 1 is a send that fails anywhere. One
of the two servers speaks the legacy version; one challenge of two is the one that
cannot be used. The tool's timeouts are 1 (masters) and 2 (servers). About four
million states. In `parts` a hash has 2 bytes, an address 6 (4 and the port), two
addresses fit a datagram (`Mtu` 31), a frame and a text are as long as their
scenario's words need (`FrameRoom` 30, `MaxText` 6), a password has at most two
characters and the master gives at most three pairs of challenges. There is one
datagram of every kind with every optional field present and absent, cut at every
length and received by each of the sides. `U32Bound` stands for `u32::MAX`, which
TLC's integers do not hold.

**Fairness.** `SignalLoop` assumes weak fairness of the main thread's steps (the
process is scheduled) and, in `TrafficSpec`, of the arrival of datagrams. The first
is what the operating system gives; the second is an assumption about the network,
which `signals_quiet` shows to be needed: without it a signal that arrives between
the test of the flags and `recv_from` waits for a datagram. `Statistics` assumes that both threads are scheduled, that a
call of the main thread which has begun is finished, and that time passes; nothing is
assumed of requests and reloads (the latter are finitely many: a reload in every
interval, for ever, would put off every line). No other liveness is
claimed: the master answers datagrams and promises nothing without them, and what the
observer and its tool must do in time is bounded by clocks in their models
(`SilentServersForgotten`, `WaitsInTime`), which says more than that it is done
eventually.

## 4. Proofs

The proofs hold for all sets of hosts, packets, numbers and configurations, all
values of `PeriodicLimit` and `ClockRange`, any bound on the uptime, and for the
observer all sets of masters and servers, intervals, timeouts, answers and numbers
of failing sends. They use
only the assumptions named in the modules (`ClockRangeAssumption`,
`PeriodicLimitAssumption`, `MasterServerAssumption`, ...).

* `TimedHashMapProofs` states for each method of the timed map what it returns:
  that the result is well formed, which keys it has and which entries it keeps.
  All other proofs cite these facts and never the definitions. `ElapsedTime` is
  the arithmetic of the clock: until it wraps, the difference of two readings is
  the time between them to within a unit.
* `MasterServerProofs`. The invariant is `IInv == TypeOK /\ NoBannedServer /\
  OneFamily`. `NoBannedServer` alone is not inductive: that a ban reaches the
  servers needs well-formed maps, and that a blocked address registers nothing
  needs the test in `run()`, which the proof carries as `Admitted(p)`. There is one
  lemma per handler. `SilentToBanned` speaks of what a step sent; it follows from
  the invariant before the step, because the announcement to servers behind NAT
  goes to servers that are listed.
* `MasterRegistrationProofs`. `OneRegistrationPerChallenge` says that the account
  `unspent` never goes below zero. It is strengthened to `Unspent`: the account is
  0 or 1, and it is 1 for every address whose challenge is in the map, outdated or
  not. The step that matters is that a challenge leaves the map with the
  registration it allows (`AddSpends`), and that no other handler puts one back
  (`OnlyChallengesAppear`).
  `ListsAreFresh` and `ServersStayListed` share the invariant `FreshIInv`: every
  entry of the list carries the reading of the clock at its registration
  (`Stamped`), and a server that was registered and is not in the map has aged
  (`KeptWhileFresh`). Both need `NoWrap`, the hypothesis that the counter has not
  wrapped: after that, `timed_map_overflow` shows, readers see outdated entries.
  `LimitPerIp` counts (`CountInv`: the list is finite and within the limit): time and
  every step but a registration can only take servers out of what is listed
  (`LaterSeesLess`, `FewerCounted`), and a registration takes the place of its own
  entry or finds room (`AddCounted`). It is about behaviours whose reloads neither
  lower the limit nor make the server timeout longer (`LimitKept`): a shorter timeout
  only takes servers off the list (`ShorterListed`), and `server_limit_reload` shows
  what a longer one does. So it covers the reloads of the run `registration`.
* `MasterRequestsProofs`. `CommandsRunOnce` uses the same kind of account as
  `Unspent` above. `WrongPasswordsLock` needs the invariant `Locked`: the lock
  entry of a host carries the time of its last mistake, or the lock is over up to
  one unit of the clock (`Aged`). The steps that matter are the periodic cleanup,
  which may drop a lock only when it is over, and a reload that changes
  `admin_timeout`, which changes when it is. A lock that was already over at such a
  reload does not count any more (`Reloaded` in `MasterAdmin`): a longer timeout
  may bring it back or not, depending on cleanups. `LimitHolds` splits the times of
  the requests let through (`Answered`): the last ones are in the window that is
  counted, as many as its counter says; those before it are no later than its start, and
  all of these but the last `Limit` are a second before it. It assumes `LimitsCount`, that no
  limit is so high that the counter saturates before it is passed. For
  `GamedirsAreTheClients`, every entry of `update_gamedir` is the last question of its
  address, with the reading of the clock then (`Kept`).
* `ProgramProofs`. `ReloadNotLost` is inductive with `NothingAtStart` (signals
  that come before the handlers are registered end the process).
  `ExitStopsHandling` follows from `LateBound`: the one datagram that may still be
  handled is the one the main thread was about to receive. `OneConfiguration`
  is inductive once every file that was read is one of the files, or the defaults
  (`WholeFiles`); the work is that a load replaces what the options name and nothing
  else (`OverlayFacts`). `PasswordDecides` needs that a command carries the challenge its
  tool was given, hashed with what was typed there (`Honest`), that challenges are given
  out once (`Challenged`), and that a command that ran took its challenge with it
  (`Spent`), so a datagram repeated later finds it gone.
  Of the statistics, `RequestsPrintedOnce` needs `TakenSoFar`: what `print()` has
  not swapped yet it has not taken. `QuietWhenOff` and `NoStaleRequests` follow from
  two facts about the channel. `Agreement`: the last interval sent (`LastSent`), or
  the one the thread knows if nothing is under way, is the one `enabled` was set
  from. `StaleIsCleared`: a request of the time before a switch off is followed by a
  zero in the channel, or the thread knows the zero, or is on its way through
  `clear()` and not yet past that counter. A line starts with an empty channel and
  an interval (`LineStarts`), which excludes all three.
* `TimedMapSystemProofs`. `NoHoarding`: the counter of the map is at least the
  number of cleanups an outdated entry has survived (`GarbageCounted`), so it is
  dropped when the counter starts again. `MapKeepsItsPromise` is the refinement of
  `TtlMap`, under `NoWrap`. Its invariant `Linked` says that every entry of the map
  is the last write of its key, stamped with the reading of the clock then. Every
  method is one of three kinds, `WritesTo`, `Survives` on a set of keys, or a
  change of the timeout, and each kind is one step of `TtlMap`: `Write`, `Erase`
  (or a stutter), `ChangeTimeout`; a tick is `Advance`, because an entry's age is
  known to a unit (`AgeOfEntry`) and never shrinks.
* `ObserverProofs`. `TypesIInv` types every variable and says what holds by the
  position in `wait_event`: a running call has returned nothing, nothing is pending
  at the socket, events are put off only between the tasks and the end of the turn.
  `SilenceEnds` is arithmetic over three deadlines (`TimesIInv`): the cleanup is due
  within its interval of the moment a watched server becomes outdated; when the turn
  reaches the socket the task for infos is due later than now, and at most its
  interval after the cleanup; and the wait at the socket ends with that task
  (`DeadlineFacts`). A failing send may end any turn early, but then the call is not
  waiting. `NobodyForgotten` and `BlamedForCause` share `AskedIInv`: who is not in
  the stack of pending requests has been asked - a master with the key its answer
  will be compared with, a server with its version (with both, if the legacy one is
  tried), and after its last answer, if it is waited for. A step may do five things
  to a server (`LeftAlone`, `JustAsked`, `JustAnswered`, `TriesLegacy`,
  `JustInserted`); each keeps the invariant (`ServerStaysAsked`), and there is one
  lemma per action that it does nothing else. That entries of the stack are not lost
  is `SwapRemoveFacts`, about `Vec::swap_remove`. `PromiseKept` is the refinement of
  `ObserverApi`: datagrams map to `Report`, the task for infos and every failing send
  to `Overdue`, the cleanup to `Expire`, the end of a turn to `Deliver`, the rest to
  the user's actions or to nothing.
  Of the query tool, the invariant all of it rests on is `ToolTypesIInv`: the types
  of the observer and of the tool, that lists name servers, and `ResultsThere`, that
  every server the tool watches, or has just been given players of, has a result. The
  last part is `NeverPanics`; without it not even the map of results keeps its type,
  because players are stored in the result that is there. What a turn and a datagram
  may do is stated once for all actions of the observer: `TurnOutcome` (connections
  are `Similar`, requests `AsksWithOwnVersion`) and `ReceiveOutcome` (one server is
  heard, retried or refused, or nothing is noticed). `TimeoutIsKept` needs `CallsEnd`:
  the deadline of a call is the end of the tool's timeout, which no event moves while
  the call runs. `MonitorIsCurrent` needs `ShownLags`: what the monitor will show
  once it has handled the event that was returned (`Shows`) is what the connection
  holds, and a server whose removal is put off or returned is not watched, so the
  removal never wipes out a newer answer. `GoodResultsStay` needs `CurrentNotRefused`: who
  speaks the current version is asked with it (`AsksRight`), so that no refusal of it is
  on its way or returned; it assumes `NoForgedRefusal`, that no stray datagram refuses the
  version in the name of such a server (the code cannot tell one from an answer).
  `NobodyLeftOut` needs `InfoOnly` (no list comes, what is invalid comes from nowhere,
  and who was refused is not watched) and `NoneForgotten`: whoever of the command line
  is not waited for in `custom` is `Settled`, that is, refused and gone, or has a
  result that no later event can undo (`Lasting`). The last four theorems are
  those of the library for this user. The tool is not a user of
  `ObserverSystem` step by step, since it inserts a list in one step; `ToolSteps`
  says that a step of it is one between two calls (`ToolInserts`), a call, or one of
  the loop, and only the first kind is new to the lemmas about the library.
* `ProtocolProofs`. What a loop or a recursive function computes is proved by induction.
  The library's induction theorems take an operator, which no installed prover can
  instantiate; `SetInduction` takes the *set* of the numbers for which something holds
  instead, and follows from `WFMin` (a set that is not empty has a least element) and
  `NatLessThanWellFounded`. On it stand the facts about `FlattenSeq` (`FlattenAppend`,
  `FlattenType`, `FlattenHolds`), and on these the rest.
  `FramesAreKeptApart` is inductive with `StreamInv`: what was delivered and not read
  yet, followed by what is under way, is the frames that were not read, one after the
  other. A length of two bytes is read back as it was written (`TwoBytes`), so a frame
  at the front is recognised whole or is reported as not whole yet, whatever follows it.
  `SplitsKeepTheList` is inductive with `ListingInv`, whose core is `Split`: what was sent
  are the datagrams of parts of the list, which joined are its first `offset` servers.
  `CountIs` says how many servers `QueryServersResponse::encode` takes (one at least, and
  never so many that the end does not fit), `ListOfRows` and `DecodeListIs` that the
  iterator reads the same servers back, in either width of an address and with or
  without a key. `OnlyWhatWasAsked` and `AllThatWasAsked` add the tool (`TransferInv`):
  what it shows are servers of the list, and all servers of each datagram it has heard;
  a list of another request is none of its own (`OwnIs`), whatever header it has
  (`ListPacketIs`). They are about the way of the list and have the way of the request
  as their hypothesis: `ReadAsMeant`, that the text put together from options, filter and
  defaults selects at the master server what the user means.
  `ColorsAreRight` states the answer by position: a character is shown unless a code
  starts at it or just before it, in the color of the last code in front of it. As a
  caret is no digit, no two codes overlap (`CodesApart`), so the iterator, which only
  looks at what is left, cuts where no code reaches over (`Cut`); a part is some codes
  and then everything before the next one (`NextPartIs`), and `ReadTo` says that the
  parts so far show what stands before the cut. A part takes a character at least,
  hence as many turns as characters are enough (`PartsAre`).
  The assumptions are `BytesAssumption` (the tokens of two bytes differ: `ToString` is
  TLC's own and has no definition to prove it from), `StreamAssumption` (the
  payloads are ones that `Frame::encode` takes), `ListingAssumption` (an address has 6 or
  18 bytes, a buffer has room for a header, one address and the end - the code's buffers
  have 512 bytes and more - and no address looks like a key), `StrayAssumption` (a
  list of somebody else does not carry the key of this request, which is drawn at
  random from 32 bits), and `TextAssumption` (a caret is no digit). TLC evaluates all
  five in `parts`.

**Only model-checked.** Everything temporal beyond invariants and step properties
(`ExitHonoured`, `ReloadHonoured`, `Reported`: liveness under fairness is outside what TLAPS
does here), and of the
protocol `RoundTrip`, `CutLosesTheEndOnly` and `ReadAsMeant`. These three are about the
layout of every kind of packet and the text of every kind of value: each field is a
case of its own with its own decoder, and texts of numbers are characters, of which the
provers know nothing. The run goes through every kind with every optional field present
and absent; what the packets have in common and is hard, lists and frames, is proved.
Type correctness is the other way round: the theorems of the master server, the timed
map, the signals, the statistics, the observer and the query tool prove it, and no run
repeats it.

## 5. Not modelled, and the plan

Of the modelled components these parts are left out, because no property is about
them or the tools cannot hold them:

* Printing: the log, the printers of
  bytes (`Str`, `hide_colors`' formatting), the output of the query tool as text and
  JSON, the lines of the statistics beyond their counters.
* Parsing that a library does: the grammar of TOML (a file is its settings, or
  broken), `getopts` (options are a function of names to texts), addresses as text (one
  token), the resolution of host names, UTF-8 (names of players that are not UTF-8
  are an error in the code).
* The string of bounded length (`str_arr.rs`): it holds the game directory of an old
  client in `update_gamedir` and gives back what it took, so `MasterServer` keeps the
  value; a directory it refuses (longer than 31 bytes, not UTF-8) is not kept, like a
  query without one. Numbers in texts stop at `U32Bound` for the largest `u32`.
* The length of a filter in the observer: `encode(..).unwrap()` (`observer.rs:58`)
  panics when filter and key do not fit the buffer. The code has a TODO there; filters
  are values without a length in `Observer`, and no property is about it.
* In the observer: `ping` and `request_time`, which are reported and never tested;
  `server_timeout` of the tool is counted from the start of the program and modelled
  from the start of the run; the order in which masters are asked is any order.
* In the admin tool: the password from the environment, the parameters of the hash
  (a hash is the record of what it is computed from).
* Benchmarks and examples have no logic of the program.

What a later extension could add: lemmas about the fields of `GetLayout` and `FoldPairs`,
from which `RoundTrip` could be proved one kind of packet at a time; a composition of
`ObserverSystem` with the lists of `Listing` in place of its abstract ones.

----------------------------- MODULE SignalLoop -----------------------------
(***************************************************************************)
(* The main thread of xash3d-master between its signal handlers and its    *)
(* socket: main.rs (run), master_server.rs (MasterServer::run) and         *)
(* signal_flags.rs.  pc names the next thing the thread does:              *)
(*   "start"      bind the socket and register the signal handlers         *)
(*   "while"      main.rs: while !sig_flags.is_exit()                      *)
(*   "run"        run(): while SignalFlags::get().is_empty()               *)
(*   "recv"       the call of recv_from, not yet in the kernel             *)
(*   "waiting"    in the kernel                                            *)
(*   "handle"     a datagram was received                                  *)
(*   "flags"      main.rs: if sig_flags.remove_reload()                    *)
(*   "load"       main.rs: match load_config(..)                           *)
(*   "update"     main.rs: master.update_config(cfg)                       *)
(*   "stopped"    the process has ended                                    *)
(* A signal handler may run between any two of these; it only sets a flag  *)
(* and makes a waiting recv_from return EINTR.                             *)
(***************************************************************************)
EXTENDS Naturals

CONSTANTS MaxQueue,    \* bound: datagrams the socket buffer holds
          MaxEdits     \* bound: how often the configuration file is edited

ASSUME SignalLoopAssumption == MaxQueue \in Nat \ {0} /\ MaxEdits \in Nat

VARIABLES
    pc,
    flags,       \* SIGNAL_FLAGS
    queue,       \* how many datagrams wait in the socket
    hasConfig,   \* the program was started with a configuration file
    disk,        \* the version of that file
    wanted,      \* history: its version at the last reload signal
    read,        \* history: the last version load_config read, or tried to
    late         \* history: datagrams handled since the exit signal

loopVars == <<pc, flags, queue, hasConfig, disk, wanted, read, late>>

environment == <<hasConfig, disk, wanted>>

LoopInit ==
    /\ pc = "start"
    /\ flags = {}
    /\ queue = 0
    /\ hasConfig \in BOOLEAN
    /\ disk = 0
    /\ wanted = 0
    /\ read = 0
    /\ late = 0

-----------------------------------------------------------------------------
(* The main thread                                                         *)

Goto(from, to) == pc = from /\ pc' = to

Start ==
    /\ Goto("start", "while") \/ Goto("start", "stopped")
    /\ UNCHANGED <<flags, queue, environment, read, late>>

WhileNotExit ==
    /\ IF "exit" \in flags THEN Goto("while", "stopped") ELSE Goto("while", "run")
    /\ UNCHANGED <<flags, queue, environment, read, late>>

\* Mutants: only the reload flag, or only the exit flag, ends the loop.
WhileFlagsEmpty_OnlyReload ==
    /\ IF "reload" \notin flags THEN Goto("run", "recv") ELSE Goto("run", "flags")
    /\ UNCHANGED <<flags, queue, environment, read, late>>

WhileFlagsEmpty_OnlyExit ==
    /\ IF "exit" \notin flags THEN Goto("run", "recv") ELSE Goto("run", "flags")
    /\ UNCHANGED <<flags, queue, environment, read, late>>

WhileFlagsEmpty ==
    /\ IF flags = {} THEN Goto("run", "recv") ELSE Goto("run", "flags")
    /\ UNCHANGED <<flags, queue, environment, read, late>>

CallRecv ==
    /\ Goto("recv", "waiting")
    /\ UNCHANGED <<flags, queue, environment, read, late>>

Received ==
    /\ queue > 0
    /\ Goto("waiting", "handle")
    /\ queue' = queue - 1
    /\ UNCHANGED <<flags, environment, read, late>>

\* The datagram is blocked, of the other IP version, refused or answered: in each
\* case the loop goes on.
HandlePacket ==
    /\ Goto("handle", "run")
    /\ late' = IF "exit" \in flags THEN late + 1 ELSE late
    /\ UNCHANGED <<flags, queue, environment, read>>

\* Mutant: all flags are taken away.
RemoveReload_All ==
    /\ IF "reload" \in flags /\ hasConfig THEN Goto("flags", "load")
                                          ELSE Goto("flags", "while")
    /\ flags' = {}
    /\ UNCHANGED <<queue, environment, read, late>>

\* One fetch_and reads the flag and takes it away; without a configuration file
\* there is nothing to reload.
RemoveReload ==
    /\ IF "reload" \in flags /\ hasConfig THEN Goto("flags", "load")
                                          ELSE Goto("flags", "while")
    /\ flags' = flags \ {"reload"}
    /\ UNCHANGED <<queue, environment, read, late>>

\* A file that cannot be read or parsed is an error in the log.
LoadConfig ==
    /\ Goto("load", "update") \/ Goto("load", "while")
    /\ read' = disk
    /\ UNCHANGED <<flags, queue, environment, late>>

\* Mutant: the flag is taken away once the update is done.
MasterUpdateConfig_ClearsFlag ==
    /\ Goto("update", "while")
    /\ flags' = flags \ {"reload"}
    /\ UNCHANGED <<queue, environment, read, late>>

\* So is an address that cannot be bound; a moved socket starts with an empty queue.
MasterUpdateConfig ==
    /\ Goto("update", "while")
    /\ queue' \in {queue, 0}
    /\ UNCHANGED <<flags, environment, read, late>>

MainStep ==
    \/ Start \/ WhileNotExit \/ WhileFlagsEmpty \/ CallRecv \/ Received
    \/ HandlePacket \/ RemoveReload \/ LoadConfig \/ MasterUpdateConfig

\* The read timeout of 2^32 - 1 seconds, and any other error of recv_from, which
\* main.rs ends the program with.
WaitTimeout ==
    /\ Goto("waiting", "run")
    /\ UNCHANGED <<flags, queue, environment, read, late>>

RecvError ==
    /\ Goto("waiting", "stopped")
    /\ UNCHANGED <<flags, queue, environment, read, late>>

-----------------------------------------------------------------------------
(* Signals, the configuration file and the network                         *)

\* Before the handlers are registered a signal ends the process.
Signal(flag) ==
    /\ pc # "stopped"
    /\ \/ pc = "start" /\ pc' = "stopped" /\ flags' = flags
       \/ pc = "waiting" /\ pc' = "flags" /\ flags' = flags \cup {flag}
       \/ pc \notin {"start", "waiting"} /\ pc' = pc /\ flags' = flags \cup {flag}

SignalExit ==
    /\ Signal("exit")
    /\ UNCHANGED <<queue, environment, read, late>>

SignalReload ==
    /\ Signal("reload")
    /\ wanted' = disk
    /\ UNCHANGED <<queue, hasConfig, disk, read, late>>

EditConfig ==
    /\ disk < MaxEdits
    /\ disk' = disk + 1
    /\ UNCHANGED <<pc, flags, queue, hasConfig, wanted, read, late>>

\* A full buffer drops the datagram.
Arrive ==
    /\ queue < MaxQueue
    /\ queue' = queue + 1
    /\ UNCHANGED <<pc, flags, environment, read, late>>

LoopNext ==
    \/ MainStep \/ WaitTimeout \/ RecvError
    \/ SignalExit \/ SignalReload \/ EditConfig \/ Arrive

\* The main thread is scheduled; nothing is promised about the network.
LoopSpec == LoopInit /\ [][LoopNext]_loopVars /\ WF_loopVars(MainStep)

\* As long as the program runs, game servers and clients keep writing to it.
TrafficSpec == LoopSpec /\ WF_loopVars(Arrive)

-----------------------------------------------------------------------------
LoopTypeOK ==
    /\ pc \in {"start", "while", "run", "recv", "waiting", "handle", "flags", "load",
               "update", "stopped"}
    /\ flags \subseteq {"exit", "reload"}
    /\ queue \in 0 .. MaxQueue
    /\ hasConfig \in BOOLEAN
    /\ disk \in 0 .. MaxEdits
    /\ wanted \in 0 .. disk
    /\ read \in 0 .. disk
    /\ late \in Nat

Running == pc \notin {"start", "stopped"}

\* A reload asked for is pending or done, never forgotten: a signal that comes
\* while the flag is taken, while the file is read or while another reload is
\* pending is honoured with the file as it was then, or later (main.rs, run;
\* SignalFlags::remove_reload).
ReloadNotLost ==
    Running /\ hasConfig /\ wanted > read => "reload" \in flags \/ pc = "load"

\* After the exit signal at most one more datagram is handled.
ExitStopsHandling == late <= 1

\* The exit signal ends the program; master_server.rs, l. 261: "make socket
\* interruptible by signals".
ExitHonoured == "exit" \in flags ~> pc = "stopped"

\* A reload that was asked for is carried out, or the program ends.
ReloadHonoured ==
    \A n \in 1 .. MaxEdits :
        hasConfig /\ wanted = n ~> read >= n \/ pc = "stopped"

=============================================================================

---------------------------- MODULE Configuration ----------------------------
(***************************************************************************)
(* Where the settings of the master server come from: the defaults or a    *)
(* file that somebody edits, and over them the options of the command      *)
(* line.  A reload may fail in the middle: the file cannot be read, or the *)
(* new address cannot be bound.                                            *)
(***************************************************************************)
EXTENDS Naturals

CONSTANTS
    CommandLines,    \* options given, a function from names of settings to values
    Files,           \* settings a file may hold, for all names
    DefaultFile,     \* Config::default
    Broken           \* a file that cannot be read

VARIABLES
    options,         \* the options of the command line
    hasFile,         \* whether they name a file
    file,            \* the file as it is
    life,            \* "starting", "running" or "exited"
    level,           \* the level of the logger
    listen,          \* the address of the socket
    stats,           \* the settings of the statistics
    rest,            \* the other settings
    loaded           \* history: the files that were loaded

settings == <<level, listen, stats, rest>>
configVars == <<options, hasFile, file, life, settings, loaded>>

Overlaid == {"level", "ip", "port", "format", "interval"}

ASSUME NamesAssumption ==
    /\ \A c \in CommandLines : DOMAIN c \subseteq Overlaid
    /\ \A f \in Files \cup {DefaultFile} : DOMAIN f = Overlaid \cup {"rest"}

\* Mutant: the options count when the program starts, and no longer.
Overlay_AtStart(f) ==
    [s \in DOMAIN f |-> IF life = "starting" /\ s \in DOMAIN options THEN options[s] ELSE f[s]]

\* load_config: the options go over the file.
Overlay(f) == [s \in DOMAIN f |-> IF s \in DOMAIN options THEN options[s] ELSE f[s]]

Source == IF hasFile THEN file ELSE DefaultFile

ListenOf(c) == [ip |-> c.ip, port |-> c.port]
StatsOf(c) == [format |-> c.format, interval |-> c.interval]

ConfigInit ==
    /\ options \in CommandLines /\ hasFile \in BOOLEAN
    /\ file \in Files \cup {Broken}
    /\ life = "starting"
    /\ level = DefaultFile.level
    /\ listen = [ip |-> DefaultFile.ip, port |-> 0]
    /\ stats = StatsOf(DefaultFile)
    /\ rest = DefaultFile.rest
    /\ loaded = {}

Edit ==
    /\ file' \in (Files \cup {Broken}) \ {file}
    /\ UNCHANGED <<options, hasFile, life, settings, loaded>>

\* The logger is the first to change.
Load ==
    /\ Source # Broken
    /\ level' = Overlay(Source).level
    /\ loaded' = loaded \cup {Source}

Apply(c) ==
    /\ listen' = ListenOf(c)
    /\ stats' = StatsOf(c)
    /\ rest' = c.rest

StartUp ==
    /\ life = "starting"
    /\ \/ Load /\ Apply(Overlay(Source)) /\ life' = "running"
       \/ Load /\ life' = "exited" /\ UNCHANGED <<listen, stats, rest>>   \* bind fails
       \/ Source = Broken /\ life' = "exited" /\ UNCHANGED <<settings, loaded>>
    /\ UNCHANGED <<options, hasFile, file>>

\* Mutant: the statistics hear of it before the address is bound.
BindFails_StatsFirst(c) ==
    listen # ListenOf(c) /\ stats' = StatsOf(c) /\ UNCHANGED <<listen, rest>>

\* MasterServer::update_config, or Master::new after a change of the IP version, with
\* an address that cannot be bound: nothing changes.
BindFails(c) == listen # ListenOf(c) /\ UNCHANGED <<listen, stats, rest>>

\* Without a file a reload does nothing.
ReloadFile ==
    /\ life = "running"
    /\ hasFile
    /\ \/ Load /\ (Apply(Overlay(Source)) \/ BindFails(Overlay(Source)))
       \/ Source = Broken /\ UNCHANGED <<settings, loaded>>
    /\ UNCHANGED <<options, hasFile, file, life>>

ConfigNext == Edit \/ StartUp \/ ReloadFile

ConfigSpec == ConfigInit /\ [][ConfigNext]_configVars

-----------------------------------------------------------------------------
\* The address, the statistics and everything else are those of one file that was
\* loaded, never of two, with the options of the command line over it, after any
\* edits and reloads: one that fails half way leaves the old ones.  Only the level of
\* the logger may be ahead of them.
InEffect(s, value) == IF s \in DOMAIN options THEN options[s] ELSE value

OneConfiguration ==
    life = "running" =>
        /\ \E f \in loaded :
              /\ listen = [ip |-> InEffect("ip", f.ip), port |-> InEffect("port", f.port)]
              /\ stats = [format |-> InEffect("format", f.format),
                          interval |-> InEffect("interval", f.interval)]
              /\ rest = f.rest
        /\ \E f \in loaded : level = InEffect("level", f.level)

=============================================================================

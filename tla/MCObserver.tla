------------------------------ MODULE MCObserver ------------------------------
(* The observer under a user that calls whatever it likes ("library"), and under  *)
(* each command of the query tool.  A behaviour stays with the user it starts     *)
(* with.  s2 speaks the legacy version; both intervals and timeouts are scaled    *)
(* down.                                                                          *)
EXTENDS QueryTool

CONSTANTS m1, m2, s1, s2, good, unusable, info1, info2

MCSpeaks == [s \in Servers |-> IF s = s2 THEN 48 ELSE 49]
MCLists == {{s1, s2}, {s2}}
MCStray ==
    {[from |-> s1, kind |-> "garbage"],
     [from |-> m1, kind |-> "info", data |-> info1]}

Line(command, players, ss) == [command |-> command, players |-> players, servers |-> ss]

MCCommands ==
    {Line("all", TRUE, {}), Line("info", TRUE, {s1}), Line("info", TRUE, {s2}),
     Line("list", FALSE, {}), Line("monitor", FALSE, {s1, s2}), Line("monitor", FALSE, {})}

\* A user of the library watches one server, or any masters.
MCLibraryUsers == {Line("library", FALSE, {s1}), Line("library", FALSE, {s2}),
                   Line("library", FALSE, {})}

MCTimeouts == {None, 1}

LibraryInit ==
    /\ SysInit
    /\ cli \in MCLibraryUsers
    /\ stage = "library" /\ start = 0 /\ timeout = 0
    /\ results = [a \in Addr |-> None]
    /\ custom = {} /\ listed = {}
    /\ shown = [a \in Addr |-> None]

LibraryNext ==
    /\ stage = "library"
    /\ (LibraryUser \/ Loop \/ Tick) /\ Follow
    /\ conns' # conns => \A s \in Servers \ cli.servers : conns'[s] = conns[s]
    /\ masters' # {} => cli.servers = {}
    /\ UNCHANGED <<cli, stage, start, timeout, toolOnly>>

\* Bounds of single users: when they stop, and what two servers at once answer.
MCEndOf(line) ==
    CASE line.command = "monitor" /\ line.servers = {} -> 5
      [] line.command = "library" -> 7
      [] OTHER -> MaxNow

MCPlain(con) == con = None \/ (con.challenge # unusable /\ con.data # info2)

MCInit == ToolInit \/ LibraryInit

MCNext ==
    /\ ToolNext \/ LibraryNext
    /\ now' <= MCEndOf(cli)
    /\ Is({"all"}) => \A s \in Servers : MCPlain(conns'[s])

MCSpec == MCInit /\ [][MCNext]_toolVars

=============================================================================

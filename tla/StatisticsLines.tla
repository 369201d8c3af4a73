--------------------------- MODULE StatisticsLines ---------------------------
(***************************************************************************)
(* When the lines of the statistics are written, against the interval of   *)
(* config/default.toml.                                                    *)
(***************************************************************************)
EXTENDS Statistics

CONSTANT MaxAge     \* bound: how many seconds since a line are counted

VARIABLE quiet      \* history: the seconds since the last line, at most MaxAge

lineVars == <<vars, quiet>>

LinesInit == Init /\ quiet = MaxAge

\* A second is long: calls of the main thread and messages do not take that much.
LinesNext ==
    \/ /\ MainNext \/ ThreadNext
       /\ quiet' = IF thread.pc = "log" /\ thread'.pc = "loop" THEN 0 ELSE quiet
    \/ /\ Tick /\ main.pc = "idle" /\ channel = <<>>
       /\ quiet' = IF quiet < MaxAge THEN quiet + 1 ELSE quiet

LinesSpec == LinesInit /\ [][LinesNext]_lineVars

\* "Interval in seconds": lines are an interval apart.  It fails once the IP version
\* has changed: recv_timeout on the closed channel returns at once, and the thread
\* of the old master server goes on writing lines without a pause.
LinesAnIntervalApart ==
    [][thread.pc = "wait" /\ thread'.pc = "print" => quiet >= config]_lineVars

=============================================================================

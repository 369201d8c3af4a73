----------------------------- MODULE CommandLine -----------------------------
(***************************************************************************)
(* The options of the query tool, and the filter a user of the observer    *)
(* sets.  The options given are a function from their names to texts.      *)
(***************************************************************************)
EXTENDS ServerFilter

CLIENT_VERSION == Version(0, 21, 0)
PROTOCOL_VERSION == 49
DEFAULT_CLIENT_BUILDNUM == 4000

Some(v) == <<v>>
Nothing == <<>>

Exit(code) == Fail(<<"exit", ToString(code)>>)
OrExit(r) == IF IsOk(r) THEN r ELSE Exit(1)

(***************************************************************************)
(* The filter: what was given as text, then the fields with their defaults.*)
(***************************************************************************)
FilterFields == <<"clver", "buildnum", "gamedir", "map">>
FilterDefaults ==
    [clver |-> Some(CLIENT_VERSION), buildnum |-> Some(DEFAULT_CLIENT_BUILDNUM),
     gamedir |-> Nothing, map |-> Nothing]

\* The word that leaves the default.  The help calls the default "all".
Ignored == [clver |-> {}, buildnum |-> {}, gamedir |-> { <<"all">> }, map |-> { <<"map">> }]

Names(raw, key) ==
    \E i \in DOMAIN raw : i + 2 <= Len(raw) /\ SubSeq(raw, i, i + 2) = <<"\\", key, "\\">>

\* Mutant: the text is not looked into, and the default that follows it overrides it.
RawDefault_Always(raw, field) == FilterDefaults[field]

\* A default that the text gives itself is dropped.
RawDefault(raw, field) ==
    IF field \in {"clver", "buildnum"} /\ Names(raw, field) THEN Nothing ELSE FilterDefaults[field]

FilterOpt(given, field, default) ==
    IF field \notin DOMAIN given THEN Read(default, <<>>)
    ELSE IF given[field] = <<"none">> THEN Read(Nothing, <<>>)
    ELSE Then(OrExit(ParseValue(FilterKinds[field], given[field])), LAMBDA v :
             Read(IF given[field] \in Ignored[field] THEN default ELSE Some(v.val), <<>>))

RawOf(given) == IF "filter" \in DOMAIN given THEN given["filter"] ELSE <<>>

ShowField(field, value) ==
    IF value = Nothing THEN <<>> ELSE PutKey(field, ShowValue(FilterKinds[field], value[1]))

\* Filter::opt_get
OptGet(given) ==
    FoldLeft(LAMBDA acc, field :
                 Then(acc, LAMBDA a :
                 Then(FilterOpt(given, field, RawDefault(RawOf(given), field)), LAMBDA v :
                     Read(a.val \o ShowField(field, v.val), <<>>))),
             Read(RawOf(given), <<>>), FilterFields)

(***************************************************************************)
(* The other options. Lists are separated by commas.                       *)
(***************************************************************************)
SplitList(s) ==
    LET ends == SetToSortSeq({i \in DOMAIN s : s[i] = ","} \cup {Len(s) + 1}, <)
    IN [i \in DOMAIN ends |-> SubSeq(s, (IF i = 1 THEN 0 ELSE ends[i - 1]) + 1, ends[i] - 1)]

WithPort(master) ==
    IF ":" \in ToSet(master) THEN master ELSE master \o <<":", "27010">>

LogLevels ==
    [off |-> {"o", "off"}, error |-> {"e", "error"}, warn |-> {"w", "warn"},
     info |-> {"i", "info"}, debug |-> {"d", "debug"}, trace |-> {"t", "trace"}]

ParseLog(s) ==
    LET levels == {l \in DOMAIN LogLevels : s \in {<<w>> : w \in LogLevels[l]}}
    IN IF levels = {} THEN Exit(1) ELSE Read(CHOOSE l \in levels : TRUE, <<>>)

ParseSeconds(s) == OrExit(ParseNumber(U32Bound, s))

ParseProtocols(s) ==
    LET numbers == [i \in DOMAIN SplitList(s) |-> ParseNumber(255, SplitList(s)[i])]
    IN IF \E i \in DOMAIN numbers : ~IsOk(numbers[i]) THEN Exit(1)
       ELSE Read([i \in DOMAIN numbers |-> numbers[i].val], <<>>)

ParseMasters(s) == Read([i \in DOMAIN SplitList(s) |-> WithPort(SplitList(s)[i])], <<>>)

CliDefaults(masters) ==
    [masters |-> masters, master_timeout |-> 2, server_timeout |-> 2,
     protocol |-> <<PROTOCOL_VERSION, PROTOCOL_VERSION - 1>>, log |-> "off",
     filter |-> <<>>, flags |-> {}]

CliOptions == <<"masters", "master_timeout", "server_timeout", "protocol", "log", "filter">>
CliFlags == {"all_servers", "no_players", "compact", "json", "debug", "force_color"}

ParseOption(given, option) ==
    CASE option = "masters" -> ParseMasters(given[option])
      [] option \in {"master_timeout", "server_timeout"} -> ParseSeconds(given[option])
      [] option = "protocol" -> ParseProtocols(given[option])
      [] option = "log" -> ParseLog(given[option])
      [] option = "filter" -> OptGet(given)

\* The first option, in this order, that cannot be read ends the tool.
ParseCli(given, masters) ==
    FoldLeft(LAMBDA acc, option :
                 IF option # "filter" /\ option \notin DOMAIN given THEN acc
                 ELSE Then(acc, LAMBDA a : Then(ParseOption(given, option), LAMBDA v :
                          Read([a.val EXCEPT ![option] = v.val], <<>>))),
             IF DOMAIN given \cap {"help", "version"} # {} THEN Exit(0)
             ELSE Read([CliDefaults(masters) EXCEPT !.flags = DOMAIN given \cap CliFlags], <<>>),
             CliOptions)

(***************************************************************************)
(* Filter::to_raw_string of the observer: the fields that were set, then   *)
(* the text.                                                               *)
(***************************************************************************)
ObserverFields == <<"clver", "buildnum", "nat", "gamedir">>

\* Mutant: the text comes first.
ToRawString_RawFirst(set, raw) ==
    raw \o FlattenSeq([i \in DOMAIN ObserverFields |->
        LET f == ObserverFields[i]
        IN IF f \in DOMAIN set THEN PutKey(f, set[f]) ELSE <<>>])

ToRawString(set, raw) ==
    FlattenSeq([i \in DOMAIN ObserverFields |->
        LET f == ObserverFields[i]
        IN IF f \in DOMAIN set THEN PutKey(f, set[f]) ELSE <<>>]) \o raw

==============================================================================

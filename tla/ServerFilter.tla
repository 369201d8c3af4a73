----------------------------- MODULE ServerFilter -----------------------------
(***************************************************************************)
(* The filter of a query: a string of pairs that is read into a record,    *)
(* compared with what a server says of itself, and printed again.          *)
(***************************************************************************)
EXTENDS KeyValues

(***************************************************************************)
(* FilterFlags are sets of names. A filter has the fields it was given,    *)
(* and next to the flags the mask of those it was given.                   *)
(***************************************************************************)
FlagOfKey ==
    [dedicated |-> "DEDICATED", secure |-> "SECURE", password |-> "PASSWORD",
     empty |-> "EMPTY", full |-> "FULL", noplayers |-> "NOPLAYERS",
     nat |-> "NAT", lan |-> "LAN", bots |-> "BOTS"]

FilterKinds ==
    [gamedir |-> "text", map |-> "text", protocol |-> "u8", clver |-> "version",
     os |-> "text", arch |-> "text", branch |-> "text", commit |-> "text",
     buildnum |-> "u32", key |-> "hex"]

EmptyFilter == [fields |-> [k \in {} |-> <<>>], flags |-> {}, mask |-> {}]

Has(filter, key) == key \in DOMAIN filter.fields

InsertFlag(filter, flag, value) ==
    [filter EXCEPT !.flags = IF value THEN @ \cup {flag} ELSE @ \ {flag},
                   !.mask = @ \cup {flag}]

\* Filter::contains_flags of one flag: the flag's value, or Some(TRUE)'s default.
FlagOr(filter, flag, default) ==
    IF flag \in filter.mask THEN flag \in filter.flags ELSE default

(***************************************************************************)
(* Reading: a key given twice counts as given last, an unknown one does    *)
(* not count, and one value that cannot be read spoils the whole filter.   *)
(***************************************************************************)
SetField(filter, key, value) ==
    [filter EXCEPT !.fields = [k \in DOMAIN @ \cup {key} |-> IF k = key THEN value ELSE @[k]]]

SetFilterKey(filter, key, text) ==
    IF key \in DOMAIN FlagOfKey
      THEN Then(ParseBool(text), LAMBDA v :
               Read(InsertFlag(filter, FlagOfKey[key], v.val), <<>>))
    ELSE IF key \in DOMAIN FilterKinds
      THEN Then(ParseValue(FilterKinds[key], text), LAMBDA v :
               Read(SetField(filter, key, v.val), <<>>))
    ELSE Read(filter, <<>>)

FromMapIter(iter) == Then(iter, LAMBDA i : FoldPairs(SetFilterKey, EmptyFilter, i.val))

ParseFilter(src) == FromMapIter(NewMapIter(src))

(***************************************************************************)
(* What the master server keeps of a server, and whether a filter takes it.*)
(***************************************************************************)
\* A full server has as many players as it takes, or more.
FlagsOf(add) ==
    {f \in {"DEDICATED"} : add.type = "Dedicated"}
    \cup {f \in {"SECURE", "PASSWORD", "NAT", "LAN", "BOTS"} : f \in add.flags}
    \cup {f \in {"EMPTY", "NOPLAYERS"} : add.players = 0}
    \cup {f \in {"FULL"} : add.players >= add.max}

ServerInfo(add) ==
    [version |-> add.version, protocol |-> add.protocol, gamedir |-> add.gamedir,
     map |-> add.map, flags |-> FlagsOf(add), region |-> add.region]

\* Mutant: the flags of the server are not masked, so any other flag refuses it.
FilterMatches_NoMask(filter, info) ==
    /\ info.flags = filter.flags
    /\ \A k \in {"gamedir", "map", "protocol"} : Has(filter, k) => filter.fields[k] = info[k]

FilterMatches(filter, info) ==
    /\ info.flags \cap filter.mask = filter.flags
    /\ \A k \in {"gamedir", "map", "protocol"} : Has(filter, k) => filter.fields[k] = info[k]

(***************************************************************************)
(* Printing. The keys come in the order of the code, "secure" twice, and   *)
(* texts are escaped, so that not every text survives.                     *)
(***************************************************************************)
PrintOrder ==
    <<"dedicated", "secure", "gamedir", "secure", "map", "empty", "full", "password",
      "noplayers", "clver", "nat", "lan", "bots", "key", "protocol", "buildnum",
      "os", "arch", "branch", "commit">>

ShowPair(filter, key) ==
    IF key \in DOMAIN FlagOfKey
      THEN IF FlagOfKey[key] \notin filter.mask THEN <<>>
           ELSE PutKey(key, ShowValue("bool", FlagOfKey[key] \in filter.flags))
    ELSE IF ~Has(filter, key) THEN <<>>
    ELSE LET kind == FilterKinds[key]
         IN PutKey(key, IF kind = "text" THEN ShowStr(filter.fields[key])
                                         ELSE ShowValue(kind, filter.fields[key]))

ShowFilter(filter) ==
    FlattenSeq([i \in DOMAIN PrintOrder |-> ShowPair(filter, PrintOrder[i])])
==============================================================================

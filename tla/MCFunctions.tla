---------------------------- MODULE MCFunctions ----------------------------
(***************************************************************************)
(* The pure algorithms, each against its reference definition: a state holds  *)
(* one input, and every input of the sets below is reached from "none".       *)
(***************************************************************************)
EXTENDS HttpRange, LogConfigs, Storage, AtlasDevices, ModelFiles

VARIABLE req

Requests(f, S) == req = [fn |-> "none"] /\ \E in \in S : req' = [fn |-> f, in |-> in]

-----------------------------------------------------------------------------
(* Range headers: numbers at both ends of the bounds and around the sizes.    *)
PickRange == Requests("range", [h : Headers(0 .. MaxInt, 0 .. MaxInt), size : 0 .. MaxInt])

(* Labels: two prefixes, two logs, two levels below the first.                *)
MCLabelNames ==
    <<<<1, <<"a">>>>, <<1, <<"a", "format">>>>, <<1, <<"a", "format", "pattern">>>>,
      <<1, <<"a", "format", "time_key">>>>, <<1, <<"a", "tags">>>>, <<1, <<"a", "target">>>>,
      <<1, <<"b">>>>, <<2, <<"a">>>>, <<2, <<"a", "format">>>>,
      <<2, <<"a", "format", "pattern">>>>, <<2, <<"a", "tags">>>>, <<2, <<"b">>>>>>
MCTopics == {"t1"}

NameSet == {MCLabelNames[i] : i \in DOMAIN MCLabelNames}
PickTree == Requests("tree", SUBSET NameSet)

LogValues ==
    [kind : {"stdout", "empty", "relative"}, dir : {<<>>}]
        \cup [kind : {"file"}, dir : {<<"d", "e">>, <<"x">>}]
FormatValues == {"none", "csv", "json", "regexp", "unheard"}
TagValues == [ok : {TRUE}, map : {"topic" :> "t1", "env" :> "e"}] \cup [ok : {FALSE}, map : {Nothing}]
Mounts == {<<"d">> :> <<"h">>, (<<"d">> :> <<"h">>) @@ (<<"d", "e">> :> <<"k">>)}

\* The labels of log a that are given (the others are absent), then log b.
Given(names, log, format, pattern, tags, target) ==
    [k \in {<<1, p>> : p \in names} |->
        CASE k[2] \in {<<"a">>, <<"b">>} -> log
          [] k[2] = <<"a", "format">> -> format
          [] k[2] = <<"a", "format", "pattern">> -> pattern
          [] k[2] = <<"a", "format", "time_key">> -> "k"
          [] k[2] = <<"a", "tags">> -> tags
          [] k[2] = <<"a", "target">> -> target]
LabelSets ==
    {Given(names, log, format, pattern, tags, target) :
        names \in {{<<"a">>} \cup S :
                     S \in SUBSET {<<"a", "format">>, <<"a", "format", "pattern">>, <<"b">>,
                                   <<"a", "format", "time_key">>, <<"a", "tags">>}}
                  \cup {{<<"a">>, <<"a", "target">>}, {<<"a", "target">>}, {}},
        log \in LogValues, format \in FormatValues, pattern \in {"", "p"},
        tags \in TagValues, target \in {"t1", "t2"}}
Envs ==
    {<<>>,
     <<[name |-> <<1, <<"a">>>>, value |-> [kind |-> "stdout", dir |-> <<>>]]>>,
     <<[name |-> <<1, <<"a">>>>, value |-> [kind |-> "empty", dir |-> <<>>]],
       [name |-> <<1, <<"a">>>>, value |-> [kind |-> "file", dir |-> <<"d">>]]>>}
PickContainer ==
    Requests("container", [labels : LabelSets, env : Envs, mounts : Mounts, skip : BOOLEAN])

(* Host directories: paths of up to three components, mounts among them.      *)
Dirs == SeqOf({"d", "e"}, 3)
PickDir ==
    Requests("hostdir", [path : Dirs, at : SUBSET SeqOf({"d", "e"}, 2)])

(* Custom entries: the log "ab", and "a", whose name it starts with.          *)
Entries == {<<"a">> \o s \o t : s \in {<<".">>, <<"b", ".">>},
                                t \in {<<"x">>, <<"fields", ".", "x">>, <<"fields", ".", "y">>}}
PickFields == Requests("fields", [name : {<<"a">>, <<"a", "b">>}, custom : SUBSET Entries])

(* File systems: the host under "h", links of both kinds.                     *)
Places == {<<"h", "d">>, <<"h", "e">>, <<"h", "d", "d">>, <<"h", "d", "e">>}
Targets == {Dir} \cup {Link(to, abs) : to \in {<<"d">>, <<"e">>, <<"d", "e">>}, abs \in BOOLEAN}
Trees == {fs \in UNION {[S \cup {<<"h">>} -> Targets] : S \in SUBSET Places} :
             /\ fs[<<"h">>] = Dir
             /\ \A p \in DOMAIN fs : Len(p) = 3 =>
                   Front(p) \in DOMAIN fs /\ fs[Front(p)] = Dir}
HostPaths == {<<"d">>, <<"e">>, <<"d", "d">>, <<"d", "e">>, <<"e", "d">>}
PickPath == Requests("path", [fs : Trees, path : HostPaths])

\* Partitions of two devices, each with one size wherever it is mounted.
Mounted == {"sda", "sdb"} \X {<<"h">>, <<"h", "d">>, <<"o">>}
PartsOf(list, size) ==
    [i \in DOMAIN list |->
        [device |-> list[i][1], mountpoint |-> list[i][2], total |-> size[list[i][1]]]]
PartLists(n) == {PartsOf(list, size) : list \in SeqOf(Mounted, n), size \in [{"sda", "sdb"} -> 0 .. 2]}
PickParts == Requests("parts", [parts : PartLists(3)])
PickSetup ==
    Requests("setup", [fs : {fs \in Trees : Cardinality(DOMAIN fs) <= 3
                                \/ (<<"h", "d">> \in DOMAIN fs /\ fs[<<"h", "d">>] = Dir)},
                       parts : PartLists(1)])

(* Machines with up to two cards of up to two devices.                        *)
Cards ==
    [id : {-1, 0}, devices : {0, 1}, logic : {<<0>>, <<4>>}, memory : {<<TRUE>>, <<FALSE>>},
     chip : BOOLEAN]
        \cup [id : {1}, devices : {2, 3}, logic : {<<0, 1, 2>>},
              memory : [1 .. 3 -> BOOLEAN], chip : {TRUE}]
Machines == [dcmi : BOOLEAN, num : 0 .. 3, cards : SeqOf(Cards, 2)]
PickMachine == Requests("machine", [m : Machines, indexs : {{0}, {1, 2}, 0 .. 3}])

(* Archives of up to three entries, requests of up to two items.              *)
Archives ==
    [entries : SeqOf([name : {"f", "g"}, dir : BOOLEAN], 3), missing : BOOLEAN, cut : BOOLEAN]
Items == SeqOf([file : {"f", "g", "n"}, object : {"o", "p"}], 2)
PickArchive == Requests("archive", [a : Archives, items : Items, failing : {{}, {1}, {2}, {1, 3}}])

Return == req.fn # "none" /\ req' = [fn |-> "none"]

FunctionsInit == req = [fn |-> "none"]
FunctionsNext ==
    \/ PickRange \/ PickTree \/ PickContainer \/ PickDir \/ PickFields \/ PickPath
    \/ PickParts \/ PickSetup \/ PickMachine \/ PickArchive \/ Return
FunctionsSpec == FunctionsInit /\ [][FunctionsNext]_req

-----------------------------------------------------------------------------
\* utils/httprange.go selects the bytes a Range header asks for (RangeExact).
RangeOK == req.fn = "range" => RangeExact(req.in.h, req.in.size)

\* From labels to log configurations: insert and getLogConfigs build the tree of
\* the labels that count, newContainer takes a container only with sound
\* configurations, hostDirOf finds the nearest mount above a log directory, and
\* CustomConfig gives a log its own fields.
LogConfigsOK ==
    /\ req.fn = "tree" => TreeExact([k \in req.in |-> k])
    /\ req.fn = "container" => ConfigsSound(req.in)
    /\ req.fn = "hostdir" => HostDirNearest(req.in.path, [m \in req.in.at |-> <<m>>])
    /\ req.fn = "fields" => FieldsOwn(req.in.name, req.in.custom)

\* FindRealPath finds what a path means on the host, and without a prefix what
\* it means to the daemon; GetXFSMount takes a largest partition; the base
\* directory NewControl sets up is found again after a restart.
StorageOK ==
    /\ req.fn = "path" => /\ RealPathExact(req.in.fs, <<"h">>, req.in.path)
                          /\ RealPathLeads(req.in.fs, <<"h">> \o req.in.path)
    /\ req.fn = "parts" => LargestMount(<<"h">>, req.in.parts)
    /\ req.fn = "setup" => SetupStable(req.in.fs, <<"h">>, <<"d", "b">>, req.in.parts)

\* InfoAll of the Atlas driver numbers the devices that answer (NumbersExact).
NumbersOK == req.fn = "machine" => NumbersExact(req.in.m, req.in.indexs)

\* SaveModelFile reports as saved what is whole in the store (SavedWhole).
SavedOK == req.fn = "archive" => SavedWhole(req.in.a, req.in.items, req.in.failing)
=============================================================================

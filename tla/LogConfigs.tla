----------------------------- MODULE LogConfigs -----------------------------
(***************************************************************************)
(* What pilot/pilot.go makes of a container's labels and environment: the     *)
(* tree of LogInfoNodes, the log configurations read off it, and the format   *)
(* converters of pilot/format.go.                                             *)
(*                                                                           *)
(* The label "<prefix>.logs.a.b" is the pair <<prefix, <<"a", "b">>>>.  A tree *)
(* is a function from the paths of its nodes to their values; a directory is  *)
(* the sequence of its components.  A value is what the code tells apart:     *)
(* the value of a log is a record, that of its tags a record [ok, map].       *)
(***************************************************************************)
EXTENDS Integers, Sequences, FiniteSets, SequencesExt

CONSTANTS
    LabelNames,     \* the label names considered, as sort.Strings orders them
    Topics          \* the kafka topics of the file kafka_topics, {} without it

IsParent(p, q) == Len(p) < Len(q) /\ SubSeq(q, 1, Len(p)) = p

\* A name comes before the names it is the start of, and the names of one
\* prefix stand together.
ASSUME LabelsAssumption ==
    \A i, j \in DOMAIN LabelNames :
        /\ LabelNames[i][1] < LabelNames[j][1] => i < j
        /\ (LabelNames[i][1] = LabelNames[j][1] /\ IsParent(LabelNames[i][2], LabelNames[j][2]))
              => i < j

Nothing == [x \in {} |-> x]
Override(f, g) == [x \in DOMAIN f \cup DOMAIN g |-> IF x \in DOMAIN g THEN g[x] ELSE f[x]]
Without(f, S) == [x \in DOMAIN f \ S |-> f[x]]

-----------------------------------------------------------------------------
(* newContainer: the environment, in its order, over the labels.              *)
WithEnv(labels, env) ==
    FoldLeft(LAMBDA ls, e : Override(ls, e.name :> e.value), labels, env)

(* The tree.  insert reports a missing parent of the first level only; below  *)
(* it the error of the recursive call is dropped.                             *)
Broken == [error |-> TRUE, nodes |-> Nothing]
EmptyTree == [error |-> FALSE, nodes |-> Nothing]

\* Mutant: a node that is given again keeps what is below it.
insertKeeping(tree, path, value) ==
    LET parents == {SubSeq(path, 1, n) : n \in 1 .. Len(path) - 1}
    IN IF tree.error \/ (Len(path) > 1 /\ <<path[1]>> \notin DOMAIN tree.nodes) THEN Broken
       ELSE IF parents \subseteq DOMAIN tree.nodes
       THEN [tree EXCEPT !.nodes = Override(@, path :> value)]
       ELSE tree

insert(tree, path, value) ==
    LET nodes == tree.nodes
        parents == {SubSeq(path, 1, n) : n \in 1 .. Len(path) - 1}
        below == {q \in DOMAIN nodes : IsParent(path, q)}
    IN IF tree.error \/ (Len(path) > 1 /\ <<path[1]>> \notin DOMAIN nodes) THEN Broken
       ELSE IF parents \subseteq DOMAIN nodes
       THEN [tree EXCEPT !.nodes = Override(Without(nodes, below), path :> value)]
       ELSE tree

TreeOf(labels) ==
    FoldLeft(LAMBDA tree, k : insert(tree, k[2], labels[k]), EmptyTree,
             SelectSeq(LabelNames, LAMBDA k : k \in DOMAIN labels))

get(nodes, path, default) == IF path \in DOMAIN nodes THEN nodes[path] ELSE default

-----------------------------------------------------------------------------
(* hostDirOf: from the directory upwards to the nearest mount point; the root *)
(* itself is looked up only if it is the directory.                           *)

hostDirOf(path, mounts) ==
    LET look[n \in 0 .. Len(path)] ==
            LET dir == SubSeq(path, 1, n)
            IN IF dir \in DOMAIN mounts THEN mounts[dir] \o SubSeq(path, n + 1, Len(path))
               ELSE IF n <= 1 THEN <<>> ELSE look[n - 1]
    IN look[Len(path)]

(* format.go: the properties a format accepts.                                *)
Properties(format) ==
    CASE format = "csv" -> {"time_key", "time_format", "keys"}
      [] format = "json" -> {"time_key", "time_format"}
      [] format = "regexp" -> {"pattern", "time_format"}
      [] OTHER -> {}
Formats == {"nonex", "csv", "json", "regexp", "apache2", "apache_error", "nginx"}

ChildrenOf(nodes, path) ==
    LET names == {q[Len(q)] : q \in {r \in DOMAIN nodes : Len(r) = Len(path) + 1 /\ IsParent(path, r)}}
    IN [name \in names |-> nodes[Append(path, name)]]

ConvertFails(format, props) ==
    \/ format \notin Formats
    \/ ~(DOMAIN props \subseteq Properties(format))
    \/ format = "regexp" /\ get(props, "pattern", "") = ""

(* parseLogConfig, of the log called name.                                    *)
FormatOf(nodes, name) ==
    LET f == get(nodes, <<name, "format">>, "none") IN IF f = "none" THEN "nonex" ELSE f

PropsOf(nodes, name) ==
    IF get(nodes, <<name, "format">>, "none") = "none"
    THEN Nothing ELSE ChildrenOf(nodes, <<name, "format">>)

NoTags == [ok |-> TRUE, map |-> Nothing]

TagsOf(nodes, name) ==
    LET target == get(nodes, <<name, "target">>, name)
    IN Override([t \in {"index", "topic"} |-> target], get(nodes, <<name, "tags">>, NoTags).map)

tryCheckKafkaTopic(topic) == Topics = {} \/ topic \in Topics

ParseFails(nodes, name, mounts) ==
    LET value == nodes[<<name>>]
    IN \/ value.kind = "empty"
       \/ ~get(nodes, <<name, "tags">>, NoTags).ok
       \/ ~tryCheckKafkaTopic(TagsOf(nodes, name)["topic"])
       \/ ConvertFails(FormatOf(nodes, name), PropsOf(nodes, name))
       \/ value.kind = "relative"
       \/ value.kind = "file" /\ hostDirOf(value.dir, mounts) = <<>>

parseLogConfig(nodes, name, mounts) ==
    LET value == nodes[<<name>>]
        stdout == value.kind = "stdout"
        props == Without(PropsOf(nodes, name), {"pattern"})
    IN [name |-> name,
        stdout |-> stdout,
        hostDir |-> IF stdout THEN <<"json log dir">> ELSE hostDirOf(value.dir, mounts),
        format |-> IF FormatOf(nodes, name) = "regexp" THEN PropsOf(nodes, name)["pattern"]
                   ELSE FormatOf(nodes, name),
        tags |-> TagsOf(nodes, name),
        estimateTime |-> ~stdout /\ get(props, "time_key", "") = "",
        formatConfig |-> IF stdout THEN "time_format" :> "docker"
                         ELSE IF get(props, "time_key", "") = "" THEN Override(props, "time_key" :> "time")
                         ELSE props]

(* CustomConfig of piloter.go: the custom entries of a log, as fields and as   *)
(* settings.  Here a string is the sequence of its parts.                     *)
TrimPrefix(s, prefix) == IF IsPrefix(prefix, s) THEN SubSeq(s, Len(prefix) + 1, Len(s)) ELSE s

CustomConfig(name, custom) ==
    LET keys == {TrimPrefix(k, Append(name, ".")) : k \in {c \in custom : IsPrefix(name, c)}}
        fields == {k \in keys : IsPrefix(<<"fields">>, k)}
    IN [fields |-> {TrimPrefix(k, <<"fields", ".">>) : k \in fields}, settings |-> keys \ fields]

(* getLogConfigs.                                                             *)
LogNames(nodes) == {q[1] : q \in {p \in DOMAIN nodes : Len(p) = 1}}

ConfigsFail(labels, mounts) ==
    \/ TreeOf(labels).error
    \/ \E name \in LogNames(TreeOf(labels).nodes) :
           ParseFails(TreeOf(labels).nodes, name, mounts)

getLogConfigs(labels, mounts) ==
    LET nodes == TreeOf(labels).nodes
    IN {parseLogConfig(nodes, name, mounts) : name \in LogNames(nodes)}

(* What newContainer does with a container: an error, nothing, or its logs.    *)
newContainer(c) ==
    LET labels == WithEnv(c.labels, c.env)
    IN IF ConfigsFail(labels, c.mounts) THEN "error"
       ELSE IF c.skip \/ getLogConfigs(labels, c.mounts) = {} THEN "skipped"
       ELSE "collected"

-----------------------------------------------------------------------------
(* References the definitions above are checked against.                      *)

\* The prefixes a label of this path is given under, and the last of them.
GivenBy(labels, path) == {k[1] : k \in {l \in DOMAIN labels : l[2] = path}}
LastPrefix(labels, path) ==
    CHOOSE p \in GivenBy(labels, path) : \A q \in GivenBy(labels, path) : q <= p

\* A label counts when every node above it is given, and none of them again
\* under a later prefix than the node below it.
Counts(labels, path) ==
    /\ \A n \in 1 .. Len(path) : GivenBy(labels, SubSeq(path, 1, n)) # {}
    /\ \A n \in 1 .. Len(path) - 1 :
           LastPrefix(labels, SubSeq(path, 1, n)) <= LastPrefix(labels, SubSeq(path, 1, n + 1))

\* The loop of getLogConfigs over the sorted labels and insert, which replaces
\* nodes with all that is below them and drops errors below the first level,
\* give exactly the labels that count, and an error exactly when a label comes
\* before every label of its log.
TreeExact(labels) ==
    LET tree == TreeOf(labels)
        paths == {k[2] : k \in DOMAIN labels}
        orphans == {k \in DOMAIN labels :
                       \A l \in DOMAIN labels : l[2] = <<k[2][1]>> => l[1] > k[1]}
    IN /\ tree.error <=> orphans # {}
       /\ ~tree.error =>
            /\ DOMAIN tree.nodes = {p \in paths : Counts(labels, p)}
            /\ \A p \in DOMAIN tree.nodes : tree.nodes[p] = labels[<<LastPrefix(labels, p), p>>]

\* hostDirOf answers with the nearest mount above the directory ("查找最近的一层
\* 挂载", pilot.go:350), and with nothing just when there is none below the root.
HostDirNearest(path, mounts) ==
    LET above == {m \in DOMAIN mounts : (m = path \/ IsParent(m, path)) /\ (m = <<>> => path = <<>>)}
    IN IF above = {} THEN hostDirOf(path, mounts) = <<>>
       ELSE \E m \in above : /\ \A o \in above : Len(o) <= Len(m)
                             /\ hostDirOf(path, mounts) =
                                    mounts[m] \o SubSeq(path, Len(m) + 1, Len(path))

\* A container whose configuration is taken has one log for every label of the
\* first level, each with a directory on the host, a topic kafka knows, only
\* properties its format has, and a time key: a log that lacks one of these
\* refuses the container with all its logs.
ConfigsSound(c) ==
    newContainer(c) = "collected" =>
        LET labels == WithEnv(c.labels, c.env)
            configs == getLogConfigs(labels, c.mounts)
        IN /\ ~c.skip
           /\ {g.name : g \in configs} = {k[2][1] : k \in DOMAIN labels}
           /\ Cardinality(configs) = Cardinality({g.name : g \in configs})
           /\ \A g \in configs :
                 /\ g.hostDir # <<>>
                 /\ Topics # {} => g.tags["topic"] \in Topics
                 /\ g.stdout \/ get(g.formatConfig, "time_key", "") # ""
                 /\ "pattern" \notin DOMAIN g.formatConfig

\* The entries "<log>.fields.<x>" become the fields of that log and of no other,
\* and its entries without "fields" are among its settings, though CustomConfig
\* takes every entry that starts with the letters of the log's name.
FieldsOwn(name, custom) ==
    LET own == {SubSeq(k, Len(name) + 2, Len(k)) :
                    k \in {c \in custom : IsPrefix(Append(name, "."), c)}}
        fields == {k \in own : IsPrefix(<<"fields", ".">>, k)}
    IN /\ CustomConfig(name, custom).fields = {SubSeq(k, 3, Len(k)) : k \in fields}
       /\ own \ fields \subseteq CustomConfig(name, custom).settings
=============================================================================

------------------------------ MODULE Storage ------------------------------
(***************************************************************************)
(* How quota/ProjectQuota.go finds the directory it sets limits in: the       *)
(* partition (GetXFSMount), the link to it that NewControl makes the first    *)
(* time, and FindRealPath, which follows links below a prefix, the directory  *)
(* the daemon's container sees the host's root under.                         *)
(*                                                                           *)
(* A path is the sequence of its components.  A file system is a function     *)
(* from paths to directories and links; a link holds a path and says whether  *)
(* it starts at the root.                                                     *)
(***************************************************************************)
EXTENDS Integers, Sequences, FiniteSets, SequencesExt

Dir == [kind |-> "dir", to |-> <<>>, abs |-> FALSE]
Link(to, abs) == [kind |-> "link", to |-> to, abs |-> abs]
NoPath == <<"">>
MaxLinks == 8       \* links the kernel follows (40 in Linux) before it gives up

\* The kernel's resolution of a path from the directory done on; root is where
\* absolute links start.
RECURSIVE Resolve(_, _, _, _, _)
Resolve(fs, root, done, todo, links) ==
    IF todo = <<>> THEN done
    ELSE LET next == Append(done, Head(todo))
         IN IF next \notin DOMAIN fs \/ links = 0 THEN NoPath
            ELSE IF fs[next].kind = "dir" THEN Resolve(fs, root, next, Tail(todo), links)
            ELSE Resolve(fs, root, IF fs[next].abs THEN root ELSE done,
                         fs[next].to \o Tail(todo), links - 1)

Stat(fs, path) == Resolve(fs, <<>>, <<>>, path, MaxLinks)

\* os.Lstat: the last component is not followed.
Lstat(fs, path) ==
    LET parent == Stat(fs, Front(path))
    IN IF parent = NoPath \/ Append(parent, Last(path)) \notin DOMAIN fs THEN NoPath
       ELSE Append(parent, Last(path))

\* FindRealPath of paths[i..], from currentDir; NoPath stands for its errors.
RECURSIVE FindFrom(_, _, _, _)
FindFrom(fs, prefix, currentDir, paths) ==
    IF paths = <<>> THEN currentDir
    ELSE LET next == Append(currentDir, Head(paths))
             at == Lstat(fs, next)
         IN IF at = NoPath THEN NoPath
            ELSE IF fs[at].kind = "dir" THEN FindFrom(fs, prefix, next, Tail(paths))
            ELSE LET rel == IF fs[at].abs THEN prefix \o fs[at].to ELSE currentDir \o fs[at].to
                 IN IF Stat(fs, rel) = NoPath THEN NoPath
                    ELSE FindFrom(fs, prefix, rel, Tail(paths))

FindRealPath(fs, prefix, path) == FindFrom(fs, prefix, prefix, path)

-----------------------------------------------------------------------------
(* GetXFSMount: the partitions in the order the system lists them.            *)
NoPart == [device |-> "", mountpoint |-> <<>>, total |-> 0]
DirLength(part) == IF part = NoPart THEN 100 ELSE Len(part.mountpoint) + 1

Better(maxPart, part) ==
    /\ part.total >= maxPart.total /\ part.total > 0
    /\ part.device = maxPart.device => DirLength(maxPart) > DirLength(part)

GetXFSMount(prefix, parts) ==
    FoldLeft(LAMBDA max, part : IF Better(max, part) THEN part ELSE max, NoPart,
             SelectSeq(parts, LAMBDA part : IsPrefix(prefix, part.mountpoint)))

(* NewControl: the base directory, and the file system it leaves.  Its link    *)
(* is made when the base path does not exist, or leads nowhere.                *)
MkdirAll(fs, path) ==
    [p \in DOMAIN fs \cup {SubSeq(path, 1, n) : n \in 1 .. Len(path)} |->
        IF p \in DOMAIN fs THEN fs[p] ELSE Dir]

\* Mutant: the link holds the path with the prefix.
NewControlPrefixed(fs, prefix, basePath, parts) ==
    LET found == FindRealPath(fs, prefix, basePath)
        part == GetXFSMount(prefix, parts)
        disk == Append(part.mountpoint, "cloud-disk")
        made == MkdirAll(fs, prefix \o Front(basePath))
        made2 == MkdirAll(made, disk)
        linked == [p \in DOMAIN made2 \cup {prefix \o basePath} |->
                      IF p = prefix \o basePath THEN Link(disk, TRUE) ELSE made2[p]]
    IN IF found # NoPath THEN [fs |-> fs, base |-> found]
       ELSE IF part = NoPart THEN [fs |-> made, base |-> NoPath]
       ELSE IF prefix \o basePath \in DOMAIN made2 THEN [fs |-> made2, base |-> NoPath]
       ELSE [fs |-> linked, base |-> prefix \o basePath]

NewControl(fs, prefix, basePath, parts) ==
    LET found == FindRealPath(fs, prefix, basePath)
        part == GetXFSMount(prefix, parts)
        disk == Append(part.mountpoint, "cloud-disk")
        made == MkdirAll(fs, prefix \o Front(basePath))
        made2 == MkdirAll(made, disk)
        link == Link(SubSeq(disk, Len(prefix) + 1, Len(disk)), TRUE)
        linked == [p \in DOMAIN made2 \cup {prefix \o basePath} |->
                      IF p = prefix \o basePath THEN link ELSE made2[p]]
    IN IF found # NoPath THEN [fs |-> fs, base |-> found]
       ELSE IF part = NoPart THEN [fs |-> made, base |-> NoPath]
       ELSE IF prefix \o basePath \in DOMAIN made2 THEN [fs |-> made2, base |-> NoPath]
       ELSE [fs |-> linked, base |-> FindRealPath(linked, prefix, basePath)]

-----------------------------------------------------------------------------
\* What FindRealPath finds is what the path means on the host, whose root the
\* prefix is, unless a link leads through another link: it follows one link at
\* a time and leaves the rest to the kernel, for which absolute links start at
\* the daemon's own root.
Chained(fs, prefix) ==
    \E p, q \in DOMAIN fs :
        /\ fs[p].kind = "link" /\ fs[q].kind = "link"
        /\ IsPrefix(q, (IF fs[p].abs THEN prefix ELSE Front(p)) \o fs[p].to)

RealPathExact(fs, prefix, path) ==
    ~Chained(fs, prefix) =>
        FindRealPath(fs, prefix, path) = Resolve(fs, prefix, prefix, path, MaxLinks)

\* Without a prefix chained links do no harm: both lead to the same directory.
RealPathLeads(fs, path) ==
    LET found == FindRealPath(fs, <<>>, path)
    IN IF found = NoPath THEN Stat(fs, path) = NoPath ELSE Stat(fs, found) = Stat(fs, path)

\* The partition taken is a largest one, and has the shortest mount point of
\* its device when no other device is as large.
LargestMount(prefix, parts) ==
    LET below == {parts[i] : i \in {j \in DOMAIN parts : IsPrefix(prefix, parts[j].mountpoint)}}
        part == GetXFSMount(prefix, parts)
        largest == {p \in below : \A q \in below : q.total <= p.total}
    IN IF \A p \in below : p.total = 0 THEN part = NoPart
       ELSE /\ part \in largest
            /\ Cardinality({p.device : p \in largest}) = 1 =>
                   \A p \in largest : Len(part.mountpoint) <= Len(p.mountpoint)

\* A base directory once found is found again after a restart, with nothing
\* changed on the disk, and so it is when the first start was cut short after
\* any of the directories it makes.
SetupStable(fs, prefix, basePath, parts) ==
    LET first == NewControl(fs, prefix, basePath, parts)
        disk == Append(GetXFSMount(prefix, parts).mountpoint, "cloud-disk")
        cut == MkdirAll(fs, prefix \o Front(basePath))
    IN first.base # NoPath =>
         /\ NewControl(first.fs, prefix, basePath, parts) = first
         /\ NewControl(cut, prefix, basePath, parts) = first
         /\ FindRealPath(fs, prefix, basePath) = NoPath =>
               NewControl(MkdirAll(cut, disk), prefix, basePath, parts) = first
=============================================================================

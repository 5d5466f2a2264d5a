----------------------------- MODULE ModelFiles -----------------------------
(***************************************************************************)
(* Service/ModelSaveService.go with the TarFile of utils/ioutil.go: the files *)
(* of a model archive are listed, and those a request names are put into the  *)
(* object store.  An archive is a sequence of [name, dir] entries; cut says   *)
(* that it is damaged behind them, missing that there is none.  A request is  *)
(* a sequence of [file, object] items.  failing is the set of the uploads     *)
(* (by their order) that the store refuses.  Every entry has a content of its *)
(* own, which is named by its position.                                      *)
(***************************************************************************)
EXTENDS Integers, Sequences, FiniteSets, SequencesExt

Emptied == 0            \* the content of an object that was written empty

\* An error other than the end leaves a nil header, whose Typeflag is read.
ListFiles(a) ==
    [answer |-> CASE a.missing -> "error" [] ~a.missing /\ a.cut -> "panic" [] OTHER -> "list",
     files |-> {a.entries[i].name : i \in {j \in DOMAIN a.entries : ~a.entries[j].dir}}]

\* ExtractFileTo: one upload for every entry and every item that names it.
Uploads(a, items) ==
    LET Of(e) == [k \in 1 .. Len(SelectSeq(items, LAMBDA it : it.file = a.entries[e].name)) |-> e]
    IN IF a.missing THEN <<>>
       ELSE FoldLeft(LAMBDA s, e : s \o Of(e), <<>>, [e \in DOMAIN a.entries |-> e])

\* The object is that of the last item that names the file (lines 121-125).
ObjectName(items, file) ==
    items[CHOOSE i \in DOMAIN items : items[i].file = file
             /\ \A j \in DOMAIN items : items[j].file = file => j <= i].object

\* The reader of an entry is at its end after the first upload of it.  An
\* upload that fails is taken to leave nothing for the next one either.
Content(ups, k) == IF k > 1 /\ ups[k - 1] = ups[k] THEN Emptied ELSE ups[k]

\* The objects written, object -> content.
Objects(a, items, failing) ==
    LET ups == Uploads(a, items)
        Put(store, k) ==
           LET o == ObjectName(items, a.entries[ups[k]].name)
           IN IF k \in failing THEN store
              ELSE [x \in DOMAIN store \cup {o} |-> IF x = o THEN Content(ups, k) ELSE store[x]]
    IN FoldLeft(Put, <<>>, [k \in DOMAIN ups |-> k])

\* Mutant: the error of an upload is not looked at.
SaveModelFileBlind(a, items, failing) ==
    LET ups == Uploads(a, items)
    IN IF a.missing \/ a.cut THEN [answer |-> "error", Saved |-> {}, UnSaved |-> {}]
       ELSE [answer |-> "result", Saved |-> {a.entries[ups[k]].name : k \in DOMAIN ups},
             UnSaved |-> {}]

\* The answer: the names of the uploads that succeeded and of those that did
\* not; notFound is worked out but never put into it.
SaveModelFile(a, items, failing) ==
    LET ups == Uploads(a, items)
        Names(S) == {a.entries[ups[k]].name : k \in S}
    IN IF a.missing \/ a.cut THEN [answer |-> "error", Saved |-> {}, UnSaved |-> {}]
       ELSE [answer |-> "result", Saved |-> Names(DOMAIN ups \ failing),
             UnSaved |-> Names(DOMAIN ups \cap failing)]

-----------------------------------------------------------------------------
\* When a request names every file once and every object once, each file the
\* answer of SaveModelFile calls saved is whole in its object (the content of
\* its last entry in the archive that the store accepted), nothing else is
\* written, and every file of ListFiles that was asked for is called saved or
\* unsaved.  An archive that is damaged is never reported saved.
SavedWhole(a, items, failing) ==
    LET ans == SaveModelFile(a, items, failing)
        store == Objects(a, items, failing)
        ups == Uploads(a, items)
        once == \A i, j \in DOMAIN items :
                   i # j => items[i].file # items[j].file /\ items[i].object # items[j].object
        entries(f) == {e \in DOMAIN a.entries : a.entries[e].name = f}
        kept(f) == {ups[k] : k \in {k \in DOMAIN ups \ failing : ups[k] \in entries(f)}}
    IN /\ ans.answer = "result" <=> ListFiles(a).answer = "list"
       /\ once /\ ans.answer = "result" =>
            /\ DOMAIN store = {items[i].object : i \in {i \in DOMAIN items : items[i].file \in ans.Saved}}
            /\ \A i \in DOMAIN items :
                  LET f == items[i].file IN
                  /\ f \in ans.Saved =>
                        store[items[i].object] = CHOOSE e \in kept(f) : \A d \in kept(f) : d <= e
                  /\ f \in ListFiles(a).files => f \in ans.Saved \cup ans.UnSaved
=============================================================================

------------------------------ MODULE ListCaches ------------------------------
(***************************************************************************)
(* The cached lists of src/module/categories/categories.service.ts and     *)
(* src/module/inventory/inventory.service.ts.  The cache is the memory of  *)
(* a pod.  A reader that misses queries the table and caches what it found *)
(* some awaits later; a writer deletes some keys in its own pod, before or *)
(* after it saves.  A table's content is the number of writes it has seen. *)
(*                                                                         *)
(* An entry that the writer's own deletions could not prevent is marked    *)
(* raced; nothing in the code reads this mark.                             *)
(***************************************************************************)
EXTENDS Naturals, Sequences

CONSTANTS
    Pod,        \* API and worker pods
    ApiPod,     \* those that serve requests
    Reader,     \* list requests, again and again
    Writer,     \* requests and jobs that write once
    List,       \* the lists that are read
    None

Table == {"categories", "inventory"}
CategoryLists == {"tree", "flat", "stats"}
InventoryLists == {"branch", "otherBranch", "all"}

ASSUME ListCachesAssumption ==
    /\ ApiPod \subseteq Pod
    /\ List \subseteq CategoryLists \cup InventoryLists
    /\ None \notin Pod \cup Nat

TableOf(l) == IF l \in CategoryLists THEN "categories" ELSE "inventory"

\* What each operation awaits, in its order: deletions of keys and its save.
CreateCategory == <<"tree", "flat", "save">>
UpdateCategory == <<"tree", "flat", "stats", "save">>

\* Mutated form: the statistics are forgotten.
RemoveCategoryForgetful == <<"save", "tree", "flat">>

RemoveCategory == <<"save", "tree", "flat", "stats">>
RestoreCategory == <<"save", "tree", "flat", "stats">>

\* invalidateCaches deletes the branch's key, then the one of all branches.
InvalidateCaches(l) == <<l, "all">>
CreateInventory == <<"save">> \o InvalidateCaches("branch")
AdjustStock == <<"save">> \o InvalidateCaches("branch")
UpdateInventory == <<"save">> \o InvalidateCaches("branch")

\* The save takes effect when the transaction commits, after the deletions.
TransferStock == InvalidateCaches("branch") \o InvalidateCaches("otherBranch") \o <<"save">>

\* The low-stock check and the nightly reset write the table and delete nothing.
InventoryJob == <<"save">>

CategoryOps == {CreateCategory, UpdateCategory, RemoveCategory, RestoreCategory}
InventoryOps == {CreateInventory, AdjustStock, UpdateInventory, TransferStock, InventoryJob}

\* Listeners adjust stock on worker pods, where the jobs run as well.
WorkerOps == {AdjustStock, InventoryJob}

VARIABLES
    writes,     \* per table, how many writes it has seen
    cache,      \* per pod and list, the cached content
    reader,     \* per reader, where and which list it reads, and what it found
    overtaken,  \* history: readers that were under way when their list changed
    writer,     \* per writer, its pod and operation, the steps left, the keys deleted
    made        \* per writer, the number of its write

vars == <<writes, cache, reader, overtaken, writer, made>>

Entry == [content : Nat, raced : BOOLEAN]
Reading == [pod : ApiPod, list : List, found : Nat \cup {None}]
Key == CategoryLists \cup InventoryLists
Writing == [pod : Pod, op : CategoryOps \cup InventoryOps \cup {<<>>}, steps : Seq(Key \cup {"save"}),
            deleted : SUBSET Key]

ASSUME NoneAssumption == None \notin Reading /\ None \notin Writing

TypeOK ==
    /\ writes \in [Table -> Nat]
    /\ cache \in [Pod -> [List -> Entry \cup {None}]]
    /\ reader \in [Reader -> Reading \cup {None}]
    /\ overtaken \subseteq Reader
    /\ writer \in [Writer -> Writing \cup {None}]
    /\ made \in [Writer -> Nat]

Init ==
    /\ writes = [t \in Table |-> 0]
    /\ cache = [p \in Pod |-> [l \in List |-> None]]
    /\ reader = [r \in Reader |-> None]
    /\ overtaken = {}
    /\ writer = [w \in Writer |-> None]
    /\ made = [w \in Writer |-> 0]
-----------------------------------------------------------------------------
(* findAll, findFlat, stats; findAll of the inventory *)

\* Mutated form: one key for all lists of a table.
MissTable(r, p, l) ==
    /\ reader[r] = None /\ cache[p][l] = None
    /\ reader' = [reader EXCEPT ![r] = [pod |-> p, list |-> TableOf(l), found |-> None]]
    /\ UNCHANGED <<writes, cache, overtaken, writer, made>>

\* The key is not in the cache; a hit changes nothing.
Miss(r, p, l) ==
    /\ reader[r] = None /\ cache[p][l] = None
    /\ reader' = [reader EXCEPT ![r] = [pod |-> p, list |-> l, found |-> None]]
    /\ UNCHANGED <<writes, cache, overtaken, writer, made>>

Find(r) ==
    /\ reader[r] # None /\ reader[r].found = None
    /\ reader' = [reader EXCEPT ![r].found = writes[TableOf(reader[r].list)]]
    /\ UNCHANGED <<writes, cache, overtaken, writer, made>>

CacheList(r) ==
    LET p == reader[r].pod
        l == reader[r].list
    IN  /\ reader[r] # None /\ reader[r].found # None
        /\ cache' = [cache EXCEPT ![p][l] =
                        [content |-> reader[r].found, raced |-> r \in overtaken]]
        /\ reader' = [reader EXCEPT ![r] = None]
        /\ overtaken' = overtaken \ {r}
        /\ UNCHANGED <<writes, writer, made>>

\* Mutated form: the lists of the inventory are cached for good.
ExpireCategories(p, l) ==
    /\ l \in CategoryLists /\ cache[p][l] # None
    /\ cache' = [cache EXCEPT ![p][l] = None]
    /\ UNCHANGED <<writes, reader, overtaken, writer, made>>

\* The entry's time to live is over.
Expire(p, l) ==
    /\ cache[p][l] # None
    /\ cache' = [cache EXCEPT ![p][l] = None]
    /\ UNCHANGED <<writes, reader, overtaken, writer, made>>
-----------------------------------------------------------------------------
(* the writers *)

\* Everything an operation does before its first deletion or save.
Begin(w) ==
    /\ writer[w] = None /\ made[w] = 0
    /\ \E p \in Pod, op \in CategoryOps \cup InventoryOps :
        /\ op \notin WorkerOps => p \in ApiPod
        /\ writer' = [writer EXCEPT ![w] =
               [pod |-> p, op |-> op, steps |-> op, deleted |-> {}]]
    /\ UNCHANGED <<writes, cache, reader, overtaken, made>>

Next1(w) == Head(writer[w].steps)
Underway(w) == writer[w] # None /\ writer[w].steps # <<>>
ReadersOf(p, lists) == {r \in Reader : reader[r] # None /\ reader[r].pod = p /\ reader[r].list \in lists}

Delete(w) ==
    LET p == writer[w].pod
        l == Next1(w)
    IN  /\ Underway(w) /\ l # "save"
        /\ cache' = [cache EXCEPT ![p] = [k \in List |-> IF k = l THEN None ELSE @[k]]]
        /\ overtaken' = overtaken \cup ReadersOf(p, {l})
        /\ writer' = [writer EXCEPT ![w].steps = Tail(@),
                                          ![w].deleted = IF made[w] = 0 THEN @ \cup {l} ELSE @]
        /\ UNCHANGED <<writes, reader, made>>

\* What was deleted and filled again before the save, or is being filled, is
\* already old.
Save(w) ==
    LET p == writer[w].pod
        early == writer[w].deleted
        t == IF writer[w].op \in CategoryOps THEN "categories" ELSE "inventory"
    IN  /\ Underway(w) /\ Next1(w) = "save"
        /\ writes' = [writes EXCEPT ![t] = @ + 1]
        /\ made' = [made EXCEPT ![w] = writes[t] + 1]
        /\ cache' = [cache EXCEPT ![p] =
               [l \in List |-> IF l \in early /\ @[l] # None
                               THEN [@[l] EXCEPT !.raced = TRUE] ELSE @[l]]]
        /\ overtaken' = overtaken \cup ReadersOf(p, early)
        /\ writer' = [writer EXCEPT ![w].steps = Tail(@), ![w].deleted = {}]
        /\ UNCHANGED reader

\* The save is refused: a name that is taken, a lost connection.  Or the
\* movement is, which is recorded between the save and the deletions.
Fails(w) ==
    /\ Underway(w)
    /\ Next1(w) = "save" \/ writer[w].steps = Tail(AdjustStock)
    /\ writer' = [writer EXCEPT ![w].steps = <<>>, ![w].op = <<>>]
    /\ UNCHANGED <<writes, cache, reader, overtaken, made>>

\* The pod dies with its cache and all it was serving, and is replaced.
Restart(p) ==
    /\ \E w \in Writer : Underway(w) /\ writer[w].pod = p
    /\ cache' = [cache EXCEPT ![p] = [l \in List |-> None]]
    /\ reader' = [r \in Reader |-> IF reader[r] # None /\ reader[r].pod = p THEN None ELSE reader[r]]
    /\ overtaken' = {r \in overtaken : reader[r].pod # p}
    /\ writer' = [w \in Writer |-> IF Underway(w) /\ writer[w].pod = p
                                   THEN [writer[w] EXCEPT !.steps = <<>>, !.op = <<>>] ELSE writer[w]]
    /\ UNCHANGED <<writes, made>>

WriterStep(w) == Delete(w) \/ Save(w) \/ Fails(w)

Next ==
    \/ \E r \in Reader : Find(r) \/ CacheList(r) \/ \E p \in ApiPod, l \in List : Miss(r, p, l)
    \/ \E p \in ApiPod, l \in List : Expire(p, l)
    \/ \E w \in Writer : Begin(w) \/ WriterStep(w)
    \/ \E p \in Pod : Restart(p)

Spec == Init /\ [][Next]_vars

\* Queries answer, handlers go on, and entries expire; nobody need ask for a list.
FairSpec ==
    /\ Spec
    /\ \A r \in Reader : WF_vars(Find(r) \/ CacheList(r))
    /\ \A w \in Writer : WF_vars(WriterStep(w))
    /\ \A p \in ApiPod, l \in List : WF_vars(Expire(p, l))
-----------------------------------------------------------------------------
\* The lists a client sees a finished operation in.
Shown(op) ==
    CASE op = CreateCategory -> {"tree", "flat"}
      [] op \in {UpdateCategory, RemoveCategory, RestoreCategory} -> CategoryLists
      [] op \in {CreateInventory, AdjustStock, UpdateInventory} -> {"branch", "all"}
      [] op = TransferStock -> InventoryLists
      [] OTHER -> {}

(***************************************************************************)
(* Once an operation has succeeded, every list of its pod shows its write, *)
(* but for the statistics after a new category, and unless the list was    *)
(* being filled when it was deleted, or was filled again between the       *)
(* deletion and a later save (create, update and transferStock delete      *)
(* first).  One that fails after its save leaves the lists as they are.    *)
(***************************************************************************)
WritesShowUnlessRaced ==
    \A w \in Writer :
        made[w] > 0 /\ writer[w].steps = <<>> =>
            \A l \in List \cap Shown(writer[w].op) :
                LET e == cache[writer[w].pod][l]
                IN  e = None \/ e.raced \/ e.content >= made[w]

(***************************************************************************)
(* Whatever writers left behind - a raced list, a list they do not delete, *)
(* the lists of other pods - is gone in the end: once nobody writes, every *)
(* cached list is eventually the table's, because entries expire.          *)
(***************************************************************************)
ListsBecomeFresh ==
    <>[](\A p \in ApiPod, l \in List :
            cache[p][l] # None => cache[p][l].content = writes[TableOf(l)])
=============================================================================

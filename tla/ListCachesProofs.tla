--------------------------- MODULE ListCachesProofs ---------------------------
(***************************************************************************)
(* Theorems about ListCaches, for any pods, readers, writers and lists:    *)
(* once an operation has ended, its pod shows its write, unless the entry  *)
(* is marked as raced.                                                     *)
(***************************************************************************)
EXTENDS ListCaches, SequenceTheorems, TLAPS

\* What a sequence of steps has left.
Left(s) == {s[i] : i \in 1..Len(s)}

SavesOnce(s) == \A i, j \in 1..Len(s) : s[i] = "save" /\ s[j] = "save" => i = j

TableOfOp(op) == IF op \in CategoryOps THEN "categories" ELSE "inventory"

\* A writer has one save at most before it, and until then each list its
\* operation shows in has been deleted or will be.
Planned(w) ==
    /\ SavesOnce(writer[w].steps)
    /\ made[w] > 0 => "save" \notin Left(writer[w].steps)
    /\ made[w] = 0 => Shown(writer[w].op) \subseteq writer[w].deleted \cup Left(writer[w].steps)
    /\ writer[w].op # <<>> => made[w] <= writes[TableOfOp(writer[w].op)]

PlanOf(w) ==
    /\ writer[w] = None => made[w] = 0
    /\ writer[w] # None => Planned(w)

\* Neither a pod's list nor a list about to be cached there is older than a
\* write, unless raced.
Fresh(p, l, n) ==
    /\ cache[p][l] = None \/ cache[p][l].raced \/ cache[p][l].content >= n
    /\ \A r \in Reader :
          reader[r] # None /\ reader[r].pod = p /\ reader[r].list = l /\ reader[r].found # None =>
              r \in overtaken \/ reader[r].found >= n

\* After its save a writer has yet to delete a list, or leaves it fresh.
ShownBy(w) ==
    writer[w] # None /\ made[w] > 0 =>
        \A l \in List \cap Shown(writer[w].op) :
            l \in Left(writer[w].steps) \/ Fresh(writer[w].pod, l, made[w])

WritersInv == \A w \in Writer : PlanOf(w) /\ ShownBy(w)

IInv == TypeOK /\ WritersInv

\* What a step keeps fresh, for a write that has been made.
FreshStays ==
    \A p \in Pod, l \in List, n \in Nat :
        Fresh(p, l, n) /\ n <= writes[TableOf(l)] => Fresh(p, l, n)'
-----------------------------------------------------------------------------
(* Sequences of steps                                                      *)

\* The first step is the one that is no longer left.
LEMMA LeftOfTail ==
    ASSUME NEW S, NEW s \in Seq(S), s # <<>>
    PROVE  /\ Head(s) \in S /\ Tail(s) \in Seq(S)
           /\ Left(Tail(s)) \subseteq Left(s)
           /\ Left(s) \subseteq {Head(s)} \cup Left(Tail(s))
<1>1. /\ Len(s) \in Nat \ {0} /\ Tail(s) \in Seq(S) /\ Len(Tail(s)) = Len(s) - 1
      /\ Head(s) = s[1] /\ s[1] \in S
      /\ \A i \in 1..Len(Tail(s)) : Tail(s)[i] = s[i + 1]
    OBVIOUS
<1>2. ASSUME NEW x \in Left(Tail(s)) PROVE x \in Left(s)
    <2>1. PICK i \in 1..Len(Tail(s)) : x = Tail(s)[i]
        BY DEF Left
    <2>2. i + 1 \in 1..Len(s) /\ x = s[i + 1]
        BY <1>1, <2>1
    <2> QED
        BY <2>2 DEF Left
<1>3. ASSUME NEW x \in Left(s), x # Head(s) PROVE x \in Left(Tail(s))
    <2>1. PICK i \in 1..Len(s) : x = s[i]
        BY DEF Left
    <2>2. i # 1
        BY <1>1, <1>3, <2>1
    <2>3. i - 1 \in 1..Len(Tail(s)) /\ x = Tail(s)[i - 1]
        BY <1>1, <2>1, <2>2
    <2> QED
        BY <2>3 DEF Left
<1> QED
    BY <1>1, <1>2, <1>3

\* After the save there is none.
LEMMA SavesOnceTail ==
    ASSUME NEW S, NEW s \in Seq(S), s # <<>>, SavesOnce(s)
    PROVE  /\ SavesOnce(Tail(s))
           /\ Head(s) = "save" => "save" \notin Left(Tail(s))
<1>1. /\ Len(s) \in Nat \ {0} /\ Len(Tail(s)) = Len(s) - 1
      /\ Head(s) = s[1]
      /\ \A i \in 1..Len(Tail(s)) : i + 1 \in 1..Len(s) /\ Tail(s)[i] = s[i + 1]
    OBVIOUS
<1>2. SavesOnce(Tail(s))
    <2> SUFFICES ASSUME NEW i \in 1..Len(Tail(s)), NEW j \in 1..Len(Tail(s)),
                        Tail(s)[i] = "save", Tail(s)[j] = "save"
                 PROVE  i = j
        BY DEF SavesOnce
    <2>1. i + 1 = j + 1
        BY <1>1 DEF SavesOnce
    <2> QED
        BY <2>1
<1>3. ASSUME Head(s) = "save", "save" \in Left(Tail(s)) PROVE FALSE
    <2>1. PICK i \in 1..Len(Tail(s)) : Tail(s)[i] = "save"
        BY <1>3 DEF Left
    <2>2. 1 \in 1..Len(s) /\ i + 1 \in 1..Len(s) /\ s[1] = "save" /\ s[i + 1] = "save"
        BY <1>1, <1>3, <2>1
    <2>3. 1 = i + 1
        BY <2>2 DEF SavesOnce
    <2> QED
        BY <2>3
<1> QED
    BY <1>2, <1>3

\* Short sequences, joined.
LEMMA JoinedThree ==
    ASSUME NEW a, NEW b, NEW c
    PROVE  <<a>> \o <<b, c>> = <<a, b, c>>
<1> DEFINE S == {a, b, c}
           s == <<a>> \o <<b, c>>
<1>1. <<a>> \in Seq(S) /\ <<b, c>> \in Seq(S) /\ <<a, b, c>> \in Seq(S)
    OBVIOUS
<1>2. s \in Seq(S) /\ Len(s) = 3 /\ s[1] = a /\ s[2] = b /\ s[3] = c
    BY <1>1, ConcatProperties
<1> HIDE DEF s, S
<1>3. \A i \in 1..Len(s) : s[i] = <<a, b, c>>[i]
    BY <1>2
<1> QED
    BY <1>1, <1>2, <1>3, SeqEqual DEF s

LEMMA JoinedFour ==
    ASSUME NEW a, NEW b, NEW c, NEW d
    PROVE  <<a, b>> \o <<c, d>> = <<a, b, c, d>>
<1> DEFINE S == {a, b, c, d}
           s == <<a, b>> \o <<c, d>>
<1>1. <<a, b>> \in Seq(S) /\ <<c, d>> \in Seq(S) /\ <<a, b, c, d>> \in Seq(S)
    OBVIOUS
<1>2. s \in Seq(S) /\ Len(s) = 4 /\ s[1] = a /\ s[2] = b /\ s[3] = c /\ s[4] = d
    BY <1>1, ConcatProperties
<1> HIDE DEF s, S
<1>3. \A i \in 1..Len(s) : s[i] = <<a, b, c, d>>[i]
    BY <1>2
<1> QED
    BY <1>1, <1>2, <1>3, SeqEqual DEF s

LEMMA JoinedFive ==
    ASSUME NEW a, NEW b, NEW c, NEW d, NEW e
    PROVE  <<a, b, c, d>> \o <<e>> = <<a, b, c, d, e>>
<1> DEFINE S == {a, b, c, d, e}
           s == <<a, b, c, d>> \o <<e>>
<1>1. <<a, b, c, d>> \in Seq(S) /\ <<e>> \in Seq(S) /\ <<a, b, c, d, e>> \in Seq(S)
    OBVIOUS
<1>2. s \in Seq(S) /\ Len(s) = 5 /\ s[1] = a /\ s[2] = b /\ s[3] = c /\ s[4] = d /\ s[5] = e
    BY <1>1, ConcatProperties
<1> HIDE DEF s, S
<1>3. \A i \in 1..Len(s) : s[i] = <<a, b, c, d, e>>[i]
    BY <1>2
<1> QED
    BY <1>1, <1>2, <1>3, SeqEqual DEF s

\* The operations on the inventory, step by step.
LEMMA Spelled ==
    /\ CreateInventory = <<"save", "branch", "all">>
    /\ AdjustStock = <<"save", "branch", "all">>
    /\ UpdateInventory = <<"save", "branch", "all">>
    /\ TransferStock = <<"branch", "all", "otherBranch", "all", "save">>
    /\ InventoryJob = <<"save">>
<1>1. <<"save">> \o InvalidateCaches("branch") = <<"save", "branch", "all">>
    BY JoinedThree DEF InvalidateCaches
<1>2. InvalidateCaches("branch") \o InvalidateCaches("otherBranch")
        = <<"branch", "all", "otherBranch", "all">>
    BY JoinedFour DEF InvalidateCaches
<1>3. <<"branch", "all", "otherBranch", "all">> \o <<"save">>
        = <<"branch", "all", "otherBranch", "all", "save">>
    BY JoinedFive
<1>4. TransferStock = <<"branch", "all", "otherBranch", "all", "save">>
    BY <1>2, <1>3 DEF TransferStock
<1> QED
    BY <1>1, <1>4 DEF CreateInventory, AdjustStock, UpdateInventory, InventoryJob

\* The lists an operation shows in.
LEMMA ShownSpelled ==
    /\ Shown(<<"tree", "flat", "save">>) = {"tree", "flat"}
    /\ Shown(<<"tree", "flat", "stats", "save">>) = CategoryLists
    /\ Shown(<<"save", "tree", "flat", "stats">>) = CategoryLists
    /\ Shown(<<"save", "branch", "all">>) = {"branch", "all"}
    /\ Shown(<<"branch", "all", "otherBranch", "all", "save">>) = InventoryLists
    /\ Shown(<<"save">>) = {}
    /\ Shown(<<>>) = {}
<1> DEFINE create == <<"tree", "flat", "save">>
           edit == <<"tree", "flat", "stats", "save">>
           drop == <<"save", "tree", "flat", "stats">>
           stock == <<"save", "branch", "all">>
           transfer == <<"branch", "all", "otherBranch", "all", "save">>
           nightly == <<"save">>
           none == <<>>
<1>1. /\ create \notin {edit, drop, stock, transfer, nightly, none}
      /\ edit \notin {drop, stock, transfer, nightly, none}
      /\ drop \notin {stock, transfer, nightly, none}
      /\ stock \notin {transfer, nightly, none}
      /\ transfer \notin {nightly, none} /\ nightly # none
    OBVIOUS
<1> HIDE DEF create, edit, drop, stock, transfer, nightly, none
<1>2. \A op : Shown(op) = CASE op = create -> {"tree", "flat"}
                            [] op \in {edit, drop, drop} -> CategoryLists
                            [] op \in {stock, stock, stock} -> {"branch", "all"}
                            [] op = transfer -> InventoryLists
                            [] OTHER -> {}
    BY Spelled DEF Shown, CreateCategory, UpdateCategory, RemoveCategory, RestoreCategory,
                   create, edit, drop, stock, transfer, nightly, none
<1> QED
    BY <1>1, <1>2 DEF create, edit, drop, stock, transfer, nightly, none

\* Every operation saves once, and deletes each list it shows in.
LEMMA OpsPlanned ==
    ASSUME NEW op \in CategoryOps \cup InventoryOps
    PROVE  /\ op \in Seq(Key \cup {"save"}) /\ op # <<>>
           /\ SavesOnce(op)
           /\ Shown(op) \subseteq Left(op)
<1> USE DEF CategoryLists, InventoryLists, Key, SavesOnce, Left
<1>1. CASE op = <<"tree", "flat", "save">>
    BY <1>1, ShownSpelled
<1>2. CASE op = <<"tree", "flat", "stats", "save">>
    BY <1>2, ShownSpelled
<1>3. CASE op = <<"save", "tree", "flat", "stats">>
    BY <1>3, ShownSpelled
<1>4. CASE op = <<"save", "branch", "all">>
    BY <1>4, ShownSpelled
<1>5. CASE op = <<"branch", "all", "otherBranch", "all", "save">>
    BY <1>5, ShownSpelled
<1>6. CASE op = <<"save">>
    BY <1>6, ShownSpelled
<1> QED
    BY <1>1, <1>2, <1>3, <1>4, <1>5, <1>6, Spelled
       DEF CategoryOps, InventoryOps, CreateCategory, UpdateCategory, RemoveCategory, RestoreCategory

\* An operation shows in the lists of its table, an abandoned one in none.
LEMMA ShownInItsTable ==
    ASSUME NEW op \in CategoryOps \cup InventoryOps \cup {<<>>}, NEW l \in Shown(op)
    PROVE  op # <<>> /\ TableOf(l) = TableOfOp(op)
<1>0. op # <<>>
    BY ShownSpelled
<1>1. CASE op \in CategoryOps
    <2>1. Shown(op) \subseteq CategoryLists
        BY <1>1, ShownSpelled
           DEF CategoryOps, CategoryLists, CreateCategory, UpdateCategory, RemoveCategory, RestoreCategory
    <2> QED
        BY <1>0, <1>1, <2>1 DEF TableOf, TableOfOp
<1>2. CASE op \in InventoryOps /\ op \notin CategoryOps
    <2>1. Shown(op) \subseteq InventoryLists
        BY <1>2, ShownSpelled, Spelled DEF InventoryOps, InventoryLists
    <2> QED
        BY <1>0, <1>2, <2>1 DEF TableOf, TableOfOp, CategoryLists, InventoryLists
<1> QED
    BY <1>0, <1>1, <1>2
-----------------------------------------------------------------------------
(* The steps                                                               *)

\* What the state is made of.
LEMMA StateTyped ==
    ASSUME TypeOK
    PROVE  /\ \A p \in Pod, l \in List : cache[p][l] \in Entry \cup {None}
           /\ \A r \in Reader : reader[r] # None =>
                 /\ reader[r] \in Reading /\ reader[r].pod \in ApiPod /\ reader[r].pod \in Pod
                 /\ reader[r].list \in List /\ reader[r].found \in Nat \cup {None}
           /\ \A w \in Writer : writer[w] # None =>
                 /\ writer[w] \in Writing /\ writer[w].pod \in Pod
                 /\ writer[w].op \in CategoryOps \cup InventoryOps \cup {<<>>}
                 /\ writer[w].steps \in Seq(Key \cup {"save"})
                 /\ writer[w].deleted \subseteq Key
           /\ \A l \in List : TableOf(l) \in Table
BY ListCachesAssumption DEF TypeOK, Reading, Writing, TableOf, Table

\* A writer with steps left takes the first.
LEMMA Stepping ==
    ASSUME TypeOK, NEW w \in Writer, Underway(w)
    PROVE  /\ writer[w] \in Writing
           /\ Next1(w) \in Key \cup {"save"}
           /\ Tail(writer[w].steps) \in Seq(Key \cup {"save"})
           /\ Left(Tail(writer[w].steps)) \subseteq Left(writer[w].steps)
           /\ Left(writer[w].steps) \subseteq {Next1(w)} \cup Left(Tail(writer[w].steps))
<1>1. /\ writer[w] \in Writing /\ writer[w].steps \in Seq(Key \cup {"save"})
      /\ writer[w].steps # <<>>
    BY StateTyped DEF Underway
<1> QED
    BY <1>1, LeftOfTail DEF Next1

\* The reading steps.
LEMMA ReaderSteps ==
    ASSUME TypeOK, NEW r \in Reader,
           Find(r) \/ CacheList(r) \/ \E p \in ApiPod, l \in List : Miss(r, p, l)
    PROVE  TypeOK' /\ FreshStays
<1>t. /\ cache \in [Pod -> [List -> Entry \cup {None}]]
      /\ reader \in [Reader -> Reading \cup {None}]
      /\ writes \in [Table -> Nat]
    BY DEF TypeOK
<1>1. CASE Find(r)
    <2> DEFINE f == writes[TableOf(reader[r].list)]
               d == [reader[r] EXCEPT !.found = f]
    <2>1. reader[r] # None /\ reader' = [reader EXCEPT ![r] = d]
          /\ UNCHANGED <<writes, cache, overtaken, writer, made>>
        BY <1>1 DEF Find
    <2>2. reader[r] \in Reading /\ f \in Nat
        BY <1>t, <2>1, StateTyped
    <2>3. d \in Reading /\ d.pod = reader[r].pod /\ d.list = reader[r].list /\ d.found = f
        BY <2>2 DEF Reading
    <2>4. TypeOK'
        <3> HIDE DEF d, f
        <3> QED
            BY <2>1, <2>3 DEF TypeOK
    <2>5. ASSUME NEW p \in Pod, NEW l \in List, NEW n \in Nat,
                 Fresh(p, l, n), n <= writes[TableOf(l)]
          PROVE  Fresh(p, l, n)'
        <3>1. reader'[r] = d /\ \A q \in Reader : q # r => reader'[q] = reader[q]
            BY <1>t, <2>1
        <3>2. d.list = l => d.found >= n
            BY <2>2, <2>3, <2>5
        <3> HIDE DEF d, f
        <3> QED
            BY <2>1, <2>5, <3>1, <3>2 DEF Fresh
    <2> QED
        BY <2>4, <2>5 DEF FreshStays
<1>2. CASE CacheList(r)
    <2> DEFINE p == reader[r].pod
               l == reader[r].list
               e == [content |-> reader[r].found, raced |-> r \in overtaken]
    <2>1. /\ reader[r] # None /\ reader[r].found # None
          /\ cache' = [cache EXCEPT ![p][l] = e]
          /\ reader' = [reader EXCEPT ![r] = None]
          /\ overtaken' = overtaken \ {r}
          /\ UNCHANGED <<writes, writer, made>>
        BY <1>2 DEF CacheList
    <2>2. p \in Pod /\ l \in List /\ reader[r].found \in Nat
        BY <2>1, StateTyped
    <2>3. e \in Entry
        BY <2>2 DEF Entry
    <2>4. cache' \in [Pod -> [List -> Entry \cup {None}]]
          /\ cache'[p][l] = e
          /\ \A q \in Pod, k \in List : q # p \/ k # l => cache'[q][k] = cache[q][k]
        <3> HIDE DEF p, l, e
        <3> QED
            BY <1>t, <2>1, <2>2, <2>3
    <2>5. TypeOK'
        BY <2>1, <2>4 DEF TypeOK
    <2>6. ASSUME NEW q \in Pod, NEW k \in List, NEW n \in Nat, Fresh(q, k, n)
          PROVE  Fresh(q, k, n)'
        <3>1. reader'[r] = None /\ \A x \in Reader : x # r => reader'[x] = reader[x]
            BY <1>t, <2>1
        <3>2. e.content = reader[r].found /\ e.raced = (r \in overtaken)
            OBVIOUS
        <3>3. q = p /\ k = l => e.raced \/ e.content >= n
            BY <2>1, <2>6, <3>2 DEF Fresh
        <3>4. cache'[q][k] = None \/ cache'[q][k].raced \/ cache'[q][k].content >= n
            <4> HIDE DEF e, p, l
            <4> QED
                BY <2>4, <2>6, <3>3 DEF Fresh
        <3>5. ASSUME NEW x \in Reader, reader'[x] # None, reader'[x].pod = q,
                     reader'[x].list = k, reader'[x].found # None
              PROVE  x \in overtaken' \/ reader'[x].found >= n
            BY <2>1, <2>6, <3>1, <3>5 DEF Fresh
        <3> QED
            BY <3>4, <3>5 DEF Fresh
    <2> QED
        BY <2>5, <2>6 DEF FreshStays
<1>3. ASSUME NEW p \in ApiPod, NEW l \in List, Miss(r, p, l)
      PROVE  TypeOK' /\ FreshStays
    <2> DEFINE d == [pod |-> p, list |-> l, found |-> None]
    <2>1. reader' = [reader EXCEPT ![r] = d] /\ UNCHANGED <<writes, cache, overtaken, writer, made>>
        BY <1>3 DEF Miss
    <2>2. d \in Reading /\ d.found = None
        BY DEF Reading
    <2> HIDE DEF d
    <2>3. TypeOK'
        BY <2>1, <2>2 DEF TypeOK
    <2>4. reader'[r] = d /\ \A x \in Reader : x # r => reader'[x] = reader[x]
        BY <1>t, <2>1
    <2> QED
        BY <2>1, <2>2, <2>3, <2>4 DEF Fresh, FreshStays
<1> QED
    BY <1>1, <1>2, <1>3

\* A writer that does not move keeps its plan and its lists.
LEMMA WriterWaits ==
    ASSUME IInv, FreshStays, NEW w \in Writer, writer'[w] = writer[w], made'[w] = made[w],
           writes' \in [Table -> Nat], \A t \in Table : writes[t] <= writes'[t]
    PROVE  PlanOf(w)' /\ ShownBy(w)'
<1>1. made[w] \in Nat /\ writes \in [Table -> Nat] /\ \A op : TableOfOp(op) \in Table
    BY DEF IInv, TypeOK, TableOfOp, Table
<1>2. PlanOf(w) /\ ShownBy(w)
    BY DEF IInv, WritersInv
<1>3. PlanOf(w)'
    BY <1>1, <1>2 DEF PlanOf, Planned
<1>4. ASSUME writer[w] # None, made[w] > 0, NEW l \in List \cap Shown(writer[w].op),
             l \notin Left(writer[w].steps)
      PROVE  Fresh(writer[w].pod, l, made[w])'
    <2>1. /\ writer[w].op \in CategoryOps \cup InventoryOps \cup {<<>>} /\ writer[w].pod \in Pod
        BY <1>4, StateTyped DEF IInv
    <2>2. writer[w].op # <<>> /\ TableOf(l) = TableOfOp(writer[w].op)
        BY <2>1, ShownInItsTable
    <2>3. made[w] <= writes[TableOf(l)]
        BY <1>2, <1>4, <2>2 DEF PlanOf, Planned
    <2>4. \A p \in Pod, n \in Nat : Fresh(p, l, n) /\ n <= writes[TableOf(l)] => Fresh(p, l, n)'
        BY DEF FreshStays
    <2>5. Fresh(writer[w].pod, l, made[w])
        BY <1>2, <1>4 DEF ShownBy
    <2> DEFINE p == writer[w].pod
               n == made[w]
    <2>6. p \in Pod /\ n \in Nat /\ Fresh(p, l, n) /\ n <= writes[TableOf(l)]
        BY <1>1, <2>1, <2>3, <2>5
    <2>7. /\ cache'[p][l] = None \/ cache'[p][l].raced \/ cache'[p][l].content >= n
          /\ \A r \in Reader :
                reader'[r] # None /\ reader'[r].pod = p /\ reader'[r].list = l /\ reader'[r].found # None =>
                    r \in overtaken' \/ reader'[r].found >= n
        <3> HIDE DEF p, n
        <3> QED
            BY <2>4, <2>6 DEF Fresh
    <2> QED
        BY <2>7 DEF Fresh
<1>5. ShownBy(w)'
    BY <1>4 DEF ShownBy
<1> QED
    BY <1>3, <1>5

\* Entries that disappear, and readers that stay.
LEMMA ExpireStep ==
    ASSUME TypeOK, NEW p \in ApiPod, NEW l \in List, Expire(p, l)
    PROVE  TypeOK' /\ FreshStays
<1>1. /\ cache' = [cache EXCEPT ![p][l] = None] /\ UNCHANGED <<writes, reader, overtaken, writer, made>>
    BY DEF Expire
<1>2. /\ cache' \in [Pod -> [List -> Entry \cup {None}]]
      /\ \A q \in Pod, k \in List : cache'[q][k] \in {cache[q][k], None}
    BY <1>1, ListCachesAssumption DEF TypeOK
<1>3. TypeOK'
    BY <1>1, <1>2 DEF TypeOK
<1>4. FreshStays
    BY <1>1, <1>2 DEF FreshStays, Fresh
<1> QED
    BY <1>3, <1>4

\* A new operation has all its deletions and its one save before it.
LEMMA BeginStep ==
    ASSUME IInv, NEW w \in Writer, Begin(w)
    PROVE  TypeOK' /\ FreshStays /\ PlanOf(w)' /\ ShownBy(w)'
<1>1. PICK p \in Pod, op \in CategoryOps \cup InventoryOps :
         writer' = [writer EXCEPT ![w] = [pod |-> p, op |-> op, steps |-> op, deleted |-> {}]]
    BY DEF Begin
<1> DEFINE d == [pod |-> p, op |-> op, steps |-> op, deleted |-> {}]
<1>2. /\ d \in Writing /\ d.op = op /\ d.steps = op
      /\ SavesOnce(op) /\ Shown(op) \subseteq Left(op)
    BY OpsPlanned DEF Writing
<1>3. /\ writer \in [Writer -> Writing \cup {None}] /\ made[w] = 0
      /\ writes \in [Table -> Nat] /\ TableOfOp(op) \in Table
      /\ UNCHANGED <<writes, cache, reader, overtaken, made>>
    BY DEF Begin, IInv, TypeOK, TableOfOp, Table
<1> HIDE DEF d
<1>4. writer' = [writer EXCEPT ![w] = d] /\ writer'[w] = d
    BY <1>1, <1>3 DEF d
<1>5. TypeOK'
    BY <1>2, <1>3, <1>4 DEF IInv, TypeOK
<1>6. FreshStays
    BY <1>3 DEF FreshStays, Fresh
<1>7. PlanOf(w)' /\ ShownBy(w)'
    BY <1>2, <1>3, <1>4 DEF PlanOf, Planned, ShownBy
<1> QED
    BY <1>5, <1>6, <1>7

\* A deletion empties the list and overtakes the pod's readers of it.
LEMMA DeleteStep ==
    ASSUME IInv, NEW w \in Writer, Delete(w)
    PROVE  TypeOK' /\ FreshStays /\ PlanOf(w)' /\ ShownBy(w)'
<1> DEFINE p == writer[w].pod
           x == Next1(w)
           del == IF made[w] = 0 THEN writer[w].deleted \cup {x} ELSE writer[w].deleted
           d == [writer[w] EXCEPT !.steps = Tail(@), !.deleted = del]
<1>1. /\ Underway(w) /\ x # "save" /\ writer[w] # None
      /\ cache' = [cache EXCEPT ![p] = [k \in List |-> IF k = x THEN None ELSE cache[p][k]]]
      /\ overtaken' = overtaken \cup ReadersOf(p, {x})
      /\ writer' = [writer EXCEPT ![w] = d]
      /\ UNCHANGED <<writes, reader, made>>
    BY DEF Delete, IInv, TypeOK, Underway
<1>2. /\ cache \in [Pod -> [List -> Entry \cup {None}]]
      /\ writer \in [Writer -> Writing \cup {None}] /\ made[w] \in Nat
    BY DEF IInv, TypeOK
<1>3. /\ p \in Pod /\ x \in Key /\ writer[w] \in Writing
      /\ writer[w].op \in CategoryOps \cup InventoryOps \cup {<<>>}
      /\ writer[w].deleted \subseteq Key
    BY <1>1, Stepping, StateTyped DEF IInv
<1>4. /\ Tail(writer[w].steps) \in Seq(Key \cup {"save"})
      /\ Left(Tail(writer[w].steps)) \subseteq Left(writer[w].steps)
      /\ Left(writer[w].steps) \subseteq {x} \cup Left(Tail(writer[w].steps))
    BY <1>1, Stepping DEF IInv
<1>5. /\ d \in Writing /\ d.pod = p /\ d.op = writer[w].op
      /\ d.steps = Tail(writer[w].steps) /\ d.deleted = del
    BY <1>3, <1>4 DEF Writing
<1>6. PlanOf(w) /\ ShownBy(w)
    BY DEF IInv, WritersInv
<1>7. SavesOnce(d.steps)
    BY <1>1, <1>5, <1>6, StateTyped, SavesOnceTail DEF PlanOf, Planned, Underway, IInv
<1>8. \A q \in Pod, k \in List :
         cache'[q][k] = IF q = p /\ k = x THEN None ELSE cache[q][k]
    <2> HIDE DEF p, x
    <2> QED
        BY <1>1, <1>2, <1>3
<1>9. TypeOK'
    <2>1. cache' \in [Pod -> [List -> Entry \cup {None}]]
        <3> HIDE DEF p, x
        <3> QED
            BY <1>1, <1>2, <1>3
    <2>2. overtaken' \subseteq Reader
        BY <1>1 DEF IInv, TypeOK, ReadersOf
    <2>3. writer' \in [Writer -> Writing \cup {None}]
        <3> HIDE DEF d
        <3> QED
            BY <1>1, <1>2, <1>5
    <2> QED
        BY <1>1, <2>1, <2>2, <2>3 DEF IInv, TypeOK
<1>10. FreshStays
    <2> HIDE DEF p, x
    <2> QED
        BY <1>1, <1>8 DEF FreshStays, Fresh
<1>11. x \in List => \A n \in Nat :
          /\ cache'[p][x] = None
          /\ \A r \in Reader : reader'[r] # None /\ reader'[r].pod = p /\ reader'[r].list = x =>
                r \in overtaken'
    BY <1>1, <1>3, <1>8 DEF ReadersOf
<1>12. writer'[w] = d /\ made'[w] = made[w] /\ writes' = writes
    BY <1>1, <1>2
<1>13. d.op = writer[w].op /\ d.pod = writer[w].pod
    BY <1>5
<1> HIDE DEF d
<1>14. PlanOf(w)'
    <2>1. made[w] > 0 => "save" \notin Left(d.steps)
        BY <1>1, <1>4, <1>5, <1>6 DEF PlanOf, Planned
    <2>2. made[w] = 0 => Shown(d.op) \subseteq d.deleted \cup Left(d.steps)
        BY <1>1, <1>4, <1>5, <1>6 DEF PlanOf, Planned
    <2>3. d.op # <<>> => made[w] <= writes[TableOfOp(d.op)]
        BY <1>1, <1>5, <1>6 DEF PlanOf, Planned
    <2>4. writer'[w] = None => made'[w] = 0
        BY <1>5, <1>12, NoneAssumption
    <2> QED
        BY <1>7, <1>12, <2>1, <2>2, <2>3, <2>4 DEF PlanOf, Planned
<1>15. ASSUME made[w] > 0, NEW l \in List, l \in Shown(d.op), l \notin Left(d.steps)
       PROVE  /\ cache'[d.pod][l] = None \/ cache'[d.pod][l].raced \/ cache'[d.pod][l].content >= made[w]
              /\ \A r \in Reader :
                    reader'[r] # None /\ reader'[r].pod = d.pod /\ reader'[r].list = l /\ reader'[r].found # None =>
                      r \in overtaken' \/ reader'[r].found >= made[w]
    <2>1. CASE l = x
        BY <1>2, <1>11, <1>13, <2>1
    <2>2. CASE l # x
        <3>1. l \notin Left(writer[w].steps)
            BY <1>4, <1>5, <1>15, <2>2
        <3>2. Fresh(p, l, made[w])
            BY <1>1, <1>6, <1>13, <1>15, <3>1 DEF ShownBy
        <3>3. made[w] <= writes[TableOf(l)]
            BY <1>1, <1>3, <1>6, <1>13, <1>15, ShownInItsTable DEF PlanOf, Planned
        <3>4. cache'[p][l] = cache[p][l] /\ UNCHANGED reader /\ overtaken \subseteq overtaken'
            BY <1>1, <1>3, <1>8, <2>2
        <3> QED
            BY <1>13, <3>2, <3>4 DEF Fresh
    <2> QED
        BY <2>1, <2>2
<1>16. ShownBy(w)'
    BY <1>12, <1>15 DEF ShownBy, Fresh
<1> QED
    BY <1>9, <1>10, <1>14, <1>16

\* A save marks what was deleted before it and has been filled since, or is
\* being filled; the other lists are still to be deleted.
LEMMA SaveStep ==
    ASSUME IInv, NEW w \in Writer, Save(w)
    PROVE  /\ TypeOK' /\ FreshStays /\ PlanOf(w)' /\ ShownBy(w)'
           /\ \A t \in Table : writes[t] <= writes'[t]
<1> DEFINE p == writer[w].pod
           early == writer[w].deleted
           t == IF writer[w].op \in CategoryOps THEN "categories" ELSE "inventory"
           d == [writer[w] EXCEPT !.steps = Tail(@), !.deleted = {}]
           marked(l) == IF l \in early /\ cache[p][l] # None
                        THEN [cache[p][l] EXCEPT !.raced = TRUE] ELSE cache[p][l]
<1>1. /\ Underway(w) /\ Next1(w) = "save" /\ writer[w] # None
      /\ writes' = [writes EXCEPT ![t] = @ + 1]
      /\ made' = [made EXCEPT ![w] = writes[t] + 1]
      /\ cache' = [cache EXCEPT ![p] = [l \in List |-> marked(l)]]
      /\ overtaken' = overtaken \cup ReadersOf(p, early)
      /\ writer' = [writer EXCEPT ![w] = d]
      /\ UNCHANGED reader
    BY DEF Save, IInv, TypeOK, Underway
<1>2. /\ cache \in [Pod -> [List -> Entry \cup {None}]]
      /\ writer \in [Writer -> Writing \cup {None}]
      /\ made \in [Writer -> Nat] /\ writes \in [Table -> Nat]
    BY DEF IInv, TypeOK
<1>3. /\ p \in Pod /\ early \subseteq Key /\ writer[w] \in Writing /\ t \in Table
      /\ writer[w].op \in CategoryOps \cup InventoryOps \cup {<<>>}
      /\ t = TableOfOp(writer[w].op)
    BY <1>1, Stepping, StateTyped DEF IInv, Table, TableOfOp
<1>4. /\ Tail(writer[w].steps) \in Seq(Key \cup {"save"})
      /\ Left(writer[w].steps) \subseteq {"save"} \cup Left(Tail(writer[w].steps))
    BY <1>1, Stepping DEF IInv
<1>5. /\ d \in Writing /\ d.pod = p /\ d.op = writer[w].op
      /\ d.steps = Tail(writer[w].steps) /\ d.deleted = {}
    BY <1>3, <1>4 DEF Writing
<1>6. PlanOf(w) /\ ShownBy(w)
    BY DEF IInv, WritersInv
<1>7. SavesOnce(d.steps) /\ "save" \notin Left(d.steps)
    BY <1>1, <1>5, <1>6, StateTyped, SavesOnceTail DEF PlanOf, Planned, Underway, Next1, IInv
<1>8. ASSUME NEW l \in List
      PROVE  /\ marked(l) \in Entry \cup {None}
             /\ cache[p][l] = None => marked(l) = None
             /\ cache[p][l] # None /\ l \in early => marked(l).raced
             /\ cache[p][l] # None =>
                  (cache[p][l].raced => marked(l).raced) /\ marked(l).content = cache[p][l].content
    <2>1. cache[p][l] \in Entry \cup {None}
        BY <1>2, <1>3
    <2>2. cache[p][l] \in Entry =>
             LET e == [cache[p][l] EXCEPT !.raced = TRUE]
             IN  e \in Entry /\ e.raced /\ e.content = cache[p][l].content
        BY DEF Entry
    <2> QED
        BY <2>1, <2>2
<1>9. \A l \in List : cache'[p][l] = marked(l) /\ \A q \in Pod : q # p => cache'[q][l] = cache[q][l]
    <2> HIDE DEF p, marked
    <2> QED
        BY <1>1, <1>2, <1>3
<1> HIDE DEF marked
<1>10. TypeOK'
    <2>1. cache' \in [Pod -> [List -> Entry \cup {None}]]
        <3> HIDE DEF p
        <3> QED
            BY <1>1, <1>2, <1>3, <1>8
    <2>2. overtaken' \subseteq Reader
        BY <1>1 DEF IInv, TypeOK, ReadersOf
    <2>3. writer' \in [Writer -> Writing \cup {None}]
        <3> HIDE DEF d
        <3> QED
            BY <1>1, <1>2, <1>5
    <2>4. writes' \in [Table -> Nat] /\ made' \in [Writer -> Nat]
        <3> HIDE DEF t
        <3> QED
            BY <1>1, <1>2, <1>3
    <2> QED
        BY <1>1, <2>1, <2>2, <2>3, <2>4 DEF IInv, TypeOK
<1>11. FreshStays
    <2> SUFFICES ASSUME NEW q \in Pod, NEW l \in List, NEW n \in Nat, Fresh(q, l, n)
                 PROVE  Fresh(q, l, n)'
        BY DEF FreshStays
    <2>1. cache'[q][l] = None \/ cache'[q][l].raced \/ cache'[q][l].content >= n
        <3> HIDE DEF p, early
        <3>1. CASE q = p
            BY <1>8, <1>9, <3>1 DEF Fresh
        <3>2. CASE q # p
            BY <1>9, <3>2 DEF Fresh
        <3> QED
            BY <3>1, <3>2
    <2> QED
        BY <1>1, <2>1 DEF Fresh
<1>12. /\ writer'[w] = d /\ made'[w] = writes[t] + 1 /\ writes'[t] = writes[t] + 1
       /\ writes[t] \in Nat
       /\ \A u \in Table : writes[u] <= writes'[u]
    <2>1. writer'[w] = d
        BY <1>1, <1>2
    <2>2. made'[w] = writes[t] + 1 /\ writes[t] \in Nat
        <3> HIDE DEF t
        <3> QED
            BY <1>1, <1>2, <1>3
    <2>3. \A u \in Table : writes[u] \in Nat /\ writes'[u] = IF u = t THEN writes[t] + 1 ELSE writes[u]
        <3> HIDE DEF t
        <3> QED
            BY <1>1, <1>2, <1>3
    <2> QED
        BY <1>3, <2>1, <2>2, <2>3
<1>13. made[w] = 0
    <2>1. "save" \in Left(writer[w].steps)
        <3>1. /\ writer[w].steps \in Seq(Key \cup {"save"}) /\ writer[w].steps # <<>>
            BY <1>1, StateTyped DEF IInv, Underway
        <3>2. Len(writer[w].steps) \in Nat \ {0} /\ writer[w].steps[1] = "save"
            BY <1>1, <3>1 DEF Next1
        <3>3. 1 \in 1..Len(writer[w].steps)
            BY <3>2
        <3> QED
            BY <3>2, <3>3 DEF Left
    <2> QED
        BY <1>1, <1>2, <1>6, <2>1 DEF PlanOf, Planned
<1> DEFINE n == writes[t] + 1
<1>14. n \in Nat /\ n > 0 /\ made'[w] = n
    BY <1>12
<1>15. PlanOf(w)'
    <2>1. d.op # <<>> => n <= writes'[TableOfOp(d.op)]
        BY <1>3, <1>5, <1>12
    <2>2. writer'[w] # None
        BY <1>5, <1>12, NoneAssumption
    <2> HIDE DEF n, d
    <2> QED
        BY <1>7, <1>12, <1>14, <2>1, <2>2 DEF PlanOf, Planned
<1>16. ASSUME NEW l \in List, l \in Shown(d.op), l \notin Left(d.steps)
       PROVE  /\ cache'[p][l] = None \/ cache'[p][l].raced
              /\ \A r \in Reader :
                    reader'[r] # None /\ reader'[r].pod = p /\ reader'[r].list = l => r \in overtaken'
    <2>1. l # "save"
        BY ListCachesAssumption DEF CategoryLists, InventoryLists
    <2>2. l \in early
        BY <1>1, <1>4, <1>5, <1>6, <1>13, <1>16, <2>1 DEF PlanOf, Planned
    <2>3. cache'[p][l] = None \/ cache'[p][l].raced
        BY <1>8, <1>9, <2>2
    <2>4. ASSUME NEW r \in Reader, reader'[r] # None, reader'[r].pod = p, reader'[r].list = l
          PROVE  r \in overtaken'
        BY <1>1, <2>2, <2>4 DEF ReadersOf
    <2> QED
        BY <2>3, <2>4
<1>17. ShownBy(w)'
    <2> HIDE DEF n, d, early, p
    <2>1. \A l \in List \cap Shown(d.op) :
             l \in Left(d.steps) \/ (/\ cache'[d.pod][l] = None \/ cache'[d.pod][l].raced
                                    /\ \A r \in Reader :
                                          reader'[r] # None /\ reader'[r].pod = d.pod /\ reader'[r].list = l
                                            => r \in overtaken')
        BY <1>5, <1>16
    <2> QED
        BY <1>12, <2>1 DEF ShownBy, Fresh
<1> QED
    BY <1>10, <1>11, <1>12, <1>15, <1>17

\* A writer that gives up has nothing left to do and shows nothing.
LEMMA GivesUp ==
    ASSUME NEW v \in Writing
    PROVE  LET d == [v EXCEPT !.steps = <<>>, !.op = <<>>]
           IN  d \in Writing /\ d.op = <<>> /\ d.steps = <<>>
<1> DEFINE d == [v EXCEPT !.steps = <<>>, !.op = <<>>]
<1>1. <<>> \in Seq(Key \cup {"save"}) /\ <<>> \in CategoryOps \cup InventoryOps \cup {<<>>}
    <2>1. <<>> \in Seq(Key \cup {"save"})
        OBVIOUS
    <2>2. <<>> \in {<<>>}
        OBVIOUS
    <2> QED
        BY <2>1, <2>2
<1>2. d.pod = v.pod /\ d.deleted = v.deleted /\ d.op = <<>> /\ d.steps = <<>>
    BY DEF Writing
<1> QED
    BY <1>1, <1>2 DEF Writing

\* A failure ends the operation.
LEMMA FailsStep ==
    ASSUME IInv, NEW w \in Writer, Fails(w)
    PROVE  TypeOK' /\ FreshStays /\ PlanOf(w)' /\ ShownBy(w)'
<1> DEFINE d == [writer[w] EXCEPT !.steps = <<>>, !.op = <<>>]
<1>1. /\ Underway(w) /\ writer[w] # None
      /\ writer' = [writer EXCEPT ![w] = d]
      /\ UNCHANGED <<writes, cache, reader, overtaken, made>>
    BY DEF Fails, IInv, TypeOK, Underway
<1>2. writer \in [Writer -> Writing \cup {None}] /\ writer[w] \in Writing /\ made[w] \in Nat
    BY <1>1, StateTyped DEF IInv, TypeOK
<1>3. d \in Writing /\ d.op = <<>> /\ d.steps = <<>>
    BY <1>2, GivesUp
<1> HIDE DEF d
<1>4. writer'[w] = d
    BY <1>1, <1>2
<1>5. TypeOK'
    BY <1>1, <1>2, <1>3 DEF IInv, TypeOK
<1>6. FreshStays
    BY <1>1 DEF FreshStays, Fresh
<1>7. SavesOnce(<<>>) /\ "save" \notin Left(<<>>) /\ Shown(<<>>) = {}
    BY ShownSpelled DEF SavesOnce, Left
<1>8. writer'[w] # None
    BY <1>3, <1>4, NoneAssumption
<1>9. PlanOf(w)' /\ ShownBy(w)'
    BY <1>1, <1>3, <1>4, <1>7, <1>8 DEF PlanOf, Planned, ShownBy
<1> QED
    BY <1>5, <1>6, <1>9

\* A pod that dies takes its lists, its readers and its writers with it.
LEMMA RestartStep ==
    ASSUME IInv, NEW p \in Pod, Restart(p)
    PROVE  IInv'
<1> DEFINE gone(w) == Underway(w) /\ writer[w].pod = p
           d(w) == [writer[w] EXCEPT !.steps = <<>>, !.op = <<>>]
<1>1. /\ cache' = [cache EXCEPT ![p] = [l \in List |-> None]]
      /\ reader' = [r \in Reader |-> IF reader[r] # None /\ reader[r].pod = p THEN None ELSE reader[r]]
      /\ overtaken' = {r \in overtaken : reader[r].pod # p}
      /\ writer' = [w \in Writer |-> IF gone(w) THEN d(w) ELSE writer[w]]
      /\ UNCHANGED <<writes, made>>
    BY DEF Restart
<1>2. /\ cache \in [Pod -> [List -> Entry \cup {None}]]
      /\ writer \in [Writer -> Writing \cup {None}]
      /\ reader \in [Reader -> Reading \cup {None}]
      /\ made \in [Writer -> Nat] /\ writes \in [Table -> Nat]
    BY DEF IInv, TypeOK
<1>3. ASSUME NEW w \in Writer, gone(w)
      PROVE  /\ writer'[w] = d(w) /\ d(w) \in Writing /\ d(w).op = <<>> /\ d(w).steps = <<>>
             /\ d(w) # None
    <2>1. writer[w] \in Writing
        BY <1>2, <1>3 DEF Underway
    <2>2. d(w) \in Writing /\ d(w).op = <<>> /\ d(w).steps = <<>>
        BY <2>1, GivesUp
    <2> QED
        BY <1>1, <1>3, <2>2, NoneAssumption
<1>4. \A w \in Writer : ~gone(w) => writer'[w] = writer[w]
    BY <1>1
<1>5. TypeOK'
    <2>1. writer' \in [Writer -> Writing \cup {None}]
        <3>1. \A w \in Writer : writer'[w] \in Writing \cup {None}
            BY <1>2, <1>3, <1>4
        <3> HIDE DEF gone, d
        <3> QED
            BY <1>1, <3>1
    <2>2. reader' \in [Reader -> Reading \cup {None}] /\ overtaken' \subseteq Reader
        BY <1>1, <1>2 DEF IInv, TypeOK
    <2>3. cache' \in [Pod -> [List -> Entry \cup {None}]]
        BY <1>1, <1>2
    <2> QED
        BY <1>1, <2>1, <2>2, <2>3 DEF IInv, TypeOK
<1>6. FreshStays
    <2> SUFFICES ASSUME NEW q \in Pod, NEW l \in List, NEW n \in Nat, Fresh(q, l, n)
                 PROVE  Fresh(q, l, n)'
        BY DEF FreshStays
    <2>1. cache'[q][l] = cache[q][l] \/ cache'[q][l] = None
        BY <1>1, <1>2
    <2>2. ASSUME NEW r \in Reader, reader'[r] # None, reader'[r].pod = q,
                 reader'[r].list = l, reader'[r].found # None
          PROVE  r \in overtaken' \/ reader'[r].found >= n
        <3>1. reader'[r] = reader[r] /\ reader[r].pod # p
            BY <1>1, <2>2
        <3> QED
            BY <1>1, <2>2, <3>1 DEF Fresh
    <2> QED
        BY <2>1, <2>2 DEF Fresh
<1>7. ASSUME NEW w \in Writer, gone(w) PROVE PlanOf(w)' /\ ShownBy(w)'
    <2>1. SavesOnce(<<>>) /\ "save" \notin Left(<<>>) /\ Shown(<<>>) = {}
        BY ShownSpelled DEF SavesOnce, Left
    <2>2. /\ writer'[w] # None /\ writer'[w].op = <<>> /\ writer'[w].steps = <<>>
        BY <1>3, <1>7
    <2> HIDE DEF gone, d
    <2> QED
        BY <2>1, <2>2 DEF PlanOf, Planned, ShownBy
<1>8. ASSUME NEW w \in Writer, ~gone(w) PROVE PlanOf(w)' /\ ShownBy(w)'
    <2>1. /\ writer'[w] = writer[w] /\ made'[w] = made[w]
        <3>1. made' = made
            BY <1>1
        <3>2. writer'[w] = writer[w]
            <4> HIDE DEF gone, d
            <4> QED
                BY <1>4, <1>8
        <3> QED
            BY <3>1, <3>2
    <2>2. writes' \in [Table -> Nat] /\ \A t \in Table : writes[t] <= writes'[t]
        <3>1. writes' = writes /\ writes \in [Table -> Nat]
            BY <1>1, <1>2
        <3>2. \A t \in Table : writes[t] \in Nat
            BY <3>1
        <3> QED
            BY <3>1, <3>2
    <2> QED
        BY <1>6, <2>1, <2>2, WriterWaits
<1> QED
    BY <1>5, <1>7, <1>8 DEF IInv, WritersInv

LEMMA InitIInv == Init => IInv
BY DEF Init, IInv, TypeOK, WritersInv, PlanOf, ShownBy

LEMMA Invariance == Spec => []IInv
<1>1. IInv /\ [Next]_vars => IInv'
    <2> SUFFICES ASSUME IInv, [Next]_vars PROVE IInv'
        OBVIOUS
    <2>w. writes \in [Table -> Nat] /\ \A t \in Table : writes[t] <= writes[t]
        BY DEF IInv, TypeOK
    <2>1. ASSUME TypeOK', FreshStays, UNCHANGED <<writes, writer, made>> PROVE IInv'
        BY <2>1, <2>w, WriterWaits DEF IInv, WritersInv
    <2>2. ASSUME NEW r \in Reader,
                 Find(r) \/ CacheList(r) \/ \E p \in ApiPod, l \in List : Miss(r, p, l)
          PROVE  IInv'
        <3>1. TypeOK' /\ FreshStays
            BY <2>2, ReaderSteps DEF IInv
        <3>2. UNCHANGED <<writes, writer, made>>
            BY <2>2 DEF Find, CacheList, Miss
        <3> QED
            BY <2>1, <3>1, <3>2
    <2>3. ASSUME NEW p \in ApiPod, NEW l \in List, Expire(p, l) PROVE IInv'
        <3>1. TypeOK' /\ FreshStays
            BY <2>3, ExpireStep DEF IInv
        <3> QED
            BY <2>1, <2>3, <3>1 DEF Expire
    <2>4. ASSUME NEW w \in Writer, Begin(w) \/ WriterStep(w) PROVE IInv'
        <3>1. /\ TypeOK' /\ FreshStays /\ PlanOf(w)' /\ ShownBy(w)'
              /\ \A t \in Table : writes[t] <= writes'[t]
            <4>1. CASE Begin(w)
                BY <2>w, <4>1, BeginStep DEF Begin
            <4>2. CASE Delete(w)
                BY <2>w, <4>2, DeleteStep DEF Delete
            <4>3. CASE Save(w)
                BY <4>3, SaveStep
            <4>4. CASE Fails(w)
                BY <2>w, <4>4, FailsStep DEF Fails
            <4> QED
                BY <2>4, <4>1, <4>2, <4>3, <4>4 DEF WriterStep
        <3>2. \A v \in Writer : v # w => writer'[v] = writer[v] /\ made'[v] = made[v]
            BY <2>4 DEF Begin, WriterStep, Delete, Save, Fails, IInv, TypeOK
        <3>3. writes' \in [Table -> Nat]
            BY <3>1 DEF TypeOK
        <3>4. \A v \in Writer : v # w => PlanOf(v)' /\ ShownBy(v)'
            BY <3>1, <3>2, <3>3, WriterWaits
        <3> QED
            BY <3>1, <3>4 DEF IInv, WritersInv
    <2>5. ASSUME NEW p \in Pod, Restart(p) PROVE IInv'
        BY <2>5, RestartStep
    <2>6. CASE UNCHANGED vars
        <3>1. TypeOK'
            BY <2>6 DEF vars, IInv, TypeOK
        <3>2. FreshStays
            BY <2>6 DEF vars, FreshStays, Fresh
        <3> QED
            BY <2>1, <2>6, <3>1, <3>2 DEF vars
    <2> QED
        BY <2>2, <2>3, <2>4, <2>5, <2>6 DEF Next
<1> QED
    BY InitIInv, <1>1, PTL DEF Spec

(***************************************************************************)
(* Whatever readers, writers and restarts do, the state keeps its type.    *)
(***************************************************************************)
THEOREM TypeCorrect == Spec => []TypeOK
BY Invariance, PTL DEF IInv

(***************************************************************************)
(* For any number of pods, readers and writers: where an operation has     *)
(* ended, its pod lists its write, but for the raced entries.              *)
(***************************************************************************)
THEOREM WritesShow == Spec => []WritesShowUnlessRaced
<1>1. IInv => WritesShowUnlessRaced
    <2> SUFFICES ASSUME IInv, NEW w \in Writer, made[w] > 0, writer[w].steps = <<>>,
                        NEW l \in List \cap Shown(writer[w].op)
                 PROVE  LET e == cache[writer[w].pod][l]
                        IN  e = None \/ e.raced \/ e.content >= made[w]
        BY DEF WritesShowUnlessRaced
    <2>1. PlanOf(w) /\ ShownBy(w)
        BY DEF IInv, WritersInv
    <2>2. writer[w] # None
        BY <2>1 DEF PlanOf
    <2>3. Left(<<>>) = {}
        BY DEF Left
    <2>4. Fresh(writer[w].pod, l, made[w])
        BY <2>1, <2>2, <2>3 DEF ShownBy
    <2> QED
        BY <2>4 DEF Fresh
<1> QED
    BY <1>1, Invariance, PTL
=============================================================================

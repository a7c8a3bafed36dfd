---------------------------- MODULE CatalogueProofs ----------------------------
(***************************************************************************)
(* Theorems about Catalogue, for any rows, requests, names and prices: its *)
(* types, what an update may change, and what becomes of the images of a   *)
(* product.                                                                *)
(***************************************************************************)
EXTENDS Catalogue, TLAPS

\* What a request holds at each of its awaits.
HandlerInv ==
    \A r \in Request :
        /\ pc[r] = "new" => mem[r] = None
        /\ pc[r] \in InFlight => mem[r] \in Memory
        /\ pc[r] \in {"new", "insert"} => row[r] = None
        /\ pc[r] = "insert" => mem[r].id = r
        /\ pc[r] \in InFlight \ {"insert"} => row[mem[r].id] # None
        /\ pc[r] = "insert" => mem[r].op = "create"
        /\ pc[r] = "save" => mem[r].op = "update"
        /\ pc[r] \in {"softRemove", "deleteFiles", "deleteRows"} => mem[r].op = "remove"
        /\ pc[r] \in {"uploadFiles", "saveImages", "saveProduct"} => mem[r].op = "upload"

\* What an update is about to save differs from the row as it was asked to.
AsAsked(m) ==
    /\ ~row[m.id].removed
    /\ \A f \in {"name", "up", "cost"} \ m.asked :
          \/ Column(m.row, f) = Column(row[m.id], f)
          \/ f = "up" /\ m.cut

UpToDate == \A r \in Request \ stale : pc[r] = "save" => AsAsked(mem[r])

\* An image bears the name of the upload that saved it, and so does its file.
UploadsInv ==
    \A f \in Request :
        /\ image[f] # None =>
              /\ pc[f] \in {"saveProduct", "done", "failed"}
              /\ image[f].product \in {mem[f].id, None}
        /\ f \in stored => pc[f] \in {"saveImages", "saveProduct", "done", "failed"}
        /\ pc[f] \in {"saveImages", "saveProduct"} \/ (image[f] # None /\ ~image[f].removed)
              => f \in stored \cup overtaken

\* A removal loaded images of its own product whose uploads had ended, but for
\* those that are marked.
RemovalsInv ==
    \A q \in Request :
        mem[q] # None =>
            \A f \in mem[q].images :
                /\ pc[f] \in {"saveProduct", "done", "failed"}
                /\ pc[f] = "saveProduct" => f \in overtaken
                /\ mem[f].id = mem[q].id
                /\ pc[q] \in {"deleteFiles", "deleteRows"} =>
                      f \in overtaken \/ image[f] = None \/ image[f].removed
                /\ pc[q] \in {"deleteRows", "done"} /\ mem[q].op = "remove" => f \notin stored

IInv == TypeOK /\ HandlerInv /\ UpToDate /\ UploadsInv /\ RemovalsInv /\ ImagesKept
-----------------------------------------------------------------------------
\* The fields of a row.
LEMMA RowFields ==
    ASSUME NEW v \in Row
    PROVE  /\ v.kind \in Kind /\ v.name \in Name /\ v.up \in Id \cup {None}
           /\ v.cost \in Cost \cup {None} /\ v.removed \in BOOLEAN
BY DEF Row

\* An update assigns the columns that it was given.
LEMMA AssignedRow ==
    ASSUME NEW v \in Row, NEW n \in Name \cup {None}, NEW up \in Id \cup {None},
           NEW c \in Cost \cup {None}
    PROVE  /\ Assigned(v, n, up, c) \in Row
           /\ Assigned(v, n, up, c).removed = v.removed
           /\ \A f \in {"name", "up", "cost"} \ Given(n, up, c) :
                 Column(Assigned(v, n, up, c), f) = Column(v, f)
<1> DEFINE w == Named(v, n)
           a == Assigned(v, n, up, c)
<1>1. /\ w \in Row /\ w.removed = v.removed /\ w.up = v.up /\ w.cost = v.cost
      /\ n = None => w.name = v.name
    <2>1. /\ w.kind = v.kind /\ w.up = v.up /\ w.cost = v.cost /\ w.removed = v.removed
          /\ w.name = IF n = None THEN v.name ELSE n
        BY RowFields DEF Named, Row
    <2>2. w \in Row
        BY RowFields DEF Named, Row
    <2> QED
        BY <2>1, <2>2
<1> HIDE DEF w
<1>2. a = w \/ a = [w EXCEPT !.up = IF up = None THEN w.up ELSE up]
            \/ a = [w EXCEPT !.cost = IF c = None THEN w.cost ELSE c]
    BY RowFields, <1>1
       DEF Assigned, Kind, UpdateCategory, UpdateSupplier, UpdateBranch, UpdateEvent, UpdateProduct,
           UpdateVariant, w, Row
<1> HIDE DEF a
<1>3. /\ a \in Row /\ a.removed = w.removed /\ a.name = w.name
      /\ up = None => a.up = w.up
      /\ c = None => a.cost = w.cost
    <2>1. CASE a = w
        BY <1>1, <2>1
    <2>2. CASE a = [w EXCEPT !.up = IF up = None THEN w.up ELSE up]
        <3>1. a \in Row
            BY <1>1, <2>2, RowFields DEF Row
        <3> QED
            BY <1>1, <2>2, <3>1 DEF Row
    <2>3. CASE a = [w EXCEPT !.cost = IF c = None THEN w.cost ELSE c]
        <3>1. a \in Row
            BY <1>1, <2>3, RowFields DEF Row
        <3> QED
            BY <1>1, <2>3, <3>1 DEF Row
    <2> QED
        BY <1>2, <2>1, <2>2, <2>3
<1>4. \A f \in {"name", "up", "cost"} \ Given(n, up, c) : Column(a, f) = Column(v, f)
    BY <1>1, <1>3 DEF Given, Column
<1> QED
    BY <1>1, <1>3, <1>4 DEF a

\* A join loses the reference to a removed row, and nothing else.
LEMMA LoadedRow ==
    ASSUME NEW i \in Id, row[i] \in Row
    PROVE  /\ Loaded(i) \in Row /\ Loaded(i).removed = row[i].removed
           /\ Loaded(i).name = row[i].name /\ Loaded(i).cost = row[i].cost
           /\ Loaded(i).up = row[i].up \/ Loaded(i).up = None
<1>1. Loaded(i) = [row[i] EXCEPT !.up = IF row[i].up # None /\ Found(row[i].up) THEN row[i].up ELSE None]
    BY DEF Loaded, Row
<1>2. Loaded(i) \in Row
    BY <1>1, RowFields DEF Row
<1> QED
    BY <1>1, <1>2 DEF Row

\* A request that starts keeps what it found, and knows what it is to do.
Starting(r) == Create(r) \/ Update(r) \/ Remove(r) \/ Upload(r)

Started(r, l, m) ==
    /\ UNCHANGED <<row, image, stored, stale>>
    /\ pc[r] = "new" /\ pc' = [pc EXCEPT ![r] = l]
    /\ m \in Memory /\ mem' = [mem EXCEPT ![r] = m]
    /\ overtaken' = overtaken \cup {f \in m.images : pc[f] = "saveProduct"}
    /\ \A f \in m.images : image[f] # None /\ image[f].product = m.id
    /\ m.images # {} => l = "softRemove"
    /\ \/ l = "rejected"
       \/ l = "insert" /\ m.op = "create" /\ m.id = r
       \/ /\ row[m.id] # None
          /\ \/ l = "save" /\ m.op = "update" /\ AsAsked(m)
             \/ l = "softRemove" /\ m.op = "remove"
             \/ l = "uploadFiles" /\ m.op = "upload"

LEMMA StartingSteps ==
    ASSUME IInv, NEW r \in Request, Starting(r)
    PROVE  \E l \in {"rejected", "insert", "save", "softRemove", "uploadFiles"} :
               \E m \in Memory : Started(r, l, m)
<1> USE DEF Goto
<1>t. TypeOK
    BY DEF IInv
<1>d. /\ \A i \in Id : row[i] # None => row[i] \in Row
      /\ r \in Id /\ None \notin Row
    BY <1>t, CatalogueAssumption DEF TypeOK, Id
<1>1. CASE Create(r)
    <2>1. PICK k \in Kind, n \in Name, c \in Cost :
        \E up \in IF k \in DOMAIN UpKind THEN {i \in Id : row[i] # None /\ row[i].kind = UpKind[k]}
                                                \cup IF k = "category" THEN {None} ELSE {}
                  ELSE {None} :
            /\ Keep(r, "create", r,
                    [kind |-> k, name |-> n, up |-> up, removed |-> FALSE,
                     cost |-> IF k = "variant" THEN c ELSE None], {}, FALSE, {})
            /\ Goto(r, IF MayCreate(k, n, up) THEN "insert" ELSE "rejected")
        BY <1>1 DEF Create
    <2>2. PICK up \in Id \cup {None} :
            /\ Keep(r, "create", r,
                    [kind |-> k, name |-> n, up |-> up, removed |-> FALSE,
                     cost |-> IF k = "variant" THEN c ELSE None], {}, FALSE, {})
            /\ Goto(r, IF MayCreate(k, n, up) THEN "insert" ELSE "rejected")
        BY <2>1
    <2> DEFINE v == [kind |-> k, name |-> n, up |-> up, removed |-> FALSE,
                     cost |-> IF k = "variant" THEN c ELSE None]
               m == [op |-> "create", id |-> r, row |-> v, asked |-> {}, cut |-> FALSE, images |-> {}]
               l == IF MayCreate(k, n, up) THEN "insert" ELSE "rejected"
    <2>3. v \in Row
        BY DEF Row
    <2>4. mem' = [mem EXCEPT ![r] = m] /\ pc' = [pc EXCEPT ![r] = l]
        BY <2>2 DEF Keep
    <2> HIDE DEF v
    <2>5. m \in Memory /\ m.images = {} /\ m.op = "create" /\ m.id = r
        BY <1>d, <2>3 DEF Memory, Op
    <2>6. l \in {"insert", "rejected"}
        OBVIOUS
    <2> HIDE DEF m, l
    <2>7. Started(r, l, m)
        BY <1>1, <2>4, <2>5, <2>6 DEF Create, Started
    <2> QED
        BY <2>5, <2>6, <2>7
<1>2. CASE Update(r)
    <2>1. PICK i \in Id, n \in Name \cup {None}, c \in Cost \cup {None}, up \in Id \cup {None} :
        /\ Found(i)
        /\ Keep(r, "update", i, Assigned(Loaded(i), n, up, c), Given(n, up, c),
                Loaded(i).up # row[i].up, {})
        /\ Goto(r, IF NameAllowed(i, n) /\ ParentAllowed(i, up) THEN "save" ELSE "rejected")
        BY <1>2 DEF Update
    <2> DEFINE v == Assigned(Loaded(i), n, up, c)
               cut == Loaded(i).up # row[i].up
               m == [op |-> "update", id |-> i, row |-> v, asked |-> Given(n, up, c), cut |-> cut,
                     images |-> {}]
               l == IF NameAllowed(i, n) /\ ParentAllowed(i, up) THEN "save" ELSE "rejected"
    <2>2. row[i] \in Row /\ ~row[i].removed /\ row[i] # None
        BY <1>d, <2>1 DEF Found
    <2>3. /\ Loaded(i) \in Row /\ Loaded(i).removed = row[i].removed
          /\ Loaded(i).name = row[i].name /\ Loaded(i).cost = row[i].cost
        BY <2>2, LoadedRow
    <2>4. /\ v \in Row /\ v.removed = Loaded(i).removed
          /\ \A f \in {"name", "up", "cost"} \ Given(n, up, c) : Column(v, f) = Column(Loaded(i), f)
        BY <2>3, AssignedRow
    <2>5. mem' = [mem EXCEPT ![r] = m] /\ pc' = [pc EXCEPT ![r] = l]
        BY <2>1 DEF Keep
    <2> HIDE DEF v
    <2>6. \A f \in {"name", "up", "cost"} \ Given(n, up, c) :
              \/ Column(v, f) = Column(row[i], f)
              \/ f = "up" /\ cut
        BY <2>3, <2>4 DEF Column
    <2> HIDE DEF cut
    <2>7. cut \in BOOLEAN /\ Given(n, up, c) \in SUBSET {"name", "up", "cost"}
        BY DEF cut, Given
    <2>8. /\ m \in Memory /\ m.images = {} /\ m.op = "update" /\ m.id = i
          /\ m.row = v /\ m.asked = Given(n, up, c) /\ m.cut = cut
        BY <2>4, <2>7 DEF Memory, Op
    <2>9. l \in {"save", "rejected"}
        OBVIOUS
    <2> HIDE DEF m, l
    <2>10. AsAsked(m)
        BY <2>2, <2>6, <2>8 DEF AsAsked
    <2>11. Started(r, l, m)
        BY <1>2, <2>2, <2>5, <2>8, <2>9, <2>10 DEF Update, Started
    <2> QED
        BY <2>8, <2>9, <2>11
<1>3. CASE Remove(r)
    <2>1. PICK i \in Id :
            /\ Found(i)
            /\ Keep(r, "remove", i, row[i], {}, FALSE, {f \in Request : Shown(f, i)})
            /\ overtaken' = overtaken \cup {f \in {g \in Request : Shown(g, i)} : pc[f] = "saveProduct"}
        BY <1>3 DEF Remove
    <2> DEFINE images == {f \in Request : Shown(f, i)}
               m == [op |-> "remove", id |-> i, row |-> row[i], asked |-> {}, cut |-> FALSE,
                     images |-> images]
    <2>2. row[i] \in Row /\ row[i] # None
        BY <1>d, <2>1 DEF Found
    <2>3. mem' = [mem EXCEPT ![r] = m]
        BY <2>1 DEF Keep
    <2>4. images \in SUBSET Request /\ \A f \in images : image[f] # None /\ image[f].product = i
        BY DEF Shown
    <2>5. overtaken' = overtaken \cup {f \in images : pc[f] = "saveProduct"}
        BY <2>1
    <2> HIDE DEF images
    <2>6. m \in Memory /\ m.op = "remove" /\ m.id = i /\ m.images = images
        BY <2>2, <2>4 DEF Memory, Op
    <2> HIDE DEF m
    <2>7. Started(r, "softRemove", m)
        BY <1>3, <2>2, <2>3, <2>4, <2>5, <2>6 DEF Remove, Started
    <2> QED
        BY <2>6, <2>7
<1>4. CASE Upload(r)
    <2>1. PICK i \in OfKind("product") : Keep(r, "upload", i, row[i], {}, FALSE, {})
        BY <1>4 DEF Upload
    <2> DEFINE m == [op |-> "upload", id |-> i, row |-> row[i], asked |-> {}, cut |-> FALSE, images |-> {}]
    <2>2. i \in Id /\ row[i] \in Row /\ row[i] # None
        BY <1>d, <2>1 DEF OfKind, Found
    <2>3. mem' = [mem EXCEPT ![r] = m]
        BY <2>1 DEF Keep
    <2>4. m \in Memory /\ m.op = "upload" /\ m.id = i /\ m.images = {}
        BY <2>2 DEF Memory, Op
    <2> HIDE DEF m
    <2>5. Started(r, "uploadFiles", m)
        BY <1>4, <2>2, <2>3, <2>4 DEF Upload, Started
    <2> QED
        BY <2>4, <2>5
<1> QED
    BY <1>1, <1>2, <1>3, <1>4 DEF Starting
-----------------------------------------------------------------------------
(* What a step does to the rows: at most one of them is inserted, or written *)
(* over, which marks every other request that holds it.                      *)
Written ==
    \/ UNCHANGED <<row, stale>>
    \/ \E r \in Request, v \in Row :
          /\ pc[r] = "insert" /\ pc' = [pc EXCEPT ![r] = "done"]
          /\ row' = [row EXCEPT ![r] = v] /\ UNCHANGED <<stale, mem>>
    \/ \E i \in Id, v \in Row :
          /\ row[i] # None /\ row' = [row EXCEPT ![i] = v] /\ UNCHANGED mem
          /\ stale \subseteq stale' /\ stale' \subseteq Request
          /\ \A q \in Request : pc'[q] = "save" => pc[q] = "save"
          /\ \A q \in Readers(i) : pc'[q] = "save" => q \in stale'

\* A row that is uploaded to, or whose price changes.
LEMMA RowChanged ==
    ASSUME NEW v \in Row
    PROVE  /\ \A n \in Name, b \in BOOLEAN : [v EXCEPT !.name = n, !.removed = b] \in Row
           /\ \A c \in Cost : [v EXCEPT !.cost = c] \in Row
<1>1. ASSUME NEW n \in Name, NEW b \in BOOLEAN
      PROVE  [v EXCEPT !.name = n, !.removed = b] \in Row
    BY RowFields DEF Row
<1>2. ASSUME NEW c \in Cost
      PROVE  [v EXCEPT !.cost = c] \in Row
    BY RowFields DEF Row
<1> QED
    BY <1>1, <1>2

LEMMA RowSteps == ASSUME IInv, [Next]_vars PROVE Written
<1> USE DEF Goto
<1>t. TypeOK /\ HandlerInv
    BY DEF IInv
<1>d. /\ row \in [Id -> Row \cup {None}] /\ pc \in [Request -> {"new"} \cup InFlight \cup Ended]
      /\ stale \subseteq Request /\ Request \subseteq Id
    BY <1>t DEF TypeOK, Id
<1>m. \A r \in Request : pc[r] \in InFlight =>
          mem[r] \in Memory /\ mem[r].id \in Id /\ mem[r].row \in Row
    BY <1>t DEF HandlerInv, Memory
<1>n. \A r \in Request : pc[r] \in InFlight \ {"insert"} =>
          row[mem[r].id] # None /\ row[mem[r].id] \in Row
    BY <1>t, <1>m DEF HandlerInv, TypeOK
<1>1. ASSUME NEW r \in Request, Starting(r) PROVE Written
    BY <1>1, StartingSteps DEF Started, Written
<1>2. ASSUME NEW r \in Request, Insert(r) PROVE Written
    BY <1>2, <1>m DEF Insert, Written, InFlight
<1>3. ASSUME NEW r \in Request, Save(r) PROVE Written
    <2>1. /\ row' = [row EXCEPT ![mem[r].id] = mem[r].row] /\ mem[r].id \in Id /\ mem[r].row \in Row
          /\ row[mem[r].id] # None /\ mem' = mem
          /\ stale' = stale \cup (Readers(mem[r].id) \ {r})
          /\ pc'[r] # "save" /\ \A q \in Request \ {r} : pc'[q] = pc[q]
        BY <1>3, <1>d, <1>m, <1>n DEF Save, InFlight
    <2> QED
        BY <1>d, <2>1 DEF Written, Readers
<1>4. ASSUME NEW r \in Request, SoftRemove(r) PROVE Written
    <2> DEFINE v == [row[mem[r].id] EXCEPT !.removed = TRUE]
    <2>1. /\ mem[r].id \in Id /\ row[mem[r].id] # None /\ row[mem[r].id] \in Row /\ mem' = mem
          /\ stale' = stale \cup (Readers(mem[r].id) \ {r})
          /\ pc'[r] # "save" /\ \A q \in Request \ {r} : pc'[q] = pc[q]
        BY <1>4, <1>d, <1>m, <1>n DEF SoftRemove, InFlight
    <2>2. row' = [row EXCEPT ![mem[r].id] = v]
        BY <1>4, <1>d, <2>1 DEF SoftRemove
    <2>3. v \in Row
        BY <2>1, RowFields DEF Row
    <2> HIDE DEF v
    <2> QED
        BY <1>d, <2>1, <2>2, <2>3 DEF Written, Readers
<1>5. ASSUME NEW r \in Request, Restore(r) PROVE Written
    <2>1. PICK i \in Id :
              /\ row[i] # None
              /\ row' = [row EXCEPT ![i].removed = FALSE]
              /\ stale' = stale \cup Readers(i)
        BY <1>5 DEF Restore
    <2> DEFINE v == [row[i] EXCEPT !.removed = FALSE]
    <2>2. row' = [row EXCEPT ![i] = v]
        BY <1>d, <2>1
    <2>3. v \in Row
        BY <1>d, <2>1, RowFields DEF Row
    <2>4. mem' = mem /\ pc'[r] # "save" /\ \A q \in Request \ {r} : pc'[q] = pc[q]
        BY <1>5, <1>d DEF Restore
    <2> HIDE DEF v
    <2> QED
        BY <1>d, <2>1, <2>2, <2>3, <2>4 DEF Written, Readers
<1>6. ASSUME NEW r \in Request, SaveProduct(r) PROVE Written
    <2> DEFINE n == mem[r].row.name
               v == [row[mem[r].id] EXCEPT !.name = n, !.removed = FALSE]
    <2>1. /\ mem[r].id \in Id /\ row[mem[r].id] # None /\ row[mem[r].id] \in Row /\ mem' = mem
          /\ stale' = stale \cup (Readers(mem[r].id) \ {r}) /\ mem[r].row \in Row
          /\ pc'[r] # "save" /\ \A q \in Request \ {r} : pc'[q] = pc[q]
        BY <1>6, <1>d, <1>m, <1>n DEF SaveProduct, InFlight
    <2>2. row' = [row EXCEPT ![mem[r].id] = v]
        BY <1>6, <1>d, <2>1 DEF SaveProduct
    <2>3. n \in Name
        BY <2>1, RowFields
    <2> HIDE DEF n
    <2>4. v \in Row
        BY <2>1, <2>3, RowChanged
    <2> HIDE DEF v
    <2> QED
        BY <1>d, <2>1, <2>2, <2>4 DEF Written, Readers
<1>7. ASSUME NEW i \in Id, NEW c \in Cost, UpdateCostPrice(i, c) PROVE Written
    <2> DEFINE v == [row[i] EXCEPT !.cost = c]
    <2>1. /\ row[i] # None /\ row[i] \in Row /\ mem' = mem /\ pc' = pc
          /\ stale' = stale \cup Readers(i) /\ row' = [row EXCEPT ![i].cost = c]
        BY <1>7, <1>d DEF UpdateCostPrice
    <2>2. row' = [row EXCEPT ![i] = v] /\ v \in Row
        BY <1>d, <2>1, RowChanged
    <2> HIDE DEF v
    <2> QED
        BY <1>d, <2>1, <2>2 DEF Written, Readers
<1>8. ASSUME NEW r \in Request,
             DeleteFiles(r) \/ DeleteRows(r) \/ UploadFiles(r) \/ SaveImages(r) \/ Refused(r) \/ Fail(r)
      PROVE  Written
    BY <1>8 DEF DeleteFiles, DeleteRows, UploadFiles, SaveImages, Refused, Fail, Written
<1>9. CASE UNCHANGED vars
    BY <1>9 DEF vars, Written
<1> QED
    BY <1>1, <1>2, <1>3, <1>4, <1>5, <1>6, <1>7, <1>8, <1>9 DEF Next, Starting

\* What is written to a table or kept in memory is a row, an image or a request.
LEMMA TypeStep == IInv /\ [Next]_vars => TypeOK'
<1> SUFFICES ASSUME IInv, [Next]_vars PROVE TypeOK'
    OBVIOUS
<1> USE DEF Goto
<1>t. TypeOK /\ HandlerInv
    BY DEF IInv
<1>d. /\ row \in [Id -> Row \cup {None}] /\ pc \in [Request -> {"new"} \cup InFlight \cup Ended]
      /\ stale \subseteq Request /\ Request \subseteq Id /\ stored \subseteq Request
      /\ overtaken \subseteq Request /\ image \in [Request -> Image \cup {None}]
      /\ mem \in [Request -> Memory \cup {None}]
    BY <1>t DEF TypeOK, Id
<1>1. row' \in [Id -> Row \cup {None}] /\ stale' \subseteq Request
    BY <1>d, RowSteps DEF Written
<1>2. ASSUME NEW r \in Request, Starting(r)
      PROVE  TypeOK'
    <2>1. PICK l \in {"rejected", "insert", "save", "softRemove", "uploadFiles"}, m \in Memory :
              Started(r, l, m)
        BY <1>2, StartingSteps
    <2>2. m.images \subseteq Request
        BY DEF Memory
    <2>3. pc' \in [Request -> {"new"} \cup InFlight \cup Ended] /\ mem' \in [Request -> Memory \cup {None}]
        BY <1>d, <2>1 DEF Started, InFlight, Ended
    <2> QED
        BY <1>1, <1>d, <2>1, <2>2, <2>3 DEF Started, TypeOK
<1>3. ASSUME UNCHANGED <<mem, overtaken>>,
             image' \in [Request -> Image \cup {None}], stored' \subseteq Request,
             \/ pc' = pc
             \/ \E r \in Request, l \in InFlight \cup Ended : pc' = [pc EXCEPT ![r] = l]
      PROVE  TypeOK'
    <2>1. pc' \in [Request -> {"new"} \cup InFlight \cup Ended]
        BY <1>d, <1>3
    <2> QED
        BY <1>1, <1>3, <1>d, <2>1 DEF TypeOK
<1>4. \A m \in Image : [m EXCEPT !.removed = TRUE] \in Image /\ [m EXCEPT !.product = None] \in Image
    BY DEF Image
<1>5. ASSUME NEW r \in Request, SoftRemove(r) PROVE TypeOK'
    <2>1. image' \in [Request -> Image \cup {None}]
        BY <1>4, <1>5, <1>d DEF SoftRemove
    <2> QED
        BY <1>3, <1>5, <1>d, <2>1 DEF SoftRemove, InFlight, Ended
<1>6. ASSUME NEW r \in Request, SaveProduct(r) \/ SaveImages(r) PROVE TypeOK'
    <2>1. mem[r].id \in Id
        BY <1>6, <1>t DEF SaveProduct, SaveImages, HandlerInv, InFlight, Memory
    <2>2. [product |-> mem[r].id, removed |-> FALSE] \in Image
        BY <2>1 DEF Image
    <2>3. image' \in [Request -> Image \cup {None}]
        <3>1. CASE SaveImages(r)
            BY <1>d, <2>2, <3>1 DEF SaveImages
        <3>2. CASE SaveProduct(r)
            BY <1>4, <1>d, <2>2, <3>2 DEF SaveProduct
        <3> QED
            BY <1>6, <3>1, <3>2
    <2> QED
        BY <1>3, <1>6, <1>d, <2>3 DEF SaveProduct, SaveImages, InFlight, Ended
<1>7. ASSUME NEW r \in Request, DeleteRows(r) PROVE TypeOK'
    BY <1>3, <1>7, <1>d DEF DeleteRows, InFlight, Ended
<1>8. ASSUME NEW r \in Request,
             \/ Insert(r) \/ Save(r) \/ DeleteFiles(r) \/ Restore(r) \/ UploadFiles(r)
             \/ Refused(r) \/ Fail(r)
      PROVE  TypeOK'
    BY <1>3, <1>8, <1>d
       DEF Insert, Save, DeleteFiles, Restore, UploadFiles, Refused, Fail, InFlight, Ended
<1>9. ASSUME NEW i \in Id, NEW c \in Cost, UpdateCostPrice(i, c) PROVE TypeOK'
    BY <1>3, <1>9, <1>d DEF UpdateCostPrice
<1>10. CASE UNCHANGED vars
    BY <1>10, <1>t DEF vars, TypeOK
<1> QED
    BY <1>2, <1>5, <1>6, <1>7, <1>8, <1>9, <1>10 DEF Next, Starting

\* Each request goes on to its next await with the row it holds.
LEMMA HandlerStep == IInv /\ [Next]_vars => HandlerInv'
<1> SUFFICES ASSUME IInv, [Next]_vars PROVE HandlerInv'
    OBVIOUS
<1> USE DEF Goto
<1>t. TypeOK /\ HandlerInv
    BY DEF IInv
<1>d. /\ row \in [Id -> Row \cup {None}] /\ pc \in [Request -> {"new"} \cup InFlight \cup Ended]
      /\ Request \subseteq Id /\ mem \in [Request -> Memory \cup {None}] /\ None \notin Row
    BY <1>t, CatalogueAssumption DEF TypeOK, Id
<1>m. \A r \in Request : mem[r] \in Memory => mem[r].id \in Id
    BY DEF Memory
<1>1. \A i \in Id : row[i] # None => row'[i] # None
    BY <1>d, RowSteps DEF Written
<1>2. \A r \in Request : row[r] = None /\ pc'[r] \in {"new", "insert"} => row'[r] = None
    BY <1>d, RowSteps DEF Written
<1>3. ASSUME NEW r \in Request, Starting(r) PROVE HandlerInv'
    <2>1. PICK l \in {"rejected", "insert", "save", "softRemove", "uploadFiles"}, m \in Memory :
              Started(r, l, m)
        BY <1>3, StartingSteps
    <2>2. /\ pc'[r] = l /\ mem'[r] = m /\ pc[r] = "new" /\ row' = row
          /\ \A q \in Request \ {r} : pc'[q] = pc[q] /\ mem'[q] = mem[q]
        BY <1>d, <2>1 DEF Started
    <2> QED
        BY <1>t, <2>1, <2>2 DEF HandlerInv, Started, InFlight
<1>4. ASSUME NEW r \in Request, NEW l \in InFlight \cup Ended,
             UNCHANGED mem, pc' = [pc EXCEPT ![r] = l],
             \/ l \in Ended
             \/ pc[r] = "softRemove" /\ l = "deleteFiles"
             \/ pc[r] = "deleteFiles" /\ l = "deleteRows"
             \/ pc[r] = "uploadFiles" /\ l = "saveImages"
             \/ pc[r] = "saveImages" /\ l = "saveProduct"
      PROVE  HandlerInv'
    <2>1. pc'[r] = l /\ \A q \in Request \ {r} : pc'[q] = pc[q]
        BY <1>d, <1>4
    <2>2. ASSUME NEW q \in Request, q # r
          PROVE  /\ pc'[q] = "new" => mem'[q] = None
                 /\ pc'[q] \in InFlight => mem'[q] \in Memory
                 /\ pc'[q] \in {"new", "insert"} => row'[q] = None
                 /\ pc'[q] = "insert" => mem'[q].id = q
                 /\ pc'[q] \in InFlight \ {"insert"} => row'[mem'[q].id] # None
                 /\ pc'[q] = "insert" => mem'[q].op = "create"
                 /\ pc'[q] = "save" => mem'[q].op = "update"
                 /\ pc'[q] \in {"softRemove", "deleteFiles", "deleteRows"} => mem'[q].op = "remove"
                 /\ pc'[q] \in {"uploadFiles", "saveImages", "saveProduct"} => mem'[q].op = "upload"
        BY <1>1, <1>2, <1>4, <1>m, <1>t, <2>1, <2>2 DEF HandlerInv
    <2>3. CASE l \in Ended
        BY <2>1, <2>2, <2>3 DEF HandlerInv, Ended, InFlight
    <2>4. CASE l \in InFlight
        BY <1>1, <1>4, <1>m, <1>t, <2>1, <2>2, <2>4 DEF HandlerInv, Ended, InFlight
    <2> QED
        BY <2>3, <2>4
<1>5. ASSUME UNCHANGED <<pc, mem>> PROVE HandlerInv'
    BY <1>1, <1>2, <1>5, <1>m, <1>t DEF HandlerInv
<1>6. ASSUME NEW r \in Request,
             \/ Insert(r) \/ Save(r) \/ SoftRemove(r) \/ DeleteFiles(r) \/ DeleteRows(r) \/ Restore(r)
             \/ UploadFiles(r) \/ SaveImages(r) \/ SaveProduct(r) \/ Refused(r) \/ Fail(r)
      PROVE  HandlerInv'
    BY <1>4, <1>6
       DEF Insert, Save, SoftRemove, DeleteFiles, DeleteRows, Restore, UploadFiles, SaveImages,
           SaveProduct, Refused, Fail, InFlight, Ended
<1> QED
    BY <1>3, <1>5, <1>6 DEF Next, Starting, UpdateCostPrice, vars
-----------------------------------------------------------------------------
\* Who writes a row marks the updates that hold it.
LEMMA UpToDateStep == IInv /\ [Next]_vars => UpToDate'
<1> SUFFICES ASSUME IInv, [Next]_vars PROVE UpToDate'
    OBVIOUS
<1> USE DEF Goto
<1>t. TypeOK /\ HandlerInv /\ UpToDate
    BY DEF IInv
<1>d. /\ row \in [Id -> Row \cup {None}] /\ pc \in [Request -> {"new"} \cup InFlight \cup Ended]
      /\ mem \in [Request -> Memory \cup {None}] /\ Request \subseteq Id
    BY <1>t DEF TypeOK, Id
<1>m. \A q \in Request : pc[q] = "save" =>
          pc[q] \in InFlight /\ mem[q].id \in Id /\ row[mem[q].id] # None
    BY <1>t DEF HandlerInv, InFlight, Memory
<1>1. ASSUME NEW r \in Request, Starting(r) PROVE UpToDate'
    <2>1. PICK l \in {"rejected", "insert", "save", "softRemove", "uploadFiles"}, m \in Memory :
              Started(r, l, m)
        BY <1>1, StartingSteps
    <2>2. /\ pc'[r] = l /\ mem'[r] = m /\ UNCHANGED <<row, stale>> /\ (l = "save" => AsAsked(m))
          /\ \A q \in Request \ {r} : pc'[q] = pc[q] /\ mem'[q] = mem[q]
        BY <1>d, <2>1 DEF Started
    <2> QED
        BY <1>t, <2>2 DEF UpToDate, AsAsked
<1>2. CASE \A r \in Request : ~Starting(r)
    <2>1. mem' = mem /\ \A q \in Request : pc'[q] = "save" => pc[q] = "save"
        BY <1>2, <1>d
           DEF Next, Starting, vars, Insert, Save, SoftRemove, DeleteFiles, DeleteRows, Restore,
               UploadFiles, SaveImages, SaveProduct, Refused, Fail, UpdateCostPrice
    <2>2. ASSUME NEW q \in Request \ stale', pc'[q] = "save"
          PROVE  q \notin stale /\ row'[mem[q].id] = row[mem[q].id]
        <3>1. pc[q] = "save" /\ mem[q].id \in Id /\ row[mem[q].id] # None /\ pc[q] \in InFlight
            BY <1>m, <2>1, <2>2
        <3>2. CASE UNCHANGED <<row, stale>>
            BY <2>2, <3>2
        <3>3. ASSUME NEW r \in Request, NEW v \in Row, pc[r] = "insert",
                     row' = [row EXCEPT ![r] = v], stale' = stale
              PROVE  q \notin stale /\ row'[mem[q].id] = row[mem[q].id]
            <4>1. row[r] = None
                BY <1>t, <3>3 DEF HandlerInv
            <4> QED
                BY <1>d, <2>2, <3>1, <3>3, <4>1
        <3>4. ASSUME NEW i \in Id, NEW v \in Row, row' = [row EXCEPT ![i] = v], stale \subseteq stale',
                     \A p \in Readers(i) : pc'[p] = "save" => p \in stale'
              PROVE  q \notin stale /\ row'[mem[q].id] = row[mem[q].id]
            <4>1. q \notin Readers(i)
                BY <2>2, <3>4
            <4>2. mem[q].id # i
                BY <3>1, <4>1 DEF Readers
            <4> QED
                BY <1>d, <2>2, <3>1, <3>4, <4>2
        <3> QED
            BY <3>2, <3>3, <3>4, RowSteps DEF Written
    <2> QED
        BY <1>t, <2>1, <2>2 DEF UpToDate, AsAsked
<1> QED
    BY <1>1, <1>2

\* The states of an upload once its file may be stored, or its image saved.
LEMMA UploadStates ==
    ASSUME IInv, [Next]_vars, NEW f \in Request
    PROVE  /\ pc[f] \in {"done", "failed"} => pc'[f] = pc[f] /\ mem'[f] = mem[f]
           /\ pc[f] = "saveProduct" => pc'[f] \in {"saveProduct", "done", "failed"} /\ mem'[f] = mem[f]
           /\ pc[f] = "saveImages" => pc'[f] \in {"saveImages", "saveProduct", "failed"}
           /\ pc'[f] = "saveProduct" => pc[f] \in {"saveImages", "saveProduct"}
           /\ pc'[f] = "saveImages" => pc[f] = "saveImages" \/ UploadFiles(f)
           /\ pc[f] = "saveProduct" /\ pc'[f] = "done" => SaveProduct(f)
           /\ pc[f] # "new" => mem'[f] = mem[f]
<1> USE DEF Goto
<1>d. /\ pc \in [Request -> {"new"} \cup InFlight \cup Ended]
      /\ mem \in [Request -> Memory \cup {None}]
    BY DEF IInv, TypeOK
<1>1. ASSUME NEW r \in Request, Starting(r)
      PROVE  /\ pc[r] = "new" /\ pc'[r] \notin {"saveImages", "saveProduct"}
             /\ \A q \in Request \ {r} : pc'[q] = pc[q] /\ mem'[q] = mem[q]
    <2>1. PICK l \in {"rejected", "insert", "save", "softRemove", "uploadFiles"}, m \in Memory :
              Started(r, l, m)
        BY <1>1, StartingSteps
    <2> QED
        BY <1>d, <2>1 DEF Started
<1>2. CASE \E r \in Request : Starting(r)
    BY <1>1, <1>2
<1>3. CASE \A r \in Request : ~Starting(r)
    <2>1. mem' = mem
        BY <1>3
           DEF Next, Starting, vars, Insert, Save, SoftRemove, DeleteFiles, DeleteRows, Restore,
               UploadFiles, SaveImages, SaveProduct, Refused, Fail, UpdateCostPrice
    <2>2. ASSUME NEW r \in Request, NEW l \in InFlight \cup Ended, pc' = [pc EXCEPT ![r] = l],
                 pc[r] \notin {"done", "failed"},
                 pc[r] = "saveProduct" => l = "failed" \/ (l = "done" /\ SaveProduct(r)),
                 pc[r] = "saveImages" => l \in {"saveProduct", "failed"},
                 l = "saveProduct" => pc[r] = "saveImages",
                 l = "saveImages" => UploadFiles(r)
          PROVE  /\ pc[f] \in {"done", "failed"} => pc'[f] = pc[f]
                 /\ pc[f] = "saveProduct" => pc'[f] \in {"saveProduct", "done", "failed"}
                 /\ pc[f] = "saveImages" => pc'[f] \in {"saveImages", "saveProduct", "failed"}
                 /\ pc'[f] = "saveProduct" => pc[f] \in {"saveImages", "saveProduct"}
                 /\ pc'[f] = "saveImages" => pc[f] = "saveImages" \/ UploadFiles(f)
                 /\ pc[f] = "saveProduct" /\ pc'[f] = "done" => SaveProduct(f)
        BY <1>d, <2>2
    <2>3. \/ UNCHANGED pc
          \/ \E r \in Request, l \in InFlight \cup Ended :
                 /\ pc' = [pc EXCEPT ![r] = l] /\ pc[r] \notin {"done", "failed"}
                 /\ pc[r] = "saveProduct" => l = "failed" \/ (l = "done" /\ SaveProduct(r))
                 /\ pc[r] = "saveImages" => l \in {"saveProduct", "failed"}
                 /\ l = "saveProduct" => pc[r] = "saveImages"
                 /\ l = "saveImages" => UploadFiles(r)
        <3>1. ASSUME NEW r \in Request, SaveProduct(r)
              PROVE  pc' = [pc EXCEPT ![r] = "done"] /\ pc[r] = "saveProduct"
            BY <3>1 DEF SaveProduct
        <3>2. ASSUME NEW r \in Request, UploadFiles(r)
              PROVE  pc' = [pc EXCEPT ![r] = "saveImages"] /\ pc[r] = "uploadFiles"
            BY <3>2 DEF UploadFiles
        <3>3. CASE \E r \in Request : SaveProduct(r) \/ UploadFiles(r)
            BY <3>1, <3>2, <3>3 DEF InFlight, Ended
        <3>4. CASE \A r \in Request : ~SaveProduct(r) /\ ~UploadFiles(r)
            <4>1. ASSUME NEW r \in Request,
                         \/ Insert(r) \/ Save(r) \/ SoftRemove(r) \/ DeleteFiles(r) \/ DeleteRows(r)
                         \/ Restore(r) \/ SaveImages(r) \/ Refused(r) \/ Fail(r)
                  PROVE  \E l \in InFlight \cup Ended :
                             /\ pc' = [pc EXCEPT ![r] = l] /\ pc[r] \notin {"done", "failed"}
                             /\ pc[r] = "saveProduct" => l = "failed"
                             /\ pc[r] = "saveImages" => l \in {"saveProduct", "failed"}
                             /\ l = "saveProduct" => pc[r] = "saveImages"
                             /\ l # "saveImages"
                BY <4>1 DEF Insert, Save, SoftRemove, DeleteFiles, DeleteRows, Restore,
                            SaveImages, Refused, Fail, InFlight, Ended
            <4>2. \/ UNCHANGED pc
                  \/ \E r \in Request :
                        \/ Insert(r) \/ Save(r) \/ SoftRemove(r) \/ DeleteFiles(r) \/ DeleteRows(r)
                        \/ Restore(r) \/ SaveImages(r) \/ Refused(r) \/ Fail(r)
                BY <1>3, <3>4 DEF Next, Starting, UpdateCostPrice, vars
            <4> QED
                BY <4>1, <4>2
        <3> QED
            BY <3>3, <3>4
    <2> QED
        BY <2>1, <2>2, <2>3
<1> QED
    BY <1>2, <1>3

\* What happens to an image and its file.
LEMMA ImageSteps ==
    ASSUME IInv, [Next]_vars, NEW f \in Request
    PROVE  \/ image'[f] = image[f]
           \/ image'[f] = None
           \/ image[f] # None /\ image'[f] = [image[f] EXCEPT !.removed = TRUE]
           \/ image[f] # None /\ image'[f] = [image[f] EXCEPT !.product = None]
           \/ /\ pc[f] \in {"saveImages", "saveProduct"} /\ pc'[f] \in {"saveProduct", "done"}
              /\ image'[f] = [product |-> mem[f].id, removed |-> FALSE]
<1>d. image \in [Request -> Image \cup {None}] /\ pc \in [Request -> {"new"} \cup InFlight \cup Ended]
    BY DEF IInv, TypeOK
<1>1. ASSUME NEW r \in Request, SoftRemove(r)
      PROVE  image'[f] = image[f] \/ (image[f] # None /\ image'[f] = [image[f] EXCEPT !.removed = TRUE])
    BY <1>1 DEF SoftRemove
<1>2. ASSUME NEW r \in Request, DeleteRows(r)
      PROVE  image'[f] = image[f] \/ image'[f] = None
    BY <1>2 DEF DeleteRows
<1>3. ASSUME NEW r \in Request, SaveImages(r)
      PROVE  \/ image'[f] = image[f]
             \/ /\ pc[f] = "saveImages" /\ pc'[f] = "saveProduct"
                /\ image'[f] = [product |-> mem[f].id, removed |-> FALSE]
    BY <1>3, <1>d DEF SaveImages, Goto
<1>4. ASSUME NEW r \in Request, SaveProduct(r)
      PROVE  \/ image'[f] = image[f]
             \/ image[f] # None /\ image'[f] = [image[f] EXCEPT !.product = None]
             \/ /\ pc[f] = "saveProduct" /\ pc'[f] = "done"
                /\ image'[f] = [product |-> mem[f].id, removed |-> FALSE]
    BY <1>4, <1>d DEF SaveProduct, Goto
<1>5. \/ UNCHANGED image
      \/ \E r \in Request : SoftRemove(r) \/ DeleteRows(r) \/ SaveImages(r) \/ SaveProduct(r)
    BY DEF Next, vars, Create, Insert, Update, Save, Remove, DeleteFiles, Restore, Upload, UploadFiles,
           Refused, Fail, UpdateCostPrice
<1> QED
    BY <1>1, <1>2, <1>3, <1>4, <1>5

\* Files are stored by their own upload, and deleted by a removal that loaded
\* them; marks stay.
LEMMA FileSteps ==
    ASSUME IInv, [Next]_vars
    PROVE  /\ overtaken \subseteq overtaken'
           /\ \/ UNCHANGED stored
              \/ \E r \in Request : UploadFiles(r)
              \/ \E r \in Request : DeleteFiles(r)
<1>1. ASSUME NEW r \in Request, Starting(r) PROVE overtaken \subseteq overtaken' /\ stored' = stored
    BY <1>1, StartingSteps DEF Started
<1> QED
    BY <1>1 DEF Next, Starting, vars, Insert, Save, SoftRemove, DeleteFiles, DeleteRows, Restore,
                UploadFiles, SaveImages, SaveProduct, Refused, Fail, UpdateCostPrice

\* The file of an image that shows, or will, is there, or was marked.
LEMMA UploadsStep == IInv /\ [Next]_vars => UploadsInv'
<1> SUFFICES ASSUME IInv, [Next]_vars, NEW f \in Request
             PROVE  /\ image'[f] # None =>
                          /\ pc'[f] \in {"saveProduct", "done", "failed"}
                          /\ image'[f].product \in {mem'[f].id, None}
                    /\ f \in stored' => pc'[f] \in {"saveImages", "saveProduct", "done", "failed"}
                    /\ pc'[f] \in {"saveImages", "saveProduct"} \/ (image'[f] # None /\ ~image'[f].removed)
                          => f \in stored' \cup overtaken'
    BY DEF UploadsInv
<1>t. TypeOK /\ UploadsInv /\ RemovalsInv /\ HandlerInv
    BY DEF IInv
<1>d. /\ image[f] # None => image[f] \in Image
      /\ \A v \in Image : /\ [v EXCEPT !.removed = TRUE].product = v.product
                          /\ [v EXCEPT !.removed = TRUE].removed
                          /\ [v EXCEPT !.product = None].product = None
                          /\ [v EXCEPT !.product = None].removed = v.removed
    BY <1>t DEF TypeOK, Image
<1>1. image'[f] # None =>
          /\ pc'[f] \in {"saveProduct", "done", "failed"}
          /\ image'[f].product \in {mem'[f].id, None}
    <2>1. CASE image[f] # None
        <3>1. /\ pc'[f] \in {"saveProduct", "done", "failed"} /\ mem'[f] = mem[f]
              /\ image[f].product \in {mem[f].id, None}
            BY <1>t, <2>1, UploadStates DEF UploadsInv
        <3>2. \/ image'[f] = None
              \/ image'[f].product \in {image[f].product, None, mem[f].id}
            <4>1. image[f] \in Image
                BY <1>d, <2>1
            <4>2. CASE image'[f] = [image[f] EXCEPT !.removed = TRUE]
                BY <1>d, <4>1, <4>2
            <4>3. CASE image'[f] = [image[f] EXCEPT !.product = None]
                BY <1>d, <4>1, <4>3
            <4>4. CASE image'[f] = [product |-> mem[f].id, removed |-> FALSE]
                BY <4>4
            <4> QED
                BY <4>2, <4>3, <4>4, ImageSteps
        <3> QED
            BY <3>1, <3>2
    <2>2. CASE image[f] = None
        <3>1. image'[f] # None =>
                 /\ pc[f] \in {"saveImages", "saveProduct"} /\ pc'[f] \in {"saveProduct", "done"}
                 /\ image'[f] = [product |-> mem[f].id, removed |-> FALSE]
            BY <2>2, ImageSteps
        <3>2. pc[f] # "new" => mem'[f] = mem[f]
            BY UploadStates
        <3> QED
            BY <3>1, <3>2
    <2> QED
        BY <2>1, <2>2
<1>2. ASSUME NEW r \in Request, UploadFiles(r)
      PROVE  stored' = stored \cup {r} /\ pc'[r] = "saveImages"
    BY <1>2, <1>t DEF UploadFiles, Goto, TypeOK
<1>3. ASSUME NEW r \in Request, DeleteFiles(r)
      PROVE  /\ stored' \subseteq stored /\ stored \ stored' \subseteq mem[r].images
             /\ pc[r] = "deleteFiles" /\ mem[r] # None
    BY <1>3, <1>t, NoneAssumption DEF DeleteFiles, HandlerInv, InFlight
<1>4. f \in stored' => pc'[f] \in {"saveImages", "saveProduct", "done", "failed"}
    BY <1>t, <1>2, <1>3, UploadStates, FileSteps DEF UploadsInv
<1>5. pc'[f] \in {"saveImages", "saveProduct"} \/ (image'[f] # None /\ ~image'[f].removed) =>
          \/ pc[f] \in {"saveImages", "saveProduct"}
          \/ image[f] # None /\ ~image[f].removed
          \/ UploadFiles(f)
    BY <1>d, UploadStates, ImageSteps
<1>6. ASSUME \/ pc[f] \in {"saveImages", "saveProduct"}
             \/ image[f] # None /\ ~image[f].removed
      PROVE  f \in stored' \cup overtaken'
    <2>1. f \in stored \cup overtaken
        BY <1>6, <1>t DEF UploadsInv
    <2>2. ASSUME NEW r \in Request, DeleteFiles(r), f \in mem[r].images
          PROVE  f \in overtaken
        BY <1>3, <1>6, <1>t, <2>2 DEF RemovalsInv
    <2> QED
        BY <1>2, <1>3, <2>1, <2>2, FileSteps
<1> QED
    BY <1>1, <1>2, <1>4, <1>5, <1>6

\* How a removal goes on.
LEMMA RemovalStates ==
    ASSUME IInv, [Next]_vars, NEW q \in Request, mem[q] # None
    PROVE  /\ mem'[q] = mem[q]
           /\ pc'[q] = "deleteFiles" => pc[q] = "deleteFiles" \/ SoftRemove(q)
           /\ pc'[q] = "deleteRows" => pc[q] = "deleteRows" \/ DeleteFiles(q)
           /\ pc'[q] = "done" /\ mem[q].op = "remove" =>
                 pc[q] \in {"done", "deleteRows"} \/ mem[q].images = {}
           /\ pc[q] \in InFlight /\ mem[q].op = "remove" => pc'[q] \in InFlight \cup {"done", "failed"}
<1> USE DEF Goto
<1>t. TypeOK /\ HandlerInv
    BY DEF IInv
<1>d. pc \in [Request -> {"new"} \cup InFlight \cup Ended] /\ pc[q] # "new"
    BY <1>t DEF TypeOK, HandlerInv
<1>1. mem'[q] = mem[q]
    BY <1>d, UploadStates
<1>2. ASSUME NEW r \in Request, Starting(r)
      PROVE  q # r /\ pc'[q] = pc[q]
    <2>1. PICK l \in {"rejected", "insert", "save", "softRemove", "uploadFiles"}, m \in Memory :
              Started(r, l, m)
        BY <1>2, StartingSteps
    <2> QED
        BY <1>d, <2>1 DEF Started
<1>4. ASSUME NEW r \in Request,
             \/ Insert(r) \/ Save(r) \/ SoftRemove(r) \/ DeleteFiles(r) \/ DeleteRows(r) \/ Restore(r)
             \/ UploadFiles(r) \/ SaveImages(r) \/ SaveProduct(r) \/ Refused(r) \/ Fail(r),
             r # q
      PROVE  pc'[q] = pc[q]
    BY <1>4, <1>d
       DEF Insert, Save, SoftRemove, DeleteFiles, DeleteRows, Restore, UploadFiles, SaveImages,
           SaveProduct, Refused, Fail
<1>5. ASSUME SoftRemove(q)
      PROVE  /\ pc[q] = "softRemove"
             /\ pc'[q] = IF mem[q].images = {} THEN "done" ELSE "deleteFiles"
    BY <1>5, <1>d DEF SoftRemove
<1>6. ASSUME DeleteFiles(q)
      PROVE  pc[q] = "deleteFiles" /\ pc'[q] \in {"deleteRows", "failed"}
    BY <1>6, <1>d DEF DeleteFiles
<1>7. ASSUME DeleteRows(q)
      PROVE  pc[q] = "deleteRows" /\ pc'[q] = "done"
    BY <1>7, <1>d DEF DeleteRows
<1>8. ASSUME Fail(q)
      PROVE  pc'[q] = "failed"
    BY <1>8, <1>d DEF Fail
<1>9. ASSUME Insert(q) \/ Save(q) \/ UploadFiles(q) \/ SaveImages(q) \/ SaveProduct(q) \/ Refused(q)
             \/ Restore(q)
      PROVE  mem[q].op # "remove" /\ pc'[q] \notin {"deleteFiles", "deleteRows"}
    BY <1>9, <1>d, <1>t
       DEF Insert, Save, UploadFiles, SaveImages, SaveProduct, Refused, Restore, HandlerInv
<1>10. \/ pc'[q] = pc[q]
       \/ SoftRemove(q) \/ DeleteFiles(q) \/ DeleteRows(q) \/ Fail(q)
       \/ Insert(q) \/ Save(q) \/ UploadFiles(q) \/ SaveImages(q) \/ SaveProduct(q) \/ Refused(q)
       \/ Restore(q)
    BY <1>2, <1>4 DEF Next, Starting, UpdateCostPrice, vars
<1> QED
    BY <1>1, <1>5, <1>6, <1>7, <1>8, <1>9, <1>10 DEF InFlight

\* A removal never deletes a file of an image that shows again.
LEMMA RemovalsStep == IInv /\ [Next]_vars => RemovalsInv'
<1> SUFFICES ASSUME IInv, [Next]_vars, NEW q \in Request, mem'[q] # None, NEW f \in mem'[q].images
             PROVE  /\ pc'[f] \in {"saveProduct", "done", "failed"}
                    /\ pc'[f] = "saveProduct" => f \in overtaken'
                    /\ mem'[f].id = mem'[q].id
                    /\ pc'[q] \in {"deleteFiles", "deleteRows"} =>
                          f \in overtaken' \/ image'[f] = None \/ image'[f].removed
                    /\ pc'[q] \in {"deleteRows", "done"} /\ mem'[q].op = "remove" => f \notin stored'
    BY DEF RemovalsInv
<1> USE DEF Goto
<1>t. TypeOK /\ UploadsInv /\ RemovalsInv /\ HandlerInv
    BY DEF IInv
<1>s. TypeOK'
    BY TypeStep
<1>f. f \in Request
    BY <1>s DEF TypeOK, Memory
<1>1. ASSUME Starting(q)
      PROVE  /\ pc'[f] \in {"saveProduct", "done", "failed"}
             /\ pc'[f] = "saveProduct" => f \in overtaken'
             /\ mem'[f].id = mem'[q].id
             /\ pc'[q] \notin {"deleteFiles", "deleteRows", "done"}
    <2>1. PICK l \in {"rejected", "insert", "save", "softRemove", "uploadFiles"}, m \in Memory :
              Started(q, l, m)
        BY <1>1, StartingSteps
    <2>2. /\ pc[q] = "new" /\ pc'[q] = l /\ mem'[q] = m
          /\ \A r \in Request \ {q} : pc'[r] = pc[r] /\ mem'[r] = mem[r]
          /\ image[f] # None /\ image[f].product = m.id
          /\ overtaken' = overtaken \cup {g \in m.images : pc[g] = "saveProduct"}
        BY <1>t, <2>1 DEF Started, TypeOK
    <2>3. m.id # None
        BY CatalogueAssumption DEF Memory
    <2>4. pc[f] \in {"saveProduct", "done", "failed"} /\ mem[f].id = m.id
        BY <1>f, <1>t, <2>2, <2>3 DEF UploadsInv
    <2> QED
        BY <1>f, <2>1, <2>2, <2>4
<1>2. ASSUME NEW r \in Request, Starting(r), r # q
      PROVE  pc'[q] = pc[q] /\ mem'[q] = mem[q]
    <2>1. PICK l \in {"rejected", "insert", "save", "softRemove", "uploadFiles"}, m \in Memory :
              Started(r, l, m)
        BY <1>2, StartingSteps
    <2> QED
        BY <1>2, <1>t, <2>1 DEF Started, TypeOK
<1>3. (\A r \in Request : ~Starting(r)) => mem' = mem
    BY DEF Next, Starting, vars, Insert, Save, SoftRemove, DeleteFiles, DeleteRows, Restore,
           UploadFiles, SaveImages, SaveProduct, Refused, Fail, UpdateCostPrice
<1>4. CASE ~Starting(q)
    <2>1. mem'[q] = mem[q] /\ mem[q] # None /\ f \in mem[q].images
        BY <1>2, <1>3, <1>4
    <2>2. /\ pc[f] \in {"saveProduct", "done", "failed"}
          /\ pc[f] = "saveProduct" => f \in overtaken
          /\ mem[f].id = mem[q].id
          /\ pc[q] \in {"deleteFiles", "deleteRows"} =>
                f \in overtaken \/ image[f] = None \/ image[f].removed
          /\ pc[q] \in {"deleteRows", "done"} /\ mem[q].op = "remove" => f \notin stored
        BY <1>t, <2>1 DEF RemovalsInv
    <2>3. /\ pc'[f] \in {"saveProduct", "done", "failed"} /\ mem'[f] = mem[f]
          /\ pc'[f] = "saveProduct" => pc[f] = "saveProduct"
        BY <1>f, <2>2, UploadStates
    <2>4. overtaken \subseteq overtaken'
        BY FileSteps
    <2>5. ASSUME SoftRemove(q)
          PROVE  image'[f] = None \/ image'[f].removed
        <3>1. image'[f] = IF image[f] # None THEN [image[f] EXCEPT !.removed = TRUE] ELSE image[f]
            BY <1>f, <2>1, <2>5 DEF SoftRemove
        <3>2. image[f] # None => image[f] \in Image
            BY <1>f, <1>t DEF TypeOK
        <3> QED
            BY <3>1, <3>2 DEF Image
    <2>6. ASSUME f \in overtaken \/ image[f] = None \/ image[f].removed
          PROVE  f \in overtaken' \/ image'[f] = None \/ image'[f].removed
        <3>1. image[f] # None => image[f] \in Image
            BY <1>f, <1>t DEF TypeOK
        <3>2. \A v \in Image : /\ [v EXCEPT !.removed = TRUE].removed
                               /\ [v EXCEPT !.product = None].removed = v.removed
            BY DEF Image
        <3>3. pc[f] \in {"saveImages", "saveProduct"} => f \in overtaken
            BY <2>2
        <3> QED
            BY <1>f, <2>4, <2>6, <3>1, <3>2, <3>3, ImageSteps
    <2>7. ASSUME DeleteFiles(q), pc'[q] \in {"deleteRows", "done"} PROVE f \notin stored'
        BY <1>t, <2>1, <2>7 DEF DeleteFiles, TypeOK
    <2>8. f \notin stored => f \notin stored'
        <3>1. ~UploadFiles(f)
            BY <2>2 DEF UploadFiles
        <3> QED
            BY <3>1, FileSteps DEF UploadFiles, DeleteFiles
    <2>9. /\ pc'[q] = "deleteFiles" => pc[q] = "deleteFiles" \/ SoftRemove(q)
          /\ pc'[q] = "deleteRows" => pc[q] = "deleteRows" \/ DeleteFiles(q)
          /\ pc'[q] = "done" /\ mem[q].op = "remove" => pc[q] \in {"done", "deleteRows"}
        BY <2>1, RemovalStates
    <2>10. pc'[q] \in {"deleteFiles", "deleteRows"} =>
               f \in overtaken' \/ image'[f] = None \/ image'[f].removed
        <3>1. DeleteFiles(q) => pc[q] = "deleteFiles"
            BY DEF DeleteFiles
        <3> QED
            BY <2>2, <2>5, <2>6, <2>9, <3>1
    <2> QED
        BY <2>1, <2>2, <2>3, <2>4, <2>7, <2>8, <2>9, <2>10
<1> QED
    BY <1>1, <1>4

\* Who takes an image away from its product.
LEMMA KeptStep == IInv /\ [Next]_vars => ImagesKept'
<1> DEFINE Taker(q, f) ==
              /\ mem[q] # None /\ mem[q].id = mem[f].id
              /\ \/ mem[q].op = "upload" /\ pc[q] = "done"
                 \/ mem[q].op = "remove" /\ (pc[q] \in InFlight \cup {"failed"} \/ f \notin mem[q].images)
           Gone(f) == image[f] = None \/ image[f].product = None \/ image[f].removed
<1> SUFFICES ASSUME IInv, [Next]_vars, NEW f \in stored', pc'[f] = "done",
                    image'[f] = None \/ image'[f].product = None \/ image'[f].removed
             PROVE  \E q \in Request \ {f} : Taker(q, f)'
    BY DEF ImagesKept
<1> USE DEF Goto
<1>t. TypeOK /\ HandlerInv /\ UploadsInv /\ RemovalsInv /\ ImagesKept
    BY DEF IInv
<1>s. TypeOK' /\ RemovalsInv'
    BY TypeStep, RemovalsStep
<1>f. f \in Request
    BY <1>s DEF TypeOK
<1>1. f \in stored
    <2>1. ~UploadFiles(f)
        BY <1>f, <1>t DEF UploadFiles, TypeOK
    <2> QED
        BY <2>1, FileSteps DEF UploadFiles, DeleteFiles
<1>2. pc[f] \in {"saveProduct", "done"} /\ mem'[f] = mem[f]
    BY <1>1, <1>f, <1>t, UploadStates DEF UploadsInv
<1>3. ASSUME NEW q \in Request \ {f}, Taker(q, f) PROVE Taker(q, f)'
    <2>1. mem[q] # None /\ mem'[q] = mem[q] /\ mem[q].id = mem[f].id
        BY <1>3, RemovalStates
    <2>2. CASE mem[q].op = "upload" /\ pc[q] = "done"
        BY <1>2, <2>1, <2>2, UploadStates
    <2>3. CASE mem[q].op = "remove" /\ f \notin mem[q].images
        BY <1>2, <2>1, <2>3
    <2>4. CASE mem[q].op = "remove" /\ pc[q] \in InFlight \cup {"failed"} /\ f \in mem[q].images
        <3>1. pc'[q] \in InFlight \cup {"done", "failed"}
            BY <2>1, <2>4, RemovalStates, UploadStates
        <3>2. pc'[q] # "done"
            BY <1>s, <2>1, <2>4 DEF RemovalsInv
        <3> QED
            BY <1>2, <2>1, <2>4, <3>1, <3>2
    <2> QED
        BY <1>3, <2>2, <2>3, <2>4
<1>4. ASSUME pc[f] = "saveProduct" PROVE FALSE
    <2>1. SaveProduct(f)
        BY <1>4, <1>f, UploadStates
    <2>2. image'[f] = [product |-> mem[f].id, removed |-> FALSE] /\ mem[f].id \in Id
        BY <2>1, <1>f, <1>t DEF SaveProduct, HandlerInv, InFlight, Memory
    <2>3. image'[f] \in Image /\ image'[f].product # None /\ ~image'[f].removed
        BY <2>2, CatalogueAssumption DEF Image
    <2> QED
        BY <2>3, NoneAssumption
<1>5. CASE pc[f] = "done" /\ Gone(f)
    <2>1. PICK q \in Request \ {f} : Taker(q, f)
        BY <1>1, <1>5, <1>t DEF ImagesKept
    <2> QED
        BY <1>3, <2>1
<1>6. CASE pc[f] = "done" /\ ~Gone(f)
    <2>1. /\ image[f] # None /\ image[f].product = mem[f].id /\ ~image[f].removed /\ mem[f].id # None
        BY <1>6, <1>f, <1>t DEF UploadsInv
    <2>2. image'[f] # image[f]
        BY <1>6
    <2>3. ASSUME NEW r \in Request, SoftRemove(r) PROVE r # f /\ Taker(r, f)'
        <3>1. f \in mem[r].images /\ mem[r] \in Memory /\ mem[r].op = "remove" /\ r # f
            BY <1>6, <1>f, <1>t, <2>2, <2>3 DEF SoftRemove, HandlerInv, InFlight
        <3>2. mem[r] # None /\ mem[r].id = mem[f].id
            BY <1>t, <3>1, NoneAssumption DEF RemovalsInv
        <3>3. pc'[r] = "deleteFiles" /\ mem' = mem
            BY <1>t, <2>3, <3>1 DEF SoftRemove, TypeOK
        <3> QED
            BY <1>2, <3>1, <3>2, <3>3 DEF InFlight
    <2>4. ASSUME NEW r \in Request, DeleteRows(r) PROVE r # f /\ Taker(r, f)'
        <3>1. /\ image[f].product = mem[r].id /\ mem[r] \in Memory /\ mem[r].op = "remove" /\ r # f
              /\ pc[r] = "deleteRows" /\ mem' = mem
            BY <1>6, <1>f, <1>t, <2>2, <2>4 DEF DeleteRows, HandlerInv, InFlight
        <3>2. mem[r] # None /\ f \notin mem[r].images
            BY <1>1, <1>t, <3>1, NoneAssumption DEF RemovalsInv
        <3> QED
            BY <1>2, <2>1, <3>1, <3>2
    <2>5. ASSUME NEW r \in Request, SaveProduct(r) PROVE r # f /\ Taker(r, f)'
        <3>1. /\ image[f].product = mem[r].id /\ mem[r] \in Memory /\ mem[r].op = "upload" /\ r # f
              /\ pc'[r] = "done" /\ mem' = mem
            BY <1>6, <1>f, <1>t, <2>2, <2>5 DEF SaveProduct, HandlerInv, InFlight, TypeOK
        <3>2. mem[r] # None
            BY <3>1, NoneAssumption
        <3> QED
            BY <1>2, <2>1, <3>1, <3>2
    <2>6. \E r \in Request : SoftRemove(r) \/ DeleteRows(r) \/ SaveProduct(r)
        <3>1. ASSUME NEW r \in Request, SaveImages(r) PROVE image'[f] = image[f]
            BY <1>6, <1>f, <1>t, <3>1 DEF SaveImages, TypeOK
        <3>2. \/ UNCHANGED image
              \/ \E r \in Request : SoftRemove(r) \/ DeleteRows(r) \/ SaveImages(r) \/ SaveProduct(r)
            BY DEF Next, vars, Create, Insert, Update, Save, Remove, DeleteFiles, Restore, Upload,
                   UploadFiles, Refused, Fail, UpdateCostPrice
        <3> QED
            BY <2>2, <3>1, <3>2
    <2> QED
        BY <2>3, <2>4, <2>5, <2>6
<1> QED
    BY <1>2, <1>4, <1>5, <1>6
-----------------------------------------------------------------------------
\* Nothing is in flight, and nothing was ever uploaded.
LEMMA InitIInv == Init => IInv
<1> SUFFICES ASSUME Init PROVE IInv
    OBVIOUS
<1>1. TypeOK
    BY CatalogueAssumption DEF Init, TypeOK, Id
<1>2. HandlerInv /\ UpToDate /\ UploadsInv /\ RemovalsInv /\ ImagesKept
    BY CatalogueAssumption
       DEF Init, HandlerInv, UpToDate, UploadsInv, RemovalsInv, ImagesKept, InFlight, Id
<1> QED
    BY <1>1, <1>2 DEF IInv

\* The invariant of the lemmas above.
LEMMA Invariance == Spec => []IInv
<1>1. IInv /\ [Next]_vars => IInv'
    BY TypeStep, HandlerStep, UpToDateStep, UploadsStep, RemovalsStep, KeptStep DEF IInv
<1> QED
    BY InitIInv, <1>1, PTL DEF Spec

(***************************************************************************)
(* The tables, the storage provider and the requests keep their types:     *)
(* whatever an update assigns to an entity as loaded is a row again.       *)
(***************************************************************************)
THEOREM TypeCorrect == Spec => []TypeOK
BY Invariance, PTL DEF IInv

(***************************************************************************)
(* Whatever administrators, uploads and purchases do between the queries   *)
(* of an update, it changes the columns it was asked to change and no      *)
(* other, unless the row was written since it was read, or the row it      *)
(* refers to had been removed.                                             *)
(***************************************************************************)
THEOREM UpdatesAreAsAsked == Spec => UpdatesDoWhatTheyWereAsked
<1>1. IInv /\ [Next]_vars =>
        [\A r \in Request :
            pc[r] = "save" /\ row' # row /\ pc'[r] # "save" =>
                LET i == mem[r].id
                IN  \/ r \in stale
                    \/ /\ ~row[i].removed
                       /\ \A f \in {"name", "up", "cost"} \ mem[r].asked :
                             \/ Column(row'[i], f) = Column(row[i], f)
                             \/ f = "up" /\ mem[r].cut]_vars
    <2> SUFFICES ASSUME IInv, Next, NEW r \in Request \ stale,
                        pc[r] = "save", row' # row, pc'[r] # "save"
                 PROVE  /\ ~row[mem[r].id].removed
                        /\ \A f \in {"name", "up", "cost"} \ mem[r].asked :
                              \/ Column(row'[mem[r].id], f) = Column(row[mem[r].id], f)
                              \/ f = "up" /\ mem[r].cut
        BY DEF vars
    <2>t. TypeOK /\ HandlerInv /\ UpToDate
        BY DEF IInv
    <2>1. AsAsked(mem[r]) /\ mem[r].id \in Id
        BY <2>t DEF UpToDate, HandlerInv, InFlight, Memory
    <2>2. Save(r)
        <3>1. ASSUME NEW q \in Request, Starting(q) PROVE row' = row
            BY <3>1, StartingSteps DEF Started
        <3>2. ASSUME NEW q \in Request,
                     \/ Insert(q) \/ SoftRemove(q) \/ Restore(q) \/ SaveProduct(q)
                     \/ q # r /\ Save(q)
              PROVE  pc'[r] = pc[r]
            BY <2>t, <3>2 DEF Insert, SoftRemove, Restore, SaveProduct, Save, Goto, TypeOK
        <3> QED
            BY <3>1, <3>2
               DEF Next, Starting, DeleteFiles, DeleteRows, UploadFiles, SaveImages, Refused, Fail,
                   UpdateCostPrice, vars
    <2>3. row'[mem[r].id] = mem[r].row
        BY <2>t, <2>1, <2>2 DEF Save, TypeOK
    <2> QED
        BY <2>1, <2>3 DEF AsAsked
<1> QED
    BY <1>1, Invariance, PTL DEF Spec, UpdatesDoWhatTheyWereAsked

(***************************************************************************)
(* No product that is found shows an image whose file is gone, for any     *)
(* number of uploads, removals and restores at once, unless the removal    *)
(* found an image that its upload had yet to attach to the product.        *)
(***************************************************************************)
THEOREM ImagesAreNotBroken == Spec => []NoBrokenImages
<1>1. IInv => NoBrokenImages
    BY DEF IInv, UploadsInv, NoBrokenImages, Shown
<1> QED
    BY <1>1, Invariance, PTL

(***************************************************************************)
(* An image whose upload was answered, and whose file is there, is its     *)
(* product's, but for a later upload, or a removal that is not over or had *)
(* not found it.                                                           *)
(***************************************************************************)
THEOREM UploadedImagesAreKept == Spec => []ImagesKept
BY Invariance, PTL DEF IInv
=============================================================================

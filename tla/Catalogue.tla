------------------------------- MODULE Catalogue -------------------------------
(***************************************************************************)
(* The rows an administrator maintains: categories, suppliers, branches,   *)
(* events, products with their images, and variants (the services of the   *)
(* same names under src/module).  All of them are handled alike: an update      *)
(* loads the entity, with the row it belongs to, assigns the request's     *)
(* fields and saves the whole entity; removal sets deletedAt, and TypeORM  *)
(* then hides the row, from joins too.  Nothing is in a transaction.       *)
(*                                                                         *)
(* A row has one reference: a category's parent, a product's category (its *)
(* supplier is handled alike), a variant's product.                        *)
(***************************************************************************)
EXTENDS Naturals

CONSTANTS
    Seeded,     \* rows there are to begin with
    Row0,       \* their content
    Request,    \* each serves one call; the row or image it makes bears its name
    Name,
    Cost,       \* cost prices
    None

Kind == {"category", "supplier", "branch", "event", "product", "variant"}
Id == Seeded \cup Request
Row == [kind : Kind, name : Name, up : Id \cup {None}, cost : Cost \cup {None}, removed : BOOLEAN]

ASSUME CatalogueAssumption ==
    /\ Seeded \cap Request = {}
    /\ Row0 \in [Seeded -> Row]
    /\ None \notin Id \cup Row \cup Name \cup Cost

\* Kinds with a unique name (a variant's is its SKU), and those an administrator
\* can restore.
NamedOnce == {"category", "supplier", "branch", "variant"}
Restorable == {"category", "product"}

\* The kind of row that a row refers to.
UpKind == [k \in {"category", "product", "variant"} |->
              IF k = "variant" THEN "product" ELSE "category"]

VARIABLES
    row,        \* the tables
    image,      \* product_images: per upload, its product and deletedAt
    stored,     \* files in the storage provider, named by their upload
    pc,         \* where each request is
    mem,        \* what it has in memory
    stale,      \* history: requests whose row changed since they read it
    overtaken   \* history: images that a removal found before their upload ended

vars == <<row, image, stored, pc, mem, stale, overtaken>>

Op == {"create", "update", "remove", "upload"}
InFlight == {"insert", "save", "softRemove", "deleteFiles", "deleteRows",
             "uploadFiles", "saveImages", "saveProduct"}
Ended == {"done", "rejected", "refused", "failed"}

\* asked: the columns the request means to change; images: those it loaded.
Memory == [op : Op, id : Id, row : Row, asked : SUBSET {"name", "up", "cost"},
           cut : BOOLEAN, images : SUBSET Request]
Image == [product : Id \cup {None}, removed : BOOLEAN]

ASSUME NoneAssumption == None \notin Memory /\ None \notin Image

TypeOK ==
    /\ row \in [Id -> Row \cup {None}]
    /\ image \in [Request -> Image \cup {None}]
    /\ stored \subseteq Request
    /\ pc \in [Request -> {"new"} \cup InFlight \cup Ended]
    /\ mem \in [Request -> Memory \cup {None}]
    /\ stale \subseteq Request /\ overtaken \subseteq Request

Init ==
    /\ row = [i \in Id |-> IF i \in Seeded THEN Row0[i] ELSE None]
    /\ image = [r \in Request |-> None]
    /\ stored = {}
    /\ pc = [r \in Request |-> "new"]
    /\ mem = [r \in Request |-> None]
    /\ stale = {} /\ overtaken = {}

Goto(r, l) == pc' = [pc EXCEPT ![r] = l]
Keep(r, op, i, v, asked, cut, images) ==
    mem' = [mem EXCEPT ![r] = [op |-> op, id |-> i, row |-> v, asked |-> asked,
                               cut |-> cut, images |-> images]]

\* Mutated form: reads the rows with a deletedAt too.
FoundWithDeleted(i) == row[i] # None

\* find answers no row with a deletedAt, and joins none.
Found(i) == row[i] # None /\ ~row[i].removed

OfKind(k) == {i \in Id : Found(i) /\ row[i].kind = k}
NameFound(k, n) == \E i \in OfKind(k) : row[i].name = n

\* The unique index counts removed rows as well.
NameTaken(i, v) ==
    /\ v.kind \in NamedOnce
    /\ \E j \in Id \ {i} : row[j] # None /\ row[j].kind = v.kind /\ row[j].name = v.name

Readers(i) == {r \in Request : pc[r] \in InFlight /\ mem[r].id = i}
-----------------------------------------------------------------------------
(* create, addVariants: what each looks for before it inserts *)

CreateCategory(n, up) == up = None \/ Found(up)
CreateSupplier(n, up) == ~NameFound("supplier", n)
CreateBranch(n, up) == ~NameFound("branch", n)
CreateEvent(n, up) == TRUE
CreateProduct(n, up) == Found(up)
AddVariants(n, up) == Found(up)

MayCreate(k, n, up) ==
    CASE k = "category" -> CreateCategory(n, up)
      [] k = "supplier" -> CreateSupplier(n, up)
      [] k = "branch" -> CreateBranch(n, up)
      [] k = "event" -> CreateEvent(n, up)
      [] k = "product" -> CreateProduct(n, up)
      [] k = "variant" -> AddVariants(n, up)

\* Only a category may do without the row it refers to.
Create(r) ==
    /\ pc[r] = "new"
    /\ \E k \in Kind, n \in Name, c \in Cost :
        \E up \in IF k \in DOMAIN UpKind THEN {i \in Id : row[i] # None /\ row[i].kind = UpKind[k]}
                                                \cup IF k = "category" THEN {None} ELSE {}
                  ELSE {None} :
            /\ Keep(r, "create", r,
                    [kind |-> k, name |-> n, up |-> up, removed |-> FALSE,
                     cost |-> IF k = "variant" THEN c ELSE None], {}, FALSE, {})
            /\ Goto(r, IF MayCreate(k, n, up) THEN "insert" ELSE "rejected")
    /\ UNCHANGED <<row, image, stored, stale, overtaken>>

Insert(r) ==
    /\ pc[r] = "insert" /\ ~NameTaken(r, mem[r].row)
    /\ row' = [row EXCEPT ![r] = mem[r].row]
    /\ Goto(r, "done")
    /\ UNCHANGED <<image, stored, mem, stale, overtaken>>
-----------------------------------------------------------------------------
(* update, updateVariant *)

\* Mutated form: keeps the joined row itself.
LoadedWithRow(i) == [row[i] EXCEPT !.up = IF @ # None /\ Found(@) THEN row[@] ELSE None]

\* The entity as loaded: a reference to a removed row reads as null.
Loaded(i) == [row[i] EXCEPT !.up = IF @ # None /\ Found(@) THEN @ ELSE None]

\* What each update assigns to the entity it loaded.
Named(v, n) == [v EXCEPT !.name = IF n = None THEN @ ELSE n]
UpdateCategory(v, n, up) == [Named(v, n) EXCEPT !.up = IF up = None THEN @ ELSE up]
UpdateSupplier(v, n) == Named(v, n)
UpdateBranch(v, n) == Named(v, n)
UpdateEvent(v, n) == Named(v, n)
UpdateVariant(v, n, c) == [Named(v, n) EXCEPT !.cost = IF c = None THEN @ ELSE c]

\* A product's categoryId is no column of the entity, and is not saved.
UpdateProduct(v, n) == Named(v, n)

Assigned(v, n, up, c) ==
    CASE v.kind = "category" -> UpdateCategory(v, n, up)
      [] v.kind = "supplier" -> UpdateSupplier(v, n)
      [] v.kind = "branch" -> UpdateBranch(v, n)
      [] v.kind = "event" -> UpdateEvent(v, n)
      [] v.kind = "product" -> UpdateProduct(v, n)
      [] v.kind = "variant" -> UpdateVariant(v, n, c)

\* A category must not be its own parent; only a branch's new name is looked for.
ParentAllowed(i, up) == up # None => up # i /\ Found(up)
NameAllowed(i, n) == row[i].kind = "branch" /\ n # row[i].name => ~NameFound("branch", n)

Given(n, up, c) ==
    {f \in {"name", "up", "cost"} : \/ f = "name" /\ n # None
                                    \/ f = "up" /\ up # None
                                    \/ f = "cost" /\ c # None}

Update(r) ==
    /\ pc[r] = "new"
    /\ \E i \in Id, n \in Name \cup {None}, c \in Cost \cup {None}, up \in Id \cup {None} :
        /\ Found(i)
        /\ c # None => row[i].kind = "variant"
        /\ up # None => row[i].kind = "category" /\ row[up] # None /\ row[up].kind = "category"
        /\ Keep(r, "update", i, Assigned(Loaded(i), n, up, c), Given(n, up, c),
                Loaded(i).up # row[i].up, {})
        /\ Goto(r, IF NameAllowed(i, n) /\ ParentAllowed(i, up) THEN "save" ELSE "rejected")
    /\ UNCHANGED <<row, image, stored, stale, overtaken>>

\* Every column that differs from the row is written, deletedAt included.  The
\* answer then reads the product's category, or the variant's product.
Save(r) ==
    LET i == mem[r].id
        v == mem[r].row
    IN  /\ pc[r] = "save" /\ ~NameTaken(i, v)
        /\ row' = [row EXCEPT ![i] = v]
        /\ stale' = stale \cup (Readers(i) \ {r})
        /\ Goto(r, IF v.kind \in {"product", "variant"} /\ v.up = None THEN "failed" ELSE "done")
        /\ UNCHANGED <<image, stored, mem, overtaken>>

\* createPurchase writes the one column.
UpdateCostPrice(i, c) ==
    /\ row[i] # None /\ row[i].kind = "variant" /\ row[i].cost # c
    /\ row' = [row EXCEPT ![i].cost = c]
    /\ stale' = stale \cup Readers(i)
    /\ UNCHANGED <<image, stored, pc, mem, overtaken>>
-----------------------------------------------------------------------------
(* remove, deleteVariant, restore *)

Shown(f, i) == image[f] # None /\ image[f].product = i /\ ~image[f].removed

Remove(r) ==
    /\ pc[r] = "new"
    /\ \E i \in Id :
        LET images == {f \in Request : Shown(f, i)}
        IN  /\ Found(i)
            /\ Keep(r, "remove", i, row[i], {}, FALSE, images)
            /\ overtaken' = overtaken \cup {f \in images : pc[f] = "saveProduct"}
    /\ Goto(r, "softRemove")
    /\ UNCHANGED <<row, image, stored, stale>>

\* Mutated form: the images are not loaded, or the cascade is dropped.
SoftRemoveRowOnly(r) ==
    LET i == mem[r].id
    IN  /\ pc[r] = "softRemove"
        /\ row' = [row EXCEPT ![i].removed = TRUE]
        /\ stale' = stale \cup (Readers(i) \ {r})
        /\ Goto(r, IF mem[r].images = {} THEN "done" ELSE "deleteFiles")
        /\ UNCHANGED <<image, stored, mem, overtaken>>

\* softRemove cascades to the images that were loaded with the product.
SoftRemove(r) ==
    LET i == mem[r].id
    IN  /\ pc[r] = "softRemove"
        /\ row' = [row EXCEPT ![i].removed = TRUE]
        /\ image' = [f \in Request |->
               IF f \in mem[r].images /\ image[f] # None THEN [image[f] EXCEPT !.removed = TRUE]
               ELSE image[f]]
        /\ stale' = stale \cup (Readers(i) \ {r})
        /\ Goto(r, IF mem[r].images = {} THEN "done" ELSE "deleteFiles")
        /\ UNCHANGED <<stored, mem, overtaken>>

\* All at once; a file that cannot be deleted ends the request, and others are
\* gone then.
DeleteFiles(r) ==
    /\ pc[r] = "deleteFiles"
    /\ \E gone \in SUBSET mem[r].images :
        /\ stored' = stored \ gone
        /\ Goto(r, IF gone = mem[r].images THEN "deleteRows" ELSE "failed")
    /\ UNCHANGED <<row, image, mem, stale, overtaken>>

\* All images of the product, not only those that were loaded.
DeleteRows(r) ==
    /\ pc[r] = "deleteRows"
    /\ image' = [f \in Request |->
           IF image[f] # None /\ image[f].product = mem[r].id THEN None ELSE image[f]]
    /\ Goto(r, "done")
    /\ UNCHANGED <<row, stored, mem, stale, overtaken>>

\* One statement, for rows that are not removed as well.
Restore(r) ==
    /\ pc[r] = "new"
    /\ \E i \in Id :
        /\ row[i] # None /\ row[i].kind \in Restorable
        /\ row' = [row EXCEPT ![i].removed = FALSE]
        /\ stale' = stale \cup Readers(i)
    /\ Goto(r, "done")
    /\ UNCHANGED <<image, stored, mem, overtaken>>
-----------------------------------------------------------------------------
(* uploadProductImages *)

Upload(r) ==
    /\ pc[r] = "new"
    /\ \E i \in OfKind("product") : Keep(r, "upload", i, row[i], {}, FALSE, {})
    /\ Goto(r, "uploadFiles")
    /\ UNCHANGED <<row, image, stored, stale, overtaken>>

UploadFiles(r) ==
    /\ pc[r] = "uploadFiles"
    /\ stored' = stored \cup {r}
    /\ Goto(r, "saveImages")
    /\ UNCHANGED <<row, image, mem, stale, overtaken>>

SaveImages(r) ==
    /\ pc[r] = "saveImages"
    /\ image' = [image EXCEPT ![r] = [product |-> mem[r].id, removed |-> FALSE]]
    /\ Goto(r, "saveProduct")
    /\ UNCHANGED <<row, stored, mem, stale, overtaken>>

\* Mutated form: product.images is empty when the product is saved.
SaveProductWithout(r) ==
    LET i == mem[r].id
    IN  /\ pc[r] = "saveProduct"
        /\ row' = [row EXCEPT ![i].name = mem[r].row.name, ![i].removed = FALSE]
        /\ image' = [f \in Request |->
               IF image[f] # None /\ image[f].product = i
               THEN [image[f] EXCEPT !.product = None] ELSE image[f]]
        /\ stale' = stale \cup (Readers(i) \ {r})
        /\ Goto(r, "done")
        /\ UNCHANGED <<stored, mem, overtaken>>

\* product.images holds the new images only: the save cascades to them, and
\* takes the product from all others.
SaveProduct(r) ==
    LET i == mem[r].id
    IN  /\ pc[r] = "saveProduct"
        /\ row' = [row EXCEPT ![i].name = mem[r].row.name, ![i].removed = FALSE]
        /\ image' = [f \in Request |->
               IF f = r THEN [product |-> i, removed |-> FALSE]
               ELSE IF image[f] # None /\ image[f].product = i
                    THEN [image[f] EXCEPT !.product = None] ELSE image[f]]
        /\ stale' = stale \cup (Readers(i) \ {r})
        /\ Goto(r, "done")
        /\ UNCHANGED <<stored, mem, overtaken>>
-----------------------------------------------------------------------------
\* The unique index refuses the row.
Refused(r) ==
    /\ pc[r] \in {"insert", "save"} /\ NameTaken(mem[r].id, mem[r].row)
    /\ Goto(r, "refused")
    /\ UNCHANGED <<row, image, stored, mem, stale, overtaken>>

\* A query or the storage provider fails, or the process dies.
Fail(r) ==
    /\ pc[r] \in InFlight
    /\ Goto(r, "failed")
    /\ UNCHANGED <<row, image, stored, mem, stale, overtaken>>

Quiet == \A r \in Request : pc[r] \in Ended

Next ==
    \/ \E r \in Request :
          \/ Create(r) \/ Insert(r) \/ Update(r) \/ Save(r)
          \/ Remove(r) \/ SoftRemove(r) \/ DeleteFiles(r) \/ DeleteRows(r) \/ Restore(r)
          \/ Upload(r) \/ UploadFiles(r) \/ SaveImages(r) \/ SaveProduct(r)
          \/ Refused(r) \/ Fail(r)
    \/ \E i \in Id, c \in Cost : UpdateCostPrice(i, c)
    \/ Quiet /\ UNCHANGED vars

Spec == Init /\ [][Next]_vars
-----------------------------------------------------------------------------
Column(v, f) == CASE f = "name" -> v.name [] f = "up" -> v.up [] f = "cost" -> v.cost

(***************************************************************************)
(* An update changes the columns it was asked to change.  There are two    *)
(* exceptions: the row changed since it was read, whose old values are     *)
(* written back, and with them the null deletedAt of a row that was        *)
(* removed; and the row it refers to was removed when it was read, which   *)
(* cuts the reference for good, a later restore or not.                    *)
(***************************************************************************)
UpdatesDoWhatTheyWereAsked ==
    [][\A r \in Request :
          pc[r] = "save" /\ row' # row /\ pc'[r] # "save" =>
              LET i == mem[r].id
              IN  \/ r \in stale
                  \/ /\ ~row[i].removed
                     /\ \A f \in {"name", "up", "cost"} \ mem[r].asked :
                           \/ Column(row'[i], f) = Column(row[i], f)
                           \/ f = "up" /\ mem[r].cut]_vars

(***************************************************************************)
(* A product that is found shows no image whose file is gone, however      *)
(* uploads, removals that fail half-way and restores interleave, unless    *)
(* the removal found an image whose upload had yet to save the product.    *)
(***************************************************************************)
NoBrokenImages ==
    \A f \in Request, i \in Id :
        Found(i) /\ Shown(f, i) => f \in stored \cup overtaken

(***************************************************************************)
(* What an upload stored and answered for stays an image of the product,   *)
(* or its file is deleted, unless another upload of the product took it    *)
(* away, or a removal that is not over or had not found it.                *)
(***************************************************************************)
ImagesKept ==
    \A f \in stored :
        pc[f] = "done" /\ (image[f] = None \/ image[f].product = None \/ image[f].removed) =>
            \E q \in Request \ {f} :
                /\ mem[q] # None /\ mem[q].id = mem[f].id
                /\ \/ mem[q].op = "upload" /\ pc[q] = "done"
                   \/ mem[q].op = "remove" /\ (pc[q] \in InFlight \cup {"failed"} \/ f \notin mem[q].images)
=============================================================================

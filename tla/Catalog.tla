------------------------------ MODULE Catalog ------------------------------
(***************************************************************************)
(* The product catalogue of the API: CategoriesService, ProductsService and *)
(* VariantsService over their three tables, and the files LocalStorage      *)
(* keeps for their images.  Nothing here runs in a transaction: a request   *)
(* is a list of statements, each atomic by itself, and other requests run   *)
(* between any two of them.                                                 *)
(*                                                                          *)
(* Products and variants differ in one table name and one path parameter,   *)
(* so both are items here.  Ids are fresh UUIDs: an id that was deleted is  *)
(* never used again, and the file a request saves is named by the request.  *)
(***************************************************************************)
EXTENDS Naturals, Sequences

CONSTANTS
    Category, Product, Variant,   \* the ids that may come to exist
    VariantOf,                    \* the product of each variant id
    Sku,
    Request,                      \* the HTTP requests of a run
    Exclusive,                    \* sets of operations that never overlap
    Openings,                     \* [tree, asks]: the categories a run starts with
                                  \* and what each request may turn out to ask
    OpeningSku, OpeningHome       \* the items it starts with

Item == Product \cup Variant
Key  == Request \cup Item         \* an opening image is named by its item

\* Ids, SKUs and requests are not the words the tables and bodies use beside
\* them; a run starts with a forest of categories and items that exist.
ASSUME CatalogAssumption ==
    /\ VariantOf \in [Variant -> Product]
    /\ Product \cap Variant = {} /\ Request \cap Item = {}
    /\ Category \cap {"null", "keep", "unborn", "gone", "absent"} = {}
    /\ Sku \cap {"null", "keep", "unborn"} = {}
    /\ "null" \notin Key
    /\ OpeningSku \in [Item -> Sku \cup {"unborn"}]
    /\ OpeningHome \in [Product -> Category \cup {"null"}]
    /\ \A o \in Openings :
          /\ o.tree \in [Category -> Category \cup {"null", "unborn"}]
          /\ \A p \in Product : OpeningHome[p] \in Category =>
                                     o.tree[OpeningHome[p]] # "unborn"
          /\ \A c \in Category : o.tree[c] \in Category => o.tree[o.tree[c]] # "unborn"
          /\ \A S \in (SUBSET Category) \ {{}} : \E c \in S : o.tree[c] \notin S
          /\ o.asks \in [Request -> SUBSET STRING]

VARIABLES
    parent,    \* categories.parent_id; "unborn" or "gone" without a row
    sku,       \* products.sku and product_variants.sku, "unborn" without a row
    home,      \* products.category_id
    image,     \* image_key of an item
    archived,  \* the items whose status is ARCHIVED
    files,     \* the files under the storage directory
    req        \* per request: its arguments and the statements it has left

tables == <<parent, sku, home, archived>>
store  == <<image, files>>
catalogVars == <<tables, store, req>>

-----------------------------------------------------------------------------
\* Requests.  "id" is the row a request is about, "to" the parent, category or
\* path product it names ("null" clears it, "keep" leaves it out of the body),
\* "cursor" the category its walk has reached and "old" the image key it read.

NewRequest == [op |-> "none", status |-> "new", id |-> "none", to |-> "keep",
               sku |-> "keep", cursor |-> "null", old |-> "null", todo |-> <<>>,
               asks |-> {}]

Busy(r) == req[r].status = "busy"

At(r, s) == Busy(r) /\ req[r].todo # <<>> /\ req[r].todo[1] = s

Advance(r) == req' = [req EXCEPT ![r].todo = Tail(@)]

\* Only a request that failed is remembered: it may have left half of its work.
Answer(r, how) ==
    req' = [req EXCEPT ![r] =
              IF how = "failed"
              THEN [NewRequest EXCEPT !.status = how, !.op = req[r].op, !.id = req[r].id]
              ELSE [NewRequest EXCEPT !.status = how]]

\* Two operations of an exclusive set do not overlap.
MayStart(r, op) ==
    /\ req[r].status = "new" /\ op \in req[r].asks
    /\ \A s \in Request : Busy(s) => {op, req[s].op} \notin Exclusive

Begin(r, op, id, to, k, todo) ==
    /\ MayStart(r, op)
    /\ req' = [req EXCEPT ![r] = [NewRequest EXCEPT
                  !.op = op, !.status = "busy", !.id = id, !.to = to,
                  !.sku = k, !.todo = todo]]
    /\ UNCHANGED <<tables, store>>

\* What a column holds once a body that may leave it out is written.
\* A bug: a field that is left out is written as if it were given.
GivenOrNothing(new, old) == new

Given(new, old) == IF new = "keep" THEN old ELSE new

Fresh(id) == \A r \in Request : req[r].id # id

\* What the body names is looked up first, if it names it.
IfNamed(x, looking, plain) == IF x \in {"keep", "null"} THEN plain ELSE looking

Listed(c) == parent[c] \notin {"unborn", "gone"}
Born(i)   == sku[i] # "unborn"

-----------------------------------------------------------------------------
\* CategoriesService

CreateCategory(r) ==
    \E c \in Category, p \in Category \cup {"null"} :
        /\ parent[c] = "unborn" /\ Fresh(c)
        /\ p # "null" => parent[p] # "unborn"
        /\ Begin(r, "createCategory", c, p, "keep",
                 IfNamed(p, <<"parent", "storeCategory", "log">>, <<"storeCategory", "log">>))

UpdateCategory(r) ==
    \E c \in Category, p \in Category \cup {"null", "keep"} :
        /\ parent[c] # "unborn"
        /\ p \in Category => parent[p] # "unborn"
        /\ Begin(r, "updateCategory", c, p, "keep",
                 IfNamed(p, <<"category", "parent", "walk", "storeCategory", "log">>,
                            <<"category", "storeCategory", "log">>))

RemoveCategory(r) ==
    \E c \in Category :
        /\ parent[c] # "unborn"
        /\ Begin(r, "removeCategory", c, "keep", "keep",
                 <<"category", "children", "products", "deleteCategory", "log">>)

\* What each look-up must find; a request it disappoints is refused.
CategoryExists(x) == Listed(x.id)
ParentFits(x)     == x.to # x.id /\ Listed(x.to)
NoChildren(x)     == \A c \in Category : parent[c] # x.id

\* A bug: archived products are not counted.
NoActiveProducts(x) == \A p \in Product \ archived : home[p] # x.id
NoProducts(x)       == \A p \in Product : home[p] # x.id

\* A bug: the walk compares its first category for ever.
NamedParent(x) == x.to

\* The category the walk up from the new parent has come to.
Reached(x) == IF x.cursor = "null" THEN x.to ELSE x.cursor

ClosesCycle(x) == Reached(x) = x.id

\* One round of assertNoCycle: compare the cursor, then read its parent.
Walk(r) ==
    /\ At(r, "walk")
    /\ IF ClosesCycle(req[r]) THEN Answer(r, "refused")
       ELSE IF parent[Reached(req[r])] \in Category
            THEN req' = [req EXCEPT ![r].cursor = parent[Reached(req[r])]]
            ELSE Advance(r)
    /\ UNCHANGED <<tables, store>>

\* INSERT or UPDATE; the foreign key wants the parent, the update its row.
StoreCategory(r) ==
    LET x == req[r]
        stored == /\ x.op = "updateCategory" => Listed(x.id)
                  /\ x.to \in Category => Listed(x.to)
    IN  /\ At(r, "storeCategory")
        /\ IF stored
           THEN /\ parent' = [parent EXCEPT ![x.id] = Given(x.to, @)]
                /\ Advance(r)
           ELSE Answer(r, "failed") /\ UNCHANGED parent
        /\ UNCHANGED <<sku, home, archived, store>>

\* DELETE; the foreign keys of children and products are set to null.
DeleteCategory(r) ==
    LET c == req[r].id
        Without(f) == [x \in DOMAIN f |-> IF f[x] = c THEN "null" ELSE f[x]]
    IN  /\ At(r, "deleteCategory")
        /\ IF Listed(c)
           THEN /\ parent' = [Without(parent) EXCEPT ![c] = "gone"]
                /\ home' = Without(home)
                /\ Advance(r)
           ELSE Answer(r, "failed") /\ UNCHANGED <<parent, home>>
        /\ UNCHANGED <<sku, archived, store>>

-----------------------------------------------------------------------------
\* ProductsService and VariantsService

CreateProduct(r) ==
    \E p \in Product, k \in Sku, c \in Category \cup {"null"} :
        /\ ~Born(p) /\ Fresh(p)
        /\ c # "null" => parent[c] # "unborn"
        /\ Begin(r, "createProduct", p, c, k,
                 IfNamed(c, <<"parent", "storeProduct", "log">>, <<"storeProduct", "log">>))

UpdateProduct(r) ==
    \E p \in Product, k \in Sku \cup {"keep"}, c \in Category \cup {"null", "keep"} :
        /\ Born(p)
        /\ c \in Category => parent[c] # "unborn"
        /\ Begin(r, "updateProduct", p, c, k,
                 IfNamed(c, <<"item", "parent", "storeProduct", "log">>,
                            <<"item", "storeProduct", "log">>))

CreateVariant(r) ==
    \E v \in Variant, k \in Sku :
        /\ ~Born(v) /\ Fresh(v) /\ Born(VariantOf[v])
        /\ Begin(r, "createVariant", v, VariantOf[v], k,
                 <<"pathProduct", "productSku", "variantSku", "storeVariant", "log">>)

\* The product of the path may be any; the check of a variant compares it.
PathProduct(i) == IF i \in Product THEN {i} ELSE {p \in Product : Born(p)}

UpdateVariant(r) ==
    \E v \in Variant, k \in Sku \cup {"keep"} : \E p \in PathProduct(v) :
        /\ Born(v)
        /\ Begin(r, "updateVariant", v, p, k,
                 IfNamed(k, <<"item", "productSku", "variantSku", "storeVariant", "log">>,
                            <<"item", "storeVariant", "log">>))

Archive(r) ==
    \E i \in Item : \E p \in PathProduct(i) :
        /\ Born(i)
        /\ Begin(r, "archive", i, p, "keep", <<"item", "storeStatus", "log">>)

ItemExists(x)     == Born(x.id) /\ (x.id \in Variant => x.to = VariantOf[x.id])

\* A bug: the SKU of the variant's own product is let through.
OtherProductSkuFree(x) == \A p \in Product \ {x.to} : sku[p] # x.sku
ProductSkuFree(x) == \A p \in Product : sku[p] # x.sku
VariantSkuFree(x) == \A v \in Variant \ {x.id} : sku[v] # x.sku

\* The unique index of the table answers 409, a category that is gone a 500.
StoreProduct(r) ==
    LET x == req[r]
        taken == x.sku # "keep" /\ \E p \in Product \ {x.id} : sku[p] = x.sku
    IN  /\ At(r, "storeProduct")
        /\ \/ taken /\ Answer(r, "refused") /\ UNCHANGED <<sku, home>>
           \/ /\ ~taken /\ x.to \in Category /\ ~Listed(x.to)
              /\ Answer(r, "failed") /\ UNCHANGED <<sku, home>>
           \/ /\ ~taken /\ (x.to \in Category => Listed(x.to))
              /\ sku' = [sku EXCEPT ![x.id] = Given(x.sku, @)]
              /\ home' = [home EXCEPT ![x.id] = Given(x.to, @)]
              /\ Advance(r)
        /\ UNCHANGED <<parent, archived, store>>

StoreVariant(r) ==
    LET x == req[r]
        taken == x.sku # "keep" /\ ~VariantSkuFree(x)
    IN  /\ At(r, "storeVariant")
        /\ \/ taken /\ Answer(r, "refused") /\ UNCHANGED sku
           \/ /\ ~taken
              /\ sku' = [sku EXCEPT ![x.id] = Given(x.sku, @)]
              /\ Advance(r)
        /\ UNCHANGED <<parent, home, archived, store>>

StoreStatus(r) ==
    /\ At(r, "storeStatus")
    /\ archived' = archived \cup {req[r].id}
    /\ Advance(r)
    /\ UNCHANGED <<parent, sku, home, store>>

-----------------------------------------------------------------------------
\* Images: one file per key, named by a row or by none.

\* A bug: the old file goes before the row names the new one.
UploadImageCleansFirst(r) ==
    \E i \in Item : \E p \in PathProduct(i) :
        /\ Born(i)
        /\ Begin(r, "uploadImage", i, p, "keep",
                 <<"look", "save", "clean", "storeImage", "log">>)

UploadImage(r) ==
    \E i \in Item : \E p \in PathProduct(i) :
        /\ Born(i)
        /\ Begin(r, "uploadImage", i, p, "keep",
                 <<"look", "save", "storeImage", "clean", "log">>)

DeleteImage(r) ==
    \E i \in Item : \E p \in PathProduct(i) :
        /\ Born(i)
        /\ Begin(r, "deleteImage", i, p, "keep",
                 <<"look", "unlink", "clearImage", "log">>)

\* The row is found, or not under this path, and its image key remembered.
Look(r) ==
    /\ At(r, "look")
    /\ IF ItemExists(req[r])
       THEN req' = [req EXCEPT ![r].todo = Tail(@), ![r].old = image[req[r].id]]
       ELSE Answer(r, "refused")
    /\ UNCHANGED <<tables, store>>

SaveFile(r) ==
    /\ At(r, "save")
    /\ files' = files \cup {r}
    /\ Advance(r)
    /\ UNCHANGED <<tables, image>>

StoreImage(r) ==
    /\ At(r, "storeImage")
    /\ image' = [image EXCEPT ![req[r].id] = r]
    /\ Advance(r)
    /\ UNCHANGED <<tables, files>>

\* The update throws, whether or not the database took it, and the handler
\* tries to delete the file it saved.
RollBack(r) ==
    /\ At(r, "storeImage")
    /\ image' \in {image, [image EXCEPT ![req[r].id] = r]}
    /\ files' \in {files, files \ {r}}
    /\ Answer(r, "failed")
    /\ UNCHANGED tables

\* The replaced file goes; a failure to delete it is swallowed.
CleanOld(r) ==
    /\ At(r, "clean")
    /\ files' \in {files, files \ {req[r].old}}
    /\ Advance(r)
    /\ UNCHANGED <<tables, image>>

\* deleteImage: the file first, then the row.  A missing file is no error.
Unlink(r) ==
    /\ At(r, "unlink")
    /\ files' = files \ {req[r].old}
    /\ Advance(r)
    /\ UNCHANGED <<tables, image>>

ClearImage(r) ==
    /\ At(r, "clearImage")
    /\ image' = [image EXCEPT ![req[r].id] = "null"]
    /\ Advance(r)
    /\ UNCHANGED <<tables, files>>

-----------------------------------------------------------------------------
\* The look-ups a request makes before it writes.
Finds(r, s) ==
    \/ s = "category"     /\ CategoryExists(req[r])
    \/ s = "parent"       /\ ParentFits(req[r])
    \/ s = "children"     /\ NoChildren(req[r])
    \/ s = "products"     /\ NoProducts(req[r])
    \/ s = "item"         /\ ItemExists(req[r])
    \/ s = "pathProduct" /\ Born(req[r].to)
    \/ s = "productSku"  /\ ProductSkuFree(req[r])
    \/ s = "variantSku"  /\ VariantSkuFree(req[r])

LookUps == {"category", "parent", "children", "products",
            "item", "pathProduct", "productSku", "variantSku"}

LookUp(r) ==
    /\ \E s \in LookUps : At(r, s) /\ IF Finds(r, s) THEN Advance(r)
                                                     ELSE Answer(r, "refused")
    /\ UNCHANGED <<tables, store>>

\* The activity row is written and the handler returns.
Finish(r) ==
    /\ At(r, "log")
    /\ Answer(r, "ok")
    /\ UNCHANGED <<tables, store>>

\* A statement, a file operation or the process fails; what was written stays.
Fail(r) ==
    /\ Busy(r)
    /\ Answer(r, "failed")
    /\ UNCHANGED <<tables, store>>

Arrive(r) ==
    \/ CreateCategory(r) \/ UpdateCategory(r) \/ RemoveCategory(r)
    \/ CreateProduct(r)  \/ UpdateProduct(r)  \/ Archive(r)
    \/ CreateVariant(r)  \/ UpdateVariant(r)
    \/ UploadImage(r)    \/ DeleteImage(r)

Serve(r) ==
    \/ LookUp(r) \/ Walk(r) \/ StoreCategory(r) \/ DeleteCategory(r)
    \/ StoreProduct(r) \/ StoreVariant(r) \/ StoreStatus(r)
    \/ Look(r) \/ SaveFile(r) \/ StoreImage(r) \/ CleanOld(r)
    \/ Unlink(r) \/ ClearImage(r) \/ Finish(r)

\* No further request comes; whatever was asked is answered.
Quiet == (\A r \in Request : ~Busy(r)) /\ UNCHANGED catalogVars

Init ==
    /\ \E o \in Openings :
          /\ parent = o.tree
          /\ req = [r \in Request |-> [NewRequest EXCEPT !.asks = o.asks[r]]]
    /\ sku = OpeningSku
    /\ home = OpeningHome
    /\ archived = {}
    /\ image = [i \in Item |-> IF Born(i) THEN i ELSE "null"]
    /\ files = {i \in Item : Born(i)}

Next ==
    \/ \E r \in Request : Arrive(r) \/ Serve(r) \/ RollBack(r) \/ Fail(r)
    \/ Quiet

\* A handler whose next statement can run runs it; no failure is certain.
Spec == /\ Init
        /\ [][Next]_catalogVars
        /\ \A r \in Request : WF_catalogVars(Serve(r))

-----------------------------------------------------------------------------
\* The tables, the files and the requests keep their types.
TypeOK ==
    /\ parent \in [Category -> Category \cup {"null", "unborn", "gone"}]
    /\ sku \in [Item -> Sku \cup {"unborn"}]
    /\ home \in [Product -> Category \cup {"null"}]
    /\ image \in [Item -> Key \cup {"null"}]
    /\ archived \subseteq Item
    /\ files \subseteq Key
    /\ \A r \in Request :
          /\ req[r].status \in {"new", "busy", "ok", "refused", "failed"}
          /\ req[r].cursor \in Category \cup {"null"}
          /\ req[r].old \in Key \cup {"null"}

(***************************************************************************)
(* "Atomic replacement order" (products.service.ts:195-203): a row names a  *)
(* file that is not there only because a deleteImage of that row is between *)
(* its two steps or failed there, or because an upload to it failed.  No    *)
(* overlap of uploads and deletions, answered ok, leaves one.               *)
(***************************************************************************)
ImagesPresent ==
    \A i \in Item : image[i] \in Key \ files =>
        \E r \in Request :
            /\ req[r].id = i
            /\ \/ req[r].op = "deleteImage" /\ req[r].status \in {"busy", "failed"}
               \/ req[r].op = "uploadImage" /\ req[r].status = "failed"

(***************************************************************************)
(* The check across the two tables (variants.service.ts:303-326): a variant *)
(* never takes a SKU that a product holds, as long as no product is written *)
(* while it runs; also when other variants, archives and uploads do.        *)
(***************************************************************************)
VariantsAvoidProducts ==
    [][\A v \in Variant : sku'[v] # sku[v] => \A p \in Product : sku'[v] # sku[p]]_sku

(***************************************************************************)
(* Every request is answered, each being served once: in particular the     *)
(* walk up the parents ends, because no cycle is ever there to walk in.     *)
(***************************************************************************)
EveryRequestAnswered == <>[](\A r \in Request : ~Busy(r))

(***************************************************************************)
(* While no two moves overlap, and no removal overlaps with a request that  *)
(* may attach to what it removes, the statements implement Forest: no cycle *)
(* is closed, and removing a category detaches nothing.                     *)
(***************************************************************************)
Tree == INSTANCE Forest WITH
    up   <- [c \in Category |-> IF Listed(c) THEN parent[c] ELSE "absent"],
    home <- home

ImplementsForest == Tree!ForestSpec
=============================================================================

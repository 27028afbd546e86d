--------------------------- MODULE CatalogProofs ---------------------------
(***************************************************************************)
(* Proofs about Catalog, for any categories, items, SKUs and requests:     *)
(* what images keep whatever overlaps, what the SKU check of the variants  *)
(* keeps apart from product writes, and that the category tree stays a     *)
(* forest when moves, and removals and attachments, are kept apart.        *)
(***************************************************************************)
EXTENDS Catalog, TLAPS

-----------------------------------------------------------------------------
\* What each operation still has to do, from its first statement to its last.

CreateCategoryTodo ==
    {<<"parent", "storeCategory", "log">>, <<"storeCategory", "log">>, <<"log">>}

MoveTodo ==
    {<<"category", "parent", "walk", "storeCategory", "log">>,
     <<"parent", "walk", "storeCategory", "log">>, <<"walk", "storeCategory", "log">>,
     <<"storeCategory", "log">>, <<"log">>}

EditTodo ==
    {<<"category", "storeCategory", "log">>, <<"storeCategory", "log">>, <<"log">>}

RemoveTodo ==
    {<<"category", "children", "products", "deleteCategory", "log">>,
     <<"children", "products", "deleteCategory", "log">>,
     <<"products", "deleteCategory", "log">>, <<"deleteCategory", "log">>, <<"log">>}

CreateProductTodo ==
    {<<"parent", "storeProduct", "log">>, <<"storeProduct", "log">>, <<"log">>}

UpdateProductTodo ==
    {<<"item", "parent", "storeProduct", "log">>, <<"parent", "storeProduct", "log">>,
     <<"item", "storeProduct", "log">>, <<"storeProduct", "log">>, <<"log">>}

CreateVariantTodo ==
    {<<"pathProduct", "productSku", "variantSku", "storeVariant", "log">>,
     <<"productSku", "variantSku", "storeVariant", "log">>,
     <<"variantSku", "storeVariant", "log">>, <<"storeVariant", "log">>, <<"log">>}

CheckedTodo ==
    {<<"item", "productSku", "variantSku", "storeVariant", "log">>,
     <<"productSku", "variantSku", "storeVariant", "log">>,
     <<"variantSku", "storeVariant", "log">>, <<"storeVariant", "log">>, <<"log">>}

VariantEditTodo ==
    {<<"item", "storeVariant", "log">>, <<"storeVariant", "log">>, <<"log">>}

ArchiveTodo ==
    {<<"item", "storeStatus", "log">>, <<"storeStatus", "log">>, <<"log">>}

UploadTodo ==
    {<<"look", "save", "storeImage", "clean", "log">>,
     <<"save", "storeImage", "clean", "log">>, <<"storeImage", "clean", "log">>,
     <<"clean", "log">>, <<"log">>}

DeleteTodo ==
    {<<"look", "unlink", "clearImage", "log">>, <<"unlink", "clearImage", "log">>,
     <<"clearImage", "log">>, <<"log">>}

Todo == {<<>>} \cup CreateCategoryTodo \cup MoveTodo \cup EditTodo \cup RemoveTodo
               \cup CreateProductTodo \cup UpdateProductTodo
               \cup CreateVariantTodo \cup CheckedTodo \cup VariantEditTodo
               \cup ArchiveTodo \cup UploadTodo \cup DeleteTodo

CategoryWrites == {"createCategory", "updateCategory"}
ProductWrites  == {"createProduct", "updateProduct"}
VariantWrites  == {"createVariant", "updateVariant"}
Operation == CategoryWrites \cup ProductWrites \cup VariantWrites
                \cup {"removeCategory", "archive", "uploadImage", "deleteImage"}

Body == [op : Operation \cup {"none"},
         status : {"new", "busy", "ok", "refused", "failed"},
         id : Category \cup Item \cup {"none"},
         to : Category \cup Product \cup {"null", "keep"}, sku : Sku \cup {"keep"},
         cursor : Category \cup {"null"}, old : Key \cup {"null"},
         todo : Todo, asks : SUBSET STRING]

\* A request under way is about what its operation is about, and has some rest
\* of the operation's statements left.
Planned(x) ==
    /\ x.op = "createCategory" =>
          x.id \in Category /\ x.to \in Category \cup {"null"} /\ x.to # x.id
                            /\ x.todo \in CreateCategoryTodo
    /\ x.op = "updateCategory" =>
          /\ x.id \in Category /\ x.to \in Category \cup {"null", "keep"}
          /\ x.to \in Category => x.todo \in MoveTodo
          /\ x.to \notin Category => x.todo \in EditTodo
    /\ x.op = "removeCategory" => x.id \in Category /\ x.todo \in RemoveTodo
    /\ x.op \in ProductWrites =>
          x.id \in Product /\ x.to \in Category \cup {"null", "keep"}
    /\ x.op = "createProduct" => x.todo \in CreateProductTodo
    /\ x.op = "updateProduct" => x.todo \in UpdateProductTodo
    /\ x.op \in VariantWrites => x.id \in Variant /\ x.to \in Product
    /\ x.op = "createVariant" => x.sku \in Sku /\ x.todo \in CreateVariantTodo
    /\ x.op = "updateVariant" =>
          /\ x.sku \in Sku => x.todo \in CheckedTodo
          /\ x.sku \notin Sku => x.todo \in VariantEditTodo
    /\ x.op \in {"archive", "uploadImage", "deleteImage"} =>
          x.id \in Item /\ x.to \in Product
    /\ x.op = "archive" => x.todo \in ArchiveTodo
    /\ x.op = "uploadImage" => x.todo \in UploadTodo
    /\ x.op = "deleteImage" => x.todo \in DeleteTodo

Underway(x) == x.op \in Operation /\ Planned(x)

TablesOK ==
    /\ parent \in [Category -> Category \cup {"null", "unborn", "gone"}]
    /\ sku \in [Item -> Sku \cup {"unborn"}]
    /\ home \in [Product -> Category \cup {"null"}]
    /\ archived \subseteq Item

StoreOK == image \in [Item -> Key \cup {"null"}] /\ files \subseteq Key

RequestsOK ==
    /\ req \in [Request -> Body]
    /\ \A r \in Request : Busy(r) => Underway(req[r])

Typed == TablesOK /\ StoreOK /\ RequestsOK

-----------------------------------------------------------------------------
\* Creating a category, below another or not: what is left after each statement.
LEMMA CreateCategoryTodoSteps ==
  ASSUME NEW t \in CreateCategoryTodo
  PROVE  /\ t # <<>>
         /\ t[1] \in {"parent", "storeCategory", "log"}
         /\ t[1] # "log" => Tail(t) \in CreateCategoryTodo
         /\ t[1] = "parent" => t = <<"parent", "storeCategory", "log">>
         /\ t[1] = "parent" => Tail(t) = <<"storeCategory", "log">>
         /\ t[1] = "storeCategory" => t = <<"storeCategory", "log">>
         /\ t[1] = "storeCategory" => Tail(t) = <<"log">>
  <1>1. CASE t = <<"parent", "storeCategory", "log">> BY <1>1 DEF CreateCategoryTodo
  <1>2. CASE t = <<"storeCategory", "log">> BY <1>2 DEF CreateCategoryTodo
  <1>3. CASE t = <<"log">> BY <1>3 DEF CreateCategoryTodo
  <1> QED BY <1>1, <1>2, <1>3 DEF CreateCategoryTodo

\* Moving a category: what is left after each statement.
LEMMA MoveTodoSteps ==
  ASSUME NEW t \in MoveTodo
  PROVE  /\ t # <<>>
         /\ t[1] \in {"category", "parent", "walk", "storeCategory", "log"}
         /\ t[1] # "log" => Tail(t) \in MoveTodo
         /\ t[1] = "category" => t = <<"category", "parent", "walk", "storeCategory", "log">>
         /\ t[1] = "category" => Tail(t) = <<"parent", "walk", "storeCategory", "log">>
         /\ t[1] = "parent" => t = <<"parent", "walk", "storeCategory", "log">>
         /\ t[1] = "parent" => Tail(t) = <<"walk", "storeCategory", "log">>
         /\ t[1] = "walk" => t = <<"walk", "storeCategory", "log">>
         /\ t[1] = "walk" => Tail(t) = <<"storeCategory", "log">>
         /\ t[1] = "storeCategory" => t = <<"storeCategory", "log">>
         /\ t[1] = "storeCategory" => Tail(t) = <<"log">>
  <1>1. CASE t = <<"category", "parent", "walk", "storeCategory", "log">>
    BY <1>1 DEF MoveTodo
  <1>2. CASE t = <<"parent", "walk", "storeCategory", "log">> BY <1>2 DEF MoveTodo
  <1>3. CASE t = <<"walk", "storeCategory", "log">> BY <1>3 DEF MoveTodo
  <1>4. CASE t = <<"storeCategory", "log">> BY <1>4 DEF MoveTodo
  <1>5. CASE t = <<"log">> BY <1>5 DEF MoveTodo
  <1> QED BY <1>1, <1>2, <1>3, <1>4, <1>5 DEF MoveTodo

\* Another update of a category: what is left after each statement.
LEMMA EditTodoSteps ==
  ASSUME NEW t \in EditTodo
  PROVE  /\ t # <<>>
         /\ t[1] \in {"category", "storeCategory", "log"}
         /\ t[1] # "log" => Tail(t) \in EditTodo
         /\ t[1] = "category" => t = <<"category", "storeCategory", "log">>
         /\ t[1] = "category" => Tail(t) = <<"storeCategory", "log">>
         /\ t[1] = "storeCategory" => t = <<"storeCategory", "log">>
         /\ t[1] = "storeCategory" => Tail(t) = <<"log">>
  <1>1. CASE t = <<"category", "storeCategory", "log">> BY <1>1 DEF EditTodo
  <1>2. CASE t = <<"storeCategory", "log">> BY <1>2 DEF EditTodo
  <1>3. CASE t = <<"log">> BY <1>3 DEF EditTodo
  <1> QED BY <1>1, <1>2, <1>3 DEF EditTodo

\* Removing a category: what is left after each statement.
LEMMA RemoveTodoSteps ==
  ASSUME NEW t \in RemoveTodo
  PROVE  /\ t # <<>>
         /\ t[1] \in {"category", "children", "products", "deleteCategory", "log"}
         /\ t[1] # "log" => Tail(t) \in RemoveTodo
         /\ t[1] = "category" =>
               t = <<"category", "children", "products", "deleteCategory", "log">>
         /\ t[1] = "category" => Tail(t) = <<"children", "products", "deleteCategory", "log">>
         /\ t[1] = "children" => t = <<"children", "products", "deleteCategory", "log">>
         /\ t[1] = "children" => Tail(t) = <<"products", "deleteCategory", "log">>
         /\ t[1] = "products" => t = <<"products", "deleteCategory", "log">>
         /\ t[1] = "products" => Tail(t) = <<"deleteCategory", "log">>
         /\ t[1] = "deleteCategory" => t = <<"deleteCategory", "log">>
         /\ t[1] = "deleteCategory" => Tail(t) = <<"log">>
  <1>1. CASE t = <<"category", "children", "products", "deleteCategory", "log">>
    BY <1>1 DEF RemoveTodo
  <1>2. CASE t = <<"children", "products", "deleteCategory", "log">>
    BY <1>2 DEF RemoveTodo
  <1>3. CASE t = <<"products", "deleteCategory", "log">> BY <1>3 DEF RemoveTodo
  <1>4. CASE t = <<"deleteCategory", "log">> BY <1>4 DEF RemoveTodo
  <1>5. CASE t = <<"log">> BY <1>5 DEF RemoveTodo
  <1> QED BY <1>1, <1>2, <1>3, <1>4, <1>5 DEF RemoveTodo

\* Creating a product: what is left after each statement.
LEMMA CreateProductTodoSteps ==
  ASSUME NEW t \in CreateProductTodo
  PROVE  /\ t # <<>>
         /\ t[1] \in {"parent", "storeProduct", "log"}
         /\ t[1] # "log" => Tail(t) \in CreateProductTodo
         /\ t[1] = "parent" => t = <<"parent", "storeProduct", "log">>
         /\ t[1] = "parent" => Tail(t) = <<"storeProduct", "log">>
         /\ t[1] = "storeProduct" => t = <<"storeProduct", "log">>
         /\ t[1] = "storeProduct" => Tail(t) = <<"log">>
  <1>1. CASE t = <<"parent", "storeProduct", "log">> BY <1>1 DEF CreateProductTodo
  <1>2. CASE t = <<"storeProduct", "log">> BY <1>2 DEF CreateProductTodo
  <1>3. CASE t = <<"log">> BY <1>3 DEF CreateProductTodo
  <1> QED BY <1>1, <1>2, <1>3 DEF CreateProductTodo

\* Updating a product: what is left after each statement.
LEMMA UpdateProductTodoSteps ==
  ASSUME NEW t \in UpdateProductTodo
  PROVE  /\ t # <<>>
         /\ t[1] \in {"item", "parent", "storeProduct", "log"}
         /\ t[1] # "log" => Tail(t) \in UpdateProductTodo
         /\ t[1] = "parent" => t = <<"parent", "storeProduct", "log">>
         /\ t[1] = "parent" => Tail(t) = <<"storeProduct", "log">>
         /\ t[1] = "storeProduct" => t = <<"storeProduct", "log">>
         /\ t[1] = "storeProduct" => Tail(t) = <<"log">>
  <1>1. CASE t = <<"item", "parent", "storeProduct", "log">>
    BY <1>1 DEF UpdateProductTodo
  <1>2. CASE t = <<"parent", "storeProduct", "log">> BY <1>2 DEF UpdateProductTodo
  <1>3. CASE t = <<"item", "storeProduct", "log">> BY <1>3 DEF UpdateProductTodo
  <1>4. CASE t = <<"storeProduct", "log">> BY <1>4 DEF UpdateProductTodo
  <1>5. CASE t = <<"log">> BY <1>5 DEF UpdateProductTodo
  <1> QED BY <1>1, <1>2, <1>3, <1>4, <1>5 DEF UpdateProductTodo

\* Creating a variant: what is left after each statement.
LEMMA CreateVariantTodoSteps ==
  ASSUME NEW t \in CreateVariantTodo
  PROVE  /\ t # <<>>
         /\ t[1] \in {"pathProduct", "productSku", "variantSku", "storeVariant", "log"}
         /\ t[1] # "log" => Tail(t) \in CreateVariantTodo
         /\ t[1] = "pathProduct" =>
               t = <<"pathProduct", "productSku", "variantSku", "storeVariant", "log">>
         /\ t[1] = "pathProduct" =>
               Tail(t) = <<"productSku", "variantSku", "storeVariant", "log">>
         /\ t[1] = "productSku" => t = <<"productSku", "variantSku", "storeVariant", "log">>
         /\ t[1] = "productSku" => Tail(t) = <<"variantSku", "storeVariant", "log">>
         /\ t[1] = "variantSku" => t = <<"variantSku", "storeVariant", "log">>
         /\ t[1] = "variantSku" => Tail(t) = <<"storeVariant", "log">>
         /\ t[1] = "storeVariant" => t = <<"storeVariant", "log">>
         /\ t[1] = "storeVariant" => Tail(t) = <<"log">>
  <1>1. CASE t = <<"pathProduct", "productSku", "variantSku", "storeVariant", "log">>
    BY <1>1 DEF CreateVariantTodo
  <1>2. CASE t = <<"productSku", "variantSku", "storeVariant", "log">>
    BY <1>2 DEF CreateVariantTodo
  <1>3. CASE t = <<"variantSku", "storeVariant", "log">> BY <1>3 DEF CreateVariantTodo
  <1>4. CASE t = <<"storeVariant", "log">> BY <1>4 DEF CreateVariantTodo
  <1>5. CASE t = <<"log">> BY <1>5 DEF CreateVariantTodo
  <1> QED BY <1>1, <1>2, <1>3, <1>4, <1>5 DEF CreateVariantTodo

\* Updating the SKU of a variant: what is left after each statement.
LEMMA CheckedTodoSteps ==
  ASSUME NEW t \in CheckedTodo
  PROVE  /\ t # <<>>
         /\ t[1] \in {"item", "productSku", "variantSku", "storeVariant", "log"}
         /\ t[1] # "log" => Tail(t) \in CheckedTodo
         /\ t[1] = "item" => t = <<"item", "productSku", "variantSku", "storeVariant", "log">>
         /\ t[1] = "item" => Tail(t) = <<"productSku", "variantSku", "storeVariant", "log">>
         /\ t[1] = "productSku" => t = <<"productSku", "variantSku", "storeVariant", "log">>
         /\ t[1] = "productSku" => Tail(t) = <<"variantSku", "storeVariant", "log">>
         /\ t[1] = "variantSku" => t = <<"variantSku", "storeVariant", "log">>
         /\ t[1] = "variantSku" => Tail(t) = <<"storeVariant", "log">>
         /\ t[1] = "storeVariant" => t = <<"storeVariant", "log">>
         /\ t[1] = "storeVariant" => Tail(t) = <<"log">>
  <1>1. CASE t = <<"item", "productSku", "variantSku", "storeVariant", "log">>
    BY <1>1 DEF CheckedTodo
  <1>2. CASE t = <<"productSku", "variantSku", "storeVariant", "log">>
    BY <1>2 DEF CheckedTodo
  <1>3. CASE t = <<"variantSku", "storeVariant", "log">> BY <1>3 DEF CheckedTodo
  <1>4. CASE t = <<"storeVariant", "log">> BY <1>4 DEF CheckedTodo
  <1>5. CASE t = <<"log">> BY <1>5 DEF CheckedTodo
  <1> QED BY <1>1, <1>2, <1>3, <1>4, <1>5 DEF CheckedTodo

\* Another update of a variant: what is left after each statement.
LEMMA VariantEditTodoSteps ==
  ASSUME NEW t \in VariantEditTodo
  PROVE  /\ t # <<>>
         /\ t[1] \in {"item", "storeVariant", "log"}
         /\ t[1] # "log" => Tail(t) \in VariantEditTodo
         /\ t[1] = "item" => t = <<"item", "storeVariant", "log">>
         /\ t[1] = "item" => Tail(t) = <<"storeVariant", "log">>
         /\ t[1] = "storeVariant" => t = <<"storeVariant", "log">>
         /\ t[1] = "storeVariant" => Tail(t) = <<"log">>
  <1>1. CASE t = <<"item", "storeVariant", "log">> BY <1>1 DEF VariantEditTodo
  <1>2. CASE t = <<"storeVariant", "log">> BY <1>2 DEF VariantEditTodo
  <1>3. CASE t = <<"log">> BY <1>3 DEF VariantEditTodo
  <1> QED BY <1>1, <1>2, <1>3 DEF VariantEditTodo

\* Archiving an item: what is left after each statement.
LEMMA ArchiveTodoSteps ==
  ASSUME NEW t \in ArchiveTodo
  PROVE  /\ t # <<>>
         /\ t[1] \in {"item", "storeStatus", "log"}
         /\ t[1] # "log" => Tail(t) \in ArchiveTodo
         /\ t[1] = "item" => t = <<"item", "storeStatus", "log">>
         /\ t[1] = "item" => Tail(t) = <<"storeStatus", "log">>
         /\ t[1] = "storeStatus" => t = <<"storeStatus", "log">>
         /\ t[1] = "storeStatus" => Tail(t) = <<"log">>
  <1>1. CASE t = <<"item", "storeStatus", "log">> BY <1>1 DEF ArchiveTodo
  <1>2. CASE t = <<"storeStatus", "log">> BY <1>2 DEF ArchiveTodo
  <1>3. CASE t = <<"log">> BY <1>3 DEF ArchiveTodo
  <1> QED BY <1>1, <1>2, <1>3 DEF ArchiveTodo

\* Uploading an image: what is left after each statement.
LEMMA UploadTodoSteps ==
  ASSUME NEW t \in UploadTodo
  PROVE  /\ t # <<>>
         /\ t[1] \in {"look", "save", "storeImage", "clean", "log"}
         /\ t[1] # "log" => Tail(t) \in UploadTodo
         /\ t[1] = "look" => t = <<"look", "save", "storeImage", "clean", "log">>
         /\ t[1] = "look" => Tail(t) = <<"save", "storeImage", "clean", "log">>
         /\ t[1] = "save" => t = <<"save", "storeImage", "clean", "log">>
         /\ t[1] = "save" => Tail(t) = <<"storeImage", "clean", "log">>
         /\ t[1] = "storeImage" => t = <<"storeImage", "clean", "log">>
         /\ t[1] = "storeImage" => Tail(t) = <<"clean", "log">>
         /\ t[1] = "clean" => t = <<"clean", "log">>
         /\ t[1] = "clean" => Tail(t) = <<"log">>
  <1>1. CASE t = <<"look", "save", "storeImage", "clean", "log">> BY <1>1 DEF UploadTodo
  <1>2. CASE t = <<"save", "storeImage", "clean", "log">> BY <1>2 DEF UploadTodo
  <1>3. CASE t = <<"storeImage", "clean", "log">> BY <1>3 DEF UploadTodo
  <1>4. CASE t = <<"clean", "log">> BY <1>4 DEF UploadTodo
  <1>5. CASE t = <<"log">> BY <1>5 DEF UploadTodo
  <1> QED BY <1>1, <1>2, <1>3, <1>4, <1>5 DEF UploadTodo

\* Deleting an image: what is left after each statement.
LEMMA DeleteTodoSteps ==
  ASSUME NEW t \in DeleteTodo
  PROVE  /\ t # <<>>
         /\ t[1] \in {"look", "unlink", "clearImage", "log"}
         /\ t[1] # "log" => Tail(t) \in DeleteTodo
         /\ t[1] = "look" => t = <<"look", "unlink", "clearImage", "log">>
         /\ t[1] = "look" => Tail(t) = <<"unlink", "clearImage", "log">>
         /\ t[1] = "unlink" => t = <<"unlink", "clearImage", "log">>
         /\ t[1] = "unlink" => Tail(t) = <<"clearImage", "log">>
         /\ t[1] = "clearImage" => t = <<"clearImage", "log">>
         /\ t[1] = "clearImage" => Tail(t) = <<"log">>
  <1>1. CASE t = <<"look", "unlink", "clearImage", "log">> BY <1>1 DEF DeleteTodo
  <1>2. CASE t = <<"unlink", "clearImage", "log">> BY <1>2 DEF DeleteTodo
  <1>3. CASE t = <<"clearImage", "log">> BY <1>3 DEF DeleteTodo
  <1>4. CASE t = <<"log">> BY <1>4 DEF DeleteTodo
  <1> QED BY <1>1, <1>2, <1>3, <1>4 DEF DeleteTodo

\* Where a request is tells what it does.
LEMMA Where ==
  ASSUME NEW x \in Body, Underway(x)
  PROVE  /\ x.todo # <<>>
         /\ x.todo[1] \in {"category", "parent", "walk", "storeCategory", "children",
                           "products", "deleteCategory", "item", "storeProduct",
                           "pathProduct", "productSku", "variantSku", "storeVariant",
                           "storeStatus", "look", "save", "storeImage", "clean", "unlink",
                           "clearImage", "log"}
         /\ x.todo[1] \in {"category", "storeCategory"} =>
               x.op \in CategoryWrites \cup {"removeCategory"}
         /\ x.todo[1] = "storeCategory" => x.op \in CategoryWrites
         /\ x.todo[1] = "walk" => x.op = "updateCategory" /\ x.to \in Category
         /\ x.todo[1] = "parent" => x.op \in CategoryWrites \cup ProductWrites
         /\ x.todo[1] \in {"children", "products", "deleteCategory"} => x.op = "removeCategory"
         /\ x.todo[1] = "item" => x.op \in {"updateProduct", "updateVariant", "archive"}
         /\ x.todo[1] = "storeProduct" => x.op \in ProductWrites
         /\ x.todo[1] \in {"productSku", "variantSku", "storeVariant"} => x.op \in VariantWrites
         /\ x.todo[1] = "pathProduct" => x.op = "createVariant"
         /\ x.todo[1] = "storeStatus" => x.op = "archive"
         /\ x.todo[1] = "look" => x.op \in {"uploadImage", "deleteImage"}
         /\ x.todo[1] \in {"save", "storeImage", "clean"} => x.op = "uploadImage"
         /\ x.todo[1] \in {"unlink", "clearImage"} => x.op = "deleteImage"
  <1> USE DEF Underway, Planned, Operation, CategoryWrites, ProductWrites, VariantWrites
  <1>1. CASE x.op = "createCategory"  BY <1>1, CreateCategoryTodoSteps
  <1>2. CASE x.op = "updateCategory" /\ x.to \in Category     BY <1>2, MoveTodoSteps
  <1>3. CASE x.op = "updateCategory" /\ x.to \notin Category  BY <1>3, EditTodoSteps
  <1>4. CASE x.op = "removeCategory"  BY <1>4, RemoveTodoSteps
  <1>5. CASE x.op = "createProduct"   BY <1>5, CreateProductTodoSteps
  <1>6. CASE x.op = "updateProduct"   BY <1>6, UpdateProductTodoSteps
  <1>7. CASE x.op = "createVariant"   BY <1>7, CreateVariantTodoSteps
  <1>8. CASE x.op = "updateVariant" /\ x.sku \in Sku     BY <1>8, CheckedTodoSteps
  <1>9. CASE x.op = "updateVariant" /\ x.sku \notin Sku  BY <1>9, VariantEditTodoSteps
  <1>10. CASE x.op = "archive"        BY <1>10, ArchiveTodoSteps
  <1>11. CASE x.op = "uploadImage"    BY <1>11, UploadTodoSteps
  <1>12. CASE x.op = "deleteImage"    BY <1>12, DeleteTodoSteps
  <1> QED BY <1>1, <1>2, <1>3, <1>4, <1>5, <1>6, <1>7, <1>8, <1>9, <1>10, <1>11, <1>12

\* After a statement that is not the last, a request is where its operation goes on.
LEMMA GoesOn ==
  ASSUME NEW x \in Body, Underway(x), x.todo[1] # "log",
         NEW y, y = [x EXCEPT !.todo = Tail(@)]
  PROVE  y \in Body /\ Underway(y)
  <1> USE DEF Underway, Planned, Operation, CategoryWrites, ProductWrites, VariantWrites
  <1>1. CASE x.op = "createCategory"  BY <1>1, CreateCategoryTodoSteps DEF Body, Todo
  <1>2. CASE x.op = "updateCategory" /\ x.to \in Category
    BY <1>2, MoveTodoSteps DEF Body, Todo
  <1>3. CASE x.op = "updateCategory" /\ x.to \notin Category
    BY <1>3, EditTodoSteps DEF Body, Todo
  <1>4. CASE x.op = "removeCategory"  BY <1>4, RemoveTodoSteps DEF Body, Todo
  <1>5. CASE x.op = "createProduct"   BY <1>5, CreateProductTodoSteps DEF Body, Todo
  <1>6. CASE x.op = "updateProduct"   BY <1>6, UpdateProductTodoSteps DEF Body, Todo
  <1>7. CASE x.op = "createVariant"   BY <1>7, CreateVariantTodoSteps DEF Body, Todo
  <1>8. CASE x.op = "updateVariant" /\ x.sku \in Sku
    BY <1>8, CheckedTodoSteps DEF Body, Todo
  <1>9. CASE x.op = "updateVariant" /\ x.sku \notin Sku
    BY <1>9, VariantEditTodoSteps DEF Body, Todo
  <1>10. CASE x.op = "archive"        BY <1>10, ArchiveTodoSteps DEF Body, Todo
  <1>11. CASE x.op = "uploadImage"    BY <1>11, UploadTodoSteps DEF Body, Todo
  <1>12. CASE x.op = "deleteImage"    BY <1>12, DeleteTodoSteps DEF Body, Todo
  <1> QED BY <1>1, <1>2, <1>3, <1>4, <1>5, <1>6, <1>7, <1>8, <1>9, <1>10, <1>11, <1>12


\* A request that is set to a well-typed one leaves the requests well typed.
LEMMA SetBody ==
  ASSUME RequestsOK, NEW r \in Request, NEW x \in Body, x.status = "busy" => Underway(x),
         req' = [req EXCEPT ![r] = x]
  PROVE  RequestsOK'
  <1>1. req' \in [Request -> Body]  BY DEF RequestsOK
  <1>2. ASSUME NEW s \in Request, Busy(s)'  PROVE Underway(req'[s])
    <2>1. CASE s = r  BY <2>1, <1>2 DEF RequestsOK, Busy
    <2>2. CASE s # r  BY <2>2, <1>2 DEF RequestsOK, Busy
    <2> QED BY <2>1, <2>2
  <1> QED BY <1>1, <1>2 DEF RequestsOK, Busy, Underway, Planned

\* What a request becomes when it is answered, and when it is taken in.
Answered(x, how) ==
    IF how = "failed"
    THEN [NewRequest EXCEPT !.status = how, !.op = x.op, !.id = x.id]
    ELSE [NewRequest EXCEPT !.status = how]

Taken(op, id, to, k, todo) ==
    [NewRequest EXCEPT !.op = op, !.status = "busy", !.id = id, !.to = to,
                       !.sku = k, !.todo = todo]

\* An answer leaves every request well-formed.
LEMMA AnswerBody ==
  ASSUME RequestsOK, NEW r \in Request, NEW how \in {"ok", "refused", "failed"},
         Answer(r, how)
  PROVE  RequestsOK' /\ req' = [req EXCEPT ![r] = Answered(req[r], how)]
                     /\ Answered(req[r], how).status = how
  <1>1. req' = [req EXCEPT ![r] = Answered(req[r], how)]  BY DEF Answer, Answered
  <1>2. req[r] \in Body  BY DEF RequestsOK
  <1>3. <<>> \in Todo  BY DEF Todo
  <1>4. Answered(req[r], how) \in Body /\ Answered(req[r], how).status = how
    BY <1>2, <1>3, ZenonT(60) DEF Answered, NewRequest, Body
  <1> QED BY <1>1, <1>4, SetBody

\* So does a statement that is done.
LEMMA AdvanceBody ==
  ASSUME RequestsOK, NEW r \in Request, Busy(r), req[r].todo[1] # "log", Advance(r)
  PROVE  RequestsOK' /\ req' = [req EXCEPT ![r] = [req[r] EXCEPT !.todo = Tail(@)]]
  <1> DEFINE y == [req[r] EXCEPT !.todo = Tail(@)]
  <1>1. req[r] \in Body /\ Underway(req[r])  BY DEF RequestsOK
  <1>2. y \in Body /\ Underway(y)  BY <1>1, GoesOn
  <1>3. req' = [req EXCEPT ![r] = y]  BY DEF Advance
  <1> QED BY <1>2, <1>3, SetBody

\* So does the start of a handler with a list it may have.
LEMMA BeginBody ==
  ASSUME RequestsOK, NEW r \in Request, NEW op \in Operation,
         NEW id \in Category \cup Item, NEW to \in Category \cup Product \cup {"null", "keep"},
         NEW k \in Sku \cup {"keep"}, NEW todo \in Todo,
         Planned(Taken(op, id, to, k, todo)), Begin(r, op, id, to, k, todo)
  PROVE  RequestsOK' /\ req' = [req EXCEPT ![r] = Taken(op, id, to, k, todo)]
  <1>1. req' = [req EXCEPT ![r] = Taken(op, id, to, k, todo)]  BY DEF Begin, Taken
  <1>2. Taken(op, id, to, k, todo) \in Body /\ Taken(op, id, to, k, todo).op = op
    BY ZenonT(60) DEF Taken, NewRequest, Body
  <1>3. Underway(Taken(op, id, to, k, todo))  BY <1>2 DEF Underway
  <1> QED BY <1>1, <1>2, <1>3, SetBody

-----------------------------------------------------------------------------
\* The kinds of steps the actions are made of.

\* A request x is taken in.
Starts(r, x) ==
    /\ req[r].status = "new" /\ MayStart(r, x.op)
    /\ x \in Body /\ Underway(x) /\ x.status = "busy"
    /\ x.old = "null" /\ x.cursor = "null"
    /\ x.op \in {"uploadImage", "deleteImage"} => x.todo[1] = "look"
    /\ x.op = "createVariant" => x.todo[1] = "pathProduct"
    /\ x.op \in {"updateVariant", "archive"} => x.todo[1] = "item"
    /\ x.op \in {"updateCategory", "removeCategory"} => x.todo[1] = "category"
    /\ x.op = "createCategory" => /\ parent[x.id] = "unborn" /\ Fresh(x.id)
                                  /\ x.todo[1] \in {"parent", "storeCategory"}

Arrived(r) ==
    /\ \E x \in Body : Starts(r, x) /\ req' = [req EXCEPT ![r] = x]
    /\ UNCHANGED <<tables, store>>

\* A request is answered; it ends well only with its last statement.
Stops(r, how) ==
    /\ Busy(r) /\ (how = "ok" => req[r].todo[1] = "log")
    /\ how = "refused" => req[r].todo[1] # "clearImage"
    /\ req' = [req EXCEPT ![r] = Answered(req[r], how)]

Stopped(r) ==
    /\ \E how \in {"ok", "refused", "failed"} : Stops(r, how)
    /\ UNCHANGED <<tables, store>>

\* A request has done the statement s.
Did(r, s) ==
    /\ Busy(r) /\ req[r].todo[1] = s
    /\ req' = [req EXCEPT ![r] = [req[r] EXCEPT !.todo = Tail(@)]]

Passed(r) ==
    /\ \E s \in LookUps : Did(r, s) /\ Finds(r, s)
    /\ UNCHANGED <<tables, store>>

WalkedOn(r) ==
    /\ Busy(r) /\ req[r].todo[1] = "walk" /\ ~ClosesCycle(req[r])
    /\ parent[Reached(req[r])] \in Category
    /\ req' = [req EXCEPT ![r] = [req[r] EXCEPT !.cursor = parent[Reached(req[r])]]]
    /\ UNCHANGED <<tables, store>>

WalkedOut(r) ==
    /\ Did(r, "walk") /\ ~ClosesCycle(req[r])
    /\ parent[Reached(req[r])] \notin Category
    /\ UNCHANGED <<tables, store>>

CategoryStored(r) ==
    /\ Did(r, "storeCategory")
    /\ req[r].op = "updateCategory" => Listed(req[r].id)
    /\ req[r].to \in Category => Listed(req[r].to)
    /\ parent' = [parent EXCEPT ![req[r].id] = Given(req[r].to, @)]
    /\ UNCHANGED <<sku, home, archived, store>>

Without(f, c) == [x \in DOMAIN f |-> IF f[x] = c THEN "null" ELSE f[x]]

CategoryDeleted(r) ==
    /\ Did(r, "deleteCategory") /\ Listed(req[r].id)
    /\ parent' = [Without(parent, req[r].id) EXCEPT ![req[r].id] = "gone"]
    /\ home' = Without(home, req[r].id)
    /\ UNCHANGED <<sku, archived, store>>

ProductStored(r) ==
    /\ Did(r, "storeProduct")
    /\ req[r].to \in Category => Listed(req[r].to)
    /\ sku' = [sku EXCEPT ![req[r].id] = Given(req[r].sku, @)]
    /\ home' = [home EXCEPT ![req[r].id] = Given(req[r].to, @)]
    /\ UNCHANGED <<parent, archived, store>>

VariantStored(r) ==
    /\ Did(r, "storeVariant")
    /\ sku' = [sku EXCEPT ![req[r].id] = Given(req[r].sku, @)]
    /\ UNCHANGED <<parent, home, archived, store>>

StatusStored(r) ==
    /\ Did(r, "storeStatus")
    /\ archived' = archived \cup {req[r].id}
    /\ UNCHANGED <<parent, sku, home, store>>

Looked(r) ==
    /\ Busy(r) /\ req[r].todo[1] = "look"
    /\ req' = [req EXCEPT ![r] = [req[r] EXCEPT !.todo = Tail(@), !.old = image[req[r].id]]]
    /\ UNCHANGED <<tables, store>>

FileSaved(r) ==
    Did(r, "save") /\ files' = files \cup {r} /\ UNCHANGED <<tables, image>>

ImageStored(r) ==
    /\ Did(r, "storeImage")
    /\ image' = [image EXCEPT ![req[r].id] = r]
    /\ UNCHANGED <<tables, files>>

RolledBack(r) ==
    /\ req[r].todo[1] = "storeImage" /\ Stops(r, "failed")
    /\ image' \in {image, [image EXCEPT ![req[r].id] = r]}
    /\ files' \in {files, files \ {r}}
    /\ UNCHANGED tables

OldCleaned(r) ==
    /\ Did(r, "clean")
    /\ files' \in {files, files \ {req[r].old}}
    /\ UNCHANGED <<tables, image>>

Unlinked(r) ==
    /\ Did(r, "unlink") /\ files' = files \ {req[r].old}
    /\ UNCHANGED <<tables, image>>

ImageCleared(r) ==
    /\ Did(r, "clearImage")
    /\ image' = [image EXCEPT ![req[r].id] = "null"]
    /\ UNCHANGED <<tables, files>>

Step(r) ==
    \/ Arrived(r) \/ Stopped(r) \/ Passed(r) \/ WalkedOn(r) \/ WalkedOut(r)
    \/ CategoryStored(r) \/ CategoryDeleted(r) \/ ProductStored(r)
    \/ VariantStored(r) \/ StatusStored(r) \/ Looked(r) \/ FileSaved(r)
    \/ ImageStored(r) \/ RolledBack(r) \/ OldCleaned(r) \/ Unlinked(r)
    \/ ImageCleared(r)

\* Every request that is taken in starts as its operation does.
LEMMA ArriveIsStep ==
  ASSUME Typed, NEW r \in Request, Arrive(r)
  PROVE  Arrived(r)
  <1> USE DEF Typed, Operation, CategoryWrites, ProductWrites, VariantWrites
  <1> DEFINE X(op, id, to, k, t) == Taken(op, id, to, k, t)
  <1>0. ASSUME NEW op \in Operation, NEW id \in Category \cup Item,
               NEW to \in Category \cup Product \cup {"null", "keep"},
               NEW k \in Sku \cup {"keep"}, NEW t \in Todo,
               Planned(X(op, id, to, k, t)), Begin(r, op, id, to, k, t),
               op \in {"uploadImage", "deleteImage"} => t[1] = "look",
               op = "createVariant" => t[1] = "pathProduct",
               op \in {"updateVariant", "archive"} => t[1] = "item",
               op \in {"updateCategory", "removeCategory"} => t[1] = "category",
               op = "createCategory" => /\ parent[id] = "unborn" /\ Fresh(id)
                                        /\ t[1] \in {"parent", "storeCategory"}
        PROVE  Arrived(r)
    <2> DEFINE x == X(op, id, to, k, t)
    <2>1. x \in Body /\ x.status = "busy" /\ x.op = op /\ x.id = id /\ x.todo = t
            /\ x.old = "null" /\ x.cursor = "null"
      BY ZenonT(60) DEF Taken, NewRequest, Body
    <2>2. Underway(x)  BY <1>0, <2>1 DEF Underway
    <2>3. req' = [req EXCEPT ![r] = x] /\ MayStart(r, op) /\ UNCHANGED <<tables, store>>
      BY <1>0 DEF Begin, Taken
    <2>4. req[r].status = "new"  BY <2>3 DEF MayStart
    <2> HIDE DEF x
    <2>5. Starts(r, x)  BY <1>0, <2>1, <2>2, <2>3, <2>4 DEF Starts
    <2> QED BY <2>1, <2>3, <2>5 DEF Arrived
  <1> HIDE DEF X
  <1>1. CASE CreateCategory(r)
    <2>1. PICK c \in Category, p \in Category \cup {"null"} :
             /\ parent[c] = "unborn" /\ Fresh(c)
             /\ p # "null" => parent[p] # "unborn"
             /\ Begin(r, "createCategory", c, p, "keep",
                   IfNamed(p, <<"parent", "storeCategory", "log">>, <<"storeCategory", "log">>))
      BY <1>1 DEF CreateCategory
    <2> DEFINE t == IfNamed(p, <<"parent", "storeCategory", "log">>, <<"storeCategory", "log">>)
    <2>2. t \in CreateCategoryTodo /\ t[1] # "log"  BY DEF IfNamed, CreateCategoryTodo
    <2> HIDE DEF t
    <2>3. t \in Todo /\ t[1] \in {"parent", "storeCategory"}
      BY <2>2, CreateCategoryTodoSteps DEF Todo
    <2>4. p # c  BY <2>1, CatalogAssumption
    <2>5. Planned(X("createCategory", c, p, "keep", t))
      BY <2>2, <2>4 DEF X, Planned, Taken, NewRequest
    <2> QED BY <1>0, <2>1, <2>3, <2>5 DEF t
  <1>2. CASE UpdateCategory(r)
    <2>1. PICK c \in Category, p \in Category \cup {"null", "keep"} :
             Begin(r, "updateCategory", c, p, "keep",
                 IfNamed(p, <<"category", "parent", "walk", "storeCategory", "log">>,
                            <<"category", "storeCategory", "log">>))
      BY <1>2 DEF UpdateCategory
    <2> DEFINE t == IfNamed(p, <<"category", "parent", "walk", "storeCategory", "log">>,
                               <<"category", "storeCategory", "log">>)
    <2>2. p \in Category => t = <<"category", "parent", "walk", "storeCategory", "log">>
      BY CatalogAssumption DEF IfNamed
    <2>3. p \notin Category => t = <<"category", "storeCategory", "log">>
      BY DEF IfNamed
    <2> HIDE DEF t
    <2>4. (p \in Category => t \in MoveTodo) /\ (p \notin Category => t \in EditTodo)
      BY <2>2, <2>3 DEF MoveTodo, EditTodo
    <2>5. t \in Todo  BY <2>4 DEF Todo
    <2>6. t[1] = "category"  BY <2>2, <2>3
    <2>7. Planned(X("updateCategory", c, p, "keep", t))
      BY <2>4 DEF X, Planned, Taken, NewRequest
    <2> QED BY <1>0, <2>1, <2>5, <2>6, <2>7 DEF t
  <1>3. CASE RemoveCategory(r)
    <2> DEFINE t == <<"category", "children", "products", "deleteCategory", "log">>
    <2>1. PICK c \in Category : Begin(r, "removeCategory", c, "keep", "keep", t)
      BY <1>3 DEF RemoveCategory
    <2>2. t \in RemoveTodo /\ t[1] = "category"  BY DEF RemoveTodo
    <2> HIDE DEF t
    <2>3. t \in Todo  BY <2>2 DEF Todo
    <2>4. Planned(X("removeCategory", c, "keep", "keep", t))
      BY <2>2 DEF X, Planned, Taken, NewRequest
    <2> QED BY <1>0, <2>1, <2>2, <2>3, <2>4
  <1>4. CASE CreateProduct(r)
    <2>1. PICK p \in Product, k \in Sku, c \in Category \cup {"null"} :
             Begin(r, "createProduct", p, c, k,
                 IfNamed(c, <<"parent", "storeProduct", "log">>, <<"storeProduct", "log">>))
      BY <1>4 DEF CreateProduct
    <2> DEFINE t == IfNamed(c, <<"parent", "storeProduct", "log">>, <<"storeProduct", "log">>)
    <2>2. t \in CreateProductTodo  BY DEF IfNamed, CreateProductTodo
    <2> HIDE DEF t
    <2>3. t \in Todo  BY <2>2 DEF Todo
    <2>4. Planned(X("createProduct", p, c, k, t))
      BY <2>2 DEF X, Planned, Taken, NewRequest
    <2> QED BY <1>0, <2>1, <2>3, <2>4 DEF t, Item
  <1>5. CASE UpdateProduct(r)
    <2>1. PICK p \in Product, k \in Sku \cup {"keep"}, c \in Category \cup {"null", "keep"} :
             Begin(r, "updateProduct", p, c, k,
                 IfNamed(c, <<"item", "parent", "storeProduct", "log">>,
                            <<"item", "storeProduct", "log">>))
      BY <1>5 DEF UpdateProduct
    <2> DEFINE t == IfNamed(c, <<"item", "parent", "storeProduct", "log">>,
                               <<"item", "storeProduct", "log">>)
    <2>2. t \in UpdateProductTodo  BY DEF IfNamed, UpdateProductTodo
    <2> HIDE DEF t
    <2>3. t \in Todo  BY <2>2 DEF Todo
    <2>4. Planned(X("updateProduct", p, c, k, t))
      BY <2>2 DEF X, Planned, Taken, NewRequest
    <2> QED BY <1>0, <2>1, <2>3, <2>4 DEF t, Item
  <1>6. CASE CreateVariant(r)
    <2> DEFINE t == <<"pathProduct", "productSku", "variantSku", "storeVariant", "log">>
    <2>1. PICK v \in Variant, k \in Sku : Begin(r, "createVariant", v, VariantOf[v], k, t)
      BY <1>6 DEF CreateVariant
    <2>2. t \in CreateVariantTodo /\ t[1] = "pathProduct"  BY DEF CreateVariantTodo
    <2> HIDE DEF t
    <2>3. t \in Todo  BY <2>2 DEF Todo
    <2>4. VariantOf[v] \in Product  BY CatalogAssumption
    <2>5. Planned(X("createVariant", v, VariantOf[v], k, t))
      BY <2>2, <2>4 DEF X, Planned, Taken, NewRequest
    <2> QED BY <1>0, <2>1, <2>2, <2>3, <2>4, <2>5 DEF Item
  <1>7. CASE UpdateVariant(r)
    <2>1. PICK v \in Variant, k \in Sku \cup {"keep"} : \E p \in PathProduct(v) :
             Begin(r, "updateVariant", v, p, k,
                 IfNamed(k, <<"item", "productSku", "variantSku", "storeVariant", "log">>,
                            <<"item", "storeVariant", "log">>))
      BY <1>7 DEF UpdateVariant
    <2>9. PICK p \in PathProduct(v) : Begin(r, "updateVariant", v, p, k,
                 IfNamed(k, <<"item", "productSku", "variantSku", "storeVariant", "log">>,
                            <<"item", "storeVariant", "log">>))
      BY <2>1
    <2> DEFINE t == IfNamed(k, <<"item", "productSku", "variantSku", "storeVariant", "log">>,
                               <<"item", "storeVariant", "log">>)
    <2>2. k \in Sku =>
             t = <<"item", "productSku", "variantSku", "storeVariant", "log">>
      BY CatalogAssumption DEF IfNamed
    <2>3. k \notin Sku => t = <<"item", "storeVariant", "log">>
      BY DEF IfNamed
    <2> HIDE DEF t
    <2>4. (k \in Sku => t \in CheckedTodo) /\ (k \notin Sku => t \in VariantEditTodo)
      BY <2>2, <2>3 DEF CheckedTodo, VariantEditTodo
    <2>5. t \in Todo  BY <2>4 DEF Todo
    <2>6. t[1] = "item"  BY <2>2, <2>3
    <2>7. p \in Product  BY DEF PathProduct
    <2>8. Planned(X("updateVariant", v, p, k, t))
      BY <2>4, <2>7 DEF X, Planned, Taken, NewRequest
    <2> QED BY <1>0, <2>9, <2>5, <2>6, <2>7, <2>8 DEF t, Item
  <1>8. CASE Archive(r)
    <2> DEFINE t == <<"item", "storeStatus", "log">>
    <2>0. PICK i \in Item : \E p \in PathProduct(i) : Begin(r, "archive", i, p, "keep", t)
      BY <1>8 DEF Archive
    <2>1. PICK p \in PathProduct(i) : Begin(r, "archive", i, p, "keep", t)
      BY <2>0
    <2>2. t \in ArchiveTodo /\ t[1] = "item"  BY DEF ArchiveTodo
    <2> HIDE DEF t
    <2>3. t \in Todo /\ p \in Product  BY <2>2 DEF Todo, PathProduct
    <2>4. Planned(X("archive", i, p, "keep", t))
      BY <2>2, <2>3 DEF X, Planned, Taken, NewRequest
    <2> QED BY <1>0, <2>1, <2>2, <2>3, <2>4
  <1>9. CASE UploadImage(r)
    <2> DEFINE t == <<"look", "save", "storeImage", "clean", "log">>
    <2>0. PICK i \in Item : \E p \in PathProduct(i) : Begin(r, "uploadImage", i, p, "keep", t)
      BY <1>9 DEF UploadImage
    <2>1. PICK p \in PathProduct(i) : Begin(r, "uploadImage", i, p, "keep", t)
      BY <2>0
    <2>2. t \in UploadTodo /\ t[1] = "look"  BY DEF UploadTodo
    <2> HIDE DEF t
    <2>3. t \in Todo /\ p \in Product  BY <2>2 DEF Todo, PathProduct
    <2>4. Planned(X("uploadImage", i, p, "keep", t))
      BY <2>2, <2>3 DEF X, Planned, Taken, NewRequest
    <2> QED BY <1>0, <2>1, <2>2, <2>3, <2>4
  <1>10. CASE DeleteImage(r)
    <2> DEFINE t == <<"look", "unlink", "clearImage", "log">>
    <2>0. PICK i \in Item : \E p \in PathProduct(i) : Begin(r, "deleteImage", i, p, "keep", t)
      BY <1>10 DEF DeleteImage
    <2>1. PICK p \in PathProduct(i) : Begin(r, "deleteImage", i, p, "keep", t)
      BY <2>0
    <2>2. t \in DeleteTodo /\ t[1] = "look"  BY DEF DeleteTodo
    <2> HIDE DEF t
    <2>3. t \in Todo /\ p \in Product  BY <2>2 DEF Todo, PathProduct
    <2>4. Planned(X("deleteImage", i, p, "keep", t))
      BY <2>2, <2>3 DEF X, Planned, Taken, NewRequest
    <2> QED BY <1>0, <2>1, <2>2, <2>3, <2>4
  <1> QED BY <1>1, <1>2, <1>3, <1>4, <1>5, <1>6, <1>7, <1>8, <1>9, <1>10 DEF Arrive

\* Every step of the catalogue is a stutter or one of the kinds above.
LEMMA NextIsStep ==
  ASSUME Typed, Next
  PROVE  (\E r \in Request : Step(r)) \/ UNCHANGED catalogVars
  <1>1. CASE Quiet  BY <1>1 DEF Quiet
  <1>2. ASSUME NEW r \in Request, Arrive(r) \/ Serve(r) \/ RollBack(r) \/ Fail(r)
        PROVE  Step(r)
    <2> USE DEF Step
    <2>1. CASE Arrive(r)  BY <2>1, ArriveIsStep
    <2>a. Typed /\ RequestsOK  BY DEF Typed
    <2>b. ASSUME NEW how \in {"ok", "refused", "failed"}, Answer(r, how), Busy(r),
                 how = "ok" => req[r].todo[1] = "log",
                 how = "refused" => req[r].todo[1] # "clearImage"
          PROVE  Stops(r, how)
      BY <2>a, <2>b, AnswerBody DEF Stops
    <2>c. ASSUME NEW s, At(r, s), Advance(r)  PROVE Did(r, s)
      BY <2>c DEF Did, At, Advance
    <2>d. ASSUME NEW s, At(r, s)  PROVE Busy(r) /\ req[r].todo[1] = s
      BY <2>d DEF At
    <2>2. CASE LookUp(r)
      <3>1. PICK s \in LookUps : At(r, s) /\ IF Finds(r, s) THEN Advance(r)
                                                            ELSE Answer(r, "refused")
        BY <2>2 DEF LookUp
      <3>2. UNCHANGED <<tables, store>>  BY <2>2 DEF LookUp
      <3>3. CASE Finds(r, s)  BY <3>1, <3>2, <3>3, <2>c DEF Passed
      <3>4. CASE ~Finds(r, s)  BY <3>1, <3>2, <3>4, <2>b, <2>d DEF Stopped, LookUps
      <3> QED BY <3>3, <3>4
    <2>3. CASE Walk(r)
      <3>1. CASE ClosesCycle(req[r])  BY <3>1, <2>3, <2>b, <2>d DEF Walk, Stopped
      <3>2. CASE ~ClosesCycle(req[r]) /\ parent[Reached(req[r])] \in Category
        BY <3>2, <2>3, <2>d DEF Walk, WalkedOn
      <3>3. CASE ~ClosesCycle(req[r]) /\ parent[Reached(req[r])] \notin Category
        BY <3>3, <2>3, <2>c DEF Walk, WalkedOut
      <3> QED BY <3>1, <3>2, <3>3
    <2>4. CASE StoreCategory(r)
      <3>1. CASE (req[r].op = "updateCategory" => Listed(req[r].id))
                 /\ (req[r].to \in Category => Listed(req[r].to))
        BY <3>1, <2>4, <2>c DEF StoreCategory, CategoryStored
      <3>2. CASE ~((req[r].op = "updateCategory" => Listed(req[r].id))
                   /\ (req[r].to \in Category => Listed(req[r].to)))
        BY <3>2, <2>4, <2>b, <2>d DEF StoreCategory, Stopped, tables, store
      <3> QED BY <3>1, <3>2
    <2>5. CASE DeleteCategory(r)
      <3>1. CASE Listed(req[r].id)
        BY <3>1, <2>5, <2>c DEF DeleteCategory, CategoryDeleted, Without
      <3>2. CASE ~Listed(req[r].id)
        BY <3>2, <2>5, <2>b, <2>d DEF DeleteCategory, Stopped, tables, store
      <3> QED BY <3>1, <3>2
    <2>6. CASE StoreProduct(r)
      <3>1. CASE Advance(r) /\ (req[r].to \in Category => Listed(req[r].to))
                 /\ sku' = [sku EXCEPT ![req[r].id] = Given(req[r].sku, @)]
                 /\ home' = [home EXCEPT ![req[r].id] = Given(req[r].to, @)]
        BY <3>1, <2>6, <2>c DEF StoreProduct, ProductStored
      <3>2. CASE \E how \in {"refused", "failed"} :
                     Answer(r, how) /\ UNCHANGED <<sku, home>>
        BY <3>2, <2>6, <2>b, <2>d DEF StoreProduct, Stopped, tables, store
      <3> QED BY <3>1, <3>2, <2>6 DEF StoreProduct
    <2>7. CASE StoreVariant(r)
      <3>1. CASE Advance(r) /\ sku' = [sku EXCEPT ![req[r].id] = Given(req[r].sku, @)]
        BY <3>1, <2>7, <2>c DEF StoreVariant, VariantStored
      <3>2. CASE Answer(r, "refused") /\ UNCHANGED sku
        BY <3>2, <2>7, <2>b, <2>d DEF StoreVariant, Stopped, tables, store
      <3> QED BY <3>1, <3>2, <2>7 DEF StoreVariant
    <2>8. CASE StoreStatus(r)  BY <2>8, <2>c DEF StoreStatus, StatusStored
    <2>9. CASE Look(r)
      <3>1. CASE ItemExists(req[r])  BY <3>1, <2>9, <2>d DEF Look, Looked
      <3>2. CASE ~ItemExists(req[r])  BY <3>2, <2>9, <2>b, <2>d DEF Look, Stopped
      <3> QED BY <3>1, <3>2
    <2>10. CASE SaveFile(r)  BY <2>10, <2>c DEF SaveFile, FileSaved
    <2>11. CASE StoreImage(r)  BY <2>11, <2>c DEF StoreImage, ImageStored
    <2>12. CASE CleanOld(r)  BY <2>12, <2>c DEF CleanOld, OldCleaned
    <2>13. CASE Unlink(r)  BY <2>13, <2>c DEF Unlink, Unlinked
    <2>14. CASE ClearImage(r)  BY <2>14, <2>c DEF ClearImage, ImageCleared
    <2>15. CASE Finish(r)  BY <2>15, <2>b, <2>d DEF Finish, Stopped
    <2>16. CASE RollBack(r)  BY <2>16, <2>b, <2>d DEF RollBack, RolledBack
    <2>17. CASE Fail(r)  BY <2>17, <2>b DEF Fail, Stopped
    <2> QED BY <1>2, <2>1, <2>2, <2>3, <2>4, <2>5, <2>6, <2>7, <2>8, <2>9, <2>10,
               <2>11, <2>12, <2>13, <2>14, <2>15, <2>16, <2>17 DEF Serve
  <1> QED BY <1>1, <1>2 DEF Next

\* What a kind of step makes of its request.
LEMMA StepBody ==
  ASSUME Typed, NEW r \in Request, Step(r)
  PROVE  RequestsOK'
  <1> USE DEF Typed
  <1>0. req[r] \in Body  BY DEF RequestsOK
  <1>1. ASSUME NEW s, s # "log", Did(r, s)  PROVE RequestsOK'
    <2> DEFINE y == [req[r] EXCEPT !.todo = Tail(@)]
    <2>1. y \in Body /\ Underway(y)  BY <1>0, <1>1, GoesOn DEF Did, RequestsOK
    <2>2. req' = [req EXCEPT ![r] = y]  BY <1>1 DEF Did
    <2> QED BY <2>1, <2>2, SetBody
  <1>2. ASSUME NEW how \in {"ok", "refused", "failed"}, Stops(r, how)  PROVE RequestsOK'
    <2>1. <<>> \in Todo  BY DEF Todo
    <2>2. Answered(req[r], how) \in Body /\ Answered(req[r], how).status = how
      BY <1>0, <2>1, ZenonT(60) DEF Answered, NewRequest, Body
    <2> QED BY <2>2, <1>2, SetBody DEF Stops
  <1>3. CASE Arrived(r)  BY <1>3, SetBody DEF Arrived, Starts
  <1>4. CASE WalkedOn(r)
    <2> DEFINE y == [req[r] EXCEPT !.cursor = parent[Reached(req[r])]]
    <2>1. y \in Body /\ Underway(y)
      <3>1. y \in Body  BY <1>0, <1>4 DEF WalkedOn, Body
      <3>2. Underway(req[r])  BY <1>4 DEF WalkedOn, RequestsOK
      <3>3. y.op = req[r].op /\ y.id = req[r].id /\ y.to = req[r].to /\ y.sku = req[r].sku
              /\ y.todo = req[r].todo
        BY <1>0 DEF Body
      <3> QED BY <3>1, <3>2, <3>3 DEF Underway, Planned
    <2>2. req' = [req EXCEPT ![r] = y]  BY <1>4 DEF WalkedOn
    <2> QED BY <2>1, <2>2, SetBody
  <1>5. CASE Looked(r)
    <2> DEFINE z == [req[r] EXCEPT !.todo = Tail(@)]
               y == [z EXCEPT !.old = image[req[r].id]]
    <2>1. Underway(req[r]) /\ req[r].todo[1] = "look"  BY <1>5 DEF Looked, RequestsOK
    <2>2. z \in Body /\ Underway(z)  BY <1>0, <2>1, GoesOn
    <2>3. req[r].id \in Item  BY <1>0, <2>1, Where DEF Underway, Planned
    <2>4. image[req[r].id] \in Key \cup {"null"}  BY <2>3 DEF StoreOK
    <2>5. req' = [req EXCEPT ![r] = y]  BY <1>5 DEF Looked
    <2> HIDE DEF z
    <2>6. y \in Body  BY <2>2, <2>4 DEF Body
    <2>7. y.op = z.op /\ y.id = z.id /\ y.to = z.to /\ y.sku = z.sku /\ y.todo = z.todo
      BY <2>2 DEF Body
    <2>8. Underway(y)  BY <2>2, <2>7 DEF Underway, Planned
    <2> QED BY <2>5, <2>6, <2>8, SetBody
  <1>6. CASE Passed(r)  BY <1>6, <1>1 DEF Passed, LookUps
  <1>7. CASE Stopped(r)  BY <1>7, <1>2 DEF Stopped
  <1>8. CASE RolledBack(r)  BY <1>8, <1>2 DEF RolledBack
  <1>9. CASE \E s \in {"walk", "storeCategory", "deleteCategory", "storeProduct",
                       "storeVariant", "storeStatus", "save", "storeImage", "clean",
                       "unlink", "clearImage"} :
                Did(r, s)
    BY <1>9, <1>1
  <1> QED BY <1>3, <1>4, <1>5, <1>6, <1>7, <1>8, <1>9
          DEF Step, WalkedOut, CategoryStored, CategoryDeleted, ProductStored, VariantStored,
              StatusStored, FileSaved, ImageStored, OldCleaned, Unlinked, ImageCleared

\* The tables and the files keep their types.
LEMMA StepTyped ==
  ASSUME Typed, Next
  PROVE  Typed'
  <1> USE DEF Typed
  <1>1. CASE UNCHANGED catalogVars
    BY <1>1 DEF catalogVars, tables, store, TablesOK, StoreOK, RequestsOK, Busy,
                Underway, Planned
  <1>2. ASSUME NEW r \in Request, Step(r)  PROVE TablesOK' /\ StoreOK'
    <2> DEFINE x == req[r]
    <2>1. x \in Body  BY DEF RequestsOK
    <2>2. ASSUME NEW s, Did(r, s)  PROVE Underway(x) /\ x.todo[1] = s
      BY <2>2 DEF Did, RequestsOK
    <2>3. CASE UNCHANGED <<tables, store>>
      BY <2>3 DEF tables, store, TablesOK, StoreOK
    <2>4. CASE CategoryStored(r)
      <3>1. Underway(x) /\ x.todo[1] = "storeCategory"
        BY <2>4, <2>2 DEF CategoryStored
      <3>2. x.op \in CategoryWrites  BY <2>1, <3>1, Where
      <3>3. x.id \in Category /\ x.to \in Category \cup {"null", "keep"}
        BY <3>1, <3>2 DEF Underway, Planned, CategoryWrites
      <3>4. Given(x.to, parent[x.id]) \in Category \cup {"null", "unborn", "gone"}
        BY <3>3 DEF Given, TablesOK
      <3> QED BY <2>4, <3>4 DEF CategoryStored, TablesOK, StoreOK, store
    <2>5. CASE CategoryDeleted(r)
      <3> DEFINE w == Without(parent, x.id)
      <3>1. w \in [Category -> Category \cup {"null", "unborn", "gone"}]
        BY DEF Without, TablesOK
      <3>2. Without(home, x.id) \in [Product -> Category \cup {"null"}]
        BY DEF Without, TablesOK
      <3> HIDE DEF w
      <3>3. [w EXCEPT ![x.id] = "gone"] \in
               [Category -> Category \cup {"null", "unborn", "gone"}]
        BY <3>1
      <3> QED BY <2>5, <3>2, <3>3 DEF CategoryDeleted, TablesOK, StoreOK, store, w
    <2>6. CASE ProductStored(r)
      <3>1. Underway(x) /\ x.todo[1] = "storeProduct"
        BY <2>6, <2>2 DEF ProductStored
      <3>2. x.op \in ProductWrites  BY <2>1, <3>1, Where
      <3>3. x.id \in Product /\ x.to \in Category \cup {"null", "keep"}
        BY <3>1, <3>2 DEF Underway, Planned
      <3>4. x.sku \in Sku \cup {"keep"}  BY <2>1 DEF Body
      <3>5. /\ Given(x.to, home[x.id]) \in Category \cup {"null"}
            /\ Given(x.sku, sku[x.id]) \in Sku \cup {"unborn"}
        BY <3>3, <3>4 DEF Given, TablesOK, Item
      <3> QED BY <2>6, <3>5 DEF ProductStored, TablesOK, StoreOK, store
    <2>7. CASE VariantStored(r)
      <3>1. Underway(x) /\ x.todo[1] = "storeVariant"
        BY <2>7, <2>2 DEF VariantStored
      <3>2. x.op \in VariantWrites  BY <2>1, <3>1, Where
      <3>3. x.id \in Item  BY <3>1, <3>2 DEF Underway, Planned, Item
      <3>4. x.sku \in Sku \cup {"keep"}  BY <2>1 DEF Body
      <3>5. Given(x.sku, sku[x.id]) \in Sku \cup {"unborn"}
        BY <3>3, <3>4 DEF Given, TablesOK
      <3> QED BY <2>7, <3>5 DEF VariantStored, TablesOK, StoreOK, store
    <2>8. CASE StatusStored(r)
      <3>1. Underway(x) /\ x.todo[1] = "storeStatus"
        BY <2>8, <2>2 DEF StatusStored
      <3>2. x.op = "archive"  BY <2>1, <3>1, Where
      <3>3. x.id \in Item  BY <3>1, <3>2 DEF Underway, Planned
      <3> QED BY <2>8, <3>3 DEF StatusStored, TablesOK, StoreOK, store
    <2>9. CASE FileSaved(r) \/ OldCleaned(r) \/ Unlinked(r)
      BY <2>9 DEF FileSaved, OldCleaned, Unlinked, tables, TablesOK, StoreOK, Key
    <2>10. CASE ImageStored(r) \/ RolledBack(r)
      BY <2>10 DEF ImageStored, RolledBack, tables, TablesOK, StoreOK, Key
    <2>11. CASE ImageCleared(r)
      BY <2>11 DEF ImageCleared, tables, TablesOK, StoreOK
    <2> QED BY <1>2, <2>3, <2>4, <2>5, <2>6, <2>7, <2>8, <2>9, <2>10, <2>11
            DEF Step, Arrived, Stopped, Passed, WalkedOn, WalkedOut, Looked
  <1> QED BY <1>1, <1>2, NextIsStep, StepBody

\* The opening states are typed.
LEMMA InitTyped ==
  ASSUME Init
  PROVE  Typed
  <1> USE CatalogAssumption DEF Typed
  <1>1. TablesOK  BY DEF Init, TablesOK
  <1>2. StoreOK  BY DEF Init, StoreOK, Key
  <1>3. PICK o \in Openings :
           req = [r \in Request |-> [NewRequest EXCEPT !.asks = o.asks[r]]]
    BY DEF Init
  <1>4. <<>> \in Todo  BY DEF Todo
  <1>5. ASSUME NEW r \in Request
        PROVE  req[r] \in Body /\ req[r].status = "new"
    <2>1. o.asks[r] \in SUBSET STRING  BY <1>3
    <2>2. req[r] = [NewRequest EXCEPT !.asks = o.asks[r]]  BY <1>3
    <2> QED BY <1>4, <2>1, <2>2 DEF NewRequest, Body
  <1> QED BY <1>1, <1>2, <1>3, <1>5 DEF RequestsOK, Busy

\* The strengthened type invariant implies the one the runs check.
LEMMA TypedIsTypeOK ==
  ASSUME Typed
  PROVE  TypeOK
  BY DEF Typed, TablesOK, StoreOK, RequestsOK, Body, TypeOK

\* It holds in every reachable state.
LEMMA TypedInvariant == Spec => []Typed
  <1>1. Typed /\ [Next]_catalogVars => Typed'
    BY StepTyped DEF catalogVars, tables, store, Typed, TablesOK, StoreOK, RequestsOK, Busy,
                     Underway, Planned
  <1> QED BY InitTyped, <1>1, PTL DEF Spec

(***************************************************************************)
(* TypeOK for any catalogue: whatever requests are taken in and however     *)
(* their statements interleave, each is about rows of its own table.        *)
(***************************************************************************)
THEOREM TypeCorrect == Spec => []TypeOK
  BY TypedInvariant, TypedIsTypeOK, PTL

-----------------------------------------------------------------------------
\* What a step leaves of the requests, for the invariants below.

\* A statement that wrote: the next one is up, the arguments are as they were.
LEMMA AfterDid ==
  ASSUME Typed, NEW r \in Request, NEW s, s # "log", Did(r, s)
  PROVE  /\ \A q \in Request \ {r} : req'[q] = req[q]
         /\ req'[r].op = req[r].op /\ req'[r].id = req[r].id /\ req'[r].old = req[r].old
         /\ req'[r].to = req[r].to /\ req'[r].sku = req[r].sku
         /\ req'[r].cursor = req[r].cursor
         /\ req'[r].status = "busy" /\ req'[r].todo = Tail(req[r].todo)
         /\ req[r] \in Body /\ Underway(req[r]) /\ Busy(r) /\ req[r].todo[1] = s
  BY DEF Typed, RequestsOK, Did, Body, Busy

\* A handler that ends.
LEMMA AfterStops ==
  ASSUME Typed, NEW r \in Request, NEW how \in {"ok", "refused", "failed"}, Stops(r, how)
  PROVE  /\ \A q \in Request \ {r} : req'[q] = req[q]
         /\ req'[r].status = how /\ Busy(r) /\ req[r] \in Body /\ Underway(req[r])
         /\ how = "failed" => req'[r].op = req[r].op /\ req'[r].id = req[r].id
         /\ how # "failed" => req'[r].op = "none" /\ req'[r].id = "none"
         /\ how = "ok" => req[r].todo[1] = "log"
         /\ how = "refused" => req[r].todo[1] # "clearImage"
  <1>1. req'[r] = Answered(req[r], how)  BY DEF Stops, Typed, RequestsOK
  <1>2. req[r] \in Body /\ Underway(req[r]) /\ Busy(r)
    BY DEF Stops, Typed, RequestsOK
  <1>3. /\ Answered(req[r], how).status = how
        /\ how = "failed" => /\ Answered(req[r], how).op = req[r].op
                             /\ Answered(req[r], how).id = req[r].id
        /\ how # "failed" => /\ Answered(req[r], how).op = "none"
                             /\ Answered(req[r], how).id = "none"
    BY DEF Answered, NewRequest
  <1> QED BY <1>1, <1>2, <1>3 DEF Stops, Typed, RequestsOK

\* A handler that has remembered the old key of its row.
LEMMA AfterLooked ==
  ASSUME Typed, NEW r \in Request, Looked(r)
  PROVE  /\ \A q \in Request \ {r} : req'[q] = req[q]
         /\ req'[r].op = req[r].op /\ req'[r].id = req[r].id
         /\ req'[r].old = image[req[r].id]
         /\ req'[r].status = "busy" /\ req'[r].todo = Tail(req[r].todo)
         /\ req[r].op \in {"uploadImage", "deleteImage"} /\ req[r].id \in Item
         /\ req[r].todo[1] = "look" /\ Underway(req[r]) /\ Busy(r)
         /\ req'[r].todo[1] \in {"save", "unlink"}
  <1> DEFINE x == req[r]
             z == [x EXCEPT !.todo = Tail(@)]
             y == [z EXCEPT !.old = image[x.id]]
  <1>1. x \in Body /\ Underway(x) /\ x.todo[1] = "look" /\ x.status = "busy"
    BY DEF Typed, RequestsOK, Looked, Busy
  <1>2. x.op \in {"uploadImage", "deleteImage"}  BY <1>1, Where
  <1>3. x.id \in Item  BY <1>1, <1>2 DEF Underway, Planned
  <1>4. /\ x.op = "uploadImage" => Tail(x.todo)[1] = "save"
        /\ x.op = "deleteImage" => Tail(x.todo)[1] = "unlink"
    <2>1. /\ x.op = "uploadImage" => x.todo \in UploadTodo
          /\ x.op = "deleteImage" => x.todo \in DeleteTodo
      BY <1>1 DEF Underway, Planned
    <2>2. CASE x.op = "uploadImage"  BY <1>1, <2>1, <2>2, UploadTodoSteps
    <2>3. CASE x.op = "deleteImage"  BY <1>1, <2>1, <2>3, DeleteTodoSteps
    <2> QED BY <1>2, <2>2, <2>3
  <1>5. req' = [req EXCEPT ![r] = y]  BY DEF Looked
  <1>6. z.op = x.op /\ z.id = x.id /\ z.status = x.status /\ z.todo = Tail(x.todo)
          /\ DOMAIN z = DOMAIN x /\ "old" \in DOMAIN z
    BY <1>1 DEF Body
  <1> HIDE DEF z
  <1>7. y.op = z.op /\ y.id = z.id /\ y.status = z.status /\ y.todo = z.todo
          /\ y.old = image[x.id]
    BY <1>6
  <1>8. req'[r] = y /\ \A q \in Request \ {r} : req'[q] = req[q]
    BY <1>5 DEF Typed, RequestsOK
  <1> QED BY <1>1, <1>2, <1>3, <1>4, <1>6, <1>7, <1>8 DEF Busy

-----------------------------------------------------------------------------
\* Images.  A key that a row names, or that a request has read, belongs to a
\* request that is past storing it; so no other request's statements touch its
\* file or put it into another row.

Done(q) == /\ req[q].status # "new"
           /\ Busy(q) /\ req[q].op = "uploadImage" => req[q].todo[1] \in {"clean", "log"}

Settled(k) == k \in Item \/ Done(k)

KeysSettled == \A i \in Item : image[i] \in Key => Settled(image[i])

KeysApart == \A i, j \in Item : image[i] \in Key /\ image[i] = image[j] => i = j

OldIsOurs ==
    \A q \in Request : Busy(q) /\ req[q].old \in Key =>
        /\ Settled(req[q].old)
        /\ \A j \in Item \ {req[q].id} : image[j] # req[q].old

Uploading(q, s) == Busy(q) /\ req[q].op = "uploadImage" /\ req[q].todo[1] = s

OldReplaced ==
    \A q \in Request : Uploading(q, "clean") /\ req[q].old \in Key =>
        image[req[q].id] # req[q].old

NewSaved == \A q \in Request : Uploading(q, "storeImage") => q \in files

\* A request that excuses a row whose file is not there.
Excuse(q) ==
    \/ /\ req[q].op = "deleteImage"
       /\ \/ req[q].status = "failed"
          \/ Busy(q) /\ req[q].todo[1] = "clearImage"
    \/ req[q].op = "uploadImage" /\ req[q].status = "failed"

Excused ==
    \A i \in Item : image[i] \in Key \ files =>
        \E q \in Request : req[q].id = i /\ Excuse(q)

ImageInv == /\ KeysSettled /\ KeysApart /\ OldIsOurs
            /\ OldReplaced /\ NewSaved /\ Excused

\* A request that is past storing its key stays so.
LEMMA DoneStays ==
  ASSUME Typed, NEW r \in Request, Step(r), NEW k \in Key, Settled(k)
  PROVE  Settled(k)'
  <1>1. CASE k \in Item  BY <1>1 DEF Settled
  <1>2. CASE k \in Request \ Item
    <2> USE <1>2 DEF Done, Settled, Busy
    <2>1. ASSUME NEW s \in {"category", "parent", "children", "products", "item", "pathProduct",
                            "productSku", "variantSku", "walk", "storeCategory",
                            "deleteCategory",
                            "storeProduct", "storeVariant", "storeStatus", "save", "storeImage",
                            "clean", "unlink", "clearImage"},
                 Did(r, s)
          PROVE  Settled(k)'
      <3>1. CASE k # r  BY <3>1, <2>1, AfterDid
      <3>2. CASE k = r /\ req[r].op # "uploadImage"  BY <3>2, <2>1, AfterDid
      <3>3. CASE k = r /\ req[r].op = "uploadImage"
        <4>1. req[r].todo \in UploadTodo /\ req[r].todo[1] = s /\ Busy(r)
          BY <3>3, <2>1, AfterDid DEF Underway, Planned
        <4>2. s = "clean"  BY <3>3, <4>1
        <4>3. req'[r].todo = <<"log">>  BY <4>1, <4>2, <2>1, AfterDid, UploadTodoSteps
        <4> QED BY <3>3, <4>3, <2>1, AfterDid
      <3> QED BY <3>1, <3>2, <3>3
    <2>2. CASE Arrived(r)  BY <2>2 DEF Arrived, Starts, Typed, RequestsOK
    <2>3. ASSUME NEW how \in {"ok", "refused", "failed"}, Stops(r, how)  PROVE Settled(k)'
      BY <2>3, AfterStops
    <2>4. CASE WalkedOn(r)
      <3>1. req[r].op = "updateCategory"
        BY <2>4, Where DEF WalkedOn, Typed, RequestsOK
      <3> QED BY <2>4, <3>1 DEF WalkedOn, Typed, RequestsOK, Body
    <2>5. CASE Looked(r)
      <3>1. req[r].op = "deleteImage" \/ ~Done(r)
        BY <2>5, AfterLooked
      <3> QED BY <2>5, <3>1, AfterLooked
    <2> QED BY <2>1, <2>2, <2>3, <2>4, <2>5
            DEF Step, Stopped, Passed, LookUps, WalkedOut, CategoryStored, CategoryDeleted,
                ProductStored, VariantStored, StatusStored, FileSaved, ImageStored, RolledBack,
                OldCleaned, Unlinked, ImageCleared
  <1> QED BY <1>1, <1>2 DEF Key

\* Every step keeps the bookkeeping of the keys.
LEMMA ImageStep ==
  ASSUME Typed, ImageInv, NEW r \in Request, Step(r)
  PROVE  ImageInv'
  <1> USE DEF Busy, Uploading, Excuse
  <1>0. /\ image \in [Item -> Key \cup {"null"}] /\ files \subseteq Key
        /\ req \in [Request -> Body] /\ "null" \notin Key
        /\ Request \subseteq Key /\ Request \cap Item = {}
    BY CatalogAssumption DEF Typed, StoreOK, RequestsOK, Key
  <1>1. \A k \in Key : Settled(k) => Settled(k)'  BY DoneStays
  <1>2. \A q \in Request : req[q].op = "uploadImage" /\ Busy(q)
                            /\ req[q].todo[1] \notin {"clean", "log"} => ~Settled(q)
    BY <1>0 DEF Settled, Done
  <1> DEFINE Same == /\ image' = image /\ files' = files
                     /\ \A q \in Request \ {r} : req'[q] = req[q]
             Lent == /\ req'[r].op = req[r].op /\ req'[r].id = req[r].id
                     /\ req'[r].old = req[r].old
                     /\ req[r].status = "busy" /\ req'[r].status = "busy"
  \* A statement of another operation.
  <1>3. ASSUME Same, Lent, req[r].op \notin {"uploadImage", "deleteImage"}
        PROVE  ImageInv'
    <2>1. KeysSettled' /\ KeysApart'
      BY <1>0, <1>1, <1>3 DEF ImageInv, KeysSettled, KeysApart
    <2>2. OldIsOurs'  BY <1>0, <1>1, <1>3 DEF ImageInv, OldIsOurs
    <2>3. OldReplaced' /\ NewSaved'
      BY <1>0, <1>3 DEF ImageInv, OldReplaced, NewSaved
    <2>4. Excused'  BY <1>0, <1>3 DEF ImageInv, Excused
    <2> QED BY <2>1, <2>2, <2>3, <2>4 DEF ImageInv
  <1>4. ASSUME NEW s \in {"category", "parent", "children", "products", "item", "pathProduct",
                          "productSku", "variantSku", "walk", "storeCategory", "deleteCategory",
                          "storeProduct", "storeVariant", "storeStatus"},
               Did(r, s), UNCHANGED store
        PROVE  ImageInv'
    <2>1. req[r].op \notin {"uploadImage", "deleteImage"}
      BY <1>4, AfterDid, Where DEF CategoryWrites, ProductWrites, VariantWrites
    <2>2. Same /\ Lent  BY <1>4, AfterDid DEF store
    <2> QED BY <2>1, <2>2, <1>3
  <1>5. CASE WalkedOn(r)
    <2>1. req[r].op = "updateCategory"
      BY <1>5, Where DEF WalkedOn, Typed, RequestsOK
    <2>2. Same /\ Lent  BY <1>0, <1>5 DEF WalkedOn, store, Body
    <2> QED BY <2>1, <2>2, <1>3
  <1>6. CASE Arrived(r)
    <2>1. PICK x \in Body : Starts(r, x) /\ req' = [req EXCEPT ![r] = x]
      BY <1>6 DEF Arrived
    <2>2. Same /\ req'[r].old = "null" /\ req[r].status = "new" /\ req'[r].status = "busy"
            /\ (req'[r].op \in {"uploadImage", "deleteImage"} => req'[r].todo[1] = "look")
      BY <1>0, <1>6, <2>1 DEF Arrived, Starts, store
    <2>3. KeysSettled' /\ KeysApart'
      BY <1>0, <1>1, <2>2 DEF ImageInv, KeysSettled, KeysApart
    <2>4. OldIsOurs'  BY <1>0, <1>1, <2>2 DEF ImageInv, OldIsOurs
    <2>5. OldReplaced' /\ NewSaved'
      BY <1>0, <2>2 DEF ImageInv, OldReplaced, NewSaved
    <2>6. Excused'
      <3> SUFFICES ASSUME NEW i \in Item, image[i] \in Key \ files
                   PROVE  \E q \in Request : req'[q].id = i /\ Excuse(q)'
        BY <2>2 DEF Excused
      <3>1. PICK q \in Request : req[q].id = i /\ Excuse(q)  BY DEF ImageInv, Excused
      <3>2. q # r  BY <3>1, <2>2
      <3> QED BY <3>1, <3>2, <2>2
    <2> QED BY <2>3, <2>4, <2>5, <2>6 DEF ImageInv
  <1>7. CASE Stopped(r)
    <2>1. PICK how \in {"ok", "refused", "failed"} : Stops(r, how)
      BY <1>7 DEF Stopped
    <2>2. Same /\ req[r].status = "busy" /\ req'[r].status = how
            /\ (how = "failed" => req'[r].op = req[r].op /\ req'[r].id = req[r].id)
            /\ (how # "failed" => req[r].todo[1] # "clearImage")
      BY <1>7, <2>1, AfterStops DEF Stopped, store
    <2>3. KeysSettled' /\ KeysApart'
      BY <1>0, <1>1, <2>2 DEF ImageInv, KeysSettled, KeysApart
    <2>4. OldIsOurs'  BY <1>0, <1>1, <2>2 DEF ImageInv, OldIsOurs
    <2>5. OldReplaced' /\ NewSaved'
      BY <1>0, <2>2 DEF ImageInv, OldReplaced, NewSaved
    <2>6. Excused'
      <3> SUFFICES ASSUME NEW i \in Item, image[i] \in Key \ files
                   PROVE  \E q \in Request : req'[q].id = i /\ Excuse(q)'
        BY <2>2 DEF Excused
      <3>1. PICK q \in Request : req[q].id = i /\ Excuse(q)  BY DEF ImageInv, Excused
      <3>2. CASE q # r  BY <3>1, <3>2, <2>2
      <3>3. CASE q = r
        <4>1. req[r].op = "deleteImage" /\ req[r].todo[1] = "clearImage"
          BY <3>1, <3>3, <2>2
        <4>2. how = "failed"  BY <4>1, <2>2
        <4>3. req[r].id = i  BY <3>1, <3>3
        <4>4. req'[r].id = i /\ req'[r].op = "deleteImage" /\ req'[r].status = "failed"
          BY <4>1, <4>2, <4>3, <2>2
        <4> QED BY <4>4
      <3> QED BY <3>2, <3>3
    <2> QED BY <2>3, <2>4, <2>5, <2>6 DEF ImageInv
  <1>8. CASE Looked(r)
    <2>1. Same /\ req[r].status = "busy" /\ req'[r].status = "busy" /\ req[r].id \in Item
            /\ req'[r].old = image[req[r].id] /\ req'[r].id = req[r].id
            /\ req'[r].todo[1] \in {"save", "unlink"} /\ req[r].todo[1] = "look"
      BY <1>8, AfterLooked DEF Looked, store
    <2>2. KeysSettled' /\ KeysApart'
      BY <1>0, <1>1, <2>1 DEF ImageInv, KeysSettled, KeysApart
    <2>3. OldIsOurs'
      BY <1>0, <1>1, <2>1 DEF ImageInv, OldIsOurs, KeysSettled, KeysApart
    <2>4. OldReplaced' /\ NewSaved'
      BY <1>0, <2>1 DEF ImageInv, OldReplaced, NewSaved
    <2>5. Excused'  BY <1>0, <2>1 DEF ImageInv, Excused
    <2> QED BY <2>2, <2>3, <2>4, <2>5 DEF ImageInv
  \* The statements on the files and on the rows that name them.
  <1>9. ASSUME NEW s \in {"save", "storeImage", "clean"}, Did(r, s)
        PROVE  /\ req[r].op = "uploadImage" /\ req'[r].op = "uploadImage"
               /\ req[r].status = "busy" /\ req'[r].status = "busy"
               /\ req'[r].id = req[r].id /\ req'[r].old = req[r].old
               /\ req[r].id \in Item /\ req[r].todo[1] = s
               /\ \A q \in Request \ {r} : req'[q] = req[q]
               /\ s = "save" => req'[r].todo[1] = "storeImage"
               /\ s = "storeImage" => req'[r].todo[1] = "clean"
               /\ s = "clean" => req'[r].todo[1] = "log"
    <2>1. req[r].op = "uploadImage"  BY <1>9, AfterDid, Where
    <2>2. req[r].todo \in UploadTodo /\ req[r].id \in Item
      BY <2>1, <1>9, AfterDid DEF Underway, Planned
    <2>3. /\ req[r].todo[1] = s /\ req'[r].todo = Tail(req[r].todo)
          /\ req'[r].op = req[r].op /\ req'[r].id = req[r].id /\ req'[r].old = req[r].old
          /\ req[r].status = "busy" /\ req'[r].status = "busy"
          /\ \A q \in Request \ {r} : req'[q] = req[q]
      BY <1>9, AfterDid
    <2>4. /\ s = "save" => req'[r].todo = <<"storeImage", "clean", "log">>
          /\ s = "storeImage" => req'[r].todo = <<"clean", "log">>
          /\ s = "clean" => req'[r].todo = <<"log">>
          /\ <<"storeImage", "clean", "log">>[1] = "storeImage"
          /\ <<"clean", "log">>[1] = "clean" /\ <<"log">>[1] = "log"
      BY <2>2, <2>3, UploadTodoSteps
    <2> QED BY <2>1, <2>2, <2>3, <2>4
  <1>10. CASE FileSaved(r)
    <2>1. Did(r, "save") /\ files' = files \cup {r} /\ image' = image
      BY <1>10 DEF FileSaved
    <2>2. KeysSettled' /\ KeysApart'
      BY <1>0, <1>1, <2>1 DEF ImageInv, KeysSettled, KeysApart
    <2>3. OldIsOurs'  BY <1>0, <1>1, <1>9, <2>1 DEF ImageInv, OldIsOurs
    <2>4. OldReplaced' /\ NewSaved'
      BY <1>0, <1>9, <2>1 DEF ImageInv, OldReplaced, NewSaved
    <2>5. Excused'  BY <1>0, <1>9, <2>1 DEF ImageInv, Excused
    <2> QED BY <2>2, <2>3, <2>4, <2>5 DEF ImageInv
  <1>11. CASE ImageStored(r)
    <2>1. /\ Did(r, "storeImage") /\ files' = files
          /\ image' = [image EXCEPT ![req[r].id] = r]
      BY <1>11 DEF ImageStored
    <2>2. ~Settled(r) /\ r \in files /\ req[r].id \in Item
      BY <1>2, <1>9, <2>1 DEF ImageInv, NewSaved
    <2>3. Settled(r)'  BY <1>9, <2>1 DEF Settled, Done
    <2>4. KeysSettled' /\ KeysApart'
      BY <1>0, <1>1, <2>1, <2>2, <2>3 DEF ImageInv, KeysSettled, KeysApart
    <2>5. OldIsOurs'  BY <1>0, <1>1, <1>9, <2>1, <2>2 DEF ImageInv, OldIsOurs
    <2>6. OldReplaced'
      BY <1>0, <1>9, <2>1, <2>2 DEF ImageInv, OldReplaced, OldIsOurs
    <2>7. NewSaved'  BY <1>0, <1>9, <2>1 DEF ImageInv, NewSaved
    <2>8. Excused'  BY <1>0, <1>9, <2>1, <2>2 DEF ImageInv, Excused
    <2> QED BY <2>4, <2>5, <2>6, <2>7, <2>8 DEF ImageInv
  <1>12. CASE RolledBack(r)
    <2>1. /\ req[r].todo[1] = "storeImage" /\ Stops(r, "failed")
          /\ image' \in {image, [image EXCEPT ![req[r].id] = r]}
          /\ files' \in {files, files \ {r}}
      BY <1>12 DEF RolledBack
    <2>2. req[r].op = "uploadImage" /\ req[r].status = "busy" /\ req[r].id \in Item
      BY <2>1, AfterStops, Where DEF Underway, Planned
    <2>3. /\ req'[r].op = "uploadImage" /\ req'[r].status = "failed" /\ req'[r].id = req[r].id
          /\ \A q \in Request \ {r} : req'[q] = req[q]
      BY <2>1, <2>2, AfterStops
    <2>4. ~Settled(r)  BY <1>2, <2>1, <2>2
    <2>5. Settled(r)'  BY <2>3 DEF Settled, Done
    <2>6. KeysSettled' /\ KeysApart'
      BY <1>0, <1>1, <2>1, <2>4, <2>5 DEF ImageInv, KeysSettled, KeysApart
    <2>7. OldIsOurs'  BY <1>0, <1>1, <2>1, <2>3, <2>4 DEF ImageInv, OldIsOurs
    <2>8. OldReplaced'
      <3> SUFFICES ASSUME NEW q \in Request, Uploading(q, "clean")', req'[q].old \in Key
                   PROVE  image'[req'[q].id] # req'[q].old
        BY DEF OldReplaced
      <3>1. q # r /\ req'[q] = req[q]  BY <2>3
      <3>2. req[q].old # r  BY <3>1, <2>4 DEF ImageInv, OldIsOurs
      <3>3. req[q].id \in Item
        BY <1>0, <3>1, Where DEF Typed, RequestsOK, Underway, Planned
      <3>4. image[req[q].id] # req[q].old  BY <3>1 DEF ImageInv, OldReplaced
      <3> QED BY <1>0, <2>1, <3>1, <3>2, <3>3, <3>4
    <2>9. NewSaved'  BY <1>0, <2>1, <2>3 DEF ImageInv, NewSaved
    <2>10. Excused'
      <3> SUFFICES ASSUME NEW i \in Item, image'[i] \in Key \ files'
                   PROVE  \E q \in Request : req'[q].id = i /\ Excuse(q)'
        BY DEF Excused
      <3>1. CASE i = req[r].id  BY <3>1, <2>3
      <3>2. CASE i # req[r].id
        <4>1. image'[i] = image[i]  BY <1>0, <2>1, <3>2
        <4>2. image[i] # r  BY <1>0, <2>4, <4>1 DEF ImageInv, KeysSettled
        <4>3. image[i] \in Key \ files  BY <2>1, <4>1, <4>2
        <4> QED BY <4>3, <2>2, <2>3 DEF ImageInv, Excused
      <3> QED BY <3>1, <3>2
    <2> QED BY <2>6, <2>7, <2>8, <2>9, <2>10 DEF ImageInv
  <1>13. CASE OldCleaned(r)
    <2>1. Did(r, "clean") /\ files' \in {files, files \ {req[r].old}} /\ image' = image
      BY <1>13 DEF OldCleaned
    <2>2. \A i \in Item : image[i] \in Key => image[i] # req[r].old
      BY <1>9, <2>1 DEF ImageInv, OldIsOurs, OldReplaced
    <2>3. \A q \in Request : Uploading(q, "storeImage") => q # req[r].old
      BY <1>0, <1>2, <1>9, <2>1 DEF ImageInv, OldIsOurs
    <2>4. KeysSettled' /\ KeysApart'
      BY <1>0, <1>1, <2>1 DEF ImageInv, KeysSettled, KeysApart
    <2>5. OldIsOurs'  BY <1>0, <1>1, <1>9, <2>1 DEF ImageInv, OldIsOurs
    <2>6. OldReplaced' /\ NewSaved'
      BY <1>0, <1>9, <2>1, <2>3 DEF ImageInv, OldReplaced, NewSaved
    <2>7. Excused'  BY <1>0, <1>9, <2>1, <2>2 DEF ImageInv, Excused
    <2> QED BY <2>4, <2>5, <2>6, <2>7 DEF ImageInv
  <1>14. ASSUME NEW s \in {"unlink", "clearImage"}, Did(r, s)
         PROVE  /\ req[r].op = "deleteImage" /\ req'[r].op = "deleteImage"
                /\ req[r].status = "busy" /\ req'[r].status = "busy"
                /\ req'[r].id = req[r].id /\ req'[r].old = req[r].old
                /\ req[r].id \in Item /\ req[r].todo[1] = s
                /\ \A q \in Request \ {r} : req'[q] = req[q]
                /\ s = "unlink" => req'[r].todo[1] = "clearImage"
    <2>1. req[r].op = "deleteImage"  BY <1>14, AfterDid, Where
    <2>2. req[r].todo \in DeleteTodo /\ req[r].id \in Item
      BY <2>1, <1>14, AfterDid DEF Underway, Planned
    <2>3. /\ req[r].todo[1] = s /\ req'[r].todo = Tail(req[r].todo)
          /\ req'[r].op = req[r].op /\ req'[r].id = req[r].id /\ req'[r].old = req[r].old
          /\ req[r].status = "busy" /\ req'[r].status = "busy"
          /\ \A q \in Request \ {r} : req'[q] = req[q]
      BY <1>14, AfterDid
    <2>4. /\ s = "unlink" => req'[r].todo = <<"clearImage", "log">>
          /\ <<"clearImage", "log">>[1] = "clearImage"
      BY <2>2, <2>3, DeleteTodoSteps
    <2> QED BY <2>1, <2>2, <2>3, <2>4
  <1>15. CASE Unlinked(r)
    <2>1. Did(r, "unlink") /\ files' = files \ {req[r].old} /\ image' = image
      BY <1>15 DEF Unlinked
    <2>2. \A i \in Item : image[i] \in Key /\ image[i] = req[r].old => i = req[r].id
      BY <1>14, <2>1 DEF ImageInv, OldIsOurs
    <2>3. \A q \in Request : Uploading(q, "storeImage") => q # req[r].old
      BY <1>0, <1>2, <1>14, <2>1 DEF ImageInv, OldIsOurs
    <2>4. KeysSettled' /\ KeysApart'
      BY <1>0, <1>1, <2>1 DEF ImageInv, KeysSettled, KeysApart
    <2>5. OldIsOurs'  BY <1>0, <1>1, <1>14, <2>1 DEF ImageInv, OldIsOurs
    <2>6. OldReplaced' /\ NewSaved'
      BY <1>0, <1>14, <2>1, <2>3 DEF ImageInv, OldReplaced, NewSaved
    <2>7. Excused'
      <3> SUFFICES ASSUME NEW i \in Item, image'[i] \in Key \ files'
                   PROVE  \E q \in Request : req'[q].id = i /\ Excuse(q)'
        BY DEF Excused
      <3>1. CASE image[i] = req[r].old  BY <3>1, <1>14, <2>1, <2>2
      <3>2. CASE image[i] # req[r].old
        <4>1. image[i] \in Key \ files  BY <2>1, <3>2
        <4> QED BY <4>1, <1>14, <2>1 DEF ImageInv, Excused
      <3> QED BY <3>1, <3>2
    <2> QED BY <2>4, <2>5, <2>6, <2>7 DEF ImageInv
  <1>16. CASE ImageCleared(r)
    <2>1. /\ Did(r, "clearImage") /\ files' = files
          /\ image' = [image EXCEPT ![req[r].id] = "null"]
      BY <1>16 DEF ImageCleared
    <2>2. KeysSettled' /\ KeysApart'
      BY <1>0, <1>1, <1>14, <2>1 DEF ImageInv, KeysSettled, KeysApart
    <2>3. OldIsOurs'  BY <1>0, <1>1, <1>14, <2>1 DEF ImageInv, OldIsOurs
    <2>4. OldReplaced' /\ NewSaved'
      BY <1>0, <1>14, <2>1 DEF ImageInv, OldReplaced, NewSaved
    <2>5. Excused'
      <3> SUFFICES ASSUME NEW i \in Item, image'[i] \in Key \ files'
                   PROVE  \E q \in Request : req'[q].id = i /\ Excuse(q)'
        BY DEF Excused
      <3>1. i # req[r].id /\ image'[i] = image[i]  BY <1>0, <1>14, <2>1
      <3>2. image[i] \in Key \ files  BY <2>1, <3>1
      <3> QED BY <3>1, <3>2, <1>14, <2>1 DEF ImageInv, Excused
    <2> QED BY <2>2, <2>3, <2>4, <2>5 DEF ImageInv
  <1>17. CASE \E s \in {"category", "parent", "children", "products", "item", "pathProduct",
                        "productSku", "variantSku", "walk", "storeCategory", "deleteCategory",
                        "storeProduct", "storeVariant", "storeStatus"} :
                 Did(r, s) /\ UNCHANGED store
    BY <1>4, <1>17
  <1>18. CASE Passed(r)  BY <1>17, <1>18 DEF Passed, LookUps
  <1> QED
    BY <1>5, <1>6, <1>7, <1>8, <1>10, <1>11, <1>12, <1>13, <1>15, <1>16, <1>17, <1>18
          DEF Step, WalkedOut, CategoryStored, CategoryDeleted, ProductStored, VariantStored,
              StatusStored

\* It holds in every reachable state, whatever overlaps.
LEMMA ImageInvariant == Spec => []ImageInv
  <1>1. Init => ImageInv
    <2> SUFFICES ASSUME Init  PROVE ImageInv
      OBVIOUS
    <2>1. \A q \in Request : req[q].status = "new"  BY DEF Init, NewRequest
    <2>2. \A i \in Item : image[i] \in {i, "null"} /\ (image[i] = i => i \in files)
      BY CatalogAssumption DEF Init, Key
    <2> QED BY <2>1, <2>2, CatalogAssumption
            DEF ImageInv, KeysSettled, KeysApart, OldIsOurs, OldReplaced, NewSaved, Excused,
                Settled, Busy, Uploading, Key
  <1>2. Typed /\ ImageInv /\ [Next]_catalogVars => ImageInv'
    <2> SUFFICES ASSUME Typed, ImageInv, [Next]_catalogVars  PROVE ImageInv'
      OBVIOUS
    <2>1. CASE \E r \in Request : Step(r)  BY <2>1, ImageStep
    <2>2. CASE UNCHANGED catalogVars
      BY <2>2 DEF catalogVars, store, ImageInv, KeysSettled, KeysApart, OldIsOurs, OldReplaced,
                  NewSaved, Excused, Settled, Done, Busy, Uploading, Excuse
    <2> QED BY <2>1, <2>2, NextIsStep
  <1> QED BY <1>1, <1>2, TypedInvariant, PTL DEF Spec

(***************************************************************************)
(* ImagesPresent for any catalogue and any requests, with no pair of        *)
(* operations kept apart: a row names a file that is not there only because *)
(* of a deleteImage of that row between its two steps or failed, or of an   *)
(* upload to it that failed.                                                *)
(***************************************************************************)
THEOREM ImagesStayPresent == Spec => []ImagesPresent
  <1>1. ImageInv => ImagesPresent
    BY DEF ImageInv, Excused, Excuse, ImagesPresent, Busy
  <1> QED BY <1>1, ImageInvariant, PTL

-----------------------------------------------------------------------------
\* Which operations run beside each other.

Apart == \A q, s \in Request :
            q # s /\ Busy(q) /\ Busy(s) => {req[q].op, req[s].op} \notin Exclusive

\* A request that stays busy keeps what it is about.
LEMMA StepFrame ==
  ASSUME Typed, NEW r \in Request, Step(r)
  PROVE  /\ \A q \in Request \ {r} : req'[q] = req[q]
         /\ \/ Arrived(r)
            \/ Busy(r) /\ (Busy(r)' => /\ req'[r].op = req[r].op /\ req'[r].id = req[r].id
                                       /\ req'[r].to = req[r].to /\ req'[r].sku = req[r].sku)
  <1> USE DEF Busy
  <1>1. CASE Arrived(r)  BY <1>1 DEF Arrived, Typed, RequestsOK
  <1>2. CASE \E s \in {"category", "parent", "children", "products", "item", "pathProduct",
                       "productSku", "variantSku", "walk", "storeCategory", "deleteCategory",
                       "storeProduct", "storeVariant", "storeStatus", "save", "storeImage",
                       "clean", "unlink", "clearImage"} : Did(r, s)
    BY <1>2, AfterDid
  <1>3. CASE \E how \in {"ok", "refused", "failed"} : Stops(r, how)
    BY <1>3, AfterStops
  <1>4. CASE WalkedOn(r)  BY <1>4 DEF WalkedOn, Typed, RequestsOK, Body
  <1>5. CASE Looked(r)
    <2> DEFINE z == [req[r] EXCEPT !.todo = Tail(@)]
               y == [z EXCEPT !.old = image[req[r].id]]
    <2>1. req' = [req EXCEPT ![r] = y]  BY <1>5 DEF Looked
    <2>2. z.op = req[r].op /\ z.id = req[r].id /\ z.to = req[r].to /\ z.sku = req[r].sku
            /\ DOMAIN z = DOMAIN req[r]
      BY DEF Typed, RequestsOK, Body
    <2> HIDE DEF z
    <2>3. y.op = z.op /\ y.id = z.id /\ y.to = z.to /\ y.sku = z.sku
      BY <2>2 DEF Typed, RequestsOK, Body
    <2> QED BY <1>5, <2>1, <2>2, <2>3 DEF Looked, Typed, RequestsOK
  <1> QED BY <1>1, <1>2, <1>3, <1>4, <1>5
          DEF Step, Stopped, Passed, LookUps, WalkedOut, CategoryStored, CategoryDeleted,
              ProductStored, VariantStored, StatusStored, FileSaved, ImageStored, RolledBack,
              OldCleaned, Unlinked, ImageCleared

\* Operations that exclude each other are never under way together.
LEMMA ApartInvariant == Spec => []Apart
  <1>1. Init => Apart  BY DEF Init, Apart, Busy, NewRequest
  <1>2. ASSUME Typed, Apart, NEW r \in Request, Step(r)  PROVE Apart'
    <2> SUFFICES ASSUME NEW q \in Request, q # r, Busy(q), Busy(r)'
                 PROVE  {req[q].op, req'[r].op} \notin Exclusive
      BY <1>2, StepFrame DEF Apart, Busy
    <2>1. CASE Arrived(r)
      <3>1. PICK x \in Body : Starts(r, x) /\ req' = [req EXCEPT ![r] = x]
        BY <2>1 DEF Arrived
      <3>2. {x.op, req[q].op} \notin Exclusive  BY <3>1 DEF Starts, MayStart
      <3>3. req'[r].op = x.op  BY <1>2, <3>1 DEF Typed, RequestsOK
      <3>4. {x.op, req[q].op} = {req[q].op, x.op}  OBVIOUS
      <3> QED BY <3>2, <3>3, <3>4
    <2>2. CASE ~Arrived(r)
      <3>1. Busy(r) /\ req'[r].op = req[r].op  BY <1>2, <2>2, StepFrame
      <3> QED BY <1>2, <3>1 DEF Apart
    <2> QED BY <2>1, <2>2
  <1>3. Typed /\ Apart /\ [Next]_catalogVars => Apart'
    BY <1>2, NextIsStep DEF catalogVars, Apart, Busy
  <1> QED BY <1>1, <1>3, TypedInvariant, PTL DEF Spec

-----------------------------------------------------------------------------
\* SKUs.  What the check of the variants found is still so when they write.

SkuWritesApart == \A v \in VariantWrites, p \in ProductWrites : {v, p} \in Exclusive

ProductsChecked ==
    \A q \in Request :
        /\ Busy(q) /\ req[q].op \in VariantWrites /\ req[q].sku \in Sku
        /\ req[q].todo[1] \in {"variantSku", "storeVariant"}
        => \A p \in Product : sku[p] # req[q].sku

\* No step makes the check of a variant stale.
LEMMA SkuStep ==
  ASSUME SkuWritesApart, Typed, Apart, ProductsChecked, NEW r \in Request, Step(r)
  PROVE  ProductsChecked'
  <1> SUFFICES ASSUME NEW q \in Request, Busy(q)', req'[q].op \in VariantWrites,
                      req'[q].sku \in Sku, req'[q].todo[1] \in {"variantSku", "storeVariant"},
                      NEW p \in Product
               PROVE  sku'[p] # req'[q].sku
    BY DEF ProductsChecked
  <1>1. /\ sku \in [Item -> Sku \cup {"unborn"}] /\ req \in [Request -> Body]
        /\ Product \subseteq Item /\ Product \cap Variant = {}
    BY CatalogAssumption DEF Typed, TablesOK, RequestsOK, Item
  <1>2. \A s \in Request : Busy(s) => Underway(req[s])  BY DEF Typed, RequestsOK
  \* No write of a product ran.
  <1>3. sku'[p] = sku[p]
    <2>1. CASE ProductStored(r)
      <3>1. Busy(r) /\ req[r].op \in ProductWrites
        BY <1>1, <1>2, <2>1, Where DEF ProductStored, Did
      <3>2. q # r
        BY <3>1, StepFrame DEF ProductWrites, VariantWrites, Arrived, Starts, MayStart, Busy
      <3>3. Busy(q) /\ req[q].op \in VariantWrites  BY <3>2, StepFrame DEF Busy
      <3> QED BY <3>1, <3>2, <3>3 DEF Apart, SkuWritesApart
    <2>2. CASE VariantStored(r)
      <3>1. req[r].op \in VariantWrites
        BY <1>1, <1>2, <2>2, Where DEF VariantStored, Did
      <3>2. req[r].id \in Variant
        BY <1>2, <2>2, <3>1 DEF Underway, Planned, VariantStored, Did
      <3> QED BY <1>1, <2>2, <3>2 DEF VariantStored
    <2> QED BY <2>1, <2>2
            DEF Step, Arrived, Stopped, Passed, WalkedOn, WalkedOut, CategoryStored,
                CategoryDeleted, StatusStored, Looked, FileSaved, ImageStored, RolledBack,
                OldCleaned, Unlinked, ImageCleared, tables, store
  <1>4. CASE q # r
    BY <1>3, <1>4, StepFrame DEF ProductsChecked, Busy
  <1>5. CASE q = r
    <2>1. CASE Arrived(r)
      BY <1>1, <1>5, <2>1 DEF Arrived, Starts, VariantWrites
    <2>2. CASE ~Arrived(r)
      <3>1. /\ Busy(r) /\ req'[r].op = req[r].op /\ req'[r].sku = req[r].sku
            /\ req[r].op \in VariantWrites /\ req[r].sku \in Sku
        BY <1>5, <2>2, StepFrame
      <3>2. req[r].todo \in CreateVariantTodo \cup CheckedTodo
        BY <1>2, <3>1 DEF Underway, Planned, VariantWrites
      <3>3. req[r].todo[1] \in {"pathProduct", "item", "productSku", "variantSku",
                                "storeVariant", "log"}
        BY <3>2, CreateVariantTodoSteps, CheckedTodoSteps
      <3>4. Passed(r) \/ VariantStored(r)
        BY <1>1, <1>5, <2>2, <3>1, <3>3, AfterStops
           DEF Step, Stopped, WalkedOn, WalkedOut, CategoryStored, CategoryDeleted,
               ProductStored, StatusStored, Looked, FileSaved, ImageStored,
               RolledBack, OldCleaned, Unlinked, ImageCleared, Did, Busy
      <3>9. PICK s \in LookUps \cup {"storeVariant"} :
               Did(r, s) /\ (s \in LookUps => Finds(r, s))
        BY <3>4 DEF Passed, VariantStored, LookUps
      <3>5. req[r].todo[1] = s /\ req'[r].todo = Tail(req[r].todo)
        BY <3>9, AfterDid DEF LookUps
      <3>6. CASE s \in {"variantSku", "storeVariant"}
        BY <1>3, <1>5, <3>1, <3>5, <3>6 DEF ProductsChecked
      <3>7. CASE s = "productSku"
        <4>1. ProductSkuFree(req[r])  BY <3>7, <3>9 DEF Finds, LookUps
        <4> QED BY <1>3, <1>5, <3>1, <3>7, <4>1 DEF ProductSkuFree
      <3>8. CASE s \in {"pathProduct", "item"}
        <4>1. req'[r].todo = <<"productSku", "variantSku", "storeVariant", "log">>
          BY <3>2, <3>5, <3>8, CreateVariantTodoSteps, CheckedTodoSteps
        <4> QED BY <1>5, <4>1
      <3> QED BY <3>3, <3>5, <3>6, <3>7, <3>8 DEF LookUps
    <2> QED BY <2>1, <2>2
  <1> QED BY <1>4, <1>5

\* What a variant has checked holds until it is stored.
LEMMA SkuInvariant ==
  ASSUME SkuWritesApart
  PROVE  Spec => []ProductsChecked
  <1>1. Init => ProductsChecked  BY DEF Init, ProductsChecked, Busy, NewRequest
  <1>2. Typed /\ Apart /\ ProductsChecked /\ [Next]_catalogVars => ProductsChecked'
    BY SkuStep, NextIsStep DEF catalogVars, tables, ProductsChecked, Busy
  <1> QED BY <1>1, <1>2, TypedInvariant, ApartInvariant, PTL DEF Spec

(***************************************************************************)
(* The check across the two tables (variants.service.ts:302-325) for any    *)
(* items and requests: while no product is written beside a variant, a      *)
(* variant never takes a SKU that a product holds.                          *)
(***************************************************************************)
THEOREM VariantsNeverTakeAProductsSku ==
  ASSUME SkuWritesApart
  PROVE  Spec => VariantsAvoidProducts
  <1>1. ASSUME Typed, ProductsChecked, NEW r \in Request, Step(r), NEW v \in Variant,
               sku'[v] # sku[v], NEW p \in Product
        PROVE  sku'[v] # sku[p]
    <2>1. /\ sku \in [Item -> Sku \cup {"unborn"}] /\ req \in [Request -> Body]
          /\ Product \cap Variant = {} /\ Variant \subseteq Item
      BY <1>1, CatalogAssumption DEF Typed, TablesOK, RequestsOK, Item
    <2>2. CASE VariantStored(r)
      <3>1. /\ Busy(r) /\ req[r].todo[1] = "storeVariant" /\ Underway(req[r])
            /\ sku' = [sku EXCEPT ![req[r].id] = Given(req[r].sku, @)]
        BY <1>1, <2>2 DEF VariantStored, Did, Typed, RequestsOK
      <3>2. req[r].op \in VariantWrites  BY <2>1, <3>1, Where
      <3>3. req[r].id = v /\ req[r].sku # "keep" /\ sku'[v] = req[r].sku
        BY <1>1, <2>1, <3>1 DEF Given
      <3>4. req[r].sku \in Sku  BY <2>1, <3>3 DEF Body
      <3> QED BY <1>1, <3>1, <3>2, <3>3, <3>4 DEF ProductsChecked
    <2>3. CASE ProductStored(r)
      <3>1. req[r].op \in ProductWrites
        BY <1>1, <2>1, <2>3, Where DEF ProductStored, Did, Typed, RequestsOK
      <3>2. req[r].id \in Product
        BY <1>1, <2>3, <3>1 DEF ProductStored, Did, Typed, RequestsOK, Underway, Planned
      <3> QED BY <1>1, <2>1, <2>3, <3>2 DEF ProductStored
    <2> QED BY <1>1, <2>2, <2>3
            DEF Step, Arrived, Stopped, Passed, WalkedOn, WalkedOut, CategoryStored,
                CategoryDeleted, StatusStored, Looked, FileSaved, ImageStored, RolledBack,
                OldCleaned, Unlinked, ImageCleared, tables, store
  <1>2. Typed /\ ProductsChecked /\ [Next]_catalogVars =>
          [\A v \in Variant : sku'[v] # sku[v] => \A p \in Product : sku'[v] # sku[p]]_sku
    BY <1>1, NextIsStep DEF catalogVars, tables
  <1> QED BY <1>2, SkuInvariant, TypedInvariant, PTL DEF Spec, VariantsAvoidProducts

-----------------------------------------------------------------------------
\* The category tree.  A move holds a set of categories that is closed under
\* parents and does not hold the moved one: what its walk has come by.

Attaching == CategoryWrites \cup ProductWrites

TreeWritesApart ==
    /\ {"updateCategory"} \in Exclusive
    /\ \A op \in Attaching : {"removeCategory", op} \in Exclusive

NoCycle == \A S \in (SUBSET Category) \ {{}} : \E c \in S : parent[c] \notin S

ParentsListed == \A c \in Category : parent[c] \in Category => Listed(parent[c])
HomesListed   == \A p \in Product : home[p] \in Category => Listed(home[p])

Creating(q) == Busy(q) /\ req[q].op = "createCategory"

NotYetBorn ==
    \A q \in Request : Creating(q) /\ req[q].todo[1] \in {"parent", "storeCategory"} =>
        parent[req[q].id] = "unborn"

CreatedOnce ==
    \A q, s \in Request : q # s /\ Creating(q) /\ Creating(s) => req[q].id # req[s].id

\* V was compared with the moved category; its parents are in it or come next.
Above(x, V, next) ==
    /\ x.id \notin V /\ x.to \in V \cup next
    /\ \A c \in V : Listed(c) /\ (parent[c] \in Category => parent[c] \in V \cup next)

Moving(q) == Busy(q) /\ req[q].op = "updateCategory" /\ req[q].to \in Category

WalkHolds ==
    \A q \in Request : Moving(q) =>
        /\ req[q].todo[1] \in {"category", "parent"} => req[q].cursor = "null"
        /\ req[q].todo[1] = "walk" =>
              /\ Listed(Reached(req[q]))
              /\ \E V \in SUBSET Category : Above(req[q], V, {Reached(req[q])})
        /\ req[q].todo[1] = "storeCategory" =>
              \E V \in SUBSET Category : Above(req[q], V, {})

Removing(q) == Busy(q) /\ req[q].op = "removeCategory"

NothingHangs ==
    \A q \in Request : Removing(q) =>
        /\ req[q].todo[1] \in {"products", "deleteCategory"} => NoChildren(req[q])
        /\ req[q].todo[1] = "deleteCategory" => NoProducts(req[q])

ForestInv == /\ NoCycle /\ ParentsListed /\ HomesListed
             /\ NotYetBorn /\ CreatedOnce /\ WalkHolds /\ NothingHangs

\* Types, and what never is a category.
LEMMA TreeTypes ==
  ASSUME Typed
  PROVE  /\ parent \in [Category -> Category \cup {"null", "unborn", "gone"}]
         /\ home \in [Product -> Category \cup {"null"}]
         /\ req \in [Request -> Body]
         /\ Category \cap {"null", "keep", "unborn", "gone", "absent"} = {}
  BY CatalogAssumption DEF Typed, TablesOK, RequestsOK

\* Who stores a category, and what.
LEMMA StoresCategory ==
  ASSUME Typed, NEW r \in Request, CategoryStored(r)
  PROVE  /\ Busy(r) /\ req[r].op \in CategoryWrites /\ req[r].todo[1] = "storeCategory"
         /\ req[r].id \in Category /\ req[r].to \in Category \cup {"null", "keep"}
         /\ req[r].op = "createCategory" => /\ req[r].to \in Category \cup {"null"}
                                            /\ req[r].to # req[r].id
         /\ parent' = [parent EXCEPT ![req[r].id] = Given(req[r].to, @)]
         /\ req[r].op = "updateCategory" => Listed(req[r].id)
         /\ req[r].to \in Category => Listed(req[r].to)
         /\ home' = home
  <1>1. Busy(r) /\ req[r] \in Body /\ Underway(req[r]) /\ req[r].todo[1] = "storeCategory"
    BY DEF CategoryStored, Did, Typed, RequestsOK
  <1>2. req[r].op \in CategoryWrites  BY <1>1, Where
  <1> QED BY <1>1, <1>2 DEF CategoryStored, Underway, Planned, CategoryWrites

\* What a removal deletes has nothing hanging from it.
LEMMA DeletesCategory ==
  ASSUME Typed, NothingHangs, NEW r \in Request, CategoryDeleted(r)
  PROVE  /\ Busy(r) /\ req[r].op = "removeCategory" /\ req[r].id \in Category
         /\ Listed(req[r].id) /\ NoChildren(req[r]) /\ NoProducts(req[r])
         /\ parent' = [parent EXCEPT ![req[r].id] = "gone"] /\ home' = home
  <1>1. Busy(r) /\ req[r] \in Body /\ Underway(req[r]) /\ req[r].todo[1] = "deleteCategory"
    BY DEF CategoryDeleted, Did, Typed, RequestsOK
  <1>2. req[r].op = "removeCategory"  BY <1>1, Where
  <1>3. NoChildren(req[r]) /\ NoProducts(req[r])
    BY <1>1, <1>2 DEF NothingHangs, Removing
  <1>4. Without(parent, req[r].id) = parent /\ Without(home, req[r].id) = home
    BY <1>3, TreeTypes DEF Without, NoChildren, NoProducts
  <1> QED BY <1>1, <1>2, <1>3, <1>4 DEF CategoryDeleted, Underway, Planned

\* What a product is stored with is there.
LEMMA StoresProduct ==
  ASSUME Typed, NEW r \in Request, ProductStored(r)
  PROVE  /\ Busy(r) /\ req[r].op \in ProductWrites /\ req[r].id \in Product
         /\ req[r].to \in Category \cup {"null", "keep"}
         /\ req[r].to \in Category => Listed(req[r].to)
         /\ home' = [home EXCEPT ![req[r].id] = Given(req[r].to, @)]
         /\ parent' = parent
  <1>1. Busy(r) /\ req[r] \in Body /\ Underway(req[r]) /\ req[r].todo[1] = "storeProduct"
    BY DEF ProductStored, Did, Typed, RequestsOK
  <1>2. req[r].op \in ProductWrites  BY <1>1, Where
  <1> QED BY <1>1, <1>2 DEF ProductStored, Underway, Planned

\* No other step touches the tree.
LEMMA TreeStep ==
  ASSUME NEW r \in Request, Step(r), ~CategoryStored(r), ~CategoryDeleted(r),
         ~ProductStored(r)
  PROVE  parent' = parent /\ home' = home
  BY DEF Step, Arrived, Stopped, Passed, WalkedOn, WalkedOut, VariantStored, StatusStored,
         Looked, FileSaved, ImageStored, RolledBack, OldCleaned, Unlinked, ImageCleared,
         tables, store

\* Who does not run beside whom.
LEMMA RunsAlone ==
  ASSUME Apart, TreeWritesApart, NEW q \in Request, NEW r \in Request, q # r,
         Busy(q), Busy(r)
  PROVE  /\ req[q].op = "updateCategory" =>
               req[r].op \notin {"updateCategory", "removeCategory"}
         /\ req[q].op = "removeCategory" => req[r].op \notin Attaching
  <1>1. {req[q].op, req[r].op} \notin Exclusive  BY DEF Apart
  <1>2. req[q].op = "updateCategory" => req[r].op # "updateCategory"
    BY <1>1 DEF TreeWritesApart
  <1>3. req[q].op = "removeCategory" => req[r].op \notin Attaching
    BY <1>1 DEF TreeWritesApart
  <1>4. req[q].op = "updateCategory" => req[r].op # "removeCategory"
    <2> SUFFICES ASSUME req[q].op = "updateCategory", req[r].op = "removeCategory"
                 PROVE  FALSE
      OBVIOUS
    <2>1. {req[q].op, req[r].op} = {"removeCategory", "updateCategory"}  OBVIOUS
    <2> QED BY <1>1, <2>1 DEF TreeWritesApart, Attaching, CategoryWrites
  <1> QED BY <1>2, <1>3, <1>4

\* Storing a category closes no cycle: a new one has no children yet, and
\* a moved one is not among those above its new parent.
LEMMA StoreKeepsForest ==
  ASSUME Typed, ForestInv, NEW r \in Request, CategoryStored(r)
  PROVE  NoCycle' /\ ParentsListed'
  <1> DEFINE x == req[r]
  <1> USE TreeTypes, StoresCategory
  <1>1. CASE x.to = "keep"
    <2>1. parent' = parent  BY <1>1 DEF Given
    <2> QED BY <2>1 DEF ForestInv, NoCycle, ParentsListed, Listed
  <1>2. CASE x.to # "keep"
    <2>1. /\ parent'[x.id] = x.to
          /\ \A c \in Category \ {x.id} : parent'[c] = parent[c]
      BY <1>2 DEF Given
    <2>2. ParentsListed'
      <3> SUFFICES ASSUME NEW c \in Category, parent'[c] \in Category
                   PROVE  parent'[parent'[c]] \notin {"unborn", "gone"}
        BY DEF ParentsListed, Listed
      <3>1. parent[parent'[c]] \notin {"unborn", "gone"}
        BY <2>1 DEF ForestInv, ParentsListed, Listed
      <3> QED BY <2>1, <3>1
    <2>3. NoCycle'
      <3> SUFFICES ASSUME NEW S \in (SUBSET Category) \ {{}}
                   PROVE  \E c \in S : parent'[c] \notin S
        BY DEF NoCycle
      <3>1. CASE x.id \notin S
        <4>1. PICK c \in S : parent[c] \notin S  BY DEF ForestInv, NoCycle
        <4> QED BY <2>1, <3>1, <4>1
      <3>2. CASE x.id \in S /\ x.to \notin S  BY <2>1, <3>2
      <3>3. CASE x.id \in S /\ x.to \in S /\ x.op = "createCategory"
        <4>1. parent[x.id] = "unborn"
          BY <3>3 DEF ForestInv, NotYetBorn, Creating
        <4>2. S \ {x.id} \in (SUBSET Category) \ {{}}  BY <3>3
        <4>3. PICK c \in S \ {x.id} : parent[c] \notin S \ {x.id}
          BY <4>2 DEF ForestInv, NoCycle
        <4>4. parent[c] # x.id  BY <4>1, <4>3 DEF ForestInv, ParentsListed, Listed
        <4> QED BY <2>1, <4>3, <4>4
      <3>4. CASE x.id \in S /\ x.to \in S /\ x.op = "updateCategory"
        <4>1. PICK V \in SUBSET Category : Above(x, V, {})
          BY <3>4 DEF ForestInv, WalkHolds, Moving
        <4>2. S \cap V \in (SUBSET Category) \ {{}}  BY <3>4, <4>1 DEF Above
        <4>3. PICK c \in S \cap V : parent[c] \notin S \cap V
          BY <4>2 DEF ForestInv, NoCycle
        <4>4. parent[c] \notin S  BY <4>1, <4>3 DEF Above
        <4>5. c # x.id  BY <4>1, <4>3 DEF Above
        <4> QED BY <2>1, <4>3, <4>4, <4>5
      <3> QED BY <3>1, <3>2, <3>3, <3>4 DEF CategoryWrites
    <2> QED BY <2>2, <2>3
  <1> QED BY <1>1, <1>2

\* Every step keeps the tree a forest and its references alive.
LEMMA TreeKept ==
  ASSUME Typed, ForestInv, NEW r \in Request, Step(r)
  PROVE  NoCycle' /\ ParentsListed' /\ HomesListed'
  <1> USE TreeTypes
  <1>1. CASE CategoryStored(r)
    <2>1. \A c \in Category : Listed(c) => Listed(c)'
      BY <1>1, StoresCategory DEF Given, Listed
    <2>2. HomesListed'
      BY <1>1, <2>1, StoresCategory DEF ForestInv, HomesListed
    <2> QED BY <1>1, <2>2, StoreKeepsForest
  <1>2. CASE CategoryDeleted(r)
    <2> DEFINE x == req[r]
    <2>1. /\ x.id \in Category /\ NoChildren(x) /\ NoProducts(x) /\ home' = home
          /\ parent'[x.id] = "gone" /\ \A c \in Category \ {x.id} : parent'[c] = parent[c]
      BY <1>2, DeletesCategory DEF ForestInv
    <2>2. NoCycle'
      <3> SUFFICES ASSUME NEW S \in (SUBSET Category) \ {{}}
                   PROVE  \E c \in S : parent'[c] \notin S
        BY DEF NoCycle
      <3>1. PICK c \in S : parent[c] \notin S  BY DEF ForestInv, NoCycle
      <3> QED BY <2>1, <3>1
    <2>3. ParentsListed'
      <3> SUFFICES ASSUME NEW c \in Category, parent'[c] \in Category
                   PROVE  parent'[parent'[c]] \notin {"unborn", "gone"}
        BY DEF ParentsListed, Listed
      <3>1. c # x.id /\ parent'[c] = parent[c]  BY <2>1
      <3>2. parent[c] # x.id  BY <2>1 DEF NoChildren
      <3>3. Listed(parent[c])  BY <3>1 DEF ForestInv, ParentsListed
      <3> QED BY <2>1, <3>1, <3>2, <3>3 DEF Listed
    <2>4. HomesListed'
      <3> SUFFICES ASSUME NEW p \in Product, home[p] \in Category
                   PROVE  Listed(home[p])'
        BY <2>1 DEF HomesListed
      <3>1. home[p] # x.id  BY <2>1 DEF NoProducts
      <3>2. Listed(home[p])  BY DEF ForestInv, HomesListed
      <3> QED BY <2>1, <3>1, <3>2 DEF Listed
    <2> QED BY <2>2, <2>3, <2>4
  <1>3. CASE ProductStored(r)
    BY <1>3, StoresProduct
       DEF Given, ForestInv, NoCycle, ParentsListed, HomesListed, Listed
  <1>4. CASE ~CategoryStored(r) /\ ~CategoryDeleted(r) /\ ~ProductStored(r)
    BY <1>4, TreeStep DEF ForestInv, NoCycle, ParentsListed, HomesListed, Listed
  <1> QED BY <1>1, <1>2, <1>3, <1>4

\* A request that was taken in and is still busy moves on by one statement.
LEMMA CategoryMove ==
  ASSUME Typed, NEW r \in Request, Step(r), ~Arrived(r), Busy(r)',
         req[r].op \in CategoryWrites \cup {"removeCategory"}
  PROVE  Passed(r) \/ WalkedOn(r) \/ WalkedOut(r) \/ CategoryStored(r) \/ CategoryDeleted(r)
  <1>1. Busy(r) /\ req[r] \in Body /\ Underway(req[r])
    BY StepFrame DEF Typed, RequestsOK
  <1>2. req[r].todo[1] \notin {"storeProduct", "storeVariant", "storeStatus", "look", "save",
                              "storeImage", "clean", "unlink", "clearImage"}
    BY <1>1, Where DEF CategoryWrites, ProductWrites, VariantWrites
  <1>3. ~Stopped(r) /\ ~RolledBack(r)
    BY AfterStops DEF Stopped, RolledBack, Busy
  <1> QED BY <1>2, <1>3
          DEF Step, ProductStored, VariantStored, StatusStored, Looked, FileSaved, ImageStored,
              OldCleaned, Unlinked, ImageCleared, Did

\* Rows that are there, or not yet, as long as nobody stores or deletes them.
LEMMA RowsKept ==
  ASSUME Typed, ForestInv, NEW r \in Request, Step(r), NEW c \in Category,
         ~(CategoryStored(r) /\ req[r].id = c), ~(CategoryDeleted(r) /\ req[r].id = c)
  PROVE  parent'[c] = parent[c]
  <1>1. CASE CategoryStored(r)  BY <1>1, StoresCategory, TreeTypes
  <1>2. CASE CategoryDeleted(r)  BY <1>2, DeletesCategory, TreeTypes DEF ForestInv
  <1>3. CASE ProductStored(r)  BY <1>3, StoresProduct
  <1> QED BY <1>1, <1>2, <1>3, TreeStep

\* Only one request creates a category, and nothing refers to it before.
LEMMA BirthKept ==
  ASSUME Typed, ForestInv, NEW r \in Request, Step(r)
  PROVE  NotYetBorn' /\ CreatedOnce'
  <1> USE DEF Creating, Busy
  <1>0. \A q \in Request : Creating(q) => Underway(req[q]) /\ req[q].id \in Category
    BY DEF Typed, RequestsOK, Underway, Planned
  <1>1. CreatedOnce'
    <2> SUFFICES ASSUME NEW q \in Request, q # r, Creating(q), Creating(r)'
                 PROVE  req[q].id # req'[r].id
      BY StepFrame DEF ForestInv, CreatedOnce
    <2>1. CASE Arrived(r)
      BY <2>1 DEF Arrived, Starts, Fresh, Typed, RequestsOK
    <2>2. CASE ~Arrived(r)
      BY <2>2, StepFrame DEF ForestInv, CreatedOnce
    <2> QED BY <2>1, <2>2
  <1>2. NotYetBorn'
    <2> SUFFICES ASSUME NEW q \in Request, Creating(q)',
                        req'[q].todo[1] \in {"parent", "storeCategory"}
                 PROVE  parent'[req'[q].id] = "unborn"
      BY DEF NotYetBorn
    <2>1. CASE q = r /\ Arrived(r)
      BY <2>1 DEF Arrived, Starts, Typed, RequestsOK, tables
    <2>2. CASE q = r /\ ~Arrived(r)
      <3>1. Creating(r) /\ req'[r].id = req[r].id  BY <2>2, StepFrame
      <3>2. req[r].todo \in CreateCategoryTodo
        BY <3>1, <1>0 DEF Underway, Planned
      <3>3. req[r].todo[1] \in {"parent", "storeCategory", "log"}
        BY <3>2, CreateCategoryTodoSteps
      <3>4. Passed(r) \/ CategoryStored(r)
        BY <2>2, <3>1, <3>3, CategoryMove
           DEF CategoryWrites, WalkedOn, WalkedOut, CategoryDeleted, Did
      <3>5. CASE Passed(r)
        <4>1. PICK s \in LookUps : Did(r, s)  BY <3>5 DEF Passed
        <4>2. s = "parent" /\ req[r].todo[1] = "parent"
          BY <3>3, <4>1 DEF LookUps, Did
        <4>3. parent[req[r].id] = "unborn"
          BY <3>1, <4>2 DEF ForestInv, NotYetBorn
        <4> QED BY <2>2, <3>1, <3>5, <4>3 DEF Passed, tables
      <3>6. CASE CategoryStored(r)
        <4>1. Did(r, "storeCategory")  BY <3>6 DEF CategoryStored
        <4>2. req[r].todo[1] = "storeCategory" /\ req'[r].todo = Tail(req[r].todo)
          BY <4>1, AfterDid
        <4>3. req'[r].todo = <<"log">>  BY <3>2, <4>2, CreateCategoryTodoSteps
        <4> QED BY <2>2, <4>3
      <3> QED BY <3>4, <3>5, <3>6
    <2>3. CASE q # r
      <3>1. req'[q] = req[q] /\ Creating(q) /\ parent[req[q].id] = "unborn"
        BY <2>3, StepFrame DEF ForestInv, NotYetBorn
      <3>2. ~(CategoryStored(r) /\ req[r].id = req[q].id)
        <4> SUFFICES ASSUME CategoryStored(r), req[r].id = req[q].id  PROVE FALSE
          OBVIOUS
        <4>1. req[r].op = "createCategory"
          BY <3>1, StoresCategory DEF Listed, CategoryWrites
        <4> QED BY <2>3, <3>1, <4>1, StoresCategory DEF ForestInv, CreatedOnce
      <3>3. ~(CategoryDeleted(r) /\ req[r].id = req[q].id)
        BY <3>1, DeletesCategory DEF ForestInv, Listed
      <3> QED BY <1>0, <3>1, <3>2, <3>3, RowsKept
    <2> QED BY <2>1, <2>2, <2>3
  <1> QED BY <1>1, <1>2

\* While a category moves, nobody takes a listed category out of its place.
LEMMA OthersKeepWalk ==
  ASSUME Typed, Apart, TreeWritesApart, ForestInv, NEW r \in Request, Step(r),
         NEW q \in Request, q # r, Moving(q), NEW c \in Category, Listed(c)
  PROVE  parent'[c] = parent[c]
  <1>1. Busy(q) /\ req[q].op = "updateCategory"  BY DEF Moving
  <1>2. ASSUME CategoryStored(r), req[r].id = c  PROVE FALSE
    <2>1. req[r].op = "createCategory"
      BY <1>1, <1>2, StoresCategory, RunsAlone DEF CategoryWrites
    <2> QED BY <1>2, <2>1, StoresCategory DEF ForestInv, NotYetBorn, Creating, Listed
  <1>3. ~CategoryDeleted(r)
    BY <1>1, DeletesCategory, RunsAlone DEF ForestInv
  <1> QED BY <1>2, <1>3, RowsKept

\* What Above says of a request x once the step is taken.
AboveThen(x, V, next) ==
    /\ x.id \notin V /\ x.to \in V \cup next
    /\ \A c \in V : /\ parent'[c] \notin {"unborn", "gone"}
                    /\ parent'[c] \in Category => parent'[c] \in V \cup next

\* What walks have come by stays closed under parents.
LEMMA WalkKept ==
  ASSUME Typed, Apart, TreeWritesApart, ForestInv, NEW r \in Request, Step(r)
  PROVE  WalkHolds'
  <1> SUFFICES ASSUME NEW q \in Request, Moving(q)'
               PROVE  /\ req'[q].todo[1] \in {"category", "parent"} => req'[q].cursor = "null"
                      /\ req'[q].todo[1] = "walk" =>
                            /\ Listed(Reached(req[q]))'
                            /\ \E V \in SUBSET Category :
                                  Above(req[q], V, {Reached(req[q])})'
                      /\ req'[q].todo[1] = "storeCategory" =>
                            \E V \in SUBSET Category : Above(req[q], V, {})'
    BY DEF WalkHolds
  <1> SUFFICES /\ req'[q].todo[1] \in {"category", "parent"} => req'[q].cursor = "null"
               /\ req'[q].todo[1] = "walk" =>
                     /\ parent'[Reached(req'[q])] \notin {"unborn", "gone"}
                     /\ \E V \in SUBSET Category :
                           AboveThen(req'[q], V, {Reached(req'[q])})
               /\ req'[q].todo[1] = "storeCategory" =>
                     \E V \in SUBSET Category : AboveThen(req'[q], V, {})
    <2>1. Listed(Reached(req[q]))' <=> parent'[Reached(req'[q])] \notin {"unborn", "gone"}
      BY DEF Listed, Reached
    <2>2. \A V \in SUBSET Category :
             Above(req[q], V, {})' <=> AboveThen(req'[q], V, {})
      BY DEF Above, AboveThen, Listed
    <2>3. \A V \in SUBSET Category :
             Above(req[q], V, {Reached(req[q])})' <=> AboveThen(req'[q], V, {Reached(req'[q])})
      BY DEF Above, AboveThen, Listed, Reached
    <2> QED BY <2>1, <2>2, <2>3
  <1>1. CASE q # r
    <2>1. req'[q] = req[q] /\ Moving(q)  BY <1>1, StepFrame DEF Moving, Busy
    <2>2. \A c \in Category : Listed(c) => parent'[c] = parent[c]
      BY <1>1, <2>1, OthersKeepWalk
    <2>3. \A c \in Category : Listed(c) => parent'[c] \notin {"unborn", "gone"}
      BY <2>2 DEF Listed
    <2>4. Reached(req[q]) \in Category
      BY <2>1, TreeTypes DEF Moving, Body, Reached
    <2>5. ASSUME NEW V \in SUBSET Category, NEW next, Above(req[q], V, next)
          PROVE  AboveThen(req'[q], V, next)
      BY <2>1, <2>2, <2>3, <2>5 DEF Above, AboveThen
    <2>6. CASE req[q].todo[1] = "walk"
      <3>1. PICK V \in SUBSET Category : Above(req[q], V, {Reached(req[q])})
        BY <2>1, <2>6 DEF ForestInv, WalkHolds
      <3>2. parent'[Reached(req'[q])] \notin {"unborn", "gone"}
        BY <2>1, <2>3, <2>4, <2>6 DEF ForestInv, WalkHolds
      <3>3. AboveThen(req'[q], V, {Reached(req'[q])})  BY <2>1, <2>5, <3>1
      <3> QED BY <2>1, <2>6, <3>2, <3>3
    <2>7. CASE req[q].todo[1] = "storeCategory"
      <3>1. PICK V \in SUBSET Category : Above(req[q], V, {})
        BY <2>1, <2>7 DEF ForestInv, WalkHolds
      <3>2. AboveThen(req'[q], V, {})  BY <2>5, <3>1
      <3> QED BY <2>1, <2>7, <3>2
    <2>8. CASE req[q].todo[1] \notin {"walk", "storeCategory"}
      BY <2>1, <2>8 DEF ForestInv, WalkHolds
    <2> QED BY <2>6, <2>7, <2>8
  <1>2. CASE q = r /\ Arrived(r)
    <2>1. PICK x \in Body : Starts(r, x) /\ req' = [req EXCEPT ![r] = x]
      BY <1>2 DEF Arrived
    <2>2. req'[q] = x  BY <1>2, <2>1, TreeTypes
    <2> QED BY <2>1, <2>2 DEF Starts, Moving
  <1>3. CASE q = r /\ ~Arrived(r)
    <2> DEFINE x == req[r]
    <2>1. Moving(r) /\ req'[r].id = x.id /\ req'[r].to = x.to
      BY <1>3, StepFrame DEF Moving, Busy
    <2>2. x \in Body /\ x.todo \in MoveTodo /\ x.id \in Category /\ x.to \in Category
      BY <2>1 DEF Moving, Typed, RequestsOK, Underway, Planned
    <2>3. Passed(r) \/ WalkedOn(r) \/ WalkedOut(r) \/ CategoryStored(r)
      <3>1. x.op = "updateCategory" /\ Busy(r)'  BY <1>3, <2>1 DEF Moving
      <3>2. ~CategoryDeleted(r)  BY <3>1, DeletesCategory DEF ForestInv
      <3> QED BY <1>3, <3>1, <3>2, CategoryMove DEF CategoryWrites
    <2>4. ASSUME NEW s, s # "log", Did(r, s)
          PROVE  /\ x.todo[1] = s /\ req'[r].cursor = x.cursor
                 /\ s = "category" => req'[r].todo[1] = "parent"
                 /\ s = "parent" => req'[r].todo[1] = "walk"
                 /\ s = "walk" => req'[r].todo[1] = "storeCategory"
                 /\ s = "storeCategory" => req'[r].todo[1] = "log"
      <3>1. x.todo[1] = s /\ req'[r].todo = Tail(x.todo) /\ req'[r].cursor = x.cursor
        BY <2>4, AfterDid
      <3>2. /\ s = "category" => Tail(x.todo) = <<"parent", "walk", "storeCategory", "log">>
            /\ s = "parent" => Tail(x.todo) = <<"walk", "storeCategory", "log">>
            /\ s = "walk" => Tail(x.todo) = <<"storeCategory", "log">>
            /\ s = "storeCategory" => Tail(x.todo) = <<"log">>
            /\ <<"parent", "walk", "storeCategory", "log">>[1] = "parent"
            /\ <<"walk", "storeCategory", "log">>[1] = "walk"
            /\ <<"storeCategory", "log">>[1] = "storeCategory" /\ <<"log">>[1] = "log"
        BY <2>2, <3>1, MoveTodoSteps
      <3> QED BY <3>1, <3>2
    <2>5. CASE CategoryStored(r)
      <3>1. Did(r, "storeCategory")  BY <2>5 DEF CategoryStored
      <3> QED BY <1>3, <2>4, <3>1
    <2>6. CASE Passed(r)
      <3>1. PICK s \in LookUps : Did(r, s) /\ Finds(r, s)  BY <2>6 DEF Passed
      <3>2. x.todo[1] = s /\ s \in {"category", "parent"}
        BY <2>2, <2>4, <3>1, MoveTodoSteps DEF LookUps
      <3>3. x.cursor = "null"  BY <2>1, <3>2 DEF ForestInv, WalkHolds
      <3>4. parent' = parent  BY <2>6 DEF Passed, tables
      <3>5. CASE s = "category"  BY <1>3, <2>4, <3>1, <3>3, <3>5
      <3>6. CASE s = "parent"
        <4>1. Listed(x.to)  BY <3>1, <3>6 DEF Finds, ParentFits
        <4>2. req'[r].cursor = "null" /\ req'[r].todo[1] = "walk"
          BY <2>4, <3>1, <3>3, <3>6
        <4>3. Reached(req'[r]) = x.to  BY <2>1, <4>2 DEF Reached
        <4>4. AboveThen(req'[r], {}, {x.to})  BY <2>1 DEF AboveThen
        <4>5. AboveThen(req'[r], {}, {Reached(req'[r])})  BY <4>3, <4>4
        <4>6. parent'[Reached(req'[r])] \notin {"unborn", "gone"}
          BY <3>4, <4>1, <4>3 DEF Listed
        <4> QED BY <1>3, <4>2, <4>5, <4>6
      <3> QED BY <3>2, <3>5, <3>6
    <2>7. CASE WalkedOn(r) \/ WalkedOut(r)
      <3> DEFINE c == Reached(x)
                 n == parent[c]
      <3>1. x.todo[1] = "walk" /\ c # x.id /\ parent' = parent
        BY <2>7 DEF WalkedOn, WalkedOut, Did, ClosesCycle, tables
      <3>2. PICK V \in SUBSET Category : Above(x, V, {c})
        BY <2>1, <3>1 DEF ForestInv, WalkHolds
      <3>3. Listed(c) /\ c \in Category
        BY <2>1, <2>2, <3>1 DEF ForestInv, WalkHolds, Reached, Body
      <3>4. CASE WalkedOn(r)
        <4>1. n \in Category /\ Listed(n)
          BY <3>3, <3>4 DEF WalkedOn, ForestInv, ParentsListed
        <4>2. req'[r].todo[1] = "walk" /\ req'[r].cursor = n
          BY <2>2, <3>1, <3>4, TreeTypes DEF WalkedOn, Body
        <4>3. Reached(req'[r]) = n  BY <4>1, <4>2, TreeTypes DEF Reached
        <4>4. Above(x, V \cup {c}, {n})
          BY <3>1, <3>2, <3>3 DEF Above
        <4>5. AboveThen(req'[r], V \cup {c}, {n})
          BY <2>1, <3>1, <4>4 DEF Above, AboveThen, Listed
        <4>6. AboveThen(req'[r], V \cup {c}, {Reached(req'[r])})  BY <4>3, <4>5
        <4>7. parent'[Reached(req'[r])] \notin {"unborn", "gone"}
          BY <3>1, <4>1, <4>3 DEF Listed
        <4>8. V \cup {c} \in SUBSET Category  BY <3>3
        <4> QED BY <1>3, <4>2, <4>6, <4>7, <4>8
      <3>5. CASE WalkedOut(r)
        <4>1. n \notin Category  BY <3>5 DEF WalkedOut
        <4>2. req'[r].todo[1] = "storeCategory"
          BY <2>4, <3>5 DEF WalkedOut
        <4>3. Above(x, V \cup {c}, {})
          BY <3>1, <3>2, <3>3, <4>1 DEF Above
        <4>4. AboveThen(req'[r], V \cup {c}, {})
          BY <2>1, <3>1, <4>3 DEF Above, AboveThen, Listed
        <4>5. V \cup {c} \in SUBSET Category  BY <3>3
        <4> QED BY <1>3, <4>2, <4>4, <4>5
      <3> QED BY <2>7, <3>4, <3>5
    <2> QED BY <2>3, <2>5, <2>6, <2>7
  <1> QED BY <1>1, <1>2, <1>3

\* What a removal found stays so: whoever attaches is kept apart from it.
LEMMA HangsKept ==
  ASSUME Typed, Apart, TreeWritesApart, ForestInv, NEW r \in Request, Step(r)
  PROVE  NothingHangs'
  <1> USE TreeTypes
  <1> SUFFICES ASSUME NEW q \in Request, Removing(q)'
               PROVE  /\ req'[q].todo[1] \in {"products", "deleteCategory"} =>
                            \A c \in Category : parent'[c] # req'[q].id
                      /\ req'[q].todo[1] = "deleteCategory" =>
                            \A p \in Product : home'[p] # req'[q].id
    BY DEF NothingHangs, NoChildren, NoProducts
  <1>1. CASE q = r /\ Arrived(r)
    BY <1>1 DEF Arrived, Starts, Removing
  <1>2. ASSUME ~(q = r /\ Arrived(r))
        PROVE  /\ Removing(q) /\ req'[q].id = req[q].id /\ req[q].id \in Category
               /\ \A c \in Category : parent[c] # req[q].id => parent'[c] # req[q].id
               /\ \A p \in Product : home[p] # req[q].id => home'[p] # req[q].id
    <2>1. Removing(q) /\ req'[q].id = req[q].id
      BY <1>2, StepFrame DEF Removing, Busy
    <2>2. req[q].id \in Category
      BY <2>1 DEF Removing, Typed, RequestsOK, Underway, Planned
    <2>3. ~CategoryStored(r) /\ ~ProductStored(r)
      <3>1. CASE q = r
        BY <2>1, <3>1, StoresCategory, StoresProduct DEF Removing, CategoryWrites, ProductWrites
      <3>2. CASE q # r
        BY <2>1, <3>2, StoresCategory, StoresProduct, RunsAlone DEF Removing, Attaching
      <3> QED BY <3>1, <3>2
    <2>4. CASE CategoryDeleted(r)  BY <2>1, <2>2, <2>4, DeletesCategory DEF ForestInv
    <2>5. CASE ~CategoryDeleted(r)  BY <2>1, <2>2, <2>3, <2>5, TreeStep
    <2> QED BY <2>4, <2>5
  <1>3. CASE q # r
    BY <1>2, <1>3, StepFrame DEF ForestInv, NothingHangs, NoChildren, NoProducts
  <1>4. CASE q = r /\ ~Arrived(r)
    <2>1. req[r].todo \in RemoveTodo /\ req[r].op = "removeCategory" /\ Busy(r)' /\ Busy(r)
      BY <1>2, <1>4 DEF Removing, Typed, RequestsOK, Underway, Planned
    <2>2. Passed(r) \/ CategoryDeleted(r)
      <3>1. req[r].todo[1] # "walk"  BY <2>1, RemoveTodoSteps
      <3>2. ~CategoryStored(r)
        BY <2>1, StoresCategory DEF CategoryWrites
      <3> QED BY <1>4, <2>1, <3>1, <3>2, CategoryMove DEF WalkedOn, WalkedOut, Did
    <2>3. PICK s \in LookUps \cup {"deleteCategory"} :
             Did(r, s) /\ (s \in LookUps => Finds(r, s))
      BY <2>2 DEF Passed, CategoryDeleted, LookUps
    <2>4. req[r].todo[1] = s /\ req'[r].todo = Tail(req[r].todo)
      BY <2>3, AfterDid DEF LookUps
    <2>5. s \in {"category", "children", "products", "deleteCategory"}
      BY <2>1, <2>3, <2>4, RemoveTodoSteps DEF LookUps
    <2>6. /\ s = "category" => req'[r].todo[1] = "children"
          /\ s = "children" => req'[r].todo[1] = "products"
          /\ s = "products" => req'[r].todo[1] = "deleteCategory"
          /\ s = "deleteCategory" => req'[r].todo[1] = "log"
      <3>1. /\ s = "category" => Tail(req[r].todo) =
                                    <<"children", "products", "deleteCategory", "log">>
            /\ s = "children" => Tail(req[r].todo) = <<"products", "deleteCategory", "log">>
            /\ s = "products" => Tail(req[r].todo) = <<"deleteCategory", "log">>
            /\ s = "deleteCategory" => Tail(req[r].todo) = <<"log">>
        BY <2>1, <2>4, RemoveTodoSteps
      <3>2. /\ <<"children", "products", "deleteCategory", "log">>[1] = "children"
            /\ <<"products", "deleteCategory", "log">>[1] = "products"
            /\ <<"deleteCategory", "log">>[1] = "deleteCategory" /\ <<"log">>[1] = "log"
        OBVIOUS
      <3> QED BY <2>4, <3>1, <3>2
    <2>7. s = "children" => NoChildren(req[r])  BY <2>3 DEF Finds, LookUps
    <2>8. s = "products" => NoProducts(req[r]) /\ NoChildren(req[r])
      BY <1>2, <1>4, <2>3, <2>4 DEF Finds, LookUps, ForestInv, NothingHangs
    <2> QED BY <1>2, <1>4, <2>5, <2>6, <2>7, <2>8 DEF NoChildren, NoProducts
  <1> QED BY <1>1, <1>3, <1>4

\* The opening trees are forests.
LEMMA InitForest == Init => ForestInv
  <1> SUFFICES ASSUME Init  PROVE ForestInv
    OBVIOUS
  <1>1. PICK o \in Openings : parent = o.tree  BY DEF Init
  <1>2. home = OpeningHome /\ \A q \in Request : req[q].status = "new"
    BY DEF Init, NewRequest
  <1>3. /\ \A c \in Category : o.tree[c] \in Category \cup {"null", "unborn"}
        /\ \A c \in Category : o.tree[c] \in Category => o.tree[o.tree[c]] # "unborn"
        /\ \A S \in (SUBSET Category) \ {{}} : \E c \in S : o.tree[c] \notin S
        /\ \A p \in Product : OpeningHome[p] \in Category => o.tree[OpeningHome[p]] # "unborn"
        /\ Category \cap {"null", "keep", "unborn", "gone", "absent"} = {}
    BY CatalogAssumption
  <1>4. NoCycle  BY <1>1, <1>3 DEF NoCycle
  <1>5. ParentsListed /\ HomesListed
    BY <1>1, <1>2, <1>3 DEF ParentsListed, HomesListed, Listed
  <1> QED BY <1>2, <1>4, <1>5
          DEF ForestInv, NotYetBorn, CreatedOnce, WalkHolds, NothingHangs, Creating, Moving,
              Removing, Busy

\* The forest and what the handlers know of it, in every reachable state.
LEMMA ForestInvariant ==
  ASSUME TreeWritesApart
  PROVE  Spec => []ForestInv
  <1>1. Typed /\ Apart /\ ForestInv /\ [Next]_catalogVars => ForestInv'
    <2> SUFFICES ASSUME Typed, Apart, ForestInv, [Next]_catalogVars  PROVE ForestInv'
      OBVIOUS
    <2>1. ASSUME NEW r \in Request, Step(r)  PROVE ForestInv'
      BY <2>1, TreeKept, BirthKept, WalkKept, HangsKept DEF ForestInv
    <2>2. CASE UNCHANGED catalogVars
      BY <2>2 DEF catalogVars, tables, ForestInv, NoCycle, ParentsListed, HomesListed,
                  NotYetBorn, CreatedOnce, WalkHolds, NothingHangs, Creating, Moving,
                  Removing, Busy, Listed, Above, NoChildren, NoProducts
    <2> QED BY <2>1, <2>2, NextIsStep
  <1> QED BY <1>1, InitForest, TypedInvariant, ApartInvariant, PTL DEF Spec

-----------------------------------------------------------------------------
\* Every step maps to a step of Forest or to a stutter.

\* A forest is what Forest starts with.
LEMMA InitRefines ==
  ASSUME Typed, ForestInv
  PROVE  Tree!IsForest
  <1> DEFINE up == [c \in Category |-> IF Listed(c) THEN parent[c] ELSE "absent"]
  <1>1. \A c \in Category : up[c] \in Category => up[c] = parent[c] /\ Listed(up[c])
    BY TreeTypes DEF ForestInv, ParentsListed
  <1>2. \A c \in Category : Listed(c) => up[c] # "absent"
    BY TreeTypes DEF Listed
  <1>3. Tree!Acyclic(up)
    <2> SUFFICES ASSUME NEW S \in (SUBSET Category) \ {{}}
                 PROVE  \E c \in S : up[c] \notin S
      BY DEF Tree!Acyclic
    <2>1. PICK c \in S : parent[c] \notin S  BY DEF ForestInv, NoCycle
    <2> QED BY <1>1, <2>1
  <1>4. Tree!Rooted
    <2>1. \A c \in Category : up[c] \in Category => up[up[c]] # "absent"
      BY <1>1, <1>2
    <2>2. \A p \in Product : home[p] \in Category => up[home[p]] # "absent"
      BY <1>2 DEF ForestInv, HomesListed
    <2> QED BY <2>1, <2>2 DEF Tree!Rooted, Tree!Present
  <1> QED BY <1>3, <1>4 DEF Tree!IsForest

\* A step of a handler is a step of Forest or a stutter.
LEMMA StepRefines ==
  ASSUME Typed, ForestInv, NoCycle', Typed', NEW r \in Request, Step(r)
  PROVE  \/ Tree!Grow
         \/ UNCHANGED <<[c \in Category |-> IF Listed(c) THEN parent[c] ELSE "absent"], home>>
  <1> DEFINE up == [c \in Category |-> IF Listed(c) THEN parent[c] ELSE "absent"]
             then == [c \in Category |->
                         IF parent'[c] \notin {"unborn", "gone"} THEN parent'[c] ELSE "absent"]
             x == req[r]
  <1>0. up' = then  BY DEF Listed
  <1> USE TreeTypes
  <1>1. CASE CategoryStored(r)
    <2> USE <1>1, StoresCategory
    <2>1. CASE x.to = "keep"
      <3>1. parent' = parent /\ home' = home  BY <2>1 DEF Given
      <3> QED BY <3>1 DEF Listed
    <2>2. CASE x.to # "keep"
      <3>1. /\ x.id \in Category /\ x.to \in Category \cup {"null"}
            /\ parent' = [parent EXCEPT ![x.id] = x.to] /\ home' = home
        BY <2>2 DEF Given
      <3>2. then = [up EXCEPT ![x.id] = x.to]
        BY <3>1 DEF Listed
      <3>3. x.to = "null" \/ (x.to \in Category /\ up[x.to] # "absent")
        BY <3>1 DEF Listed
      <3>4. \A S \in (SUBSET Category) \ {{}} : \E c \in S : then[c] \notin S
        <4> SUFFICES ASSUME NEW S \in (SUBSET Category) \ {{}}
                     PROVE  \E c \in S : then[c] \notin S
          OBVIOUS
        <4>1. PICK c \in S : parent'[c] \notin S  BY DEF NoCycle
        <4> QED BY <4>1
      <3>5. PICK c \in Category, p \in Category \cup {"null"} : c = x.id /\ p = x.to
        BY <3>1
      <3>6. Tree!Place(c, p)
        BY <1>0, <3>1, <3>2, <3>3, <3>4, <3>5 DEF Tree!Place, Tree!Present, Tree!Acyclic
      <3> QED BY <3>6 DEF Tree!Grow
    <2> QED BY <2>1, <2>2
  <1>2. CASE CategoryDeleted(r)
    <2>1. /\ x.id \in Category /\ Listed(x.id) /\ NoChildren(x) /\ NoProducts(x)
          /\ parent' = [parent EXCEPT ![x.id] = "gone"] /\ home' = home
      BY <1>2, DeletesCategory DEF ForestInv
    <2>2. then = [up EXCEPT ![x.id] = "absent"]  BY <2>1 DEF Listed
    <2>3. up[x.id] # "absent"  BY <2>1 DEF Listed
    <2>4. \A d \in Category : up[d] # x.id  BY <2>1 DEF NoChildren
    <2>5. \A p \in Product : home[p] # x.id  BY <2>1 DEF NoProducts
    <2>6. PICK c \in Category : c = x.id  BY <2>1
    <2>7. Tree!Leave(c)
      BY <1>0, <2>1, <2>2, <2>3, <2>4, <2>5, <2>6 DEF Tree!Leave, Tree!Present, Tree!Bare
    <2> QED BY <2>7 DEF Tree!Grow
  <1>3. CASE ProductStored(r)
    <2> USE <1>3, StoresProduct
    <2>1. CASE x.to = "keep"
      <3>1. parent' = parent /\ home' = home  BY <2>1 DEF Given
      <3> QED BY <3>1 DEF Listed
    <2>2. CASE x.to # "keep"
      <3>1. /\ x.id \in Product /\ x.to \in Category \cup {"null"}
            /\ home' = [home EXCEPT ![x.id] = x.to] /\ parent' = parent
        BY <2>2 DEF Given
      <3>2. then = up  BY <3>1 DEF Listed
      <3>3. x.to = "null" \/ (x.to \in Category /\ up[x.to] # "absent")
        BY <3>1 DEF Listed
      <3>4. PICK p \in Product, c \in Category \cup {"null"} : p = x.id /\ c = x.to
        BY <3>1
      <3>5. Tree!Sort(p, c)
        BY <1>0, <3>1, <3>2, <3>3, <3>4 DEF Tree!Sort, Tree!Present
      <3> QED BY <3>5 DEF Tree!Grow
    <2> QED BY <2>1, <2>2
  <1>4. CASE ~CategoryStored(r) /\ ~CategoryDeleted(r) /\ ~ProductStored(r)
    BY <1>4, TreeStep DEF Listed
  <1> QED BY <1>1, <1>2, <1>3, <1>4

(***************************************************************************)
(* CategoriesService keeps its promise (categories.service.ts:55-151) for   *)
(* any catalogue and any number of overlapping requests, as long as no two  *)
(* moves overlap and no removal overlaps with what may attach to it.        *)
(***************************************************************************)
THEOREM CategoriesStayAForest ==
  ASSUME TreeWritesApart
  PROVE  Spec => ImplementsForest
  <1> DEFINE up == [c \in Category |-> IF Listed(c) THEN parent[c] ELSE "absent"]
  <1>1. Init => Tree!IsForest  BY InitTyped, InitForest, InitRefines
  <1>2. Typed /\ Typed' /\ ForestInv /\ ForestInv' /\ [Next]_catalogVars =>
          [Tree!Grow]_<<up, home>>
    <2> SUFFICES ASSUME Typed, Typed', ForestInv, ForestInv', [Next]_catalogVars
                 PROVE  Tree!Grow \/ UNCHANGED <<up, home>>
      OBVIOUS
    <2>1. ASSUME NEW r \in Request, Step(r)  PROVE Tree!Grow \/ UNCHANGED <<up, home>>
      BY <2>1, StepRefines DEF ForestInv
    <2>2. CASE UNCHANGED catalogVars
      BY <2>2 DEF catalogVars, tables, Listed
    <2> QED BY <2>1, <2>2, NextIsStep
  <1> QED BY <1>1, <1>2, ForestInvariant, TypedInvariant, PTL
          DEF Spec, ImplementsForest, Tree!ForestSpec
=============================================================================

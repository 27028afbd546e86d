----------------------------- MODULE MCCatalog -----------------------------
(* Values for the constants of Catalog: three categories, two products and  *)
(* two variants, and which operations a run keeps apart.                     *)
EXTENDS Catalog, TLC

CONSTANTS c1, c2, c3, p1, p2, v1, v2, s1, s2, s3, r1, r2, r3

MCCategory == {c1, c2, c3}
MCProduct  == {p1, p2}
MCVariant  == {v1, v2}
MCVariantOf == (v1 :> p1) @@ (v2 :> p1)
MCSku == {s1, s2, s3}
MCRequest == {r1, r2, r3}

\* Two trees, and a chain of two with a category still to be created.
MCTrees == (c1 :> "null") @@ (c2 :> "null") @@ (c3 :> c2)
MCShort == (c1 :> "null") @@ (c2 :> c1) @@ (c3 :> "unborn")

MCOpeningSku  == (p1 :> s1) @@ (p2 :> "unborn") @@ (v1 :> s2) @@ (v2 :> "unborn")
MCOpeningHome == (p1 :> c2) @@ (p2 :> "null")

Attaching == {"createCategory", "updateCategory", "createProduct", "updateProduct"}
VariantWrites == {"createVariant", "updateVariant"}
ProductWrites == {"createProduct", "updateProduct"}
MCOps == Attaching \cup VariantWrites \cup
         {"removeCategory", "archive", "uploadImage", "deleteImage"}

CategoryOps == {"createCategory", "updateCategory", "removeCategory"}
ImageOps    == {"uploadImage", "deleteImage"}

\* Three requests about categories, three about images, or two of any kind.
MCOpenings ==
    [tree : {MCShort, MCTrees}, asks : {[r \in MCRequest |-> CategoryOps]}]
        \cup [tree : {MCShort},
              asks : {[r \in MCRequest |-> ImageOps],
                      [r \in MCRequest |-> IF r = r3 THEN {} ELSE MCOps]}]

\* Moves one after another; removals apart from what attaches to a category;
\* variant writes apart from product writes.  All else overlaps freely.
MCExclusive ==
    {{"updateCategory"}}
        \cup {{"removeCategory", op} : op \in Attaching}
        \cup {{v, p} : v \in VariantWrites, p \in ProductWrites}
=============================================================================

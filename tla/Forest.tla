------------------------------- MODULE Forest -------------------------------
(***************************************************************************)
(* What CategoriesService promises about the category tree                  *)
(* (categories.service.ts:55-116 and the walk of 134-151): categories form  *)
(* a forest, a move never puts a category below itself, and a category      *)
(* leaves the tree only when nothing hangs from it, so that no child and no *)
(* product silently loses its place.  Requests and statements are not       *)
(* visible here.                                                            *)
(***************************************************************************)
EXTENDS Naturals

CONSTANTS Category, Product

VARIABLES
    up,    \* the parent of a category; "null" for a root, "absent" without row
    home   \* the category of a product, or "null"

Present(c) == up[c] # "absent"

\* Every non-empty set of categories has one whose parent lies outside of it.
Acyclic(f) ==
    \A S \in (SUBSET Category) \ {{}} : \E c \in S : f[c] \notin S

\* Parents and product categories are rows that exist.
Rooted ==
    /\ \A c \in Category : up[c] \in Category => Present(up[c])
    /\ \A p \in Product : home[p] \in Category => Present(home[p])

IsForest == Acyclic(up) /\ Rooted

Bare(c) == (\A d \in Category : up[d] # c) /\ (\A p \in Product : home[p] # c)

-----------------------------------------------------------------------------
\* A new category, or another place for one: below a category or at the top.
Place(c, p) ==
    /\ p = "null" \/ (p \in Category /\ Present(p))
    /\ up' = [up EXCEPT ![c] = p]
    /\ Acyclic(up')
    /\ UNCHANGED home

Leave(c) ==
    /\ Present(c)
    /\ Bare(c)
    /\ up' = [up EXCEPT ![c] = "absent"]
    /\ UNCHANGED home

\* A product is put into a category or taken out of any.
Sort(p, c) ==
    /\ c = "null" \/ (c \in Category /\ Present(c))
    /\ home' = [home EXCEPT ![p] = c]
    /\ UNCHANGED up

Grow ==
    \/ \E c \in Category :
          Leave(c) \/ (\E p \in Category \cup {"null"} : Place(c, p))
    \/ \E p \in Product, c \in Category \cup {"null"} : Sort(p, c)

ForestSpec == IsForest /\ [][Grow]_<<up, home>>
=============================================================================

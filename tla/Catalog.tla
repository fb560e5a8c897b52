------------------------------ MODULE Catalog -------------------------------
(***************************************************************************)
(* The pages a catalog of tools is offered on (internal/loop/catalog.go).  *)
(* A request carries at most CatalogLimit definitions; a larger catalog is *)
(* offered a page at a time, beside the pinned definitions and the page    *)
(* selector.  Tools are 1..tools, in the order they were discovered.       *)
(***************************************************************************)
EXTENDS Integers

CONSTANTS
    CatalogLimit,       \* catalog.go: 128
    CatalogPageSize,    \* catalog.go: 127
    Pinned              \* definitions on every page: 1, the planning tool

ASSUME CatalogAssumption ==
    /\ CatalogLimit \in Nat /\ CatalogPageSize \in Nat /\ Pinned \in Nat
    /\ Pinned < CatalogPageSize
    /\ CatalogPageSize + 1 = CatalogLimit

Paged(tools) == tools + Pinned > CatalogLimit

PageSize == CatalogPageSize - Pinned

PageCount(tools) == (tools + PageSize - 1) \div PageSize

\* Mutant: the pinned definitions do not take room from the page.
CatalogPageUnreserved(tools, page) ==
    IF ~ Paged(tools) THEN 1..tools
    ELSE {t \in 1..tools : CatalogPageSize * page < t /\ t <= CatalogPageSize * (page + 1)}

\* The tools of one page.
CatalogPage(tools, page) ==
    IF ~ Paged(tools) THEN 1..tools
    ELSE {t \in 1..tools : PageSize * page < t /\ t <= PageSize * (page + 1)}

\* The pages the selector takes.
SelectedPage(tools) == 0..(PageCount(tools) - 1)
=============================================================================

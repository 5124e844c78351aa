------------------------------- MODULE Catalog -------------------------------
(***************************************************************************)
(* Products and customers (api/admin/v1/products.py, customers.py,          *)
(* repositories/base.py) and the issue of a license for one of each         *)
(* (services/issuance.py).                                                  *)
(*                                                                         *)
(* Every SELECT is a step; what follows it up to the commit, with the       *)
(* flush of the one row it writes, is another.  Of a row the model keeps    *)
(* what a handler asks about: is_active and deleted_at.  The products of    *)
(* the model are those that were given one and the same slug.               *)
(***************************************************************************)
EXTENDS Naturals

CONSTANTS
    Product,       \* products.id
    Customer,      \* customers.id
    PartialIndex,  \* uq_products_slug ignores deleted rows, as on PostgreSQL
    Request,       \* requests of the admin API that may overlap
    None           \* no value

VARIABLES
    row,       \* products and customers, committed
    pc,        \* where each request is
    target,    \* the row it creates, changes or deletes; the customer of an issue
    product,   \* the product of an issue
    seen,      \* is_active of the row as a PATCH read it
    active,    \* is_active as its body asks for it, None when unset
    offered    \* history: what was on offer at some time of an issue under way

vars == <<row, pc, target, product, seen, active, offered>>

Id == Product \cup Customer

\* BaseRepository.get does not see a deleted row.
Visible(x) == row[x].status = "live"

\* What a license may be issued for.
OnOffer(rows) == {x \in Id : rows[x].status = "live" /\ rows[x].is_active}

MoveTo(r, place) == pc' = [pc EXCEPT ![r] = place]

Leave(r) ==
    /\ MoveTo(r, "idle")
    /\ target' = [target EXCEPT ![r] = None]
    /\ product' = [product EXCEPT ![r] = None]
    /\ seen' = [seen EXCEPT ![r] = FALSE]
    /\ active' = [active EXCEPT ![r] = None]

---------------------------------------------------------------------------
(* create_product, create_customer *)

\* ProductRepository.get_by_slug: live products only.  Customers need no name.
SlugFound(x) == x \in Product /\ \E p \in Product : Visible(p)

CheckSlug(r, x) ==
    /\ pc[r] = "idle"
    /\ row[x].status = "absent" /\ \A q \in Request : target[q] # x
    /\ ~SlugFound(x)
    /\ target' = [target EXCEPT ![r] = x]
    /\ MoveTo(r, "creating")
    /\ UNCHANGED <<row, product, seen, active>>

\* uq_products_slug
SlugTaken(x) ==
    x \in Product /\ \E p \in Product :
        IF PartialIndex THEN Visible(p) ELSE row[p].status # "absent"

\* The INSERT fails when somebody else was faster, and always while a deleted
\* product keeps the slug.
CommitCreate(r) ==
    /\ pc[r] = "creating"
    /\ row' = IF SlugTaken(target[r]) THEN row
              ELSE [row EXCEPT ![target[r]] = [status |-> "live", is_active |-> TRUE]]
    /\ Leave(r)

---------------------------------------------------------------------------
(* update_product, update_customer, delete_product, delete_customer *)

\* repo.get for a PATCH; a customer has no is_active to set.
SelectForPatch(r, x) ==
    /\ pc[r] = "idle" /\ Visible(x)
    /\ \E a \in {None} \cup (IF x \in Product THEN BOOLEAN ELSE {}) :
          active' = [active EXCEPT ![r] = a]
    /\ target' = [target EXCEPT ![r] = x]
    /\ seen' = [seen EXCEPT ![r] = row[x].is_active]
    /\ MoveTo(r, "patching")
    /\ UNCHANGED <<row, product>>

\* Faulty variant: the UPDATE writes back what was read.
PatchWritesBack(r) == IF active[r] = None THEN seen[r] ELSE active[r]

\* The UPDATE sets a column only when it differs from what the session had read.
Patched(r) ==
    IF active[r] # None /\ active[r] # seen[r] THEN active[r] ELSE row[target[r]].is_active

CommitPatch(r) ==
    /\ pc[r] = "patching"
    /\ row' = [row EXCEPT ![target[r]].is_active = Patched(r)]
    /\ Leave(r)

\* repo.get for a DELETE
SelectForDelete(r, x) ==
    /\ pc[r] = "idle" /\ Visible(x)
    /\ target' = [target EXCEPT ![r] = x]
    /\ MoveTo(r, "deleting")
    /\ UNCHANGED <<row, product, seen, active>>

\* BaseRepository.soft_delete
CommitDelete(r) ==
    /\ pc[r] = "deleting"
    /\ row' = [row EXCEPT ![target[r]].status = "deleted"]
    /\ Leave(r)

---------------------------------------------------------------------------
(* issue_online, issue_offline *)

\* IssuanceService._resolve: the customer
ResolveCustomer(r, c) ==
    /\ pc[r] = "idle" /\ Visible(c)
    /\ target' = [target EXCEPT ![r] = c]
    /\ MoveTo(r, "resolving")
    /\ UNCHANGED <<row, product, seen, active>>

\* Faulty variant: is_active is not asked.
VisibleProduct(p) == Visible(p)

\* Found, and not ISSUE_PRODUCT_INACTIVE.
IssuableProduct(p) == Visible(p) /\ row[p].is_active

\* IssuanceService._resolve: the product
ResolveProduct(r, p) ==
    /\ pc[r] = "resolving" /\ IssuableProduct(p)
    /\ product' = [product EXCEPT ![r] = p]
    /\ MoveTo(r, "issuing")
    /\ UNCHANGED <<row, target, seen, active>>

\* INSERT of the license and commit; the foreign keys still find both rows.
CommitIssue(r) ==
    /\ pc[r] = "issuing"
    /\ Leave(r)
    /\ UNCHANGED row

\* The handler refuses, or dies: a rollback.
Abort(r) ==
    /\ pc[r] # "idle"
    /\ Leave(r)
    /\ UNCHANGED row

---------------------------------------------------------------------------
Init ==
    /\ row = [x \in Id |-> [status |-> "absent", is_active |-> TRUE]]
    /\ pc = [r \in Request |-> "idle"]
    /\ target = [r \in Request |-> None]
    /\ product = [r \in Request |-> None]
    /\ seen = [r \in Request |-> FALSE]
    /\ active = [r \in Request |-> None]
    /\ offered = [r \in Request |-> {}]

Serve(r) ==
    \/ \E x \in Id : CheckSlug(r, x) \/ SelectForPatch(r, x) \/ SelectForDelete(r, x)
    \/ \E c \in Customer : ResolveCustomer(r, c)
    \/ \E p \in Product : ResolveProduct(r, p)
    \/ CommitCreate(r) \/ CommitPatch(r) \/ CommitDelete(r) \/ CommitIssue(r) \/ Abort(r)

\* History.
RememberOffers ==
    offered' = [r \in Request |->
        IF pc'[r] \in {"resolving", "issuing"} THEN offered[r] \cup OnOffer(row') ELSE {}]

Next == (\E r \in Request : Serve(r)) /\ RememberOffers

Spec == Init /\ [][Next]_vars

---------------------------------------------------------------------------
(* Properties. *)

\* A license is never signed for a customer or a product that had been withdrawn
\* before the request began and stayed so: only what is withdrawn while the
\* request runs can slip through.
IssuedWhileOffered ==
    \A r \in Request : pc[r] = "issuing" => {target[r], product[r]} \subseteq offered[r]

\* However many edits overlap, nothing deleted comes back, and a withdrawn
\* product is on offer again only by an edit that asks for it: one that was
\* begun before and changes something else does not undo the withdrawal.
WithdrawnStaysWithdrawn ==
    [][\A x \in Id :
          /\ row[x].status # "absent"
          /\ x \in OnOffer(row') /\ x \notin OnOffer(row)
          => /\ row[x].status = "live"
             /\ \E r \in Request : target[r] = x /\ pc[r] = "patching" /\ active[r] = TRUE]_vars

=============================================================================

------------------------------- MODULE Edits -------------------------------
(***************************************************************************)
(* Administrators edit one record: a brand, an attribute, a product, a     *)
(* variant or a discount (CatalogService and its repositories), or the     *)
(* delivery policy (DeliveryRepository).                                   *)
(*                                                                         *)
(* In the catalog a request names the fields it wants changed; the service *)
(* reads the row, puts them in and writes every column back.  Edits that   *)
(* overlap therefore undo each other.  The delivery policy is read by one  *)
(* request and written, as a whole, by another that names the version read *)
(* (policy_version).  "name" is the field a slug is made of, "rest" stands *)
(* for the others.  A slug that is taken is suffixed, or the write fails.  *)
(***************************************************************************)
EXTENDS Naturals

CONSTANTS
    Entities,   \* kinds of records, of those below
    Values,     \* values of a field
    Workers,    \* request slots
    MaxVersion  \* bound: policy_version goes no further

VARIABLES
    entity,   \* the kind of record this behaviour is about
    row,      \* the record, or NoRow
    version,  \* policy_version of the delivery policy
    job,      \* the edit in each slot
    named,    \* history, per field: what the last confirmed edit that named it said
    undone    \* history: fields that an edit reading before and writing after undid

vars == <<entity, row, version, job, named, undone>>

Fields == {"name", "rest"}
NoRow == <<>>
Free == [pc |-> "idle", patch |-> NoRow, copy |-> NoRow, version |-> 0, stale |-> FALSE]
Rows == [Fields -> Values]
Patches == UNION {[fs -> Values] : fs \in SUBSET Fields \ {{}}}

Init ==
    /\ entity \in Entities
    /\ row = IF entity = "delivery" THEN [f \in Fields |-> CHOOSE v \in Values : TRUE] ELSE NoRow
    /\ named = row
    /\ version = 1
    /\ job = [w \in Workers |-> Free]
    /\ undone = {}

-----------------------------------------------------------------------------
(* Statements of the repositories *)

Insert(new) ==
    /\ row = NoRow
    /\ row' = new /\ named' = new /\ undone' = {}
    /\ UNCHANGED <<entity, version, job>>

\* Requests that have read the row will not find it again: a new record has a
\* new identifier.  A row that others refer to stays, which is a way to fail.
DeleteRow ==
    /\ row # NoRow
    /\ row' = NoRow /\ named' = NoRow /\ undone' = {}
    /\ job' = [w \in Workers |-> [job[w] EXCEPT !.copy = NoRow]]
    /\ UNCHANGED <<entity, version>>

\* The row as read; whoever writes before this request does makes it stale
Select(w, patch) ==
    /\ job[w] = Free
    /\ row # NoRow
    /\ job' = [job EXCEPT ![w] = [pc |-> "write", patch |-> patch, copy |-> row,
                                  version |-> version, stale |-> FALSE]]
    /\ UNCHANGED <<entity, row, version, named, undone>>

\* The fields a request names replace those of what it has read
patched(copy, patch) ==
    [f \in Fields |-> IF f \in DOMAIN patch THEN patch[f] ELSE copy[f]]

\* Every column is written, and the request confirmed
UpdateColumns(w) ==
    LET patch == job[w].patch
    IN
    /\ row' = patched(job[w].copy, patch)
    /\ named' = patched(named, patch)
    /\ undone' = IF job[w].stale THEN (undone \cup Fields) \ DOMAIN patch ELSE undone \ DOMAIN patch
    /\ job' = [v \in Workers |-> IF v = w THEN Free
                                 ELSE IF job[v] = Free THEN Free
                                 ELSE [job[v] EXCEPT !.stale = TRUE]]

Answer(w) == job' = [job EXCEPT ![w] = Free] /\ UNCHANGED <<row, version, named, undone>>

-----------------------------------------------------------------------------
(* The services *)

createBrandWithSlugRetry(new) == Insert(new)
CreateBrand(new) == entity = "brand" /\ createBrandWithSlugRetry(new)
DeleteBrand == entity = "brand" /\ DeleteRow
UpdateBrand(w, patch) == entity = "brand" /\ Select(w, patch)

createAttributeWithSlugRetry(new) == Insert(new)
CreateAttribute(new) == entity = "attribute" /\ createAttributeWithSlugRetry(new)
DeleteAttribute == entity = "attribute" /\ DeleteRow
UpdateAttribute(w, patch) == entity = "attribute" /\ Select(w, patch)

CreateProduct(new) == entity = "product" /\ Insert(new)
DeleteProduct == entity = "product" /\ DeleteRow
UpdateProduct(w, patch) == entity = "product" /\ Select(w, patch)

CreateVariant(new) == entity = "variant" /\ Insert(new)
DeleteVariant == entity = "variant" /\ DeleteRow
UpdateVariant(w, patch) == entity = "variant" /\ Select(w, patch)

CreateDiscount(new) == entity = "discount" /\ Insert(new)
DeleteDiscount == entity = "discount" /\ DeleteRow
UpdateDiscount(w, patch) == entity = "discount" /\ Select(w, patch)

\* The second half of an update; without its row it answers 404
WriteBack(w) ==
    /\ entity # "delivery"
    /\ job[w].pc = "write"
    /\ IF job[w].copy = NoRow THEN Answer(w) ELSE UpdateColumns(w) /\ UNCHANGED version
    /\ UNCHANGED entity

-----------------------------------------------------------------------------
(* The delivery policy *)

\* An administrator loads the policy and changes something in the form
GetDelivery(w, patch) == entity = "delivery" /\ Select(w, patch)

\* Mutant of VersionMatches: the form is saved over whatever is there
VersionIgnored(expected) == TRUE

VersionMatches(expected) == version = expected

\* 409 when the version is no longer the one the form was loaded with
UpdateDelivery(w) ==
    /\ entity = "delivery"
    /\ job[w].pc = "write"
    /\ IF VersionMatches(job[w].version)
       THEN /\ version < MaxVersion
            /\ version' = version + 1
            /\ UpdateColumns(w)
       ELSE Answer(w)
    /\ UNCHANGED entity

\* A statement fails, the answer is an error, and nothing has changed
Fail(w) ==
    /\ job[w] # Free
    /\ Answer(w)
    /\ UNCHANGED entity

BrandHandlers(w) ==
    \/ DeleteBrand
    \/ \E new \in Rows : CreateBrand(new)
    \/ \E patch \in Patches : UpdateBrand(w, patch)

AttributeHandlers(w) ==
    \/ DeleteAttribute
    \/ \E new \in Rows : CreateAttribute(new)
    \/ \E patch \in Patches : UpdateAttribute(w, patch)

ProductHandlers(w) ==
    \/ DeleteProduct
    \/ \E new \in Rows : CreateProduct(new)
    \/ \E patch \in Patches : UpdateProduct(w, patch)

VariantHandlers(w) ==
    \/ DeleteVariant
    \/ \E new \in Rows : CreateVariant(new)
    \/ \E patch \in Patches : UpdateVariant(w, patch)

DiscountHandlers(w) ==
    \/ DeleteDiscount
    \/ \E new \in Rows : CreateDiscount(new)
    \/ \E patch \in Patches : UpdateDiscount(w, patch)

DeliveryHandlers(w) ==
    \/ \E patch \in Patches : GetDelivery(w, patch)
    \/ UpdateDelivery(w)

Next ==
    \E w \in Workers :
       \/ BrandHandlers(w) \/ AttributeHandlers(w) \/ ProductHandlers(w)
       \/ VariantHandlers(w) \/ DiscountHandlers(w) \/ DeliveryHandlers(w)
       \/ WriteBack(w) \/ Fail(w)

Spec == Init /\ [][Next]_vars

-----------------------------------------------------------------------------
(* Properties *)

TypeOK ==
    /\ entity \in Entities
    /\ row \in Rows \cup {NoRow} /\ named \in Rows \cup {NoRow}
    /\ version \in 1..MaxVersion
    /\ undone \subseteq Fields
    /\ job \in [Workers -> {Free} \cup [pc : {"write"}, patch : Patches, copy : Rows \cup {NoRow},
                                        version : 1..MaxVersion, stale : BOOLEAN]]

\* A confirmed edit stays until another names the same field, save that in the
\* catalog an edit that read the record before it and wrote it after undoes it;
\* the delivery policy, whose save names the version it was loaded with, loses
\* none (UpdateBrand, UpdateProduct and their like; DeliveryRepository.Update).
ConfirmedEditsKept ==
    row # NoRow =>
       \A f \in Fields : row[f] = named[f] \/ (entity # "delivery" /\ f \in undone)

-----------------------------------------------------------------------------
(* The inductive invariant behind ConfirmedEditsKept *)

\* Something was said of every record, and of no other; the policy always exists.
NamedIsOfRow ==
    /\ row = NoRow <=> named = NoRow
    /\ entity = "delivery" => row # NoRow

\* A request that has a copy has one of the record that is there, and it is that
\* record's columns unless somebody has written since.
CopiesAreFresh ==
    \A w \in Workers : job[w].pc = "write" /\ job[w].copy # NoRow =>
        row # NoRow /\ (job[w].stale \/ job[w].copy = row)

\* What policy_version tells: nobody has saved the policy since it was loaded.
VersionsTell ==
    entity = "delivery" =>
        \A w \in Workers : job[w].pc = "write" =>
            /\ job[w].copy # NoRow
            /\ job[w].version <= version
            /\ job[w].version = version => ~job[w].stale

Inv == TypeOK /\ NamedIsOfRow /\ CopiesAreFresh /\ VersionsTell /\ ConfirmedEditsKept
=============================================================================

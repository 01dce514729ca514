------------------------------ MODULE Catalog ------------------------------
(***************************************************************************)
(* Products with their images and variants (CatalogService and its         *)
(* repositories), as far as the merchant feed tells them apart: whether a  *)
(* product is active, which of its images comes first and whether that one *)
(* is on the CDN, and which variants are active.  Every operation is one   *)
(* transaction.  A request that fails a check, or a statement that fails,  *)
(* changes nothing.                                                        *)
(***************************************************************************)
EXTENDS Naturals, FiniteSets, Sequences, SequencesExt

CONSTANTS
    Products,    \* product identifiers
    MaxVariants, \* bound: identifiers of product_variants
    MaxImages    \* bound: images of all products together

VARIABLES
    product,  \* products.status, or NoRow
    image,    \* product_images of each product, by (sort_order, id)
    variant,  \* product_variants, by id
    taken,    \* variant identifiers the sequence has handed out
    updated   \* products written, and variants created, since a moment in the past

vars == <<product, image, variant, taken, updated>>

NoRow == "none"
Ids == 1..MaxVariants
Images == [cdn : BOOLEAN, primary : BOOLEAN]
Variants == [product : Products, active : BOOLEAN]
NoVariant == [product |-> NoRow, active |-> FALSE]

Init ==
    /\ product = [p \in Products |-> NoRow]
    /\ image = [p \in Products |-> <<>>]
    /\ variant = [i \in Ids |-> NoVariant]
    /\ taken = {}
    /\ updated = {}

-----------------------------------------------------------------------------
(* Images *)

\* What is stored is the URL that ImageKit answers, or the path of a file in
\* the upload directory
uploadToImageKit(primary) == [cdn |-> TRUE, primary |-> primary]
saveLocally(primary) == [cdn |-> FALSE, primary |-> primary]

\* Whatever goes wrong with ImageKit, the file is kept here instead
processSingleImage(accepted, primary) ==
    IF accepted THEN uploadToImageKit(primary) ELSE saveLocally(primary)

\* The files of one request, in order: the first is the primary image
saveImages(accepted) ==
    [k \in 1..Len(accepted) |-> processSingleImage(accepted[k], k = 1)]

insertProductImageTx(images, k, img) == InsertAt(images, k, img)

AllImages == {<<p, k>> : p \in Products, k \in 1..MaxImages}
Room(n) == n + Cardinality({x \in AllImages : x[2] <= Len(image[x[1]])}) <= MaxImages

\* is_primary DESC, sort_order, id: the first primary image, else the first
Ranked(images) ==
    LET first == SelectInSeq(images, LAMBDA img : img.primary)
    IN  IF first # 0 THEN first ELSE 1

-----------------------------------------------------------------------------
(* Products *)

\* The whole graph is one transaction; a slug that is taken is suffixed with
\* the time and the transaction tried once more.
insertProductTx(p, status) == product' = [product EXCEPT ![p] = status]

insertVariantTx(rows) ==
    /\ variant' = [i \in Ids |-> IF i \in DOMAIN rows THEN rows[i] ELSE variant[i]]
    /\ taken' = taken \cup DOMAIN rows

buildProductGraph(p, status, images, rows) ==
    /\ insertProductTx(p, status)
    /\ image' = [image EXCEPT ![p] = images]
    /\ insertVariantTx(rows)
    /\ updated' = updated \cup {p} \cup DOMAIN rows

CreateProductTx(p, status, images, rows) == buildProductGraph(p, status, images, rows)

\* Name, brand, price and categories are in order, and there is a variant
ValidateCreate(rows) == DOMAIN rows # {}

\* There is an image too.  The images are saved before the transaction begins.
CreateProduct(p, status, accepted, rows) ==
    /\ ValidateCreate(rows)
    /\ Room(Len(accepted)) /\ accepted # <<>>
    /\ CreateProductTx(p, status, saveImages(accepted), rows)

\* The row is read, the fields named put in, and every column written, with
\* updated_at: of the fields, the feed depends on the status.
UpdateProduct(p, status) ==
    /\ product[p] # NoRow
    /\ product' = [product EXCEPT ![p] = status]
    /\ updated' = updated \cup {p}
    /\ UNCHANGED <<image, variant, taken>>

\* Mutant of DeleteProduct: variants that were sold are kept
DeleteProductAlone(p) ==
    /\ product[p] # NoRow
    /\ product' = [product EXCEPT ![p] = NoRow]
    /\ image' = [image EXCEPT ![p] = <<>>]
    /\ UNCHANGED <<variant, taken, updated>>

\* Images and variants go with it
DeleteProduct(p) ==
    /\ product[p] # NoRow
    /\ product' = [product EXCEPT ![p] = NoRow]
    /\ image' = [image EXCEPT ![p] = <<>>]
    /\ variant' = [i \in Ids |-> IF variant[i].product = p THEN NoVariant ELSE variant[i]]
    /\ UNCHANGED <<taken, updated>>

\* The others keep their flag, so a product may have several primary images
AddProductImage(p, k, accepted, primary) ==
    /\ product[p] # NoRow
    /\ Room(1)
    /\ image' = [image EXCEPT ![p] =
                    insertProductImageTx(@, k, processSingleImage(accepted, primary))]
    /\ UNCHANGED <<product, variant, taken, updated>>

DeleteProductImage(p, k) ==
    /\ image' = [image EXCEPT ![p] = RemoveAt(@, k)]
    /\ UNCHANGED <<product, variant, taken, updated>>

SetPrimaryImage(p, k) ==
    /\ image' = [image EXCEPT ![p] = [j \in DOMAIN @ |-> [@[j] EXCEPT !.primary = (j = k)]]]
    /\ UNCHANGED <<product, variant, taken, updated>>

-----------------------------------------------------------------------------
(* Variants *)

CreateVariant(i, p, active) ==
    /\ product[p] # NoRow
    /\ i \notin taken
    /\ insertVariantTx([j \in {i} |-> [product |-> p, active |-> active]])
    /\ updated' = updated \cup {i}
    /\ UNCHANGED <<product, image>>

\* Neither this nor the next touches products.updated_at
UpdateVariant(i, active) ==
    /\ variant[i] # NoVariant
    /\ variant' = [variant EXCEPT ![i].active = active]
    /\ UNCHANGED <<product, image, taken, updated>>

DeleteVariant(i) ==
    /\ variant[i] # NoVariant
    /\ variant' = [variant EXCEPT ![i] = NoVariant]
    /\ UNCHANGED <<product, image, taken, updated>>

-----------------------------------------------------------------------------
(* The handlers *)

\* "archived" is left out: whoever reads the status asks whether it is active
Statuses == {"active", "draft"}

\* Identifiers of variants come from a sequence, and transactions commit in
\* any order
ProductHandlers(p) ==
    \/ /\ product[p] = NoRow
       /\ \E s \in Statuses, n \in 1..MaxImages : \E accepted \in [1..n -> BOOLEAN] :
             \E is \in SUBSET (Ids \ taken) : \E rows \in [is -> [product : {p}, active : BOOLEAN]] :
                CreateProduct(p, s, accepted, rows)
    \/ \E s \in Statuses : UpdateProduct(p, s)
    \/ DeleteProduct(p)

ImageHandlers(p) ==
    \/ \E k \in 1..(Len(image[p]) + 1), a, f \in BOOLEAN : AddProductImage(p, k, a, f)
    \/ \E k \in DOMAIN image[p] : DeleteProductImage(p, k) \/ SetPrimaryImage(p, k)

VariantHandlers(i) ==
    \/ \E p \in Products, a \in BOOLEAN : CreateVariant(i, p, a)
    \/ \E a \in BOOLEAN : UpdateVariant(i, a)
    \/ DeleteVariant(i)

Next ==
    \/ \E p \in Products : ProductHandlers(p) \/ ImageHandlers(p)
    \/ \E i \in Ids : VariantHandlers(i)

-----------------------------------------------------------------------------
TypeOK ==
    /\ product \in [Products -> Statuses \cup {NoRow}]
    /\ DOMAIN image = Products /\ \A p \in Products : \A k \in DOMAIN image[p] : image[p][k] \in Images
    /\ \A i \in Ids : /\ variant[i] \in Variants \cup {NoVariant}
                      /\ variant[i] # NoVariant => i \in taken /\ product[variant[i].product] # NoRow
    /\ taken \subseteq Ids
    /\ updated \subseteq Products \cup Ids
=============================================================================

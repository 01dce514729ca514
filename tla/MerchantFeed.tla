---------------------------- MODULE MerchantFeed ----------------------------
(***************************************************************************)
(* The Google merchant feed (feedgen.Generator over MerchantRepository),   *)
(* composed with the catalog that administrators change while it runs.     *)
(*                                                                         *)
(* A run loads the variants in batches, one query each, ordered by id and  *)
(* starting after the last id of the batch before.  Items whose first      *)
(* image has no https URL are left out.  What remains, of all batches, is  *)
(* sent as one document, or nothing when a query fails.  A full run takes  *)
(* every active variant of an active product; an incremental one those of  *)
(* products written, or variants created, since a moment its caller names. *)
(* Of an item its identifier and its image are kept; what else it says     *)
(* (title, price, availability, attributes) comes from the same row.       *)
(***************************************************************************)
EXTENDS Catalog, Ranking

CONSTANT Limit   \* variants per batch

VARIABLE run     \* the run in progress

feedVars == <<product, image, variant, taken, updated, run>>

Idle == [pc |-> "idle", mode |-> "full", cursor |-> 0, items |-> <<>>, steady |-> {}]

-----------------------------------------------------------------------------
(* The queries *)

\* The variants a filter admits.  The digital, brand, category and in-stock
\* conditions are off.
DefaultFeedFilter(mode) == [ActiveOnly |-> TRUE, Incremental |-> mode = "incremental"]

eligible_variants(filter) ==
    {i \in Ids :
        /\ variant[i].active
        /\ filter.ActiveOnly => product[variant[i].product] = "active"
        /\ filter.Incremental => {i, variant[i].product} \cap updated # {}}

\* One row per variant, with the product's first image: on the CDN, in the
\* upload directory, or none
FeedRow(i) ==
    LET images == image[variant[i].product]
    IN  [variant |-> i, product |-> variant[i].product,
         image |-> IF images = <<>> THEN "" ELSE IF images[Ranked(images)].cdn THEN "https" ELSE "path"]

\* Item identifiers name the product and the variant
ItemOf(row) == [id |-> <<row.product, row.variant>>, image |-> row.image]

-----------------------------------------------------------------------------
(* The items *)

\* Only an https address is kept: the path of a stored file becomes ""
normaliseURL(u) == IF u = "https" THEN u ELSE ""

normaliseItem(item) == [item EXCEPT !.image = normaliseURL(@)]

\* The rest of an item is never empty
validateFeedItem(item) == item.image # ""

ValidItems(items) ==
    LET all == [k \in DOMAIN items |-> normaliseItem(items[k])]
    IN  Picked(all, {k \in DOMAIN all : validateFeedItem(all[k])})

\* Mutant of HasMore: the items left after validation are counted
HasMoreValid(rows) == Len(ValidItems([k \in DOMAIN rows |-> ItemOf(rows[k])])) = Limit

HasMore(rows) == Len(rows) = Limit

scanFeedBatchRows(rows) ==
    [items |-> [k \in DOMAIN rows |-> ItemOf(rows[k])],
     NextCursor |-> IF rows = <<>> THEN 0 ELSE Last(rows).variant,
     HasMore |-> HasMore(rows)]

\* The first Limit eligible variants after the cursor, in order
LoadFeedBatch(filter, cursor) ==
    LET after == Ascending({i \in eligible_variants(filter) : i > cursor})
        page == SubSeq(after, 1, IF Len(after) < Limit THEN Len(after) ELSE Limit)
    IN  scanFeedBatchRows([k \in DOMAIN page |-> FeedRow(page[k])])

\* The variants a run that loaded everything at once would export
Exportable(mode) ==
    {i \in eligible_variants(DefaultFeedFilter(mode)) :
        validateFeedItem(normaliseItem(ItemOf(FeedRow(i))))}

-----------------------------------------------------------------------------
(* The run *)

\* The count of the eligible variants, the run's first query, is only reported
Start(mode) ==
    /\ run = Idle
    /\ run' = [Idle EXCEPT !.pc = "load", !.mode = mode, !.steady = Exportable(mode)]
    /\ UNCHANGED vars

GenerateFull == Start("full")
GenerateIncremental == Start("incremental")

LoadBatch ==
    /\ run.pc = "load"
    /\ LET batch == LoadFeedBatch(DefaultFeedFilter(run.mode), run.cursor)
           more == batch.items # <<>> /\ batch.HasMore
       IN  run' = [run EXCEPT !.items = @ \o ValidItems(batch.items),
                              !.pc = IF more THEN "load" ELSE "done",
                              !.cursor = IF more THEN batch.NextCursor ELSE @]
    /\ UNCHANGED vars

\* Every item of every batch, in order
toRSSItem(item) == item.id
BuildRSSFeed(items) == [k \in DOMAIN items |-> toRSSItem(items[k])]

\* The document and the counts in its headers are sent
streamXML ==
    /\ run.pc = "done"
    /\ run' = Idle
    /\ UNCHANGED vars

\* The entity tag is the second of the run and the number of items: a caller
\* that names it is answered 304 instead
PublicFeed ==
    \/ GenerateFull
    \/ run.mode = "full" /\ streamXML

\* A query fails: 500, or 503 from the public address, and no document
Fail ==
    /\ run.pc = "load"
    /\ run' = Idle
    /\ UNCHANGED vars

\* The administrators' requests.  steady keeps the variants that have been
\* exportable ever since the run started.  Once the last batch is loaded the
\* document no longer depends on the catalog.
Administrate ==
    /\ run.pc # "done"
    /\ Next
    /\ \E mode \in {run.mode} :
          run' = [run EXCEPT !.steady = IF run.pc = "load" THEN @ \cap Exportable(mode)' ELSE @]

\* The moment that the next incremental run names is a later one
NameLater ==
    /\ run = Idle
    /\ updated' = {}
    /\ UNCHANGED <<product, image, variant, taken, run>>

FeedInit == Init /\ run = Idle

FeedNext ==
    \/ PublicFeed \/ GenerateIncremental \/ LoadBatch \/ streamXML \/ Fail
    \/ Administrate \/ NameLater

FeedSpec == FeedInit /\ [][FeedNext]_feedVars

-----------------------------------------------------------------------------
(* Properties *)

FeedTypeOK ==
    /\ TypeOK
    /\ run.pc \in {"idle", "load", "done"}
    /\ run.mode \in {"full", "incremental"}
    /\ run.cursor \in 0..MaxVariants
    /\ \A k \in DOMAIN run.items :
          run.items[k] \in [id : Products \X Ids, image : {"https", "path", ""}]
    /\ run.steady \subseteq Ids

\* A document holds every variant that could have been exported at every moment
\* of the run, however the catalog changed between batches and however many
\* items of a batch were left out, and holds no variant twice (Generator.run,
\* MerchantRepository.LoadFeedBatch, BuildRSSFeed).
FeedComplete ==
    LET ids == BuildRSSFeed(run.items)
    IN  run.pc = "done" =>
           /\ run.steady \subseteq {id[2] : id \in ToSet(ids)}
           /\ \A j, k \in DOMAIN ids : j < k => ids[j][2] < ids[k][2]

-----------------------------------------------------------------------------
(* The inductive invariant *)

Items == [id : Products \X Ids, image : {"https", "path", ""}]

Runs == [pc : {"idle", "load", "done"}, mode : {"full", "incremental"},
         cursor : 0..MaxVariants, items : Seq(Items), steady : SUBSET Ids]

\* The variants of the items so far
Loaded == {run.items[k].id[2] : k \in DOMAIN run.items}

\* The items are those of variants up to the cursor, all that stayed exportable
\* among them, in order
FeedInv ==
    /\ TypeOK
    /\ image \in [Products -> Seq(Images)]
    /\ variant \in [Ids -> Variants \cup {NoVariant}]
    /\ run \in Runs
    /\ \A j, k \in DOMAIN run.items : j < k => run.items[j].id[2] < run.items[k].id[2]
    /\ run.pc = "load" =>
          /\ \A i \in Loaded : i <= run.cursor
          /\ \A i \in run.steady : i <= run.cursor => i \in Loaded
          /\ run.steady \subseteq Exportable(run.mode)
    /\ run.pc = "done" => run.steady \subseteq Loaded
=============================================================================

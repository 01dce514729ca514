----------------------------- MODULE Discovery -----------------------------
(***************************************************************************)
(* The product feeds (discovery Handler, DiscoveryService,                 *)
(* DiscoveryRepository).                                                   *)
(*                                                                         *)
(* A feed is made by several queries: one for the candidates, up to two    *)
(* more to fill it up, and one for the cards.  Products are archived and   *)
(* deleted in between.  Most feeds are kept in Redis for two minutes,      *)
(* under a key made of the request.  What a query ranks by is a table of   *)
(* scores, 0 where the query does not select the product; the filters of   *)
(* a request are the set of products that meet them.  The scores do not    *)
(* change here: Metrics is about how they do.                              *)
(***************************************************************************)
EXTENDS Naturals, SequencesExt, Ranking

CONSTANTS
    Products,   \* numbers, as product_id breaks ties
    Score,      \* per feed type and product
    Liked,      \* user_category_affinity: per user, the score of each product
    CoViews,    \* product_co_views: pairs of products
    Recent,     \* per user, the products of recent events, orders and wishlists
    Viewed,     \* per user or session, the products viewed last
    Requests,   \* feed requests: type, user, session, filter (a set of products)
    Limit,      \* their limit
    Workers     \* request slots

VARIABLES
    status,     \* products.status; "gone" is a deleted product
    cache,      \* the Redis copies
    job         \* the request in each slot

vars == <<status, cache, job>>

None == "none"
NoCopy == [cards |-> <<>>, for |-> None, sound |-> TRUE]
NoRequest == [type |-> None, user |-> None, session |-> None, filter |-> {}]
Free == [pc |-> "idle", req |-> NoRequest, found |-> <<>>, more |-> <<>>, seen |-> {}]

Active == {p \in Products : status[p] = "active"}
At(w, label) == job[w].pc = label
Take(s, n) == SubSeq(s, 1, IF n < Len(s) THEN n ELSE Len(s))
Done(w) == job' = [job EXCEPT ![w] = Free]

-----------------------------------------------------------------------------
(* FeedRequest *)

Validate(r) ==
    /\ r.type = "recommended" => r.user # None
    /\ r.type = "also_viewed" => (r.user # None \/ r.session # None)

\* The others depend on more than the key says
isCacheableFeed(r) ==
    \/ r.type \in {"trending", "best_sellers", "deals", "new_arrivals", "highly_rated",
                   "most_wishlisted", "featured", "editorial"}
    \/ r.type = "recommended" /\ r.user # None

buildFeedCacheKey(r) == <<r.type, r.user, r.session, r.filter>>

feedFallbackOrder(type) ==
    IF type \in {"recommended", "also_viewed"} THEN <<"trending", "best_sellers">> ELSE <<>>

Init ==
    /\ status = [p \in Products |-> "active"]
    /\ cache = [k \in {buildFeedCacheKey(r) : r \in Requests} |-> NoCopy]
    /\ job = [w \in Workers |-> Free]

-----------------------------------------------------------------------------
(* DiscoveryRepository *)

eligible_products(r) == Active \cap r.filter

\* The best of what a query selects among the eligible, by score and then by id
runFilteredCandidateQuery(r, limit, score) ==
    LET ranked == {p \in eligible_products(r) : score[p] > 0}
        before == {pair \in ranked \X ranked :
                     LET p == pair[1]
                         q == pair[2]
                     IN  score[p] > score[q] \/ (score[p] = score[q] /\ p > q)}
    IN  Take(InOrder(ranked, before), limit)

Actor(r) == IF r.user # None THEN r.user ELSE r.session

CoViewed(seen) == {p \in Products : \E q \in seen : <<q, p>> \in CoViews}

getRecommendedCandidates(r) ==
    [p \in Products |->
        IF p \in Recent[r.user] THEN 0
        ELSE Liked[r.user][p] + (IF p \in CoViewed(Recent[r.user]) THEN 1 ELSE 0)]

getAlsoViewedCandidates(r) ==
    [p \in Products |-> IF p \in CoViewed(Viewed[Actor(r)]) \ Viewed[Actor(r)] THEN 1 ELSE 0]

\* product_metrics.trending_score and weekly_purchases
getTrendingCandidates == Score["trending"]
getBestSellerCandidates == Score["best_sellers"]

GetFeedCandidates(r, type, limit) ==
    runFilteredCandidateQuery(r, limit,
        CASE type = "recommended" -> getRecommendedCandidates(r)
          [] type = "also_viewed" -> getAlsoViewedCandidates(r)
          [] type = "trending" -> getTrendingCandidates
          [] type = "best_sellers" -> getBestSellerCandidates
          [] OTHER -> Score[type])

\* Products that were deleted have no card; archived ones do
HydrateProductCards(ids) == Picked(ids, {k \in DOMAIN ids : status[ids[k]] # "gone"})

-----------------------------------------------------------------------------
(* DiscoveryService *)

\* A copy is answered, or there is none, or Redis does not answer
getCachedFeed(w, r) ==
    \/ isCacheableFeed(r) /\ cache[buildFeedCacheKey(r)] # NoCopy /\ job[w] = Free /\ UNCHANGED job
    \/ /\ job[w] = Free
       /\ job' = [job EXCEPT ![w] = [Free EXCEPT !.pc = "candidates", !.req = r, !.seen = Active]]

GetFeed(w, r) ==
    /\ Validate(r)
    /\ getCachedFeed(w, r)
    /\ UNCHANGED <<status, cache>>

\* What the queries have found is enough, or another is asked
Enough(found, more) == more = <<>> \/ Len(found) >= Limit
Found(w, found, more) ==
    job' = [job EXCEPT ![w].found = found, ![w].more = more,
                       ![w].pc = IF Enough(found, more) THEN "hydrate" ELSE "fallback"]

FirstCandidates(w) ==
    /\ At(w, "candidates")
    /\ Found(w, GetFeedCandidates(job[w].req, job[w].req.type, Limit),
                feedFallbackOrder(job[w].req.type))
    /\ UNCHANGED <<status, cache>>

\* Mutant of Merge: what is already there is not left out
MergeAll(found, others) == Take(found \o others, Limit)

Merge(found, others) ==
    Take(found \o Picked(others, {k \in DOMAIN others : others[k] \notin Range(found)}), Limit)

\* The fallback is asked for as many as are missing, those already found among them
getFeedCandidatesWithFallback(w) ==
    /\ At(w, "fallback")
    /\ LET found == job[w].found
           others == GetFeedCandidates(job[w].req, Head(job[w].more), Limit - Len(found))
       IN  Found(w, Merge(found, others), Tail(job[w].more))
    /\ UNCHANGED <<status, cache>>

\* Read from here on: the cards
Hydrate(w) ==
    /\ At(w, "hydrate")
    /\ LET cards == HydrateProductCards(job[w].found)
       IN  job' = [job EXCEPT ![w].pc = "store", ![w].found = cards]
    /\ UNCHANGED <<status, cache>>

\* for and sound are history: whose feed it is, and whether each of its products
\* was active at some moment of the request
storeCachedFeed(w) ==
    /\ At(w, "store")
    /\ Done(w)
    /\ LET r == job[w].req
           cards == job[w].found
       IN  IF isCacheableFeed(r) /\ cards # <<>>
           THEN cache' = [cache EXCEPT ![buildFeedCacheKey(r)] =
                    [cards |-> cards, for |-> Actor(r), sound |-> Range(cards) \subseteq job[w].seen]]
           ELSE UNCHANGED cache
    /\ UNCHANGED status

\* A query fails, or the copy cannot be stored
handleError(w) ==
    /\ job[w] # Free
    /\ Done(w)
    /\ UNCHANGED <<status, cache>>

Expire(k) ==
    /\ cache[k] # NoCopy
    /\ cache' = [cache EXCEPT ![k] = NoCopy]
    /\ UNCHANGED <<status, job>>

\* The catalog's doing
SetStatus(p, s) ==
    /\ status[p] # "gone"
    /\ status' = [status EXCEPT ![p] = s]
    /\ job' = [w \in Workers |-> IF job[w] = Free \/ s # "active" THEN job[w]
                                 ELSE [job[w] EXCEPT !.seen = @ \cup {p}]]
    /\ UNCHANGED cache

-----------------------------------------------------------------------------
Next ==
    \/ \E w \in Workers, r \in Requests : GetFeed(w, r)
    \/ \E w \in Workers :
          \/ FirstCandidates(w) \/ getFeedCandidatesWithFallback(w) \/ Hydrate(w)
          \/ storeCachedFeed(w) \/ handleError(w)
    \/ \E k \in DOMAIN cache : Expire(k)
    \/ \E p \in Products, s \in {"active", "archived", "gone"} : SetStatus(p, s)

Spec == Init /\ [][Next]_vars

-----------------------------------------------------------------------------
Feeds == UNION {[1..n -> Products] : n \in 0..Limit}

TypeOK ==
    /\ status \in [Products -> {"active", "archived", "gone"}]
    /\ \A k \in DOMAIN cache : cache[k].cards \in Feeds /\ cache[k].sound \in BOOLEAN
    /\ \A w \in Workers :
          /\ job[w].pc \in {"idle", "candidates", "fallback", "hydrate", "store"}
          /\ job[w].req \in Requests \cup {NoRequest}
          /\ job[w].found \in Feeds /\ job[w].seen \subseteq Products

\* A feed, on its way or kept, shows no product twice, and a kept one is that of
\* the user who asks for it and shows only products that were active at some
\* moment of the request that made it, whatever was archived between its queries
\* and whichever queries filled it up (getFeedCandidatesWithFallback,
\* HydrateProductCards, buildFeedCacheKey).
FeedsAreSound ==
    /\ \A w \in Workers : IsInjective(job[w].found)
    /\ \A r \in Requests :
          LET copy == cache[buildFeedCacheKey(r)]
          IN  copy # NoCopy => /\ copy.for = Actor(r) /\ copy.sound
                               /\ IsInjective(copy.cards)

-----------------------------------------------------------------------------
(* The inductive invariant *)

\* What is left of the fallback order
Fallbacks == {<<>>, <<"best_sellers">>, <<"trending", "best_sellers">>}

Jobs == [pc : {"idle", "candidates", "fallback", "hydrate", "store"},
         req : Requests \cup {NoRequest}, found : Feeds, more : Fallbacks,
         seen : SUBSET Products]

\* seen holds whatever is active, and so all that the queries found, once each
RequestSound(j) ==
    /\ IsInjective(j.found) /\ Range(j.found) \subseteq j.seen
    /\ j.pc # "idle" => /\ j.req \in Requests /\ Validate(j.req)
                        /\ Active \subseteq j.seen
    /\ j.pc = "fallback" => j.more # <<>> /\ Len(j.found) < Limit

Copies == [cards : Feeds, for : {Actor(r) : r \in Requests} \cup {None}, sound : BOOLEAN]

Inv ==
    /\ status \in [Products -> {"active", "archived", "gone"}]
    /\ cache \in [{buildFeedCacheKey(r) : r \in Requests} -> Copies]
    /\ job \in [Workers -> Jobs]
    /\ \A w \in Workers : RequestSound(job[w])
    /\ FeedsAreSound
=============================================================================

----------------------------- MODULE MCServices -----------------------------
(***************************************************************************)
(* The services that share no state with one another, for TLC.  A          *)
(* behaviour is one of one of them: which, is picked at the start.  The    *)
(* variables are lent to the module that is picked, the rest are Off.      *)
(***************************************************************************)
EXTENDS Naturals, FiniteSets, TLC

CONSTANTS
    Pair, Triple, Four,     \* things: passwords, orders, addresses, categories, ...
    Workers, ThreeWorkers,  \* request slots
    Emails, Root, MaxIdentities, Vouchers,
    LoginLimit, LockAfter,
    MaxCodes, LongLimit, ResendLimit,
    OrderAmount, Amounts,
    Conns,
    Entities, Values, MaxVersion,
    Shoppers, OrderStatuses, Window, MaxData,
    Offered, Ranks, Affinity, CoViews, Interested, Seen, FeedRequests,
    MaxVariants, MaxImages, Limit

ASSUME ServicesAssumption ==
    /\ Root \in Emails /\ "none" \notin Emails /\ MaxIdentities \in Nat
    /\ LoginLimit \in Nat \ {0} /\ LockAfter \in Nat \ {0} /\ Limit \in Nat \ {0}
    /\ MaxCodes \in Nat /\ LongLimit \in Nat /\ ResendLimit \in Nat
    /\ MaxData \in Nat /\ IsFiniteSet(Workers) /\ IsFiniteSet(Pair)
    /\ IsFiniteSet(Four) /\ Four \cap {"none", "top"} = {}
    /\ Values # {} /\ MaxVersion \in Nat \ {0}
    /\ OrderAmount \in Nat /\ Amounts \subseteq Nat
    /\ "pending" \in OrderStatuses /\ Window \in Nat
    /\ Offered \subseteq Nat /\ IsFiniteSet(Offered)
    /\ {"trending", "best_sellers"} \subseteq DOMAIN Ranks
    /\ \A type \in DOMAIN Ranks : Ranks[type] \in [Offered -> Nat]
    /\ \A r \in FeedRequests :
          /\ r.type \in DOMAIN Ranks \cup {"recommended", "also_viewed"}
          /\ r.type = "recommended" /\ r.user # "none" => Affinity[r.user] \in [Offered -> Nat]
    /\ MaxVariants \in Nat /\ MaxImages \in Nat

VARIABLES component, job, x1, x2, x3, x4, x5, x6, x7, x8, x9

vars == <<component, job, x1, x2, x3, x4, x5, x6, x7, x8, x9>>

\* Ann's two orders, of three items
Bought == [first  |-> [order |-> 1, user |-> "ann", product |-> "mug"],
           second |-> [order |-> 1, user |-> "ann", product |-> "cup"],
           third  |-> [order |-> 2, user |-> "ann", product |-> "mug"]]

\* Two products that trend and sell differently, and what Ann and Bob like of them
MCRanks == [trending |-> <<2, 1>>, best_sellers |-> <<0, 1>>, category |-> <<1, 2>>]
MCAffinity == [ann |-> <<1, 0>>, bob |-> <<0, 1>>]
MCCoViews == {<<1, 2>>}
MCInterested == [ann |-> {}, bob |-> {1}]
MCSeen == [visit |-> {1}]
MCFeedRequests ==
    {[type |-> q[1], user |-> q[2], session |-> q[3], filter |-> q[4]] :
        q \in {<<"category", "none", "none", {2}>>,
              <<"recommended", "ann", "none", {1, 2}>>,
              <<"recommended", "bob", "none", {1, 2}>>,
              <<"also_viewed", "none", "visit", {1, 2}>>}}

Account == INSTANCE Accounts WITH
    identity <- x1, verified <- x2, claims <- x3, confirmed <- x4
Guard == INSTANCE PasswordGuard WITH
    counter <- x1, failed <- x2, locked <- x3, tries <- x4, lost <- x5
Password == INSTANCE PasswordSessions WITH
    Passwords <- Pair, Tokens <- Pair, ResetTokens <- Vouchers, password <- x1,
    reset <- x2, opened <- x3, known <- x4, row <- x5, copy <- x6, spared <- x7
Code == INSTANCE EmailCodes WITH
    Tokens <- Pair, limit <- x1, otp <- x2, resent <- x3, drawn <- x4, begun <- x5,
    uses <- x6, lost <- x7
Promotion == INSTANCE Promotions WITH
    Orders <- Pair, Values <- Amounts, discount <- x1, targets <- x2, redeemed <- x3,
    loose <- x4
Address == INSTANCE Addresses WITH
    Ids <- Triple, address <- x1, loose <- x2
Wishlist == INSTANCE Wishlists WITH
    Items <- Pair, Workers <- ThreeWorkers, row <- x1, items <- x2, cache <- x3,
    excused <- x4, deleted <- x5
Category == INSTANCE Categories WITH
    Cats <- Four, parent <- x1, closure <- x2, overlap <- x3
Notification == INSTANCE Notifications WITH
    Notes <- Pair, note <- x1, expired <- x2, shown <- x3, excused <- x4,
    subscribed <- x5
Edit == INSTANCE Edits WITH
    entity <- x1, row <- x2, version <- x3, named <- x4, undone <- x5
Review == INSTANCE Reviews WITH
    OrderItem <- Bought, Users <- Shoppers, Statuses <- OrderStatuses, status <- x1,
    age <- x2, review <- x3, earned <- x4
Metric == INSTANCE Metrics WITH
    Admins <- Workers, MaxVersion <- MaxData, data <- x1, table <- x2, newest <- x3,
    lag <- x4
Discover == INSTANCE Discovery WITH
    Products <- Offered, Score <- Ranks, Liked <- Affinity,
    Recent <- Interested, Viewed <- Seen, Requests <- FeedRequests,
    Limit <- Limit + 1, Workers <- {"slot"}, status <- x1, cache <- x2
Feed == INSTANCE MerchantFeed WITH
    Products <- Pair, product <- x1, image <- x2, variant <- x3, taken <- x4,
    updated <- x5, run <- x6

Off == "off"

Init ==
    \/ /\ component = "accounts" /\ Account!Init
       /\ x5 = Off /\ x6 = Off /\ x7 = Off /\ x8 = Off /\ x9 = Off
    \/ /\ component = "logins" /\ Guard!Init
       /\ x6 = Off /\ x7 = Off /\ x8 = Off /\ x9 = Off
    \/ /\ component = "passwords" /\ Password!Init
       /\ x8 = Off /\ x9 = Off
    \/ /\ component = "codes" /\ Code!Init
       /\ x8 = Off /\ x9 = Off
    \/ /\ component = "promotions" /\ Promotion!Init
       /\ x5 = Off /\ x6 = Off /\ x7 = Off /\ x8 = Off /\ x9 = Off
    \/ /\ component = "addresses" /\ Address!Init
       /\ x3 = Off /\ x4 = Off /\ x5 = Off /\ x6 = Off /\ x7 = Off /\ x8 = Off /\ x9 = Off
    \/ /\ component = "wishlists" /\ Wishlist!Init
       /\ x6 = Off /\ x7 = Off /\ x8 = Off /\ x9 = Off
    \/ /\ component = "categories" /\ Category!Init
       /\ x4 = Off /\ x5 = Off /\ x6 = Off /\ x7 = Off /\ x8 = Off /\ x9 = Off
    \/ /\ component = "notifications" /\ Notification!Init
       /\ x6 = Off /\ x7 = Off /\ x8 = Off /\ x9 = Off
    \/ /\ component = "edits" /\ Edit!Init
       /\ x6 = Off /\ x7 = Off /\ x8 = Off /\ x9 = Off
    \/ /\ component = "reviews" /\ Review!Init
       /\ x5 = Off /\ x6 = Off /\ x7 = Off /\ x8 = Off /\ x9 = Off
    \/ /\ component = "metrics" /\ Metric!Init
       /\ x5 = Off /\ x6 = Off /\ x7 = Off /\ x8 = Off /\ x9 = Off
    \/ /\ component = "discovery" /\ Discover!Init
       /\ x3 = Off /\ x4 = Off /\ x5 = Off /\ x6 = Off /\ x7 = Off /\ x8 = Off /\ x9 = Off
    \/ /\ component = "feed" /\ Feed!FeedInit
       /\ job = Off /\ x7 = Off /\ x8 = Off /\ x9 = Off

Next ==
    /\ component' = component
    /\ \/ component = "accounts" /\ Account!Next /\ UNCHANGED <<x5, x6, x7, x8, x9>>
       \/ component = "logins" /\ Guard!Next /\ UNCHANGED <<x6, x7, x8, x9>>
       \/ component = "passwords" /\ Password!Next /\ UNCHANGED <<x8, x9>>
       \/ component = "codes" /\ Code!Next /\ UNCHANGED <<x8, x9>>
       \/ component = "promotions" /\ Promotion!Next /\ UNCHANGED <<x5, x6, x7, x8, x9>>
       \/ component = "addresses" /\ Address!Next /\ UNCHANGED <<x3, x4, x5, x6, x7, x8, x9>>
       \/ component = "wishlists" /\ Wishlist!Next /\ UNCHANGED <<x6, x7, x8, x9>>
       \/ component = "categories" /\ Category!Next /\ UNCHANGED <<x4, x5, x6, x7, x8, x9>>
       \/ component = "notifications" /\ Notification!Next /\ UNCHANGED <<x6, x7, x8, x9>>
       \/ component = "edits" /\ Edit!Next /\ UNCHANGED <<x6, x7, x8, x9>>
       \/ component = "reviews" /\ Review!Next /\ UNCHANGED <<x5, x6, x7, x8, x9>>
       \/ component = "metrics" /\ Metric!Next /\ UNCHANGED <<x5, x6, x7, x8, x9>>
       \/ component = "discovery" /\ Discover!Next /\ UNCHANGED <<x3, x4, x5, x6, x7, x8, x9>>
       \/ component = "feed" /\ Feed!FeedNext /\ UNCHANGED <<job, x7, x8, x9>>

Spec == Init /\ [][Next]_vars

Symmetric == Permutations(Pair) \cup Permutations(Workers)

-----------------------------------------------------------------------------
(* Properties *)

\* Each module's type invariant
TypeOK ==
    CASE component = "accounts" -> Account!TypeOK
      [] component = "logins" -> Guard!TypeOK
      [] component = "passwords" -> Password!TypeOK
      [] component = "codes" -> Code!TypeOK
      [] component = "promotions" -> Promotion!TypeOK
      [] component = "addresses" -> Address!TypeOK
      [] component = "wishlists" -> Wishlist!TypeOK
      [] component = "categories" -> Category!TypeOK
      [] component = "notifications" -> Notification!TypeOK
      [] component = "edits" -> Edit!TypeOK
      [] component = "reviews" -> Review!TypeOK
      [] component = "metrics" -> Metric!TypeOK
      [] component = "discovery" -> Discover!TypeOK
      [] component = "feed" -> Feed!FeedTypeOK

\* Administrative routes open only for identities that were appointed, whatever
\* creation stopped half-way (getUserRolesAndPermissions, AdminOnly).
AdminsWereAppointed == component = "accounts" => Account!AdminsWereAppointed

\* The nil profile on which Login panics is met in an account whose creation was
\* confirmed only when the query for it fails (loginWithIdentity, GetUserProfile).
ConfirmedPanicOnErrorOnly == component = "accounts" => Account!ConfirmedPanicOnErrorOnly

\* Requests that passed the lock's check before it was set add one guess each
\* and no more (Login, IncrementFailedLoginAttempts).
TriesBounded == component = "logins" => Guard!TriesBounded

\* A login counter without a TTL has its EXPIRE still to come, or lost it
\* (RateLimiter.CheckLoginAttempt).
CounterEnds == component = "logins" => Guard!CounterEnds

\* A session opened with an older password is usable only while no ending after
\* the change is through, or when each missed it (LogoutAllSessions, GetSession).
OldSessionsRaced == component = "passwords" => Password!OldSessionsRaced

\* A code mailed to an address is accepted once by each verification under way
\* and never again, whatever resends replace it (VerifyEmailOTP).
CodeUsesBounded == component = "codes" => Code!CodeUsesBounded

\* More redemptions than max_redemptions come only from requests that counted
\* before another recorded its own, or from a lowered limit (ValidateAndRedeem).
BeyondLimitOnlyRaced == component = "promotions" => Promotion!BeyondLimitOnlyRaced

\* No redemption takes off more than its order is worth, unless type and value
\* were set by different requests (calculateDiscount, UpdateRequest.Validate).
DiscountWithinOrder == component = "promotions" => Promotion!DiscountWithinOrder

\* Two default addresses are left only by a promotion under way, failed, or with a
\* snapshot older than the other (UserService.CreateAddress, SetDefaultAddress).
OneDefaultAddress == component = "addresses" => Address!OneDefaultAddress

\* The cached wishlist is the one in the table, unless a change is still to
\* delete it, could not, or overtook its reader (GetMyWishlist, invalidate).
CopyIsWishlist == component = "wishlists" => Wishlist!CopyIsWishlist

\* category_closure is the reachability of the parent links, with depths, and
\* these are a forest, unless two moves overlapped (UpdateCategory, triggers).
ClosureIsTree == component = "categories" => Category!ClosureIsTree

\* The unread count a connection shows is the one in the table, unless a count
\* is on its way or was overtaken, lost, not pushed or pushed while it was not
\* subscribed (NotificationService, Hub.BroadcastMessage).
ShownCountIsRight == component = "notifications" => Notification!ShownCountIsRight

\* A confirmed edit stays until the field is edited again, save for what an
\* overlapping edit of the catalog undoes (UpdateBrand and its like, delivery).
ConfirmedEditsKept == component = "edits" => Edit!ConfirmedEditsKept

\* A review was allowed at some moment of its request, whatever happened to its
\* order between the check and the insert (AddReview, Create).
ReviewsWereEarned == component = "reviews" => Review!ReviewsWereEarned

\* Overlapping refreshes never put a truncated table back, and product_metrics
\* only until the next refresh that is not overtaken (RunOnce, TRUNCATE).
TablesGoForward == component = "metrics" => Metric!TablesGoForward

\* No feed shows a product twice; a kept one is its user's own, of products that
\* were active while it was made (GetFeed, buildFeedCacheKey).
FeedsAreSound == component = "discovery" => Discover!FeedsAreSound

\* The feed holds, once, every variant that could be exported during the whole
\* run, whatever changed between its batches (Generator.run, LoadFeedBatch).
FeedComplete == component = "feed" => Feed!FeedComplete
=============================================================================

------------------------- MODULE UserServicesProofs -------------------------
(***************************************************************************)
(* The services around a user's own rows, for any number of requests,      *)
(* things and values: reviews, addresses, discounts, wishlists and         *)
(* notifications.  Each module's inductive invariant is proved for that    *)
(* module's actions and lifted to the specification of MCServices.         *)
(***************************************************************************)
EXTENDS MCServices, FiniteSetTheorems, TLAPS

-----------------------------------------------------------------------------
(* Reviews *)

ReviewJobs ==
    [pc : {"idle", "read", "insert"}, user : Shoppers \cup {Review!None},
     product : Review!Products \cup {Review!None}, item : Review!Items \cup {Review!None},
     chance : BOOLEAN]

\* A free slot asks for nothing.
LEMMA ReviewFree == Review!Free \in ReviewJobs /\ Review!Free.pc = "idle"
  BY DEF ReviewJobs, Review!Free

\* What the rule asks of an order item is in the item itself and its order's row.
LEMMA ReviewAllowed ==
    ASSUME NEW st, NEW ag, NEW i, NEW j \in ReviewJobs, NEW k \in ReviewJobs,
           j.user = k.user, j.product = k.product, j.item = k.item
    PROVE  Review!Allowed(st, ag, j) <=> Review!Allowed(st, ag, k)
  BY DEF Review!Allowed

\* No order has changed and nobody has asked.
LEMMA ReviewInit == Review!Init => Review!Inv
  <1> SUFFICES ASSUME Review!Init PROVE Review!Inv
    OBVIOUS
  <1>1. Review!TypeOK
    BY ServicesAssumption, ReviewFree DEF Review!Init, Review!TypeOK, ReviewJobs
  <1>2. \A w \in Workers : job[w].pc = "idle"
    BY ReviewFree DEF Review!Init
  <1>3. Review!ReviewsWereEarned
    BY DEF Review!Init, Review!ReviewsWereEarned
  <1> QED
    BY <1>1, <1>2, <1>3
       DEF Review!Inv, Review!ChanceIsSeen, Review!CheckedWasAllowed

\* A step of one request that leaves the tables alone keeps the invariant if what
\* it makes of the request does.
LEMMA ReviewGoto ==
    ASSUME Review!Inv, NEW w \in Workers, NEW j \in ReviewJobs,
           job' = [job EXCEPT ![w] = j], x1' = x1, x2' = x2, x3' = x3, x4' = x4,
           j.pc = "read" /\ Review!Allowed(x1, x2, j) => j.chance,
           j.pc = "insert" =>
               /\ j.chance /\ j.item \in Review!Items
               /\ Bought[j.item].user = j.user /\ Bought[j.item].product = j.product
    PROVE  Review!Inv'
  <1>1. job \in [Workers -> ReviewJobs] /\ job' \in [Workers -> ReviewJobs]
    BY DEF Review!Inv, Review!TypeOK, ReviewJobs
  <1>2. \A o \in Workers : job'[o] = IF o = w THEN j ELSE job[o]
    BY <1>1
  <1>3. Review!TypeOK'
    BY <1>1 DEF Review!Inv, Review!TypeOK, ReviewJobs
  <1>4. Review!ChanceIsSeen'
    <2> SUFFICES ASSUME NEW o \in Workers, job'[o].pc = "read",
                        Review!Allowed(x1, x2, job'[o])
                 PROVE  job'[o].chance
      BY DEF Review!ChanceIsSeen, Review!Allowed
    <2> QED
      BY <1>2 DEF Review!Inv, Review!ChanceIsSeen
  <1>5. Review!CheckedWasAllowed'
    BY <1>2 DEF Review!Inv, Review!CheckedWasAllowed
  <1>6. Review!ReviewsWereEarned'
    BY DEF Review!Inv, Review!ReviewsWereEarned
  <1> QED
    BY <1>3, <1>4, <1>5, <1>6 DEF Review!Inv

\* The checks of AddReview, made on the row as it is, are the rule.
LEMMA ReviewAdded ==
    ASSUME Review!Inv, NEW w \in Workers, Review!AddReview(w)
    PROVE  Review!Inv'
  <1> DEFINE j == [job[w] EXCEPT !.pc = "insert"]
  <1>1. job[w] \in ReviewJobs
    BY DEF Review!Inv, Review!TypeOK, ReviewJobs
  <1>2. /\ j \in ReviewJobs /\ j.pc = "insert" /\ j.item = job[w].item
        /\ j.user = job[w].user /\ j.product = job[w].product /\ j.chance = job[w].chance
    BY <1>1 DEF ReviewJobs
  <1>3. job[w].item \in Review!Items
    BY <1>1 DEF ReviewJobs, Review!AddReview
  <1>4. Review!Allowed(x1, x2, job[w])
    BY <1>3 DEF Review!AddReview, Review!Reviewable, Review!GetOrderItemForReview,
         Review!Allowed
  <1>5. job[w].chance
    BY <1>4 DEF Review!Inv, Review!ChanceIsSeen, Review!AddReview
  <1>6. Bought[job[w].item].user = job[w].user /\ Bought[job[w].item].product = job[w].product
    BY <1>4 DEF Review!Allowed
  <1>7. /\ job' = [job EXCEPT ![w] = j]
        /\ x1' = x1 /\ x2' = x2 /\ x3' = x3 /\ x4' = x4
    BY DEF Review!AddReview
  <1> HIDE DEF j
  <1> QED
    BY <1>2, <1>3, <1>5, <1>6, <1>7, ReviewGoto

\* The insert writes what the checks let past, under a key that was free.
LEMMA ReviewInserted ==
    ASSUME Review!Inv, NEW w \in Workers, Review!InsertReview(w)
    PROVE  Review!Inv'
  <1> DEFINE k == <<job[w].user, job[w].product>>
  <1>1. /\ job[w].pc = "insert"
        /\ x3' = [x3 EXCEPT ![k] = job[w].item] /\ x4' = [x4 EXCEPT ![k] = job[w].chance]
        /\ job' = [job EXCEPT ![w] = Review!Free] /\ x1' = x1 /\ x2' = x2
    BY DEF Review!InsertReview, Review!Create
  <1>2. /\ x1 \in [Review!Orders -> OrderStatuses] /\ x2 \in [Review!Orders -> 0..Window + 1]
        /\ x3 \in [Review!Keys -> Review!Items \cup {Review!None}]
        /\ x4 \in [Review!Keys -> BOOLEAN] /\ job \in [Workers -> ReviewJobs]
    BY DEF Review!Inv, Review!TypeOK, ReviewJobs
  <1>3. /\ job[w].chance /\ job[w].item \in Review!Items
        /\ Bought[job[w].item].user = job[w].user /\ Bought[job[w].item].product = job[w].product
    BY <1>1 DEF Review!Inv, Review!CheckedWasAllowed
  <1>4. \A o \in Workers : job'[o] = IF o = w THEN Review!Free ELSE job[o]
    BY <1>1, <1>2
  <1>5. Review!TypeOK'
    <2>1. job' \in [Workers -> ReviewJobs]
      BY <1>1, <1>2, ReviewFree
    <2>2. x3' \in [Review!Keys -> Review!Items \cup {Review!None}]
      BY <1>1, <1>2, <1>3
    <2>3. x4' \in [Review!Keys -> BOOLEAN]
      BY <1>1, <1>2, <1>3
    <2> QED
      BY <1>1, <1>2, <2>1, <2>2, <2>3 DEF Review!TypeOK, ReviewJobs
  <1>6. Review!ChanceIsSeen'
    <2> SUFFICES ASSUME NEW o \in Workers, job'[o].pc = "read",
                        Review!Allowed(x1, x2, job'[o])
                 PROVE  job'[o].chance
      BY <1>1 DEF Review!ChanceIsSeen, Review!Allowed
    <2> QED
      BY <1>4, ReviewFree DEF Review!Inv, Review!ChanceIsSeen
  <1>7. Review!CheckedWasAllowed'
    BY <1>4, ReviewFree DEF Review!Inv, Review!CheckedWasAllowed
  <1>8. Review!ReviewsWereEarned'
    <2> SUFFICES ASSUME NEW q \in Review!Keys, x3'[q] # Review!None
                 PROVE  /\ x4'[q]
                        /\ Bought[x3'[q]].user = q[1] /\ Bought[x3'[q]].product = q[2]
      BY DEF Review!ReviewsWereEarned
    <2>1. CASE q = k
      <3>1. x3'[q] = job[w].item /\ x4'[q] = job[w].chance
        BY <1>1, <1>2, <2>1
      <3> QED
        BY <1>3, <2>1, <3>1
    <2>2. CASE q # k
      <3>1. x3'[q] = x3[q] /\ x4'[q] = x4[q]
        BY <1>1, <1>2, <2>2
      <3> QED
        BY <3>1 DEF Review!Inv, Review!ReviewsWereEarned
    <2> QED
      BY <2>1, <2>2
  <1> QED
    BY <1>5, <1>6, <1>7, <1>8 DEF Review!Inv

\* What an administrator opens is recorded with the requests under way.
LEMMA ReviewStatusSet ==
    ASSUME Review!Inv, NEW o \in Review!Orders, NEW s \in OrderStatuses,
           Review!AdminUpdateOrderStatus(o, s)
    PROVE  Review!Inv'
  <1>1. /\ x1 \in [Review!Orders -> OrderStatuses] /\ x2 \in [Review!Orders -> 0..Window + 1]
        /\ x3 \in [Review!Keys -> Review!Items \cup {Review!None}]
        /\ x4 \in [Review!Keys -> BOOLEAN] /\ job \in [Workers -> ReviewJobs]
    BY DEF Review!Inv, Review!TypeOK, ReviewJobs
  <1>2. /\ x1' = [x1 EXCEPT ![o] = s] /\ x2' = [x2 EXCEPT ![o] = 0] /\ x3' = x3 /\ x4' = x4
    BY DEF Review!AdminUpdateOrderStatus
  <1>3. job' = [w \in Workers |->
           [job[w] EXCEPT !.chance = job[w].chance \/ Review!Allowed(x1', x2', job[w])]]
    BY DEF Review!AdminUpdateOrderStatus, Review!Chances
  <1>4. ASSUME NEW w \in Workers
        PROVE  /\ job'[w] \in ReviewJobs /\ job'[w].pc = job[w].pc
               /\ job'[w].user = job[w].user /\ job'[w].product = job[w].product
               /\ job'[w].item = job[w].item
               /\ job'[w].chance <=> (job[w].chance \/ Review!Allowed(x1', x2', job[w]))
    <2> DEFINE b == job[w].chance \/ Review!Allowed(x1', x2', job[w])
    <2>1. b \in BOOLEAN
      BY <1>1 DEF ReviewJobs
    <2>2. job'[w] = [job[w] EXCEPT !.chance = b]
      BY <1>3
    <2>3. job[w] \in ReviewJobs
      BY <1>1
    <2> HIDE DEF b
    <2>4. /\ job'[w] \in ReviewJobs /\ job'[w].pc = job[w].pc
          /\ job'[w].user = job[w].user /\ job'[w].product = job[w].product
          /\ job'[w].item = job[w].item /\ job'[w].chance = b
      BY <2>1, <2>2, <2>3 DEF ReviewJobs
    <2> QED
      BY <2>4 DEF b
  <1>5. Review!TypeOK'
    <2>1. job' \in [Workers -> ReviewJobs]
      BY <1>3, <1>4
    <2>2. x2' \in [Review!Orders -> 0..Window + 1]
      BY <1>1, <1>2, ServicesAssumption
    <2> QED
      BY <1>1, <1>2, <2>1, <2>2 DEF Review!TypeOK, ReviewJobs
  <1>6. Review!ChanceIsSeen'
    <2> SUFFICES ASSUME NEW w \in Workers, Review!Allowed(x1', x2', job'[w])
                 PROVE  job'[w].chance
      BY DEF Review!ChanceIsSeen, Review!Allowed
    <2>1. Review!Allowed(x1', x2', job[w])
      BY <1>1, <1>4, ReviewAllowed
    <2> QED
      BY <1>4, <2>1
  <1>7. Review!CheckedWasAllowed'
    BY <1>4 DEF Review!Inv, Review!CheckedWasAllowed
  <1>8. Review!ReviewsWereEarned'
    BY <1>2 DEF Review!Inv, Review!ReviewsWereEarned
  <1> QED
    BY <1>5, <1>6, <1>7, <1>8 DEF Review!Inv

\* A day more opens no window.
LEMMA ReviewTimePassed ==
    ASSUME Review!Inv, Review!PassTime
    PROVE  Review!Inv'
  <1>1. /\ x1 \in [Review!Orders -> OrderStatuses] /\ x2 \in [Review!Orders -> 0..Window + 1]
        /\ job \in [Workers -> ReviewJobs]
    BY DEF Review!Inv, Review!TypeOK, ReviewJobs
  <1>2. /\ x2' = [o \in Review!Orders |-> IF x2[o] <= Window THEN x2[o] + 1 ELSE x2[o]]
        /\ x1' = x1 /\ x3' = x3 /\ x4' = x4 /\ job' = job
    BY DEF Review!PassTime
  <1>3. /\ x2' \in [Review!Orders -> 0..Window + 1]
        /\ \A o \in Review!Orders : x2'[o] <= Window => x2[o] <= Window
    BY <1>1, <1>2, ServicesAssumption
  <1>4. Review!TypeOK'
    BY <1>2, <1>3 DEF Review!Inv, Review!TypeOK
  <1>5. Review!ChanceIsSeen'
    <2> SUFFICES ASSUME NEW w \in Workers, job[w].pc = "read",
                        Review!Allowed(x1, x2', job[w])
                 PROVE  job[w].chance
      BY <1>2 DEF Review!ChanceIsSeen, Review!Allowed
    <2>1. Bought[job[w].item].order \in Review!Orders
      BY DEF Review!Allowed, Review!Orders
    <2>2. Review!Allowed(x1, x2, job[w])
      BY <1>3, <2>1 DEF Review!Allowed
    <2> QED
      BY <2>2 DEF Review!Inv, Review!ChanceIsSeen
  <1>6. Review!CheckedWasAllowed' /\ Review!ReviewsWereEarned'
    BY <1>2 DEF Review!Inv, Review!CheckedWasAllowed, Review!ReviewsWereEarned
  <1> QED
    BY <1>4, <1>5, <1>6 DEF Review!Inv

\* Every step of the review module keeps its invariant.
LEMMA ReviewNext == Review!Inv /\ [Review!Next]_(Review!vars) => Review!Inv'
  <1> SUFFICES ASSUME Review!Inv, [Review!Next]_(Review!vars) PROVE Review!Inv'
    OBVIOUS
  <1>1. ASSUME NEW w \in Workers, NEW u \in Shoppers, NEW p \in Review!Products,
               NEW i \in Review!Items \cup {Review!None}, Review!Add(w, u, p, i)
        PROVE  Review!Inv'
    <2> DEFINE asked == [Review!Free EXCEPT !.pc = "read", !.user = u, !.product = p,
                                            !.item = i]
               j == [asked EXCEPT !.chance = Review!Allowed(x1, x2, asked)]
    <2>1. asked \in ReviewJobs
      BY DEF ReviewJobs, Review!Free
    <2>2. Review!Allowed(x1, x2, asked) \in BOOLEAN
      BY DEF Review!Allowed
    <2>3. /\ job' = [job EXCEPT ![w] = j]
          /\ x1' = x1 /\ x2' = x2 /\ x3' = x3 /\ x4' = x4
      BY <1>1 DEF Review!Add
    <2>4. asked.pc = "read"
      BY DEF Review!Free
    <2> HIDE DEF asked
    <2>5. /\ j \in ReviewJobs /\ j.pc = "read" /\ j.user = asked.user
          /\ j.product = asked.product /\ j.item = asked.item
          /\ j.chance = Review!Allowed(x1, x2, asked)
      BY <2>1, <2>2, <2>4 DEF ReviewJobs
    <2> HIDE DEF j
    <2>6. Review!Allowed(x1, x2, j) => j.chance
      BY <2>1, <2>5, ReviewAllowed
    <2> QED
      BY <2>3, <2>5, <2>6, ReviewGoto
  <1>2. ASSUME NEW w \in Workers, Review!handleErr(w)
        PROVE  Review!Inv'
    BY <1>2, ReviewFree, ReviewGoto DEF Review!handleErr
  <1>3. CASE UNCHANGED Review!vars
    BY <1>3 DEF Review!vars, Review!Inv, Review!TypeOK, Review!ChanceIsSeen, Review!Allowed,
         Review!CheckedWasAllowed, Review!ReviewsWereEarned
  <1> QED
    BY <1>1, <1>2, <1>3, ReviewAdded, ReviewInserted, ReviewStatusSet, ReviewTimePassed
       DEF Review!Next

\* The review module's invariant always holds.
THEOREM ReviewSafe == Spec => [](component = "reviews" => Review!Inv)
  <1> DEFINE IInv == component = "reviews" => Review!Inv
  <1>1. Init => IInv
    BY ReviewInit DEF Init
  <1>2. IInv /\ [Next]_vars => IInv'
    <2> SUFFICES ASSUME IInv, [Next]_vars, component' = "reviews"
                 PROVE  Review!Inv'
      OBVIOUS
    <2>1. component = "reviews" /\ [Review!Next]_(Review!vars)
      BY DEF Next, vars, Review!vars
    <2> QED
      BY <2>1, ReviewNext
  <1> QED
    BY <1>1, <1>2, PTL DEF Spec

\* However orders change between the checks of AddReview and its insert, a review
\* is of an item its author bought and was allowed while its request was served.
THEOREM ReviewsEarned == Spec => []ReviewsWereEarned
  <1> DEFINE IInv == component = "reviews" => Review!Inv
  <1>1. IInv => ReviewsWereEarned
    BY DEF ReviewsWereEarned, Review!Inv
  <1> QED
    BY <1>1, ReviewSafe, PTL

-----------------------------------------------------------------------------
(* Addresses *)

\* Cardinality means in Addresses what it means here.
LEMMA AddressCardinality == \A S : Address!Cardinality(S) = Cardinality(S)
  BY DEF Address!Cardinality, Cardinality

AddressValues == Address!Flags \cup {Address!None, Address!Gone}
AddressPcs == {"idle", "update", "promote", "clear", "set"}
AddressJobs ==
    [pc : AddressPcs, id : Triple \cup {Address!None},
     flag : Address!Flags \cup {Address!None}, seen : SUBSET Triple]

\* What a job may be, given the addresses v.
AddressFits(j, v) ==
    /\ j.pc # "idle" => j.id \in Triple /\ j.flag \in Address!Flags
    /\ j.pc \in {"promote", "clear", "set"} => v[j.id] # Address!None
    /\ j.pc \in {"clear", "set"} => j.id \in j.seen \/ v[j.id] = Address!Gone
    /\ j.pc = "set" => \A a \in j.seen : a \in Triple /\ v[a] \in Address!Flags

\* The job j has still to promote a.
AddressPromoting(j, a) ==
    j.pc \in {"promote", "clear", "set"} /\ j.flag = "default" /\ j.id = a

\* A free slot promotes nothing.
LEMMA AddressFree ==
    /\ Address!Free \in AddressJobs /\ Address!Free.pc = "idle"
    /\ \A v : AddressFits(Address!Free, v)
  BY DEF AddressJobs, AddressPcs, Address!Free, AddressFits

\* The parts of the invariant in terms of one job at a time.
LEMMA AddressParts ==
    ASSUME Address!Inv
    PROVE  /\ x1 \in [Triple -> AddressValues]
           /\ job \in [Workers -> AddressJobs]
           /\ x2 \subseteq Triple
           /\ \A w \in Workers : AddressFits(job[w], x1)
  BY DEF Address!Inv, Address!TypeOK, Address!JobsAreComplete,
       Address!PromotedRowsWereSeen, Address!LockedRowsStay, Address!Rows,
       AddressValues, AddressJobs, AddressPcs, AddressFits

\* The user has no address.
LEMMA AddressInit == Address!Init => Address!Inv
  <1> SUFFICES ASSUME Address!Init PROVE Address!Inv
    OBVIOUS
  <1>1. Address!TypeOK
    BY AddressFree DEF Address!Init, Address!TypeOK, AddressJobs, AddressPcs
  <1>2. /\ Address!JobsAreComplete /\ Address!PromotedRowsWereSeen
        /\ Address!LockedRowsStay
    BY AddressFree DEF Address!Init, Address!JobsAreComplete,
         Address!PromotedRowsWereSeen, Address!LockedRowsStay
  <1>3. Address!PairsArePromoted
    BY DEF Address!Init, Address!PairsArePromoted, Address!Defaults, Address!None
  <1> QED
    BY <1>1, <1>2, <1>3 DEF Address!Inv

\* A step of one slot keeps the invariant if no row is forgotten or comes back, or
\* goes while another slot locks it, and each default that is not loose was one whose promotion the slot does not give
\* up, is promoted by the slot, or is the only one.
LEMMA AddressStep ==
    ASSUME Address!Inv, NEW w \in Workers, NEW j \in AddressJobs,
           job' = [job EXCEPT ![w] = j],
           x1' \in [Triple -> AddressValues], x2' \subseteq Triple,
           AddressFits(j, x1'),
           \A a \in Triple :
               /\ x1[a] # Address!None => x1'[a] # Address!None
               /\ x1[a] = Address!Gone => x1'[a] = Address!Gone
               /\ x1[a] \in Address!Flags => x1'[a] \in Address!Flags \/ ~Address!Locked(a),
           \A a \in Triple : x1'[a] = "default" /\ a \notin x2' =>
               \/ AddressPromoting(j, a)
               \/ x1[a] = "default" /\ a \notin x2 /\ ~AddressPromoting(job[w], a)
               \/ \A b \in Triple : x1'[b] = "default" /\ b \notin x2' => b = a
    PROVE  Address!Inv'
  <1>1. /\ job \in [Workers -> AddressJobs]
        /\ \A o \in Workers : AddressFits(job[o], x1)
    BY AddressParts
  <1>2. \A o \in Workers : job'[o] = IF o = w THEN j ELSE job[o]
    BY <1>1
  <1>3. Address!TypeOK'
    <2>1. job' \in [Workers -> AddressJobs]
      BY <1>1
    <2> QED
      BY <2>1 DEF Address!TypeOK, AddressJobs, AddressPcs, AddressValues
  <1>4. \A o \in Workers : AddressFits(job'[o], x1')
    <2> SUFFICES ASSUME NEW o \in Workers, o # w PROVE AddressFits(job[o], x1')
      BY <1>2
    <2>1. job[o] \in AddressJobs /\ AddressFits(job[o], x1)
      BY <1>1
    <2>2. job[o].pc = "set" => \A a \in job[o].seen : x1'[a] \in Address!Flags
      BY <2>1 DEF AddressFits, Address!Locked
    <2>3. job[o].pc # "idle" => job[o].id \in Triple
      BY <2>1 DEF AddressFits
    <2> QED
      BY <2>1, <2>2, <2>3 DEF AddressFits
  <1>5. /\ Address!JobsAreComplete' /\ Address!PromotedRowsWereSeen'
        /\ Address!LockedRowsStay'
    BY <1>4 DEF AddressFits, Address!JobsAreComplete, Address!PromotedRowsWereSeen,
         Address!LockedRowsStay, Address!Rows
  <1>6. Address!PairsArePromoted'
    <2> SUFFICES ASSUME NEW a \in Triple, NEW b \in Triple, a # b,
                        x1'[a] = "default", a \notin x2',
                        x1'[b] = "default", b \notin x2'
                 PROVE  \E o \in Workers : \/ AddressPromoting(job'[o], a)
                                           \/ AddressPromoting(job'[o], b)
      BY DEF Address!PairsArePromoted, Address!Promotes, Address!Defaults, AddressPromoting
    <2>1. CASE AddressPromoting(j, a) \/ AddressPromoting(j, b)
      BY <1>2, <2>1
    <2>2. CASE ~AddressPromoting(j, a) /\ ~AddressPromoting(j, b)
      <3>1. /\ x1[a] = "default" /\ a \notin x2 /\ ~AddressPromoting(job[w], a)
            /\ x1[b] = "default" /\ b \notin x2 /\ ~AddressPromoting(job[w], b)
        BY <2>2
      <3>2. PICK o \in Workers : AddressPromoting(job[o], a) \/ AddressPromoting(job[o], b)
        BY <3>1 DEF Address!Inv, Address!PairsArePromoted, Address!Defaults,
             Address!Promotes, AddressPromoting
      <3>3. o # w
        BY <3>1, <3>2
      <3> QED
        BY <1>2, <3>2, <3>3
    <2> QED
      BY <2>1, <2>2
  <1> QED
    BY <1>3, <1>5, <1>6 DEF Address!Inv

\* Nothing is stored, and the promotion the slot had is kept or its address loose.
LEMMA AddressControl ==
    ASSUME Address!Inv, NEW w \in Workers, NEW j \in AddressJobs,
           job' = [job EXCEPT ![w] = j], x1' = x1, x2 \subseteq x2', x2' \subseteq Triple,
           AddressFits(j, x1),
           \A a \in Triple : x1[a] = "default" /\ AddressPromoting(job[w], a) =>
               a \in x2' \/ AddressPromoting(j, a)
    PROVE  Address!Inv'
  <1>1. x1' \in [Triple -> AddressValues]
    BY AddressParts
  <1>2. \A a \in Triple : x1'[a] = "default" /\ a \notin x2' =>
           \/ AddressPromoting(j, a)
           \/ x1[a] = "default" /\ a \notin x2 /\ ~AddressPromoting(job[w], a)
    OBVIOUS
  <1> QED
    BY <1>1, <1>2, AddressStep

\* An address is stored by a slot that promotes nothing; if it is a default, its
\* promotion follows or it is loose.
LEMMA AddressStored ==
    ASSUME Address!Inv, NEW w \in Workers, job[w].pc \in {"idle", "update"},
           NEW a \in Triple, NEW flag \in Address!Flags, x1[a] # Address!Gone,
           Address!Stored(w, a, flag)
    PROVE  Address!Inv'
  <1>1. x1 \in [Triple -> AddressValues] /\ x2 \subseteq Triple
    BY AddressParts
  <1>2. x1' = [x1 EXCEPT ![a] = flag]
    BY DEF Address!Stored
  <1>3. \A b \in Triple : x1'[b] = IF b = a THEN flag ELSE x1[b]
    BY <1>1, <1>2
  <1>4. x1' \in [Triple -> AddressValues]
    BY <1>1, <1>2 DEF AddressValues
  <1>5. flag # Address!None /\ flag # Address!Gone
    BY DEF Address!Flags, Address!None, Address!Gone
  <1>6. \A b \in Triple :
           /\ x1[b] # Address!None => x1'[b] # Address!None
           /\ x1[b] = Address!Gone => x1'[b] = Address!Gone
           /\ x1[b] \in Address!Flags => x1'[b] \in Address!Flags \/ ~Address!Locked(b)
    BY <1>3, <1>5
  <1>7. \A b : ~AddressPromoting(job[w], b)
    BY DEF AddressPromoting
  <1>8. CASE flag = "default" /\ Address!Goto(w, "promote", a, flag) /\ x2' = x2 \ {a}
    <2> DEFINE j == [pc |-> "promote", id |-> a, flag |-> flag, seen |-> {}]
    <2>1. job' = [job EXCEPT ![w] = j]
      BY <1>8 DEF Address!Goto
    <2>2. j \in AddressJobs /\ AddressPromoting(j, a)
      BY <1>8 DEF AddressJobs, AddressPcs, AddressPromoting
    <2>3. AddressFits(j, x1')
      BY <1>3, <1>5 DEF AddressFits
    <2> HIDE DEF j
    <2>4. \A b \in Triple : x1'[b] = "default" /\ b \notin x2' =>
            \/ AddressPromoting(j, b)
            \/ x1[b] = "default" /\ b \notin x2 /\ ~AddressPromoting(job[w], b)
      BY <1>3, <1>7, <1>8, <2>2
    <2>5. x2' \subseteq Triple
      BY <1>1, <1>8
    <2> QED
      BY <1>4, <1>6, <2>1, <2>2, <2>3, <2>4, <2>5, AddressStep
  <1>9. CASE /\ Address!Done(w)
             /\ \/ flag = "plain" /\ x2' = x2 \ {a}
                \/ flag = "default" /\ x2' = x2 \cup {a}
    <2>1. job' = [job EXCEPT ![w] = Address!Free]
      BY <1>9 DEF Address!Done
    <2>2. \A b \in Triple : x1'[b] = "default" /\ b \notin x2' =>
             x1[b] = "default" /\ b \notin x2 /\ ~AddressPromoting(job[w], b)
      BY <1>3, <1>7, <1>9
    <2>3. x2' \subseteq Triple
      BY <1>1, <1>9
    <2> QED
      BY <1>4, <1>6, <2>1, <2>2, <2>3, AddressFree, AddressStep
  <1> QED
    BY <1>8, <1>9 DEF Address!Stored

\* What each request of UserHandler does first.
LEMMA AddressAsked ==
    ASSUME Address!Inv, NEW w \in Workers, Address!UserHandler(w)
    PROVE  Address!Inv'
  <1>1. x1 \in [Triple -> AddressValues] /\ job \in [Workers -> AddressJobs]
        /\ x2 \subseteq Triple
    BY AddressParts
  <1>2. ASSUME NEW a \in Triple, NEW flag \in Address!Flags,
               Address!CreateAddress(w, a, flag)
        PROVE  Address!Inv'
    <2>1. /\ job[w].pc \in {"idle", "update"} /\ x1[a] = Address!None
          /\ Address!Stored(w, a, flag)
      BY <1>2, AddressFree DEF Address!CreateAddress, Address!Insert
    <2>2. x1[a] # Address!Gone
      BY <2>1 DEF Address!None, Address!Gone
    <2> QED
      BY <2>1, <2>2, AddressStored
  <1>3. ASSUME NEW a \in Triple, NEW asked \in Address!Flags \cup {Address!None},
               Address!UpdateAddress(w, a, asked)
        PROVE  Address!Inv'
    <2> DEFINE f == IF asked = Address!None THEN x1[a] ELSE asked
               j == [pc |-> "update", id |-> a, flag |-> f, seen |-> {}]
    <2>1. /\ job[w] = Address!Free /\ job' = [job EXCEPT ![w] = j]
          /\ x1' = x1 /\ x2' = x2 /\ x1[a] \in Address!Flags
      BY <1>3 DEF Address!UpdateAddress, Address!Goto, Address!GetAddressByID, Address!Rows
    <2>2. f \in Address!Flags
      BY <2>1
    <2> HIDE DEF f
    <2>3. j \in AddressJobs /\ AddressFits(j, x1)
      BY <2>2 DEF AddressJobs, AddressPcs, AddressFits
    <2> HIDE DEF j
    <2>4. \A b : ~AddressPromoting(job[w], b)
      BY <2>1, AddressFree DEF AddressPromoting
    <2> QED
      BY <1>1, <2>1, <2>3, <2>4, AddressControl
  <1>4. ASSUME NEW a \in Triple, Address!DeleteAddress(w, a)
        PROVE  Address!Inv'
    <2>1. /\ job[w] = Address!Free /\ job' = job /\ x2' = x2 \ {a}
          /\ x1' = [x1 EXCEPT ![a] = Address!Gone] /\ ~Address!Locked(a)
      BY <1>4 DEF Address!DeleteAddress, Address!Delete
    <2>2. job' = [job EXCEPT ![w] = Address!Free]
      BY <1>1, <2>1
    <2>3. \A b : ~AddressPromoting(job[w], b)
      BY <2>1, AddressFree DEF AddressPromoting
    <2>4. \A b \in Triple : x1'[b] = IF b = a THEN Address!Gone ELSE x1[b]
      BY <1>1, <2>1
    <2>5. /\ x1' \in [Triple -> AddressValues]
          /\ \A b \in Triple : /\ x1[b] # Address!None => x1'[b] # Address!None
                               /\ x1[b] = Address!Gone => x1'[b] = Address!Gone
                               /\ x1[b] \in Address!Flags =>
                                     x1'[b] \in Address!Flags \/ ~Address!Locked(b)
      BY <1>1, <2>1, <2>4 DEF AddressValues, Address!None, Address!Gone
    <2>6. \A b \in Triple : x1'[b] = "default" /\ b \notin x2' =>
             x1[b] = "default" /\ b \notin x2 /\ ~AddressPromoting(job[w], b)
      BY <2>1, <2>3, <2>4 DEF Address!Gone
    <2>7. x2' \subseteq Triple
      BY <1>1, <2>1
    <2> QED
      BY <2>2, <2>5, <2>6, <2>7, AddressFree, AddressStep
  <1>5. ASSUME NEW a \in Triple, Address!SetDefaultAddress(w, a)
        PROVE  Address!Inv'
    <2> DEFINE j == [pc |-> "promote", id |-> a, flag |-> "plain", seen |-> {}]
    <2>1. /\ job[w] = Address!Free /\ job' = [job EXCEPT ![w] = j]
          /\ x1' = x1 /\ x2' = x2 /\ x1[a] \in Address!Flags
      BY <1>5 DEF Address!SetDefaultAddress, Address!Goto, Address!GetAddressByID,
           Address!Rows
    <2>2. j \in AddressJobs /\ AddressFits(j, x1)
      BY <2>1 DEF AddressJobs, AddressPcs, AddressFits, Address!Flags, Address!None
    <2> HIDE DEF j
    <2>3. \A b : ~AddressPromoting(job[w], b)
      BY <2>1, AddressFree DEF AddressPromoting
    <2> QED
      BY <1>1, <2>1, <2>2, <2>3, AddressControl
  <1> QED
    BY <1>2, <1>3, <1>4, <1>5 DEF Address!UserHandler

\* The clearing UPDATE gives up no promotion; its snapshot has the row, or that
\* was deleted before.
LEMMA AddressClearing ==
    ASSUME Address!Inv, NEW w \in Workers,
           Address!BeginClearing(w) \/ Address!ClearDefaults(w)
    PROVE  Address!Inv'
  <1>1. /\ x1 \in [Triple -> AddressValues] /\ job \in [Workers -> AddressJobs]
        /\ x2 \subseteq Triple /\ AddressFits(job[w], x1)
    BY AddressParts
  <1>2. /\ job[w] \in AddressJobs /\ job[w].pc \in {"promote", "clear"}
        /\ x1' = x1 /\ x2' = x2
    BY <1>1 DEF Address!BeginClearing, Address!ClearDefaults
  <1>3. job[w].id \in Triple /\ x1[job[w].id] # Address!None
    BY <1>1, <1>2 DEF AddressFits
  <1>4. job[w].id \in Address!Rows \/ x1[job[w].id] = Address!Gone
    BY <1>1, <1>3 DEF Address!Rows, AddressValues
  <1>5. Address!Rows \subseteq Triple
    BY DEF Address!Rows
  <1>6. ASSUME NEW pc \in {"clear", "set"}, NEW seen \in SUBSET Triple,
               job' = [job EXCEPT ![w] = [job[w] EXCEPT !.pc = pc, !.seen = seen]],
               job[w].id \in seen \/ x1[job[w].id] = Address!Gone,
               pc = "set" => seen \subseteq Address!Rows
        PROVE  Address!Inv'
    <2> DEFINE j == [job[w] EXCEPT !.pc = pc, !.seen = seen]
    <2>1. /\ j.pc = pc /\ j.seen = seen /\ j.id = job[w].id /\ j.flag = job[w].flag
          /\ j \in AddressJobs
      BY <1>2 DEF AddressJobs, AddressPcs
    <2>2. job' = [job EXCEPT ![w] = j]
      BY <1>6
    <2> HIDE DEF j
    <2>3. AddressFits(j, x1)
      BY <1>1, <1>2, <1>3, <1>6, <2>1 DEF AddressFits, Address!Rows
    <2>4. \A a : AddressPromoting(job[w], a) => AddressPromoting(j, a)
      BY <2>1 DEF AddressPromoting
    <2> QED
      BY <1>1, <1>2, <2>1, <2>2, <2>3, <2>4, AddressControl
  <1>7. CASE Address!BeginClearing(w)
    <2>1. job' = [job EXCEPT ![w].pc = "clear", ![w].seen = Address!Rows]
      BY <1>7 DEF Address!BeginClearing
    <2>2. job' = [job EXCEPT ![w] = [job[w] EXCEPT !.pc = "clear", !.seen = Address!Rows]]
      BY <1>1, <1>2, <2>1 DEF AddressJobs
    <2> QED
      BY <1>4, <1>5, <1>6, <2>2
  <1>8. CASE Address!ClearDefaults(w)
    <2> DEFINE s == job[w].seen \cap Address!Rows
    <2>1. job[w].pc = "clear" /\ job' = [job EXCEPT ![w].pc = "set", ![w].seen = s]
      BY <1>1, <1>8 DEF Address!ClearDefaults
    <2>2. job' = [job EXCEPT ![w] = [job[w] EXCEPT !.pc = "set", !.seen = s]]
      BY <1>1, <1>2, <2>1 DEF AddressJobs
    <2>3. job[w].id \in s \/ x1[job[w].id] = Address!Gone
      BY <1>1, <1>4, <2>1 DEF AddressFits
    <2>4. s \in SUBSET Triple /\ s \subseteq Address!Rows
      BY <1>5
    <2> HIDE DEF s
    <2> QED
      BY <1>6, <2>2, <2>3, <2>4
  <1> QED
    BY <1>7, <1>8

\* The commit leaves one default and the ones it did not see, which are loose; a
\* row that is gone leaves all as it was.
LEMMA AddressPromoted ==
    ASSUME Address!Inv, NEW w \in Workers, Address!SetAndCommit(w)
    PROVE  Address!Inv'
  <1> DEFINE i == job[w].id
             s == job[w].seen
  <1>1. /\ x1 \in [Triple -> AddressValues] /\ job \in [Workers -> AddressJobs]
        /\ x2 \subseteq Triple /\ AddressFits(job[w], x1)
    BY AddressParts
  <1>2. job[w].pc = "set" /\ job' = [job EXCEPT ![w] = Address!Free]
    BY DEF Address!SetAndCommit, Address!Done
  <1>3. /\ i \in Triple /\ s \subseteq Triple /\ x1[i] # Address!None
        /\ i \in s \/ x1[i] = Address!Gone
    <2>1. job[w] \in AddressJobs
      BY <1>1
    <2> QED
      BY <1>1, <1>2, <2>1 DEF AddressFits, AddressJobs
  <1>4. \A v : AddressFits(Address!Free, v)
    BY AddressFree
  <1>5. CASE i \notin s
    <2>1. x1' = x1 /\ x2' = x2
      BY <1>5 DEF Address!SetAndCommit
    <2>2. \A a \in Triple : x1[a] = "default" => ~AddressPromoting(job[w], a)
      BY <1>3, <1>5 DEF AddressPromoting, Address!Gone
    <2> QED
      BY <1>1, <1>2, <1>4, <2>1, <2>2, AddressFree, AddressControl
  <1>6. CASE i \in s
    <2>1. /\ x1' = [b \in Triple |-> IF b = i THEN "default"
                                 ELSE IF b \in s THEN "plain" ELSE x1[b]]
          /\ x2' = Address!Defaults \ s
      BY <1>6 DEF Address!SetAndCommit, Address!SetDefault
    <2>2. \A b \in s : x1[b] \in Address!Flags
      BY <1>1, <1>2 DEF AddressFits
    <2>3. \A b \in Triple : x1'[b] = IF b = i THEN "default"
                                   ELSE IF b \in s THEN "plain" ELSE x1[b]
      BY <2>1
    <2>4. {"default", "plain"} = Address!Flags
      BY DEF Address!Flags
    <2>5. x1' \in [Triple -> AddressValues]
      BY <1>1, <2>1, <2>4 DEF AddressValues
    <2>6. Address!None \notin Address!Flags /\ Address!Gone \notin Address!Flags
      BY DEF Address!Flags, Address!None, Address!Gone
    <2>7. \A b \in Triple :
             /\ x1[b] # Address!None => x1'[b] # Address!None
             /\ x1[b] = Address!Gone => x1'[b] = Address!Gone
             /\ x1[b] \in Address!Flags => x1'[b] \in Address!Flags \/ ~Address!Locked(b)
      BY <1>6, <2>2, <2>3, <2>4, <2>6
    <2>8. \A b \in Triple : x1'[b] = "default" /\ b \notin x2' => b = i
      BY <2>1, <2>3 DEF Address!Defaults
    <2>9. x2' \subseteq Triple
      BY <2>1 DEF Address!Defaults
    <2> HIDE DEF i, s
    <2> QED
      BY <1>2, <1>4, <2>5, <2>7, <2>8, <2>9, AddressFree, AddressStep
  <1> QED
    BY <1>5, <1>6

\* Every step of the address module keeps its invariant.
LEMMA AddressNext == Address!Inv /\ [Address!Next]_(Address!vars) => Address!Inv'
  <1> SUFFICES ASSUME Address!Inv, [Address!Next]_(Address!vars) PROVE Address!Inv'
    OBVIOUS
  <1>1. ASSUME NEW w \in Workers, Address!WriteAddress(w)
        PROVE  Address!Inv'
    <2>1. job[w].pc = "update"
      BY <1>1 DEF Address!WriteAddress
    <2>2. /\ job[w].id \in Triple /\ job[w].flag \in Address!Flags
          /\ x2 \subseteq Triple
      BY <2>1, AddressParts DEF AddressFits
    <2>3. CASE Address!Update(w, job[w].id, job[w].flag)
      <3>1. /\ x1[job[w].id] \in Address!Flags
            /\ Address!Stored(w, job[w].id, job[w].flag)
        BY <2>3 DEF Address!Update, Address!Rows
      <3>2. x1[job[w].id] # Address!Gone
        BY <3>1 DEF Address!Flags, Address!Gone
      <3> QED
        BY <2>1, <2>2, <3>1, <3>2, AddressStored
    <2>4. CASE job' = [job EXCEPT ![w] = Address!Free] /\ x1' = x1 /\ x2' = x2
      <3>1. \A a \in Triple : ~AddressPromoting(job[w], a)
        BY <2>1 DEF AddressPromoting
      <3>2. AddressFits(Address!Free, x1)
        BY AddressFree
      <3> QED
        BY <2>2, <2>4, <3>1, <3>2, AddressFree, AddressControl
    <2> QED
      BY <1>1, <2>3, <2>4 DEF Address!WriteAddress, Address!Done
  <1>2. ASSUME NEW w \in Workers, Address!Fail(w)
        PROVE  Address!Inv'
    <2>1. /\ job' = [job EXCEPT ![w] = Address!Free] /\ x1' = x1
          /\ x2' = x2 \cup {a \in Address!Defaults : Address!Promotes(w, a)}
      BY <1>2 DEF Address!Fail, Address!Done
    <2>2. x2 \subseteq x2' /\ x2' \subseteq Triple
      BY <2>1, AddressParts DEF Address!Defaults
    <2>3. \A a \in Triple : x1[a] = "default" /\ AddressPromoting(job[w], a) => a \in x2'
      BY <2>1 DEF Address!Promotes, AddressPromoting, Address!Defaults
    <2>4. AddressFits(Address!Free, x1)
      BY AddressFree
    <2> QED
      BY <2>1, <2>2, <2>3, <2>4, AddressFree, AddressControl
  <1>3. CASE UNCHANGED Address!vars
    BY <1>3 DEF Address!vars, Address!Inv, Address!TypeOK, Address!JobsAreComplete,
         Address!PromotedRowsWereSeen, Address!LockedRowsStay, Address!PairsArePromoted,
         Address!Promotes, Address!Rows, Address!Defaults
  <1> QED
    BY <1>1, <1>2, <1>3, AddressAsked, AddressClearing, AddressPromoted DEF Address!Next

\* The address module's invariant always holds.
THEOREM AddressSafe == Spec => [](component = "addresses" => Address!Inv)
  <1> DEFINE IInv == component = "addresses" => Address!Inv
  <1>1. Init => IInv
    BY AddressInit DEF Init
  <1>2. IInv /\ [Next]_vars => IInv'
    <2> SUFFICES ASSUME IInv, [Next]_vars, component' = "addresses"
                 PROVE  Address!Inv'
      OBVIOUS
    <2>1. component = "addresses" /\ [Address!Next]_(Address!vars)
      BY DEF Next, vars, Address!vars
    <2> QED
      BY <2>1, AddressNext
  <1> QED
    BY <1>1, <1>2, PTL DEF Spec

\* However creations, updates from a stale row, deletions and promotions overlap,
\* two default addresses are left only by a promotion under way, by one that
\* failed, or by one whose clearing UPDATE was older than the other address.
THEOREM DefaultsArePromoted == Spec => []OneDefaultAddress
  <1> DEFINE IInv == component = "addresses" => Address!Inv
             D == Address!Defaults \ x2
  <1>1. IInv => OneDefaultAddress
    <2> SUFFICES ASSUME IInv, component = "addresses", Cardinality(D) > 1
                 PROVE  \E w \in Workers : job[w].pc \in {"promote", "clear", "set"}
      BY AddressCardinality DEF OneDefaultAddress, Address!OneDefaultAddress
    <2>1. PICK a \in D : TRUE
      <3>1. D # {}
        BY FS_EmptySet
      <3> QED
        BY <3>1
    <2>2. PICK b \in D : b # a
      <3>1. Cardinality({a}) = 1
        BY FS_Singleton
      <3>2. D # {a}
        BY <3>1
      <3> QED
        BY <2>1, <3>2
    <2>3. \E w \in Workers : Address!Promotes(w, a) \/ Address!Promotes(w, b)
      BY <2>1, <2>2 DEF Address!Inv, Address!PairsArePromoted
    <2> QED
      BY <2>3 DEF Address!Promotes
  <1> QED
    BY <1>1, AddressSafe, PTL

-----------------------------------------------------------------------------
(* Discounts *)

\* Cardinality means in Promotions what it means here.
LEMMA PromotionCardinality == \A S : Promotion!Cardinality(S) = Cardinality(S)
  BY DEF Promotion!Cardinality, Cardinality

PromotionJobs ==
    [pc : {"idle", "count", "record"}, order : Pair \cup {Promotion!None},
     row : Promotion!Rows \cup {Promotion!NoRow}, loose : BOOLEAN, raced : BOOLEAN]

\* The row that stands for none is none that a request could leave.
LEMMA PromotionNoRow == Promotion!NoRow \notin Promotion!Rows
  BY DEF Promotion!NoRow, Promotion!Rows

\* A free slot holds no copy.
LEMMA PromotionFree ==
    Promotion!Free \in PromotionJobs /\ Promotion!Free.pc = "idle" /\ ~Promotion!Free.raced
  BY DEF PromotionJobs, Promotion!Free

\* An edit of columns leaves a row.
LEMMA PromotionPatched ==
    ASSUME NEW row \in Promotion!Rows, NEW p \in Promotion!Patches
    PROVE  /\ Promotion!patched(row, p) \in Promotion!Rows
           /\ Promotion!patched(row, p).kind = IF "kind" \in DOMAIN p THEN p.kind ELSE row.kind
           /\ Promotion!patched(row, p).value =
                IF "value" \in DOMAIN p THEN p.value ELSE row.value
  <1> DEFINE r == Promotion!patched(row, p)
  <1>1. DOMAIN row = {"kind", "value", "max", "active", "window"}
    BY DEF Promotion!Rows
  <1>2. r = [c \in {"kind", "value", "max", "active", "window"} |->
                IF c \in DOMAIN p THEN p[c] ELSE row[c]]
    BY <1>1 DEF Promotion!patched
  <1>3. /\ "kind" \in DOMAIN p => p.kind \in Promotion!Types
        /\ "value" \in DOMAIN p => p.value \in Amounts
        /\ "max" \in DOMAIN p => p.max \in Promotion!Limits
        /\ "active" \in DOMAIN p => p.active \in BOOLEAN
        /\ "window" \in DOMAIN p => p.window \in Promotion!Windows
    BY DEF Promotion!Patches
  <1>4. r = [kind |-> r.kind, value |-> r.value, max |-> r.max, active |-> r.active,
             window |-> r.window]
    BY <1>2
  <1>5. /\ r.kind \in Promotion!Types /\ r.value \in Amounts /\ r.max \in Promotion!Limits
        /\ r.active \in BOOLEAN /\ r.window \in Promotion!Windows
    BY <1>2, <1>3 DEF Promotion!Rows
  <1>6. r \in Promotion!Rows
    BY <1>4, <1>5 DEF Promotion!Rows
  <1> QED
    BY <1>2, <1>6

\* A percentage of an amount, and a value capped by it, are within the amount.
LEMMA PromotionWithin ==
    ASSUME NEW row \in Promotion!Rows, Promotion!Sound(row)
    PROVE  Promotion!calculateDiscount(row, OrderAmount) <= OrderAmount
  <1>1. row.value \in Nat /\ OrderAmount \in Nat
    BY ServicesAssumption DEF Promotion!Rows
  <1>2. CASE row.kind = "percentage"
    <2>1. row.value <= 100
      BY <1>2 DEF Promotion!Sound
    <2>2. OrderAmount * row.value <= OrderAmount * 100 /\ OrderAmount * row.value \in Nat
      BY <1>1, <2>1
    <2>3. (OrderAmount * row.value) \div 100 <= OrderAmount
      BY <1>1, <2>2
    <2> QED
      BY <1>2, <2>3 DEF Promotion!calculateDiscount
  <1>3. CASE row.kind # "percentage"
    BY <1>1, <1>3 DEF Promotion!calculateDiscount
  <1> QED
    BY <1>2, <1>3

\* There is no discount yet.
LEMMA PromotionInit == Promotion!Init => Promotion!Inv
  <1> SUFFICES ASSUME Promotion!Init PROVE Promotion!Inv
    OBVIOUS
  <1>1. \A w \in Workers : job[w].pc = "idle"
    BY PromotionFree DEF Promotion!Init
  <1>2. Promotion!TypeOK
    BY PromotionFree DEF Promotion!Init, Promotion!TypeOK, PromotionJobs
  <1>3. Promotion!KnowsTheLimit
    BY <1>1 DEF Promotion!KnowsTheLimit
  <1> QED
    BY <1>1, <1>2, <1>3
       DEF Promotion!Init, Promotion!Inv, Promotion!RowIsSound, Promotion!CopiesAreSound,
           Promotion!BeyondLimitOnlyRaced, Promotion!Redemptions

\* Overtaking changes what a redemption knows and nothing else.
LEMMA PromotionOvertake ==
    ASSUME NEW f \in [Workers -> PromotionJobs], NEW pcs
    PROVE  /\ Promotion!Overtake(pcs, f) \in [Workers -> PromotionJobs]
           /\ \A w \in Workers :
                /\ Promotion!Overtake(pcs, f)[w].pc = f[w].pc
                /\ Promotion!Overtake(pcs, f)[w].row = f[w].row
                /\ Promotion!Overtake(pcs, f)[w].loose = f[w].loose
                /\ f[w].pc \in pcs => Promotion!Overtake(pcs, f)[w].raced
                /\ f[w].pc \notin pcs => Promotion!Overtake(pcs, f)[w].raced = f[w].raced
  <1> DEFINE g == Promotion!Overtake(pcs, f)
  <1>1. g = [w \in Workers |->
               IF f[w].pc \in pcs THEN [f[w] EXCEPT !.raced = TRUE] ELSE f[w]]
    BY DEF Promotion!Overtake
  <1>2. ASSUME NEW w \in Workers
        PROVE  /\ g[w] \in PromotionJobs /\ g[w].pc = f[w].pc /\ g[w].row = f[w].row
               /\ g[w].loose = f[w].loose
               /\ f[w].pc \in pcs => g[w].raced
               /\ f[w].pc \notin pcs => g[w].raced = f[w].raced
    <2>1. f[w] \in PromotionJobs
      OBVIOUS
    <2>2. CASE f[w].pc \in pcs
      <3>1. g[w] = [f[w] EXCEPT !.raced = TRUE]
        BY <1>1, <2>2
      <3> QED
        BY <2>1, <2>2, <3>1 DEF PromotionJobs
    <2>3. CASE f[w].pc \notin pcs
      BY <1>1, <2>1, <2>3
    <2> QED
      BY <2>2, <2>3
  <1>3. g \in [Workers -> PromotionJobs]
    BY <1>1, <1>2
  <1> QED
    BY <1>2, <1>3

\* A step of one redemption that leaves the tables alone.
LEMMA PromotionGoto ==
    ASSUME Promotion!Inv, NEW w \in Workers, NEW j \in PromotionJobs,
           job' = [job EXCEPT ![w] = j], x1' = x1, x2' = x2, x3' = x3, x4' = x4,
           j.pc # "idle" =>
               x1 # Promotion!NoRow /\ j.row \in Promotion!Rows /\ (j.loose \/ Promotion!Sound(j.row)),
           ~j.raced =>
               /\ j.pc = "count" => x1.max = j.row.max
               /\ j.pc = "record" => x1.max = Promotion!NoLimit \/ Promotion!UnderLimit(x1.max)
    PROVE  Promotion!Inv'
  <1>1. job \in [Workers -> PromotionJobs] /\ job' \in [Workers -> PromotionJobs]
    BY DEF Promotion!Inv, Promotion!TypeOK, PromotionJobs
  <1>2. \A o \in Workers : job'[o] = IF o = w THEN j ELSE job[o]
    BY <1>1
  <1>3. Promotion!TypeOK'
    BY <1>1 DEF Promotion!Inv, Promotion!TypeOK, PromotionJobs
  <1>4. Promotion!RowIsSound' /\ Promotion!BeyondLimitOnlyRaced'
    BY DEF Promotion!Inv, Promotion!RowIsSound, Promotion!Sound, Promotion!BeyondLimitOnlyRaced,
         Promotion!Redemptions
  <1>5. Promotion!CopiesAreSound'
    BY <1>2 DEF Promotion!Inv, Promotion!CopiesAreSound, Promotion!Sound
  <1>6. Promotion!KnowsTheLimit'
    <2>1. Promotion!Redemptions' = Promotion!Redemptions
      BY DEF Promotion!Redemptions
    <2>2. \A max : Promotion!UnderLimit(max)' <=> Promotion!UnderLimit(max)
      BY <2>1 DEF Promotion!UnderLimit
    <2> QED
      BY <1>2, <2>1 DEF Promotion!Inv, Promotion!KnowsTheLimit, Promotion!UnderLimit
  <1> QED
    BY <1>3, <1>4, <1>5, <1>6 DEF Promotion!Inv

\* What a redemption does before it records.
LEMMA PromotionAsked ==
    ASSUME Promotion!Inv, NEW w \in Workers,
           \/ \E o \in Pair : Promotion!FindByCode(w, o)
           \/ Promotion!CountRedemptions(w)
           \/ Promotion!Fail(w)
    PROVE  Promotion!Inv'
  <1>1. /\ x1 \in Promotion!Rows \cup {Promotion!NoRow} /\ x4 \in BOOLEAN
        /\ job \in [Workers -> PromotionJobs]
    BY DEF Promotion!Inv, Promotion!TypeOK, PromotionJobs
  <1>2. ASSUME NEW o \in Pair, Promotion!FindByCode(w, o)
        PROVE  Promotion!Inv'
    <2> DEFINE j == [pc |-> IF x1.max = Promotion!NoLimit THEN "record" ELSE "count",
                     order |-> o, row |-> x1, loose |-> x4, raced |-> FALSE]
    <2>1. /\ job' = [job EXCEPT ![w] = j] /\ x1 # Promotion!NoRow
          /\ x1' = x1 /\ x2' = x2 /\ x3' = x3 /\ x4' = x4
      BY <1>2 DEF Promotion!FindByCode
    <2>2. x4 \/ Promotion!Sound(x1)
      BY <2>1 DEF Promotion!Inv, Promotion!RowIsSound
    <2>3. /\ j \in PromotionJobs /\ j.row = x1 /\ j.loose = x4
          /\ j.pc = "record" => x1.max = Promotion!NoLimit
      BY <1>1, <2>1 DEF PromotionJobs
    <2> HIDE DEF j
    <2> QED
      BY <1>1, <2>1, <2>2, <2>3, PromotionGoto
  <1>3. CASE Promotion!CountRedemptions(w)
    <2>1. /\ job[w].pc = "count" /\ x1' = x1 /\ x2' = x2 /\ x3' = x3 /\ x4' = x4
      BY <1>3 DEF Promotion!CountRedemptions
    <2>2. CASE Promotion!UnderLimit(job[w].row.max)
      <3> DEFINE j == [job[w] EXCEPT !.pc = "record"]
      <3>1. job' = [job EXCEPT ![w] = j]
        BY <1>3, <2>2 DEF Promotion!CountRedemptions
      <3>2. job[w] \in PromotionJobs
        BY <1>1
      <3>3. /\ j \in PromotionJobs /\ j.pc = "record" /\ j.row = job[w].row
            /\ j.loose = job[w].loose /\ j.raced = job[w].raced
        BY <3>2 DEF PromotionJobs
      <3> HIDE DEF j
      <3>4. ~j.raced => Promotion!UnderLimit(x1.max)
        BY <2>1, <2>2, <3>3 DEF Promotion!Inv, Promotion!KnowsTheLimit
      <3>5. /\ x1 # Promotion!NoRow /\ j.row \in Promotion!Rows
            /\ j.loose \/ Promotion!Sound(j.row)
        BY <2>1, <3>3 DEF Promotion!Inv, Promotion!CopiesAreSound
      <3> QED
        BY <2>1, <3>1, <3>3, <3>4, <3>5, PromotionGoto
    <2>3. CASE ~Promotion!UnderLimit(job[w].row.max)
      <3>1. job' = [job EXCEPT ![w] = Promotion!Free]
        BY <1>3, <2>3 DEF Promotion!CountRedemptions
      <3> QED
        BY <2>1, <3>1, PromotionFree, PromotionGoto
    <2> QED
      BY <2>2, <2>3
  <1>4. CASE Promotion!Fail(w)
    BY <1>4, PromotionFree, PromotionGoto DEF Promotion!Fail
  <1> QED
    BY <1>2, <1>3, <1>4

\* A discount is created sound, and nobody redeems one that is not there.
LEMMA PromotionCreated ==
    ASSUME Promotion!Inv, NEW k \in Promotion!Types, NEW v \in Amounts,
           NEW m \in Promotion!Limits, NEW a \in BOOLEAN, NEW u \in {"future", "running"},
           NEW t \in SUBSET Promotion!TargetTypes, Promotion!CreateDiscount(k, v, m, a, u, t)
    PROVE  Promotion!Inv'
  <1> DEFINE r == Promotion!buildDiscountEntity(k, v, m, a, u)
  <1>1. /\ x1 = Promotion!NoRow /\ x1' = r /\ x2' = t
        /\ x3' = x3 /\ x4' = x4 /\ job' = job
    BY DEF Promotion!CreateDiscount, Promotion!insertDiscountGraph
  <1>2. r \in Promotion!Rows /\ Promotion!Sound(r)
    BY DEF Promotion!CreateDiscount, Promotion!ValidateCreate, Promotion!buildDiscountEntity,
         Promotion!Sound, Promotion!Rows, Promotion!Windows
  <1> HIDE DEF r
  <1>3. \A w \in Workers : job[w].pc = "idle"
    BY <1>1 DEF Promotion!Inv, Promotion!CopiesAreSound
  <1>4. Promotion!TypeOK'
    BY <1>1, <1>2 DEF Promotion!Inv, Promotion!TypeOK
  <1>5. Promotion!RowIsSound' /\ Promotion!CopiesAreSound' /\ Promotion!KnowsTheLimit'
    BY <1>1, <1>2, <1>3
       DEF Promotion!RowIsSound, Promotion!Sound, Promotion!CopiesAreSound,
           Promotion!KnowsTheLimit
  <1>6. Promotion!BeyondLimitOnlyRaced'
    BY <1>1 DEF Promotion!Inv, Promotion!BeyondLimitOnlyRaced, Promotion!Redemptions
  <1> QED
    BY <1>4, <1>5, <1>6 DEF Promotion!Inv

\* An edit may leave an unsound row only if it names the type or the value alone,
\* and it overtakes the redemptions that know the limit.
LEMMA PromotionUpdated ==
    ASSUME Promotion!Inv, NEW p \in Promotion!Patches, Promotion!UpdateDiscount(p)
    PROVE  Promotion!Inv'
  <1> DEFINE r == Promotion!patched(x1, p)
             g == Promotion!Overtake({"count", "record"}, job)
  <1>1. /\ x1 \in Promotion!Rows /\ x4 \in BOOLEAN /\ job \in [Workers -> PromotionJobs]
    BY DEF Promotion!Inv, Promotion!TypeOK, Promotion!UpdateDiscount, PromotionJobs
  <1>2. x1' = r /\ job' = g /\ x2' = x2 /\ x3' = x3
    BY DEF Promotion!UpdateDiscount, Promotion!UpdateRow
  <1>3. r \in Promotion!Rows
    BY <1>1, PromotionPatched
  <1>4. r.kind = IF "kind" \in DOMAIN p THEN p.kind ELSE x1.kind
    BY <1>1, PromotionPatched
  <1>5. r.value = IF "value" \in DOMAIN p THEN p.value ELSE x1.value
    BY <1>1, PromotionPatched
  <1> HIDE DEF r
  <1>6. x4' \in BOOLEAN /\ (x4' \/ Promotion!Sound(r))
    <2>1. CASE {"kind", "value"} \subseteq DOMAIN p
      <3>1. x4' = FALSE
        BY <2>1 DEF Promotion!UpdateDiscount
      <3>2. r.kind = p.kind /\ r.value = p.value
        BY <1>4, <1>5, <2>1
      <3> QED
        BY <2>1, <3>1, <3>2
           DEF Promotion!UpdateDiscount, Promotion!ValidateUpdate, Promotion!Sound
    <2>2. CASE {"kind", "value"} \cap DOMAIN p = {}
      <3>1. "kind" \notin DOMAIN p /\ "value" \notin DOMAIN p
        BY <2>2
      <3>2. x4' = x4
        BY <2>2, <3>1 DEF Promotion!UpdateDiscount
      <3>3. r.kind = x1.kind /\ r.value = x1.value
        BY <1>4, <1>5, <3>1
      <3> QED
        BY <1>1, <3>2, <3>3, PromotionNoRow
           DEF Promotion!Inv, Promotion!RowIsSound, Promotion!Sound
    <2>3. CASE /\ ~({"kind", "value"} \subseteq DOMAIN p)
               /\ {"kind", "value"} \cap DOMAIN p # {}
      BY <2>3 DEF Promotion!UpdateDiscount
    <2> QED
      BY <2>1, <2>2, <2>3
  <1>7. /\ g \in [Workers -> PromotionJobs]
        /\ \A w \in Workers : /\ g[w].pc = job[w].pc /\ g[w].row = job[w].row
                              /\ g[w].loose = job[w].loose
                              /\ g[w].pc \in {"count", "record"} => g[w].raced
    BY <1>1, PromotionOvertake
  <1> HIDE DEF g
  <1>8. Promotion!TypeOK'
    BY <1>2, <1>3, <1>6, <1>7 DEF Promotion!Inv, Promotion!TypeOK, PromotionJobs
  <1>9. Promotion!RowIsSound'
    BY <1>2, <1>6 DEF Promotion!RowIsSound, Promotion!Sound
  <1>10. Promotion!CopiesAreSound'
    BY <1>2, <1>3, <1>7, PromotionNoRow
       DEF Promotion!Inv, Promotion!CopiesAreSound, Promotion!Sound
  <1>11. Promotion!KnowsTheLimit'
    BY <1>2, <1>7 DEF Promotion!KnowsTheLimit
  <1>12. Promotion!BeyondLimitOnlyRaced'
    BY <1>2 DEF Promotion!Inv, Promotion!BeyondLimitOnlyRaced, Promotion!Redemptions
  <1> QED
    BY <1>8, <1>9, <1>10, <1>11, <1>12 DEF Promotion!Inv

\* Dates pass; type, value and limit stay.
LEMMA PromotionTimePassed ==
    ASSUME Promotion!Inv, Promotion!PassTime
    PROVE  Promotion!Inv'
  <1>1. x1 \in Promotion!Rows
    BY DEF Promotion!Inv, Promotion!TypeOK, Promotion!PassTime
  <1>2. PICK u \in Promotion!Windows : x1' = [x1 EXCEPT !.window = u]
    BY DEF Promotion!PassTime, Promotion!Windows
  <1>3. /\ x1' \in Promotion!Rows /\ x1'.kind = x1.kind /\ x1'.value = x1.value
        /\ x1'.max = x1.max
    BY <1>1, <1>2 DEF Promotion!Rows
  <1>4. x2' = x2 /\ x3' = x3 /\ x4' = x4 /\ job' = job
    BY DEF Promotion!PassTime
  <1>5. Promotion!TypeOK'
    BY <1>3, <1>4 DEF Promotion!Inv, Promotion!TypeOK
  <1>6. Promotion!RowIsSound'
    BY <1>1, <1>3, <1>4, PromotionNoRow DEF Promotion!Inv, Promotion!RowIsSound, Promotion!Sound
  <1>7. Promotion!CopiesAreSound'
    BY <1>3, <1>4, PromotionNoRow DEF Promotion!Inv, Promotion!CopiesAreSound, Promotion!Sound
  <1>8. Promotion!KnowsTheLimit'
    BY <1>3, <1>4
       DEF Promotion!Inv, Promotion!KnowsTheLimit, Promotion!UnderLimit, Promotion!Redemptions
  <1>9. Promotion!BeyondLimitOnlyRaced'
    BY <1>4 DEF Promotion!Inv, Promotion!BeyondLimitOnlyRaced, Promotion!Redemptions
  <1> QED
    BY <1>5, <1>6, <1>7, <1>8, <1>9 DEF Promotion!Inv

\* A redemption that was not overtaken since it counted is within the limit, and
\* it overtakes those that have counted.
LEMMA PromotionRecorded ==
    ASSUME Promotion!Inv, NEW w \in Workers, Promotion!RecordRedemption(w)
    PROVE  Promotion!Inv'
  <1> DEFINE j == job[w]
             f == [job EXCEPT ![w] = Promotion!Free]
             g == Promotion!Overtake({"record"}, f)
             over == x1.max # Promotion!NoLimit
                     /\ Promotion!Cardinality(Promotion!Redemptions) >= x1.max
             kind == IF ~over THEN "within" ELSE IF j.raced THEN "raced" ELSE "beyond"
  <1>1. /\ x1' = x1 /\ x2' = x2 /\ x4' = x4 /\ job' = g /\ j.pc = "record"
        /\ x3' = IF j.order \in Promotion!Redemptions THEN x3
                 ELSE [x3 EXCEPT ![j.order] = kind]
    BY DEF Promotion!RecordRedemption
  <1>2. /\ f \in [Workers -> PromotionJobs] /\ x1 \in Promotion!Rows \cup {Promotion!NoRow}
        /\ x3 \in [Pair -> {Promotion!None, "within", "raced", "beyond"}]
        /\ \A o \in Workers : f[o] = IF o = w THEN Promotion!Free ELSE job[o]
    BY PromotionFree DEF Promotion!Inv, Promotion!TypeOK, PromotionJobs
  <1>3. x1 \in Promotion!Rows
    BY <1>1, <1>2 DEF Promotion!Inv, Promotion!CopiesAreSound
  <1> HIDE DEF f
  <1>4. /\ g \in [Workers -> PromotionJobs]
        /\ \A o \in Workers :
             /\ g[o].pc = f[o].pc /\ g[o].row = f[o].row /\ g[o].loose = f[o].loose
             /\ f[o].pc = "record" => g[o].raced
             /\ f[o].pc # "record" => g[o].raced = f[o].raced
    BY <1>2, PromotionOvertake
  <1> HIDE DEF g
  <1>5. kind # "beyond"
    <2> SUFFICES ASSUME ~j.raced, x1.max # Promotion!NoLimit
                 PROVE  ~(Promotion!Cardinality(Promotion!Redemptions) >= x1.max)
      OBVIOUS
    <2>1. Promotion!Cardinality(Promotion!Redemptions) < x1.max
      BY <1>1 DEF Promotion!Inv, Promotion!KnowsTheLimit, Promotion!UnderLimit
    <2>2. Cardinality(Promotion!Redemptions) \in Nat
      BY FS_Subset, FS_CardinalityType, ServicesAssumption DEF Promotion!Redemptions
    <2>3. x1.max \in Nat
      BY <1>3 DEF Promotion!Rows, Promotion!Limits, Promotion!NoLimit
    <2> QED
      BY <2>1, <2>2, <2>3, PromotionCardinality
  <1>6. kind \in {Promotion!None, "within", "raced", "beyond"}
    OBVIOUS
  <1> HIDE DEF kind
  <1>7. Promotion!TypeOK'
    BY <1>1, <1>2, <1>4, <1>6 DEF Promotion!Inv, Promotion!TypeOK, PromotionJobs
  <1>8. Promotion!RowIsSound'
    BY <1>1 DEF Promotion!Inv, Promotion!RowIsSound, Promotion!Sound
  <1>9. Promotion!CopiesAreSound'
    BY <1>1, <1>2, <1>4, PromotionFree
       DEF Promotion!Inv, Promotion!CopiesAreSound, Promotion!Sound
  <1>10. Promotion!KnowsTheLimit'
    <2> SUFFICES ASSUME NEW o \in Workers, ~g[o].raced
                 PROVE  g[o].pc # "record" /\ (g[o].pc = "count" => x1.max = g[o].row.max)
      BY <1>1 DEF Promotion!KnowsTheLimit
    <2> QED
      BY <1>2, <1>4, PromotionFree DEF Promotion!Inv, Promotion!KnowsTheLimit
  <1>11. Promotion!BeyondLimitOnlyRaced'
    BY <1>1, <1>2, <1>5
       DEF Promotion!Inv, Promotion!BeyondLimitOnlyRaced, Promotion!Redemptions
  <1> QED
    BY <1>7, <1>8, <1>9, <1>10, <1>11 DEF Promotion!Inv

\* Every step of the discount module keeps its invariant.
LEMMA PromotionNext == Promotion!Inv /\ [Promotion!Next]_(Promotion!vars) => Promotion!Inv'
  <1> SUFFICES ASSUME Promotion!Inv, [Promotion!Next]_(Promotion!vars) PROVE Promotion!Inv'
    OBVIOUS
  <1>1. ASSUME NEW t \in SUBSET Promotion!TargetTypes, Promotion!SetDiscountTargets(t)
        PROVE  Promotion!Inv'
    <2>1. x1' = x1 /\ x2' = t /\ x3' = x3 /\ x4' = x4 /\ job' = job
      BY <1>1 DEF Promotion!SetDiscountTargets, Promotion!setTargetsTx
    <2>2. Promotion!TypeOK'
      BY <2>1 DEF Promotion!Inv, Promotion!TypeOK
    <2> QED
      BY <2>1, <2>2
         DEF Promotion!Inv, Promotion!RowIsSound, Promotion!Sound, Promotion!CopiesAreSound,
             Promotion!KnowsTheLimit, Promotion!UnderLimit, Promotion!BeyondLimitOnlyRaced,
             Promotion!Redemptions
  <1>2. CASE Promotion!DeleteDiscount
    <2>1. /\ x1' = Promotion!NoRow /\ x2' = {} /\ x4' = FALSE
          /\ x3' = [o \in Pair |-> Promotion!None]
          /\ job' = [w \in Workers |-> Promotion!Free]
      BY <1>2 DEF Promotion!DeleteDiscount
    <2>2. Promotion!TypeOK'
      BY <2>1, PromotionFree DEF Promotion!TypeOK, PromotionJobs
    <2>3. \A w \in Workers : job'[w].pc = "idle"
      BY <2>1, PromotionFree
    <2> QED
      BY <2>1, <2>2, <2>3
         DEF Promotion!Inv, Promotion!RowIsSound, Promotion!CopiesAreSound,
             Promotion!KnowsTheLimit, Promotion!BeyondLimitOnlyRaced, Promotion!Redemptions
  <1>3. CASE UNCHANGED Promotion!vars
    BY <1>3
       DEF Promotion!vars, Promotion!Inv, Promotion!TypeOK, Promotion!RowIsSound,
           Promotion!Sound, Promotion!CopiesAreSound, Promotion!KnowsTheLimit,
           Promotion!UnderLimit, Promotion!BeyondLimitOnlyRaced, Promotion!Redemptions
  <1> QED
    BY <1>1, <1>2, <1>3, PromotionCreated, PromotionUpdated, PromotionTimePassed,
       PromotionAsked, PromotionRecorded
       DEF Promotion!Next, Promotion!DiscountHandlers, Promotion!ValidateAndRedeem

\* The discount module's invariant always holds.
THEOREM PromotionSafe == Spec => [](component = "promotions" => Promotion!Inv)
  <1> DEFINE IInv == component = "promotions" => Promotion!Inv
  <1>1. Init => IInv
    BY PromotionInit DEF Init
  <1>2. IInv /\ [Next]_vars => IInv'
    <2> SUFFICES ASSUME IInv, [Next]_vars, component' = "promotions"
                 PROVE  Promotion!Inv'
      OBVIOUS
    <2>1. component = "promotions" /\ [Promotion!Next]_(Promotion!vars)
      BY DEF Next, vars, Promotion!vars
    <2> QED
      BY <2>1, PromotionNext
  <1> QED
    BY <1>1, <1>2, PTL DEF Spec

\* max_redemptions is passed only by redemptions that counted before another was
\* recorded or the limit was edited (ValidateAndRedeem, CountRedemptions).
THEOREM LimitsAreRaced == Spec => []BeyondLimitOnlyRaced
  <1>1. (component = "promotions" => Promotion!Inv) => BeyondLimitOnlyRaced
    BY DEF BeyondLimitOnlyRaced, Promotion!Inv
  <1> QED
    BY <1>1, PromotionSafe, PTL

\* What a redemption takes off is at most what the order is worth, whatever the
\* order and the values are, unless type and value came from different requests
\* (calculateDiscount, UpdateRequest.Validate).
THEOREM DiscountsFit == Spec => []DiscountWithinOrder
  <1>1. (component = "promotions" => Promotion!Inv) => DiscountWithinOrder
    <2> SUFFICES ASSUME Promotion!Inv, NEW w \in Workers, job[w].pc = "record", ~job[w].loose
                 PROVE  Promotion!calculateDiscount(job[w].row, OrderAmount) <= OrderAmount
      BY DEF DiscountWithinOrder, Promotion!DiscountWithinOrder
    <2>1. job[w].row \in Promotion!Rows /\ Promotion!Sound(job[w].row)
      BY DEF Promotion!Inv, Promotion!CopiesAreSound
    <2> QED
      BY <2>1, PromotionWithin
  <1> QED
    BY <1>1, PromotionSafe, PTL

-----------------------------------------------------------------------------
(* Wishlists *)

WishlistJobs ==
    [pc : {"idle", "find", "select", "fill", "create", "add", "invalidate"},
     item : Pair \cup {"none"}, copy : SUBSET Pair, raced : BOOLEAN]

\* What the list, its row and its copy may be.
WishlistTables ==
    /\ x1 \in BOOLEAN /\ x2 \subseteq Pair /\ (x2 # {} => x1)
    /\ x3 \in {Wishlist!NoCopy} \cup {Wishlist!CopyOf(list) : list \in SUBSET Pair}
    /\ x4 \in BOOLEAN /\ x5 \subseteq Pair

\* The type invariant is that of the tables and that of the requests.
LEMMA WishlistTypes ==
    Wishlist!TypeOK <=> WishlistTables /\ job \in [ThreeWorkers -> WishlistJobs]
  BY DEF Wishlist!TypeOK, WishlistTables, WishlistJobs

\* A free slot holds no copy.
LEMMA WishlistFree ==
    /\ Wishlist!Free \in WishlistJobs /\ Wishlist!Free.pc = "idle" /\ Wishlist!Free.copy = {}
  BY DEF WishlistJobs, Wishlist!Free

\* The user has no list and nobody has asked.
LEMMA WishlistInit == Wishlist!Init => Wishlist!Inv
  <1> SUFFICES ASSUME Wishlist!Init PROVE Wishlist!Inv
    OBVIOUS
  <1>1. \A w \in ThreeWorkers : job[w].pc = "idle" /\ job[w].copy = {}
    BY WishlistFree DEF Wishlist!Init
  <1>2. WishlistTables
    BY DEF Wishlist!Init, WishlistTables
  <1>3. job \in [ThreeWorkers -> WishlistJobs]
    BY WishlistFree DEF Wishlist!Init
  <1> QED
    BY <1>1, <1>2, <1>3, WishlistTypes
       DEF Wishlist!Init, Wishlist!Inv, Wishlist!ItemsExist, Wishlist!JobsFit,
           Wishlist!FillsAreFresh, Wishlist!CopyIsWishlist, Wishlist!NoCopy

\* A step of one request that changes neither the items nor, unless it makes the
\* copy right or excuses it, the copy; a slot that gives up its deletion must.
LEMMA WishlistStep ==
    ASSUME Wishlist!Inv, NEW w \in ThreeWorkers, NEW j \in WishlistJobs,
           job' = [job EXCEPT ![w] = j], x2' = x2, x5' = x5, WishlistTables', x1 => x1',
           j.pc \in {"idle", "find"} => j.copy = {},
           j.pc \in {"create", "add"} => j.item \in Pair,
           j.pc = "add" => x1',
           j.pc = "fill" => j.copy \ x5 = x2 \/ j.raced,
           \/ (\A copy \in x3' : copy \ x5 = x2) \/ x4'
           \/ x3' = x3 /\ x4' = x4 /\ job[w].pc # "invalidate"
    PROVE  Wishlist!Inv'
  <1>1. job \in [ThreeWorkers -> WishlistJobs]
    BY WishlistTypes DEF Wishlist!Inv
  <1>2. \A o \in ThreeWorkers : job'[o] = IF o = w THEN j ELSE job[o]
    BY <1>1
  <1>3. Wishlist!TypeOK'
    <2>1. job' \in [ThreeWorkers -> WishlistJobs]
      BY <1>1
    <2> QED
      BY <2>1 DEF Wishlist!TypeOK, WishlistTables, WishlistJobs
  <1>4. Wishlist!JobsFit'
    BY <1>2 DEF Wishlist!Inv, Wishlist!JobsFit
  <1>5. Wishlist!FillsAreFresh'
    BY <1>2 DEF Wishlist!Inv, Wishlist!FillsAreFresh
  <1>6. Wishlist!CopyIsWishlist'
    <2>1. CASE (\A copy \in x3' : copy \ x5 = x2) \/ x4'
      BY <2>1 DEF Wishlist!CopyIsWishlist
    <2>2. CASE x3' = x3 /\ x4' = x4 /\ job[w].pc # "invalidate"
      BY <1>2, <2>2
         DEF Wishlist!Inv, Wishlist!CopyIsWishlist, Wishlist!At
    <2> QED
      BY <2>1, <2>2
  <1> QED
    BY <1>3, <1>4, <1>5, <1>6 DEF Wishlist!Inv, Wishlist!ItemsExist

\* Being overtaken marks the readers and changes nothing else in a slot.
LEMMA WishlistOvertaken ==
    ASSUME job \in [ThreeWorkers -> WishlistJobs], NEW v \in ThreeWorkers
    PROVE  LET o == Wishlist!Overtaken[v]
           IN  /\ o \in WishlistJobs
               /\ o.pc = job[v].pc /\ o.item = job[v].item /\ o.copy = job[v].copy
               /\ o.pc = "fill" => o.raced
  <1>1. job[v] \in WishlistJobs
    OBVIOUS
  <1>2. CASE job[v].pc = "fill"
    <2>1. Wishlist!Overtaken[v] = [job[v] EXCEPT !.raced = TRUE]
      BY <1>2 DEF Wishlist!Overtaken
    <2> QED
      BY <1>1, <1>2, <2>1 DEF WishlistJobs
  <1>3. CASE job[v].pc # "fill"
    BY <1>1, <1>3 DEF Wishlist!Overtaken
  <1> QED
    BY <1>2, <1>3

\* A change of the items overtakes the readers and has the copy deleted next, or
\* loses its answer, and leaves a copy that is excused.
LEMMA WishlistChanged ==
    ASSUME Wishlist!Inv, NEW w \in ThreeWorkers, Wishlist!Changed(w),
           x2' \subseteq Pair, x2' \cap x5 = {}, x2' # {} => x1,
           x1' = x1, x3' = x3, x5' = x5
    PROVE  Wishlist!Inv'
  <1>1. job \in [ThreeWorkers -> WishlistJobs] /\ WishlistTables
    BY WishlistTypes DEF Wishlist!Inv
  <1>2. PICK j \in WishlistJobs :
            /\ job' = [Wishlist!Overtaken EXCEPT ![w] = j]
            /\ \/ j.pc = "invalidate" /\ x4' = x4
               \/ j = Wishlist!Free /\ x4' = (x3 # Wishlist!NoCopy)
    <2> DEFINE j == [Wishlist!Free EXCEPT !.pc = "invalidate"]
    <2>1. j \in WishlistJobs /\ j.pc = "invalidate"
      BY WishlistFree DEF WishlistJobs
    <2> HIDE DEF j
    <2>2. CASE job' = [Wishlist!Overtaken EXCEPT ![w] = j] /\ x4' = x4
      BY <2>1, <2>2
    <2>3. CASE /\ job' = [Wishlist!Overtaken EXCEPT ![w] = Wishlist!Free]
               /\ x4' = (x3 # Wishlist!NoCopy)
      BY <2>3, WishlistFree
    <2> QED
      BY <2>2, <2>3 DEF Wishlist!Changed, j
  <1>3. /\ job' \in [ThreeWorkers -> WishlistJobs]
        /\ \A v \in ThreeWorkers : job'[v] = IF v = w THEN j ELSE Wishlist!Overtaken[v]
    <2>1. Wishlist!Overtaken \in [ThreeWorkers -> WishlistJobs]
      <3>1. \A v \in ThreeWorkers : Wishlist!Overtaken[v] \in WishlistJobs
        BY <1>1, WishlistOvertaken
      <3> QED
        BY <3>1 DEF Wishlist!Overtaken
    <2> QED
      BY <1>2, <2>1
  <1>4. j.pc \in {"idle", "invalidate"} /\ (j.pc = "idle" => j.copy = {})
    BY <1>2, WishlistFree
  <1>5. \A v \in ThreeWorkers :
            v # w => /\ job'[v].pc = job[v].pc /\ job'[v].item = job[v].item
                     /\ job'[v].copy = job[v].copy
                     /\ job'[v].pc = "fill" => job'[v].raced
    BY <1>1, <1>3, WishlistOvertaken
  <1>6. Wishlist!TypeOK'
    <2>1. x4' \in BOOLEAN
      BY <1>1, <1>2 DEF WishlistTables
    <2> QED
      BY <1>1, <1>3, <2>1 DEF Wishlist!TypeOK, WishlistTables, WishlistJobs
  <1>7. Wishlist!ItemsExist' /\ Wishlist!JobsFit'
    BY <1>3, <1>4, <1>5 DEF Wishlist!Inv, Wishlist!ItemsExist, Wishlist!JobsFit
  <1>8. Wishlist!FillsAreFresh'
    BY <1>3, <1>4, <1>5 DEF Wishlist!FillsAreFresh
  <1>9. Wishlist!CopyIsWishlist'
    <2>1. CASE j.pc = "invalidate"
      BY <1>3, <2>1 DEF Wishlist!CopyIsWishlist, Wishlist!At
    <2>2. CASE x4' = (x3 # Wishlist!NoCopy)
      BY <2>2 DEF Wishlist!CopyIsWishlist, Wishlist!NoCopy
    <2> QED
      BY <1>2, <2>1, <2>2
  <1> QED
    BY <1>6, <1>7, <1>8, <1>9 DEF Wishlist!Inv

\* What the catalog deletes goes from the list, and counts no longer in a copy of
\* it nor in what a reader is about to store.
LEMMA WishlistCascade ==
    ASSUME Wishlist!Inv, NEW gone \in SUBSET Pair, Wishlist!Cascade(gone)
    PROVE  Wishlist!Inv'
  <1>1. job \in [ThreeWorkers -> WishlistJobs] /\ WishlistTables
    BY WishlistTypes DEF Wishlist!Inv
  <1>2. /\ x5' = x5 \cup gone /\ x2' = x2 \ gone
        /\ x1' = x1 /\ x3' = x3 /\ x4' = x4 /\ job' = job
    BY DEF Wishlist!Cascade
  <1>3. \A copy \in SUBSET Pair : copy \ x5 = x2 => copy \ x5' = x2'
    BY <1>2
  <1>4. Wishlist!TypeOK' /\ Wishlist!ItemsExist' /\ Wishlist!JobsFit'
    BY <1>1, <1>2
       DEF Wishlist!TypeOK, WishlistTables, WishlistJobs, Wishlist!Inv,
           Wishlist!ItemsExist, Wishlist!JobsFit
  <1>5. Wishlist!FillsAreFresh'
    <2>1. \A w \in ThreeWorkers : job[w].copy \in SUBSET Pair
      BY <1>1 DEF WishlistJobs
    <2> QED
      BY <1>2, <1>3, <2>1 DEF Wishlist!Inv, Wishlist!FillsAreFresh
  <1>6. Wishlist!CopyIsWishlist'
    <2>1. \A copy \in x3 : copy \in SUBSET Pair
      BY <1>1 DEF WishlistTables, Wishlist!NoCopy, Wishlist!CopyOf
    <2> QED
      BY <1>2, <1>3, <2>1 DEF Wishlist!Inv, Wishlist!CopyIsWishlist, Wishlist!At
  <1> QED
    BY <1>4, <1>5, <1>6 DEF Wishlist!Inv

\* A slot goes on to another place with all else as it was.
LEMMA WishlistGoto ==
    ASSUME NEW w \in ThreeWorkers, job \in [ThreeWorkers -> WishlistJobs],
           NEW l \in {"idle", "find", "select", "fill", "create", "add", "invalidate"},
           Wishlist!Goto(w, l)
    PROVE  \E j \in WishlistJobs :
              /\ job' = [job EXCEPT ![w] = j] /\ j.pc = l /\ j.item = job[w].item
              /\ j.copy = job[w].copy /\ j.raced = job[w].raced
  <1> DEFINE j == [job[w] EXCEPT !.pc = l]
  <1>1. job[w] \in WishlistJobs /\ job' = [job EXCEPT ![w] = j]
    BY DEF Wishlist!Goto
  <1>2. /\ j \in WishlistJobs /\ j.pc = l /\ j.item = job[w].item
        /\ j.copy = job[w].copy /\ j.raced = job[w].raced
    BY <1>1 DEF WishlistJobs
  <1> HIDE DEF j
  <1> QED
    BY <1>1, <1>2

\* A reader: it selects, and what it then stores is the list unless it was
\* overtaken.
LEMMA WishlistRead ==
    ASSUME Wishlist!Inv, NEW w \in ThreeWorkers,
           Wishlist!GetMyWishlist(w) \/ Wishlist!GetByUserWithItems(w) \/ Wishlist!FillCache(w)
    PROVE  Wishlist!Inv'
  <1>1. job \in [ThreeWorkers -> WishlistJobs] /\ job[w] \in WishlistJobs /\ WishlistTables
    BY WishlistTypes DEF Wishlist!Inv
  <1>2. CASE Wishlist!GetMyWishlist(w)
    <2>1. /\ job[w].pc = "idle" /\ x1' = x1 /\ x2' = x2 /\ x3' = x3 /\ x4' = x4
          /\ x5' = x5
      BY <1>2 DEF Wishlist!GetMyWishlist, Wishlist!At
    <2>2. PICK j \in WishlistJobs : /\ job' = [job EXCEPT ![w] = j] /\ j.pc = "find"
                                    /\ j.copy = job[w].copy
      BY <1>1, <1>2, WishlistGoto DEF Wishlist!GetMyWishlist
    <2>3. j.copy = {} /\ WishlistTables'
      BY <1>1, <2>1, <2>2 DEF Wishlist!Inv, Wishlist!JobsFit, WishlistTables
    <2> QED
      BY <2>1, <2>2, <2>3, WishlistStep
  <1>3. CASE Wishlist!GetByUserWithItems(w)
    <2>1. x1' = x1 /\ x2' = x2 /\ x3' = x3 /\ x4' = x4 /\ x5' = x5
      BY <1>3 DEF Wishlist!GetByUserWithItems
    <2>2. WishlistTables'
      BY <1>1, <2>1 DEF WishlistTables
    <2>3. CASE Wishlist!At(w, "find") /\ Wishlist!Goto(w, IF x1 THEN "select" ELSE "fill")
      <3> DEFINE l == IF x1 THEN "select" ELSE "fill"
      <3>1. l \in {"select", "fill"} /\ (l = "fill" => ~x1)
        OBVIOUS
      <3>2. PICK j \in WishlistJobs : /\ job' = [job EXCEPT ![w] = j] /\ j.pc = l
                                      /\ j.copy = job[w].copy
        BY <1>1, <2>3, <3>1, WishlistGoto
      <3> HIDE DEF l
      <3>3. job[w].copy = {} /\ job[w].pc # "invalidate"
        BY <2>3 DEF Wishlist!Inv, Wishlist!JobsFit, Wishlist!At
      <3>4. j.pc = "fill" => j.copy \ x5 = x2
        BY <1>1, <3>1, <3>2, <3>3 DEF WishlistTables
      <3> QED
        BY <2>1, <2>2, <3>1, <3>2, <3>3, <3>4, WishlistStep
    <2>4. CASE /\ Wishlist!At(w, "select")
               /\ job' = [job EXCEPT ![w].pc = "fill", ![w].copy = x2]
      <3> DEFINE j == [job[w] EXCEPT !.pc = "fill", !.copy = x2]
      <3>1. job' = [job EXCEPT ![w] = j]
        BY <1>1, <2>4
      <3>2. j \in WishlistJobs /\ j.pc = "fill" /\ j.copy = x2
        BY <1>1 DEF WishlistJobs, WishlistTables
      <3> HIDE DEF j
      <3>3. j.copy \ x5 = x2
        BY <3>2 DEF Wishlist!Inv, Wishlist!ItemsExist
      <3> QED
        BY <2>1, <2>2, <2>4, <3>1, <3>2, <3>3, WishlistStep DEF Wishlist!At
    <2> QED
      BY <1>3, <2>3, <2>4 DEF Wishlist!GetByUserWithItems
  <1>4. CASE Wishlist!FillCache(w)
    <2>1. /\ job[w].pc = "fill" /\ x1' = x1 /\ x2' = x2 /\ x5' = x5
          /\ job' = [job EXCEPT ![w] = Wishlist!Free]
      BY <1>4 DEF Wishlist!FillCache, Wishlist!At, Wishlist!Done
    <2>2. CASE x3' = Wishlist!CopyOf(job[w].copy) /\ x4' = job[w].raced
      <3>1. WishlistTables'
        BY <1>1, <2>1, <2>2 DEF WishlistTables, WishlistJobs
      <3>2. (\A copy \in x3' : copy \ x5 = x2) \/ x4'
        BY <2>1, <2>2 DEF Wishlist!Inv, Wishlist!FillsAreFresh, Wishlist!CopyOf
      <3> QED
        BY <2>1, <3>1, <3>2, WishlistFree, WishlistStep
    <2>3. CASE x3' = x3 /\ x4' = x4
      <3>1. WishlistTables'
        BY <1>1, <2>1, <2>3 DEF WishlistTables
      <3> QED
        BY <2>1, <2>3, <3>1, WishlistFree, WishlistStep
    <2> QED
      BY <1>4, <2>2, <2>3 DEF Wishlist!FillCache
  <1> QED
    BY <1>2, <1>3, <1>4

\* An addition up to its insert, which finds the row that it locked or made.
LEMMA WishlistAdded ==
    ASSUME Wishlist!Inv, NEW w \in ThreeWorkers,
           \/ \E i \in Pair : Wishlist!Add(w, i)
           \/ Wishlist!GetOrCreateByUser(w)
           \/ Wishlist!AddItem(w)
    PROVE  Wishlist!Inv'
  <1>1. job \in [ThreeWorkers -> WishlistJobs] /\ job[w] \in WishlistJobs /\ WishlistTables
    BY WishlistTypes DEF Wishlist!Inv
  <1>2. ASSUME NEW i \in Pair, Wishlist!Add(w, i)
        PROVE  Wishlist!Inv'
    <2> DEFINE j == [Wishlist!Free EXCEPT !.pc = IF x1 THEN "add" ELSE "create", !.item = i]
    <2>1. /\ job[w].pc = "idle" /\ job' = [job EXCEPT ![w] = j]
          /\ x1' = x1 /\ x2' = x2 /\ x3' = x3 /\ x4' = x4 /\ x5' = x5
      BY <1>2 DEF Wishlist!Add, Wishlist!At
    <2>2. /\ j \in WishlistJobs /\ j.item = i /\ j.pc \in {"add", "create"}
          /\ j.pc = "add" => x1
      BY WishlistFree DEF WishlistJobs, Wishlist!Free
    <2> HIDE DEF j
    <2>3. WishlistTables'
      BY <1>1, <2>1 DEF WishlistTables
    <2> QED
      BY <2>1, <2>2, <2>3, WishlistStep
  <1>3. CASE Wishlist!GetOrCreateByUser(w)
    <2>1. /\ job[w].pc = "create" /\ x1' = TRUE /\ x2' = x2 /\ x3' = x3 /\ x4' = x4
          /\ x5' = x5
      BY <1>3 DEF Wishlist!GetOrCreateByUser, Wishlist!At
    <2>2. WishlistTables' /\ job[w].item \in Pair
      BY <1>1, <2>1 DEF WishlistTables, Wishlist!Inv, Wishlist!JobsFit
    <2>3. CASE Wishlist!Done(w)
      <3>1. job' = [job EXCEPT ![w] = Wishlist!Free]
        BY <2>3 DEF Wishlist!Done
      <3> QED
        BY <2>1, <2>2, <3>1, WishlistFree, WishlistStep
    <2>4. CASE Wishlist!Goto(w, "add")
      <3>1. PICK j \in WishlistJobs : /\ job' = [job EXCEPT ![w] = j] /\ j.pc = "add"
                                      /\ j.item = job[w].item
        BY <1>1, <2>4, WishlistGoto
      <3> QED
        BY <2>1, <2>2, <3>1, WishlistStep
    <2> QED
      BY <1>3, <2>3, <2>4 DEF Wishlist!GetOrCreateByUser
  <1>4. CASE Wishlist!AddItem(w)
    <2>1. /\ job[w].pc = "add" /\ Wishlist!Changed(w) /\ x1' = x1 /\ x3' = x3 /\ x5' = x5
          /\ x2' = x2 \cup {job[w].item} /\ job[w].item \notin x5
      BY <1>4 DEF Wishlist!AddItem, Wishlist!At
    <2>2. x1 /\ job[w].item \in Pair
      BY <2>1 DEF Wishlist!Inv, Wishlist!JobsFit
    <2> QED
      BY <1>1, <2>1, <2>2, WishlistChanged
         DEF WishlistTables, Wishlist!Inv, Wishlist!ItemsExist
  <1> QED
    BY <1>2, <1>3, <1>4

\* Every step of the wishlist module keeps its invariant.
LEMMA WishlistNext == Wishlist!Inv /\ [Wishlist!Next]_(Wishlist!vars) => Wishlist!Inv'
  <1> SUFFICES ASSUME Wishlist!Inv, [Wishlist!Next]_(Wishlist!vars) PROVE Wishlist!Inv'
    OBVIOUS
  <1>1. job \in [ThreeWorkers -> WishlistJobs] /\ WishlistTables
    BY WishlistTypes DEF Wishlist!Inv
  <1>2. ASSUME NEW w \in ThreeWorkers, NEW i \in Pair, Wishlist!Remove(w, i)
        PROVE  Wishlist!Inv'
    <2>1. /\ Wishlist!Changed(w) /\ x1' = x1 /\ x3' = x3 /\ x5' = x5
          /\ x2' = x2 \ {i} /\ i \in x2
      BY <1>2 DEF Wishlist!Remove, Wishlist!RemoveItem
    <2> QED
      BY <1>1, <2>1, WishlistChanged DEF WishlistTables, Wishlist!Inv, Wishlist!ItemsExist
  <1>3. ASSUME NEW w \in ThreeWorkers, Wishlist!Clear(w)
        PROVE  Wishlist!Inv'
    BY <1>3, WishlistChanged DEF Wishlist!Clear, Wishlist!ClearItems
  <1>4. ASSUME NEW w \in ThreeWorkers, Wishlist!invalidate(w)
        PROVE  Wishlist!Inv'
    <2>1. job' = [job EXCEPT ![w] = Wishlist!Free] /\ x1' = x1 /\ x2' = x2 /\ x5' = x5
      BY <1>4 DEF Wishlist!invalidate, Wishlist!Done
    <2>2. CASE x3' = Wishlist!NoCopy /\ x4' = FALSE
      <3>1. WishlistTables'
        BY <1>1, <2>1, <2>2 DEF WishlistTables
      <3> QED
        BY <2>1, <2>2, <3>1, WishlistFree, WishlistStep DEF Wishlist!NoCopy
    <2>3. CASE x4' = (x3 # Wishlist!NoCopy) /\ x3' = x3
      <3>1. WishlistTables'
        BY <1>1, <2>1, <2>3 DEF WishlistTables
      <3>2. x3' = Wishlist!NoCopy \/ x4'
        BY <2>3
      <3> QED
        BY <2>1, <3>1, <3>2, WishlistFree, WishlistStep DEF Wishlist!NoCopy
    <2> QED
      BY <1>4, <2>2, <2>3 DEF Wishlist!invalidate
  <1>5. ASSUME NEW w \in ThreeWorkers, Wishlist!Fail(w)
        PROVE  Wishlist!Inv'
    <2>1. /\ job' = [job EXCEPT ![w] = Wishlist!Free] /\ job[w].pc # "invalidate"
          /\ x1' = x1 /\ x2' = x2 /\ x3' = x3 /\ x4' = x4 /\ x5' = x5
      BY <1>5 DEF Wishlist!Fail, Wishlist!Done
    <2>2. WishlistTables'
      BY <1>1, <2>1 DEF WishlistTables
    <2> QED
      BY <2>1, <2>2, WishlistFree, WishlistStep
  <1>6. CASE Wishlist!ExpireCache
    <2>1. /\ x1' = x1 /\ x2' = x2 /\ x3' = Wishlist!NoCopy /\ x4' = FALSE /\ x5' = x5
          /\ job' = job
      BY <1>6 DEF Wishlist!ExpireCache
    <2>2. Wishlist!TypeOK'
      BY <1>1, <2>1 DEF Wishlist!TypeOK, WishlistTables, WishlistJobs
    <2> QED
      BY <2>1, <2>2
         DEF Wishlist!Inv, Wishlist!ItemsExist, Wishlist!JobsFit, Wishlist!FillsAreFresh,
             Wishlist!CopyIsWishlist, Wishlist!NoCopy
  <1>7. CASE UNCHANGED Wishlist!vars
    BY <1>7
       DEF Wishlist!vars, Wishlist!Inv, Wishlist!TypeOK, Wishlist!ItemsExist,
           Wishlist!JobsFit, Wishlist!FillsAreFresh, Wishlist!CopyIsWishlist, Wishlist!At
  <1>8. ASSUME NEW gone \in SUBSET Pair, Wishlist!DeleteProduct(gone)
        PROVE  Wishlist!Inv'
    BY <1>8, WishlistCascade DEF Wishlist!DeleteProduct
  <1>9. ASSUME NEW i \in Pair, Wishlist!DeleteVariant(i)
        PROVE  Wishlist!Inv'
    BY <1>9, WishlistCascade DEF Wishlist!DeleteVariant
  <1> QED
    BY <1>2, <1>3, <1>4, <1>5, <1>6, <1>7, <1>8, <1>9, WishlistRead, WishlistAdded
       DEF Wishlist!Next, Wishlist!WishlistHandlers

\* The wishlist module's invariant always holds.
THEOREM WishlistSafe == Spec => [](component = "wishlists" => Wishlist!Inv)
  <1> DEFINE IInv == component = "wishlists" => Wishlist!Inv
  <1>1. Init => IInv
    BY WishlistInit DEF Init
  <1>2. IInv /\ [Next]_vars => IInv'
    <2> SUFFICES ASSUME IInv, [Next]_vars, component' = "wishlists"
                 PROVE  Wishlist!Inv'
      OBVIOUS
    <2>1. component = "wishlists" /\ [Wishlist!Next]_(Wishlist!vars)
      BY DEF Next, vars, Wishlist!vars
    <2> QED
      BY <2>1, WishlistNext
  <1> QED
    BY <1>1, <1>2, PTL DEF Spec

\* However readers and changes of one wishlist overlap, its copy in Redis is the
\* list but for items the catalog has deleted, or is about to be deleted, or one
\* of the named causes left it behind (GetMyWishlist, Add, Remove, Clear,
\* invalidate, DeleteProduct, DeleteVariant).
THEOREM CopiesAreWishlists == Spec => []CopyIsWishlist
  <1> DEFINE IInv == component = "wishlists" => Wishlist!Inv
  <1>1. IInv => CopyIsWishlist
    BY DEF CopyIsWishlist, Wishlist!Inv
  <1> QED
    BY <1>1, WishlistSafe, PTL

-----------------------------------------------------------------------------
(* Notifications *)

\* Cardinality means in Notifications what it means here.
LEMMA NotificationCardinality == \A S : Notification!Cardinality(S) = Cardinality(S)
  BY DEF Notification!Cardinality, Cardinality

NotificationJobs ==
    [pc : {"idle", "count", "countReply", "push", "reply"}, to : SUBSET Conns,
     count : 0..Notification!Cardinality(Pair), overtaken : BOOLEAN]

\* What is unread is counted by a number that a job can hold.
LEMMA NotificationCounts ==
    /\ Notification!Cardinality(Pair) \in Nat
    /\ Notification!Cardinality(Notification!Unread) \in 0..Notification!Cardinality(Pair)
    /\ Notification!GetUnreadCount = Notification!Cardinality(Notification!Unread)
  <1>1. Notification!Unread \subseteq Pair
    BY DEF Notification!Unread
  <1>2. {n \in Pair : x1[n] = "unread" /\ Notification!Live(n)} = Notification!Unread
    BY DEF Notification!Unread, Notification!Live
  <1>3. /\ Cardinality(Pair) \in Nat /\ Cardinality(Notification!Unread) \in Nat
        /\ Cardinality(Notification!Unread) <= Cardinality(Pair)
    BY <1>1, FS_Subset, FS_CardinalityType, ServicesAssumption
  <1> QED
    BY <1>2, <1>3, NotificationCardinality DEF Notification!GetUnreadCount

\* The jobs that requests begin.
LEMMA NotificationBegins ==
    /\ Notification!Free \in NotificationJobs /\ Notification!Free.pc = "idle"
    /\ Notification!Free.to = {}
    /\ \A to \in SUBSET Conns :
          /\ \A l \in {"count", "countReply"} :
                /\ Notification!CountJob(l, to) \in NotificationJobs
                /\ Notification!CountJob(l, to).pc = l /\ Notification!CountJob(l, to).to = to
          /\ \A n \in 0..Notification!Cardinality(Pair) :
             \A l \in {"push", "reply"} :
                /\ Notification!SendJob(l, to, n) \in NotificationJobs
                /\ Notification!SendJob(l, to, n).to = to
                /\ Notification!SendJob(l, to, n).count = n
  <1> DEFINE f == Notification!Free
  <1>1. f \in NotificationJobs /\ f.pc = "idle" /\ f.to = {}
    BY NotificationCounts DEF NotificationJobs, Notification!Free
  <1>2. ASSUME NEW to \in SUBSET Conns, NEW l \in {"count", "countReply"}
        PROVE  /\ Notification!CountJob(l, to) \in NotificationJobs
               /\ Notification!CountJob(l, to).pc = l /\ Notification!CountJob(l, to).to = to
    <2>1. Notification!CountJob(l, to) = [f EXCEPT !.pc = l, !.to = to]
      BY DEF Notification!CountJob
    <2> HIDE DEF f
    <2> QED
      BY <1>1, <2>1 DEF NotificationJobs
  <1>3. ASSUME NEW to \in SUBSET Conns, NEW n \in 0..Notification!Cardinality(Pair),
               NEW l \in {"push", "reply"}
        PROVE  /\ Notification!SendJob(l, to, n) \in NotificationJobs
               /\ Notification!SendJob(l, to, n).to = to
               /\ Notification!SendJob(l, to, n).count = n
    <2>1. Notification!SendJob(l, to, n) = [f EXCEPT !.pc = l, !.to = to, !.count = n]
      BY DEF Notification!SendJob
    <2> HIDE DEF f
    <2> QED
      BY <1>1, <2>1 DEF NotificationJobs
  <1> QED
    BY <1>1, <1>2, <1>3

\* Overtaking leaves every job its place and its connections.
LEMMA NotificationOvertake ==
    ASSUME job \in [Workers -> NotificationJobs]
    PROVE  /\ Notification!Overtake(job) \in [Workers -> NotificationJobs]
           /\ \A w \in Workers :
                /\ Notification!Overtake(job)[w].to = job[w].to
                /\ Notification!Overtake(job)[w].pc \in {"push", "reply"} =>
                      Notification!Overtake(job)[w].overtaken
  <1> DEFINE g == Notification!Overtake(job)
  <1>1. g = [w \in Workers |->
               IF job[w].pc \in {"push", "reply"}
               THEN [job[w] EXCEPT !.overtaken = TRUE] ELSE job[w]]
    BY DEF Notification!Overtake
  <1>2. ASSUME NEW w \in Workers
        PROVE  /\ g[w] \in NotificationJobs /\ g[w].to = job[w].to
               /\ g[w].pc \in {"push", "reply"} => g[w].overtaken
    <2>1. job[w] \in NotificationJobs
      OBVIOUS
    <2>2. CASE job[w].pc \in {"push", "reply"}
      <3>1. g[w] = [job[w] EXCEPT !.overtaken = TRUE]
        BY <1>1, <2>2
      <3> QED
        BY <2>1, <3>1 DEF NotificationJobs
    <2>3. CASE job[w].pc \notin {"push", "reply"}
      BY <1>1, <2>1, <2>3
    <2> QED
      BY <2>2, <2>3
  <1> QED
    BY <1>1, <1>2

\* Nobody is shown anything and nothing is there to show.
LEMMA NotificationInit == Notification!Init => Notification!Inv
  <1> SUFFICES ASSUME Notification!Init PROVE Notification!Inv
    OBVIOUS
  <1>1. Notification!Unread = {}
    BY DEF Notification!Init, Notification!Unread
  <1>2. Notification!Cardinality(Notification!Unread) = 0
    BY <1>1, FS_EmptySet, NotificationCardinality
  <1>3. Notification!TypeOK
    BY NotificationBegins, NotificationCounts
       DEF Notification!Init, Notification!TypeOK, NotificationJobs
  <1>4. \A w \in Workers : job[w].pc = "idle"
    BY NotificationBegins DEF Notification!Init
  <1>5. Notification!ShownCountIsRight
    BY <1>2 DEF Notification!Init, Notification!ShownCountIsRight
  <1> QED
    BY <1>3, <1>4, <1>5 DEF Notification!Inv, Notification!PushesAreFresh

\* What is unread changes, no count follows, and every connection is excused.
LEMMA NotificationExcused ==
    ASSUME Notification!Inv, Notification!NobodyIsTold, x3' = x3, x5' = x5,
           x1' \in [Pair -> {"none", "unread", "read"}], x2' \subseteq Pair
    PROVE  Notification!Inv'
  <1>1. job \in [Workers -> NotificationJobs] /\ x4 \in [Conns -> BOOLEAN]
    BY DEF Notification!Inv, Notification!TypeOK, NotificationJobs
  <1>2. x4' \in [Conns -> BOOLEAN] /\ \A c \in Conns : x4'[c]
    BY <1>1 DEF Notification!NobodyIsTold, Notification!Excuse
  <1>3. /\ job' \in [Workers -> NotificationJobs]
        /\ \A w \in Workers : job'[w].pc \in {"push", "reply"} => job'[w].overtaken
    BY <1>1, NotificationOvertake DEF Notification!NobodyIsTold
  <1>4. Notification!TypeOK'
    BY <1>2, <1>3 DEF Notification!Inv, Notification!TypeOK, NotificationJobs
  <1>5. Notification!PushesAreFresh'
    BY <1>3 DEF Notification!PushesAreFresh
  <1>6. Notification!ShownCountIsRight'
    BY <1>2 DEF Notification!ShownCountIsRight
  <1> QED
    BY <1>4, <1>5, <1>6 DEF Notification!Inv

\* What is unread changes, and each connection gets a count or is excused.
LEMMA NotificationChanged ==
    ASSUME Notification!Inv, NEW w \in Workers, NEW j \in NotificationJobs,
           job' = [Notification!Overtake(job) EXCEPT ![w] = j],
           j.pc \in {"push", "reply"} =>
               j.count = Notification!Cardinality(Notification!Unread'),
           x1' \in [Pair -> {"none", "unread", "read"}], x2' = x2, x3' = x3, x5' = x5,
           x4' \in [Conns -> BOOLEAN],
           \A c \in Conns : c \in j.to \/ x4'[c]
    PROVE  Notification!Inv'
  <1>1. job \in [Workers -> NotificationJobs]
    BY DEF Notification!Inv, Notification!TypeOK, NotificationJobs
  <1> DEFINE g == Notification!Overtake(job)
  <1>2. /\ g \in [Workers -> NotificationJobs]
        /\ \A o \in Workers : g[o].pc \in {"push", "reply"} => g[o].overtaken
    BY <1>1, NotificationOvertake
  <1>3. job' = [g EXCEPT ![w] = j]
    OBVIOUS
  <1> HIDE DEF g
  <1>4. /\ job' \in [Workers -> NotificationJobs]
        /\ \A o \in Workers : job'[o] = IF o = w THEN j ELSE g[o]
    BY <1>2, <1>3
  <1>5. Notification!TypeOK'
    BY <1>4 DEF Notification!Inv, Notification!TypeOK, NotificationJobs
  <1>6. Notification!PushesAreFresh'
    BY <1>2, <1>4 DEF Notification!PushesAreFresh
  <1>7. Notification!ShownCountIsRight'
    BY <1>4 DEF Notification!ShownCountIsRight
  <1> QED
    BY <1>5, <1>6, <1>7 DEF Notification!Inv

\* A slot reads, answers or gives up a count while what is unread stays.
LEMMA NotificationGoto ==
    ASSUME Notification!Inv, NEW w \in Workers, NEW j \in NotificationJobs,
           job' = [job EXCEPT ![w] = j], x1' = x1, x2' = x2, x3' = x3, x5' = x5,
           x4' \in [Conns -> BOOLEAN], \A c \in Conns : x4[c] => x4'[c],
           j.pc \in {"push", "reply"} =>
               j.overtaken \/ j.count = Notification!Cardinality(Notification!Unread),
           \A c \in Conns : c \in job[w].to => c \in j.to \/ x4'[c]
    PROVE  Notification!Inv'
  <1>1. job \in [Workers -> NotificationJobs]
    BY DEF Notification!Inv, Notification!TypeOK, NotificationJobs
  <1>2. /\ job' \in [Workers -> NotificationJobs]
        /\ \A o \in Workers : job'[o] = IF o = w THEN j ELSE job[o]
    BY <1>1
  <1>3. Notification!Unread' = Notification!Unread
    BY DEF Notification!Unread
  <1>4. Notification!TypeOK'
    BY <1>2 DEF Notification!Inv, Notification!TypeOK, NotificationJobs
  <1>5. Notification!PushesAreFresh'
    BY <1>2, <1>3 DEF Notification!Inv, Notification!PushesAreFresh
  <1>6. Notification!ShownCountIsRight'
    <2> SUFFICES ASSUME NEW c \in Conns, ~x4'[c],
                        x3[c] # Notification!Cardinality(Notification!Unread)
                 PROVE  \E o \in Workers : c \in job'[o].to
      BY <1>3 DEF Notification!ShownCountIsRight
    <2>1. PICK o \in Workers : c \in job[o].to
      BY DEF Notification!Inv, Notification!ShownCountIsRight
    <2> QED
      BY <1>2, <2>1
  <1> QED
    BY <1>4, <1>5, <1>6 DEF Notification!Inv

\* The connections reached are sent the count, and are excused if it was
\* overtaken; those that are not reached are excused.
LEMMA NotificationDelivered ==
    ASSUME Notification!Inv, NEW w \in Workers, job[w].pc \in {"push", "reply"},
           NEW reached \in SUBSET job[w].to, Notification!Deliver(w, reached)
    PROVE  Notification!Inv'
  <1>1. /\ job \in [Workers -> NotificationJobs] /\ job[w] \in NotificationJobs
        /\ x3 \in [Conns -> 0..Notification!Cardinality(Pair)] /\ x4 \in [Conns -> BOOLEAN]
    BY DEF Notification!Inv, Notification!TypeOK, NotificationJobs
  <1>2. /\ job' = [job EXCEPT ![w] = Notification!Free]
        /\ x1' = x1 /\ x2' = x2 /\ x5' = x5
        /\ x3' = [c \in Conns |-> IF c \in reached THEN job[w].count ELSE x3[c]]
        /\ x4' = [c \in Conns |-> IF c \in reached THEN job[w].overtaken
                                 ELSE x4[c] \/ c \in job[w].to]
    BY DEF Notification!Deliver
  <1>3. /\ job' \in [Workers -> NotificationJobs]
        /\ \A o \in Workers : job'[o] = IF o = w THEN Notification!Free ELSE job[o]
    BY <1>1, <1>2, NotificationBegins
  <1>4. job[w].count \in 0..Notification!Cardinality(Pair) /\ job[w].overtaken \in BOOLEAN
    BY <1>1 DEF NotificationJobs
  <1>5. x3' \in [Conns -> 0..Notification!Cardinality(Pair)]
    BY <1>1, <1>2, <1>4
  <1>6. x4' \in [Conns -> BOOLEAN]
    BY <1>1, <1>2, <1>4
  <1>7. Notification!Unread' = Notification!Unread
    BY <1>2 DEF Notification!Unread
  <1>8. Notification!TypeOK'
    BY <1>2, <1>3, <1>5, <1>6 DEF Notification!Inv, Notification!TypeOK, NotificationJobs
  <1>9. Notification!PushesAreFresh'
    BY <1>3, <1>7, NotificationBegins DEF Notification!Inv, Notification!PushesAreFresh
  <1>10. Notification!ShownCountIsRight'
    <2> SUFFICES ASSUME NEW c \in Conns, ~x4'[c],
                        x3'[c] # Notification!Cardinality(Notification!Unread)
                 PROVE  \E o \in Workers : c \in job'[o].to
      BY <1>7 DEF Notification!ShownCountIsRight
    <2>1. CASE c \in reached
      <3>1. x3'[c] = job[w].count /\ x4'[c] = job[w].overtaken
        BY <1>2, <2>1
      <3> QED
        BY <3>1 DEF Notification!Inv, Notification!PushesAreFresh
    <2>2. CASE c \notin reached
      <3>1. x3'[c] = x3[c] /\ ~x4[c] /\ c \notin job[w].to
        BY <1>2, <2>2
      <3>2. PICK o \in Workers : c \in job[o].to
        BY <3>1 DEF Notification!Inv, Notification!ShownCountIsRight
      <3> QED
        BY <1>3, <3>1, <3>2
    <2> QED
      BY <2>1, <2>2
  <1> QED
    BY <1>8, <1>9, <1>10 DEF Notification!Inv

\* Once all are marked, nothing is unread.
LEMMA NotificationAllRead ==
    ASSUME Notification!TypeOK, Notification!MarkAllRead, x2' = x2
    PROVE  /\ x1' \in [Pair -> {"none", "unread", "read"}]
           /\ Notification!Cardinality(Notification!Unread') = 0
  <1>1. x1' = [n \in Pair |-> IF x1[n] = "unread" THEN "read" ELSE x1[n]]
    BY DEF Notification!MarkAllRead
  <1>2. x1 \in [Pair -> {"none", "unread", "read"}]
    BY DEF Notification!TypeOK
  <1>3. Notification!Unread' = {}
    BY <1>1 DEF Notification!Unread
  <1>4. Notification!Cardinality(Notification!Unread') = 0
    BY <1>3, FS_EmptySet, NotificationCardinality
  <1> QED
    BY <1>1, <1>2, <1>4

\* The requests that mark notifications as read and then see to a count.
LEMMA NotificationMarked ==
    ASSUME Notification!Inv, NEW w \in Workers,
           Notification!ReadHandlers(w) \/ Notification!HandleMessage(w)
    PROVE  Notification!Inv'
  <1>1. /\ x1 \in [Pair -> {"none", "unread", "read"}] /\ x4 \in [Conns -> BOOLEAN]
        /\ job \in [Workers -> NotificationJobs] /\ Notification!TypeOK
    BY DEF Notification!Inv, Notification!TypeOK, NotificationJobs
  <1>2. 0 \in 0..Notification!Cardinality(Pair)
    BY NotificationCounts
  <1>3. ASSUME NEW n \in Pair, Notification!MarkRead(n)
        PROVE  x1' \in [Pair -> {"none", "unread", "read"}]
    BY <1>1, <1>3 DEF Notification!MarkRead
  <1>4. ASSUME Notification!NobodyIsTold, x2' = x2, x3' = x3, x5' = x5,
               \/ \E n \in Pair : Notification!MarkRead(n)
               \/ Notification!MarkAllRead
        PROVE  Notification!Inv'
    <2>1. x1' \in [Pair -> {"none", "unread", "read"}]
      BY <1>1, <1>3, <1>4, NotificationAllRead
    <2>2. x2' \subseteq Pair
      BY <1>1, <1>4 DEF Notification!TypeOK
    <2> QED
      BY <1>4, <2>1, <2>2, NotificationExcused
  <1>5. ASSUME NEW n \in Pair, Notification!MarkAsRead(w, n), ~Notification!NobodyIsTold
        PROVE  Notification!Inv'
    <2> DEFINE j == Notification!CountJob("count", Conns)
    <2>1. /\ job' = [Notification!Overtake(job) EXCEPT ![w] = j] /\ x5' = x5
          /\ x2' = x2 /\ x3' = x3 /\ x4' = x4 /\ Notification!MarkRead(n)
      BY <1>5 DEF Notification!MarkAsRead
    <2>2. j \in NotificationJobs /\ j.pc = "count" /\ j.to = Conns
      BY NotificationBegins
    <2> HIDE DEF j
    <2> QED
      BY <1>1, <1>3, <2>1, <2>2, NotificationChanged
  <1>6. ASSUME Notification!MarkAllAsRead(w), ~Notification!NobodyIsTold
        PROVE  Notification!Inv'
    <2> DEFINE j == Notification!SendJob("push", Conns, 0)
    <2>1. /\ job' = [Notification!Overtake(job) EXCEPT ![w] = j] /\ x5' = x5
          /\ x2' = x2 /\ x3' = x3 /\ x4' = x4 /\ Notification!MarkAllRead
      BY <1>6 DEF Notification!MarkAllAsRead
    <2>2. j \in NotificationJobs /\ j.to = Conns /\ j.count = 0
      BY <1>2, NotificationBegins
    <2> HIDE DEF j
    <2>3. /\ x1' \in [Pair -> {"none", "unread", "read"}]
          /\ j.count = Notification!Cardinality(Notification!Unread')
      BY <1>1, <2>1, <2>2, NotificationAllRead
    <2> QED
      BY <1>1, <2>1, <2>2, <2>3, NotificationChanged
  <1>7. ASSUME NEW c \in Conns, Notification!Excuse(Conns \ {c})
        PROVE  x4' \in [Conns -> BOOLEAN] /\ \A d \in Conns : d = c \/ x4'[d]
    BY <1>1, <1>7 DEF Notification!Excuse
  <1>8. ASSUME NEW c \in Conns, NEW n \in Pair, Notification!handleMarkAsRead(w, c, n),
               ~Notification!NobodyIsTold
        PROVE  Notification!Inv'
    <2> DEFINE j == Notification!CountJob("countReply", {c})
    <2>1. /\ job' = [Notification!Overtake(job) EXCEPT ![w] = j] /\ x5' = x5
          /\ x2' = x2 /\ x3' = x3 /\ Notification!Excuse(Conns \ {c})
          /\ Notification!MarkRead(n)
      BY <1>8 DEF Notification!handleMarkAsRead
    <2>2. j \in NotificationJobs /\ j.pc = "countReply" /\ j.to = {c}
      BY NotificationBegins
    <2> HIDE DEF j
    <2>3. x4' \in [Conns -> BOOLEAN] /\ \A d \in Conns : d \in j.to \/ x4'[d]
      BY <1>7, <2>1, <2>2
    <2> QED
      BY <1>3, <2>1, <2>2, <2>3, NotificationChanged
  <1>9. ASSUME NEW c \in Conns, Notification!handleMarkAllAsRead(w, c),
               ~Notification!NobodyIsTold
        PROVE  Notification!Inv'
    <2> DEFINE j == Notification!SendJob("reply", {c}, 0)
    <2>1. /\ job' = [Notification!Overtake(job) EXCEPT ![w] = j] /\ x5' = x5
          /\ x2' = x2 /\ x3' = x3 /\ Notification!Excuse(Conns \ {c})
          /\ Notification!MarkAllRead
      BY <1>9 DEF Notification!handleMarkAllAsRead
    <2>2. j \in NotificationJobs /\ j.to = {c} /\ j.count = 0
      BY <1>2, NotificationBegins
    <2> HIDE DEF j
    <2>3. x4' \in [Conns -> BOOLEAN] /\ \A d \in Conns : d \in j.to \/ x4'[d]
      BY <1>7, <2>1, <2>2
    <2>4. /\ x1' \in [Pair -> {"none", "unread", "read"}]
          /\ j.count = Notification!Cardinality(Notification!Unread')
      BY <1>1, <2>1, <2>2, NotificationAllRead
    <2> QED
      BY <2>1, <2>2, <2>3, <2>4, NotificationChanged
  <1>10. ASSUME NEW c \in Conns, Notification!handleGetCount(w, c)
        PROVE  Notification!Inv'
    <2> DEFINE j == Notification!SendJob("reply", {c}, Notification!GetUnreadCount)
    <2>1. /\ job' = [job EXCEPT ![w] = j] /\ job[w].to = {} /\ x5' = x5
          /\ x1' = x1 /\ x2' = x2 /\ x3' = x3 /\ x4' = x4
      BY <1>10, NotificationBegins DEF Notification!handleGetCount
    <2>2. j \in NotificationJobs /\ j.count = Notification!Cardinality(Notification!Unread)
      <3>1. /\ {c} \in SUBSET Conns /\ "reply" \in {"push", "reply"}
            /\ Notification!GetUnreadCount \in 0..Notification!Cardinality(Pair)
        BY NotificationCounts
      <3> QED
        BY <3>1, NotificationCounts, NotificationBegins
    <2> HIDE DEF j
    <2> QED
      BY <1>1, <2>1, <2>2, NotificationGoto
  <1> QED
    <2>1. CASE Notification!NobodyIsTold /\ ~\E c \in Conns : Notification!handleGetCount(w, c)
      <3>1. /\ x2' = x2 /\ x3' = x3 /\ x5' = x5
            /\ (\E n \in Pair : Notification!MarkRead(n)) \/ Notification!MarkAllRead
        BY <2>1 DEF Notification!ReadHandlers, Notification!HandleMessage,
             Notification!MarkAsRead, Notification!MarkAllAsRead,
             Notification!handleMarkAsRead, Notification!handleMarkAllAsRead
      <3> QED
        BY <1>4, <2>1, <3>1
    <2> QED
      BY <1>5, <1>6, <1>8, <1>9, <1>10, <2>1
         DEF Notification!ReadHandlers, Notification!HandleMessage

\* The count is read, or cannot be.
LEMMA NotificationCounted ==
    ASSUME Notification!Inv, NEW w \in Workers,
           Notification!ReadCount(w) \/ Notification!CountFails(w)
    PROVE  Notification!Inv'
  <1>1. /\ x4 \in [Conns -> BOOLEAN] /\ job[w] \in NotificationJobs
    BY DEF Notification!Inv, Notification!TypeOK, NotificationJobs
  <1>2. job[w].to \in SUBSET Conns
    BY <1>1 DEF NotificationJobs
  <1>3. CASE Notification!ReadCount(w)
    <2>1. PICK next \in {<<"count", "push">>, <<"countReply", "reply">>} :
             job' = [job EXCEPT ![w] = Notification!SendJob(next[2], job[w].to,
                                                   Notification!GetUnreadCount)]
      BY <1>3 DEF Notification!ReadCount
    <2> DEFINE l == next[2]
               j == Notification!SendJob(l, job[w].to, Notification!GetUnreadCount)
    <2>2. /\ job' = [job EXCEPT ![w] = j] /\ x5' = x5
          /\ x1' = x1 /\ x2' = x2 /\ x3' = x3 /\ x4' = x4
      BY <1>3, <2>1 DEF Notification!ReadCount
    <2>3. l \in {"push", "reply"}
      OBVIOUS
    <2> HIDE DEF l
    <2>4. Notification!GetUnreadCount \in 0..Notification!Cardinality(Pair)
      BY NotificationCounts
    <2>5. /\ j \in NotificationJobs /\ j.to = job[w].to
          /\ j.count = Notification!Cardinality(Notification!Unread)
      BY <1>2, <2>3, <2>4, NotificationCounts, NotificationBegins
    <2> HIDE DEF j
    <2> QED
      BY <1>1, <2>2, <2>5, NotificationGoto
  <1>4. CASE Notification!CountFails(w)
    <2>1. /\ x1' = x1 /\ x2' = x2 /\ x3' = x3 /\ x5' = x5
          /\ Notification!Excuse(job[w].to)
      BY <1>4 DEF Notification!CountFails
    <2>2. /\ x4' \in [Conns -> BOOLEAN] /\ \A c \in Conns : x4[c] => x4'[c]
          /\ \A c \in Conns : c \in job[w].to => x4'[c]
      BY <1>1, <2>1 DEF Notification!Excuse
    <2>3. CASE job' = [job EXCEPT ![w] = Notification!Free]
      BY <2>1, <2>2, <2>3, NotificationBegins, NotificationGoto
    <2>4. CASE job' = [job EXCEPT ![w] =
                  [Notification!SendJob("reply", job[w].to, 0) EXCEPT !.overtaken = TRUE]]
      <3> DEFINE i == Notification!SendJob("reply", job[w].to, 0)
                 j == [i EXCEPT !.overtaken = TRUE]
      <3>1. i \in NotificationJobs
        BY <1>2, NotificationCounts, NotificationBegins
      <3> HIDE DEF i
      <3>2. j \in NotificationJobs /\ j.overtaken
        BY <3>1 DEF NotificationJobs
      <3>3. job' = [job EXCEPT ![w] = j]
        BY <2>4 DEF i
      <3> HIDE DEF j
      <3> QED
        BY <2>1, <2>2, <3>2, <3>3, NotificationGoto
    <2> QED
      BY <1>4, <2>3, <2>4 DEF Notification!CountFails
  <1> QED
    BY <1>3, <1>4

\* Every step of the notification module keeps its invariant.
LEMMA NotificationNext ==
    Notification!Inv /\ [Notification!Next]_(Notification!vars) => Notification!Inv'
  <1> SUFFICES ASSUME Notification!Inv, [Notification!Next]_(Notification!vars)
               PROVE  Notification!Inv'
    OBVIOUS
  <1>1. x1 \in [Pair -> {"none", "unread", "read"}] /\ x2 \subseteq Pair
    BY DEF Notification!Inv, Notification!TypeOK
  <1>2. ASSUME NEW n \in Pair, Notification!CreateAndPush(n)
        PROVE  Notification!Inv'
    BY <1>1, <1>2, NotificationExcused
       DEF Notification!CreateAndPush, Notification!Create, Notification!pushToWebSocket
  <1>3. ASSUME NEW n \in Pair, Notification!DeleteNotification(n)
        PROVE  Notification!Inv'
    BY <1>1, <1>3, NotificationExcused
       DEF Notification!DeleteNotification, Notification!Delete
  <1>6. ASSUME NEW c \in Conns, Notification!Subscribe(c) \/ Notification!Unsubscribe(c)
        PROVE  Notification!Inv'
    <2>1. /\ x1' = x1 /\ x2' = x2 /\ x3' = x3 /\ x4' = x4 /\ job' = job
          /\ x5' \subseteq Conns
      BY <1>6 DEF Notification!Subscribe, Notification!Unsubscribe, Notification!Inv,
           Notification!TypeOK
    <2>2. Notification!Unread' = Notification!Unread
      BY <2>1 DEF Notification!Unread
    <2> QED
      BY <2>1, <2>2 DEF Notification!Inv, Notification!TypeOK,
           Notification!PushesAreFresh, Notification!ShownCountIsRight
  <1>7. ASSUME NEW w \in Workers, Notification!Push(w) \/ Notification!Reply(w)
        PROVE  Notification!Inv'
    <2>1. PICK reached \in SUBSET job[w].to : Notification!Deliver(w, reached)
      BY <1>7 DEF Notification!Push, Notification!Reply
    <2> QED
      BY <1>7, <2>1, NotificationDelivered DEF Notification!Push, Notification!Reply
  <1>4. ASSUME NEW n \in Pair, Notification!Expire(n)
        PROVE  Notification!Inv'
    BY <1>1, <1>4, NotificationExcused DEF Notification!Expire
  <1>5. CASE UNCHANGED Notification!vars
    BY <1>5
       DEF Notification!vars, Notification!Inv, Notification!TypeOK,
           Notification!PushesAreFresh, Notification!ShownCountIsRight, Notification!Unread
  <1> QED
    BY <1>2, <1>3, <1>4, <1>5, <1>6, <1>7, NotificationMarked, NotificationCounted
       DEF Notification!Next, Notification!CreateNotification,
           Notification!SendBulkNotifications, Notification!CreateBulkAndPush,
           Notification!DeleteHandler

\* The notification module's invariant always holds.
THEOREM NotificationSafe == Spec => [](component = "notifications" => Notification!Inv)
  <1> DEFINE IInv == component = "notifications" => Notification!Inv
  <1>1. Init => IInv
    BY NotificationInit DEF Init
  <1>2. IInv /\ [Next]_vars => IInv'
    <2> SUFFICES ASSUME IInv, [Next]_vars, component' = "notifications"
                 PROVE  Notification!Inv'
      OBVIOUS
    <2>1. component = "notifications" /\ [Notification!Next]_(Notification!vars)
      BY DEF Next, vars, Notification!vars
    <2> QED
      BY <2>1, NotificationNext
  <1> QED
    BY <1>1, <1>2, PTL DEF Spec

\* However markings, counts and pushes of one user overlap, a connection with no
\* answer on its way shows the right unread count, or one of the named causes
\* put it off (MarkAsRead, MarkAllAsRead, handleMarkAsRead).
THEOREM CountsAreRight == Spec => []ShownCountIsRight
  <1> DEFINE IInv == component = "notifications" => Notification!Inv
  <1>1. IInv => ShownCountIsRight
    BY DEF ShownCountIsRight, Notification!Inv
  <1> QED
    BY <1>1, NotificationSafe, PTL
=============================================================================

----------------------------- MODULE Addresses -----------------------------
(***************************************************************************)
(* The addresses of one user and which of them is the default              *)
(* (UserHandler, UserService, UserAddressRepository).                      *)
(*                                                                         *)
(* An address that asks to be the default is stored with is_default set,   *)
(* and a transaction of its own then clears the others: requests and       *)
(* failures come between the two.  That transaction is two UPDATEs under   *)
(* READ COMMITTED: the first locks the rows of its snapshot and never      *)
(* meets one that is inserted after it.  An update of an address reads the *)
(* row and writes all of its columns back, is_default too.  Addresses of   *)
(* other users are refused before anything is changed.                     *)
(***************************************************************************)
EXTENDS FiniteSets, Naturals

CONSTANTS
    Ids,      \* addresses the user may come to have; a deleted one's id is not reused
    Workers   \* request slots

VARIABLES
    address,  \* per id: "none", "plain", "default" or "gone"
    job,      \* the request in each slot
    loose     \* history: defaults whose promotion failed, or which were created
              \* after the snapshot of one that succeeded

vars == <<address, job, loose>>

None == "none"
Gone == "gone"
Free == [pc |-> "idle", id |-> None, flag |-> None, seen |-> {}]
Flags == {"plain", "default"}

Init ==
    /\ address = [a \in Ids |-> None]
    /\ job = [w \in Workers |-> Free]
    /\ loose = {}

Rows == {a \in Ids : address[a] \in Flags}
Defaults == {a \in Ids : address[a] = "default"}

Done(w) == job' = [job EXCEPT ![w] = Free]

Goto(w, label, a, flag) ==
    job' = [job EXCEPT ![w] = [pc |-> label, id |-> a, flag |-> flag, seen |-> {}]]

\* Rows a transaction has written are locked until it ends
Locked(a) == \E w \in Workers : job[w].pc = "set" /\ a \in job[w].seen

\* Slot w has stored address a as a default and its promotion is not through
Promotes(w, a) ==
    job[w].pc \in {"promote", "clear", "set"} /\ job[w].flag = "default" /\ job[w].id = a

-----------------------------------------------------------------------------
(* UserAddressRepository *)

GetAddressByID(a) == a \in Rows

\* A default that was stored is promoted next, unless the answer is lost
Stored(w, a, flag) ==
    /\ address' = [address EXCEPT ![a] = flag]
    /\ \/ flag = "plain" /\ Done(w) /\ loose' = loose \ {a}
       \/ flag = "default" /\ Goto(w, "promote", a, flag) /\ loose' = loose \ {a}
       \/ flag = "default" /\ Done(w) /\ loose' = loose \cup {a}

Insert(w, a, flag) == address[a] = None /\ Stored(w, a, flag)

Update(w, a, flag) == a \in Rows /\ ~Locked(a) /\ Stored(w, a, flag)

Delete(a) ==
    /\ a \in Rows /\ ~Locked(a)
    /\ address' = [address EXCEPT ![a] = Gone]
    /\ loose' = loose \ {a}

\* The clearing UPDATE starts: it is to write the rows of its snapshot
BeginClearing(w) ==
    /\ job[w].pc = "promote"
    /\ job' = [job EXCEPT ![w].pc = "clear", ![w].seen = Rows]
    /\ UNCHANGED <<address, loose>>

\* It waits for the rows that another transaction has locked, and skips those
\* that have been deleted meanwhile
ClearDefaults(w) ==
    /\ job[w].pc = "clear"
    /\ \A a \in job[w].seen : ~Locked(a)
    /\ job' = [job EXCEPT ![w].pc = "set", ![w].seen = @ \cap Rows]
    /\ UNCHANGED <<address, loose>>

\* Mutant of SetDefault: the others are not cleared
SetDefaultOnly(a, seen) == address' = [address EXCEPT ![a] = "default"]

\* What the two UPDATEs have written becomes visible
SetDefault(a, seen) ==
    address' = [b \in Ids |-> IF b = a THEN "default"
                           ELSE IF b \in seen THEN "plain" ELSE address[b]]

\* The second UPDATE and the commit; without the row all is rolled back
SetAndCommit(w) ==
    /\ job[w].pc = "set"
    /\ IF job[w].id \in job[w].seen
       THEN /\ SetDefault(job[w].id, job[w].seen)
            /\ loose' = Defaults \ job[w].seen
       ELSE UNCHANGED <<address, loose>>
    /\ Done(w)

-----------------------------------------------------------------------------
(* UserService *)

CreateAddress(w, a, flag) == job[w] = Free /\ Insert(w, a, flag)

\* The row as read, with the request's is_default in place if it has one
UpdateAddress(w, a, asked) ==
    /\ job[w] = Free
    /\ GetAddressByID(a)
    /\ Goto(w, "update", a, IF asked = None THEN address[a] ELSE asked)
    /\ UNCHANGED <<address, loose>>

WriteAddress(w) ==
    /\ job[w].pc = "update"
    /\ \/ Update(w, job[w].id, job[w].flag)
       \/ ~GetAddressByID(job[w].id) /\ Done(w) /\ UNCHANGED <<address, loose>>

DeleteAddress(w, a) == job[w] = Free /\ Delete(a) /\ UNCHANGED job

SetDefaultAddress(w, a) ==
    /\ job[w] = Free
    /\ GetAddressByID(a)
    /\ Goto(w, "promote", a, "plain")    \* nothing is stored yet
    /\ UNCHANGED <<address, loose>>

\* A statement fails, or is the deadlock's victim, and the request with it; its
\* transaction is rolled back, what was stored before stays
Fail(w) ==
    /\ job[w] # Free
    /\ loose' = loose \cup {a \in Defaults : Promotes(w, a)}
    /\ Done(w)
    /\ UNCHANGED address

\* The requests that UserHandler lets through
UserHandler(w) ==
    \E a \in Ids :
       \/ \E flag \in Flags : CreateAddress(w, a, flag)
       \/ \E asked \in Flags \cup {None} : UpdateAddress(w, a, asked)
       \/ DeleteAddress(w, a) \/ SetDefaultAddress(w, a)

Next ==
    \E w \in Workers :
       \/ UserHandler(w) \/ WriteAddress(w)
       \/ BeginClearing(w) \/ ClearDefaults(w) \/ SetAndCommit(w)
       \/ Fail(w)

Spec == Init /\ [][Next]_vars

-----------------------------------------------------------------------------
(* Properties *)

TypeOK ==
    /\ address \in [Ids -> Flags \cup {None, Gone}]
    /\ job \in [Workers -> [pc : {"idle", "update", "promote", "clear", "set"},
                            id : Ids \cup {None}, flag : Flags \cup {None},
                            seen : SUBSET Ids]]
    /\ loose \subseteq Ids

\* However creations, stale updates, deletions and promotions of one user
\* overlap, two default addresses are left only by a promotion under way, by one
\* that failed, or by one whose snapshot was older than the other address; the
\* next promotion that sees them leaves one (CreateAddress, UpdateAddress,
\* SetDefaultAddress).
OneDefaultAddress ==
    Cardinality(Defaults \ loose) > 1 =>
        \E w \in Workers : job[w].pc \in {"promote", "clear", "set"}

-----------------------------------------------------------------------------
(* The inductive invariant behind OneDefaultAddress *)

\* A request under way is about an address and says what it is to be.
JobsAreComplete ==
    \A w \in Workers : job[w].pc # "idle" => job[w].id \in Ids /\ job[w].flag \in Flags

\* The address to promote was stored, and is in the snapshot unless deleted.
PromotedRowsWereSeen ==
    \A w \in Workers :
       /\ job[w].pc \in {"promote", "clear", "set"} => address[job[w].id] # None
       /\ job[w].pc \in {"clear", "set"} =>
             job[w].id \in job[w].seen \/ address[job[w].id] = Gone

\* A row stays while a transaction holds its lock.
LockedRowsStay == \A w \in Workers : job[w].pc = "set" => job[w].seen \subseteq Rows

\* Of two default addresses that are not loose one is about to be promoted by the
\* request that stored it.
PairsArePromoted ==
    \A a, b \in Defaults \ loose :
        a # b => \E w \in Workers : Promotes(w, a) \/ Promotes(w, b)

Inv ==
    /\ TypeOK
    /\ JobsAreComplete
    /\ PromotedRowsWereSeen
    /\ LockedRowsStay
    /\ PairsArePromoted
=============================================================================

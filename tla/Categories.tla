----------------------------- MODULE Categories -----------------------------
(***************************************************************************)
(* The category forest and category_closure, the table of its paths        *)
(* (CatalogService, CategoryRepository, fn_maintain_category_closure).     *)
(*                                                                         *)
(* An update reads the row, checks the new parent against the closure and  *)
(* writes every column back, parent_id too; requests come between.  The    *)
(* write is one statement whose trigger rewrites closure rows: it computes *)
(* on what is committed when it runs, and its own changes are seen when it *)
(* commits.  A key of the closure that exists already aborts it.  Names,   *)
(* slugs, images and is_active ride along in the same statement and are    *)
(* left out; a slug that is taken makes the statement fail.                *)
(***************************************************************************)
EXTENDS FiniteSets, Naturals

CONSTANTS
    Cats,     \* categories there may be
    Workers   \* request slots for updates

VARIABLES
    parent,   \* per category: its parent, Top, or None where there is no row
    closure,  \* category_closure: <<ancestor, descendant, depth>>
    job,      \* the update in each slot
    overlap   \* history: two statements that move categories ran at a time

vars == <<parent, closure, job, overlap>>

None == "none"
Top == "top"
Free == [pc |-> "idle", id |-> None, parent |-> None, del |-> {}, ins |-> {}]

Init ==
    /\ parent = [c \in Cats |-> None]
    /\ closure = {}
    /\ job = [w \in Workers |-> Free]
    /\ overlap = FALSE

Running == {w \in Workers : job[w].pc = "commit"}

-----------------------------------------------------------------------------
(* CategoryRepository and the trigger of product_categories *)

GetCategoryByID(c) == c \in Cats /\ parent[c] # None

IsAncestor(c, above) ==
    \/ c = above
    \/ \E row \in closure : row[1] = above /\ row[2] = c /\ row[3] > 0

Key(row) == <<row[1], row[2]>>
Below(c) == {row[2] : row \in {r \in closure : r[1] = c}}

\* INSERT branch of the trigger
closureOfNew(c, p) ==
    {<<c, c, 0>>} \cup {<<row[1], c, row[3] + 1>> : row \in {r \in closure : r[2] = p}}

\* UPDATE branch, first statement: c and what is below it are cut off
closureCut(c) == {row \in closure : row[2] \in Below(c) /\ row[1] \notin Below(c)}

\* UPDATE branch, second statement: every path to the new parent goes on to
\* everything below c
closureJoined(c, p) ==
    {<<pair[1][1], pair[2][2], pair[1][3] + pair[2][3] + 1>> :
        pair \in {r \in closure \ closureCut(c) : r[2] = p}
                 \X {r \in closure \ closureCut(c) : r[1] = c}}

\* Mutant of KeysFree: ON CONFLICT DO NOTHING
KeysIgnored(old, new) == TRUE

\* PRIMARY KEY (ancestor_id, descendant_id)
KeysFree(old, new) ==
    /\ \A row \in new : Key(row) \notin {Key(r) : r \in old}
    /\ \A r1, r2 \in new : Key(r1) = Key(r2) => r1 = r2

insertCategory(c, p) ==
    /\ parent' = [parent EXCEPT ![c] = p]
    /\ closure' = closure \cup closureOfNew(c, p)

\* The statement has run and is to commit; it holds the lock of its row
UpdateCategoryRow(w, c, p) ==
    LET moved == parent[c] # p
        cut == IF moved THEN closureCut(c) ELSE {}
        joined == IF moved /\ p # Top THEN closureJoined(c, p) ELSE {}
    IN
    /\ \A v \in Running : job[v].id # c
    /\ IF ~GetCategoryByID(c) \/ ~(p = Top \/ GetCategoryByID(p))
             \/ ~KeysFree(closure \ cut, joined)
       THEN job' = [job EXCEPT ![w] = Free] /\ UNCHANGED overlap
       ELSE /\ job' = [job EXCEPT ![w] = [pc |-> "commit", id |-> c, parent |-> p,
                                          del |-> cut, ins |-> joined]]
            /\ overlap' = (overlap \/ Running # {})

\* A row that is being updated, or that a new closure row refers to, is locked;
\* one with children is refused.  The closure's rows go with it.
DeleteCategoryRow(c) ==
    /\ GetCategoryByID(c)
    /\ \A v \in Running : job[v].id # c /\ \A row \in job[v].ins : c \notin {row[1], row[2]}
    /\ \A d \in Cats : parent[d] # c
    /\ parent' = [parent EXCEPT ![c] = None]
    /\ closure' = {row \in closure : row[1] # c /\ row[2] # c}

-----------------------------------------------------------------------------
(* CatalogService *)

createCategoryWithSlugRetry(c, p) == insertCategory(c, p)

\* The parent is still there: its row is locked by the foreign key's check
CreateCategory(c, p) ==
    /\ ~GetCategoryByID(c)
    /\ p # Top => GetCategoryByID(p)
    /\ createCategoryWithSlugRetry(c, p)
    /\ overlap' = (overlap \/ Running # {})
    /\ UNCHANGED job

\* The row as read, with the parent the request asks for, if it asks for one
UpdateCategory(w, c, asked) ==
    /\ job[w] = Free
    /\ GetCategoryByID(c)
    /\ \/ asked \in {None, Top}
       \/ asked # c /\ GetCategoryByID(asked) /\ ~IsAncestor(asked, c)
    /\ job' = [job EXCEPT ![w] = [Free EXCEPT !.pc = "write", !.id = c,
                                  !.parent = IF asked = None THEN parent[c] ELSE asked]]
    /\ UNCHANGED <<parent, closure, overlap>>

updateCategoryWithSlugRetry(w) ==
    /\ job[w].pc = "write"
    /\ UpdateCategoryRow(w, job[w].id, job[w].parent)
    /\ UNCHANGED <<parent, closure>>

\* A key that somebody else's statement has inserted since aborts this one
CommitUpdate(w) ==
    LET j == job[w] IN
    /\ j.pc = "commit"
    /\ IF KeysFree(closure \ j.del, j.ins)
       THEN /\ parent' = [parent EXCEPT ![j.id] = j.parent]
            /\ closure' = (closure \ j.del) \cup j.ins
       ELSE UNCHANGED <<parent, closure>>
    /\ job' = [job EXCEPT ![w] = Free]
    /\ UNCHANGED overlap

DeleteCategory(c) ==
    /\ DeleteCategoryRow(c)
    /\ overlap' = (overlap \/ Running # {})
    /\ UNCHANGED job

\* A statement fails, is rolled back, and the request with it
Fail(w) ==
    /\ job[w] # Free
    /\ job' = [job EXCEPT ![w] = Free]
    /\ UNCHANGED <<parent, closure, overlap>>

\* Bound: after an overlap the requests under way end and no others come, for
\* the closure's depths may grow without limit from there
Bound == ~overlap

\* What CatalogHandler lets through; its other category routes only read
CategoryHandlers ==
    Bound /\ \E c \in Cats, p \in Cats \cup {Top, None} :
       \/ p # None /\ CreateCategory(c, p)
       \/ \E w \in Workers : UpdateCategory(w, c, p)
       \/ DeleteCategory(c)

Next ==
    \/ CategoryHandlers
    \/ \E w \in Workers : updateCategoryWithSlugRetry(w) \/ CommitUpdate(w) \/ Fail(w)

Spec == Init /\ [][Next]_vars

-----------------------------------------------------------------------------
(* Properties *)

Rows == Cats \X Cats \X Nat

TypeOK ==
    /\ parent \in [Cats -> Cats \cup {Top, None}]
    /\ closure \subseteq Rows
    /\ job \in [Workers -> [pc : {"idle", "write", "commit"}, id : Cats \cup {None},
                            parent : Cats \cup {Top, None}, del : SUBSET Rows, ins : SUBSET Rows]]
    /\ overlap \in BOOLEAN

\* up[n][c] is the n-th category above c, or Top or None past the end
Up == 0..Cardinality(Cats)
up[n \in Up] ==
    [c \in Cats |-> IF n = 0 THEN c
                    ELSE LET d == up[n - 1][c] IN IF d \in Cats THEN parent[d] ELSE d]

Paths == {<<up[n][c], c, n>> : c \in {d \in Cats : parent[d] # None}, n \in Up}

\* Although the check for a cycle and the write are separate and the write takes
\* stale columns along, the categories stay a forest and category_closure lists
\* exactly its paths, as long as no two moving statements run at a time
\* (UpdateCategory, fn_maintain_category_closure).
ClosureIsTree ==
    ~overlap => /\ closure = {row \in Paths : row[1] \in Cats}
                /\ \A c \in Cats : parent[c] # None => up[Cardinality(Cats)][c] = Top

-----------------------------------------------------------------------------
(* The inductive invariant *)

\* par is a forest and clo the table of its paths, said of one step upwards: a
\* path of length n + 1 is one of length n from the parent
IsTree(par, clo) ==
    /\ clo \subseteq Rows
    /\ \A c \in Cats : par[c] \in Cats => par[par[c]] # None
    /\ \A c \in Cats : par[c] # None => <<c, c, 0>> \in clo
    /\ \A row \in clo :
          /\ par[row[1]] # None /\ par[row[2]] # None
          /\ row[3] = 0 => row[1] = row[2]
          /\ row[3] > 0 => par[row[2]] \in Cats /\ <<row[1], par[row[2]], row[3] - 1>> \in clo
          /\ \A c \in Cats : par[c] = row[2] => <<row[1], c, row[3] + 1>> \in clo
    /\ \A row1, row2 \in clo : Key(row1) = Key(row2) => row1 = row2

\* Without an overlap one statement at most is to commit, and leaves a forest
\* and its paths, as it was computed on what is committed still
Prepared(j) ==
    /\ GetCategoryByID(j.id)
    /\ j.parent \in Cats \cup {Top}
    /\ IsTree([parent EXCEPT ![j.id] = j.parent], (closure \ j.del) \cup j.ins)

Inv ==
    /\ TypeOK
    /\ ~overlap =>
          /\ IsTree(parent, closure)
          /\ \A w \in Running : Prepared(job[w]) /\ Running = {w}
=============================================================================

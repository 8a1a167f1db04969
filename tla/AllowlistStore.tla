--------------------------- MODULE AllowlistStore ---------------------------
(***************************************************************************)
(* The allowlist and the blocklist of one site                             *)
(* (server/auth/src/allowlist_store.cpp) and the admin RPCs that edit and  *)
(* list them (server/rpc/src/admin_service.cpp).                           *)
(*                                                                         *)
(* Every method holds the store's mutex from its first line to its return, *)
(* so a call is one step.  What a call does inside its transaction is      *)
(* computed row by row over the batch, as the loop does it.  Every query   *)
(* names its site, so one site stands for all of them.                     *)
(*                                                                         *)
(* A plate is its rank in the order the database sorts by; 0 is the empty  *)
(* string, which is also the token of the first page.  The texts callers   *)
(* send are spellings, which normalize_plate maps to plates.               *)
(***************************************************************************)
EXTENDS Integers, Sequences, FiniteSets, SequencesExt

CONSTANTS
  Plate,        \* normalised plates, as ranks
  Spelling,     \* plate texts as callers send them
  Normalize,    \* normalize_plate(): Spelling -> Plate \cup {0}
  VehicleClass,
  Entry,        \* entries an admin may submit
  Batch,        \* UpsertAllowlist requests: sequences of [text, entry]
  TextList,     \* lists of texts to delete
  PageSize,     \* page sizes a client may ask for
  DefaultPage,  \* what page_size 0 stands for: 100
  MaxPage       \* largest page: 1000

DayMinutes == 1440

\* A TimeWindow: days is the set of bits of days_of_week_mask.
Window == [start : 0..DayMinutes, end : 0..DayMinutes, days : SUBSET (0..6)]

ASSUME StoreAssumption ==
  /\ Plate \subseteq Nat \ {0} /\ IsFiniteSet(Plate)
  /\ Normalize \in [Spelling -> Plate \cup {0}]
  /\ \A e \in Entry : /\ e.from \in Nat /\ e.until \in Nat
                      /\ e.classes \subseteq VehicleClass
                      /\ e.windows \subseteq Window
  /\ Batch \subseteq Seq([text : Spelling, entry : Entry])
  /\ TextList \subseteq Seq(Spelling)
  /\ PageSize \subseteq Nat
  /\ DefaultPage \in Nat \ {0} /\ MaxPage \in Nat \ {0}

VARIABLES
  allow,  \* table allowlist with its classes and windows: plate -> entry
  block,  \* table blocklist
  reply,  \* the last answer of an admin call
  walk    \* the client that is listing the allowlist page by page

storeVars == <<allow, block, reply, walk>>

\* No row for the plate.
NoEntry == [from |-> -1, until |-> -1, classes |-> {}, windows |-> {}]

Listed(t) == {p \in Plate : t[p] # NoEntry}

\* lookup(): the empty plate has no row.
EntryOf(t, p) == IF p \in Plate THEN t[p] ELSE NoEntry

-----------------------------------------------------------------------------
(* When an entry admits a vehicle: is_allowed_now.  An instant is          *)
(* [unix, minute, wday]: wall clock, minute of the day, tm_wday (Sun = 0). *)

\* Broken variant: the end belongs to the window.
WindowContainsClosed(w, minute, day) ==
  /\ day \in w.days
  /\ IF w.start <= w.end THEN minute >= w.start /\ minute <= w.end
                         ELSE minute >= w.start \/ minute <= w.end

\* window_contains(): half-open, and past midnight when the end comes first.
WindowContains(w, minute, day) ==
  /\ day \in w.days
  /\ IF w.start <= w.end THEN minute >= w.start /\ minute < w.end
                         ELSE minute >= w.start \/ minute < w.end

ClassAllowed(e, c) == e.classes = {} \/ c \in e.classes

\* 0 in a date means that the date is not set.
IsAllowedNow(e, c, t) ==
  /\ e.from > 0 => t.unix >= e.from
  /\ e.until > 0 => t.unix < e.until
  /\ ClassAllowed(e, c)
  /\ \/ e.windows = {}
     \/ \E w \in e.windows : WindowContains(w, t.minute, (t.wday + 6) % 7)

-----------------------------------------------------------------------------
(* Edits.                                                                  *)

Done(n, u) == [ok |-> TRUE, inserted |-> n, updated |-> u]
Failed == [ok |-> FALSE, inserted |-> 0, updated |-> 0]

\* One row of a batch; a text that normalises to nothing throws.
UpsertRow(t, row) ==
  LET p == Normalize[row.text]
  IN IF t.failed \/ p = 0
     THEN [t EXCEPT !.failed = TRUE]
     ELSE [table |-> [t.table EXCEPT ![p] = row.entry], failed |-> FALSE,
           inserted |-> t.inserted + (IF t.table[p] = NoEntry THEN 1 ELSE 0),
           updated |-> t.updated + (IF t.table[p] = NoEntry THEN 0 ELSE 1)]

\* The transaction after the first n rows of the batch.
Transaction(b) ==
  LET after[n \in 0..Len(b)] ==
        IF n = 0 THEN [table |-> allow, failed |-> FALSE, inserted |-> 0, updated |-> 0]
                 ELSE UpsertRow(after[n - 1], b[n])
  IN after[Len(b)]

\* Broken variant: the rows before the one that throws stay.
UpsertWithoutRollback(b) ==
  LET t == Transaction(b)
  IN /\ allow' = t.table
     /\ reply' = IF t.failed THEN Failed ELSE Done(t.inserted, t.updated)
     /\ UNCHANGED block

\* UpsertAllowlist(): the whole batch or, when a row throws, ROLLBACK and nothing.
Upsert(b) ==
  LET t == Transaction(b)
  IN /\ IF t.failed THEN reply' = Failed /\ UNCHANGED allow
                    ELSE reply' = Done(t.inserted, t.updated) /\ allow' = t.table
     /\ UNCHANGED block

\* The plates a list of texts names.
Named(l) == {Normalize[l[i]] : i \in DOMAIN l}

\* DeleteAllowlist(): the sub-rows go with the row; "updated" counts removals.
DeleteAllowlist(l) ==
  /\ allow' = [p \in Plate |-> IF p \in Named(l) THEN NoEntry ELSE allow[p]]
  /\ reply' = Done(0, Cardinality(Listed(allow) \cap Named(l)))
  /\ UNCHANGED block

\* SQLite refuses a statement of an upsert or a remove: both roll back.
TransactionFails ==
  /\ reply' = Failed
  /\ UNCHANGED <<allow, block>>

\* blocklist_upsert(); a text that normalises to nothing throws.
BlocklistUpsert(s) ==
  /\ IF Normalize[s] = 0
     THEN reply' = Failed /\ UNCHANGED block
     ELSE reply' = Done(1, 0) /\ block' = block \cup {Normalize[s]}
  /\ UNCHANGED allow

\* blocklist_remove(): no transaction; the first n deletes stand when the next fails.
BlocklistRemove(l, n) ==
  LET gone == block \cap Named(SubSeq(l, 1, n))
  IN /\ block' = block \ gone
     /\ reply' = IF n < Len(l) THEN Failed ELSE Done(0, Cardinality(gone))
     /\ UNCHANGED allow

-----------------------------------------------------------------------------
(* Listings: a client asks for a page, then for the page after its token.  *)
(* steady is a history variable: the plates that have been on the          *)
(* allowlist in every state since the listing began.                       *)

NoWalk == [open |-> FALSE, token |-> 0, pages |-> <<>>, steady |-> {}]

Limit(size) ==
  LET n == IF size = 0 THEN DefaultPage ELSE size
  IN IF n > MaxPage THEN MaxPage ELSE n

\* ORDER BY plate_text
Ordered(S) ==
  CHOOSE r \in [1..Cardinality(S) -> S] : \A i, j \in DOMAIN r : i < j => r[i] < r[j]

\* Broken variant: the page starts with the token's own row.
RowsFromToken(token) == Ordered({p \in Listed(allow) : p >= token})

\* SELECT ... WHERE plate_text > token ORDER BY plate_text
Rows(token) == Ordered({p \in Listed(allow) : p > token})

\* list(): when a row past the limit shows that there is more, the page is
\* returned at once, before the classes and windows of its entries are read.
Page(size, token) ==
  LET rows == Rows(token)
      more == Len(rows) > Limit(size)
      bare(p) == [allow[p] EXCEPT !.classes = {}, !.windows = {}]
  IN IF more
     THEN [next |-> rows[Limit(size)],
           entries |-> [i \in 1..Limit(size) |-> [plate |-> rows[i], entry |-> bare(rows[i])]]]
     ELSE [next |-> 0,
           entries |-> [i \in DOMAIN rows |-> [plate |-> rows[i], entry |-> allow[rows[i]]]]]

\* The plates a listing has returned, in order.
Returned(w) == [i \in DOMAIN w.pages |-> w.pages[i].plate]

StartWalk ==
  /\ ~walk.open
  /\ walk' = [NoWalk EXCEPT !.open = TRUE, !.steady = Listed(allow)]
  /\ UNCHANGED <<allow, block, reply>>

\* ListAllowlist(): the next page; an empty next_page_token ends the listing.
NextPage(size) ==
  LET page == Page(size, walk.token)
  IN /\ walk.open
     /\ walk' = [walk EXCEPT !.open = page.next # 0, !.token = page.next,
                             !.pages = @ \o page.entries]
     /\ UNCHANGED <<allow, block, reply>>

\* One admin call that may change a table; an open listing sees which rows stay.
Edit ==
  /\ \/ \E b \in Batch : Upsert(b)
     \/ \E l \in TextList : DeleteAllowlist(l)
     \/ TransactionFails
     \/ \E s \in Spelling : BlocklistUpsert(s)
     \/ \E l \in TextList : \E n \in 0..Len(l) : BlocklistRemove(l, n)
  /\ walk' = [walk EXCEPT !.steady = @ \cap Listed(allow')]

StoreInit ==
  /\ allow = [p \in Plate |-> NoEntry]
  /\ block = {}
  /\ reply = Done(0, 0)
  /\ walk = NoWalk

-----------------------------------------------------------------------------

\* Minutes of the day counted from the start of the window, around midnight.
InWindow(w, minute) ==
  LET length == IF w.end >= w.start THEN w.end - w.start ELSE w.end - w.start + DayMinutes
  IN (minute - w.start) % DayMinutes < length

\* What an admin was told is what happened: a call that failed left the allowlist
\* alone, and the counts of a call that succeeded are the rows it added and
\* removed, however often and in however many spellings a batch names a plate
\* (upsert, remove).
AdminIsToldTheTruth ==
  [][ allow' # allow =>
        /\ reply'.ok
        /\ reply'.inserted = Cardinality(Listed(allow') \ Listed(allow))
        /\ Listed(allow) \ Listed(allow') # {} =>
             reply'.updated = Cardinality(Listed(allow) \ Listed(allow')) ]_storeVars

\* A listing is exact although rows come and go between its pages: plates are
\* returned in order and once, and a plate that was on the allowlist from the
\* first page to the last is among them (list's token and its limit + 1 rows).
ListingIsExact ==
  /\ \A i, j \in DOMAIN walk.pages : i < j => Returned(walk)[i] < Returned(walk)[j]
  /\ ~walk.open => walk.steady \subseteq Range(Returned(walk))

=============================================================================

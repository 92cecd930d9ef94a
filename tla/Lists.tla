------------------------------- MODULE Lists --------------------------------
(***************************************************************************)
(* Office screens that read from a diary while it is written to: a list    *)
(* paged by keyset cursors (cursor.ts), filtered in BookingList.vue and    *)
(* searched in CustomersPage.vue, and the times NewBooking.vue offers for  *)
(* the day that was chosen.  Reads overlap and answers arrive in any order. *)
(*                                                                         *)
(* BookingList.vue guards its answers with a token; the other two do not,  *)
(* and are as good as their operator is patient.                           *)
(***************************************************************************)
EXTENDS Integers, Sequences, FiniteSets, SequencesExt, Keyset

CONSTANTS
    Ids,       \* rows, numbered: the id breaks the ties of the sort column
    SortValue, \* the sort column of every row
    Filters,   \* filters of the booking list, or search texts for the customers
    Matches,   \* which rows a filter lets through
    Limit,     \* rows of a page
    Reads,     \* requests that may be under way at the same time
    Pages,     \* which of the screens are looked at
    Patient,   \* does the operator ask for more only of what has been loaded?
    MaxWrites  \* rows that come or go while the list is read

ASSUME ListsAssumption ==
    /\ Ids \subseteq Nat \ {0} /\ IsFiniteSet(Ids) /\ SortValue \in [Ids -> Nat] /\ Limit \in Nat \ {0}
    /\ Matches \in [Filters -> SUBSET Ids]
    /\ Pages \subseteq {"bookings", "customers", "new"} /\ Patient \in BOOLEAN

VARIABLES
    page,    \* the screen
    there,   \* rows that exist; on "new", the times that are free
    stood,   \* those of them that have stood since the list was begun
    list,    \* what the screen shows
    read,    \* the requests under way
    writes,
    booked   \* the appointments the screen asked for: what was shown, what was sent

lists == <<page, there, stood, list, read, writes, booked>>

None == 0
NoRead == [at |-> "idle"]

\* The total order: the requested column, then the id
Before(a, b) == SortValue[a] < SortValue[b] \/ (SortValue[a] = SortValue[b] /\ a < b)
InListOrder == {p \in Ids \X Ids : Before(p[1], p[2])}

ListsInit ==
    /\ page \in Pages
    /\ there \in SUBSET Ids
    /\ stood = {}
    /\ \E f \in Filters :
         list = [filter |-> f, shownFor |-> f, items |-> <<>>, next |-> None, token |-> 1,
                 loading |-> FALSE, loadingMore |-> FALSE, mounted |-> FALSE, picked |-> None]
    /\ read = [r \in Reads |-> NoRead]
    /\ writes = 0
    /\ booked = {}

-----------------------------------------------------------------------------
(* The server: one statement, so one instant                               *)

\* Mutant: rows that tie with the cursor are dropped
KeysetWithoutTie(id, cursor) == cursor = None \/ SortValue[cursor] < SortValue[id]

\* The cursor carries the last row's sort value and its id; the row itself may be gone
KeysetWhere(id, cursor) == cursor = None \/ Before(cursor, id)

\* The where clause without the cursor
Filtered(filter) == there \cap Matches[filter]

Selected(filter, cursor) ==
    Ordered({id \in Filtered(filter) : KeysetWhere(id, cursor)}, InListOrder)

\* limit + 1 rows are read; the extra one says that there is a next page
ToPage(rows) ==
    LET items == SubSeq(rows, 1, IF Len(rows) > Limit THEN Limit ELSE Len(rows)) IN
    [items |-> items, next |-> IF Len(rows) > Limit THEN Last(items) ELSE None]

\* The times of a day are not paged
Answer(r) ==
    LET rows == Selected(read[r].filter, read[r].cursor) IN
    IF page = "new" THEN [items |-> rows, next |-> None] ELSE ToPage(rows)

Serve(r) ==
    /\ read[r].at = "sent"
    /\ read' = [read EXCEPT ![r] =
         [at |-> "served", filter |-> @.filter, cursor |-> @.cursor, token |-> @.token,
          answer |-> Answer(r), stood |-> Filtered(read[r].filter)]]
    /\ UNCHANGED <<page, there, stood, list, writes, booked>>

-----------------------------------------------------------------------------
(* The screen                                                              *)

Send(r, filter, cursor, token) ==
    /\ read[r] = NoRead
    /\ read' = [read EXCEPT ![r] =
         [at |-> "sent", filter |-> filter, cursor |-> cursor, token |-> token]]

\* Mutant: a new load leaves the requests of the old one current
LoadingSameToken(f) ==
    [list EXCEPT !.filter = f, !.loading = TRUE, !.mounted = TRUE, !.picked = None]

\* Mutant: the time that was picked outlives its day
LoadingPicked(f) ==
    [list EXCEPT !.filter = f, !.loading = TRUE, !.mounted = TRUE,
                 !.token = IF page = "bookings" THEN 3 - @ ELSE @]

\* load of BookingList bumps the token; loadSlots drops the time that was picked
Loading(f) ==
    [list EXCEPT !.filter = f, !.loading = TRUE, !.mounted = TRUE, !.picked = None,
                 !.token = IF page = "bookings" THEN 3 - @ ELSE @]

\* What a patient operator waits for
Settled == Patient => ~list.loading /\ ~list.loadingMore

\* onMounted, the filters' watcher, or the search that is submitted
Load(r, f) ==
    /\ list.mounted => f # list.filter \/ page = "customers"
    /\ ~list.mounted => f = list.filter
    /\ page # "bookings" => Settled
    /\ page = "bookings" => {q \in Reads : read[q] # NoRead /\ read[q].token = 3 - list.token} = {}
    /\ list' = Loading(f)
    /\ Send(r, f, None, list'.token)
    /\ UNCHANGED <<page, there, stood, writes, booked>>

\* A failed load leaves the rows, the cursor and the button of the one before it.
\* CustomersPage sends what the search box holds, submitted or not.
LoadMore(r) ==
    /\ page # "new" /\ list.next # None
    /\ page = "bookings" => ~list.loadingMore
    /\ Settled /\ (Patient => list.shownFor = list.filter)
    /\ list' = [list EXCEPT !.loadingMore = TRUE]
    /\ \E f \in Filters :
         /\ f = list.filter \/ (page = "customers" /\ ~Patient)
         /\ Send(r, f, list.next, list.token)
    /\ UNCHANGED <<page, there, stood, writes, booked>>

Current(r) == page = "bookings" => read[r].token = list.token

\* Appended if it continues a list, painted if it begins one
Painted(r) ==
    IF read[r].cursor # None
    THEN [list EXCEPT !.items = @ \o read[r].answer.items, !.next = read[r].answer.next,
                      !.loadingMore = FALSE]
    ELSE [list EXCEPT !.items = read[r].answer.items, !.next = read[r].answer.next,
                      !.loading = FALSE, !.shownFor = read[r].filter]

Arrive(r) ==
    /\ read[r].at = "served"
    /\ read' = [read EXCEPT ![r] = NoRead]
    /\ IF Current(r)
       THEN /\ list' = Painted(r)
            /\ stood' = IF read[r].cursor = None THEN read[r].stood ELSE stood
       ELSE /\ list' = IF read[r].cursor = None THEN list ELSE [list EXCEPT !.loadingMore = FALSE]
            /\ UNCHANGED stood
    /\ UNCHANGED <<page, there, writes, booked>>

\* An error leaves the rows; NewBooking shows no times
Fail(r) ==
    /\ read[r] # NoRead
    /\ read' = [read EXCEPT ![r] = NoRead]
    /\ list' = IF read[r].cursor # None THEN [list EXCEPT !.loadingMore = FALSE]
               ELSE IF ~Current(r) THEN list
               ELSE IF page = "new" THEN [list EXCEPT !.loading = FALSE, !.items = <<>>]
               ELSE [list EXCEPT !.loading = FALSE]
    /\ UNCHANGED <<page, there, stood, writes, booked>>

\* The times are hidden behind the skeleton while they are read
PickSlot(id) ==
    /\ page = "new" /\ ~list.loading
    /\ id \in ToSet(list.items)
    /\ list' = [list EXCEPT !.picked = id]
    /\ UNCHANGED <<page, there, stood, read, writes, booked>>

\* Refused if the time has gone, and then the day is read again
Submit(r) ==
    /\ page = "new" /\ list.picked # None
    /\ booked' = booked \cup {<<list.filter, list.picked>>}
    /\ \/ /\ list.picked \in there
          /\ there' = there \ {list.picked}
          /\ list' = [list EXCEPT !.picked = None]
          /\ UNCHANGED read
       \/ /\ list.picked \notin there
          /\ list' = Loading(list.filter)
          /\ Send(r, list.filter, None, list.token)
          /\ UNCHANGED there
    /\ UNCHANGED <<page, stood, writes>>

\* Rows come, and rows go or stop matching
Write(id) ==
    /\ writes < MaxWrites
    /\ writes' = writes + 1
    /\ there' = IF id \in there THEN there \ {id} ELSE there \cup {id}
    /\ stood' = stood \ {id}
    /\ read' = [r \in Reads |-> IF read[r].at = "served"
                                THEN [read[r] EXCEPT !.stood = @ \ {id}] ELSE read[r]]
    /\ UNCHANGED <<page, list, booked>>

ListsNext ==
    \/ \E r \in Reads :
         \/ \E f \in Filters : Load(r, f)
         \/ LoadMore(r) \/ Submit(r)
         \/ Serve(r) \/ Arrive(r) \/ Fail(r)
    \/ \E id \in Ids : PickSlot(id) \/ Write(id)

-----------------------------------------------------------------------------
(* Properties                                                              *)

\* The time that is booked by hand is one of the day the form shows, not of the day that
\* was chosen before (loadSlots and startsAt in NewBooking.vue).
BookedAsShown == \A b \in booked : b[2] \in Matches[b[1]]

\* A list says what it seems to say: in order, no row twice, none that the filter it was
\* loaded for leaves out, and no row missing that stood there all along and sorts before
\* the last one shown - or at all, once there is nothing more to load; and what is booked
\* from a list of times is of that list (cursor.ts, requestToken in BookingList.vue).
ListIsWhole ==
    /\ BookedAsShown
    /\ page # "new" =>
        /\ \A i, j \in DOMAIN list.items : i < j => Before(list.items[i], list.items[j])
        /\ ToSet(list.items) \subseteq Matches[list.shownFor]
        /\ \A id \in stood :
             \/ id \in ToSet(list.items)
             \/ list.next # None /\ Before(Last(list.items), id)
=============================================================================

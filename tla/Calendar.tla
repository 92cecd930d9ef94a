------------------------------ MODULE Calendar ------------------------------
(***************************************************************************)
(* Everything that writes to an employee's calendar: reservations and      *)
(* moves, blocked time and leave under the employees' advisory locks, and  *)
(* the rota, closures and the catalog, which take no lock.                 *)
(*                                                                         *)
(* A locking transaction is four kinds of step: it begins with what it     *)
(* read outside, takes its locks one by one, checks, and writes as it      *)
(* commits.  One service is for sale.                                      *)
(***************************************************************************)
EXTENDS Availability, Sequences

CONSTANTS
    Employees,   \* numbers, so that ids have an order
    Weeks,       \* working hours somebody may have
    ExtraSpans,  \* minutes an EXTRA_HOURS exception may cover
    Blocks,      \* blocked times somebody may ask for: <<employee, interval>>
    Absences,    \* days of leave somebody may ask for: <<employee, date>>
    Offerings,   \* durations and buffers the service may have
    BookAt,      \* instants somebody asks for
    Booked,      \* appointments there are to begin with: sequences of <<employee, start>>
    Notice, Horizon, \* settings.minimumNoticeHours, settings.bookingHorizonDays
    Clock,       \* instants at which things happen
    Txs,         \* concurrent transactions
    MaxBookings,        \* bound on rows
    MaxTxs, MaxEdits    \* bounds on transactions and edits, by the area that is edited

Areas == {"closures", "leave", "rota", "catalog"}

ASSUME CalendarAssumption ==
    /\ Employees \subseteq Nat /\ IsFiniteSet(Employees)
    /\ Absences \subseteq Employees \X Dates
    /\ Blocks \subseteq Employees \X (Instants \X Instants)
    /\ Booked \subseteq Seq(Employees \X BookAt)
    /\ BookAt \subseteq Instants /\ Clock \subseteq Instants /\ 0 \in Clock
    /\ {Notice, Horizon, MaxBookings} \subseteq Nat
    /\ {MaxTxs, MaxEdits} \subseteq [Areas -> Nat]

\* services_duration_check, and the minutes checks of hours, breaks and exceptions
ASSUME OfferingsAssumption == Offerings \subseteq [duration : Nat \ {0}, prep : Nat, cleanup : Nat]
ASSUME RotaAssumption ==
    /\ Weeks \subseteq SUBSET [weekday : Nat, span : Minutes \X Minutes, breaks : SUBSET (Minutes \X Minutes)]
    /\ ExtraSpans \subseteq Minutes \X Minutes

VARIABLES
    now,
    bookings,   \* rows: [employee, start, sold, live]
    blocked,    \* rows: <<employee, interval>>
    leave,      \* the time-off row of an employee and a day, by status
    closed,     \* dates closed for everyone
    hours, exceptions,  \* the rota
    staff,      \* [archived, online] of an employee
    performs,   \* employees assigned to the service
    service,    \* [archived, online, sold, filed]: filed under the category or not
    category,   \* is the category archived?
    tx,         \* locking transactions
    pending,    \* checks made outside a transaction, whose write is still to come
    reporting,  \* employees whose rota was written, and the conflicts not yet read
    reported,   \* bookings the office was told about
    excused,    \* ghost: what was overtaken between a check and its write
    area, begun, edits \* bounds: what the office edits in a behaviour, and counters

calendar == <<bookings, blocked, leave, closed>>
rota == <<hours, exceptions>>
catalog == <<staff, performs, service, category>>
office == <<pending, reporting, reported>>
counters == <<area, begun, edits>>
vars == <<now, calendar, rota, catalog, tx, office, excused, counters>>

Rows == 1..MaxBookings
None == [live |-> FALSE]
Idle == [op |-> "idle", locks |-> {}, held |-> {}]

-----------------------------------------------------------------------------
(* What the rows say.                                                      *)

Live(e) == {b \in Rows : bookings[b].live /\ bookings[b].employee = e}
Ahead(e) == {b \in Live(e) : bookings[b].start + bookings[b].sold.duration > now}
Block(b) == BlockAt(bookings[b].start, bookings[b].sold)
RotaOf(e) == [hours |-> hours[e],
              exceptions |-> {x.rule : x \in {y \in exceptions : y.employee = e}}]

\* loadBusy: live bookings on block time, and blocked times
Busy(e) == {Block(b) : b \in Live(e)} \cup {x[2] : x \in {y \in blocked : y[1] = e}}

\* Only APPROVED leave removes a day
LeaveOf(e) == {x[2] : x \in {y \in Absences : y[1] = e /\ leave[y] = "APPROVED"}}

Snapshot(e) ==
    [rota |-> RotaOf(e), leave |-> LeaveOf(e), busy |-> Busy(e), closed |-> closed,
     sold |-> service.sold, now |-> now, notice |-> Notice, horizon |-> Horizon]

\* loadService and loadEmployeeIds find something
Sellable(e) ==
    /\ ~service.archived /\ service.online
    /\ e \in performs /\ staff[e].online /\ ~staff[e].archived

Free(e, start, actor) ==
    /\ Sellable(e)
    /\ isSlotBookable(IF actor = "OFFICE" THEN asOfficeSnapshot(Snapshot(e)) ELSE Snapshot(e), start)

BookingsOn(date) ==
    [e \in Employees |-> Cardinality({b \in Live(e) : Local[bookings[b].start][1] = date})]

-----------------------------------------------------------------------------
Init ==
    /\ now = 0
    /\ service \in {[archived |-> FALSE, online |-> TRUE, filed |-> FALSE, sold |-> o] : o \in Offerings}
    /\ \E first \in Booked : bookings = [b \in Rows |->
          IF b > Len(first) THEN None
          ELSE [live |-> TRUE, employee |-> first[b][1], start |-> first[b][2], sold |-> service.sold]]
    /\ blocked = {} /\ exceptions = {}
    /\ closed = {}
    /\ leave \in [Absences -> {"none", "APPROVED"}]
    /\ \A e \in Employees : \A b \in Live(e) :
          /\ Local[bookings[b].start][1] \notin LeaveOf(e)
          /\ \A c \in Live(e) \ {b} : ~overlaps(Block(b), Block(c))
    /\ \E week \in Weeks : hours = [e \in Employees |-> week]
    /\ \A b \in Rows : bookings[b].live => IsCovered(RotaOf(bookings[b].employee), Block(b))
    /\ staff = [e \in Employees |-> [archived |-> FALSE, online |-> TRUE]]
    /\ performs = Employees
    /\ category = FALSE
    /\ tx = [t \in Txs |-> Idle]
    /\ pending = {} /\ reporting = {} /\ reported = {} /\ excused = {}
    /\ area \in Areas /\ begun = 0 /\ edits = 0
-----------------------------------------------------------------------------
(* Transactions.  Requests are made one at a time by a page or a caller.   *)
(* Bound: what the office changes in a behaviour is in one area.           *)

Begin(t, request) ==
    /\ tx[t] = Idle /\ begun < MaxTxs[area]
    /\ tx' = [tx EXCEPT ![t] = request]
    /\ begun' = begun + 1
    /\ UNCHANGED <<now, calendar, rota, catalog, office, excused, area, edits>>

Request(op, locks, args) == [op |-> op, locks |-> locks, held |-> {}, passed |-> FALSE, args |-> args]

Locked(t, op) == tx[t].op = op /\ tx[t].held = tx[t].locks

\* The check passed; args carries what it read to the write
Pass(t, args) ==
    /\ tx' = [tx EXCEPT ![t].passed = TRUE, ![t].args = args]
    /\ UNCHANGED <<now, calendar, rota, catalog, office, excused, counters>>

\* An error rolls back and releases the locks
Refuse(t) ==
    /\ tx' = [tx EXCEPT ![t] = Idle]
    /\ UNCHANGED <<now, calendar, rota, catalog, office, excused, counters>>

\* Mutant: the locks are taken in the order of the request, not of the ids
TakeLockAsAsked(t) ==
    /\ \E e \in tx[t].locks \ tx[t].held :
          /\ tx[t].op = "move" /\ tx[t].held = {} => e = tx[t].args.was.employee
          /\ \A u \in Txs : e \notin tx[u].held
          /\ tx' = [tx EXCEPT ![t].held = @ \cup {e}]
    /\ UNCHANGED <<now, calendar, rota, catalog, office, excused, counters>>

\* withCalendarLock: the locks in order of the ids, each waited for
NextLock(t) == CHOOSE e \in tx[t].locks \ tx[t].held : \A f \in tx[t].locks \ tx[t].held : e <= f

TakeLock(t) ==
    /\ tx[t].held # tx[t].locks
    /\ \A u \in Txs : NextLock(t) \notin tx[u].held
    /\ tx' = [tx EXCEPT ![t].held = @ \cup {NextLock(t)}]
    /\ UNCHANGED <<now, calendar, rota, catalog, office, excused, counters>>

-----------------------------------------------------------------------------
(* Reservations, by a customer or by the office.                           *)

\* A fixed number of days as time, where the engine ends with the last local day
WithinBookingWindow(start) == now + Notice <= start /\ start <= now + Horizon * DayEnd

\* A named employee is checked under the lock
BeginReserve(t) ==
    \E e \in Employees, start \in BookAt, actor \in {"CUSTOMER", "OFFICE"} :
        /\ ~service.archived /\ service.online
        /\ actor = "CUSTOMER" => WithinBookingWindow(start)
        /\ Begin(t, Request("reserve", {e}, [employee |-> e, start |-> start, actor |-> actor]))

\* "Any employee" is one of those free now, the least busy that day
BeginReserveAny(t) ==
    \E start \in BookAt :
        LET free == {e \in Employees : Free(e, start, "CUSTOMER")}
            e == selectEmployee(free, BookingsOn(Local[start][1]))
        IN  /\ WithinBookingWindow(start) /\ free # {}
            /\ Begin(t, Request("reserve", {e}, [employee |-> e, start |-> start, actor |-> "CUSTOMER"]))

\* The snapshot is read under the lock; the row keeps the service it read
CheckReserve(t) ==
    /\ Locked(t, "reserve") /\ ~tx[t].passed
    /\ LET a == tx[t].args
       IN  IF Free(a.employee, a.start, a.actor)
           THEN Pass(t, [live |-> TRUE, employee |-> a.employee, start |-> a.start, sold |-> service.sold])
           ELSE Refuse(t)

\* bookings_no_overlap
NoOverlap(row, rows) ==
    \A b \in Rows : rows[b].live /\ rows[b].employee = row.employee =>
        ~overlaps(BlockAt(row.start, row.sold), BlockAt(rows[b].start, rows[b].sold))

\* Tags of a booking last as long as its row
StillHolds(x, rows) == x[1] \in {"cover", "retired"} => rows[x[2]].live

\* What an insert overtook: the rota, or a count of the appointments there are
Overtaken(b, row) ==
    {x \in {<<"cover", b>>, <<"retired", b>>} :
        IF x[1] = "cover" THEN ~IsCovered(RotaOf(row.employee), BlockAt(row.start, row.sold))
        ELSE \/ staff[row.employee].archived \/ row.employee \notin performs \/ service.archived
             \/ {<<"employee", row.employee>>, <<"pairing", row.employee>>, <<"service">>} \cap pending # {}}

Insert(t, row, rows) ==
    LET b == CHOOSE c \in Rows : ~rows[c].live /\ \A d \in Rows : d < c => rows[d].live
    IN  /\ \E c \in Rows : ~rows[c].live
        /\ bookings' = [rows EXCEPT ![b] = row]
        /\ reported' = {c \in reported : rows[c].live}
        /\ excused' = {x \in excused : StillHolds(x, rows)} \cup Overtaken(b, row)
        /\ tx' = [tx EXCEPT ![t] = Idle]
        /\ UNCHANGED <<now, blocked, leave, closed, rota, catalog, pending, reporting, counters>>

WriteReserve(t) ==
    /\ Locked(t, "reserve") /\ tx[t].passed
    /\ IF NoOverlap(tx[t].args, bookings) THEN Insert(t, tx[t].args, bookings) ELSE Refuse(t)

-----------------------------------------------------------------------------
(* An approved move holds both employees' calendars.                       *)

BeginMove(t) ==
    \E b \in Rows, e \in Employees, start \in BookAt :
        /\ area # "leave" /\ bookings[b].live
        /\ Begin(t, Request("move", {bookings[b].employee, e},
                            [was |-> bookings[b], row |-> b, employee |-> e, start |-> start]))

CheckMove(t) ==
    /\ Locked(t, "move") /\ ~tx[t].passed
    /\ LET a == tx[t].args
       IN  IF /\ bookings[a.row] = a.was
              /\ Sellable(a.employee)
              /\ isSlotBookable(asSoldSnapshot(Snapshot(a.employee), a.was.sold), a.start)
           THEN Pass(t, a) ELSE Refuse(t)

\* The replacement is inserted beside the original, which then ends whatever became of it
WriteMove(t) ==
    /\ Locked(t, "move") /\ tx[t].passed
    /\ LET a == tx[t].args
           row == [a.was EXCEPT !.employee = a.employee, !.start = a.start]
           ended == IF bookings[a.row] = a.was THEN [bookings EXCEPT ![a.row] = None] ELSE bookings
       IN  IF NoOverlap(row, bookings) THEN Insert(t, row, ended) ELSE Refuse(t)

Cancel(b) ==
    /\ bookings[b].live /\ edits < MaxEdits[area]
    /\ edits' = edits + 1
    /\ bookings' = [bookings EXCEPT ![b] = None]
    /\ reported' = reported \ {b}
    /\ excused' = {x \in excused : StillHolds(x, bookings')}
    /\ UNCHANGED <<now, blocked, leave, closed, rota, catalog, tx, pending, reporting, area, begun>>
-----------------------------------------------------------------------------
(* Blocked time and leave, under the same locks.                           *)

BeginBlock(t) ==
    \E x \in Blocks :
        /\ area = "closures"
        /\ Begin(t, Request("block", {x[1]}, [employee |-> x[1], span |-> x[2]]))

\* Mutant: the appointment is looked at, not the time around it that is also taken
CheckBlockAppointment(t) ==
    /\ Locked(t, "block") /\ ~tx[t].passed
    /\ LET a == tx[t].args
       IN  IF \E b \in Live(a.employee) :
                overlaps(<<bookings[b].start, bookings[b].start + bookings[b].sold.duration>>, a.span)
           THEN Refuse(t) ELSE Pass(t, a)

\* Compared on block time
CheckBlock(t) ==
    /\ Locked(t, "block") /\ ~tx[t].passed
    /\ LET a == tx[t].args
       IN  IF \E b \in Live(a.employee) : overlaps(Block(b), a.span) THEN Refuse(t) ELSE Pass(t, a)

\* blocked_times_no_overlap is the backstop
WriteBlock(t) ==
    /\ Locked(t, "block") /\ tx[t].passed
    /\ LET a == tx[t].args
       IN  IF \E x \in blocked : x[1] = a.employee /\ overlaps(x[2], a.span) THEN Refuse(t)
           ELSE /\ blocked' = blocked \cup {<<a.employee, a.span>>}
                /\ tx' = [tx EXCEPT ![t] = Idle]
                /\ UNCHANGED <<now, bookings, leave, closed, rota, catalog, office, excused, counters>>

\* A row of one day; rows of several days are several
BeginLeave(t) ==
    \E x \in Absences, status \in {"REQUESTED", "APPROVED"} :
        /\ area \in {"closures", "leave"} /\ leave[x] = "none"
        /\ Begin(t, Request("leave", {x[1]}, [row |-> x, status |-> status, seen |-> "none"]))

\* The row is read before the lock is taken
BeginDecide(t) ==
    \E x \in Absences, status \in {"REQUESTED", "APPROVED", "REJECTED"} :
        /\ leave[x] # "none"
        /\ Begin(t, Request("leave", {x[1]}, [row |-> x, status |-> status, seen |-> leave[x]]))

BookingsInRange(x) == {b \in Live(x[1]) : Local[bookings[b].start][1] = x[2]}

\* Leave that was approved when it was read is not checked again
CheckLeave(t) ==
    /\ Locked(t, "leave") /\ ~tx[t].passed
    /\ LET a == tx[t].args
       IN  IF a.status = "APPROVED" /\ a.seen # "APPROVED" /\ BookingsInRange(a.row) # {}
           THEN Refuse(t) ELSE Pass(t, a)

WriteLeave(t) ==
    /\ Locked(t, "leave") /\ tx[t].passed
    /\ LET a == tx[t].args
           tag == <<"leave", a.row>>
       IN  /\ leave' = [leave EXCEPT ![a.row] = a.status]
           /\ excused' = IF a.status # "APPROVED" THEN excused \ {tag}
                         ELSE IF a.seen = "APPROVED" /\ leave[a.row] # "APPROVED"
                                 /\ BookingsInRange(a.row) # {}
                              THEN excused \cup {tag} ELSE excused
    /\ tx' = [tx EXCEPT ![t] = Idle]
    /\ UNCHANGED <<now, bookings, blocked, closed, rota, catalog, office, counters>>

-----------------------------------------------------------------------------
(* Edits that take no lock.                                                *)

Edit(where) ==
    /\ area = where /\ edits < MaxEdits[area]
    /\ edits' = edits + 1
    /\ UNCHANGED <<now, tx, area, begun>>

DeleteBlock ==
    /\ Edit("closures")
    /\ \E x \in blocked : blocked' = blocked \ {x}
    /\ UNCHANGED <<bookings, leave, closed, rota, catalog, office, excused>>

\* Appointments of the day are left standing
CloseDay ==
    /\ Edit("closures")
    /\ \E d \in Dates \ closed : closed' = closed \cup {d}
    /\ UNCHANGED <<bookings, blocked, leave, rota, catalog, office, excused>>

OpenDay ==
    /\ Edit("closures")
    /\ \E d \in closed : closed' = closed \ {d}
    /\ UNCHANGED <<bookings, blocked, leave, rota, catalog, office, excused>>

Uncovered(e) == {b \in Ahead(e) : ~IsCovered(RotaOf(e), Block(b))}

\* Mutant: the conflicts are read before the week is written
ReplaceWorkingHoursReadingFirst(e) ==
    /\ Edit("rota")
    /\ \E week \in Weeks \ {hours[e]} : hours' = [hours EXCEPT ![e] = week]
    /\ reported' = reported \cup Uncovered(e)
    /\ UNCHANGED <<calendar, exceptions, catalog, pending, reporting, excused>>

\* The week is written, and then the conflicts are read
ReplaceWorkingHours(e) ==
    /\ Edit("rota")
    /\ \E week \in Weeks \ {hours[e]} : hours' = [hours EXCEPT ![e] = week]
    /\ reporting' = reporting \cup {e}
    /\ UNCHANGED <<calendar, exceptions, catalog, pending, reported, excused>>

CreateException(e) ==
    /\ Edit("rota")
    /\ \E d \in Dates, kind \in {"CLOSED", "EXTRA_HOURS"}, span \in ExtraSpans :
          exceptions' = exceptions \cup {[employee |-> e, rule |->
              [date |-> d, kind |-> kind, span |-> IF kind = "CLOSED" THEN <<0, 0>> ELSE span]]}
    /\ reporting' = reporting \cup {e}
    /\ UNCHANGED <<calendar, hours, catalog, pending, reported, excused>>

ReportConflicts(e) ==
    /\ e \in reporting
    /\ reporting' = reporting \ {e}
    /\ reported' = reported \cup Uncovered(e)
    /\ UNCHANGED <<now, calendar, rota, catalog, tx, pending, excused, counters>>

\* Nobody is told what a deleted exception leaves uncovered
DeleteException(e) ==
    /\ Edit("rota")
    /\ \E x \in {y \in exceptions : y.employee = e} : exceptions' = exceptions \ {x}
    /\ UNCHANGED <<calendar, hours, catalog, office>>
    /\ excused' = excused \cup {<<"cover", b>> : b \in
          {c \in Ahead(e) : ~IsCovered(RotaOf(e)', Block(c))} \ reported}
-----------------------------------------------------------------------------
(* The catalog.  A count or a look comes first, the write after it.        *)

Looked(what) ==
    /\ Edit("catalog") /\ what \notin pending
    /\ pending' = pending \cup {what}
    /\ UNCHANGED <<calendar, rota, catalog, reporting, reported, excused>>

Written(what) ==
    /\ what \in pending
    /\ pending' = pending \ {what}
    /\ UNCHANGED <<now, calendar, rota, tx, reporting, reported, counters>>

\* Mutant: an appointment that has begun is no longer counted
CountForEmployeeByStart(e) ==
    /\ ~staff[e].archived /\ \A b \in Ahead(e) : bookings[b].start <= now
    /\ Looked(<<"employee", e>>)

\* Appointments to come, or still going on: measured on their end
CountForEmployee(e) ==
    /\ ~staff[e].archived /\ Ahead(e) = {}
    /\ Looked(<<"employee", e>>)

ArchiveEmployee(e) ==
    /\ Written(<<"employee", e>>)
    /\ staff' = [staff EXCEPT ![e].archived = TRUE]
    /\ UNCHANGED <<performs, service, category, excused>>

UpdateEmployee(e) ==
    /\ Edit("catalog")
    /\ staff' = [staff EXCEPT ![e].online = ~@]
    /\ UNCHANGED <<calendar, rota, performs, service, category, office, excused>>

CountForPairing(e) ==
    /\ e \in performs /\ Ahead(e) = {}
    /\ Looked(<<"pairing", e>>)

RemovePairing(e) ==
    /\ Written(<<"pairing", e>>)
    /\ performs' = performs \ {e}
    /\ UNCHANGED <<staff, service, category, excused>>

AddPairing(e) ==
    /\ Edit("catalog") /\ e \notin performs
    /\ performs' = performs \cup {e}
    /\ UNCHANGED <<calendar, rota, staff, service, category, office, excused>>

CountForService ==
    /\ ~service.archived /\ \A e \in Employees : Ahead(e) = {}
    /\ Looked(<<"service">>)

ArchiveService ==
    /\ Written(<<"service">>)
    /\ service' = [service EXCEPT !.archived = TRUE]
    /\ UNCHANGED <<staff, performs, category, excused>>

\* A new duration is for new bookings: rows keep what they were sold with
UpdateService ==
    /\ Edit("catalog")
    /\ \E sold \in Offerings, online \in BOOLEAN :
          service' = [service EXCEPT !.sold = sold, !.online = online]
    /\ UNCHANGED <<calendar, rota, staff, performs, category, office, excused>>

CountForCategory ==
    /\ ~category /\ (service.filed => service.archived)
    /\ Looked(<<"category">>)

ArchiveCategory ==
    /\ Written(<<"category">>)
    /\ category' = TRUE
    /\ UNCHANGED <<staff, performs, service, excused>>

\* assertCategoryUsable
LookAtCategory ==
    /\ ~category /\ ~service.filed
    /\ Looked(<<"file">>)

FileService ==
    /\ Written(<<"file">>)
    /\ service' = [service EXCEPT !.filed = TRUE]
    /\ excused' = IF category \/ <<"category">> \in pending THEN excused \cup {<<"filed">>} ELSE excused
    /\ UNCHANGED <<staff, performs, category>>

Tick ==
    /\ \E i \in Clock : i > now /\ now' = i
    /\ UNCHANGED <<calendar, rota, catalog, tx, office, excused, counters>>

-----------------------------------------------------------------------------
Transact(t) ==
    \/ BeginReserve(t) \/ BeginReserveAny(t) \/ CheckReserve(t) \/ WriteReserve(t)
    \/ BeginMove(t) \/ CheckMove(t) \/ WriteMove(t)
    \/ BeginBlock(t) \/ CheckBlock(t) \/ WriteBlock(t)
    \/ BeginLeave(t) \/ BeginDecide(t) \/ CheckLeave(t) \/ WriteLeave(t)
    \/ TakeLock(t)

Administer(e) ==
    \/ ReplaceWorkingHours(e) \/ CreateException(e) \/ DeleteException(e) \/ ReportConflicts(e)
    \/ CountForEmployee(e) \/ ArchiveEmployee(e) \/ UpdateEmployee(e)
    \/ CountForPairing(e) \/ RemovePairing(e) \/ AddPairing(e)

Next ==
    \/ \E t \in Txs : Transact(t)
    \/ \E e \in Employees : Administer(e)
    \/ \E b \in Rows : Cancel(b)
    \/ DeleteBlock \/ CloseDay \/ OpenDay
    \/ CountForService \/ ArchiveService \/ UpdateService
    \/ CountForCategory \/ ArchiveCategory \/ LookAtCategory \/ FileService
    \/ Tick

Spec == Init /\ [][Next]_vars

-----------------------------------------------------------------------------
TypeOK ==
    /\ now \in Clock
    /\ \A b \in Rows : bookings[b] = None \/
          /\ bookings[b].live /\ bookings[b].employee \in Employees
          /\ bookings[b].start \in BookAt /\ bookings[b].sold \in Offerings
    /\ blocked \subseteq Blocks
    /\ leave \in [Absences -> {"none", "REQUESTED", "APPROVED", "REJECTED"}]
    /\ closed \subseteq Dates
    /\ hours \in [Employees -> Weeks]
    /\ staff \in [Employees -> [archived : BOOLEAN, online : BOOLEAN]]
    /\ performs \subseteq Employees
    /\ area \in Areas
    /\ reporting \subseteq Employees /\ reported \subseteq Rows

Waits(t, u) == /\ t # u /\ tx[t].held # tx[t].locks
               /\ NextLock(t) \in tx[u].held

(* Transactions that want several calendars never wait for each other in a
   circle: withCalendarLock() takes the locks of a move in the order of the ids,
   so among any that wait one waits for nobody waiting. *)
NoCircularWait ==
    /\ TypeOK
    /\ \A ts \in (SUBSET Txs) \ {{}} : \E t \in ts : \A u \in ts : ~Waits(t, u)

(* An employee is never promised twice: whatever reservations, moves, blocked
   times and leave decisions were in flight together, no appointment's block
   meets another's or a blocked time, and no appointment begins on a day of
   approved leave - except leave approved again from a stale read, which
   updateTimeOff() does not check. *)
PromisedOnce ==
    \A e \in Employees : \A b \in Live(e) :
        /\ \A c \in Live(e) \ {b} : ~overlaps(Block(b), Block(c))
        /\ \A x \in blocked : x[1] = e => ~overlaps(Block(b), x[2])
        /\ Local[bookings[b].start][1] \in LeaveOf(e) =>
              <<"leave", <<e, Local[bookings[b].start][1]>>>> \in excused

(* What the engine offers is what the employee can work, minute by minute of the
   local clock, also on the days the clock changes: buffers inside the shift,
   outside breaks and commitments; and on a day whose bounds all exist it offers
   everything that is. Looked at between transactions: it reads committed rows. *)
OfferedIsWorkable ==
    (\A t \in Txs : tx[t] = Idle) =>
        \A e \in Employees : \A i \in Instants :
            LET snap == Snapshot(e)
                offered == isSlotBookable(snap, i)
            IN  /\ offered => Workable(snap, i) /\ IsCovered(snap.rota, BlockAt(i, snap.sold))
                /\ Workable(snap, i) /\ PlainDay(snap.rota, Local[i][1]) => offered

(* An appointment outside the rota is one the office was told about by the change
   that left it there, or is about to be; the report is read after the write, so
   it also has what was booked meanwhile. Excused are appointments inserted after
   the report, and those a deleted exception uncovers. *)
UncoveredIsReported ==
    \A e \in Employees \ reporting : \A b \in Uncovered(e) \ reported : <<"cover", b>> \in excused

(* Nothing with appointments to come is retired: an archived employee or service,
   or a removed pairing, has none that was not inserted between the count and the
   write, and an archived category has no service but one filed likewise. *)
RetiredIsUnused ==
    /\ \A e \in Employees : \A b \in Ahead(e) :
          staff[e].archived \/ e \notin performs \/ service.archived => <<"retired", b>> \in excused
    /\ category /\ service.filed /\ ~service.archived => <<"filed">> \in excused
=============================================================================

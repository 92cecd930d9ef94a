---------------------------- MODULE Availability ----------------------------
(***************************************************************************)
(* Slot generation, as the pure function it is: from an employee's rota,   *)
(* leave and commitments to the instants a customer may start at.          *)
(*                                                                         *)
(* Time is a run of instants; what a clock in the organization's zone      *)
(* shows at each is a constant, so a night of the year may skip a minute   *)
(* or show one twice.                                                      *)
(***************************************************************************)
EXTENDS Integers, FiniteSets

CONSTANTS
    LastInstant,
    Local,     \* what the clock in the zone shows at an instant: <<date, minute>>
    DayEnd,    \* minute 1440: the next date's midnight
    Dates,     \* the local dates anybody asks about
    Weekday,   \* the weekday of a date
    Interval   \* settings.schedulingIntervalMinutes

Instants == 0..LastInstant
Minutes == 0..DayEnd

ASSUME ClockAssumption ==
    /\ LastInstant \in Nat /\ DayEnd \in Nat \ {0} /\ Interval \in Nat \ {0}
    /\ Local \in [Instants -> Nat \X (0..(DayEnd - 1))]
    /\ \A i, j \in Instants : i < j => Local[i][1] <= Local[j][1]
    /\ Dates \subseteq Nat /\ IsFiniteSet(Dates) /\ Dates \subseteq DOMAIN Weekday
    /\ \A i \in Instants : i < LastInstant => Local[i][1] \in Dates

\* No date has its clocks changed twice: a minute it shows once divides it
ASSUME TransitionsAssumption ==
    \A i, j \in Instants :
        Local[i][1] = Local[j][1] /\ (\A k \in Instants : Local[k] = Local[j] => k = j) =>
            (i < j <=> Local[i][2] < Local[j][2])

-----------------------------------------------------------------------------
(* Wall clocks.  A local time is some instant, none, or two.               *)

instantToLocalDate(i) == Local[i][1]

InstantsAt(date, minute) ==
    {i \in Instants : Local[i] = IF minute = DayEnd THEN <<date + 1, 0>> ELSE <<date, minute>>}

\* ok: neither NONEXISTENT nor AMBIGUOUS
Placed(date, minute) == Cardinality(InstantsAt(date, minute)) = 1

wallClockToInstant(date, minute) == CHOOSE i \in InstantsAt(date, minute) : TRUE

\* The span of two local times, when both have an instant
SpanPlaced(date, span) == Placed(date, span[1]) /\ Placed(date, span[2])

Span(date, span) == <<wallClockToInstant(date, span[1]), wallClockToInstant(date, span[2])>>

-----------------------------------------------------------------------------
(* Half-open intervals <<from, to>>.                                       *)

IsEmpty(a) == a[2] <= a[1]

overlaps(a, b) == ~IsEmpty(a) /\ ~IsEmpty(b) /\ a[1] < b[2] /\ b[1] < a[2]

contains(outer, inner) == outer[1] <= inner[1] /\ inner[2] <= outer[2]

\* What the cursor leaves between the merged holes: stretches that begin at the
\* start or a hole's end, end at a hole's start or the end, and meet no hole
subtract(from, holes) ==
    {p \in ({from[1]} \cup {h[2] : h \in holes}) \X ({from[2]} \cup {h[1] : h \in holes}) :
        ~IsEmpty(p) /\ contains(from, p) /\ \A h \in holes : ~overlaps(h, p)}

-----------------------------------------------------------------------------
(* The engine.  A rota is [hours, exceptions]: segments by weekday, and    *)
(* exceptions by date, CLOSED or EXTRA_HOURS.                              *)

segmentsFor(rota, date) ==
    LET ofDate == {x \in rota.exceptions : x.date = date}
        extra == {[span |-> x.span, breaks |-> {}] : x \in {y \in ofDate : y.kind = "EXTRA_HOURS"}}
    IN  IF \E x \in ofDate : x.kind = "CLOSED" THEN {}
        ELSE IF extra # {} THEN extra
        ELSE {[span |-> h.span, breaks |-> h.breaks] :
                h \in {g \in rota.hours : g.weekday = Weekday[date]}}

gridMinutes(segment) == {m \in segment.span[1]..segment.span[2] :
                            (m - segment.span[1]) % Interval = 0}

\* The employee's time an appointment takes: buffers included
BlockAt(start, sold) == <<start - sold.prep, start + sold.duration + sold.cleanup>>

\* Mutant: the buffers are checked against commitments and not against the shift
SlotsIgnoringBuffers(snap, date, earliest) ==
    IF date \in snap.leave THEN {}
    ELSE UNION {
        LET pieces == subtract(Span(date, segment.span), {Span(date, b) : b \in segment.breaks})
        IN  {i \in {wallClockToInstant(date, m) : m \in {g \in gridMinutes(segment) : Placed(date, g)}} :
                /\ i >= earliest
                /\ \E p \in pieces : contains(p, <<i, i + snap.sold.duration>>)
                /\ \A b \in snap.busy : ~overlaps(BlockAt(i, snap.sold), b)}
        : segment \in {s \in segmentsFor(snap.rota, date) :
              SpanPlaced(date, s.span) /\ \A b \in s.breaks : SpanPlaced(date, b)}}

\* A segment or a break with a bound inside a clock change is skipped for that date
employeeSlotsFor(snap, date, earliest) ==
    IF date \in snap.leave THEN {}
    ELSE UNION {
        LET pieces == subtract(Span(date, segment.span), {Span(date, b) : b \in segment.breaks})
        IN  {i \in {wallClockToInstant(date, m) : m \in {g \in gridMinutes(segment) : Placed(date, g)}} :
                /\ i >= earliest
                /\ \E p \in pieces : contains(p, BlockAt(i, snap.sold))
                /\ \A b \in snap.busy : ~overlaps(BlockAt(i, snap.sold), b)}
        : segment \in {s \in segmentsFor(snap.rota, date) :
              SpanPlaced(date, s.span) /\ \A b \in s.breaks : SpanPlaced(date, b)}}

generateAvailability(snap, from, to) ==
    LET today == instantToLocalDate(snap.now)
    IN  UNION {employeeSlotsFor(snap, date, snap.now + snap.notice) :
                  date \in {d \in Dates \ snap.closed :
                      /\ from <= d /\ d <= to
                      /\ today <= d /\ d <= today + snap.horizon}}

isSlotBookable(snap, start) ==
    LET date == instantToLocalDate(start) IN start \in generateAvailability(snap, date, date)

\* The office is bound by neither the notice nor the horizon
asOfficeSnapshot(snap) == [snap EXCEPT !.notice = 0, !.horizon = Cardinality(Dates)]

\* A move keeps the duration and the buffers the appointment was sold with
asSoldSnapshot(snap, sold) == [snap EXCEPT !.sold = sold]

-----------------------------------------------------------------------------
(* Which appointments a rota covers: the office's conflict report.  It     *)
(* ignores a break it cannot place, where the engine gives up the segment. *)

coveringIntervals(rota, date) ==
    UNION {subtract(Span(date, segment.span),
                    {Span(date, b) : b \in {c \in segment.breaks : SpanPlaced(date, c)}})
           : segment \in {s \in segmentsFor(rota, date) : SpanPlaced(date, s.span)}}

IsCovered(rota, block) ==
    /\ block[1] \in Instants
    /\ \E p \in coveringIntervals(rota, instantToLocalDate(block[1])) : contains(p, block)

-----------------------------------------------------------------------------
(* "Any employee": the fewest appointments that day, then display order    *)
(* and id, which are both the employee's number here.                      *)

selectEmployee(candidates, bookingsThatDay) ==
    CHOOSE e \in candidates : \A f \in candidates :
        \/ bookingsThatDay[e] < bookingsThatDay[f]
        \/ bookingsThatDay[e] = bookingsThatDay[f] /\ e <= f

-----------------------------------------------------------------------------
(* What a slot has to be, minute by minute of the employee's own clock.    *)

InSpan(i, date, span) == Local[i][1] = date /\ span[1] <= Local[i][2] /\ Local[i][2] < span[2]

\* On the grid of one shift, inside it and outside its breaks at every instant, free of
\* commitments, on a day somebody works, and neither too soon nor too far ahead
Workable(snap, start) ==
    LET date == Local[start][1]
        block == BlockAt(start, snap.sold)
        taken == block[1]..(block[2] - 1)
    IN  /\ date \notin snap.leave \cup snap.closed
        /\ block[1] \in Instants /\ block[2] \in Instants
        /\ Cardinality({i \in Instants : Local[i] = Local[start]}) = 1
        /\ \E s \in segmentsFor(snap.rota, date) :
              /\ \E n \in 0..DayEnd : Local[start][2] = s.span[1] + n * Interval
              /\ \A i \in taken : InSpan(i, date, s.span)
                                  /\ \A b \in s.breaks : ~InSpan(i, date, b)
        /\ \A b \in snap.busy : taken \cap (b[1]..(b[2] - 1)) = {}
        /\ start >= snap.now + snap.notice
        /\ date <= Local[snap.now][1] + snap.horizon

\* No bound of the day's segments or breaks falls into a clock change
PlainDay(rota, date) ==
    \A s \in segmentsFor(rota, date) :
        /\ SpanPlaced(date, s.span)
        /\ \A b \in s.breaks : SpanPlaced(date, b)
=============================================================================

------------------------------ MODULE Reminders -----------------------------
(***************************************************************************)
(* Reminders of appointments: delayed jobs in Redis, scheduled by booking  *)
(* events that arrive late, repeatedly and in any order, fired against the *)
(* booking as it is then, and rebuilt every night from the database.       *)
(*                                                                         *)
(* The unit of time is a day.  What is due on a day runs on that day: Tick *)
(* waits for events, due jobs and an installed sweep.                      *)
(***************************************************************************)
EXTENDS Integers, FiniteSets

CONSTANTS
    Bookings,   \* rows; a move ends one and confirms another
    StartsAt,   \* the day each appointment is on, which no row ever changes
    OffsetSets, \* what reminderOffsetsMinutes may be set to, in days
    Horizon,    \* REMINDER_HORIZON_MS: 2 days
    LastDay     \* bound on time

ASSUME TimeAssumption ==
    /\ StartsAt \in [Bookings -> Nat]
    /\ OffsetSets \subseteq SUBSET (Nat \ {0})
    /\ Horizon \in Nat /\ LastDay \in Nat

VARIABLES
    clock,
    status,    \* none, CONFIRMED, or ENDED: cancelled, moved, attended
    confirmed, \* the day of the confirmation
    events,    \* booking events recorded and not handled to the end
    offsets,   \* settings.reminderOffsetsMinutes
    jobs,      \* reminder jobs BullMQ holds: delayed, or retained after their end
    firing,    \* jobs whose worker has read the booking and not written yet
    reminded,  \* REMINDER_24H rows, by dedupe key
    tokens,    \* live management tokens of a booking
    installed, \* is the nightly sweep in Redis?
    swept,     \* has it run today?
    sweeps,    \* ghost: its days since jobs were lost or settings changed
    disturbed, \* ghost: were they ever?
    overtaken  \* ghost: firings whose booking ended between read and write

reminders == <<clock, status, confirmed, events, offsets, jobs, firing, reminded, tokens,
               installed, swept, sweeps, disturbed, overtaken>>
ghosts == <<sweeps, disturbed, overtaken>>
bookingVars == <<status, confirmed, tokens>>
sweepVars == <<installed, swept>>

Offsets == UNION OffsetSets
\* reminderJobId(); the dedupe key has the same parts
Reminder == Offsets \X Bookings
Day == 0..LastDay

TypeOK ==
    /\ clock \in Day
    /\ status \in [Bookings -> {"none", "CONFIRMED", "ENDED"}]
    /\ confirmed \in [Bookings -> Day]
    /\ events \subseteq ({"confirmed", "canceled"} \X Bookings)
                        \cup ({"rescheduled"} \X Bookings \X Bookings)
    /\ offsets \in OffsetSets
    /\ jobs \in [Reminder -> {"none", "delayed", "done"}]
    /\ firing \subseteq Reminder /\ reminded \subseteq Reminder /\ overtaken \subseteq Reminder
    /\ tokens \in [Bookings -> Nat]
    /\ {installed, swept, disturbed} \subseteq BOOLEAN
    /\ sweeps \subseteq Day

RemindersInit ==
    /\ clock = 0
    /\ status = [b \in Bookings |-> "none"]
    /\ confirmed = [b \in Bookings |-> 0]
    /\ events = {}
    /\ offsets \in OffsetSets
    /\ jobs = [j \in Reminder |-> "none"]
    /\ firing = {} /\ reminded = {} /\ overtaken = {}
    /\ tokens = [b \in Bookings |-> 0]
    /\ installed = TRUE /\ swept = FALSE
    /\ sweeps = {} /\ disturbed = FALSE

Due(j) == StartsAt[j[2]] - j[1] <= clock

-----------------------------------------------------------------------------
(* Bookings.  Each change records its event in its own transaction.        *)

ConfirmBooking(b) ==
    /\ \A c \in Bookings : status[c] = "none"
    /\ clock < StartsAt[b]
    /\ status' = [status EXCEPT ![b] = "CONFIRMED"]
    /\ confirmed' = [confirmed EXCEPT ![b] = clock]
    /\ tokens' = [tokens EXCEPT ![b] = 1]
    /\ events' = events \cup {<<"confirmed", b>>}
    /\ UNCHANGED <<clock, offsets, jobs, firing, reminded, sweepVars, ghosts>>

Overtaken(b) == overtaken' = overtaken \cup {j \in firing : j[2] = b}

CancelBooking(b) ==
    /\ status[b] = "CONFIRMED"
    /\ status' = [status EXCEPT ![b] = "ENDED"]
    /\ events' = events \cup {<<"canceled", b>>}
    /\ Overtaken(b)
    /\ UNCHANGED <<clock, confirmed, offsets, jobs, firing, reminded, tokens, sweepVars,
                   sweeps, disturbed>>

\* approve(): the old row ends, its tokens are revoked, the replacement gets one
Reschedule(b, c) ==
    /\ status[b] = "CONFIRMED" /\ status[c] = "none"
    /\ clock < StartsAt[c]
    /\ status' = [status EXCEPT ![b] = "ENDED", ![c] = "CONFIRMED"]
    /\ confirmed' = [confirmed EXCEPT ![c] = clock]
    /\ tokens' = [tokens EXCEPT ![b] = 0, ![c] = 1]
    /\ events' = events \cup {<<"rescheduled", c, b>>}
    /\ Overtaken(b)
    /\ UNCHANGED <<clock, offsets, jobs, firing, reminded, sweepVars, sweeps, disturbed>>

-----------------------------------------------------------------------------
(* The jobs of booking events.  A job that dies at its end runs again.     *)

HandledOrAgain(e) == events' \in {events, events \ {e}}

\* schedule(): a job per configured offset that is still ahead, for a confirmed booking
Scheduled(js, b) ==
    [j \in Reminder |->
        IF /\ j[2] = b /\ j[1] \in offsets
           /\ status[b] = "CONFIRMED" /\ ~Due(j)
           /\ js[j] = "none"
        THEN "delayed" ELSE js[j]]

\* cancelFor(): remove what the current offsets name; every failure is swallowed
Removed(js, b) ==
    {js, [j \in Reminder |-> IF j[2] = b /\ j[1] \in offsets THEN "none" ELSE js[j]]}

HandleConfirmed(b) ==
    /\ <<"confirmed", b>> \in events
    /\ jobs' = Scheduled(jobs, b)
    /\ HandledOrAgain(<<"confirmed", b>>)
    /\ UNCHANGED <<clock, bookingVars, offsets, firing, reminded, sweepVars, ghosts>>

HandleCanceled(b) ==
    /\ <<"canceled", b>> \in events
    /\ jobs' \in Removed(jobs, b)
    /\ HandledOrAgain(<<"canceled", b>>)
    /\ UNCHANGED <<clock, bookingVars, offsets, firing, reminded, sweepVars, ghosts>>

HandleRescheduled(c, b) ==
    /\ <<"rescheduled", c, b>> \in events
    /\ \E js \in Removed(jobs, b) : jobs' = Scheduled(js, c)
    /\ HandledOrAgain(<<"rescheduled", c, b>>)
    /\ UNCHANGED <<clock, bookingVars, offsets, firing, reminded, sweepVars, ghosts>>

-----------------------------------------------------------------------------
(* fire(): read and check, then write in a transaction of its own.         *)

\* Mutant: removal is trusted to have worked.
FireReadsTrusting(j) ==
    /\ jobs[j] = "delayed" /\ Due(j)
    /\ firing' = firing \cup {j}
    /\ jobs' = [jobs EXCEPT ![j] = "done"]
    /\ UNCHANGED <<clock, bookingVars, events, offsets, reminded, sweepVars, ghosts>>

FireReads(j) ==
    /\ jobs[j] = "delayed" /\ Due(j)
    /\ firing' = IF status[j[2]] = "CONFIRMED" /\ j[1] \in offsets
                 THEN firing \cup {j} ELSE firing
    /\ jobs' = [jobs EXCEPT ![j] = "done"]
    /\ UNCHANGED <<clock, bookingVars, events, offsets, reminded, sweepVars, ghosts>>

\* token and messages; a duplicate's token is deleted.  A worker that dies after the
\* commit leaves the job to run again.
FireWrites(j) ==
    /\ j \in firing
    /\ reminded' = reminded \cup {j}
    /\ tokens' = IF j \in reminded THEN tokens ELSE [tokens EXCEPT ![j[2]] = @ + 1]
    /\ firing' = firing \ {j}
    /\ \/ UNCHANGED jobs
       \/ jobs' = [jobs EXCEPT ![j] = "delayed"]
    /\ UNCHANGED <<clock, status, confirmed, events, offsets, sweepVars, ghosts>>

-----------------------------------------------------------------------------
(* The night: rebuild what should be there and is not.                     *)

\* Mutant: only appointments of the next day are looked at.
SweepRemindersTomorrow ==
    /\ installed /\ ~swept
    /\ jobs' = [j \in Reminder |->
           IF /\ status[j[2]] = "CONFIRMED" /\ j[1] \in offsets
              /\ clock < StartsAt[j[2]] /\ StartsAt[j[2]] <= clock + 1
              /\ ~Due(j) /\ j \notin reminded /\ jobs[j] = "none"
           THEN "delayed" ELSE jobs[j]]
    /\ swept' = TRUE
    /\ sweeps' = sweeps \cup {clock}
    /\ UNCHANGED <<clock, bookingVars, events, offsets, firing, reminded, installed,
                   disturbed, overtaken>>

SweepReminders ==
    /\ installed /\ ~swept
    /\ jobs' = [j \in Reminder |->
           IF /\ status[j[2]] = "CONFIRMED" /\ j[1] \in offsets
              /\ clock < StartsAt[j[2]] /\ StartsAt[j[2]] <= clock + Horizon
              /\ ~Due(j) /\ j \notin reminded /\ jobs[j] = "none"
           THEN "delayed" ELSE jobs[j]]
    /\ swept' = TRUE
    /\ sweeps' = sweeps \cup {clock}
    /\ UNCHANGED <<clock, bookingVars, events, offsets, firing, reminded, installed,
                   disturbed, overtaken>>

\* A flush, a failover, an eviction.  The schedule of the sweep is in Redis too.
RedisLost ==
    /\ jobs' = [j \in Reminder |-> "none"]
    /\ installed' = FALSE
    /\ sweeps' = {} /\ disturbed' = TRUE
    /\ UNCHANGED <<clock, bookingVars, events, offsets, firing, reminded, swept, overtaken>>

\* install() runs when a worker starts, and only then
WorkerStarts ==
    /\ ~installed
    /\ installed' = TRUE
    /\ UNCHANGED <<clock, bookingVars, events, offsets, jobs, firing, reminded, swept, ghosts>>

SaveSettings(os) ==
    /\ offsets # os
    /\ offsets' = os
    /\ sweeps' = {} /\ disturbed' = TRUE
    /\ UNCHANGED <<clock, bookingVars, events, jobs, firing, reminded, sweepVars, overtaken>>

Tick ==
    /\ clock < LastDay
    /\ events = {} /\ firing = {}
    /\ \A j \in Reminder : ~(jobs[j] = "delayed" /\ Due(j))
    /\ installed => swept
    /\ clock' = clock + 1
    /\ swept' = FALSE
    /\ UNCHANGED <<bookingVars, events, offsets, jobs, firing, reminded, installed, ghosts>>

RemindersNext ==
    \/ \E b \in Bookings : ConfirmBooking(b) \/ CancelBooking(b) \/ HandleConfirmed(b) \/ HandleCanceled(b)
    \/ \E b, c \in Bookings : Reschedule(b, c) \/ HandleRescheduled(b, c)
    \/ \E j \in Reminder : FireReads(j) \/ FireWrites(j)
    \/ SweepReminders \/ RedisLost \/ WorkerStarts
    \/ \E os \in OffsetSets : SaveSettings(os)
    \/ Tick

-----------------------------------------------------------------------------
(* Properties.                                                             *)

\* After the due day of a configured reminder a standing appointment has been reminded
\* of, if it was confirmed before that day and either nothing was disturbed or a sweep
\* has run since, early enough and with the appointment in its horizon.
RemindedInTime ==
    \A j \in Reminder :
        LET b == j[2]
            due == StartsAt[b] - j[1] IN
        /\ TypeOK
        /\ /\ status[b] = "CONFIRMED" /\ j[1] \in offsets
           /\ confirmed[b] < due /\ due < clock
           /\ \/ ~disturbed
              \/ \E d \in sweeps : confirmed[b] < d /\ d < due /\ StartsAt[b] <= d + Horizon
           => j \in reminded

\* Nobody is reminded of an appointment that was over when the job looked, however the
\* job survived its cancellation or its move.
GoneIsNotRemindedOf ==
    [][\A j \in reminded' \ reminded : status[j[2]] = "CONFIRMED" \/ j \in overtaken]_reminders
=============================================================================

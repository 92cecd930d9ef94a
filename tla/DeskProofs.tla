----------------------------- MODULE DeskProofs -----------------------------
(***************************************************************************)
(* Theorems about Reminders, Desk, Exports and Lists, each for every value *)
(* of its constants.                                                       *)
(*                                                                         *)
(* A job has run only when it was due, and the event that removes it is    *)
(* about a booking that has ended.  A form is carried out once because its *)
(* key is named for one intent and the handler alone holds its row.  And   *)
(* every page shows the same figures because all money is entered on the   *)
(* first booking of a chain (FiguresInv).                                  *)
(*                                                                         *)
(* A query says its rows in an order, so a page leaves out only what comes *)
(* later.  A source of the export therefore goes on where its cursor is,   *)
(* and what has stood there since the beginning is in the file or ahead of *)
(* every cursor (LedgerInv); and a list is whole because no answer that is *)
(* painted was asked for anything but what is shown (ListsInv).            *)
(***************************************************************************)
EXTENDS Lists, Exports, Desk, Reminders, FiniteSetTheorems, SequenceTheorems, TLAPS

RemindersSpec == RemindersInit /\ [][RemindersNext]_reminders
DeskSpec == DeskInit /\ [][DeskNext]_desk

-----------------------------------------------------------------------------
(* Reminders: what is inductive                                            *)

\* A job has only run when it was due
RanWhenDue == \A j \in Reminder : jobs[j] = "done" => Due(j)

\* The sweeps that count have been
SweptBefore == \A d \in sweeps : d <= clock

\* The events that remove jobs are about bookings that have ended
EndedByEvent ==
    \A b \in Bookings :
        /\ <<"canceled", b>> \in events => status[b] = "ENDED"
        /\ \A c \in Bookings : <<"rescheduled", c, b>> \in events => status[b] = "ENDED"

DueDay(j) == StartsAt[j[2]] - j[1]

\* The reminders RemindedInTime is about, before and after their day
Promised(j) ==
    /\ status[j[2]] = "CONFIRMED" /\ j[1] \in offsets
    /\ confirmed[j[2]] < DueDay(j)
    /\ \/ ~disturbed
       \/ \E d \in sweeps : /\ confirmed[j[2]] < d /\ d < DueDay(j)
                            /\ StartsAt[j[2]] <= d + Horizon

\* An event that will schedule the jobs of b is still to be handled, on the day of its
\* confirmation
ToBeScheduled(b) ==
    /\ clock = confirmed[b]
    /\ \/ <<"confirmed", b>> \in events
       \/ \E c \in Bookings : <<"rescheduled", b, c>> \in events

\* A promised reminder was sent, or is on its way and not late
OnItsWay ==
    \A j \in Reminder : Promised(j) =>
        \/ j \in reminded
        \/ clock <= DueDay(j) /\ (j \in firing \/ jobs[j] = "delayed")
        \/ ToBeScheduled(j[2])

RemindersInv ==
    /\ TypeOK /\ RanWhenDue /\ SweptBefore /\ EndedByEvent /\ OnItsWay

\* A worker between its read and its write has a booking that stands, or that ended
\* under its eyes
ReadStanding == \A j \in firing : status[j[2]] = "CONFIRMED" \/ j \in overtaken

-----------------------------------------------------------------------------
(* Reminders: the steps                                                    *)

\* What the parts of a reminder are
LEMMA ReminderParts ==
    ASSUME NEW j \in Reminder
    PROVE  /\ j[1] \in Nat \ {0} /\ j[2] \in Bookings
           /\ StartsAt[j[2]] \in Nat /\ DueDay(j) \in Int /\ DueDay(j) < StartsAt[j[2]]
           /\ Due(j) <=> DueDay(j) <= clock
<1>1. j[1] \in Nat \ {0} /\ j[2] \in Bookings
  BY TimeAssumption DEF Reminder, Offsets
<1>2. StartsAt[j[2]] \in Nat
  BY <1>1, TimeAssumption
<1> QED
  BY <1>1, <1>2 DEF DueDay, Due

\* The events of a booking are told apart
LEMMA EventsDiffer ==
    ASSUME NEW a, NEW b, NEW c, NEW d
    PROVE  /\ <<"confirmed", a>> # <<"canceled", b>>
           /\ <<"confirmed", a>> # <<"rescheduled", b, c>>
           /\ <<"canceled", a>> # <<"rescheduled", b, c>>
           /\ <<"canceled", a>> = <<"canceled", b>> => a = b
           /\ <<"confirmed", a>> = <<"confirmed", b>> => a = b
           /\ <<"rescheduled", a, b>> = <<"rescheduled", c, d>> => a = c /\ b = d
  OBVIOUS

\* What schedule() leaves of the jobs
LEMMA ScheduledJobs ==
    ASSUME NEW js \in [Reminder -> {"none", "delayed", "done"}], NEW b \in Bookings
    PROVE  /\ Scheduled(js, b) \in [Reminder -> {"none", "delayed", "done"}]
           /\ \A j \in Reminder :
                 /\ Scheduled(js, b)[j] = "done" => js[j] = "done"
                 /\ js[j] = "delayed" => Scheduled(js, b)[j] = "delayed"
                 /\ /\ j[2] = b /\ j[1] \in offsets /\ status[b] = "CONFIRMED" /\ ~Due(j)
                    => Scheduled(js, b)[j] # "none"
  BY DEF Scheduled

\* What cancelFor() leaves of them
LEMMA RemovedJobs ==
    ASSUME jobs \in [Reminder -> {"none", "delayed", "done"}], NEW b \in Bookings,
           NEW js \in Removed(jobs, b)
    PROVE  /\ js \in [Reminder -> {"none", "delayed", "done"}]
           /\ \A j \in Reminder :
                 /\ js[j] = "done" => jobs[j] = "done"
                 /\ j[2] # b => js[j] = jobs[j]
  BY DEF Removed

\* No step of Reminders leaves its types: each handler of reminder-scheduler.service.ts
\* and each change of a booking
LEMMA RemindersTyped ==
    ASSUME TypeOK, RemindersNext
    PROVE  TypeOK'
<1> USE DEF bookingVars, sweepVars, ghosts
<1>t. /\ clock \in Day /\ status \in [Bookings -> {"none", "CONFIRMED", "ENDED"}]
      /\ confirmed \in [Bookings -> Day]
      /\ events \subseteq ({"confirmed", "canceled"} \X Bookings)
                              \cup ({"rescheduled"} \X Bookings \X Bookings)
      /\ offsets \in OffsetSets /\ jobs \in [Reminder -> {"none", "delayed", "done"}]
      /\ firing \subseteq Reminder /\ reminded \subseteq Reminder /\ overtaken \subseteq Reminder
      /\ tokens \in [Bookings -> Nat]
      /\ installed \in BOOLEAN /\ swept \in BOOLEAN /\ disturbed \in BOOLEAN
      /\ sweeps \subseteq Day
  BY DEF TypeOK
<1>1. ASSUME NEW b \in Bookings, ConfirmBooking(b) PROVE TypeOK'
  <2>1. tokens' \in [Bookings -> Nat]
    BY <1>1, <1>t DEF ConfirmBooking
  <2> QED BY <1>1, <1>t, <2>1 DEF ConfirmBooking, TypeOK
<1>2. ASSUME NEW b \in Bookings, CancelBooking(b) PROVE TypeOK'
  BY <1>2, <1>t DEF CancelBooking, Overtaken, TypeOK
<1>3. ASSUME NEW b \in Bookings, HandleConfirmed(b) PROVE TypeOK'
  BY <1>3, <1>t, ScheduledJobs DEF HandleConfirmed, HandledOrAgain, TypeOK
<1>4. ASSUME NEW b \in Bookings, HandleCanceled(b) PROVE TypeOK'
  BY <1>4, <1>t, RemovedJobs DEF HandleCanceled, HandledOrAgain, TypeOK
<1>5. ASSUME NEW b \in Bookings, NEW c \in Bookings, Reschedule(b, c) PROVE TypeOK'
  <2>1. tokens' \in [Bookings -> Nat]
    BY <1>5, <1>t DEF Reschedule
  <2>2. events' \subseteq ({"confirmed", "canceled"} \X Bookings)
                              \cup ({"rescheduled"} \X Bookings \X Bookings)
    BY <1>5, <1>t DEF Reschedule
  <2>3. /\ status' \in [Bookings -> {"none", "CONFIRMED", "ENDED"}]
        /\ confirmed' \in [Bookings -> Day]
    BY <1>5, <1>t DEF Reschedule
  <2> QED BY <1>5, <1>t, <2>1, <2>2, <2>3 DEF Reschedule, Overtaken, TypeOK
<1>6. ASSUME NEW b \in Bookings, NEW c \in Bookings, HandleRescheduled(c, b) PROVE TypeOK'
  <2>1. PICK js \in Removed(jobs, b) : jobs' = Scheduled(js, c)
    BY <1>6 DEF HandleRescheduled
  <2>2. js \in [Reminder -> {"none", "delayed", "done"}]
    BY <1>t, RemovedJobs
  <2>3. jobs' \in [Reminder -> {"none", "delayed", "done"}]
    BY <2>1, <2>2, ScheduledJobs
  <2> QED BY <1>6, <1>t, <2>3 DEF HandleRescheduled, HandledOrAgain, TypeOK
<1>7. ASSUME NEW j \in Reminder, FireReads(j) PROVE TypeOK'
  BY <1>7, <1>t DEF FireReads, TypeOK
<1>8. ASSUME NEW j \in Reminder, FireWrites(j) PROVE TypeOK'
  <2>0. PICK n \in Nat : n = tokens[j[2]] + 1
    BY <1>t, ReminderParts
  <2>1. tokens' \in [Bookings -> Nat]
    BY <1>8, <1>t, <2>0 DEF FireWrites
  <2> QED BY <1>8, <1>t, <2>1 DEF FireWrites, TypeOK
<1>9. CASE SweepReminders
  <2>1. jobs' \in [Reminder -> {"none", "delayed", "done"}]
    BY <1>9, <1>t DEF SweepReminders
  <2> QED BY <1>9, <1>t, <2>1 DEF SweepReminders, TypeOK
<1>10. CASE RedisLost
  BY <1>10, <1>t DEF RedisLost, TypeOK
<1>11. CASE WorkerStarts
  BY <1>11, <1>t DEF WorkerStarts, TypeOK
<1>12. ASSUME NEW os \in OffsetSets, SaveSettings(os) PROVE TypeOK'
  BY <1>12, <1>t DEF SaveSettings, TypeOK
<1>13. CASE Tick
  <2>1. clock' \in Day
    BY <1>13, <1>t, TimeAssumption DEF Tick, Day
  <2> QED BY <1>13, <1>t, <2>1 DEF Tick, TypeOK
<1> QED
  BY <1>1, <1>2, <1>3, <1>4, <1>5, <1>6, <1>7, <1>8, <1>9, <1>10, <1>11, <1>12, <1>13
     DEF RemindersNext

\* The jobs that have run, the sweeps that have been and the events that remove jobs,
\* step by step
LEMMA RemindersSure ==
    ASSUME TypeOK, TypeOK', RanWhenDue, SweptBefore, EndedByEvent, RemindersNext
    PROVE  RanWhenDue' /\ SweptBefore' /\ EndedByEvent'
<1> USE DEF bookingVars, sweepVars, ghosts
<1>t. /\ clock \in Int /\ status \in [Bookings -> {"none", "CONFIRMED", "ENDED"}]
      /\ jobs \in [Reminder -> {"none", "delayed", "done"}]
      /\ sweeps \subseteq Int
  BY TimeAssumption DEF TypeOK, Day
<1>d. ASSUME clock' = clock, NEW j \in Reminder, jobs'[j] = "done" => jobs[j] = "done"
      PROVE  jobs'[j] = "done" => Due(j)'
  BY <1>d DEF RanWhenDue, Due
<1>1. ASSUME NEW b \in Bookings, ConfirmBooking(b)
      PROVE  RanWhenDue' /\ SweptBefore' /\ EndedByEvent'
  <2>1. EndedByEvent'
    BY <1>1, <1>t, EventsDiffer DEF ConfirmBooking, EndedByEvent
  <2> QED BY <1>1, <2>1 DEF ConfirmBooking, RanWhenDue, SweptBefore, Due
<1>2. ASSUME NEW b \in Bookings, CancelBooking(b)
      PROVE  RanWhenDue' /\ SweptBefore' /\ EndedByEvent'
  <2>1. EndedByEvent'
    BY <1>2, <1>t, EventsDiffer DEF CancelBooking, EndedByEvent
  <2> QED BY <1>2, <2>1 DEF CancelBooking, RanWhenDue, SweptBefore, Due
<1>3. ASSUME NEW b \in Bookings, HandleConfirmed(b)
      PROVE  RanWhenDue' /\ SweptBefore' /\ EndedByEvent'
  <2>1. RanWhenDue'
    BY <1>3, <1>t, <1>d, ScheduledJobs DEF HandleConfirmed, RanWhenDue
  <2> QED BY <1>3, <2>1 DEF HandleConfirmed, HandledOrAgain, SweptBefore, EndedByEvent
<1>4. ASSUME NEW b \in Bookings, HandleCanceled(b)
      PROVE  RanWhenDue' /\ SweptBefore' /\ EndedByEvent'
  <2>1. RanWhenDue'
    BY <1>4, <1>t, <1>d, RemovedJobs DEF HandleCanceled, RanWhenDue
  <2> QED BY <1>4, <2>1 DEF HandleCanceled, HandledOrAgain, SweptBefore, EndedByEvent
<1>5. ASSUME NEW b \in Bookings, NEW c \in Bookings, Reschedule(b, c)
      PROVE  RanWhenDue' /\ SweptBefore' /\ EndedByEvent'
  <2>1. ASSUME NEW x \in Bookings, status[x] = "ENDED" PROVE status'[x] = "ENDED"
    BY <1>5, <1>t, <2>1 DEF Reschedule
  <2>2. status'[b] = "ENDED"
    BY <1>5, <1>t DEF Reschedule
  <2>3. EndedByEvent'
    BY <1>5, <1>t, <2>1, <2>2, EventsDiffer DEF Reschedule, EndedByEvent
  <2> QED BY <1>5, <2>3 DEF Reschedule, RanWhenDue, SweptBefore, Due
<1>6. ASSUME NEW b \in Bookings, NEW c \in Bookings, HandleRescheduled(c, b)
      PROVE  RanWhenDue' /\ SweptBefore' /\ EndedByEvent'
  <2>1. PICK js \in Removed(jobs, b) : jobs' = Scheduled(js, c)
    BY <1>6 DEF HandleRescheduled
  <2>2. /\ js \in [Reminder -> {"none", "delayed", "done"}]
        /\ \A j \in Reminder : js[j] = "done" => jobs[j] = "done"
    BY <1>t, RemovedJobs
  <2>3. RanWhenDue'
    BY <1>6, <1>d, <2>1, <2>2, ScheduledJobs DEF HandleRescheduled, RanWhenDue
  <2> QED BY <1>6, <2>3 DEF HandleRescheduled, HandledOrAgain, SweptBefore, EndedByEvent
<1>7. ASSUME NEW j \in Reminder, FireReads(j)
      PROVE  RanWhenDue' /\ SweptBefore' /\ EndedByEvent'
  <2>1. RanWhenDue'
    BY <1>7, <1>t DEF FireReads, RanWhenDue, Due
  <2> QED BY <1>7, <2>1 DEF FireReads, SweptBefore, EndedByEvent
<1>8. ASSUME NEW j \in Reminder, FireWrites(j)
      PROVE  RanWhenDue' /\ SweptBefore' /\ EndedByEvent'
  <2>1. RanWhenDue'
    BY <1>8, <1>t DEF FireWrites, RanWhenDue, Due
  <2> QED BY <1>8, <2>1 DEF FireWrites, SweptBefore, EndedByEvent
<1>9. CASE SweepReminders
  <2>1. RanWhenDue'
    BY <1>9, <1>t DEF SweepReminders, RanWhenDue, Due
  <2>2. SweptBefore'
    BY <1>9, <1>t DEF SweepReminders, SweptBefore
  <2> QED BY <1>9, <2>1, <2>2 DEF SweepReminders, EndedByEvent
<1>10. CASE RedisLost
  BY <1>10, <1>t DEF RedisLost, RanWhenDue, SweptBefore, EndedByEvent, Due
<1>11. CASE WorkerStarts
  BY <1>11 DEF WorkerStarts, RanWhenDue, SweptBefore, EndedByEvent, Due
<1>12. ASSUME NEW os \in OffsetSets, SaveSettings(os)
       PROVE  RanWhenDue' /\ SweptBefore' /\ EndedByEvent'
  BY <1>12 DEF SaveSettings, RanWhenDue, SweptBefore, EndedByEvent, Due
<1>13. CASE Tick
  <2>1. SweptBefore'
    BY <1>13, <1>t DEF Tick, SweptBefore
  <2>2. ASSUME NEW j \in Reminder, Due(j) PROVE Due(j)'
    <3>1. clock <= clock'
      BY <1>13, <1>t DEF Tick
    <3>2. StartsAt[j[2]] - j[1] \in Int
      BY ReminderParts DEF DueDay
    <3>3. StartsAt[j[2]] - j[1] <= clock
      BY <2>2 DEF Due
    <3>4. PICK n \in Int : n = StartsAt[j[2]] - j[1]
      BY <3>2
    <3>5. clock' \in Int /\ n <= clock'
      BY <1>13, <1>t, <3>1, <3>3, <3>4 DEF Tick
    <3> QED BY <3>4, <3>5 DEF Due
  <2>3. RanWhenDue'
    BY <1>13, <2>2 DEF Tick, RanWhenDue
  <2> QED BY <1>13, <2>1, <2>3 DEF Tick, EndedByEvent
<1> QED
  BY <1>1, <1>2, <1>3, <1>4, <1>5, <1>6, <1>7, <1>8, <1>9, <1>10, <1>11, <1>12, <1>13
     DEF RemindersNext

\* Handling an event of a booking leaves a reminder of another where it is
LEMMA EventHandled ==
    ASSUME TypeOK, OnItsWay, NEW e, NEW j \in Reminder,
           events' \in {events, events \ {e}},
           UNCHANGED <<clock, bookingVars, offsets, firing, reminded, sweepVars, ghosts>>,
           jobs[j] = "delayed" => jobs'[j] = "delayed",
           Promised(j)',
           \A c \in Bookings : e # <<"confirmed", j[2]>> /\ e # <<"rescheduled", j[2], c>>
    PROVE  \/ j \in reminded'
           \/ clock' <= DueDay(j) /\ (j \in firing' \/ jobs'[j] = "delayed")
           \/ ToBeScheduled(j[2])'
<1> USE DEF bookingVars, sweepVars, ghosts
<1>1. Promised(j)
  BY DEF Promised, DueDay
<1>2. CASE ToBeScheduled(j[2])
  <2>1. clock' = confirmed'[j[2]]
    BY <1>2 DEF ToBeScheduled
  <2>2. CASE <<"confirmed", j[2]>> \in events
    <3>1. j[2] \in Bookings
      BY ReminderParts
    <3>2. <<"confirmed", j[2]>> \in events'
      BY <2>2, <3>1
    <3> QED BY <2>1, <3>2 DEF ToBeScheduled
  <2>3. ASSUME NEW c \in Bookings, <<"rescheduled", j[2], c>> \in events
        PROVE  ToBeScheduled(j[2])'
    <3>1. <<"rescheduled", j[2], c>> \in events'
      BY <2>3
    <3> QED BY <2>1, <3>1 DEF ToBeScheduled
  <2> QED BY <1>2, <2>2, <2>3 DEF ToBeScheduled
<1> QED BY <1>1, <1>2 DEF OnItsWay

\* So does scheduling, and it puts the booking's own reminders on their way
LEMMA EventSchedules ==
    ASSUME TypeOK, RanWhenDue, OnItsWay, NEW e, NEW b \in Bookings, NEW j \in Reminder,
           NEW js \in [Reminder -> {"none", "delayed", "done"}],
           jobs' = Scheduled(js, b),
           js[j] = "done" => jobs[j] = "done",
           jobs[j] = "delayed" => js[j] = "delayed",
           events' \in {events, events \ {e}},
           UNCHANGED <<clock, bookingVars, offsets, firing, reminded, sweepVars, ghosts>>,
           Promised(j)',
           \A c \in Bookings :
              j[2] # b => e # <<"confirmed", j[2]>> /\ e # <<"rescheduled", j[2], c>>
    PROVE  \/ j \in reminded'
           \/ clock' <= DueDay(j) /\ (j \in firing' \/ jobs'[j] = "delayed")
           \/ ToBeScheduled(j[2])'
<1> USE DEF bookingVars, sweepVars, ghosts
<1>1. jobs[j] = "delayed" => jobs'[j] = "delayed"
  BY ScheduledJobs
<1>2. CASE j[2] # b
  BY <1>1, <1>2, EventHandled
<1>3. CASE j[2] = b
  <2>1. Promised(j)
    BY DEF Promised, DueDay
  <2>2. CASE ToBeScheduled(b)
    <3>1. clock < DueDay(j)
      BY <1>3, <2>1, <2>2 DEF ToBeScheduled, Promised
    <3>2. DueDay(j) \in Int /\ clock \in Int
      BY ReminderParts, TimeAssumption DEF TypeOK, Day
    <3>3. ~Due(j)
      BY <3>1, <3>2, ReminderParts
    <3>4. jobs'[j] # "none"
      BY <1>3, <2>1, <3>3, ScheduledJobs DEF Promised
    <3>5. jobs'[j] # "done"
      BY <3>3, ScheduledJobs DEF RanWhenDue
    <3>6. jobs'[j] \in {"none", "delayed", "done"}
      BY ScheduledJobs
    <3>7. clock <= DueDay(j)
      BY <3>1, <3>2
    <3> QED BY <3>4, <3>5, <3>6, <3>7
  <2> QED BY <1>1, <1>3, <2>1, <2>2 DEF OnItsWay
<1> QED BY <1>2, <1>3

\* A promised reminder stays on its way until it is sent, whatever happens
LEMMA RemindersOnTheirWay ==
    ASSUME RemindersInv, TypeOK', RanWhenDue', SweptBefore', RemindersNext
    PROVE  OnItsWay'
<1> USE DEF bookingVars, sweepVars, ghosts
<1>t. /\ clock \in Int /\ status \in [Bookings -> {"none", "CONFIRMED", "ENDED"}]
      /\ confirmed \in [Bookings -> Int]
      /\ jobs \in [Reminder -> {"none", "delayed", "done"}]
      /\ sweeps \subseteq Int
      /\ TypeOK /\ RanWhenDue /\ SweptBefore /\ EndedByEvent /\ OnItsWay
  BY TimeAssumption DEF TypeOK, Day, RemindersInv
<1> SUFFICES ASSUME NEW j \in Reminder, Promised(j)'
             PROVE  \/ j \in reminded'
                    \/ clock' <= DueDay(j) /\ (j \in firing' \/ jobs'[j] = "delayed")
                    \/ ToBeScheduled(j[2])'
  BY DEF OnItsWay, DueDay
<1>j. /\ j[1] \in Nat \ {0} /\ j[2] \in Bookings
      /\ StartsAt[j[2]] \in Nat /\ DueDay(j) \in Int /\ DueDay(j) < StartsAt[j[2]]
      /\ Due(j) <=> DueDay(j) <= clock
  BY ReminderParts
<1>p. Promised(j) =>
         \/ j \in reminded
         \/ clock <= DueDay(j) /\ (j \in firing \/ jobs[j] = "delayed")
         \/ ToBeScheduled(j[2])
  BY <1>t DEF OnItsWay
<1>q. Promised(j)' =>
         /\ status'[j[2]] = "CONFIRMED" /\ j[1] \in offsets'
         /\ confirmed'[j[2]] < DueDay(j)
         /\ \/ ~disturbed'
            \/ \E d \in sweeps' : /\ confirmed'[j[2]] < d /\ d < DueDay(j)
                                  /\ StartsAt[j[2]] <= d + Horizon
  BY DEF Promised, DueDay
<1>1. ASSUME NEW b \in Bookings, ConfirmBooking(b)
      PROVE  \/ j \in reminded'
             \/ clock' <= DueDay(j) /\ (j \in firing' \/ jobs'[j] = "delayed")
             \/ ToBeScheduled(j[2])'
  <2>1. j[2] = b
    BY <1>1, <1>t, <1>j, <1>q DEF ConfirmBooking
  <2>2. ToBeScheduled(b)'
    BY <1>1, <1>t DEF ConfirmBooking, ToBeScheduled
  <2> QED BY <2>1, <2>2
<1>2. ASSUME NEW b \in Bookings, CancelBooking(b)
      PROVE  \/ j \in reminded'
             \/ clock' <= DueDay(j) /\ (j \in firing' \/ jobs'[j] = "delayed")
             \/ ToBeScheduled(j[2])'
  <2>1. status[j[2]] = "CONFIRMED"
    BY <1>2, <1>t, <1>j, <1>q DEF CancelBooking
  <2>2. Promised(j)
    BY <1>2, <1>q, <2>1 DEF CancelBooking, Promised
  <2>3. ToBeScheduled(j[2]) => ToBeScheduled(j[2])'
    BY <1>2 DEF CancelBooking, ToBeScheduled
  <2> QED BY <1>2, <1>p, <2>2, <2>3 DEF CancelBooking
<1>3. ASSUME NEW b \in Bookings, HandleConfirmed(b)
      PROVE  \/ j \in reminded'
             \/ clock' <= DueDay(j) /\ (j \in firing' \/ jobs'[j] = "delayed")
             \/ ToBeScheduled(j[2])'
  <2>1. \A c \in Bookings : j[2] # b => /\ <<"confirmed", b>> # <<"confirmed", j[2]>>
                                        /\ <<"confirmed", b>> # <<"rescheduled", j[2], c>>
    BY EventsDiffer
  <2>2. /\ jobs' = Scheduled(jobs, b) /\ events' \in {events, events \ {<<"confirmed", b>>}}
        /\ UNCHANGED <<clock, bookingVars, offsets, firing, reminded, sweepVars, ghosts>>
    BY <1>3 DEF HandleConfirmed, HandledOrAgain
  <2> QED BY <1>t, <2>1, <2>2, EventSchedules
<1>4. ASSUME NEW b \in Bookings, HandleCanceled(b)
      PROVE  \/ j \in reminded'
             \/ clock' <= DueDay(j) /\ (j \in firing' \/ jobs'[j] = "delayed")
             \/ ToBeScheduled(j[2])'
  <2>1. \A c \in Bookings : /\ <<"canceled", b>> # <<"confirmed", j[2]>>
                            /\ <<"canceled", b>> # <<"rescheduled", j[2], c>>
    BY EventsDiffer
  <2>2. /\ jobs' \in Removed(jobs, b) /\ events' \in {events, events \ {<<"canceled", b>>}}
        /\ UNCHANGED <<clock, bookingVars, offsets, firing, reminded, sweepVars, ghosts>>
    BY <1>4 DEF HandleCanceled, HandledOrAgain
  <2>3. j[2] # b
    BY <1>4, <1>t, <1>q DEF HandleCanceled, EndedByEvent
  <2>4. jobs'[j] = jobs[j]
    BY <1>t, <2>2, <2>3, RemovedJobs
  <2> QED BY <1>t, <2>1, <2>2, <2>4, EventHandled
<1>5. ASSUME NEW b \in Bookings, NEW c \in Bookings, Reschedule(b, c)
      PROVE  \/ j \in reminded'
             \/ clock' <= DueDay(j) /\ (j \in firing' \/ jobs'[j] = "delayed")
             \/ ToBeScheduled(j[2])'
  <2>1. CASE j[2] = c
    <3>1. confirmed'[c] = clock /\ clock' = clock
      BY <1>5, <1>t DEF Reschedule
    <3>2. <<"rescheduled", c, b>> \in events'
      BY <1>5 DEF Reschedule
    <3> QED BY <2>1, <3>1, <3>2 DEF ToBeScheduled
  <2>2. CASE j[2] # c
    <3>1. status[j[2]] = "CONFIRMED" /\ confirmed'[j[2]] = confirmed[j[2]]
      BY <1>5, <1>t, <1>j, <1>q, <2>2 DEF Reschedule
    <3>2. Promised(j)
      BY <1>5, <1>q, <3>1 DEF Reschedule, Promised
    <3>3. ToBeScheduled(j[2]) => ToBeScheduled(j[2])'
      BY <1>5, <3>1 DEF Reschedule, ToBeScheduled
    <3> QED BY <1>5, <1>p, <3>2, <3>3 DEF Reschedule
  <2> QED BY <2>1, <2>2
<1>6. ASSUME NEW b \in Bookings, NEW c \in Bookings, HandleRescheduled(c, b)
      PROVE  \/ j \in reminded'
             \/ clock' <= DueDay(j) /\ (j \in firing' \/ jobs'[j] = "delayed")
             \/ ToBeScheduled(j[2])'
  <2>1. PICK js \in Removed(jobs, b) : jobs' = Scheduled(js, c)
    BY <1>6 DEF HandleRescheduled
  <2>2. js \in [Reminder -> {"none", "delayed", "done"}] /\ (js[j] = "done" => jobs[j] = "done")
    BY <1>t, RemovedJobs
  <2>3. \A d \in Bookings : j[2] # c => /\ <<"rescheduled", c, b>> # <<"confirmed", j[2]>>
                                        /\ <<"rescheduled", c, b>> # <<"rescheduled", j[2], d>>
    BY EventsDiffer
  <2>4. /\ events' \in {events, events \ {<<"rescheduled", c, b>>}}
        /\ UNCHANGED <<clock, bookingVars, offsets, firing, reminded, sweepVars, ghosts>>
    BY <1>6 DEF HandleRescheduled, HandledOrAgain
  <2>5. j[2] # b
    BY <1>6, <1>t, <1>q DEF HandleRescheduled, EndedByEvent
  <2>6. js[j] = jobs[j]
    BY <1>t, <2>5, RemovedJobs
  <2> QED BY <1>t, <2>1, <2>2, <2>3, <2>4, <2>6, EventSchedules
<1>7. ASSUME NEW i \in Reminder, FireReads(i)
      PROVE  \/ j \in reminded'
             \/ clock' <= DueDay(j) /\ (j \in firing' \/ jobs'[j] = "delayed")
             \/ ToBeScheduled(j[2])'
  <2>1. Promised(j)
    BY <1>7, <1>q DEF FireReads, Promised
  <2>2. ToBeScheduled(j[2]) => ToBeScheduled(j[2])'
    BY <1>7 DEF FireReads, ToBeScheduled
  <2>3. firing \subseteq firing' /\ reminded' = reminded /\ clock' = clock
    BY <1>7 DEF FireReads
  <2>4. CASE j = i
    BY <1>7, <1>p, <2>1, <2>2, <2>3, <2>4 DEF FireReads, Promised
  <2>5. CASE j # i
    <3>1. jobs'[j] = jobs[j]
      BY <1>7, <1>t, <2>5 DEF FireReads
    <3> QED BY <1>p, <2>1, <2>2, <2>3, <3>1
  <2> QED BY <2>4, <2>5
<1>8. ASSUME NEW i \in Reminder, FireWrites(i)
      PROVE  \/ j \in reminded'
             \/ clock' <= DueDay(j) /\ (j \in firing' \/ jobs'[j] = "delayed")
             \/ ToBeScheduled(j[2])'
  <2>1. Promised(j)
    BY <1>8, <1>q DEF FireWrites, Promised
  <2>2. ToBeScheduled(j[2]) => ToBeScheduled(j[2])'
    BY <1>8 DEF FireWrites, ToBeScheduled
  <2>3. jobs[j] = "delayed" => jobs'[j] = "delayed"
    BY <1>8, <1>t DEF FireWrites
  <2>4. j \in firing => j \in firing' \/ j \in reminded'
    BY <1>8 DEF FireWrites
  <2>5. reminded \subseteq reminded' /\ clock' = clock
    BY <1>8 DEF FireWrites
  <2> QED BY <1>p, <2>1, <2>2, <2>3, <2>4, <2>5
<1>9. CASE SweepReminders
  <2>1. CASE Promised(j)
    <3>1. ToBeScheduled(j[2]) => ToBeScheduled(j[2])'
      BY <1>9 DEF SweepReminders, ToBeScheduled
    <3>2. jobs[j] = "delayed" => jobs'[j] = "delayed"
      BY <1>9, <1>t DEF SweepReminders
    <3> QED BY <1>9, <1>p, <2>1, <3>1, <3>2 DEF SweepReminders
  <2>2. CASE ~Promised(j)
    <3>1. /\ status[j[2]] = "CONFIRMED" /\ j[1] \in offsets
          /\ confirmed[j[2]] < DueDay(j) /\ disturbed
      BY <1>9, <1>q, <2>2 DEF SweepReminders, Promised
    <3>2. clock < DueDay(j) /\ StartsAt[j[2]] <= clock + Horizon
      BY <1>9, <1>q, <2>2, <3>1 DEF SweepReminders, Promised
    <3>3. ~Due(j) /\ clock < StartsAt[j[2]] /\ clock <= DueDay(j)
      BY <1>j, <1>t, <3>2
    <3>4. jobs[j] # "done"
      BY <1>t, <3>3 DEF RanWhenDue
    <3>5. j \notin reminded => jobs'[j] = "delayed"
      BY <1>9, <1>t, <3>1, <3>2, <3>3, <3>4 DEF SweepReminders
    <3> QED BY <1>9, <3>3, <3>5 DEF SweepReminders
  <2> QED BY <2>1, <2>2
<1>10. CASE RedisLost
  BY <1>10, <1>q DEF RedisLost
<1>11. CASE WorkerStarts
  <2>1. Promised(j)
    BY <1>11, <1>q DEF WorkerStarts, Promised
  <2> QED BY <1>11, <1>p, <2>1 DEF WorkerStarts, ToBeScheduled
<1>12. ASSUME NEW os \in OffsetSets, SaveSettings(os)
       PROVE  \/ j \in reminded'
              \/ clock' <= DueDay(j) /\ (j \in firing' \/ jobs'[j] = "delayed")
              \/ ToBeScheduled(j[2])'
  BY <1>12, <1>q DEF SaveSettings
<1>13. CASE Tick
  <2>1. Promised(j)
    BY <1>13, <1>q DEF Tick, Promised
  <2>2. events = {} /\ firing = {} /\ clock' = clock + 1 /\ jobs' = jobs /\ reminded' = reminded
    BY <1>13 DEF Tick
  <2>3. CASE clock <= DueDay(j) /\ jobs[j] = "delayed"
    <3>1. ~Due(j)
      BY <1>13, <2>3 DEF Tick
    <3>2. clock' <= DueDay(j)
      BY <1>j, <1>t, <2>2, <3>1
    <3> QED BY <2>2, <2>3, <3>2
  <2>4. ~ToBeScheduled(j[2])
    BY <2>2 DEF ToBeScheduled
  <2> QED BY <1>p, <2>1, <2>2, <2>3, <2>4
<1> QED
  BY <1>1, <1>2, <1>3, <1>4, <1>5, <1>6, <1>7, <1>8, <1>9, <1>10, <1>11, <1>12, <1>13
     DEF RemindersNext

\* Nothing has been promised before anything was booked
LEMMA RemindersBegin ==
    ASSUME RemindersInit
    PROVE  RemindersInv /\ ReadStanding
<1>1. TypeOK
  <2>1. {installed, swept, disturbed} \subseteq BOOLEAN
    BY DEF RemindersInit
  <2>2. 0 \in Day
    BY TimeAssumption DEF Day
  <2>3. jobs \in [Reminder -> {"none", "delayed", "done"}]
    BY DEF RemindersInit
  <2>4. /\ status \in [Bookings -> {"none", "CONFIRMED", "ENDED"}]
        /\ confirmed \in [Bookings -> Day] /\ tokens \in [Bookings -> Nat]
    BY <2>2 DEF RemindersInit
  <2> QED BY <2>1, <2>2, <2>3, <2>4 DEF RemindersInit, TypeOK
<1>2. RanWhenDue /\ SweptBefore /\ EndedByEvent /\ ReadStanding
  BY DEF RemindersInit, RanWhenDue, SweptBefore, EndedByEvent, ReadStanding
<1>3. OnItsWay
  BY ReminderParts DEF RemindersInit, OnItsWay, Promised
<1> QED BY <1>1, <1>2, <1>3 DEF RemindersInv

LEMMA RemindersStep ==
    ASSUME RemindersInv, [RemindersNext]_reminders
    PROVE  RemindersInv'
<1>1. CASE RemindersNext
  <2>1. TypeOK /\ RanWhenDue /\ SweptBefore /\ EndedByEvent
    BY DEF RemindersInv
  <2>2. TypeOK'
    BY <1>1, <2>1, RemindersTyped
  <2>3. RanWhenDue' /\ SweptBefore' /\ EndedByEvent'
    BY <1>1, <2>1, <2>2, RemindersSure
  <2>4. OnItsWay'
    BY <1>1, <2>2, <2>3, RemindersOnTheirWay
  <2> QED BY <2>2, <2>3, <2>4 DEF RemindersInv
<1>2. CASE UNCHANGED reminders
  <2>1. TypeOK'
    BY <1>2 DEF reminders, RemindersInv, TypeOK
  <2>2. RanWhenDue' /\ SweptBefore' /\ EndedByEvent'
    BY <1>2 DEF reminders, RemindersInv, RanWhenDue, SweptBefore, EndedByEvent, Due
  <2>3. OnItsWay'
    BY <1>2 DEF reminders, RemindersInv, OnItsWay, Promised, ToBeScheduled, DueDay
  <2> QED BY <2>1, <2>2, <2>3 DEF RemindersInv
<1> QED BY <1>1, <1>2

\* What is on its way and not late has been sent once its day is over
LEMMA OnItsWayInTime ==
    ASSUME RemindersInv
    PROVE  RemindedInTime
<1>1. TypeOK /\ clock \in Int
  BY TimeAssumption DEF RemindersInv, TypeOK, Day
<1>2. ASSUME NEW j \in Reminder, Promised(j), DueDay(j) < clock
      PROVE  j \in reminded
  <2>1. DueDay(j) \in Int /\ j[2] \in Bookings
    BY ReminderParts
  <2>2. ~(clock <= DueDay(j))
    BY <1>1, <1>2, <2>1
  <2>3. confirmed[j[2]] \in Int /\ confirmed[j[2]] < DueDay(j)
    BY <1>2, <2>1, TimeAssumption DEF RemindersInv, TypeOK, Day, Promised
  <2>4. ~ToBeScheduled(j[2])
    BY <1>1, <1>2, <2>1, <2>3 DEF ToBeScheduled
  <2> QED BY <1>2, <2>2, <2>4 DEF RemindersInv, OnItsWay
<1> QED
  BY <1>1, <1>2 DEF RemindedInTime, Promised, DueDay

(* For any appointments, offsets and horizon, and however often Redis loses its
   jobs: after its day a reminder that was due to a standing appointment has
   been sent, unless jobs were lost or settings changed and no sweep has run
   since that could see it (reminder-scheduler.service.ts, schedule, fire and
   reconcile). *)
THEOREM StandingIsRemindedOf == RemindersSpec => []RemindedInTime
<1>1. RemindersInit => RemindersInv
  BY RemindersBegin
<1>2. RemindersInv /\ [RemindersNext]_reminders => RemindersInv'
  BY RemindersStep
<1>3. RemindersInv => RemindedInTime
  BY OnItsWayInTime
<1> QED BY <1>1, <1>2, <1>3, PTL DEF RemindersSpec

\* A booking ends under the eyes of a worker, or is standing when it reads
LEMMA ReadStandingStep ==
    ASSUME TypeOK, ReadStanding, [RemindersNext]_reminders
    PROVE  ReadStanding'
<1> USE DEF bookingVars, sweepVars, ghosts
<1>t. /\ firing \subseteq Reminder
      /\ status \in [Bookings -> {"none", "CONFIRMED", "ENDED"}]
  BY DEF TypeOK
<1>0. ASSUME UNCHANGED <<status, overtaken>>, firing' \subseteq firing
      PROVE  ReadStanding'
  BY <1>0 DEF ReadStanding
<1>1. ASSUME NEW b \in Bookings, ConfirmBooking(b) PROVE ReadStanding'
  BY <1>1, <1>t DEF ConfirmBooking, ReadStanding
<1>2. ASSUME NEW b \in Bookings, CancelBooking(b) PROVE ReadStanding'
  BY <1>2, <1>t DEF CancelBooking, Overtaken, ReadStanding
<1>3. ASSUME NEW b \in Bookings, HandleConfirmed(b) \/ HandleCanceled(b) PROVE ReadStanding'
  BY <1>0, <1>3 DEF HandleConfirmed, HandleCanceled
<1>4. ASSUME NEW b \in Bookings, NEW c \in Bookings, Reschedule(b, c) PROVE ReadStanding'
  <2> SUFFICES ASSUME NEW j \in firing', j \notin overtaken'
               PROVE  status'[j[2]] = "CONFIRMED"
    BY DEF ReadStanding
  <2>1. j \in firing /\ j \notin overtaken /\ j[2] # b
    BY <1>4 DEF Reschedule, Overtaken
  <2>2. status[j[2]] = "CONFIRMED" /\ j[2] \in Bookings
    BY <1>t, <2>1, ReminderParts DEF ReadStanding
  <2> QED BY <1>4, <1>t, <2>1, <2>2 DEF Reschedule
<1>5. ASSUME NEW b \in Bookings, NEW c \in Bookings, HandleRescheduled(b, c) PROVE ReadStanding'
  BY <1>0, <1>5 DEF HandleRescheduled
<1>6. ASSUME NEW j \in Reminder, FireReads(j) PROVE ReadStanding'
  BY <1>6 DEF FireReads, ReadStanding
<1>7. ASSUME NEW j \in Reminder, FireWrites(j) PROVE ReadStanding'
  BY <1>0, <1>7 DEF FireWrites
<1>8. ASSUME SweepReminders \/ RedisLost \/ WorkerStarts \/ Tick PROVE ReadStanding'
  BY <1>0, <1>8 DEF SweepReminders, RedisLost, WorkerStarts, Tick
<1>9. ASSUME NEW os \in OffsetSets, SaveSettings(os) PROVE ReadStanding'
  BY <1>0, <1>9 DEF SaveSettings
<1>10. CASE UNCHANGED reminders
  BY <1>0, <1>10 DEF reminders
<1> QED
  BY <1>1, <1>2, <1>3, <1>4, <1>5, <1>6, <1>7, <1>8, <1>9, <1>10 DEF RemindersNext

(* Nobody is reminded of an appointment that had ended when the job looked, for
   every way a job may survive what should have removed it
   (reminder-scheduler.service.ts, fire). *)
THEOREM EndedIsLeftAlone == RemindersSpec => GoneIsNotRemindedOf
<1> DEFINE Inv == RemindersInv /\ ReadStanding
<1>1. RemindersInit => Inv
  BY RemindersBegin
<1>2. Inv /\ [RemindersNext]_reminders => Inv'
  BY RemindersStep, ReadStandingStep DEF RemindersInv
<1>3. ASSUME Inv, [RemindersNext]_reminders
      PROVE  [\A j \in reminded' \ reminded :
                 status[j[2]] = "CONFIRMED" \/ j \in overtaken]_reminders
  <2> SUFFICES ASSUME RemindersNext, NEW j \in reminded' \ reminded
               PROVE  status[j[2]] = "CONFIRMED" \/ j \in overtaken
    BY <1>3
  <2> USE DEF bookingVars, sweepVars, ghosts
  <2>1. ASSUME NEW i \in Reminder, FireWrites(i)
        PROVE  status[j[2]] = "CONFIRMED" \/ j \in overtaken
    BY <1>3, <2>1 DEF FireWrites, ReadStanding
  <2>2. ASSUME NEW b \in Bookings,
               ConfirmBooking(b) \/ CancelBooking(b) \/ HandleConfirmed(b) \/ HandleCanceled(b)
        PROVE  FALSE
    BY <2>2 DEF ConfirmBooking, CancelBooking, HandleConfirmed, HandleCanceled
  <2>3. ASSUME NEW b \in Bookings, NEW c \in Bookings,
               Reschedule(b, c) \/ HandleRescheduled(b, c)
        PROVE  FALSE
    BY <2>3 DEF Reschedule, HandleRescheduled
  <2>4. ASSUME NEW i \in Reminder, FireReads(i) PROVE FALSE
    BY <2>4 DEF FireReads
  <2>5. ~(SweepReminders \/ RedisLost \/ WorkerStarts \/ Tick)
    BY DEF SweepReminders, RedisLost, WorkerStarts, Tick
  <2>6. ASSUME NEW os \in OffsetSets, SaveSettings(os) PROVE FALSE
    BY <2>6 DEF SaveSettings
  <2> QED BY <2>1, <2>2, <2>3, <2>4, <2>5, <2>6 DEF RemindersNext
<1> QED BY <1>1, <1>2, <1>3, PTL DEF RemindersSpec, GoneIsNotRemindedOf

-----------------------------------------------------------------------------
(* Desk: what is inductive                                                 *)

Live(c) == call[c] # NoCall
Intent(s) == <<s, screen[s].intent>>

\* Fields nothing is concluded from are typed by what they hold
CallOK(r) ==
    /\ r \in [at : {"sent", "running", "committed"} \cup Answered, intent : Screens \X Nat,
              key : Keys \cup {"None"}, heard : {r.heard}, body : {r.body}]
    /\ r.body.kind \in Kinds /\ r.body.on \in Rows

ScreenOK(r) ==
    r \in [on : Rows, can : {r.can}, dialog : Kinds \cup {"None"}, form : {r.form},
           key : Keys \cup {"None"}, intent : Nat, tried : {r.tried},
           action : {r.action}, shown : {r.shown}]

RowOK(r) ==
    r \in [state : {"ABSENT", "IN_PROGRESS", "COMPLETED"}, body : {r.body}, lapsed : {r.lapsed}]

DeskTypes ==
    /\ DOMAIN call = Calls /\ \A c \in Calls : Live(c) => CallOK(call[c])
    /\ DOMAIN screen = Screens /\ \A s \in Screens : ScreenOK(screen[s])
    /\ DOMAIN key = Keys /\ \A k \in Keys : RowOK(key[k])
    /\ booking \in [Rows -> [status : {"ABSENT", "CONFIRMED", "CANCELED_BY_BUSINESS",
                                       "CANCELED_BY_CUSTOMER", "COMPLETED"},
                             root : Rows \cup {"None"}]]
    /\ \A e \in entries : e.intent \in Screens \X Nat /\ e.kind \in Kinds /\ e.on \in Rows

\* What a screen acts on now is what its requests and entries of this intent are about
ActsOnCurrent ==
    \A s \in Screens :
        /\ \A c \in Calls : Live(c) /\ call[c].intent[1] = s =>
              /\ call[c].intent[2] <= screen[s].intent
              /\ call[c].intent = Intent(s) =>
                    /\ screen[s].tried /\ call[c].key = screen[s].key
                    /\ call[c].body.kind = screen[s].dialog /\ call[c].body.on = screen[s].on
        /\ \A e \in entries : e.intent[1] = s =>
              /\ e.intent[2] <= screen[s].intent
              /\ e.intent = Intent(s) =>
                    /\ screen[s].tried /\ e.kind = screen[s].dialog /\ e.on = screen[s].on
                    /\ e.kind \in Keyed => screen[s].key # "None"

\* Attempts of one intent are alike, and like the entry they left
AttemptsAlike ==
    \A c \in Calls : Live(c) =>
        /\ \A d \in Calls : Live(d) /\ call[d].intent = call[c].intent =>
              /\ call[d].key = call[c].key
              /\ call[d].body.kind = call[c].body.kind /\ call[d].body.on = call[c].body.on
        /\ \A e \in entries : e.intent = call[c].intent =>
              e.kind = call[c].body.kind /\ e.on = call[c].body.on

\* A key is named for an intent: by an attempt under way, or by the screen
NamedFor(k, i) ==
    \/ \E c \in Calls : Live(c) /\ call[c].intent = i /\ call[c].key = k
    \/ \E s \in Screens : Intent(s) = i /\ screen[s].key = k

KeyOfOneIntent ==
    \A k \in Keys : \A i, j \in Screens \X Nat : NamedFor(k, i) /\ NamedFor(k, j) => i = j

\* The routes with a key, and those without
KeyedRoutes ==
    \A c \in Calls : Live(c) =>
        /\ call[c].key = "None" <=> call[c].body.kind \notin Keyed
        /\ call[c].at = "committed" => call[c].body.kind \in Keyed

\* A handler runs under a row it alone holds
Inside(c) == Live(c) /\ call[c].at \in {"running", "committed"} /\ call[c].key # "None"
HandlerHoldsRow ==
    \A c \in Calls : Inside(c) =>
        /\ key[call[c].key].state = "IN_PROGRESS" /\ ~key[call[c].key].lapsed
        /\ \A d \in Calls : Inside(d) /\ call[d].key = call[c].key => c = d

\* What was carried out under a key is stored, or about to be
Storing(k) == \E c \in Calls : Inside(c) /\ call[c].key = k /\ call[c].at = "committed"
DoneIsStored ==
    \A k \in Keys : \A e \in entries :
        NamedFor(k, e.intent) => key[k].state = "COMPLETED" \/ Storing(k)

\* What is stored has been carried out
Entered(i) == \E e \in entries : e.intent = i
StoredIsDone ==
    \A k \in Keys : \A i \in Screens \X Nat :
        NamedFor(k, i) /\ key[k].state = "COMPLETED" => Entered(i)

\* So has what is answered, or will be
AnsweredIsDone ==
    /\ \A c \in Calls : Live(c) /\ call[c].at \in {"ok", "committed"} => Entered(call[c].intent)
    /\ \A i \in reported : Entered(i)

\* Attended is attended for good
AttendedOnce ==
    \A e \in entries :
        e.kind = "attend" => booking[e.on].status \notin {"ABSENT", "CONFIRMED"}

OneEntry == \A e, f \in entries : e.intent = f.intent => e = f

DeskInv ==
    /\ DeskTypes /\ ActsOnCurrent /\ AttemptsAlike /\ KeyOfOneIntent /\ KeyedRoutes
    /\ HandlerHoldsRow /\ DoneIsStored /\ StoredIsDone /\ AnsweredIsDone /\ AttendedOnce
    /\ OneEntry

-----------------------------------------------------------------------------
(* Desk: what its operators do                                             *)

\* A screen goes on with its intent, or begins a new one
Kept(r, q) ==
    /\ ScreenOK(r) /\ r.intent = q.intent /\ r.key = q.key /\ r.on = q.on
    /\ q.tried => r.tried
    /\ q.dialog # "None" => r.dialog = q.dialog

Renewed(r, q) ==
    /\ ScreenOK(r) /\ r.key = "None" /\ q.intent <= r.intent
    /\ q.tried => q.intent < r.intent

LEMMA NewIntentIsNew ==
    ASSUME NEW r, ScreenOK(r)
    PROVE  Renewed(NewIntent(r), r)
<1>1. PICK n \in Nat : n = IF r.tried THEN r.intent + 1 ELSE r.intent
  BY DEF ScreenOK
<1>2. NewIntent(r) = [r EXCEPT !.key = "None", !.tried = FALSE, !.intent = n]
  BY <1>1 DEF NewIntent
<1>3. PICK f : f = FALSE
  OBVIOUS
<1>4. NewIntent(r) = [r EXCEPT !.key = "None", !.tried = f, !.intent = n]
  BY <1>2, <1>3
<1>5. ScreenOK(NewIntent(r)) /\ NewIntent(r).key = "None" /\ NewIntent(r).intent = n
  BY <1>4 DEF ScreenOK
<1>6. r.intent \in Nat /\ r.intent <= n /\ (r.tried => r.intent < n)
  BY <1>1 DEF ScreenOK
<1> QED BY <1>5, <1>6 DEF Renewed

\* A screen that hears an answer, or nothing
LEMMA HeardKeepsOrRenews ==
    ASSUME NEW r, ScreenOK(r), NEW answer
    PROVE  Kept(Heard(r, answer), r) \/ Renewed(Heard(r, answer), r)
<1>1. PICK a : a = AtRest
  OBVIOUS
<1>2. PICK f : f = [r.form EXCEPT !["create"] = 0]
  OBVIOUS
<1>3. CASE r.action.kind = "create" /\ answer = "SLOT_UNAVAILABLE"
  <2>1. PICK q : q = [r EXCEPT !.action = a, !.form = f]
    OBVIOUS
  <2>2. ScreenOK(q) /\ q.intent = r.intent /\ q.tried = r.tried
    BY <2>1 DEF ScreenOK
  <2>3. Heard(r, answer) = NewIntent(q)
    BY <1>1, <1>2, <1>3, <2>1 DEF Heard
  <2> QED BY <2>2, <2>3, NewIntentIsNew DEF Renewed
<1>4. CASE r.action.kind = "create" /\ answer = "ok"
  <2>1. PICK q : q = [r EXCEPT !.action = a, !.form = f, !.dialog = "None"]
    OBVIOUS
  <2>2. ScreenOK(q) /\ q.intent = r.intent /\ q.tried = r.tried
    BY <2>1 DEF ScreenOK
  <2>3. Heard(r, answer) = NewIntent(q)
    BY <1>1, <1>2, <1>4, <2>1 DEF Heard
  <2> QED BY <2>2, <2>3, NewIntentIsNew DEF Renewed
<1>5. CASE r.action.kind = "create" /\ answer \notin {"SLOT_UNAVAILABLE", "ok"}
  <2>1. Heard(r, answer) = [r EXCEPT !.action = a]
    BY <1>1, <1>5 DEF Heard
  <2> QED BY <2>1 DEF Kept, ScreenOK
<1>6. CASE r.action.kind # "create"
  <2>1. PICK b : b = [[[r.action EXCEPT !.step = "reading"] EXCEPT !.call = "None"]
                        EXCEPT !.applied = (answer = "ok")]
    OBVIOUS
  <2>2. Heard(r, answer) = [r EXCEPT !.action = b]
    BY <1>6, <2>1 DEF Heard, ScreenOK
  <2> QED BY <2>2 DEF Kept, ScreenOK
<1> QED BY <1>3, <1>4, <1>5, <1>6

\* A screen that has read the booking again, or failed to
LEMMA FinishKeepsOrRenews ==
    ASSUME NEW r, ScreenOK(r)
    PROVE  Kept(Finish(r), r) \/ Renewed(Finish(r), r)
<1>1. PICK a : a = AtRest
  OBVIOUS
<1>2. PICK f : f = [r.form EXCEPT ![r.action.kind] = 0]
  OBVIOUS
<1>3. CASE r.action.applied
  <2>1. PICK q : q = [r EXCEPT !.form = f, !.dialog = "None", !.action = a]
    OBVIOUS
  <2>2. ScreenOK(q) /\ q.intent = r.intent /\ q.tried = r.tried
    BY <2>1 DEF ScreenOK
  <2>3. Finish(r) = NewIntent(q)
    BY <1>1, <1>2, <1>3, <2>1 DEF Finish
  <2> QED BY <2>2, <2>3, NewIntentIsNew DEF Renewed
<1>4. CASE ~r.action.applied
  <2>1. Finish(r) = [r EXCEPT !.action = a]
    BY <1>1, <1>4 DEF Finish
  <2> QED BY <2>1 DEF Kept, ScreenOK
<1> QED BY <1>3, <1>4

\* A request is no free place
LEMMA CallIsLive ==
    ASSUME NEW r, CallOK(r)
    PROVE  r # NoCall /\ r.at # "idle"
<1>1. r.at # "idle"
  BY DEF CallOK, Answered
<1>2. NoCall.at = "idle"
  BY DEF NoCall
<1> QED BY <1>1, <1>2

\* A request advances
LEMMA AtChanged ==
    ASSUME DeskTypes, NEW c \in Calls, Live(c),
           NEW x \in {"sent", "running", "committed"} \cup Answered,
           call' = [call EXCEPT ![c].at = x]
    PROVE  /\ DOMAIN call' = Calls /\ \A d \in Calls \ {c} : call'[d] = call[d]
           /\ CallOK(call'[c]) /\ call'[c] # NoCall
           /\ call'[c].at = x /\ call'[c].intent = call[c].intent
           /\ call'[c].key = call[c].key /\ call'[c].body = call[c].body
<1>1. CallOK(call[c]) /\ DOMAIN call = Calls
  BY DEF DeskTypes
<1>2. PICK r : r = [call[c] EXCEPT !.at = x]
  OBVIOUS
<1>3. CallOK(r)
  BY <1>1, <1>2 DEF CallOK
<1>4. /\ r.at = x /\ r.intent = call[c].intent
      /\ r.key = call[c].key /\ r.body = call[c].body
  BY <1>1, <1>2 DEF CallOK
<1>5. call' = [call EXCEPT ![c] = r]
  BY <1>2
<1>6. call'[c] = r /\ DOMAIN call' = Calls /\ \A d \in Calls \ {c} : call'[d] = call[d]
  BY <1>1, <1>5
<1> QED BY <1>3, <1>4, <1>6, CallIsLive

-----------------------------------------------------------------------------
(* Desk: the steps, by what they touch                                     *)

\* Requests stay what they are about
SameRequest(c) ==
    /\ CallOK(call'[c]) /\ call'[c] # NoCall
    /\ call'[c].intent = call[c].intent /\ call'[c].key = call[c].key
    /\ call'[c].body = call[c].body

\* A step of the screens, on which requests only end: what they have done stands
LEMMA ScreensMove ==
    ASSUME DeskInv, UNCHANGED server, DOMAIN call' = Calls, DOMAIN screen' = Screens,
           \A s \in Screens : Kept(screen'[s], screen[s]) \/ Renewed(screen'[s], screen[s]),
           \A c \in Calls :
              \/ call'[c] = NoCall /\ (Live(c) => call[c].at \notin {"running", "committed"})
              \/ Live(c) /\ SameRequest(c) /\ call'[c].at = call[c].at,
           \A i \in reported' :
              i \in reported \/ \E c \in Calls : Live(c) /\ call[c].at = "ok" /\ call[c].intent = i
    PROVE  DeskInv'
<1>t. /\ DeskTypes /\ ActsOnCurrent /\ AttemptsAlike /\ KeyOfOneIntent /\ KeyedRoutes
      /\ HandlerHoldsRow /\ DoneIsStored /\ StoredIsDone /\ AnsweredIsDone /\ AttendedOnce
      /\ OneEntry
  BY DEF DeskInv
<1>v. booking' = booking /\ entries' = entries /\ key' = key
  BY DEF server
<1>c. ASSUME NEW c \in Calls, Live(c)'
      PROVE  /\ Live(c) /\ CallOK(call[c]) /\ call'[c].at = call[c].at
             /\ call'[c].intent = call[c].intent /\ call'[c].key = call[c].key
             /\ call'[c].body = call[c].body
  BY <1>c, <1>t DEF Live, SameRequest, DeskTypes
<1>s. ASSUME NEW s \in Screens
      PROVE  /\ ScreenOK(screen[s]) /\ screen[s].intent \in Nat
             /\ ScreenOK(screen'[s]) /\ screen'[s].intent \in Nat
             /\ screen[s].intent <= screen'[s].intent
  <2>1. ScreenOK(screen[s]) /\ ScreenOK(screen'[s])
    BY <1>t DEF DeskTypes, Kept, Renewed
  <2>2. screen[s].intent \in Nat /\ screen'[s].intent \in Nat
    BY <2>1 DEF ScreenOK
  <2>3. Kept(screen'[s], screen[s]) \/ Renewed(screen'[s], screen[s])
    OBVIOUS
  <2> QED BY <2>1, <2>2, <2>3 DEF Kept, Renewed
<1>1. DeskTypes'
  <2>1. \A c \in Calls : Live(c)' => CallOK(call[c])'
    BY DEF Live, SameRequest, CallOK
  <2>2. \A s \in Screens : ScreenOK(screen[s])'
    BY <1>s DEF ScreenOK
  <2>3. DOMAIN key' = Keys /\ \A k \in Keys : RowOK(key[k])'
    BY <1>t, <1>v DEF DeskTypes, RowOK
  <2>4. booking' \in [Rows -> [status : {"ABSENT", "CONFIRMED", "CANCELED_BY_BUSINESS",
                                         "CANCELED_BY_CUSTOMER", "COMPLETED"},
                               root : Rows \cup {"None"}]]
    BY <1>t, <1>v DEF DeskTypes
  <2>5. \A e \in entries' : e.intent \in Screens \X Nat /\ e.kind \in Kinds /\ e.on \in Rows
    BY <1>t, <1>v DEF DeskTypes
  <2> QED BY <2>1, <2>2, <2>3, <2>4, <2>5 DEF DeskTypes
\* An intent that is current was current before, and its screen went on with it
<1>i. ASSUME NEW s \in Screens, NEW i \in Screens \X Nat, i = Intent(s)',
             i[1] = s => i[2] <= screen[s].intent,
             i = Intent(s) => screen[s].tried
      PROVE  i = Intent(s) /\ Kept(screen'[s], screen[s])
  <2>1. i[1] = s /\ i[2] = screen'[s].intent
    BY <1>i DEF Intent
  <2>2. screen'[s].intent = screen[s].intent
    BY <1>i, <1>s, <2>1
  <2>3. i = Intent(s)
    BY <1>i, <2>2 DEF Intent
  <2>4. ~Renewed(screen'[s], screen[s])
    BY <1>i, <1>s, <2>2, <2>3 DEF Renewed
  <2> QED BY <2>3, <2>4
<1>2. ActsOnCurrent'
  <2> SUFFICES ASSUME NEW s \in Screens
               PROVE  /\ \A c \in Calls : Live(c)' /\ call'[c].intent[1] = s =>
                            /\ call'[c].intent[2] <= screen'[s].intent
                            /\ call'[c].intent = Intent(s)' =>
                                  /\ screen'[s].tried /\ call'[c].key = screen'[s].key
                                  /\ call'[c].body.kind = screen'[s].dialog
                                  /\ call'[c].body.on = screen'[s].on
                      /\ \A e \in entries' : e.intent[1] = s =>
                            /\ e.intent[2] <= screen'[s].intent
                            /\ e.intent = Intent(s)' =>
                                  /\ screen'[s].tried
                                  /\ e.kind = screen'[s].dialog /\ e.on = screen'[s].on
                                  /\ e.kind \in Keyed => screen'[s].key # "None"
    BY DEF ActsOnCurrent
  <2>0. "None" \notin Kinds
    BY DEF Kinds, Keyed
  <2>1. ASSUME NEW c \in Calls, Live(c)', call'[c].intent[1] = s
        PROVE  /\ call'[c].intent[2] <= screen'[s].intent
               /\ call'[c].intent = Intent(s)' =>
                     /\ screen'[s].tried /\ call'[c].key = screen'[s].key
                     /\ call'[c].body.kind = screen'[s].dialog
                     /\ call'[c].body.on = screen'[s].on
    <3>1. /\ Live(c) /\ CallOK(call[c]) /\ call'[c].intent = call[c].intent
          /\ call'[c].key = call[c].key /\ call'[c].body = call[c].body
      BY <1>c, <2>1
    <3>2. /\ call[c].intent[2] <= screen[s].intent
          /\ call[c].intent = Intent(s) =>
                /\ screen[s].tried /\ call[c].key = screen[s].key
                /\ call[c].body.kind = screen[s].dialog /\ call[c].body.on = screen[s].on
      BY <1>t, <2>1, <3>1 DEF ActsOnCurrent
    <3>3. call[c].intent \in Screens \X Nat /\ call[c].body.kind \in Kinds
      BY <3>1 DEF CallOK
    <3>4. call'[c].intent[2] <= screen'[s].intent
      <4>1. PICK n \in Nat : n = call[c].intent[2]
        BY <3>3
      <4> QED BY <1>s, <3>1, <3>2, <4>1
    <3>5. ASSUME call'[c].intent = Intent(s)'
          PROVE  /\ screen'[s].tried /\ call'[c].key = screen'[s].key
                 /\ call'[c].body.kind = screen'[s].dialog
                 /\ call'[c].body.on = screen'[s].on
      <4>1. call[c].intent = Intent(s) /\ Kept(screen'[s], screen[s])
        BY <1>i, <3>1, <3>2, <3>3, <3>5
      <4> QED BY <2>0, <3>1, <3>2, <3>3, <4>1 DEF Kept
    <3> QED BY <3>4, <3>5
  <2>2. ASSUME NEW e \in entries', e.intent[1] = s
        PROVE  /\ e.intent[2] <= screen'[s].intent
               /\ e.intent = Intent(s)' =>
                     /\ screen'[s].tried
                     /\ e.kind = screen'[s].dialog /\ e.on = screen'[s].on
                     /\ e.kind \in Keyed => screen'[s].key # "None"
    <3>1. e \in entries
      BY <1>v
    <3>2. /\ e.intent[2] <= screen[s].intent
          /\ e.intent = Intent(s) =>
                /\ screen[s].tried
                /\ e.kind = screen[s].dialog /\ e.on = screen[s].on
                /\ e.kind \in Keyed => screen[s].key # "None"
      BY <1>t, <2>2, <3>1 DEF ActsOnCurrent
    <3>3. e.intent \in Screens \X Nat /\ e.kind \in Kinds
      BY <1>t, <3>1 DEF DeskTypes
    <3>4. e.intent[2] <= screen'[s].intent
      <4>1. PICK n \in Nat : n = e.intent[2]
        BY <3>3
      <4> QED BY <1>s, <3>2, <4>1
    <3>5. ASSUME e.intent = Intent(s)'
          PROVE  /\ screen'[s].tried
                 /\ e.kind = screen'[s].dialog /\ e.on = screen'[s].on
                 /\ e.kind \in Keyed => screen'[s].key # "None"
      <4>1. e.intent = Intent(s) /\ Kept(screen'[s], screen[s])
        BY <1>i, <3>2, <3>3, <3>5
      <4> QED BY <2>0, <3>2, <3>3, <4>1 DEF Kept
    <3> QED BY <3>4, <3>5
  <2> QED BY <2>1, <2>2
<1>3. AttemptsAlike'
  BY <1>c, <1>t, <1>v DEF AttemptsAlike
<1>n. ASSUME NEW k \in Keys, NEW i \in Screens \X Nat, NamedFor(k, i)'
      PROVE  NamedFor(k, i)
  <2>1. ASSUME NEW c \in Calls, Live(c)', call'[c].intent = i, call'[c].key = k
        PROVE  NamedFor(k, i)
    BY <1>c, <2>1 DEF NamedFor
  <2>2. ASSUME NEW s \in Screens, Intent(s)' = i, screen'[s].key = k
        PROVE  NamedFor(k, i)
    <3>1. k # "None"
      BY DeskAssumption
    <3>2. Kept(screen'[s], screen[s])
      BY <2>2, <3>1 DEF Renewed
    <3>3. Intent(s)' = Intent(s) /\ screen'[s].key = screen[s].key
      BY <3>2 DEF Kept, Intent
    <3> QED BY <2>2, <3>3 DEF NamedFor
  <2> QED BY <1>n, <2>1, <2>2 DEF NamedFor
<1>4. KeyOfOneIntent'
  BY <1>n, <1>t DEF KeyOfOneIntent
<1>5. KeyedRoutes'
  BY <1>c, <1>t DEF KeyedRoutes
<1>o. ASSUME NEW c \in Calls
      PROVE  /\ Inside(c)' <=> Inside(c)
             /\ Inside(c) => call'[c].key = call[c].key /\ call'[c].at = call[c].at
  <2>1. Inside(c)' => Inside(c)
    BY <1>c DEF Inside
  <2>2. Inside(c) => Inside(c)' /\ call'[c].key = call[c].key /\ call'[c].at = call[c].at
    BY DEF Inside, Live, SameRequest
  <2> QED BY <2>1, <2>2
<1>6. HandlerHoldsRow'
  BY <1>o, <1>t, <1>v DEF HandlerHoldsRow
<1>7. DoneIsStored'
  <2>1. ASSUME NEW k \in Keys, Storing(k) PROVE Storing(k)'
    BY <1>o, <2>1 DEF Storing
  <2>2. \A e \in entries : e.intent \in Screens \X Nat
    BY <1>t DEF DeskTypes
  <2> QED BY <1>n, <1>t, <1>v, <2>1, <2>2 DEF DoneIsStored
<1>8. StoredIsDone'
  BY <1>n, <1>t, <1>v DEF StoredIsDone, Entered
<1>9. AnsweredIsDone'
  BY <1>c, <1>t, <1>v DEF AnsweredIsDone, Entered
<1>10. AttendedOnce' /\ OneEntry'
  BY <1>t, <1>v DEF AttendedOnce, OneEntry
<1> QED
  BY <1>1, <1>2, <1>3, <1>4, <1>5, <1>6, <1>7, <1>8, <1>9, <1>10 DEF DeskInv

\* A request that stands is the same request
LEMMA Unmoved ==
    ASSUME DeskInv, NEW c \in Calls, call'[c] = call[c]
    PROVE  /\ Live(c)' <=> Live(c)
           /\ Live(c) => SameRequest(c) /\ call'[c].at = call[c].at
  BY DEF DeskInv, DeskTypes, Live, SameRequest

\* A step of one screen alone
LEMMA OneScreenMoves ==
    ASSUME DeskInv, NEW s \in Screens, NEW r, Kept(r, screen[s]) \/ Renewed(r, screen[s]),
           screen' = [screen EXCEPT ![s] = r], UNCHANGED <<server, call, reported>>
    PROVE  DeskInv'
<1>1. DeskTypes
  BY DEF DeskInv
<1>2. DOMAIN call' = Calls /\ DOMAIN screen' = Screens
  BY <1>1 DEF DeskTypes
<1>3. ASSUME NEW x \in Screens
      PROVE  Kept(screen'[x], screen[x]) \/ Renewed(screen'[x], screen[x])
  <2>1. ScreenOK(screen[x])
    BY <1>1 DEF DeskTypes
  <2>2. CASE x = s
    BY <1>1, <2>2 DEF DeskTypes
  <2>3. CASE x # s
    <3>1. screen'[x] = screen[x]
      BY <1>1, <2>3 DEF DeskTypes
    <3> QED BY <2>1, <3>1 DEF Kept
  <2> QED BY <2>2, <2>3
<1>4. \A c \in Calls :
         \/ call'[c] = NoCall /\ (Live(c) => call[c].at \notin {"running", "committed"})
         \/ Live(c) /\ SameRequest(c) /\ call'[c].at = call[c].at
  BY Unmoved DEF Live
<1> QED BY <1>2, <1>3, <1>4, ScreensMove

\* BookingDetail.vue and NewBooking.vue, while no answer comes
LEMMA ScreenActs ==
    ASSUME DeskInv, NEW s \in Screens,
           \/ \E kind \in Kinds : Open(s, kind)
           \/ \E amount \in -1..1 : Type(s, amount)
           \/ Close(s) \/ Visit(s) \/ ReadBooking(s) \/ ReadMoney(s) \/ ReadFails(s)
    PROVE  DeskInv'
<1>0. ScreenOK(screen[s])
  BY DEF DeskInv, DeskTypes
<1>1. ASSUME NEW kind \in Kinds, Open(s, kind) PROVE DeskInv'
  <2>1. PICK r : r = [screen[s] EXCEPT !.dialog = kind]
    OBVIOUS
  <2>2. Kept(r, screen[s])
    BY <1>0, <1>1, <2>1 DEF Kept, ScreenOK, Open
  <2> QED BY <1>1, <2>1, <2>2, OneScreenMoves DEF Open
<1>2. ASSUME NEW amount \in -1..1, Type(s, amount) PROVE DeskInv'
  <2>1. PICK f : f = [screen[s].form EXCEPT ![screen[s].dialog] = amount]
    OBVIOUS
  <2>2. PICK r : r = [screen[s] EXCEPT !.form = f]
    OBVIOUS
  <2>3. ScreenOK(r) /\ r.intent = screen[s].intent /\ r.tried = screen[s].tried
    BY <1>0, <2>2 DEF ScreenOK
  <2>4. Renewed(NewIntent(r), screen[s])
    BY <2>3, NewIntentIsNew DEF Renewed
  <2>5. screen' = [screen EXCEPT ![s] = NewIntent(r)] /\ UNCHANGED <<server, call, reported>>
    BY <1>2, <2>1, <2>2 DEF Type
  <2> QED BY <2>4, <2>5, OneScreenMoves
<1>3. ASSUME Close(s) PROVE DeskInv'
  <2>1. PICK r : r = [screen[s] EXCEPT !.dialog = "None"]
    OBVIOUS
  <2>2. ScreenOK(r) /\ r.intent = screen[s].intent /\ r.tried = screen[s].tried
    BY <1>0, <2>1 DEF ScreenOK
  <2>3. Renewed(NewIntent(r), screen[s])
    BY <2>2, NewIntentIsNew DEF Renewed
  <2> QED BY <1>3, <2>1, <2>3, OneScreenMoves DEF Close
<1>4. ASSUME Visit(s) PROVE DeskInv'
  <2>1. PICK f : f = [k \in Kinds |-> 0]
    OBVIOUS
  <2>2. PICK h : h = Shown(Second)
    OBVIOUS
  <2>3. PICK r : r = [screen[s] EXCEPT !.on = Second, !.form = f, !.shown = h]
    OBVIOUS
  <2>4. ScreenOK(r) /\ r.intent = screen[s].intent /\ r.tried = screen[s].tried
    BY <1>0, <2>3 DEF ScreenOK, Rows
  <2>5. Renewed(NewIntent(r), screen[s])
    BY <2>4, NewIntentIsNew DEF Renewed
  <2>6. screen' = [screen EXCEPT ![s] = NewIntent(r)] /\ UNCHANGED <<server, call, reported>>
    BY <1>4, <2>1, <2>2, <2>3 DEF Visit
  <2> QED BY <2>5, <2>6, OneScreenMoves
<1>5. ASSUME ReadBooking(s) PROVE DeskInv'
  <2>1. PICK a : a = [screen[s].action EXCEPT !.step = "read"]
    OBVIOUS
  <2>2. PICK h : h = [screen[s].shown EXCEPT !.open = Shown(screen[s].on).open]
    OBVIOUS
  <2>3. PICK r : r = [[screen[s] EXCEPT !.action = a] EXCEPT !.shown = h]
    OBVIOUS
  <2>4. Kept(r, screen[s])
    BY <1>0, <2>3 DEF Kept, ScreenOK
  <2>5. screen' = [screen EXCEPT ![s] = r] /\ UNCHANGED <<server, call, reported>>
    <3>1. DOMAIN screen = Screens
      BY DEF DeskInv, DeskTypes
    <3>2. screen' = [[screen EXCEPT ![s].action.step = "read"]
                       EXCEPT ![s].shown.open = Shown(screen[s].on).open]
      BY <1>5 DEF ReadBooking
    <3>3. screen' = [[screen EXCEPT ![s] = [screen[s] EXCEPT !.action = a]] EXCEPT ![s] = r]
      BY <1>0, <2>1, <2>2, <2>3, <3>1, <3>2 DEF ScreenOK
    <3> QED BY <1>5, <3>1, <3>3 DEF ReadBooking
  <2> QED BY <2>4, <2>5, OneScreenMoves
<1>6. ASSUME ReadMoney(s) PROVE DeskInv'
  <2>1. PICK h : h = [screen[s].shown EXCEPT !.paid = Shown(screen[s].on).paid]
    OBVIOUS
  <2>2. PICK r : r = [screen[s] EXCEPT !.shown = h]
    OBVIOUS
  <2>3. /\ ScreenOK(r) /\ r.intent = screen[s].intent /\ r.key = screen[s].key
        /\ r.on = screen[s].on /\ r.tried = screen[s].tried /\ r.dialog = screen[s].dialog
    BY <1>0, <2>2 DEF ScreenOK
  <2>4. Kept(Finish(r), screen[s]) \/ Renewed(Finish(r), screen[s])
    BY <2>3, FinishKeepsOrRenews DEF Kept, Renewed
  <2>5. screen' = [screen EXCEPT ![s] = Finish(r)] /\ UNCHANGED <<server, call, reported>>
    BY <1>6, <2>1, <2>2 DEF ReadMoney
  <2> QED BY <2>4, <2>5, OneScreenMoves
<1>7. ASSUME ReadFails(s) PROVE DeskInv'
  BY <1>0, <1>7, FinishKeepsOrRenews, OneScreenMoves DEF ReadFails
<1> QED BY <1>1, <1>2, <1>3, <1>4, <1>5, <1>6, <1>7

\* The screen hears the answer to a request
LEMMA AnswerArrives ==
    ASSUME DeskInv, NEW c \in Calls, Deliver(c)
    PROVE  DeskInv'
<1>1. DeskTypes
  BY DEF DeskInv
<1>2. Live(c) /\ CallOK(call[c]) /\ call[c].at \in Answered
  <2>1. call[c].at # "idle"
    BY DEF Deliver, Answered
  <2>2. Live(c)
    BY <2>1 DEF Live, NoCall
  <2> QED BY <1>1, <2>2 DEF DeskTypes, Deliver
<1>3. call' = [call EXCEPT ![c] = NoCall] /\ UNCHANGED server
  BY DEF Deliver
<1>4. \A d \in Calls :
         \/ call'[d] = NoCall /\ (Live(d) => call[d].at \notin {"running", "committed"})
         \/ Live(d) /\ SameRequest(d) /\ call'[d].at = call[d].at
  <2> TAKE d \in Calls
  <2>1. CASE d = c
    BY <1>1, <1>2, <1>3, <2>1 DEF DeskTypes, Answered
  <2>2. CASE d # c
    <3>1. call'[d] = call[d]
      BY <1>1, <1>3, <2>2 DEF DeskTypes
    <3> QED BY <3>1, Unmoved DEF Live
  <2> QED BY <2>1, <2>2
<1>5. DOMAIN call' = Calls
  BY <1>1, <1>3 DEF DeskTypes
<1>6. CASE call[c].heard
  <2>1. PICK s \in Screens : s = call[c].intent[1]
    BY <1>2 DEF CallOK
  <2>2. PICK r : r = Heard(screen[s], call[c].at)
    OBVIOUS
  <2>3. /\ screen' = [screen EXCEPT ![s] = r]
        /\ \A i \in reported' : i \in reported \/ (call[c].at = "ok" /\ call[c].intent = i)
    BY <1>6, <2>1, <2>2 DEF Deliver
  <2>4. ScreenOK(screen[s])
    BY <1>1 DEF DeskTypes
  <2>5. Kept(r, screen[s]) \/ Renewed(r, screen[s])
    BY <2>2, <2>4, HeardKeepsOrRenews
  <2>6. DOMAIN screen' = Screens
    BY <1>1, <2>3 DEF DeskTypes
  <2>7. ASSUME NEW x \in Screens
        PROVE  Kept(screen'[x], screen[x]) \/ Renewed(screen'[x], screen[x])
    <3>1. CASE x = s
      BY <1>1, <2>3, <2>5, <3>1 DEF DeskTypes
    <3>2. CASE x # s
      <4>1. screen'[x] = screen[x] /\ ScreenOK(screen[x])
        BY <1>1, <2>3, <3>2 DEF DeskTypes
      <4> QED BY <4>1 DEF Kept
    <3> QED BY <3>1, <3>2
  <2>8. \A i \in reported' :
           i \in reported \/ \E d \in Calls : Live(d) /\ call[d].at = "ok" /\ call[d].intent = i
    BY <1>2, <2>3
  <2> QED BY <1>3, <1>4, <1>5, <2>6, <2>7, <2>8, ScreensMove
<1>7. CASE ~call[c].heard
  <2>1. screen' = screen /\ reported' = reported
    BY <1>7 DEF Deliver
  <2>2. DOMAIN screen' = Screens /\ \A x \in Screens : Kept(screen'[x], screen[x])
    BY <1>1, <2>1 DEF DeskTypes, Kept
  <2> QED BY <1>3, <1>4, <1>5, <2>1, <2>2, ScreensMove
<1> QED BY <1>6, <1>7

\* The screen hears nothing more of its request
LEMMA AnswerIsLost ==
    ASSUME DeskInv, NEW s \in Screens, LoseAnswer(s)
    PROVE  DeskInv'
<1>1. DeskTypes
  BY DEF DeskInv
<1>2. PICK c : c = screen[s].action.call
  OBVIOUS
<1>3. PICK r : r = Heard(screen[s], "lost")
  OBVIOUS
<1>4. /\ screen' = [screen EXCEPT ![s] = r] /\ UNCHANGED <<server, reported>>
      /\ \/ call' = [call EXCEPT ![c].heard = FALSE]
         \/ call[c].at = "sent" /\ call' = [call EXCEPT ![c] = NoCall]
  BY <1>2, <1>3 DEF LoseAnswer
<1>5. Kept(r, screen[s]) \/ Renewed(r, screen[s])
  BY <1>1, <1>3, HeardKeepsOrRenews DEF DeskTypes
<1>6. DOMAIN screen' = Screens
  BY <1>1, <1>4 DEF DeskTypes
<1>7. ASSUME NEW x \in Screens
      PROVE  Kept(screen'[x], screen[x]) \/ Renewed(screen'[x], screen[x])
  <2>1. CASE x = s
    BY <1>1, <1>4, <1>5, <2>1 DEF DeskTypes
  <2>2. CASE x # s
    <3>1. screen'[x] = screen[x] /\ ScreenOK(screen[x])
      BY <1>1, <1>4, <2>2 DEF DeskTypes
    <3> QED BY <3>1 DEF Kept
  <2> QED BY <2>1, <2>2
<1>8. DOMAIN call' = Calls
  BY <1>1, <1>4 DEF DeskTypes
<1>9. \A d \in Calls :
         \/ call'[d] = NoCall /\ (Live(d) => call[d].at \notin {"running", "committed"})
         \/ Live(d) /\ SameRequest(d) /\ call'[d].at = call[d].at
  <2> TAKE d \in Calls
  <2>1. CASE d # c
    <3>1. call'[d] = call[d]
      BY <1>1, <1>4, <2>1 DEF DeskTypes
    <3> QED BY <3>1, Unmoved DEF Live
  <2>2. CASE d = c /\ call[c].at = "sent" /\ call' = [call EXCEPT ![c] = NoCall]
    BY <1>1, <2>2 DEF DeskTypes
  <2>3. CASE d = c /\ call' = [call EXCEPT ![c].heard = FALSE]
    <3>1. PICK f : f = FALSE
      OBVIOUS
    <3>2. PICK q : q = [call[c] EXCEPT !.heard = f]
      OBVIOUS
    <3>3. call'[d] = q
      BY <1>1, <2>3, <3>1, <3>2 DEF DeskTypes
    <3>4. CASE Live(d)
      <4>1. CallOK(call[d])
        BY <1>1, <3>4 DEF DeskTypes
      <4>2. /\ CallOK(q) /\ q.at = call[d].at /\ q.intent = call[d].intent
            /\ q.key = call[d].key /\ q.body = call[d].body
        BY <2>3, <3>2, <4>1 DEF CallOK
      <4> QED BY <3>3, <3>4, <4>2, CallIsLive DEF SameRequest
    <3>5. CASE ~Live(d)
      <4>1. q = NoCall
        BY <2>3, <3>2, <3>5 DEF Live, NoCall
      <4> QED BY <3>3, <3>5, <4>1
    <3> QED BY <3>4, <3>5
  <2> QED BY <1>4, <2>1, <2>2, <2>3
<1> QED BY <1>4, <1>6, <1>7, <1>8, <1>9, ScreensMove

\* A step of the server leaves the screens and what the requests are about
AdvanceCall ==
    /\ UNCHANGED <<screen, reported>> /\ DOMAIN call' = Calls
    /\ \A c \in Calls : IF Live(c) THEN SameRequest(c) ELSE call'[c] = NoCall

\* What such a step keeps
LEMMA AdvanceKeeps ==
    ASSUME DeskInv, AdvanceCall
    PROVE  /\ \A c \in Calls : Live(c)' <=> Live(c)
           /\ \A k, i : NamedFor(k, i)' <=> NamedFor(k, i)
           /\ DOMAIN call' = Calls /\ \A c \in Calls : Live(c)' => CallOK(call[c])'
           /\ DOMAIN screen' = Screens /\ \A s \in Screens : ScreenOK(screen[s])'
           /\ KeyOfOneIntent'
           /\ \A s \in Screens : \A c \in Calls : Live(c)' /\ call'[c].intent[1] = s =>
                 /\ call'[c].intent[2] <= screen'[s].intent
                 /\ call'[c].intent = Intent(s)' =>
                       /\ screen'[s].tried /\ call'[c].key = screen'[s].key
                       /\ call'[c].body.kind = screen'[s].dialog
                       /\ call'[c].body.on = screen'[s].on
           /\ \A c, d \in Calls :
                 Live(c)' /\ Live(d)' /\ call'[d].intent = call'[c].intent =>
                 /\ call'[d].key = call'[c].key
                 /\ call'[d].body.kind = call'[c].body.kind
                 /\ call'[d].body.on = call'[c].body.on
           /\ \A c \in Calls : Live(c)' =>
                 (call'[c].key = "None" <=> call'[c].body.kind \notin Keyed)
<1>t. /\ DeskTypes /\ ActsOnCurrent /\ AttemptsAlike /\ KeyOfOneIntent /\ KeyedRoutes
  BY DEF DeskInv
<1>1. \A c \in Calls : Live(c)' <=> Live(c)
  BY DEF AdvanceCall, SameRequest, Live
<1>2. \A c \in Calls : Live(c) =>
         /\ call'[c].intent = call[c].intent /\ call'[c].key = call[c].key
         /\ call'[c].body = call[c].body
  BY DEF AdvanceCall, SameRequest
<1>3. \A s : Intent(s)' = Intent(s)
  BY DEF AdvanceCall, Intent
<1>4. \A k, i : NamedFor(k, i)' <=> NamedFor(k, i)
  BY <1>1, <1>2, <1>3 DEF NamedFor, AdvanceCall
<1>5. KeyOfOneIntent'
  BY <1>4, <1>t DEF KeyOfOneIntent
<1>6. DOMAIN call' = Calls /\ \A c \in Calls : Live(c)' => CallOK(call[c])'
  BY <1>1 DEF AdvanceCall, SameRequest, CallOK
<1>7. DOMAIN screen' = Screens /\ \A s \in Screens : ScreenOK(screen[s])'
  BY <1>t DEF AdvanceCall, DeskTypes, ScreenOK
<1>8. \A s \in Screens : \A c \in Calls : Live(c)' /\ call'[c].intent[1] = s =>
         /\ call'[c].intent[2] <= screen'[s].intent
         /\ call'[c].intent = Intent(s)' =>
               /\ screen'[s].tried /\ call'[c].key = screen'[s].key
               /\ call'[c].body.kind = screen'[s].dialog
               /\ call'[c].body.on = screen'[s].on
  BY <1>t, <1>1, <1>2, <1>3 DEF ActsOnCurrent, AdvanceCall
<1>9. \A c, d \in Calls : Live(c)' /\ Live(d)' /\ call'[d].intent = call'[c].intent =>
         /\ call'[d].key = call'[c].key
         /\ call'[d].body.kind = call'[c].body.kind
         /\ call'[d].body.on = call'[c].body.on
  BY <1>t, <1>1, <1>2 DEF AttemptsAlike
<1>10. \A c \in Calls : Live(c)' =>
          (call'[c].key = "None" <=> call'[c].body.kind \notin Keyed)
  BY <1>t, <1>1, <1>2 DEF KeyedRoutes
<1> QED BY <1>1, <1>4, <1>5, <1>6, <1>7, <1>8, <1>9, <1>10

\* A request that advances alone
LEMMA OneAdvances ==
    ASSUME DeskInv, UNCHANGED <<screen, reported>>, NEW c \in Calls, Live(c),
           NEW x \in {"sent", "running", "committed"} \cup Answered,
           call' = [call EXCEPT ![c].at = x]
    PROVE  /\ AdvanceCall /\ call'[c].at = x /\ call'[c].key = call[c].key
           /\ \A d \in Calls \ {c} : call'[d] = call[d]
<1>1. DeskTypes
  BY DEF DeskInv
<1>2. /\ DOMAIN call' = Calls /\ \A d \in Calls \ {c} : call'[d] = call[d]
      /\ SameRequest(c) /\ call'[c].at = x /\ call'[c].key = call[c].key
  BY <1>1, AtChanged DEF SameRequest
<1>3. ASSUME NEW d \in Calls
      PROVE  IF Live(d) THEN SameRequest(d) ELSE call'[d] = NoCall
  <2>1. CASE d = c
    BY <1>2, <2>1
  <2>2. CASE d # c
    BY <1>2, <2>2, Unmoved DEF Live
  <2> QED BY <2>1, <2>2
<1> QED BY <1>2, <1>3 DEF AdvanceCall

\* A step of the server that carries nothing out: what is left to show
LEMMA NothingCarriedOut ==
    ASSUME DeskInv, AdvanceCall, entries' = entries,
           DOMAIN key' = Keys, \A k \in Keys : RowOK(key'[k]),
           booking' \in [Rows -> [status : {"ABSENT", "CONFIRMED", "CANCELED_BY_BUSINESS",
                                            "CANCELED_BY_CUSTOMER", "COMPLETED"},
                                  root : Rows \cup {"None"}]],
           \A b \in Rows : booking[b].status \notin {"ABSENT", "CONFIRMED"} =>
                           booking'[b].status \notin {"ABSENT", "CONFIRMED"},
           \A c \in Calls : Live(c) =>
              /\ call'[c].at = "committed" => call[c].at = "committed"
              /\ call'[c].at = "ok" =>
                    call[c].at \in {"ok", "committed"} \/ Entered(call[c].intent),
           HandlerHoldsRow', DoneIsStored', StoredIsDone'
    PROVE  DeskInv'
<1>t. /\ DeskTypes /\ ActsOnCurrent /\ AttemptsAlike /\ KeyedRoutes
      /\ AnsweredIsDone /\ AttendedOnce /\ OneEntry
  BY DEF DeskInv
<1>a. /\ \A c \in Calls : Live(c)' <=> Live(c)
      /\ DOMAIN call' = Calls /\ \A c \in Calls : Live(c)' => CallOK(call[c])'
      /\ DOMAIN screen' = Screens /\ \A s \in Screens : ScreenOK(screen[s])'
      /\ KeyOfOneIntent'
  BY AdvanceKeeps
<1>s. \A c \in Calls : Live(c) =>
         /\ call'[c].intent = call[c].intent /\ call'[c].key = call[c].key
         /\ call'[c].body = call[c].body
  BY DEF AdvanceCall, SameRequest
<1>r. screen' = screen /\ reported' = reported
  BY DEF AdvanceCall
<1>1. DeskTypes'
  <2>1. \A k \in Keys : RowOK(key[k])'
    BY DEF RowOK
  <2> QED BY <1>a, <1>t, <2>1 DEF DeskTypes
<1>2. ActsOnCurrent'
  <2>1. \A s \in Screens : \A e \in entries' : e.intent[1] = s =>
           /\ e.intent[2] <= screen'[s].intent
           /\ e.intent = Intent(s)' =>
                 /\ screen'[s].tried /\ e.kind = screen'[s].dialog /\ e.on = screen'[s].on
                 /\ e.kind \in Keyed => screen'[s].key # "None"
    BY <1>t, <1>r DEF ActsOnCurrent, Intent
  <2> QED BY <2>1, AdvanceKeeps DEF ActsOnCurrent
<1>3. AttemptsAlike'
  <2>1. \A c \in Calls : Live(c)' => \A e \in entries' : e.intent = call'[c].intent =>
           e.kind = call'[c].body.kind /\ e.on = call'[c].body.on
    BY <1>a, <1>s, <1>t DEF AttemptsAlike
  <2> QED BY <2>1, AdvanceKeeps DEF AttemptsAlike
<1>4. KeyedRoutes'
  <2>1. \A c \in Calls : Live(c)' /\ call'[c].at = "committed" => call'[c].body.kind \in Keyed
    BY <1>a, <1>s, <1>t DEF KeyedRoutes
  <2> QED BY <2>1, AdvanceKeeps DEF KeyedRoutes
<1>5. AnsweredIsDone'
  BY <1>a, <1>s, <1>r, <1>t DEF AnsweredIsDone, Entered
<1>6. AttendedOnce' /\ OneEntry'
  BY <1>t DEF AttendedOnce, OneEntry, DeskTypes
<1> QED BY <1>1, <1>2, <1>3, <1>4, <1>5, <1>6, <1>a DEF DeskInv

\* A row as it is before and after its use
LEMMA NoKeyIsARow == RowOK(NoKey) /\ NoKey.state = "ABSENT"
<1>1. PICK f : f = FALSE
  OBVIOUS
<1>2. NoKey = [state |-> "ABSENT", body |-> "None", lapsed |-> f]
  BY <1>1 DEF NoKey
<1> QED BY <1>2 DEF RowOK

\* While no row changes and no handler comes or goes, the rows say what they said
LEMMA RowsStand ==
    ASSUME DeskInv, AdvanceCall, UNCHANGED <<key, entries>>,
           \A c \in Calls : Inside(c)' => Inside(c),
           \A c \in Calls : Live(c) /\ call[c].at = "committed" => call'[c].at = "committed"
    PROVE  HandlerHoldsRow' /\ DoneIsStored' /\ StoredIsDone'
<1>t. DeskTypes /\ HandlerHoldsRow /\ DoneIsStored /\ StoredIsDone
  BY DEF DeskInv
<1>a. \A k, i : NamedFor(k, i)' <=> NamedFor(k, i)
  BY AdvanceKeeps
<1>s. \A c \in Calls : Live(c) => SameRequest(c)
  BY DEF AdvanceCall
<1>1. HandlerHoldsRow'
  BY <1>s, <1>t DEF HandlerHoldsRow, Inside, SameRequest
<1>2. ASSUME NEW k, Storing(k) PROVE Storing(k)'
  BY <1>2, <1>s DEF Storing, Inside, Live, SameRequest
<1>3. DoneIsStored'
  BY <1>a, <1>t, <1>2 DEF DoneIsStored
<1>4. StoredIsDone'
  BY <1>a, <1>t DEF StoredIsDone, Entered
<1> QED BY <1>1, <1>3, <1>4

\* The status of the rows stays what it is
LEMMA BookingStands ==
    ASSUME DeskInv, booking' = booking
    PROVE  /\ booking' \in [Rows -> [status : {"ABSENT", "CONFIRMED", "CANCELED_BY_BUSINESS",
                                               "CANCELED_BY_CUSTOMER", "COMPLETED"},
                                     root : Rows \cup {"None"}]]
           /\ \A b \in Rows : booking[b].status \notin {"ABSENT", "CONFIRMED"} =>
                              booking'[b].status \notin {"ABSENT", "CONFIRMED"}
  BY DEF DeskInv, DeskTypes

LEMMA KeyStands ==
    ASSUME DeskInv, key' = key
    PROVE  DOMAIN key' = Keys /\ \A k \in Keys : RowOK(key'[k])
  BY DEF DeskInv, DeskTypes

LEMMA AtIsLive ==
    ASSUME DeskInv, NEW c \in Calls, call[c].at # "idle"
    PROVE  Live(c) /\ CallOK(call[c])
  BY DEF DeskInv, DeskTypes, Live, NoCall

\* IdempotencyInterceptor, where begin finds the row
LEMMA BeginAnsweredKeeps ==
    ASSUME DeskInv, NEW c \in Calls, BeginAnswered(c)
    PROVE  DeskInv'
<1>1. Live(c) /\ CallOK(call[c])
  BY AtIsLive DEF BeginAnswered
<1>2. PICK x : x = Reply(c)
  OBVIOUS
<1>3. x \in {"refused", "ok", "busy"}
  BY <1>2 DEF Reply
<1>4. /\ call' = [call EXCEPT ![c].at = x] /\ UNCHANGED <<booking, entries, key, screen, reported>>
      /\ call[c].at = "sent" /\ call[c].key \in Keys
  BY <1>1, <1>2 DEF BeginAnswered, server, CallOK
<1>5. /\ AdvanceCall /\ call'[c].at = x /\ call'[c].key = call[c].key
      /\ \A d \in Calls \ {c} : call'[d] = call[d]
  BY <1>1, <1>3, <1>4, OneAdvances DEF Answered
<1>6. HandlerHoldsRow' /\ DoneIsStored' /\ StoredIsDone'
  <2>1. \A d \in Calls : Inside(d)' => Inside(d)
    BY <1>3, <1>5 DEF Inside, Live
  <2>2. \A d \in Calls : Live(d) /\ call[d].at = "committed" => call'[d].at = "committed"
    BY <1>4, <1>5
  <2> QED BY <1>4, <1>5, <2>1, <2>2, RowsStand
<1>7. x = "ok" => Entered(call[c].intent)
  <2>1. x = "ok" => key[call[c].key].state = "COMPLETED"
    BY <1>2 DEF Reply
  <2>2. NamedFor(call[c].key, call[c].intent) /\ call[c].intent \in Screens \X Nat
    BY <1>1 DEF NamedFor, CallOK
  <2> QED BY <1>4, <2>1, <2>2 DEF DeskInv, StoredIsDone
<1>8. \A d \in Calls : Live(d) =>
         /\ call'[d].at = "committed" => call[d].at = "committed"
         /\ call'[d].at = "ok" =>
               call[d].at \in {"ok", "committed"} \/ Entered(call[d].intent)
  BY <1>3, <1>5, <1>7
<1> QED BY <1>4, <1>5, <1>6, <1>8, BookingStands, KeyStands, NothingCarriedOut

\* A request whose process dies
LEMMA DiesKeeps ==
    ASSUME DeskInv, ~Unfinished, NEW c \in Calls, Dies(c)
    PROVE  DeskInv'
<1>1. Live(c) /\ call[c].at = "running"
  BY AtIsLive DEF Dies
<1>2. /\ call' = [call EXCEPT ![c].at = "busy"]
      /\ UNCHANGED <<booking, entries, key, screen, reported>>
  BY DEF Dies, server
<1>3. /\ AdvanceCall /\ call'[c].at = "busy" /\ call'[c].key = call[c].key
      /\ \A d \in Calls \ {c} : call'[d] = call[d]
  BY <1>1, <1>2, OneAdvances DEF Answered
<1>4. HandlerHoldsRow' /\ DoneIsStored' /\ StoredIsDone'
  <2>1. \A d \in Calls : Inside(d)' => Inside(d)
    BY <1>3 DEF Inside, Live
  <2>2. \A d \in Calls : Live(d) /\ call[d].at = "committed" => call'[d].at = "committed"
    BY <1>1, <1>3
  <2> QED BY <1>2, <1>3, <2>1, <2>2, RowsStand
<1>5. \A d \in Calls : Live(d) =>
         /\ call'[d].at = "committed" => call[d].at = "committed"
         /\ call'[d].at = "ok" =>
               call[d].at \in {"ok", "committed"} \/ Entered(call[d].intent)
  BY <1>3
<1> QED BY <1>2, <1>3, <1>4, <1>5, BookingStands, KeyStands, NothingCarriedOut

\* begin takes the row, if the route has one
LEMMA BeginKeeps ==
    ASSUME DeskInv, NEW c \in Calls, Begin(c)
    PROVE  DeskInv'
<1>t. /\ DeskTypes /\ KeyOfOneIntent /\ HandlerHoldsRow /\ DoneIsStored /\ StoredIsDone
  BY DEF DeskInv
<1>1. Live(c) /\ CallOK(call[c]) /\ call[c].at = "sent"
  BY AtIsLive DEF Begin
<1>2. /\ call' = [call EXCEPT ![c].at = "running"]
      /\ UNCHANGED <<booking, entries, screen, reported>>
  BY DEF Begin
<1>3. /\ AdvanceCall /\ call'[c].at = "running" /\ call'[c].key = call[c].key
      /\ \A d \in Calls \ {c} : call'[d] = call[d]
  BY <1>1, <1>2, OneAdvances
<1>4. \A d \in Calls : Live(d) =>
         /\ call'[d].at = "committed" => call[d].at = "committed"
         /\ call'[d].at = "ok" =>
               call[d].at \in {"ok", "committed"} \/ Entered(call[d].intent)
  BY <1>3
<1>5. \A d \in Calls : Live(d) /\ call[d].at = "committed" => call'[d].at = "committed"
  BY <1>1, <1>3
<1>6. CASE call[c].key = "None"
  <2>1. key' = key
    BY <1>6 DEF Begin
  <2>2. \A d \in Calls : Inside(d)' => Inside(d)
    BY <1>3, <1>6 DEF Inside, Live
  <2>3. HandlerHoldsRow' /\ DoneIsStored' /\ StoredIsDone'
    BY <1>2, <1>3, <1>5, <2>1, <2>2, RowsStand
  <2> QED BY <1>2, <1>3, <1>4, <2>1, <2>3, BookingStands, KeyStands, NothingCarriedOut
<1>7. CASE call[c].key # "None"
  <2>1. PICK k \in Keys : k = call[c].key
    BY <1>1, <1>7 DEF CallOK
  <2>2. PICK f : f = FALSE
    OBVIOUS
  <2>3. PICK r : r = [state |-> "IN_PROGRESS", body |-> call[c].body, lapsed |-> f]
    OBVIOUS
  <2>4. RowOK(r) /\ r.state = "IN_PROGRESS" /\ ~r.lapsed
    BY <2>2, <2>3 DEF RowOK
  <2>5. key' = [key EXCEPT ![k] = r]
    BY <1>7, <2>1, <2>2, <2>3 DEF Begin
  <2>6. /\ key[k].state # "COMPLETED"
        /\ \A d \in Calls : Inside(d) => call[d].key # k
    BY <1>7, <1>t, <2>1 DEF Begin, TakenOver, HandlerHoldsRow
  <2>7. /\ DOMAIN key' = Keys /\ key'[k] = r
        /\ \A l \in Keys \ {k} : key'[l] = key[l]
    BY <1>t, <2>5 DEF DeskTypes
  <2>8. \A l \in Keys : RowOK(key'[l])
    BY <1>t, <2>4, <2>7 DEF DeskTypes
  <2>9. \A d \in Calls : Inside(d)' => d = c \/ (Inside(d) /\ call'[d] = call[d])
    BY <1>3 DEF Inside, Live
  <2>10. HandlerHoldsRow'
    <3>1. ASSUME NEW d \in Calls, Inside(d), call'[d] = call[d]
          PROVE  /\ key'[call'[d].key].state = "IN_PROGRESS" /\ ~key'[call'[d].key].lapsed
                 /\ \A e \in Calls : Inside(e)' /\ call'[e].key = call'[d].key => d = e
      <4>1. call[d].key \in Keys \ {k}
        BY <1>t, <2>6, <3>1 DEF Inside, DeskTypes, CallOK
      <4> QED BY <1>3, <1>t, <2>1, <2>7, <2>9, <3>1, <4>1 DEF HandlerHoldsRow
    <3>2. /\ key'[call'[c].key].state = "IN_PROGRESS" /\ ~key'[call'[c].key].lapsed
          /\ \A e \in Calls : Inside(e)' /\ call'[e].key = call'[c].key => c = e
      BY <1>3, <2>1, <2>4, <2>6, <2>7, <2>9
    <3> QED BY <2>9, <3>1, <3>2 DEF HandlerHoldsRow
  <2>11. ASSUME NEW l \in Keys, Storing(l) PROVE Storing(l)'
    <3>1. PICK d \in Calls : Inside(d) /\ call[d].key = l /\ call[d].at = "committed"
      BY <2>11 DEF Storing
    <3>2. d # c
      BY <1>1, <3>1
    <3>3. Inside(d)' /\ call'[d].key = l /\ call'[d].at = "committed"
      BY <1>3, <3>1, <3>2 DEF Inside, Live
    <3> QED BY <3>3 DEF Storing
  <2>12. DoneIsStored'
    <3>1. ASSUME NEW l \in Keys, NEW e \in entries, NamedFor(l, e.intent)
          PROVE  key'[l].state = "COMPLETED" \/ Storing(l)'
      <4>1. key[l].state = "COMPLETED" \/ Storing(l)
        BY <1>t, <3>1 DEF DoneIsStored
      <4>2. CASE l # k
        BY <2>7, <2>11, <4>1, <4>2
      <4>3. CASE l = k
        BY <2>6, <4>1, <4>3 DEF Storing
      <4> QED BY <4>2, <4>3
    <3> QED BY <1>2, <1>3, <3>1, AdvanceKeeps DEF DoneIsStored
  <2>13. StoredIsDone'
    BY <1>2, <1>3, <1>t, <2>4, <2>7, AdvanceKeeps DEF StoredIsDone, Entered
  <2> QED BY <1>2, <1>3, <1>4, <2>7, <2>8, <2>10, <2>12, <2>13, BookingStands, NothingCarriedOut
<1> QED BY <1>6, <1>7

\* The handler throws: abandon deletes the row
LEMMA RefuseKeeps ==
    ASSUME DeskInv, NEW c \in Calls, Refuse(c)
    PROVE  DeskInv'
<1>t. /\ DeskTypes /\ HandlerHoldsRow /\ DoneIsStored /\ StoredIsDone
  BY DEF DeskInv
<1>1. Live(c) /\ CallOK(call[c]) /\ call[c].at = "running"
  BY AtIsLive DEF Refuse
<1>2. PICK x \in {"SLOT_UNAVAILABLE", "refused"} :
         x = IF call[c].body.kind = "create" THEN "SLOT_UNAVAILABLE" ELSE "refused"
  OBVIOUS
<1>3. /\ call' = [call EXCEPT ![c].at = x]
      /\ UNCHANGED <<booking, entries, screen, reported>>
      /\ key' = [k \in Keys |-> IF k = call[c].key THEN NoKey ELSE key[k]]
  BY <1>2 DEF Refuse
<1>4. /\ AdvanceCall /\ call'[c].at = x /\ call'[c].key = call[c].key
      /\ \A d \in Calls \ {c} : call'[d] = call[d]
  BY <1>1, <1>3, OneAdvances DEF Answered
<1>5. \A d \in Calls : Live(d) =>
         /\ call'[d].at = "committed" => call[d].at = "committed"
         /\ call'[d].at = "ok" =>
               call[d].at \in {"ok", "committed"} \/ Entered(call[d].intent)
  BY <1>4
<1>6. DOMAIN key' = Keys /\ \A k \in Keys : RowOK(key'[k])
  BY <1>3, <1>t, NoKeyIsARow DEF DeskTypes
<1>7. \A d \in Calls : Inside(d)' => Inside(d) /\ call'[d] = call[d] /\ d # c
  BY <1>4 DEF Inside, Live
<1>8. ASSUME NEW d \in Calls, Inside(d), d # c
      PROVE  call[d].key \in Keys /\ key'[call[d].key] = key[call[d].key]
  <2>1. call[d].key \in Keys
    BY <1>t, <1>8 DEF Inside, DeskTypes, CallOK
  <2>2. call[d].key # call[c].key
    BY <1>1, <1>t, <1>8 DEF Inside, HandlerHoldsRow
  <2> QED BY <1>3, <2>1, <2>2
<1>9. HandlerHoldsRow'
  BY <1>7, <1>8, <1>t DEF HandlerHoldsRow
<1>10. ASSUME NEW l \in Keys, Storing(l) PROVE Storing(l)'
  <2>1. PICK d \in Calls : Inside(d) /\ call[d].key = l /\ call[d].at = "committed"
    BY <1>10 DEF Storing
  <2>2. Inside(d)' /\ call'[d].key = l /\ call'[d].at = "committed"
    BY <1>1, <1>4, <2>1 DEF Inside, Live
  <2> QED BY <2>2 DEF Storing
<1>11. ASSUME call[c].key \in Keys
       PROVE  key[call[c].key].state # "COMPLETED" /\ ~Storing(call[c].key)
  <2>1. Inside(c)
    BY <1>1, <1>11, DeskAssumption DEF Inside
  <2> QED BY <1>1, <1>t, <2>1 DEF HandlerHoldsRow, Storing
<1>12. DoneIsStored'
  <2>1. ASSUME NEW l \in Keys, NEW e \in entries, NamedFor(l, e.intent)
        PROVE  key'[l].state = "COMPLETED" \/ Storing(l)'
    <3>1. key[l].state = "COMPLETED" \/ Storing(l)
      BY <1>t, <2>1 DEF DoneIsStored
    <3>2. l # call[c].key
      BY <1>11, <3>1
    <3> QED BY <1>3, <1>10, <3>1, <3>2
  <2> QED BY <1>3, <1>4, <2>1, AdvanceKeeps DEF DoneIsStored
<1>13. StoredIsDone'
  <2>1. \A l \in Keys : key'[l].state = "COMPLETED" => key[l].state = "COMPLETED"
    BY <1>3, NoKeyIsARow
  <2> QED BY <1>3, <1>4, <1>t, <2>1, AdvanceKeeps DEF StoredIsDone, Entered
<1> QED BY <1>3, <1>4, <1>5, <1>6, <1>9, <1>12, <1>13, BookingStands, NothingCarriedOut

\* complete stores the answer of what was committed
LEMMA CompleteKeeps ==
    ASSUME DeskInv, NEW c \in Calls, Complete(c)
    PROVE  DeskInv'
<1>t. /\ DeskTypes /\ HandlerHoldsRow /\ DoneIsStored /\ StoredIsDone /\ KeyOfOneIntent
      /\ KeyedRoutes /\ AnsweredIsDone
  BY DEF DeskInv
<1>1. Live(c) /\ CallOK(call[c]) /\ call[c].at = "committed"
  BY AtIsLive DEF Complete
<1>2. PICK k \in Keys : k = call[c].key
  BY <1>1, <1>t DEF CallOK, KeyedRoutes
<1>3. PICK r : r = [key[k] EXCEPT !.state = "COMPLETED"]
  OBVIOUS
<1>4. RowOK(r) /\ r.state = "COMPLETED"
  BY <1>3, <1>t DEF RowOK, DeskTypes
<1>5. /\ call' = [call EXCEPT ![c].at = "ok"]
      /\ UNCHANGED <<booking, entries, screen, reported>>
      /\ key' = [key EXCEPT ![k] = r]
  BY <1>2, <1>3 DEF Complete
<1>6. /\ AdvanceCall /\ call'[c].at = "ok" /\ call'[c].key = call[c].key
      /\ \A d \in Calls \ {c} : call'[d] = call[d]
  BY <1>1, <1>5, OneAdvances DEF Answered
<1>7. \A d \in Calls : Live(d) =>
         /\ call'[d].at = "committed" => call[d].at = "committed"
         /\ call'[d].at = "ok" =>
               call[d].at \in {"ok", "committed"} \/ Entered(call[d].intent)
  BY <1>1, <1>6
<1>8. /\ DOMAIN key' = Keys /\ key'[k] = r
      /\ \A l \in Keys \ {k} : key'[l] = key[l]
  BY <1>t, <1>5 DEF DeskTypes
<1>9. \A l \in Keys : RowOK(key'[l])
  BY <1>t, <1>4, <1>8 DEF DeskTypes
<1>10. \A d \in Calls : Inside(d)' => Inside(d) /\ call'[d] = call[d] /\ d # c
  BY <1>6 DEF Inside, Live
<1>11. Inside(c)
  BY <1>1, <1>2, DeskAssumption DEF Inside
<1>12. ASSUME NEW d \in Calls, Inside(d), d # c
       PROVE  call[d].key \in Keys /\ key'[call[d].key] = key[call[d].key]
  <2>1. call[d].key \in Keys
    BY <1>t, <1>12 DEF Inside, DeskTypes, CallOK
  <2>2. call[d].key # k
    BY <1>2, <1>11, <1>t, <1>12 DEF HandlerHoldsRow
  <2> QED BY <1>8, <2>1, <2>2
<1>13. HandlerHoldsRow'
  BY <1>10, <1>12, <1>t DEF HandlerHoldsRow
<1>14. ASSUME NEW l \in Keys \ {k}, Storing(l) PROVE Storing(l)'
  <2>1. PICK d \in Calls : Inside(d) /\ call[d].key = l /\ call[d].at = "committed"
    BY <1>14 DEF Storing
  <2>2. d # c
    BY <1>2, <1>14, <2>1
  <2>3. Inside(d)' /\ call'[d].key = l /\ call'[d].at = "committed"
    BY <1>6, <2>1, <2>2 DEF Inside, Live
  <2> QED BY <2>3 DEF Storing
<1>15. DoneIsStored'
  <2>1. ASSUME NEW l \in Keys, NEW e \in entries, NamedFor(l, e.intent)
        PROVE  key'[l].state = "COMPLETED" \/ Storing(l)'
    <3>1. CASE l = k
      BY <1>4, <1>8, <3>1
    <3>2. CASE l # k
      BY <1>8, <1>14, <1>t, <2>1, <3>2 DEF DoneIsStored
    <3> QED BY <3>1, <3>2
  <2> QED BY <1>5, <1>6, <2>1, AdvanceKeeps DEF DoneIsStored
<1>16. StoredIsDone'
  <2>1. NamedFor(k, call[c].intent) /\ call[c].intent \in Screens \X Nat
    BY <1>1, <1>2 DEF NamedFor, CallOK
  <2>2. Entered(call[c].intent)
    BY <1>1, <1>t DEF AnsweredIsDone
  <2>3. ASSUME NEW l \in Keys, NEW i \in Screens \X Nat,
               NamedFor(l, i), key'[l].state = "COMPLETED"
        PROVE  Entered(i)
    <3>1. CASE l = k
      BY <1>t, <2>1, <2>2, <2>3, <3>1 DEF KeyOfOneIntent
    <3>2. CASE l # k
      BY <1>8, <1>t, <2>3, <3>2 DEF StoredIsDone
    <3> QED BY <3>1, <3>2
  <2> QED BY <1>5, <1>6, <2>3, AdvanceKeeps DEF StoredIsDone, Entered
<1> QED BY <1>5, <1>6, <1>7, <1>8, <1>9, <1>13, <1>15, <1>16, BookingStands, NothingCarriedOut

\* Nobody's request moves
LEMMA RequestsRest ==
    ASSUME DeskInv, UNCHANGED <<call, screen, reported>>
    PROVE  /\ AdvanceCall
           /\ \A c \in Calls : Inside(c)' <=> Inside(c)
           /\ \A k : Storing(k)' <=> Storing(k)
           /\ \A d \in Calls : Live(d) =>
                 /\ call'[d].at = "committed" => call[d].at = "committed"
                 /\ call'[d].at = "ok" =>
                       call[d].at \in {"ok", "committed"} \/ Entered(call[d].intent)
<1>1. AdvanceCall
  <2>1. DOMAIN call' = Calls
    BY DEF DeskInv, DeskTypes
  <2>2. \A c \in Calls : IF Live(c) THEN SameRequest(c) ELSE call'[c] = NoCall
    BY Unmoved DEF Live
  <2> QED BY <2>1, <2>2 DEF AdvanceCall
<1>2. \A c \in Calls : Inside(c)' <=> Inside(c)
  BY DEF Inside, Live
<1> QED BY <1>1, <1>2 DEF Storing

\* A lease lapses over a row whose handler has died
LEMMA LeaseLapsesKeeps ==
    ASSUME DeskInv, NEW k \in Keys, LeaseLapses(k)
    PROVE  DeskInv'
<1>t. /\ DeskTypes /\ HandlerHoldsRow /\ DoneIsStored /\ StoredIsDone
  BY DEF DeskInv
<1>1. UNCHANGED <<booking, entries, call, screen, reported>>
  BY DEF LeaseLapses
<1>2. PICK f : f = TRUE
  OBVIOUS
<1>3. PICK r : r = [key[k] EXCEPT !.lapsed = f]
  OBVIOUS
<1>4. RowOK(r) /\ r.state = key[k].state
  BY <1>3, <1>t DEF RowOK, DeskTypes
<1>5. key' = [key EXCEPT ![k] = r]
  BY <1>2, <1>3 DEF LeaseLapses
<1>6. /\ DOMAIN key' = Keys /\ key'[k] = r
      /\ \A l \in Keys \ {k} : key'[l] = key[l]
  BY <1>t, <1>5 DEF DeskTypes
<1>7. \A l \in Keys : RowOK(key'[l]) /\ key'[l].state = key[l].state
  BY <1>t, <1>4, <1>6 DEF DeskTypes
<1>8. \A d \in Calls : Inside(d) => call[d].key \in Keys \ {k}
  BY <1>t DEF LeaseLapses, Inside, DeskTypes, CallOK
<1>9. HandlerHoldsRow'
  BY <1>1, <1>6, <1>8, <1>t, RequestsRest DEF HandlerHoldsRow
<1>10. DoneIsStored' /\ StoredIsDone'
  BY <1>1, <1>7, <1>t, RequestsRest, AdvanceKeeps DEF DoneIsStored, StoredIsDone, Entered
<1> QED BY <1>1, <1>6, <1>7, <1>9, <1>10, RequestsRest, BookingStands, NothingCarriedOut

\* sweepExpired deletes a row nobody will ask about
LEMMA SweepKeeps ==
    ASSUME DeskInv, NEW k \in Keys, Sweep(k)
    PROVE  DeskInv'
<1>t. /\ DeskTypes /\ HandlerHoldsRow /\ DoneIsStored /\ StoredIsDone
  BY DEF DeskInv
<1>1. UNCHANGED <<booking, entries, call, screen, reported>>
  BY DEF Sweep
<1>2. PICK r : r = NoKey
  OBVIOUS
<1>3. RowOK(r) /\ r.state = "ABSENT"
  BY <1>2, NoKeyIsARow
<1>4. key' = [key EXCEPT ![k] = r]
  BY <1>2 DEF Sweep
<1>5. /\ DOMAIN key' = Keys /\ key'[k] = r
      /\ \A l \in Keys \ {k} : key'[l] = key[l]
  BY <1>t, <1>4 DEF DeskTypes
<1>6. \A l \in Keys : RowOK(key'[l])
  BY <1>t, <1>3, <1>5 DEF DeskTypes
<1>7. \A i : ~NamedFor(k, i)
  BY DEF Sweep, Held, NamedFor, Live
<1>8. \A d \in Calls : Inside(d) => call[d].key \in Keys \ {k}
  BY <1>t DEF Sweep, Held, Inside, Live, DeskTypes, CallOK
<1>9. HandlerHoldsRow'
  BY <1>1, <1>5, <1>8, <1>t, RequestsRest DEF HandlerHoldsRow
<1>10. \A l \in Keys : \A i : NamedFor(l, i) => key'[l] = key[l]
  BY <1>5, <1>7
<1>11. DoneIsStored' /\ StoredIsDone'
  BY <1>1, <1>10, <1>t, RequestsRest, AdvanceKeeps DEF DoneIsStored, StoredIsDone, Entered
<1> QED BY <1>1, <1>5, <1>6, <1>9, <1>11, RequestsRest, BookingStands, NothingCarriedOut

\* What others do to the booking and the diary
LEMMA OthersKeep ==
    ASSUME DeskInv, Moved \/ OthersBook
    PROVE  DeskInv'
<1>1. UNCHANGED <<entries, key, call, screen, reported>>
  BY DEF Moved, OthersBook
<1>2. HandlerHoldsRow' /\ DoneIsStored' /\ StoredIsDone'
  <2>1. \A c \in Calls : Live(c) /\ call[c].at = "committed" => call'[c].at = "committed"
    BY <1>1
  <2> QED BY <1>1, <2>1, RequestsRest, RowsStand
<1>3. CASE OthersBook
  BY <1>1, <1>2, <1>3, RequestsRest, BookingStands, KeyStands, NothingCarriedOut DEF OthersBook
<1>4. CASE Moved
  <2>1. PICK root \in Rows : root = RootBookingId(First)
    BY DEF RootBookingId, Rows, DeskInv, DeskTypes
  <2>2. PICK row : row = [status |-> "CONFIRMED", root |-> root]
    OBVIOUS
  <2>3. PICK old : old = [booking[First] EXCEPT !.status = "CANCELED_BY_CUSTOMER"]
    OBVIOUS
  <2>4. booking' = [booking EXCEPT ![First] = old, ![Second] = row]
    BY <1>4, <2>1, <2>2, <2>3 DEF Moved
  <2>5. /\ booking' \in [Rows -> [status : {"ABSENT", "CONFIRMED", "CANCELED_BY_BUSINESS",
                                            "CANCELED_BY_CUSTOMER", "COMPLETED"},
                                  root : Rows \cup {"None"}]]
        /\ \A b \in Rows : booking[b].status \notin {"ABSENT", "CONFIRMED"} =>
                           booking'[b].status \notin {"ABSENT", "CONFIRMED"}
    <3>1. booking \in [Rows -> [status : {"ABSENT", "CONFIRMED", "CANCELED_BY_BUSINESS",
                                          "CANCELED_BY_CUSTOMER", "COMPLETED"},
                                root : Rows \cup {"None"}]]
      BY DEF DeskInv, DeskTypes
    <3>2. /\ row \in [status : {"CONFIRMED"}, root : Rows \cup {"None"}]
          /\ old \in [status : {"CANCELED_BY_CUSTOMER"}, root : Rows \cup {"None"}]
      BY <2>2, <2>3, <3>1 DEF Rows
    <3>3. booking[First].status = "CONFIRMED" /\ booking[Second].status = "ABSENT"
      BY <1>4 DEF Moved
    <3> QED BY <2>4, <3>1, <3>2, <3>3 DEF Rows
  <2> QED BY <1>1, <1>2, <2>5, RequestsRest, KeyStands, NothingCarriedOut
<1> QED BY <1>3, <1>4

\* A handler commits what no attempt of its intent has carried out before
LEMMA SomethingCarriedOut ==
    ASSUME DeskInv, NEW c \in Calls, call[c].at = "running", ~Entered(call[c].intent),
           NEW x \in {"ok", "committed"}, call' = [call EXCEPT ![c].at = x],
           x = "committed" <=> call[c].body.kind \in Keyed,
           entries' = entries \cup {Recorded(c)}, UNCHANGED <<key, screen, reported>>,
           booking' \in [Rows -> [status : {"ABSENT", "CONFIRMED", "CANCELED_BY_BUSINESS",
                                            "CANCELED_BY_CUSTOMER", "COMPLETED"},
                                  root : Rows \cup {"None"}]],
           \A b \in Rows : booking[b].status \notin {"ABSENT", "CONFIRMED"} =>
                           booking'[b].status \notin {"ABSENT", "CONFIRMED"},
           call[c].body.kind = "attend" =>
              booking'[call[c].body.on].status \notin {"ABSENT", "CONFIRMED"}
    PROVE  DeskInv'
<1>t. /\ DeskTypes /\ ActsOnCurrent /\ AttemptsAlike /\ KeyedRoutes /\ HandlerHoldsRow
      /\ DoneIsStored /\ StoredIsDone /\ AnsweredIsDone /\ AttendedOnce /\ OneEntry
  BY DEF DeskInv
<1>1. Live(c) /\ CallOK(call[c])
  BY AtIsLive
<1>2. PICK n : n = Recorded(c)
  OBVIOUS
<1>3. /\ n.intent = call[c].intent /\ n.kind = call[c].body.kind /\ n.on = call[c].body.on
      /\ entries' = entries \cup {n}
  BY <1>2 DEF Recorded
<1>4. n.intent \in Screens \X Nat /\ n.kind \in Kinds /\ n.on \in Rows
  BY <1>1, <1>3 DEF CallOK
<1>5. \A e \in entries : e.intent # n.intent
  BY <1>3 DEF Entered
<1>6. /\ AdvanceCall /\ call'[c].at = x /\ call'[c].key = call[c].key
      /\ \A d \in Calls \ {c} : call'[d] = call[d]
  BY <1>1, OneAdvances DEF Answered
<1>a. /\ \A d \in Calls : Live(d)' <=> Live(d)
      /\ \A k, i : NamedFor(k, i)' <=> NamedFor(k, i)
      /\ DOMAIN call' = Calls /\ \A d \in Calls : Live(d)' => CallOK(call[d])'
      /\ DOMAIN screen' = Screens /\ \A s \in Screens : ScreenOK(screen[s])'
      /\ KeyOfOneIntent'
  BY <1>6, AdvanceKeeps
<1>s. \A d \in Calls : Live(d) =>
         /\ call'[d].intent = call[d].intent /\ call'[d].key = call[d].key
         /\ call'[d].body = call[d].body
  BY <1>6 DEF AdvanceCall, SameRequest
<1>7. DeskTypes'
  <2>1. DOMAIN key' = Keys /\ \A k \in Keys : RowOK(key[k])'
    BY <1>t DEF DeskTypes, RowOK
  <2>2. \A e \in entries' : e.intent \in Screens \X Nat /\ e.kind \in Kinds /\ e.on \in Rows
    BY <1>3, <1>4, <1>t DEF DeskTypes
  <2> QED BY <1>a, <2>1, <2>2 DEF DeskTypes
<1>8. ActsOnCurrent'
  <2>1. ASSUME NEW s \in Screens, n.intent[1] = s
        PROVE  /\ n.intent[2] <= screen[s].intent
               /\ n.intent = Intent(s) =>
                     /\ screen[s].tried /\ n.kind = screen[s].dialog /\ n.on = screen[s].on
                     /\ n.kind \in Keyed => screen[s].key # "None"
    <3>1. n.kind \in Keyed => call[c].key # "None"
      BY <1>1, <1>3, <1>t DEF KeyedRoutes
    <3> QED BY <1>1, <1>3, <1>t, <2>1, <3>1 DEF ActsOnCurrent
  <2>2. \A s \in Screens : \A e \in entries : e.intent[1] = s =>
           /\ e.intent[2] <= screen[s].intent
           /\ e.intent = Intent(s) =>
                 /\ screen[s].tried /\ e.kind = screen[s].dialog /\ e.on = screen[s].on
                 /\ e.kind \in Keyed => screen[s].key # "None"
    BY <1>t DEF ActsOnCurrent
  <2>3. \A s \in Screens : \A e \in entries' : e.intent[1] = s =>
           /\ e.intent[2] <= screen'[s].intent
           /\ e.intent = Intent(s)' =>
                 /\ screen'[s].tried /\ e.kind = screen'[s].dialog /\ e.on = screen'[s].on
                 /\ e.kind \in Keyed => screen'[s].key # "None"
    BY <1>3, <2>1, <2>2 DEF Intent
  <2> QED BY <1>6, <2>3, AdvanceKeeps DEF ActsOnCurrent
<1>9. AttemptsAlike'
  <2>1. ASSUME NEW d \in Calls, Live(d)', NEW e \in entries', e.intent = call'[d].intent
        PROVE  e.kind = call'[d].body.kind /\ e.on = call'[d].body.on
    <3>1. /\ Live(d) /\ call'[d].intent = call[d].intent /\ call'[d].body = call[d].body
      BY <1>a, <1>s, <2>1
    <3>2. CASE e = n
      BY <1>1, <1>3, <1>t, <2>1, <3>1, <3>2 DEF AttemptsAlike
    <3>3. CASE e \in entries
      BY <1>t, <2>1, <3>1, <3>3 DEF AttemptsAlike
    <3> QED BY <1>3, <3>2, <3>3
  <2> QED BY <1>6, <2>1, AdvanceKeeps DEF AttemptsAlike
<1>10. KeyedRoutes'
  <2>1. \A d \in Calls : Live(d)' /\ call'[d].at = "committed" => call'[d].body.kind \in Keyed
    BY <1>6, <1>a, <1>s, <1>t DEF KeyedRoutes
  <2> QED BY <1>6, <2>1, AdvanceKeeps DEF KeyedRoutes
<1>11. ASSUME NEW d \in Calls
       PROVE  /\ Inside(d)' <=> Inside(d)
              /\ Inside(d) => call'[d].key = call[d].key
  <2>1. CASE d = c
    <3>1. call[c].key # "None" <=> x = "committed"
      BY <1>1, <1>t DEF KeyedRoutes
    <3> QED BY <1>1, <1>6, <1>a, <2>1, <3>1 DEF Inside
  <2>2. CASE d # c
    BY <1>6, <2>2 DEF Inside, Live
  <2> QED BY <2>1, <2>2
<1>12. HandlerHoldsRow'
  BY <1>11, <1>t DEF HandlerHoldsRow
<1>13. ASSUME NEW k \in Keys, Storing(k) PROVE Storing(k)'
  <2>1. PICK d \in Calls : Inside(d) /\ call[d].key = k /\ call[d].at = "committed"
    BY <1>13 DEF Storing
  <2>2. d # c
    BY <2>1
  <2>3. Inside(d)' /\ call'[d].key = k /\ call'[d].at = "committed"
    BY <1>6, <1>11, <2>1, <2>2
  <2> QED BY <2>3 DEF Storing
\* The only key named for the intent is that of this request
<1>14. ASSUME NEW k \in Keys, NamedFor(k, n.intent) PROVE Storing(k)'
  <2>1. k = call[c].key
    <3>1. ASSUME NEW d \in Calls, Live(d), call[d].intent = n.intent, call[d].key = k
          PROVE  k = call[c].key
      BY <1>1, <1>3, <1>t, <3>1 DEF AttemptsAlike
    <3>2. ASSUME NEW s \in Screens, Intent(s) = n.intent, screen[s].key = k
          PROVE  k = call[c].key
      <4>1. call[c].intent[1] = s
        BY <1>3, <3>2 DEF Intent
      <4> QED BY <1>1, <1>3, <1>t, <3>2, <4>1 DEF ActsOnCurrent
    <3> QED BY <1>14, <3>1, <3>2 DEF NamedFor
  <2>2. call[c].key # "None"
    BY <2>1, DeskAssumption
  <2>3. Inside(c)
    BY <1>1, <2>2 DEF Inside
  <2>4. x = "committed"
    BY <1>1, <1>t, <2>2 DEF KeyedRoutes
  <2>5. Inside(c)' /\ call'[c].key = k /\ call'[c].at = "committed"
    BY <1>6, <1>11, <2>1, <2>3, <2>4
  <2> QED BY <2>5 DEF Storing
<1>15. DoneIsStored'
  <2>1. ASSUME NEW k \in Keys, NEW e \in entries', NamedFor(k, e.intent)
        PROVE  key'[k].state = "COMPLETED" \/ Storing(k)'
    <3>1. CASE e \in entries
      BY <1>13, <1>t, <2>1, <3>1 DEF DoneIsStored
    <3>2. CASE e = n
      BY <1>14, <2>1, <3>2
    <3> QED BY <1>3, <3>1, <3>2
  <2> QED BY <1>a, <2>1 DEF DoneIsStored
<1>16. ASSUME NEW i, Entered(i) PROVE Entered(i)'
  BY <1>3, <1>16 DEF Entered
<1>17. StoredIsDone'
  BY <1>16, <1>a, <1>t DEF StoredIsDone
<1>18. AnsweredIsDone'
  <2>1. Entered(call[c].intent)'
    <3>1. n \in entries' /\ n.intent = call'[c].intent
      BY <1>1, <1>3, <1>s
    <3> QED BY <3>1 DEF Entered
  <2>2. ASSUME NEW d \in Calls, Live(d)', call'[d].at \in {"ok", "committed"}
        PROVE  Entered(call[d].intent)'
    <3>1. CASE d = c
      BY <2>1, <3>1
    <3>2. CASE d # c
      <4>1. Entered(call[d].intent) /\ call'[d] = call[d]
        BY <1>6, <1>a, <1>t, <2>2, <3>2 DEF AnsweredIsDone
      <4>2. PICK e \in entries : e.intent = call[d].intent
        BY <4>1 DEF Entered
      <4>3. e \in entries' /\ e.intent = call'[d].intent
        BY <1>3, <4>1, <4>2
      <4> QED BY <4>3 DEF Entered
    <3> QED BY <3>1, <3>2
  <2>3. \A i \in reported' : Entered(i)'
    BY <1>16, <1>t DEF AnsweredIsDone
  <2> QED BY <2>2, <2>3 DEF AnsweredIsDone
<1>19. AttendedOnce'
  <2>1. ASSUME NEW e \in entries', e.kind = "attend"
        PROVE  booking'[e.on].status \notin {"ABSENT", "CONFIRMED"}
    BY <1>3, <1>t, <2>1 DEF AttendedOnce, DeskTypes
  <2> QED BY <2>1 DEF AttendedOnce
<1>20. OneEntry'
  BY <1>3, <1>5, <1>t DEF OneEntry
<1> QED
  BY <1>7, <1>8, <1>9, <1>10, <1>12, <1>15, <1>17, <1>18, <1>19, <1>20, <1>a DEF DeskInv

\* Under a row that is IN_PROGRESS nothing has been carried out yet
LEMMA KeyedIsFirst ==
    ASSUME DeskInv, NEW c \in Calls, call[c].at = "running", call[c].body.kind \in Keyed
    PROVE  ~Entered(call[c].intent)
<1>1. Live(c) /\ CallOK(call[c])
  BY AtIsLive
<1>2. PICK k \in Keys : k = call[c].key
  BY <1>1 DEF DeskInv, KeyedRoutes, CallOK
<1>3. Inside(c) /\ NamedFor(k, call[c].intent)
  BY <1>1, <1>2, DeskAssumption DEF Inside, NamedFor
<1>4. key[k].state # "COMPLETED" /\ ~Storing(k)
  BY <1>2, <1>3 DEF DeskInv, HandlerHoldsRow, Storing
<1> QED BY <1>3, <1>4 DEF DeskInv, DoneIsStored, Entered

\* The handlers of office-bookings.controller.ts and their transactions
LEMMA HandlersKeep ==
    ASSUME DeskInv, NEW c \in Calls,
           \/ RecordManualPayment(c) \/ IssueRefund(c) \/ CancelByBusiness(c)
           \/ Attend(c) \/ CreateManual(c)
    PROVE  DeskInv'
<1>t. booking \in [Rows -> [status : {"ABSENT", "CONFIRMED", "CANCELED_BY_BUSINESS",
                                      "CANCELED_BY_CUSTOMER", "COMPLETED"},
                            root : Rows \cup {"None"}]]
  BY DEF DeskInv, DeskTypes
<1>1. ASSUME RecordManualPayment(c) \/ IssueRefund(c) \/ CreateManual(c)
      PROVE  DeskInv'
  <2>1. /\ call[c].at = "running" /\ call[c].body.kind \in {"payment", "refund", "create"}
        /\ entries' = entries \cup {Recorded(c)} /\ call' = [call EXCEPT ![c].at = "committed"]
        /\ UNCHANGED <<key, screen, reported>> /\ booking' = booking
    BY <1>1 DEF RecordManualPayment, IssueRefund, CreateManual, Handling, Committed
  <2>2. call[c].body.kind \in Keyed /\ call[c].body.kind # "attend"
    BY <2>1 DEF Keyed
  <2> QED BY <2>1, <2>2, KeyedIsFirst, BookingStands, SomethingCarriedOut
<1>2. ASSUME CancelByBusiness(c) PROVE DeskInv'
  <2>1. /\ call[c].at = "running" /\ call[c].body.kind = "cancel"
        /\ entries' = entries \cup {Recorded(c)} /\ call' = [call EXCEPT ![c].at = "committed"]
        /\ UNCHANGED <<key, screen, reported>>
        /\ booking' = [booking EXCEPT ![call[c].body.on].status = "CANCELED_BY_BUSINESS"]
    BY <1>2 DEF CancelByBusiness, Handling, Committed
  <2>2. call[c].body.kind \in Keyed /\ call[c].body.kind # "attend"
    BY <2>1 DEF Keyed
  <2>3. /\ booking' \in [Rows -> [status : {"ABSENT", "CONFIRMED", "CANCELED_BY_BUSINESS",
                                            "CANCELED_BY_CUSTOMER", "COMPLETED"},
                                  root : Rows \cup {"None"}]]
        /\ \A b \in Rows : booking[b].status \notin {"ABSENT", "CONFIRMED"} =>
                           booking'[b].status \notin {"ABSENT", "CONFIRMED"}
    BY <1>t, <2>1
  <2> QED BY <2>1, <2>2, <2>3, KeyedIsFirst, SomethingCarriedOut
<1>3. ASSUME Attend(c) PROVE DeskInv'
  <2>1. /\ call[c].at = "running" /\ call[c].body.kind = "attend"
        /\ booking[call[c].body.on].status = "CONFIRMED"
        /\ entries' = entries \cup {Recorded(c)} /\ call' = [call EXCEPT ![c].at = "ok"]
        /\ UNCHANGED <<key, screen, reported>>
        /\ booking' = [booking EXCEPT ![call[c].body.on].status = "COMPLETED"]
    BY <1>3 DEF Attend, Handling
  <2>2. Live(c) /\ call[c].body.on \in Rows
    BY <2>1, AtIsLive DEF CallOK
  <2>3. call[c].body.kind \notin Keyed
    BY <2>1 DEF Keyed
  <2>4. ~Entered(call[c].intent)
    BY <2>1, <2>2 DEF DeskInv, AttemptsAlike, AttendedOnce, Entered
  <2>5. /\ booking' \in [Rows -> [status : {"ABSENT", "CONFIRMED", "CANCELED_BY_BUSINESS",
                                            "CANCELED_BY_CUSTOMER", "COMPLETED"},
                                  root : Rows \cup {"None"}]]
        /\ \A b \in Rows : booking[b].status \notin {"ABSENT", "CONFIRMED"} =>
                           booking'[b].status \notin {"ABSENT", "CONFIRMED"}
        /\ booking'[call[c].body.on].status \notin {"ABSENT", "CONFIRMED"}
    BY <1>t, <2>1, <2>2
  <2> QED BY <2>1, <2>3, <2>4, <2>5, SomethingCarriedOut
<1> QED BY <1>1, <1>2, <1>3

\* An attempt is made, under the key of its intent or a key nobody has
LEMMA ConfirmKeeps ==
    ASSUME DeskInv, NEW s \in Screens, NEW c \in Calls, Confirm(s, c)
    PROVE  DeskInv'
<1>t. /\ DeskTypes /\ ActsOnCurrent /\ AttemptsAlike /\ KeyOfOneIntent /\ KeyedRoutes
      /\ HandlerHoldsRow /\ DoneIsStored /\ StoredIsDone /\ AnsweredIsDone /\ AttendedOnce
      /\ OneEntry
  BY DEF DeskInv
<1>0. ScreenOK(screen[s]) /\ screen[s].dialog # "None" /\ ~Live(c)
  BY <1>t DEF Confirm, DeskTypes, Live
<1>1. PICK k \in CurrentKey(screen[s]) :
         /\ call' = [call EXCEPT ![c] =
              [at |-> "sent", intent |-> Intent(s), key |-> k, heard |-> TRUE,
               body |-> [kind |-> screen[s].dialog, on |-> screen[s].on,
                         amount |-> screen[s].form[screen[s].dialog]]]]
         /\ screen' = [screen EXCEPT ![s] =
              [screen[s] EXCEPT !.key = k, !.tried = TRUE,
                          !.action = [step |-> "waiting", call |-> c, kind |-> screen[s].dialog,
                                      applied |-> FALSE]]]
  BY DEF Confirm, Intent
<1>2. PICK y : y = TRUE
  OBVIOUS
<1>3. PICK b : b = [kind |-> screen[s].dialog, on |-> screen[s].on,
                    amount |-> screen[s].form[screen[s].dialog]]
  OBVIOUS
<1>4. PICK a : a = [step |-> "waiting", call |-> c, kind |-> screen[s].dialog,
                    applied |-> FALSE]
  OBVIOUS
<1>5. PICK q : q = [at |-> "sent", intent |-> Intent(s), key |-> k, heard |-> y, body |-> b]
  OBVIOUS
<1>6. PICK r : r = [screen[s] EXCEPT !.key = k, !.tried = y, !.action = a]
  OBVIOUS
<1>7. call' = [call EXCEPT ![c] = q] /\ screen' = [screen EXCEPT ![s] = r]
  BY <1>1, <1>2, <1>3, <1>4, <1>5, <1>6
<1>8. booking' = booking /\ entries' = entries /\ key' = key /\ reported' = reported
  BY DEF Confirm, server
\* The key
<1>9. /\ k \in Keys \cup {"None"}
      /\ k = "None" <=> screen[s].dialog \notin Keyed
      /\ k # "None" => k = screen[s].key \/ (screen[s].key = "None" /\ k \in Unused)
  BY <1>0, DeskAssumption DEF CurrentKey, ScreenOK, Unused
<1>10. k \in Unused => key[k].state = "ABSENT" /\ \A i : ~NamedFor(k, i)
  <2>1. k \in Unused => k \notin Held /\ key[k].state = "ABSENT"
    BY NoKeyIsARow DEF Unused
  <2> QED BY <2>1 DEF Held, NamedFor, Live
\* What is new
<1>11. /\ q.at = "sent" /\ q.intent = Intent(s) /\ q.key = k
       /\ q.body.kind = screen[s].dialog /\ q.body.on = screen[s].on
  BY <1>3, <1>5
<1>12. CallOK(q) /\ q # NoCall
  <2>1. Intent(s) \in Screens \X Nat
    BY <1>0 DEF Intent, ScreenOK
  <2>2. b.kind \in Kinds /\ b.on \in Rows
    BY <1>0, <1>3 DEF ScreenOK
  <2>3. q \in [at : {"sent", "running", "committed"} \cup Answered, intent : Screens \X Nat,
               key : Keys \cup {"None"}, heard : {q.heard}, body : {q.body}]
    BY <1>5, <1>9, <2>1
  <2>4. CallOK(q)
    BY <1>5, <2>2, <2>3 DEF CallOK
  <2> QED BY <2>4, CallIsLive
<1>13. /\ ScreenOK(r) /\ r.key = k /\ r.tried /\ r.intent = screen[s].intent
       /\ r.dialog = screen[s].dialog /\ r.on = screen[s].on
  <2>1. /\ ScreenOK(r) /\ r.key = k /\ r.tried = y /\ r.intent = screen[s].intent
        /\ r.dialog = screen[s].dialog /\ r.on = screen[s].on
    BY <1>0, <1>6, <1>9 DEF ScreenOK
  <2> QED BY <1>2, <2>1
<1>14. /\ DOMAIN call' = Calls /\ call'[c] = q /\ \A d \in Calls \ {c} : call'[d] = call[d]
       /\ DOMAIN screen' = Screens /\ screen'[s] = r
       /\ \A z \in Screens \ {s} : screen'[z] = screen[z]
  BY <1>7, <1>t DEF DeskTypes
<1>15. \A z \in Screens : Intent(z)' = Intent(z)
  BY <1>13, <1>14 DEF Intent
<1>16. \A d \in Calls : Live(d)' <=> Live(d) \/ d = c
  BY <1>12, <1>14 DEF Live
\* Those who have acted on this intent before did so under the same key
<1>17. ASSUME NEW d \in Calls, Live(d), call[d].intent = Intent(s)
       PROVE  /\ call[d].key = k /\ call[d].body.kind = screen[s].dialog
              /\ call[d].body.on = screen[s].on
  <2>1. /\ call[d].key = screen[s].key /\ call[d].body.kind = screen[s].dialog
        /\ call[d].body.on = screen[s].on
    BY <1>17, <1>t DEF ActsOnCurrent, Intent
  <2>2. call[d].key = "None" <=> screen[s].dialog \notin Keyed
    BY <1>17, <1>t, <2>1 DEF KeyedRoutes
  <2> QED BY <1>9, <2>1, <2>2
<1>18. ASSUME NEW e \in entries, e.intent = Intent(s)
       PROVE  /\ e.kind = screen[s].dialog /\ e.on = screen[s].on
              /\ k # "None" => k = screen[s].key
  <2>1. /\ e.kind = screen[s].dialog /\ e.on = screen[s].on
        /\ e.kind \in Keyed => screen[s].key # "None"
    BY <1>18, <1>t DEF ActsOnCurrent, Intent
  <2> QED BY <1>9, <2>1
<1>19. DeskTypes'
  <2>1. \A d \in Calls : Live(d)' => CallOK(call[d])'
    <3>1. \A d \in Calls : Live(d)' => CallOK(call'[d])
      BY <1>12, <1>14, <1>16, <1>t DEF DeskTypes
    <3> QED BY <3>1 DEF CallOK
  <2>2. \A z \in Screens : ScreenOK(screen[z])'
    <3>1. \A z \in Screens : ScreenOK(screen'[z])
      BY <1>13, <1>14, <1>t DEF DeskTypes
    <3> QED BY <3>1 DEF ScreenOK
  <2>3. DOMAIN key' = Keys /\ \A l \in Keys : RowOK(key[l])'
    BY <1>8, <1>t DEF DeskTypes, RowOK
  <2>4. booking' \in [Rows -> [status : {"ABSENT", "CONFIRMED", "CANCELED_BY_BUSINESS",
                                         "CANCELED_BY_CUSTOMER", "COMPLETED"},
                               root : Rows \cup {"None"}]]
    BY <1>8, <1>t DEF DeskTypes
  <2>5. \A e \in entries' : e.intent \in Screens \X Nat /\ e.kind \in Kinds /\ e.on \in Rows
    BY <1>8, <1>t DEF DeskTypes
  <2> QED BY <1>14, <2>1, <2>2, <2>3, <2>4, <2>5 DEF DeskTypes
<1>20. ActsOnCurrent'
  <2>1. ASSUME NEW z \in Screens, NEW d \in Calls, Live(d)', call'[d].intent[1] = z
        PROVE  /\ call'[d].intent[2] <= screen'[z].intent
               /\ call'[d].intent = Intent(z)' =>
                     /\ screen'[z].tried /\ call'[d].key = screen'[z].key
                     /\ call'[d].body.kind = screen'[z].dialog
                     /\ call'[d].body.on = screen'[z].on
    <3>1. CASE d = c
      <4>1. z = s
        BY <1>11, <1>14, <2>1, <3>1 DEF Intent
      <4>2. q.intent[2] = screen[s].intent /\ screen[s].intent \in Nat
        BY <1>0, <1>11 DEF Intent, ScreenOK
      <4>3. call'[d].intent[2] <= screen'[z].intent
        BY <1>13, <1>14, <3>1, <4>1, <4>2
      <4> QED BY <1>11, <1>13, <1>14, <3>1, <4>1, <4>3
    <3>2. CASE d # c
      <4>1. Live(d) /\ call'[d] = call[d] /\ call[d].intent[1] = z
        BY <1>14, <1>16, <2>1, <3>2
      <4>2. CASE z = s
        <5>1. call'[d].intent[2] <= screen'[z].intent
          BY <1>13, <1>14, <1>t, <4>1, <4>2 DEF ActsOnCurrent
        <5> QED BY <1>13, <1>14, <1>15, <1>17, <4>1, <4>2, <5>1
      <4>3. CASE z # s
        BY <1>14, <1>15, <1>t, <4>1, <4>3 DEF ActsOnCurrent
      <4> QED BY <4>2, <4>3
    <3> QED BY <3>1, <3>2
  <2>2. ASSUME NEW z \in Screens, NEW e \in entries, e.intent[1] = z
        PROVE  /\ e.intent[2] <= screen'[z].intent
               /\ e.intent = Intent(z)' =>
                     /\ screen'[z].tried
                     /\ e.kind = screen'[z].dialog /\ e.on = screen'[z].on
                     /\ e.kind \in Keyed => screen'[z].key # "None"
    <3>1. CASE z = s
      <4>1. e.intent[2] <= screen'[z].intent
        BY <1>13, <1>14, <1>t, <2>2, <3>1 DEF ActsOnCurrent
      <4> QED BY <1>9, <1>13, <1>14, <1>15, <1>18, <3>1, <4>1
    <3>2. CASE z # s
      BY <1>14, <1>15, <1>t, <2>2, <3>2 DEF ActsOnCurrent
    <3> QED BY <3>1, <3>2
  <2> QED BY <1>8, <2>1, <2>2 DEF ActsOnCurrent
<1>21. AttemptsAlike'
  <2>1. ASSUME NEW d \in Calls, NEW e \in Calls, Live(d)', Live(e)',
               call'[e].intent = call'[d].intent
        PROVE  /\ call'[e].key = call'[d].key
               /\ call'[e].body.kind = call'[d].body.kind
               /\ call'[e].body.on = call'[d].body.on
    <3>1. CASE d = c /\ e # c
      BY <1>11, <1>14, <1>16, <1>17, <2>1, <3>1
    <3>2. CASE d # c /\ e = c
      BY <1>11, <1>14, <1>16, <1>17, <2>1, <3>2
    <3>3. CASE d # c /\ e # c
      BY <1>14, <1>16, <1>t, <2>1, <3>3 DEF AttemptsAlike
    <3> QED BY <3>1, <3>2, <3>3
  <2>2. ASSUME NEW d \in Calls, Live(d)', NEW e \in entries, e.intent = call'[d].intent
        PROVE  e.kind = call'[d].body.kind /\ e.on = call'[d].body.on
    <3>1. CASE d = c
      BY <1>11, <1>14, <1>18, <2>2, <3>1
    <3>2. CASE d # c
      BY <1>14, <1>16, <1>t, <2>2, <3>2 DEF AttemptsAlike
    <3> QED BY <3>1, <3>2
  <2> QED BY <1>8, <2>1, <2>2 DEF AttemptsAlike
\* A key that is named was named, but for the one under which this attempt is made
<1>22. ASSUME NEW l \in Keys, NEW i \in Screens \X Nat, NamedFor(l, i)'
       PROVE  NamedFor(l, i) \/ (l = k /\ i = Intent(s))
  <2>1. ASSUME NEW d \in Calls, Live(d)', call'[d].intent = i, call'[d].key = l
        PROVE  NamedFor(l, i) \/ (l = k /\ i = Intent(s))
    <3>1. CASE d = c
      BY <1>11, <1>14, <2>1, <3>1
    <3>2. CASE d # c
      BY <1>14, <1>16, <2>1, <3>2 DEF NamedFor
    <3> QED BY <3>1, <3>2
  <2>2. ASSUME NEW z \in Screens, Intent(z)' = i, screen'[z].key = l
        PROVE  NamedFor(l, i) \/ (l = k /\ i = Intent(s))
    <3>1. CASE z = s
      BY <1>13, <1>14, <1>15, <2>2, <3>1
    <3>2. CASE z # s
      BY <1>14, <1>15, <2>2, <3>2 DEF NamedFor
    <3> QED BY <3>1, <3>2
  <2> QED BY <1>22, <2>1, <2>2 DEF NamedFor
<1>23. k \in Keys /\ k = screen[s].key => NamedFor(k, Intent(s))
  BY DEF NamedFor
<1>24. Intent(s) \in Screens \X Nat
  BY <1>0 DEF Intent, ScreenOK
<1>25. KeyOfOneIntent'
  <2>1. ASSUME k \in Keys, NEW i \in Screens \X Nat, NamedFor(k, i)
        PROVE  i = Intent(s)
    <3>1. k = screen[s].key
      BY <1>9, <1>10, <2>1, DeskAssumption
    <3> QED BY <1>23, <1>24, <1>t, <2>1, <3>1 DEF KeyOfOneIntent
  <2> QED BY <1>22, <1>t, <2>1 DEF KeyOfOneIntent
<1>26. KeyedRoutes'
  <2>1. ASSUME NEW d \in Calls, Live(d)'
        PROVE  /\ call'[d].key = "None" <=> call'[d].body.kind \notin Keyed
               /\ call'[d].at = "committed" => call'[d].body.kind \in Keyed
    <3>1. CASE d = c
      BY <1>9, <1>11, <1>14, <3>1
    <3>2. CASE d # c
      BY <1>14, <1>16, <1>t, <2>1, <3>2 DEF KeyedRoutes
    <3> QED BY <3>1, <3>2
  <2> QED BY <2>1 DEF KeyedRoutes
<1>27. \A d \in Calls : /\ Inside(d)' <=> Inside(d)
                        /\ Inside(d) => call'[d] = call[d]
  <2>1. ~Inside(c) /\ ~Inside(c)'
    BY <1>0, <1>11, <1>14 DEF Inside
  <2>2. \A d \in Calls \ {c} : Inside(d)' <=> Inside(d)
    BY <1>14 DEF Inside, Live
  <2> QED BY <1>14, <2>1, <2>2
<1>28. HandlerHoldsRow'
  BY <1>8, <1>27, <1>t DEF HandlerHoldsRow
<1>29. \A l : Storing(l)' <=> Storing(l)
  BY <1>27 DEF Storing
<1>30. DoneIsStored'
  <2>1. ASSUME NEW l \in Keys, NEW e \in entries, NamedFor(l, e.intent)'
        PROVE  NamedFor(l, e.intent)
    <3>1. e.intent \in Screens \X Nat
      BY <1>t DEF DeskTypes
    <3>2. CASE l = k /\ e.intent = Intent(s)
      <4>1. k = screen[s].key
        BY <1>18, <3>2, DeskAssumption
      <4> QED BY <1>23, <3>2, <4>1
    <3> QED BY <1>22, <2>1, <3>1, <3>2
  <2> QED BY <1>8, <1>29, <1>t, <2>1 DEF DoneIsStored
<1>31. StoredIsDone'
  <2>1. ASSUME NEW l \in Keys, NEW i \in Screens \X Nat, NamedFor(l, i)',
               key[l].state = "COMPLETED"
        PROVE  NamedFor(l, i)
    <3>1. CASE l = k /\ i = Intent(s)
      <4>1. k = screen[s].key
        BY <1>9, <1>10, <2>1, <3>1, DeskAssumption
      <4> QED BY <1>23, <3>1, <4>1
    <3> QED BY <1>22, <2>1, <3>1
  <2> QED BY <1>8, <1>t, <2>1 DEF StoredIsDone, Entered
<1>32. AnsweredIsDone'
  <2>1. ASSUME NEW d \in Calls, Live(d)', call'[d].at \in {"ok", "committed"}
        PROVE  Entered(call[d].intent)'
    <3>1. d # c
      BY <1>11, <1>14, <2>1
    <3>2. call'[d] = call[d] /\ Entered(call[d].intent)
      BY <1>14, <1>16, <1>t, <2>1, <3>1 DEF AnsweredIsDone
    <3> QED BY <1>8, <3>2 DEF Entered
  <2>2. \A i \in reported' : Entered(i)'
    BY <1>8, <1>t DEF AnsweredIsDone, Entered
  <2> QED BY <2>1, <2>2 DEF AnsweredIsDone
<1>33. AttendedOnce' /\ OneEntry'
  BY <1>8, <1>t DEF AttendedOnce, OneEntry
<1> QED
  BY <1>19, <1>20, <1>21, <1>25, <1>26, <1>28, <1>30, <1>31, <1>32, <1>33 DEF DeskInv

\* Nothing has been tried in the beginning
LEMMA DeskBegins ==
    ASSUME DeskInit
    PROVE  DeskInv
<1>1. /\ call = [c \in Calls |-> NoCall] /\ key = [k \in Keys |-> NoKey]
      /\ entries = {} /\ reported = {}
  BY DEF DeskInit
<1>2. \A c \in Calls : ~Live(c)
  BY <1>1 DEF Live
<1>3. PICK can \in Roles : screen =
         [s \in Screens |->
            [on |-> First, can |-> can, dialog |-> "None", form |-> [k \in Kinds |-> 0],
             key |-> "None", intent |-> 1, tried |-> FALSE, action |-> AtRest,
             shown |-> [open |-> TRUE, paid |-> Charge]]]
  BY DEF DeskInit
<1>4. PICK f, a, h, t : /\ f = [k \in Kinds |-> 0] /\ a = AtRest /\ t = FALSE
                        /\ h = [open |-> TRUE, paid |-> Charge]
  OBVIOUS
<1>5. screen = [s \in Screens |->
                  [on |-> First, can |-> can, dialog |-> "None", form |-> f, key |-> "None",
                   intent |-> 1, tried |-> t, action |-> a, shown |-> h]]
  BY <1>3, <1>4
<1>6. DOMAIN screen = Screens /\ \A s \in Screens : ScreenOK(screen[s]) /\ screen[s].key = "None"
  BY <1>5 DEF ScreenOK, Rows
<1>7. booking \in [Rows -> [status : {"ABSENT", "CONFIRMED", "CANCELED_BY_BUSINESS",
                                      "CANCELED_BY_CUSTOMER", "COMPLETED"},
                            root : Rows \cup {"None"}]]
  BY DEF DeskInit
<1>8. DeskTypes
  BY <1>1, <1>2, <1>6, <1>7, NoKeyIsARow DEF DeskTypes
<1>9. \A k \in Keys : \A i : ~NamedFor(k, i)
  BY <1>2, <1>6, DeskAssumption DEF NamedFor
<1>10. ActsOnCurrent /\ AttemptsAlike /\ KeyedRoutes
  BY <1>1, <1>2 DEF ActsOnCurrent, AttemptsAlike, KeyedRoutes
<1>11. KeyOfOneIntent /\ DoneIsStored /\ StoredIsDone
  BY <1>9 DEF KeyOfOneIntent, DoneIsStored, StoredIsDone
<1>12. HandlerHoldsRow /\ AnsweredIsDone /\ AttendedOnce /\ OneEntry
  BY <1>1, <1>2 DEF HandlerHoldsRow, Inside, AnsweredIsDone, AttendedOnce, OneEntry
<1> QED BY <1>8, <1>10, <1>11, <1>12 DEF DeskInv

LEMMA DeskRests ==
    ASSUME DeskInv, UNCHANGED desk
    PROVE  DeskInv'
<1>1. UNCHANGED <<server, call, screen, reported>>
  BY DEF desk, server
<1>2. DOMAIN call' = Calls /\ DOMAIN screen' = Screens
  BY <1>1 DEF DeskInv, DeskTypes
<1>3. \A s \in Screens : Kept(screen'[s], screen[s])
  BY <1>1 DEF DeskInv, DeskTypes, Kept
<1>4. \A c \in Calls :
         \/ call'[c] = NoCall /\ (Live(c) => call[c].at \notin {"running", "committed"})
         \/ Live(c) /\ SameRequest(c) /\ call'[c].at = call[c].at
  BY <1>1, Unmoved DEF Live
<1> QED BY <1>1, <1>2, <1>3, <1>4, ScreensMove

LEMMA DeskStep ==
    ASSUME DeskInv, ~Unfinished, [DeskNext]_desk
    PROVE  DeskInv'
<1>1. ASSUME NEW s \in Screens, Operator(s) PROVE DeskInv'
  <2>1. ASSUME NEW c \in Calls, Confirm(s, c) PROVE DeskInv'
    BY <2>1, ConfirmKeeps
  <2>2. ASSUME LoseAnswer(s) PROVE DeskInv'
    BY <2>2, AnswerIsLost
  <2> QED BY <1>1, <2>1, <2>2, ScreenActs DEF Operator
<1>2. ASSUME NEW c \in Calls, Handler(c) PROVE DeskInv'
  <2>1. BeginAnswered(c) \/ Begin(c) \/ Refuse(c) => DeskInv'
    BY BeginAnsweredKeeps, BeginKeeps, RefuseKeeps
  <2>2. Complete(c) \/ Dies(c) \/ Deliver(c) => DeskInv'
    BY CompleteKeeps, DiesKeeps, AnswerArrives
  <2> QED BY <1>2, <2>1, <2>2, HandlersKeep DEF Handler
<1>3. ASSUME NEW k \in Keys, LeaseLapses(k) \/ Sweep(k) PROVE DeskInv'
  BY <1>3, LeaseLapsesKeeps, SweepKeeps
<1>4. ASSUME Moved \/ OthersBook PROVE DeskInv'
  BY <1>4, OthersKeep
<1>5. CASE UNCHANGED desk
  BY <1>5, DeskRests
<1> QED BY <1>1, <1>2, <1>3, <1>4, <1>5 DEF DeskNext

(* However many screens, keys and requests there are, whatever answers are lost
   and however often it is tried again: one filled-in form is carried out at
   most once, and has been when a screen says so (BookingDetail.vue,
   NewBooking.vue and the interceptor behind @Idempotent), as long as the
   answer of what was committed is stored. *)
THEOREM FormsAreCarriedOutOnce ==
    ASSUME ~Unfinished
    PROVE  DeskSpec => []CarriedOutOnce
<1>1. DeskInit => DeskInv
  BY DeskBegins
<1>2. DeskInv /\ [DeskNext]_desk => DeskInv'
  BY DeskStep
<1>3. DeskInv => CarriedOutOnce
  BY DEF DeskInv, OneEntry, AnsweredIsDone, Entered, CarriedOutOnce
<1> QED BY <1>1, <1>2, <1>3, PTL DEF DeskSpec

-----------------------------------------------------------------------------
(* Desk: its figures                                                       *)

Exists(b) == booking[b].status # "ABSENT"

\* The money of the chain is on its first row
ChainOK ==
    /\ booking \in [Rows -> [status : {"ABSENT", "CONFIRMED", "CANCELED_BY_BUSINESS",
                                       "CANCELED_BY_CUSTOMER", "COMPLETED"},
                             root : Rows \cup {"None"}]]
    /\ Exists(First) /\ booking[First].root = "None"
    /\ Exists(Second) => booking[Second].root = First

FormOK(r) == ScreenOK(r) /\ r.form \in [Kinds -> -1..1]
BodyOK(r) == CallOK(r) /\ r.body.amount \in -1..1

ScreensOK == DOMAIN screen = Screens /\ \A s \in Screens : FormOK(screen[s]) /\ Exists(screen[s].on)
CallsOK ==
    /\ DOMAIN call = Calls
    /\ \A c \in Calls : Live(c) => BodyOK(call[c]) /\ Exists(call[c].body.on)
EntriesOK ==
    /\ IsFiniteSet(entries)
    /\ \A e \in entries : e.amount \in -1..1 /\ e.root = First

FiguresInv == ChainOK /\ ScreensOK /\ CallsOK /\ EntriesOK

\* Whichever row of the chain is asked, its money is found
LEMMA OneRoot ==
    ASSUME ChainOK, NEW b \in Rows, Exists(b)
    PROVE  RootBookingId(b) = First
<1>1. First # Second /\ First # "None"
  BY DeskAssumption
<1> QED BY <1>1 DEF ChainOK, RootBookingId, Rows

-----------------------------------------------------------------------------
(* Sums of entries                                                         *)

With(n, S) == {e \in S : e.amount = n}

\* What a set of entries comes to: those of plus one less those of minus one
Balance(S) == Cardinality(With(1, S)) - Cardinality(With(-1, S))

\* What MapThenSumSet computes over the subsets of a set, one entry at a time
Adding(S, g) ==
    g = [s \in SUBSET S |->
            IF s = {} THEN 0
            ELSE (CHOOSE x \in s : TRUE).amount + g[s \ {CHOOSE x \in s : TRUE}]]

LEMMA BalanceIsNumber ==
    ASSUME NEW S, IsFiniteSet(S)
    PROVE  /\ Balance(S) \in Int
           /\ \A n : IsFiniteSet(With(n, S)) /\ Cardinality(With(n, S)) \in Nat
<1>1. ASSUME NEW n PROVE IsFiniteSet(With(n, S)) /\ Cardinality(With(n, S)) \in Nat
  <2>1. With(n, S) \in SUBSET S
    BY DEF With
  <2>2. IsFiniteSet(With(n, S))
    BY <2>1, FS_Subset
  <2> QED BY <2>2, FS_CardinalityType
<1>2. PICK p \in Nat : p = Cardinality(With(1, S))
  BY <1>1
<1>3. PICK m \in Nat : m = Cardinality(With(-1, S))
  BY <1>1
<1>4. Balance(S) = p - m
  BY <1>2, <1>3 DEF Balance
<1> QED BY <1>1, <1>4

\* An entry less is its amount less
LEMMA BalanceWithout ==
    ASSUME NEW S, IsFiniteSet(S), NEW x \in S, x.amount \in -1..1
    PROVE  Balance(S) = x.amount + Balance(S \ {x})
<1>1. ASSUME NEW n
      PROVE  Cardinality(With(n, S \ {x})) =
               IF x.amount = n THEN Cardinality(With(n, S)) - 1 ELSE Cardinality(With(n, S))
  <2>1. IsFiniteSet(With(n, S))
    BY BalanceIsNumber
  <2>2. With(n, S \ {x}) = With(n, S) \ {x} /\ (x \in With(n, S) <=> x.amount = n)
    BY DEF With
  <2> QED BY <2>1, <2>2, FS_RemoveElement
<1>2. PICK p \in Nat : p = Cardinality(With(1, S))
  BY BalanceIsNumber
<1>3. PICK m \in Nat : m = Cardinality(With(-1, S))
  BY BalanceIsNumber
<1>4. Cardinality(With(1, S \ {x})) = IF x.amount = 1 THEN p - 1 ELSE p
  BY <1>1, <1>2
<1>5. Cardinality(With(-1, S \ {x})) = IF x.amount = -1 THEN m - 1 ELSE m
  BY <1>1, <1>3
<1>6. PICK a \in -1..1 : a = x.amount
  OBVIOUS
<1>7. Balance(S \ {x}) = (IF a = 1 THEN p - 1 ELSE p) - (IF a = -1 THEN m - 1 ELSE m)
  BY <1>4, <1>5, <1>6 DEF Balance
<1>8. Balance(S) = p - m
  BY <1>2, <1>3 DEF Balance
<1> QED BY <1>6, <1>7, <1>8

LEMMA BalanceAdds ==
    ASSUME NEW S, IsFiniteSet(S), \A e \in S : e.amount \in -1..1
    PROVE  Adding(S, [s \in SUBSET S |-> Balance(s)])
<1> DEFINE g == [s \in SUBSET S |-> Balance(s)]
<1>1. ASSUME NEW s \in SUBSET S, s # {}
      PROVE  g[s] = (CHOOSE x \in s : TRUE).amount + g[s \ {CHOOSE x \in s : TRUE}]
  <2>1. PICK x : x = (CHOOSE y \in s : TRUE)
    OBVIOUS
  <2>2. x \in s /\ x.amount \in -1..1
    BY <1>1, <2>1
  <2>3. IsFiniteSet(s)
    BY FS_Subset
  <2>4. Balance(s) = x.amount + Balance(s \ {x})
    BY <2>2, <2>3, BalanceWithout
  <2>5. g[s] = Balance(s) /\ g[s \ {x}] = Balance(s \ {x})
    OBVIOUS
  <2> QED BY <2>1, <2>4, <2>5
<1>2. g[{}] = 0
  <2>1. With(1, {}) = {} /\ With(-1, {}) = {}
    BY DEF With
  <2>2. Balance({}) = 0 - 0
    BY <2>1, FS_EmptySet DEF Balance
  <2> QED BY <2>2
<1>3. ASSUME NEW s \in SUBSET S
      PROVE  g[s] = IF s = {} THEN 0
                    ELSE (CHOOSE x \in s : TRUE).amount + g[s \ {CHOOSE x \in s : TRUE}]
  <2>1. CASE s = {}
    BY <1>2, <2>1
  <2>2. CASE s # {}
    BY <1>1, <2>2
  <2> QED BY <2>1, <2>2
<1>4. g = [s \in SUBSET S |-> g[s]]
  OBVIOUS
<1> HIDE DEF g
<1>5. Adding(S, g)
  BY <1>3, <1>4 DEF Adding
<1> QED BY <1>5 DEF g

\* There is no other way to add: there would be a smallest set of entries that had two sums
LEMMA AddedAlike ==
    ASSUME NEW S, IsFiniteSet(S), NEW g, NEW h, Adding(S, g), Adding(S, h)
    PROVE  g[S] = h[S]
<1>1. IsWellFoundedOn(StrictSubsetOrdering(S), SUBSET S)
  BY FS_StrictSubsetOrderingWellFounded, FS_FiniteSubsetsOfFinite, Zenon
<1> DEFINE Apart == {s \in SUBSET S : g[s] # h[s]}
<1>2. SUFFICES ASSUME Apart # {} PROVE FALSE
  OBVIOUS
<1>3. PICK s \in Apart : \A t \in Apart : ~(<<t, s>> \in StrictSubsetOrdering(S))
  <2>1. Apart \subseteq SUBSET S
    OBVIOUS
  <2> HIDE DEF Apart
  <2> QED BY <1>1, <1>2, <2>1, WFMin, Zenon
<1>4. s \in SUBSET S /\ g[s] # h[s]
  OBVIOUS
<1>5. PICK x : x = (CHOOSE y \in s : TRUE)
  OBVIOUS
<1>6. /\ g[s] = IF s = {} THEN 0 ELSE x.amount + g[s \ {x}]
      /\ h[s] = IF s = {} THEN 0 ELSE x.amount + h[s \ {x}]
  BY <1>4, <1>5 DEF Adding
<1>7. s # {}
  BY <1>4, <1>6
<1>8. x \in s
  BY <1>5, <1>7
<1>9. g[s \ {x}] # h[s \ {x}]
  BY <1>4, <1>6, <1>7
<1>10. s \ {x} \in Apart /\ <<s \ {x}, s>> \in StrictSubsetOrdering(S)
  BY <1>4, <1>8, <1>9 DEF StrictSubsetOrdering
<1> QED BY <1>3, <1>10

\* A sum of entries is a number
LEMMA SumIsNumber ==
    ASSUME NEW S, IsFiniteSet(S), \A e \in S : e.amount \in -1..1
    PROVE  Sum(S) \in Int
<1>1. PICK g : g = [s \in SUBSET S |-> Balance(s)]
  OBVIOUS
<1>2. Adding(S, g) /\ g[S] = Balance(S)
  BY <1>1, BalanceAdds
<1>3. Sum(S) = (CHOOSE h : Adding(S, h))[S]
  BY DEF Sum, MapThenSumSet, MapThenFoldSet, Adding
<1>4. PICK h : h = (CHOOSE i : Adding(S, i))
  OBVIOUS
<1>5. Adding(S, h)
  BY <1>2, <1>4, Zenon
<1>6. h[S] = g[S]
  BY <1>2, <1>5, AddedAlike
<1>7. Sum(S) = Balance(S)
  BY <1>2, <1>3, <1>4, <1>6
<1> QED BY <1>7, BalanceIsNumber

-----------------------------------------------------------------------------
(* What the pages say                                                      *)

Takings  == {e \in entries : e.kind = "payment"}
Returned == {e \in entries : e.kind \in {"refund", "cancel"}}

\* OfficeBookingsService.detail: every row of the chain says the same
LEMMA EveryRowAgrees ==
    ASSUME FiguresInv, NEW b \in Rows, Exists(b)
    PROVE  /\ ReceivedFrom(b) = Charge + Sum(Takings)
           /\ RefundedFrom(b) = Sum(Returned)
<1>1. RootBookingId(b) = First
  BY OneRoot DEF FiguresInv
<1>2. /\ {e \in entries : e.kind = "payment" /\ e.root = First} = Takings
      /\ {e \in entries : e.kind \in {"refund", "cancel"} /\ e.root = First} = Returned
  BY DEF FiguresInv, EntriesOK, Takings, Returned
<1>3. ReadRoots(b).payments = Charge
  BY <1>1 DEF ReadRoots, Charged
<1>4. ReadRoots(b).manual = Takings /\ ReadRoots(b).refunds = Returned
  BY <1>1, <1>2 DEF ReadRoots
<1> QED BY <1>3, <1>4 DEF ReceivedFrom, RefundedFrom

LEMMA SumsAreNumbers ==
    ASSUME FiguresInv
    PROVE  Sum(Takings) \in Int /\ Sum(Returned) \in Int
<1>1. ASSUME NEW S \in SUBSET entries PROVE Sum(S) \in Int
  <2>1. IsFiniteSet(S)
    BY FS_Subset DEF FiguresInv, EntriesOK
  <2>2. \A e \in S : e.amount \in -1..1
    BY DEF FiguresInv, EntriesOK
  <2> QED BY <2>1, <2>2, SumIsNumber
<1>2. Takings \in SUBSET entries /\ Returned \in SUBSET entries
  BY DEF Takings, Returned
<1> QED BY <1>1, <1>2

\* CustomersService: the root of the chain is counted once
LEMMA CountedOnce ==
    ASSUME FiguresInv
    PROVE  LifetimeValue = Charge + Sum(Takings) - Sum(Returned)
<1>1. {RootBookingId(b) : b \in {d \in Rows : booking[d].status # "ABSENT"}} = {First}
  <2>1. ASSUME NEW b \in Rows, booking[b].status # "ABSENT" PROVE RootBookingId(b) = First
    BY <2>1, OneRoot DEF FiguresInv, Exists
  <2>2. First \in Rows /\ booking[First].status # "ABSENT"
    BY DEF FiguresInv, ChainOK, Exists, Rows
  <2> QED BY <2>1, <2>2
<1>2. PICK v : v = ReceivedFrom(First) - RefundedFrom(First)
  OBVIOUS
<1>3. v \in Int /\ v = Charge + Sum(Takings) - Sum(Returned)
  <2>1. First \in Rows /\ Exists(First)
    BY DEF FiguresInv, ChainOK, Rows
  <2>2. PICK t \in Int : t = Sum(Takings)
    BY SumsAreNumbers
  <2>3. PICK r \in Int : r = Sum(Returned)
    BY SumsAreNumbers
  <2>4. ReceivedFrom(First) = Charge + t /\ RefundedFrom(First) = r
    BY <2>1, <2>2, <2>3, EveryRowAgrees, Zenon
  <2>5. v = Charge + t - r
    BY <1>2, <2>2, <2>3, <2>4, DeskAssumption
  <2> QED BY <2>2, <2>3, <2>5, DeskAssumption
<1> DEFINE Is(h) == h = [s \in SUBSET {First} |->
                           IF s = {} THEN 0
                           ELSE (ReceivedFrom(CHOOSE x \in s : TRUE)
                                  - RefundedFrom(CHOOSE x \in s : TRUE))
                                + h[s \ {CHOOSE x \in s : TRUE}]]
<1>4. LifetimeValue = (CHOOSE h : Is(h))[{First}]
  BY <1>1 DEF LifetimeValue, MapThenSumSet, MapThenFoldSet
<1>5. (CHOOSE x \in {First} : TRUE) = First
  OBVIOUS
<1>6. \E h : Is(h)
  <2>1. PICK g : g = [s \in SUBSET {First} |-> IF s = {} THEN 0 ELSE v]
    OBVIOUS
  <2>2. ASSUME NEW s \in SUBSET {First}
        PROVE  g[s] = IF s = {} THEN 0
                      ELSE (ReceivedFrom(CHOOSE x \in s : TRUE)
                             - RefundedFrom(CHOOSE x \in s : TRUE))
                           + g[s \ {CHOOSE x \in s : TRUE}]
    <3>1. CASE s = {}
      BY <2>1, <3>1
    <3>2. CASE s # {}
      <4>1. s = {First} /\ s \ {First} = {}
        BY <3>2
      <4>2. g[s] = v /\ g[{}] = 0
        BY <2>1, <4>1
      <4>3. (CHOOSE x \in s : TRUE) = First
        BY <1>5, <4>1
      <4>4. v + g[{}] = g[s]
        BY <1>3, <4>2
      <4> QED BY <1>2, <3>2, <4>1, <4>3, <4>4, Zenon
    <3> QED BY <3>1, <3>2
  <2>3. g = [s \in SUBSET {First} |-> g[s]]
    BY <2>1
  <2>4. Is(g)
    BY <2>2, <2>3, Zenon
  <2> HIDE DEF Is
  <2> QED BY <2>4
<1>7. PICK h : h = (CHOOSE i : Is(i))
  OBVIOUS
<1>8. Is(h)
  <2> HIDE DEF Is
  <2> QED BY <1>6, <1>7, Zenon
<1>9. h[{}] = 0
  BY <1>8
<1>10. h[{First}] = (ReceivedFrom(First) - RefundedFrom(First)) + h[{First} \ {First}]
  <2>1. {First} \in SUBSET {First} /\ {First} # {}
    OBVIOUS
  <2> QED BY <1>5, <1>8, <2>1
<1>11. h[{First}] = v + 0
  <2>1. {First} \ {First} = {}
    OBVIOUS
  <2> QED BY <1>2, <1>9, <1>10, <2>1
<1> QED BY <1>3, <1>4, <1>7, <1>11

\* And the dashboard's tile
LEMMA UnpaidAgrees ==
    ASSUME FiguresInv
    PROVE  Unpaid = {b \in Rows : booking[b].status = "CONFIRMED" /\ Sum(Takings) < 0}
<1>1. ASSUME NEW b \in Rows, booking[b].status = "CONFIRMED"
      PROVE  Charged(RootBookingId(b))
               + Sum({e \in entries : e.kind = "payment" /\ e.root = RootBookingId(b)}) < Charge
             <=> Sum(Takings) < 0
  <2>1. RootBookingId(b) = First
    BY <1>1, OneRoot DEF FiguresInv, Exists
  <2>2. {e \in entries : e.kind = "payment" /\ e.root = First} = Takings
    BY DEF FiguresInv, EntriesOK, Takings
  <2>3. PICK t \in Int : t = Sum(Takings)
    BY SumsAreNumbers
  <2>4. Charge + t < Charge <=> t < 0
    BY <2>3, DeskAssumption
  <2> QED BY <2>1, <2>2, <2>3, <2>4 DEF Charged
<1> QED BY <1>1 DEF Unpaid

LEMMA FiguresFollow ==
    ASSUME FiguresInv
    PROVE  FiguresAgree
<1>1. \A b \in Rows : booking[b].status # "ABSENT" =>
         ReceivedFrom(b) = Charge + Sum(Takings) /\ RefundedFrom(b) = Sum(Returned)
  BY EveryRowAgrees DEF Exists
<1> QED BY <1>1, CountedOnce, UnpaidAgrees DEF FiguresAgree, Takings, Returned

-----------------------------------------------------------------------------
(* Desk: its figures, step by step                                         *)

LEMMA FiguresBegin ==
    ASSUME DeskInit
    PROVE  FiguresInv
<1>1. ChainOK /\ (\A b \in Rows : b = First \/ b = Second)
  BY DeskAssumption DEF DeskInit, ChainOK, Exists, Rows
<1>2. PICK can \in Roles : screen =
         [s \in Screens |->
            [on |-> First, can |-> can, dialog |-> "None", form |-> [k \in Kinds |-> 0],
             key |-> "None", intent |-> 1, tried |-> FALSE, action |-> AtRest,
             shown |-> [open |-> TRUE, paid |-> Charge]]]
  BY DEF DeskInit
<1>3. PICK f, a, h, t : /\ f = [k \in Kinds |-> 0] /\ a = AtRest /\ t = FALSE
                        /\ h = [open |-> TRUE, paid |-> Charge]
  OBVIOUS
<1>4. screen = [s \in Screens |->
                  [on |-> First, can |-> can, dialog |-> "None", form |-> f, key |-> "None",
                   intent |-> 1, tried |-> t, action |-> a, shown |-> h]]
  BY <1>2, <1>3
<1>5. \A s \in Screens : ScreenOK(screen[s]) /\ screen[s].form = f /\ screen[s].on = First
  BY <1>4 DEF ScreenOK, Rows
<1>6. f \in [Kinds -> -1..1]
  BY <1>3
<1>7. DOMAIN screen = Screens
  BY <1>4
<1>8. ScreensOK
  BY <1>1, <1>5, <1>6, <1>7 DEF ScreensOK, FormOK, ChainOK
<1>9. CallsOK
  BY DEF DeskInit, CallsOK, Live
<1>10. EntriesOK
  BY FS_EmptySet DEF DeskInit, EntriesOK
<1> QED BY <1>1, <1>8, <1>9, <1>10 DEF FiguresInv

\* No row disappears, and a move names the row the money is on
LEMMA ChainStep ==
    ASSUME FiguresInv, [DeskNext]_desk
    PROVE  ChainOK' /\ \A b \in Rows : Exists(b) => Exists(b)'
<1>0. ChainOK /\ First # Second /\ CallsOK
  BY DeskAssumption DEF FiguresInv
<1>1. CASE booking' = booking
  BY <1>0, <1>1 DEF ChainOK, Exists
<1>2. ASSUME NEW b \in Rows, NEW st \in {"CANCELED_BY_BUSINESS", "COMPLETED"}, Exists(b),
             booking' = [booking EXCEPT ![b].status = st]
      PROVE  ChainOK' /\ \A c \in Rows : Exists(c) => Exists(c)'
  <2>1. booking' \in [Rows -> [status : {"ABSENT", "CONFIRMED", "CANCELED_BY_BUSINESS",
                                         "CANCELED_BY_CUSTOMER", "COMPLETED"},
                               root : Rows \cup {"None"}]]
    BY <1>0, <1>2 DEF ChainOK
  <2>2. \A c \in Rows : /\ booking'[c].root = booking[c].root
                        /\ Exists(c)' <=> Exists(c)
    BY <1>0, <1>2 DEF ChainOK, Exists
  <2> QED BY <1>0, <2>1, <2>2 DEF ChainOK, Rows
<1>3. CASE Moved
  <2>1. RootBookingId(First) = First
    BY <1>0, OneRoot DEF ChainOK, Rows
  <2>2. booking' = [booking EXCEPT ![First].status = "CANCELED_BY_CUSTOMER",
                                   ![Second] = [status |-> "CONFIRMED", root |-> First]]
    BY <1>3, <2>1 DEF Moved
  <2>3. /\ booking' \in [Rows -> [status : {"ABSENT", "CONFIRMED", "CANCELED_BY_BUSINESS",
                                            "CANCELED_BY_CUSTOMER", "COMPLETED"},
                                  root : Rows \cup {"None"}]]
        /\ booking'[First].status = "CANCELED_BY_CUSTOMER"
        /\ booking'[First].root = booking[First].root
        /\ booking'[Second].status = "CONFIRMED" /\ booking'[Second].root = First
    BY <1>0, <2>2 DEF ChainOK, Rows
  <2> QED BY <1>0, <2>3 DEF ChainOK, Exists, Rows
<1>4. ASSUME NEW c \in Calls, CancelByBusiness(c) \/ Attend(c)
      PROVE  ChainOK' /\ \A b \in Rows : Exists(b) => Exists(b)'
  <2>1. Live(c)
    <3>1. call[c].at = "running"
      BY <1>4 DEF CancelByBusiness, Attend, Handling
    <3> QED BY <3>1 DEF Live, NoCall
  <2>2. call[c].body.on \in Rows /\ Exists(call[c].body.on)
    BY <1>0, <2>1 DEF CallsOK, BodyOK, CallOK
  <2> QED BY <1>2, <1>4, <2>2 DEF CancelByBusiness, Attend
<1>5. ASSUME NEW s \in Screens, Operator(s) PROVE booking' = booking
  BY <1>5 DEF Operator, Open, Type, Close, Confirm, LoseAnswer, Visit, ReadBooking, ReadMoney,
              ReadFails, server
<1>6. ASSUME NEW c \in Calls, Handler(c) PROVE \/ booking' = booking
                                               \/ CancelByBusiness(c) \/ Attend(c)
  BY <1>6 DEF Handler, BeginAnswered, Begin, RecordManualPayment, IssueRefund, CreateManual,
              Refuse, Complete, Dies, Deliver, server
<1>7. ASSUME NEW k \in Keys, LeaseLapses(k) \/ Sweep(k) PROVE booking' = booking
  BY <1>7 DEF LeaseLapses, Sweep
<1>8. CASE OthersBook
  BY <1>1, <1>8 DEF OthersBook
<1>9. CASE UNCHANGED desk
  BY <1>1, <1>9 DEF desk
<1> QED BY <1>1, <1>3, <1>4, <1>5, <1>6, <1>7, <1>8, <1>9 DEF DeskNext

\* Forms hold what may be typed
LEMMA NewIntentKeepsForm ==
    ASSUME NEW r, FormOK(r)
    PROVE  FormOK(NewIntent(r)) /\ NewIntent(r).on = r.on
<1>1. PICK n \in Nat : n = IF r.tried THEN r.intent + 1 ELSE r.intent
  BY DEF FormOK, ScreenOK
<1>2. PICK f : f = FALSE
  OBVIOUS
<1>3. NewIntent(r) = [r EXCEPT !.key = "None", !.tried = f, !.intent = n]
  BY <1>1, <1>2 DEF NewIntent
<1> QED BY <1>3 DEF FormOK, ScreenOK

LEMMA FormCleared ==
    ASSUME NEW r, FormOK(r), NEW kind
    PROVE  [r.form EXCEPT ![kind] = 0] \in [Kinds -> -1..1]
<1>1. PICK g \in [Kinds -> -1..1] : g = r.form
  BY DEF FormOK
<1>2. 0 \in -1..1
  OBVIOUS
<1>3. PICK z \in -1..1 : z = 0
  BY <1>2
<1>4. [g EXCEPT ![kind] = z] \in [Kinds -> -1..1]
  OBVIOUS
<1> QED BY <1>1, <1>3, <1>4

LEMMA HeardKeepsForm ==
    ASSUME NEW r, FormOK(r), NEW answer
    PROVE  FormOK(Heard(r, answer)) /\ Heard(r, answer).on = r.on
<1>1. PICK a : a = AtRest
  OBVIOUS
<1>2. PICK f \in [Kinds -> -1..1] : f = [r.form EXCEPT !["create"] = 0]
  BY FormCleared
<1>3. CASE r.action.kind = "create" /\ answer = "SLOT_UNAVAILABLE"
  <2>1. PICK q : q = [r EXCEPT !.action = a, !.form = f]
    OBVIOUS
  <2>2. FormOK(q) /\ q.on = r.on
    BY <2>1 DEF FormOK, ScreenOK
  <2>3. Heard(r, answer) = NewIntent(q)
    BY <1>1, <1>2, <1>3, <2>1 DEF Heard
  <2> QED BY <2>2, <2>3, NewIntentKeepsForm
<1>4. CASE r.action.kind = "create" /\ answer = "ok"
  <2>1. PICK q : q = [r EXCEPT !.action = a, !.form = f, !.dialog = "None"]
    OBVIOUS
  <2>2. FormOK(q) /\ q.on = r.on
    BY <2>1 DEF FormOK, ScreenOK
  <2>3. Heard(r, answer) = NewIntent(q)
    BY <1>1, <1>2, <1>4, <2>1 DEF Heard
  <2> QED BY <2>2, <2>3, NewIntentKeepsForm
<1>5. CASE r.action.kind = "create" /\ answer \notin {"SLOT_UNAVAILABLE", "ok"}
  <2>1. Heard(r, answer) = [r EXCEPT !.action = a]
    BY <1>1, <1>5 DEF Heard
  <2> QED BY <2>1 DEF FormOK, ScreenOK
<1>6. CASE r.action.kind # "create"
  <2>1. PICK b : b = [[[r.action EXCEPT !.step = "reading"] EXCEPT !.call = "None"]
                        EXCEPT !.applied = (answer = "ok")]
    OBVIOUS
  <2>2. Heard(r, answer) = [r EXCEPT !.action = b]
    BY <1>6, <2>1 DEF Heard, FormOK, ScreenOK
  <2> QED BY <2>2 DEF FormOK, ScreenOK
<1> QED BY <1>3, <1>4, <1>5, <1>6

LEMMA FinishKeepsForm ==
    ASSUME NEW r, FormOK(r)
    PROVE  FormOK(Finish(r)) /\ Finish(r).on = r.on
<1>1. PICK a : a = AtRest
  OBVIOUS
<1>2. PICK f \in [Kinds -> -1..1] : f = [r.form EXCEPT ![r.action.kind] = 0]
  BY FormCleared
<1>3. CASE r.action.applied
  <2>1. PICK q : q = [r EXCEPT !.form = f, !.dialog = "None", !.action = a]
    OBVIOUS
  <2>2. FormOK(q) /\ q.on = r.on
    BY <2>1 DEF FormOK, ScreenOK
  <2>3. Finish(r) = NewIntent(q)
    BY <1>1, <1>2, <1>3, <2>1 DEF Finish
  <2> QED BY <2>2, <2>3, NewIntentKeepsForm
<1>4. CASE ~r.action.applied
  <2>1. Finish(r) = [r EXCEPT !.action = a]
    BY <1>1, <1>4 DEF Finish
  <2> QED BY <2>1 DEF FormOK, ScreenOK
<1> QED BY <1>3, <1>4

\* What one screen becomes
LEMMA OneScreen ==
    ASSUME FiguresInv, NEW s \in Screens, NEW r, FormOK(r), Exists(r.on)',
           screen' = [screen EXCEPT ![s] = r], \A b \in Rows : Exists(b) => Exists(b)'
    PROVE  ScreensOK'
<1>1. DOMAIN screen' = Screens
  BY DEF FiguresInv, ScreensOK
<1>2. ASSUME NEW z \in Screens
      PROVE  FormOK(screen'[z]) /\ booking'[screen'[z].on].status # "ABSENT"
  <2>1. CASE z = s
    <3>1. screen'[z] = r
      BY <2>1 DEF FiguresInv, ScreensOK
    <3> QED BY <3>1 DEF Exists
  <2>2. CASE z # s
    <3>1. screen'[z] = screen[z] /\ FormOK(screen[z]) /\ Exists(screen[z].on)
      BY <2>2 DEF FiguresInv, ScreensOK
    <3>2. screen[z].on \in Rows
      BY <3>1 DEF FormOK, ScreenOK
    <3>3. Exists(screen[z].on)'
      BY <3>1, <3>2
    <3> QED BY <3>1, <3>3 DEF Exists
  <2> QED BY <2>1, <2>2
<1>3. \A z \in Screens : FormOK(screen[z])'
  BY <1>2 DEF FormOK, ScreenOK
<1> QED BY <1>1, <1>2, <1>3 DEF ScreensOK, Exists

LEMMA ScreensStep ==
    ASSUME FiguresInv, [DeskNext]_desk
    PROVE  ScreensOK'
<1>0. \A b \in Rows : Exists(b) => Exists(b)'
  BY ChainStep
<1>f. \A s \in Screens : /\ FormOK(screen[s]) /\ Exists(screen[s].on)
                         /\ screen[s].on \in Rows /\ ScreenOK(screen[s])
  BY DEF FiguresInv, ScreensOK, FormOK, ScreenOK
<1>1. CASE screen' = screen
  BY <1>0, <1>1, <1>f DEF FiguresInv, ScreensOK, FormOK, ScreenOK
<1>2. ASSUME NEW s \in Screens, NEW r, FormOK(r), r.on = screen[s].on,
             screen' = [screen EXCEPT ![s] = r]
      PROVE  ScreensOK'
  <2>1. Exists(r.on)'
    BY <1>0, <1>2, <1>f
  <2> QED BY <1>0, <1>2, <2>1, OneScreen
<1>3. ASSUME NEW s \in Screens, Operator(s) PROVE ScreensOK'
  <2>0. FormOK(screen[s])
    BY <1>f
  <2>1. ASSUME NEW kind \in Kinds, Open(s, kind) PROVE ScreensOK'
    <3>1. PICK r : r = [screen[s] EXCEPT !.dialog = kind]
      OBVIOUS
    <3>2. FormOK(r) /\ r.on = screen[s].on
      BY <2>0, <3>1 DEF FormOK, ScreenOK
    <3> QED BY <1>2, <2>1, <3>1, <3>2 DEF Open
  <2>2. ASSUME NEW amount \in -1..1, Type(s, amount) PROVE ScreensOK'
    <3>1. PICK f : f = [screen[s].form EXCEPT ![screen[s].dialog] = amount]
      OBVIOUS
    <3>2. f \in [Kinds -> -1..1]
      BY <2>0, <3>1 DEF FormOK
    <3>3. PICK r : r = [screen[s] EXCEPT !.form = f]
      OBVIOUS
    <3>4. FormOK(r) /\ r.on = screen[s].on
      BY <2>0, <3>2, <3>3 DEF FormOK, ScreenOK
    <3>5. screen' = [screen EXCEPT ![s] = NewIntent(r)]
      BY <2>2, <3>1, <3>3 DEF Type
    <3> QED BY <1>2, <3>4, <3>5, NewIntentKeepsForm
  <2>3. ASSUME NEW c \in Calls, Confirm(s, c) PROVE ScreensOK'
    <3>1. PICK k \in CurrentKey(screen[s]) : screen' = [screen EXCEPT ![s] =
             [screen[s] EXCEPT !.key = k, !.tried = TRUE,
                               !.action = [step |-> "waiting", call |-> c,
                                           kind |-> screen[s].dialog, applied |-> FALSE]]]
      BY <2>3 DEF Confirm
    <3>2. PICK y : y = TRUE
      OBVIOUS
    <3>3. PICK a : a = [step |-> "waiting", call |-> c, kind |-> screen[s].dialog,
                        applied |-> FALSE]
      OBVIOUS
    <3>4. PICK r : r = [screen[s] EXCEPT !.key = k, !.tried = y, !.action = a]
      OBVIOUS
    <3>5. k \in Keys \cup {"None"}
      BY <2>0, <3>1 DEF CurrentKey, FormOK, ScreenOK, Unused
    <3>6. FormOK(r) /\ r.on = screen[s].on
      BY <2>0, <3>4, <3>5 DEF FormOK, ScreenOK
    <3>7. screen' = [screen EXCEPT ![s] = r]
      BY <3>1, <3>2, <3>3, <3>4
    <3> QED BY <1>2, <3>6, <3>7
  <2>4. ASSUME Close(s) PROVE ScreensOK'
    <3>1. PICK r : r = [screen[s] EXCEPT !.dialog = "None"]
      OBVIOUS
    <3>2. FormOK(r) /\ r.on = screen[s].on
      BY <2>0, <3>1 DEF FormOK, ScreenOK
    <3>3. screen' = [screen EXCEPT ![s] = NewIntent(r)]
      BY <2>4, <3>1 DEF Close
    <3> QED BY <1>2, <3>2, <3>3, NewIntentKeepsForm
  <2>5. ASSUME LoseAnswer(s) PROVE ScreensOK'
    <3>1. screen' = [screen EXCEPT ![s] = Heard(screen[s], "lost")]
      BY <2>5 DEF LoseAnswer
    <3> QED BY <1>2, <2>0, <3>1, HeardKeepsForm
  <2>6. ASSUME Visit(s) PROVE ScreensOK'
    <3>0. 0 \in -1..1
      OBVIOUS
    <3>1. PICK f \in [Kinds -> -1..1] : f = [k \in Kinds |-> 0]
      BY <3>0
    <3>2. PICK h : h = Shown(Second)
      OBVIOUS
    <3>3. PICK r : r = [screen[s] EXCEPT !.on = Second, !.form = f, !.shown = h]
      OBVIOUS
    <3>4. FormOK(r) /\ r.on = Second
      BY <2>0, <3>3 DEF FormOK, ScreenOK, Rows
    <3>5. screen' = [screen EXCEPT ![s] = NewIntent(r)] /\ Exists(Second)
      BY <2>6, <3>1, <3>2, <3>3 DEF Visit, Exists
    <3>6. FormOK(NewIntent(r)) /\ NewIntent(r).on = Second
      BY <3>4, NewIntentKeepsForm
    <3>7. Exists(NewIntent(r).on)'
      BY <1>0, <3>5, <3>6 DEF Rows
    <3> QED BY <1>0, <3>5, <3>6, <3>7, OneScreen
  <2>7. ASSUME ReadBooking(s) PROVE ScreensOK'
    <3>1. PICK a : a = [screen[s].action EXCEPT !.step = "read"]
      OBVIOUS
    <3>2. PICK h : h = [screen[s].shown EXCEPT !.open = Shown(screen[s].on).open]
      OBVIOUS
    <3>3. PICK r : r = [[screen[s] EXCEPT !.action = a] EXCEPT !.shown = h]
      OBVIOUS
    <3>4. FormOK(r) /\ r.on = screen[s].on
      BY <2>0, <3>3 DEF FormOK, ScreenOK
    <3>5. screen' = [screen EXCEPT ![s] = r]
      <4>1. DOMAIN screen = Screens
        BY DEF FiguresInv, ScreensOK
      <4>2. screen' = [[screen EXCEPT ![s].action.step = "read"]
                         EXCEPT ![s].shown.open = Shown(screen[s].on).open]
        BY <2>7 DEF ReadBooking
      <4>3. screen' = [[screen EXCEPT ![s] = [screen[s] EXCEPT !.action = a]] EXCEPT ![s] = r]
        BY <1>f, <3>1, <3>2, <3>3, <4>1, <4>2 DEF ScreenOK
      <4> QED BY <4>1, <4>3
    <3> QED BY <1>2, <3>4, <3>5
  <2>8. ASSUME ReadMoney(s) PROVE ScreensOK'
    <3>1. PICK h : h = [screen[s].shown EXCEPT !.paid = Shown(screen[s].on).paid]
      OBVIOUS
    <3>2. PICK r : r = [screen[s] EXCEPT !.shown = h]
      OBVIOUS
    <3>3. FormOK(r) /\ r.on = screen[s].on
      BY <2>0, <3>2 DEF FormOK, ScreenOK
    <3>4. screen' = [screen EXCEPT ![s] = Finish(r)]
      BY <2>8, <3>1, <3>2 DEF ReadMoney
    <3> QED BY <1>2, <3>3, <3>4, FinishKeepsForm
  <2>9. ASSUME ReadFails(s) PROVE ScreensOK'
    <3>1. screen' = [screen EXCEPT ![s] = Finish(screen[s])]
      BY <2>9 DEF ReadFails
    <3> QED BY <1>2, <2>0, <3>1, FinishKeepsForm
  <2> QED BY <1>3, <2>1, <2>2, <2>3, <2>4, <2>5, <2>6, <2>7, <2>8, <2>9 DEF Operator
<1>4. ASSUME NEW c \in Calls, Handler(c) PROVE ScreensOK'
  <2>1. CASE Deliver(c)
    <3>1. CASE screen' = screen
      BY <1>1, <3>1
    <3>2. CASE screen' # screen
      <4>1. PICK s : s = call[c].intent[1]
        OBVIOUS
      <4>2. screen' = [screen EXCEPT ![s] = Heard(screen[s], call[c].at)]
        BY <2>1, <3>2, <4>1 DEF Deliver
      <4>3. Live(c)
        BY <2>1 DEF Deliver, Answered, Live, NoCall
      <4>4. s \in Screens
        BY <4>1, <4>3 DEF FiguresInv, CallsOK, BodyOK, CallOK
      <4> QED BY <1>2, <1>f, <4>2, <4>4, HeardKeepsForm
    <3> QED BY <3>1, <3>2
  <2>2. CASE ~Deliver(c)
    <3>1. screen' = screen
      BY <1>4, <2>2 DEF Handler, BeginAnswered, Begin, RecordManualPayment, IssueRefund,
         CancelByBusiness, Attend, CreateManual, Refuse, Complete, Dies, Committed
    <3> QED BY <1>1, <3>1
  <2> QED BY <2>1, <2>2
<1>5. ASSUME \/ \E k \in Keys : LeaseLapses(k) \/ Sweep(k)
             \/ Moved \/ OthersBook \/ UNCHANGED desk
      PROVE  screen' = screen
  BY <1>5 DEF LeaseLapses, Sweep, Moved, OthersBook, desk
<1> QED BY <1>1, <1>3, <1>4, <1>5 DEF DeskNext

\* What one request becomes
LEMMA OneCall ==
    ASSUME FiguresInv, NEW c \in Calls, NEW r,
           r = NoCall \/ (BodyOK(r) /\ Exists(r.body.on)'),
           call' = [call EXCEPT ![c] = r], \A b \in Rows : Exists(b) => Exists(b)'
    PROVE  CallsOK'
<1>1. DOMAIN call' = Calls
  BY DEF FiguresInv, CallsOK
<1>2. ASSUME NEW d \in Calls, call'[d] # NoCall
      PROVE  BodyOK(call'[d]) /\ booking'[call'[d].body.on].status # "ABSENT"
  <2>1. CASE d = c
    <3>1. call'[d] = r
      BY <2>1 DEF FiguresInv, CallsOK
    <3> QED BY <1>2, <3>1 DEF Exists
  <2>2. CASE d # c
    <3>1. call'[d] = call[d]
      BY <2>2 DEF FiguresInv, CallsOK
    <3>2. BodyOK(call[d]) /\ Exists(call[d].body.on)
      BY <1>2, <3>1 DEF FiguresInv, CallsOK, Live
    <3>3. call[d].body.on \in Rows
      BY <3>2 DEF BodyOK, CallOK
    <3>4. Exists(call[d].body.on)'
      BY <3>1, <3>2, <3>3
    <3> QED BY <3>1, <3>2, <3>4 DEF Exists
  <2> QED BY <2>1, <2>2
<1>3. \A d \in Calls : Live(d)' => BodyOK(call[d])' /\ Exists(call[d].body.on)'
  BY <1>2 DEF Live, BodyOK, CallOK, Exists
<1> QED BY <1>1, <1>3 DEF CallsOK

\* A request that goes on says what it said
LEMMA CallGoesOn ==
    ASSUME FiguresInv, NEW c \in Calls, Live(c),
           NEW x \in {"sent", "running", "committed"} \cup Answered,
           call' = [call EXCEPT ![c].at = x], \A b \in Rows : Exists(b) => Exists(b)'
    PROVE  CallsOK'
<1>1. BodyOK(call[c]) /\ Exists(call[c].body.on)
  BY DEF FiguresInv, CallsOK
<1>2. PICK r : r = [call[c] EXCEPT !.at = x]
  OBVIOUS
<1>3. BodyOK(r) /\ r.body = call[c].body /\ r.body.on \in Rows
  BY <1>1, <1>2 DEF BodyOK, CallOK
<1>4. PICK o : o = r.body.on
  OBVIOUS
<1>5. Exists(o)'
  BY <1>1, <1>3, <1>4
<1>6. Exists(r.body.on)'
  BY <1>4, <1>5
<1>7. call' = [call EXCEPT ![c] = r]
  BY <1>2
<1> QED BY <1>3, <1>6, <1>7, OneCall

LEMMA CallsStep ==
    ASSUME FiguresInv, [DeskNext]_desk
    PROVE  CallsOK'
<1>0. \A b \in Rows : Exists(b) => Exists(b)'
  BY ChainStep
<1>1. CASE call' = call
  BY <1>0, <1>1 DEF FiguresInv, CallsOK, Live, BodyOK, CallOK
<1>2. ASSUME NEW c \in Calls, Handler(c) PROVE CallsOK'
  <2>1. Live(c)
    <3>1. call[c].at # "idle"
      BY <1>2 DEF Handler, BeginAnswered, Begin, RecordManualPayment, IssueRefund, CancelByBusiness,
         Attend, CreateManual, Refuse, Complete, Dies, Deliver, Handling, Answered
    <3> QED BY <3>1 DEF Live, NoCall
  <2>2. CASE Deliver(c)
    <3>1. call' = [call EXCEPT ![c] = NoCall]
      BY <2>2 DEF Deliver
    <3>2. PICK r : r = NoCall
      OBVIOUS
    <3> QED BY <1>0, <3>1, <3>2, OneCall
  <2>3. CASE BeginAnswered(c)
    <3>1. Reply(c) \in Answered
      BY DEF Reply, Answered
    <3>2. call' = [call EXCEPT ![c].at = Reply(c)]
      BY <2>3 DEF BeginAnswered
    <3>3. PICK x : x = Reply(c)
      OBVIOUS
    <3> QED BY <1>0, <2>1, <3>1, <3>2, <3>3, CallGoesOn
  <2>4. CASE Refuse(c)
    <3>1. PICK x \in Answered :
             x = IF call[c].body.kind = "create" THEN "SLOT_UNAVAILABLE" ELSE "refused"
      BY DEF Answered
    <3>2. call' = [call EXCEPT ![c].at = x]
      BY <2>4, <3>1 DEF Refuse
    <3> QED BY <1>0, <2>1, <3>2, CallGoesOn
  <2>5. CASE Begin(c) \/ Complete(c) \/ Dies(c) \/ Attend(c)
    <3>1. PICK x \in {"running", "ok", "busy"} : call' = [call EXCEPT ![c].at = x]
      BY <2>5 DEF Begin, Complete, Dies, Attend
    <3> QED BY <1>0, <2>1, <3>1, CallGoesOn DEF Answered
  <2>6. CASE RecordManualPayment(c) \/ IssueRefund(c) \/ CancelByBusiness(c) \/ CreateManual(c)
    <3>1. call' = [call EXCEPT ![c].at = "committed"]
      BY <2>6 DEF RecordManualPayment, IssueRefund, CancelByBusiness, CreateManual, Committed
    <3> QED BY <1>0, <2>1, <3>1, CallGoesOn
  <2> QED BY <1>2, <2>2, <2>3, <2>4, <2>5, <2>6 DEF Handler
<1>3. ASSUME NEW s \in Screens, Operator(s) PROVE CallsOK'
  <2>0. FormOK(screen[s]) /\ Exists(screen[s].on) /\ screen[s].on \in Rows
    BY DEF FiguresInv, ScreensOK, FormOK, ScreenOK
  <2>1. ASSUME NEW c \in Calls, Confirm(s, c) PROVE CallsOK'
    <3>1. PICK k \in CurrentKey(screen[s]) : call' = [call EXCEPT ![c] =
             [at |-> "sent", intent |-> Intent(s), key |-> k, heard |-> TRUE,
              body |-> [kind |-> screen[s].dialog, on |-> screen[s].on,
                        amount |-> screen[s].form[screen[s].dialog]]]]
      BY <2>1 DEF Confirm, Intent
    <3>2. screen[s].dialog \in Kinds
      BY <2>0, <2>1 DEF Confirm, FormOK, ScreenOK
    <3>3. PICK n \in -1..1 : n = screen[s].form[screen[s].dialog]
      BY <2>0, <3>2 DEF FormOK
    <3>4. PICK b : b = [kind |-> screen[s].dialog, on |-> screen[s].on, amount |-> n]
      OBVIOUS
    <3>5. PICK y, i : y = TRUE /\ i = Intent(s)
      OBVIOUS
    <3>6. PICK r : r = [at |-> "sent", intent |-> i, key |-> k, heard |-> y, body |-> b]
      OBVIOUS
    <3>7. k \in Keys \cup {"None"}
      BY <2>0, <3>1 DEF CurrentKey, FormOK, ScreenOK, Unused
    <3>8. i \in Screens \X Nat
      BY <2>0, <3>5 DEF Intent, FormOK, ScreenOK
    <3>9. b.kind \in Kinds /\ b.on \in Rows /\ b.amount \in -1..1
      BY <2>0, <3>2, <3>4
    <3>10. BodyOK(r) /\ r.body = b
      BY <3>6, <3>7, <3>8, <3>9 DEF BodyOK, CallOK
    <3>11. PICK o : o = screen[s].on
      OBVIOUS
    <3>12. Exists(o)' /\ r.body.on = o
      BY <1>0, <2>0, <3>4, <3>10, <3>11
    <3>13. Exists(r.body.on)'
      BY <3>12
    <3>14. call' = [call EXCEPT ![c] = r]
      BY <3>1, <3>3, <3>4, <3>5, <3>6
    <3> QED BY <1>0, <3>10, <3>13, <3>14, OneCall
  <2>2. CASE LoseAnswer(s)
    <3>1. PICK c : c = screen[s].action.call
      OBVIOUS
    <3>2. CASE c \notin Calls
      <4>1. DOMAIN call = Calls
        BY DEF FiguresInv, CallsOK
      <4>2. \/ call' = [call EXCEPT ![c].heard = FALSE]
            \/ call' = [call EXCEPT ![c] = NoCall]
        BY <2>2, <3>1 DEF LoseAnswer
      <4>3. DOMAIN call' = Calls /\ \A d \in Calls : call'[d] = call[d]
        BY <3>2, <4>1, <4>2
      <4>4. ASSUME NEW d \in Calls, Live(d)'
            PROVE  BodyOK(call[d])' /\ Exists(call[d].body.on)'
        <5>1. BodyOK(call[d]) /\ Exists(call[d].body.on) /\ call[d].body.on \in Rows
          BY <4>3, <4>4 DEF FiguresInv, CallsOK, Live, BodyOK, CallOK
        <5> QED BY <1>0, <4>3, <5>1 DEF BodyOK, CallOK
      <4> QED BY <4>3, <4>4 DEF CallsOK
    <3>3. CASE c \in Calls /\ call' = [call EXCEPT ![c] = NoCall]
      <4>1. PICK r : r = NoCall
        OBVIOUS
      <4> QED BY <1>0, <3>3, <4>1, OneCall
    <3>4. CASE c \in Calls /\ call' = [call EXCEPT ![c].heard = FALSE]
      <4>1. PICK y : y = FALSE
        OBVIOUS
      <4>2. PICK r : r = [call[c] EXCEPT !.heard = y]
        OBVIOUS
      <4>3. call' = [call EXCEPT ![c] = r]
        BY <3>4, <4>1, <4>2
      <4>4. CASE Live(c)
        <5>1. BodyOK(call[c]) /\ Exists(call[c].body.on)
          BY <3>4, <4>4 DEF FiguresInv, CallsOK
        <5>2. BodyOK(r) /\ r.body = call[c].body /\ r.body.on \in Rows
          BY <4>2, <5>1 DEF BodyOK, CallOK
        <5>3. PICK o : o = r.body.on
          OBVIOUS
        <5>4. Exists(o)'
          BY <1>0, <5>1, <5>2, <5>3
        <5>5. Exists(r.body.on)'
          BY <5>3, <5>4
        <5> QED BY <1>0, <3>4, <4>3, <5>2, <5>5, OneCall
      <4>5. CASE ~Live(c)
        <5>1. r = NoCall
          BY <4>2, <4>5 DEF Live, NoCall
        <5> QED BY <1>0, <3>4, <4>3, <5>1, OneCall
      <4> QED BY <4>4, <4>5
    <3> QED BY <2>2, <3>1, <3>2, <3>3, <3>4 DEF LoseAnswer
  <2>3. ASSUME \/ \E kind \in Kinds : Open(s, kind)
               \/ \E amount \in -1..1 : Type(s, amount)
               \/ Close(s) \/ Visit(s) \/ ReadBooking(s) \/ ReadMoney(s) \/ ReadFails(s)
        PROVE  call' = call
    BY <2>3 DEF Open, Type, Close, Visit, ReadBooking, ReadMoney, ReadFails
  <2> QED BY <1>1, <1>3, <2>1, <2>2, <2>3 DEF Operator
<1>4. ASSUME \/ \E k \in Keys : LeaseLapses(k) \/ Sweep(k)
             \/ Moved \/ OthersBook \/ UNCHANGED desk
      PROVE  call' = call
  BY <1>4 DEF LeaseLapses, Sweep, Moved, OthersBook, desk
<1> QED BY <1>1, <1>2, <1>3, <1>4 DEF DeskNext

\* Whatever is recorded is recorded on the root, whichever row it was issued on
LEMMA EntriesStep ==
    ASSUME FiguresInv, [DeskNext]_desk
    PROVE  EntriesOK'
<1>1. CASE entries' = entries
  BY <1>1 DEF FiguresInv, EntriesOK
<1>2. ASSUME NEW c \in Calls, call[c].at = "running", entries' = entries \cup {Recorded(c)}
      PROVE  EntriesOK'
  <2>1. Live(c)
    BY <1>2 DEF Live, NoCall
  <2>2. /\ call[c].body.amount \in -1..1 /\ call[c].body.on \in Rows
        /\ Exists(call[c].body.on)
    BY <2>1 DEF FiguresInv, CallsOK, BodyOK, CallOK
  <2>3. RootBookingId(call[c].body.on) = First
    BY <2>2, OneRoot DEF FiguresInv
  <2>4. Recorded(c).amount \in -1..1 /\ Recorded(c).root = First
    BY <2>2, <2>3 DEF Recorded
  <2>5. IsFiniteSet(entries')
    BY <1>2, FS_AddElement DEF FiguresInv, EntriesOK
  <2> QED BY <1>2, <2>4, <2>5 DEF FiguresInv, EntriesOK
<1>3. ASSUME NEW c \in Calls,
             \/ RecordManualPayment(c) \/ IssueRefund(c) \/ CancelByBusiness(c)
             \/ Attend(c) \/ CreateManual(c)
      PROVE  EntriesOK'
  BY <1>2, <1>3 DEF RecordManualPayment, IssueRefund, CancelByBusiness, Attend, CreateManual,
     Handling, Committed
<1>4. ASSUME NEW c \in Calls,
             \/ BeginAnswered(c) \/ Begin(c) \/ Refuse(c) \/ Complete(c) \/ Dies(c) \/ Deliver(c)
      PROVE  entries' = entries
  BY <1>4 DEF BeginAnswered, Begin, Refuse, Complete, Dies, Deliver, server
<1>5. ASSUME NEW s \in Screens, Operator(s) PROVE entries' = entries
  BY <1>5 DEF Operator, Open, Type, Close, Confirm, LoseAnswer, Visit, ReadBooking, ReadMoney,
              ReadFails, server
<1>6. ASSUME \/ \E k \in Keys : LeaseLapses(k) \/ Sweep(k)
             \/ Moved \/ OthersBook \/ UNCHANGED desk
      PROVE  entries' = entries
  BY <1>6 DEF LeaseLapses, Sweep, Moved, OthersBook, desk
<1> QED BY <1>1, <1>3, <1>4, <1>5, <1>6 DEF DeskNext, Handler

(* Every booking of a chain shows the whole of its money, and the customer's page and
   the dashboard count it once, however many payments, corrections, refunds and
   cancellations there were and on whichever row they were entered
   (booking-financials.service.ts and its readers). *)
THEOREM EveryPageShowsTheSame == DeskSpec => []FiguresAgree
<1>1. DeskInit => FiguresInv
  BY FiguresBegin
<1>2. FiguresInv /\ [DeskNext]_desk => FiguresInv'
  <2>1. FiguresInv /\ [DeskNext]_desk => ChainOK' /\ ScreensOK' /\ CallsOK' /\ EntriesOK'
    BY ChainStep, ScreensStep, CallsStep, EntriesStep
  <2> QED BY <2>1 DEF FiguresInv
<1>3. FiguresInv => FiguresAgree
  BY FiguresFollow
<1> QED BY <1>1, <1>2, <1>3, PTL DEF DeskSpec

-----------------------------------------------------------------------------
(* Rows in an order                                                        *)

\* A strict total order of the rows of S
Orders(order, S) ==
    /\ \A x \in S : <<x, x>> \notin order
    /\ \A x, y, z \in S : <<x, y>> \in order /\ <<y, z>> \in order => <<x, z>> \in order
    /\ \A x, y \in S : x = y \/ <<x, y>> \in order \/ <<y, x>> \in order

\* The rank of a row says how many come before it: different rows have different ranks, so
\* all ranks are taken.
LEMMA Ranks ==
    ASSUME NEW S, IsFiniteSet(S), NEW order, Orders(order, S)
    PROVE  /\ Cardinality(S) \in Nat
           /\ \A x \in S : Cardinality(Preceding(S, order, x)) \in 0..(Cardinality(S) - 1)
           /\ \A x, y \in S : <<x, y>> \in order =>
                 Cardinality(Preceding(S, order, x)) < Cardinality(Preceding(S, order, y))
           /\ \A k \in 0..(Cardinality(S) - 1) :
                 \E x \in S : Cardinality(Preceding(S, order, x)) = k
<1>1. Cardinality(S) \in Nat
  BY FS_CardinalityType
<1>2. ASSUME NEW x \in S
      PROVE  /\ IsFiniteSet(Preceding(S, order, x))
             /\ Cardinality(Preceding(S, order, x)) \in 0..(Cardinality(S) - 1)
  <2>1. Preceding(S, order, x) \in SUBSET S /\ x \notin Preceding(S, order, x)
    BY DEF Preceding, Orders
  <2>2. /\ IsFiniteSet(Preceding(S, order, x))
        /\ Cardinality(Preceding(S, order, x)) <= Cardinality(S)
        /\ Cardinality(S) = Cardinality(Preceding(S, order, x)) => S = Preceding(S, order, x)
    BY <2>1, FS_Subset
  <2>3. Cardinality(Preceding(S, order, x)) \in Nat
    BY <2>2, FS_CardinalityType
  <2>4. Cardinality(S) # Cardinality(Preceding(S, order, x))
    BY <2>1, <2>2
  <2> QED  BY <1>1, <2>2, <2>3, <2>4
<1>3. ASSUME NEW x \in S, NEW y \in S, <<x, y>> \in order
      PROVE  Cardinality(Preceding(S, order, x)) < Cardinality(Preceding(S, order, y))
  <2>1. /\ Preceding(S, order, x) \in SUBSET Preceding(S, order, y)
        /\ x \in Preceding(S, order, y) /\ x \notin Preceding(S, order, x)
    BY <1>3 DEF Preceding, Orders
  <2>2. /\ Cardinality(Preceding(S, order, x)) <= Cardinality(Preceding(S, order, y))
        /\ Cardinality(Preceding(S, order, y)) # Cardinality(Preceding(S, order, x))
    BY <1>2, <2>1, FS_Subset
  <2> QED  BY <1>2, <2>2
<1>4. ASSUME NEW k \in 0..(Cardinality(S) - 1)
      PROVE  \E x \in S : Cardinality(Preceding(S, order, x)) = k
  <2>1. PICK f : f = [x \in S |-> Cardinality(Preceding(S, order, x))]
    OBVIOUS
  <2>2. f \in [S -> 0..(Cardinality(S) - 1)] /\ \A x \in S : f[x] = Cardinality(Preceding(S, order, x))
    BY <1>2, <2>1
  <2>3. \A x, y \in S : f[x] = f[y] => x = y
    <3> SUFFICES ASSUME NEW x \in S, NEW y \in S, f[x] = f[y], x # y  PROVE FALSE
      OBVIOUS
    <3>1. <<x, y>> \in order \/ <<y, x>> \in order
      BY DEF Orders
    <3> QED  BY <1>2, <1>3, <2>2, <3>1
  <2>4. f \in Injection(S, 0..(Cardinality(S) - 1))
    BY <2>2, <2>3 DEF Injection, IsInjective
  <2>5. IsFiniteSet(0..(Cardinality(S) - 1)) /\ Cardinality(0..(Cardinality(S) - 1)) = Cardinality(S)
    BY <1>1, FS_Interval
  <2>6. f \in Surjection(S, 0..(Cardinality(S) - 1))
    BY <2>4, <2>5, FS_Injection
  <2> QED  BY <2>2, <2>6 DEF Surjection
<1> QED  BY <1>1, <1>2, <1>3, <1>4

\* A query says each of its rows once, in the order asked for.
LEMMA EveryRowInOrder ==
    ASSUME NEW S, IsFiniteSet(S), NEW order, Orders(order, S)
    PROVE  /\ Ordered(S, order) \in Seq(S) /\ Len(Ordered(S, order)) = Cardinality(S)
           /\ Cardinality(S) \in Nat
           /\ \A i, j \in 1..Cardinality(S) :
                 i < j => <<Ordered(S, order)[i], Ordered(S, order)[j]>> \in order
           /\ \A x \in S : \E i \in 1..Cardinality(S) : Ordered(S, order)[i] = x
<1>1. PICK n \in Nat : n = Cardinality(S)
  BY Ranks
<1>2. PICK rows : rows = Ordered(S, order)
  OBVIOUS
<1>3. ASSUME NEW k \in 1..n
      PROVE  rows[k] \in S /\ Cardinality(Preceding(S, order, rows[k])) = k - 1
  <2>1. rows[k] = CHOOSE x \in S : Cardinality(Preceding(S, order, x)) = k - 1
    BY <1>1, <1>2 DEF Ordered
  <2>2. k - 1 \in 0..(n - 1)
    BY <1>1
  <2>3. \E x \in S : Cardinality(Preceding(S, order, x)) = k - 1
    BY <1>1, <2>2, Ranks, Zenon
  <2> QED  BY <2>1, <2>3, Zenon
<1>4. rows \in [1..n -> S]
  BY <1>1, <1>2, <1>3 DEF Ordered
<1>5. rows \in Seq(S)
  BY <1>1, <1>4, SeqDef
<1>6. Len(rows) = n
  <2>1. DOMAIN rows = 1..n /\ DOMAIN rows = 1..Len(rows) /\ Len(rows) \in Nat
    BY <1>4, <1>5, LenProperties
  <2> QED  BY <1>1, <2>1
<1>7. ASSUME NEW i \in 1..n, NEW j \in 1..n, i < j
      PROVE  <<rows[i], rows[j]>> \in order
  <2>1. /\ rows[i] \in S /\ Cardinality(Preceding(S, order, rows[i])) = i - 1
        /\ rows[j] \in S /\ Cardinality(Preceding(S, order, rows[j])) = j - 1
    BY <1>3
  <2>2. rows[i] # rows[j]
    BY <1>7, <2>1
  <2>3. <<rows[j], rows[i]>> \notin order
    <3>1. <<rows[j], rows[i]>> \in order =>
             Cardinality(Preceding(S, order, rows[j])) < Cardinality(Preceding(S, order, rows[i]))
      BY <2>1, Ranks, Zenon
    <3> QED  BY <1>7, <2>1, <3>1
  <2> QED  BY <2>1, <2>2, <2>3 DEF Orders
<1>8. ASSUME NEW x \in S
      PROVE  \E i \in 1..n : rows[i] = x
  <2>1. PICK i : i = Cardinality(Preceding(S, order, x)) + 1
    OBVIOUS
  <2>2. i \in 1..n /\ Cardinality(Preceding(S, order, x)) = i - 1
    BY <1>1, <2>1, Ranks
  <2>3. rows[i] \in S /\ Cardinality(Preceding(S, order, rows[i])) = Cardinality(Preceding(S, order, x))
    BY <1>3, <2>2
  <2>4. /\ <<rows[i], x>> \notin order /\ <<x, rows[i]>> \notin order
    <3>1. Cardinality(Preceding(S, order, x)) \in Int
      BY <1>1, Ranks
    <3> QED  BY <2>3, <3>1, Ranks
  <2> QED  BY <2>2, <2>3, <2>4 DEF Orders
<1> QED  BY <1>1, <1>2, <1>5, <1>6, <1>7, <1>8, Zenon

\* orderBy and take: the first n rows of a query
FirstOf(S, order, n) ==
    SubSeq(Ordered(S, order), 1,
           IF Len(Ordered(S, order)) > n THEN n ELSE Len(Ordered(S, order)))

\* They are in order, and leave out only what comes later
LEMMA FirstRows ==
    ASSUME NEW S, IsFiniteSet(S), NEW order, Orders(order, S), NEW n \in Nat,
           NEW rows, rows = FirstOf(S, order, n)
    PROVE  /\ rows \in Seq(S) /\ Len(rows) \in Nat /\ DOMAIN rows = 1..Len(rows)
           /\ Len(Ordered(S, order)) \in Nat
           /\ Len(Ordered(S, order)) > n => Len(rows) = n
           /\ \A i, j \in 1..Len(rows) : i < j => <<rows[i], rows[j]>> \in order
           /\ \A x \in S : \/ x \in ToSet(rows)
                           \/ /\ Len(Ordered(S, order)) > n
                              /\ \A i \in 1..Len(rows) : <<rows[i], x>> \in order
<1>1. PICK all : all = Ordered(S, order)
  OBVIOUS
<1>2. /\ all \in Seq(S) /\ Len(all) \in Nat
      /\ \A i, j \in 1..Len(all) : i < j => <<all[i], all[j]>> \in order
      /\ \A x \in S : \E i \in 1..Len(all) : all[i] = x
  <2>1. PICK c : c = Cardinality(S)
    OBVIOUS
  <2>2. Len(all) = c /\ c \in Nat /\ all \in Seq(S)
    BY <1>1, <2>1, EveryRowInOrder
  <2>3. \A i, j \in 1..c : i < j => <<all[i], all[j]>> \in order
    BY <1>1, <2>1, EveryRowInOrder
  <2>4. \A x \in S : \E i \in 1..c : all[i] = x
    BY <1>1, <2>1, EveryRowInOrder
  <2> QED  BY <2>2, <2>3, <2>4
<1>3. PICK k \in Nat : /\ k = IF Len(all) > n THEN n ELSE Len(all)
                       /\ k <= Len(all) /\ ((Len(all) > n /\ k = n) \/ k = Len(all))
  BY <1>2
<1>4. rows = SubSeq(all, 1, k)
  BY <1>1, <1>3 DEF FirstOf
<1>5. \A i \in 1..k : all[i] \in S
  BY <1>2, <1>3, ElementOfSeq
<1>6. rows \in Seq(S) /\ Len(rows) = k /\ \A i \in 1..k : rows[i] = all[i]
  <2>1. /\ rows \in Seq(S) /\ Len(rows) = (IF 1 <= k THEN k - 1 + 1 ELSE 0)
        /\ \A i \in 1..(k - 1 + 1) : rows[i] = all[1 + i - 1]
    BY <1>3, <1>4, <1>5, SubSeqProperties
  <2> QED  BY <1>3, <2>1
<1>7. DOMAIN rows = 1..k
  BY <1>6, LenProperties
<1>8. ASSUME NEW x \in S
      PROVE  x \in ToSet(rows) \/ (Len(all) > n /\ \A i \in 1..k : <<rows[i], x>> \in order)
  <2>1. PICK i \in 1..Len(all) : all[i] = x
    BY <1>2
  <2>2. CASE i <= k
    <3>1. i \in DOMAIN rows /\ rows[i] = x
      BY <1>2, <1>3, <1>6, <1>7, <2>1, <2>2
    <3> QED  BY <3>1 DEF ToSet
  <2>3. CASE k < i
    <3>1. Len(all) > n
      BY <1>2, <1>3, <2>3
    <3>2. ASSUME NEW j \in 1..k  PROVE <<rows[j], x>> \in order
      <4>1. j \in 1..Len(all) /\ j < i
        BY <1>2, <1>3, <2>3
      <4>2. <<all[j], all[i]>> \in order
        BY <1>2, <4>1
      <4> QED  BY <1>6, <2>1, <4>2, Zenon
    <3> QED  BY <3>1, <3>2
  <2>4. k \in Int /\ i \in Int
    BY <1>2
  <2> QED  BY <2>2, <2>3, <2>4
<1>9. ASSUME NEW i \in 1..k, NEW j \in 1..k, i < j
      PROVE  <<rows[i], rows[j]>> \in order
  <2>1. i \in 1..Len(all) /\ j \in 1..Len(all)
    BY <1>2, <1>3
  <2>2. <<all[i], all[j]>> \in order
    BY <1>2, <1>9, <2>1
  <2> QED  BY <1>6, <2>2, Zenon
<1>10. Len(all) > n => k = n
  BY <1>2, <1>3
<1> QED  BY <1>1, <1>2, <1>3, <1>6, <1>7, <1>8, <1>9, <1>10, Zenon

-----------------------------------------------------------------------------
(* The export: what is inductive                                           *)

ExportsSpec == ExportsInit /\ [][ExportsNext]_exports

\* The lines of a range that is over
PastLines == Movements \X Past
BeforeAll == <<0, 0>>

LedgerOK ==
    /\ ledger \in [Movements -> {Nothing} \cup [kind : Sources \cup {"FAILED"}, at : Past \cup {Today}]]
    /\ \A m \in lasting : m \in Movements /\ ledger[m].kind \in Sources /\ ledger[m].at \in Past

\* A generator's rows come after its cursor, in order
Ascending(rows, c) ==
    /\ \A i \in 1..Len(rows) : Later(rows[i], c)
    /\ \A i, j \in 1..Len(rows) : i < j => Later(rows[j], rows[i])

PagerOK(s) ==
    /\ pager[s] = [cursor |-> pager[s].cursor, rows |-> pager[s].rows, full |-> pager[s].full]
    /\ pager[s].cursor \in PastLines \cup {BeforeAll}
    /\ pager[s].rows \in Seq(PastLines) /\ pager[s].full \in BOOLEAN
    /\ Ascending(pager[s].rows, pager[s].cursor)
    /\ head[s] \in {Unread, Done} \/ (head[s] \in PastLines /\ head[s] = pager[s].cursor)

PagersOK ==
    /\ pager \in [Sources -> {pager[s] : s \in Sources}] /\ DOMAIN head = Sources
    /\ \A s \in Sources : PagerOK(s)

\* A line was a movement of its source; only a refund that was pending changes, and then it
\* leaves the range
Belongs(l, s) ==
    \/ ledger[l[1]].kind = s /\ ledger[l[1]].at = l[2]
    \/ s = "PENDING" /\ ledger[l[1]].kind \in {"SETTLED", "FAILED"} /\ ledger[l[1]].at = Today

Taken(s) == ({pager[s].cursor} \ {BeforeAll}) \cup ToSet(pager[s].rows)
Seen == ToSet(exported) \cup UNION {Taken(s) : s \in Sources}

SeenOnce ==
    /\ \A s \in Sources : \A l \in Taken(s) : Belongs(l, s)
    /\ \A l \in ToSet(exported) : \E s \in Sources : Belongs(l, s)
    /\ \A k, l \in Seen : k[1] = l[1] => k = l

\* The file ends before whatever is to come
FileOK ==
    /\ exported \in Seq(PastLines)
    /\ \A i, j \in 1..Len(exported) : i < j => Later(exported[j], exported[i])
    /\ \A i \in 1..Len(exported) : \A s \in Sources :
          \/ head[s] = Done
          \/ head[s] = Unread /\ exported[i] = pager[s].cursor
          \/ Later(pager[s].cursor, exported[i])

\* What was there from the beginning is in the file, in hand, on the page, or on a later one
OnItsPage(l, s) ==
    \/ l \in ToSet(exported)
    \/ /\ head[s] # Done
       /\ \/ head[s] = l
          \/ l \in ToSet(pager[s].rows)
          \/ /\ pager[s].full
             /\ Later(l, pager[s].cursor)
             /\ \A i \in 1..Len(pager[s].rows) : Later(l, pager[s].rows[i])

NoneMissing == \A m \in lasting : OnItsPage(<<m, ledger[m].at>>, ledger[m].kind)

LedgerInv == LedgerOK /\ PagersOK /\ SeenOnce /\ FileOK /\ NoneMissing

-----------------------------------------------------------------------------
(* The order of time                                                       *)

LEMMA TimeOrders ==
    /\ \A e \in Nat \X Nat : ~Later(e, e)
    /\ \A d, e, f \in Nat \X Nat : Later(e, d) /\ Later(f, e) => Later(f, d)
    /\ \A d, e \in Nat \X Nat : d = e \/ Later(e, d) \/ Later(d, e)
  BY DEF Later

LEMMA Numbered ==
    /\ PastLines \subseteq Nat \X Nat /\ BeforeAll \in Nat \X Nat /\ Lines \subseteq Nat \X Nat
    /\ PastLines \subseteq Lines
    /\ Today \notin Past
    /\ BeforeAll \notin PastLines
    /\ \A l \in PastLines : Later(l, BeforeAll) /\ l # Unread /\ l # Done
    /\ Unread # Done
<1>1. /\ PastLines \subseteq Nat \X Nat /\ BeforeAll \in Nat \X Nat /\ Lines \subseteq Nat \X Nat
      /\ PastLines \subseteq Lines
  BY ExportsAssumption DEF PastLines, BeforeAll, Lines
<1>2. Today \notin Past
  BY ExportsAssumption
<1>3. BeforeAll \notin PastLines
  BY ExportsAssumption DEF PastLines, BeforeAll
<1>4. Unread # Done
  <2>1. DOMAIN Unread = {} /\ 1 \in DOMAIN Done
    BY DEF Unread, Done
  <2> QED  BY <2>1
<1>5. ASSUME NEW l \in PastLines
      PROVE  Later(l, BeforeAll) /\ l # Unread /\ l # Done
  <2>1. PICK m \in Movements, t \in Past : l = <<m, t>>
    BY DEF PastLines
  <2>2. Later(l, BeforeAll)
    BY <2>1, ExportsAssumption DEF Later, BeforeAll
  <2>3. 2 \in DOMAIN l /\ 2 \notin DOMAIN Unread /\ 2 \notin DOMAIN Done
    <3>1. 2 \in DOMAIN l
      BY <2>1
    <3>2. DOMAIN Unread = {}
      BY DEF Unread
    <3>3. DOMAIN Done = 1..1
      BY DEF Done
    <3> QED  BY <3>1, <3>2, <3>3
  <2> QED  BY <2>2, <2>3
<1> QED  BY <1>1, <1>2, <1>3, <1>4, <1>5

LEMMA InTimeOrders ==
    ASSUME NEW S \in SUBSET Lines
    PROVE  Orders(InTime, S)
<1>1. S \subseteq Nat \X Nat
  BY Numbered
<1>2. \A x, y \in S : <<x, y>> \in InTime <=> Later(y, x)
  BY DEF InTime
<1> QED  BY <1>1, <1>2, TimeOrders DEF Orders

LEMMA CursorIsPassed ==
    \A d, e : PastCursor(e, d) <=> Later(e, d)
  BY DEF PastCursor, Later

\* The movements of a source in a range that is over
LEMMA WhatASourceHas ==
    ASSUME ~RangeOpen, NEW s \in Sources
    PROVE  EntriesOf(s) = {m \in Movements : ledger[m].kind = s /\ ledger[m].at \in Past}
  BY DEF EntriesOf, CardEntries, ManualEntries, RefundEntries, InRange, Sources

Line(m) == <<m, ledger[m].at>>

\* A movement of the source in the range
From(m, s) == m \in Movements /\ ledger[m].kind = s /\ ledger[m].at \in Past

\* One page of a source after its cursor
LEMMA PageOfSource ==
    ASSUME ~RangeOpen, LedgerOK, NEW s \in Sources, PagerOK(s)
    PROVE  /\ NextPage(s) \in Seq(PastLines) /\ Len(NextPage(s)) \in Nat
           /\ Ascending(NextPage(s), pager[s].cursor)
           /\ \A i \in 1..Len(NextPage(s)) :
                 From(NextPage(s)[i][1], s) /\ NextPage(s)[i] = Line(NextPage(s)[i][1])
           /\ \A m : From(m, s) /\ Later(Line(m), pager[s].cursor) =>
                 \/ Line(m) \in ToSet(NextPage(s))
                 \/ /\ Len(NextPage(s)) = PageSize
                    /\ \A i \in 1..Len(NextPage(s)) : Later(Line(m), NextPage(s)[i])
<1>1. PICK c : c = pager[s].cursor
  OBVIOUS
<1>2. PICK S : S = {e \in {<<m, ledger[m].at>> : m \in EntriesOf(s)} : PastCursor(e, c)}
  OBVIOUS
<1>3. /\ \A e \in S : From(e[1], s) /\ e = Line(e[1]) /\ Later(e, c)
      /\ \A m : From(m, s) /\ Later(Line(m), c) => Line(m) \in S
  BY <1>2, WhatASourceHas, CursorIsPassed DEF From, Line
<1>4. S \in SUBSET PastLines
  BY <1>3 DEF From, Line, PastLines
<1>5. IsFiniteSet(S)
  <2>1. PICK f : f = [e \in S |-> e[1]]
    OBVIOUS
  <2>2. f \in [S -> Movements]
    BY <1>3, <2>1 DEF From
  <2>3. \A d, e \in S : f[d] = f[e] => d = e
    BY <1>3, <2>1
  <2>4. f \in Injection(S, Movements)
    BY <2>2, <2>3 DEF Injection, IsInjective
  <2> QED  BY <2>4, ExportsAssumption, FS_Injection
<1>6. PICK first : first = FirstOf(S, InTime, PageSize)
  OBVIOUS
<1>7. NextPage(s) = first
  BY <1>1, <1>2, <1>6, Zenon DEF NextPage, FirstOf
<1>8. Orders(InTime, S) /\ PageSize \in Nat
  BY <1>4, Numbered, InTimeOrders, ExportsAssumption
<1>9. /\ first \in Seq(S) /\ Len(first) \in Nat /\ DOMAIN first = 1..Len(first)
      /\ \A i, j \in 1..Len(first) : i < j => <<first[i], first[j]>> \in InTime
      /\ \A l \in S : \/ l \in ToSet(first)
                      \/ Len(first) = PageSize /\ \A i \in 1..Len(first) : <<first[i], l>> \in InTime
  BY <1>5, <1>6, <1>8, FirstRows
<1>10. /\ first \in Seq(PastLines)
       /\ \A i \in 1..Len(first) : first[i] \in S
       /\ \A i, j \in 1..Len(first) : i < j => Later(first[j], first[i])
       /\ \A l \in S : \/ l \in ToSet(first)
                       \/ Len(first) = PageSize /\ \A i \in 1..Len(first) : Later(l, first[i])
  <2>1. \A d, e : <<d, e>> \in InTime => Later(e, d)
    BY DEF InTime
  <2>2. first \in Seq(PastLines)
    BY <1>4, <1>9, SeqMonotonic
  <2>3. \A i \in 1..Len(first) : first[i] \in S
    BY <1>9, ElementOfSeq
  <2> QED  BY <1>9, <2>1, <2>2, <2>3
<1> HIDE DEF From, Line
<1>11. Ascending(first, c)
  BY <1>3, <1>10 DEF Ascending
<1>12. \A i \in 1..Len(first) : From(first[i][1], s) /\ first[i] = Line(first[i][1])
  BY <1>3, <1>10
<1>13. \A m : From(m, s) /\ Later(Line(m), c) =>
                 \/ Line(m) \in ToSet(first)
                 \/ Len(first) = PageSize /\ \A i \in 1..Len(first) : Later(Line(m), first[i])
  BY <1>3, <1>10
<1> QED  BY <1>1, <1>7, <1>9, <1>10, <1>11, <1>12, <1>13, Zenon

-----------------------------------------------------------------------------
(* The generators                                                          *)

\* What a generator yields from: the rest of its page, or the next one
Upcoming(s) ==
    IF pager[s].rows # <<>> THEN pager[s].rows ELSE IF pager[s].full THEN NextPage(s) ELSE <<>>
FullAfter(s) ==
    IF pager[s].rows # <<>> THEN pager[s].full ELSE Len(Upcoming(s)) = PageSize

LEMMA AdvanceIs ==
    ASSUME NEW s \in Sources, Advance(s)
    PROVE  /\ head[s] = Unread
           /\ UNCHANGED <<ledger, lasting, exported, moves>>
           /\ \/ /\ Upcoming(s) # <<>>
                 /\ pager' = [pager EXCEPT ![s].rows = Tail(Upcoming(s)),
                                           ![s].cursor = Head(Upcoming(s)),
                                           ![s].full = FullAfter(s)]
                 /\ head' = [head EXCEPT ![s] = Head(Upcoming(s))]
              \/ Upcoming(s) = <<>> /\ head' = [head EXCEPT ![s] = Done] /\ UNCHANGED pager
<1>1. PICK rows : rows = Upcoming(s)
  OBVIOUS
<1>2. /\ head[s] = Unread
      /\ IF rows # <<>> THEN Yield(s, rows)
         ELSE head' = [head EXCEPT ![s] = Done] /\ UNCHANGED pager
      /\ UNCHANGED <<ledger, lasting, exported, moves>>
  BY <1>1 DEF Advance, Upcoming
<1>3. CASE rows # <<>>
  <2>1. Yield(s, rows)
    BY <1>2, <1>3
  <2>2. pager' = [pager EXCEPT ![s].rows = Tail(rows), ![s].cursor = Head(rows),
                               ![s].full = FullAfter(s)]
    BY <1>1, <2>1 DEF Yield, FullAfter
  <2>3. head' = [head EXCEPT ![s] = Head(rows)]
    BY <2>1 DEF Yield
  <2> QED  BY <1>1, <1>2, <1>3, <2>2, <2>3, Zenon
<1>4. CASE rows = <<>>
  BY <1>1, <1>2, <1>4, Zenon
<1> QED  BY <1>3, <1>4

\* A line that belongs to a source belongs to no other
LEMMA OneSource ==
    ASSUME NEW l \in PastLines, NEW s \in Sources, NEW t \in Sources, Belongs(l, s), Belongs(l, t)
    PROVE  s = t
<1>1. l[2] \in Past
  BY DEF PastLines
<1> QED  BY <1>1, Numbered DEF Belongs

\* A line just read is of the movement as it is, and so is every line seen of it
LEMMA FreshIsKnown ==
    ASSUME LedgerOK, SeenOnce, NEW s \in Sources, NEW m, From(m, s),
           NEW l \in Seen, l \in PastLines, l[1] = m
    PROVE  l = Line(m)
<1>1. PICK t \in Sources : Belongs(l, t)
  BY DEF SeenOnce, Seen
<1>2. l[2] = ledger[m].at
  BY <1>1, Numbered DEF Belongs, From
<1> QED  BY <1>2 DEF Line, PastLines

LEMMA SeenArePast ==
    ASSUME PagersOK, FileOK
    PROVE  /\ Seen \subseteq PastLines
           /\ \A s \in Sources : Taken(s) \subseteq PastLines
<1>1. ASSUME NEW s \in Sources  PROVE Taken(s) \subseteq PastLines
  <2>1. pager[s].rows \in Seq(PastLines) /\ pager[s].cursor \in PastLines \cup {BeforeAll}
    BY DEF PagersOK, PagerOK
  <2>2. ToSet(pager[s].rows) \subseteq PastLines
    BY <2>1, LenProperties DEF ToSet
  <2> QED  BY <2>1, <2>2 DEF Taken
<1>2. ToSet(exported) \subseteq PastLines
  BY LenProperties DEF FileOK, ToSet
<1> QED  BY <1>1, <1>2 DEF Seen

\* What a generator that was asked has to give
LEMMA UpcomingIs ==
    ASSUME ~RangeOpen, LedgerInv, NEW s \in Sources, head[s] = Unread,
           NEW rows, rows = Upcoming(s)
    PROVE  /\ rows \in Seq(PastLines) /\ Len(rows) \in Nat /\ DOMAIN rows = 1..Len(rows)
           /\ Ascending(rows, pager[s].cursor)
           /\ FullAfter(s) \in BOOLEAN
           /\ \A l \in ToSet(rows) : Belongs(l, s)
           /\ \A k \in ToSet(rows), l \in Seen \cup ToSet(rows) : k[1] = l[1] => k = l
           /\ \A m \in lasting : ledger[m].kind = s =>
                 \/ Line(m) \in ToSet(exported) \/ Line(m) \in ToSet(rows)
                 \/ /\ rows # <<>> /\ FullAfter(s)
                    /\ \A i \in 1..Len(rows) : Later(Line(m), rows[i])
<1>1. PagerOK(s) /\ LedgerOK /\ SeenOnce
  BY DEF LedgerInv, PagersOK
<1>2. ASSUME NEW m \in lasting, ledger[m].kind = s
      PROVE  From(m, s) /\ OnItsPage(Line(m), s)
  BY <1>2 DEF LedgerInv, LedgerOK, NoneMissing, From, Line
<1>3. Unread # Done /\ \A l \in PastLines : l # Unread
  BY Numbered
<1>4. CASE pager[s].rows # <<>>
  <2>1. rows = pager[s].rows /\ FullAfter(s) = pager[s].full
    BY <1>4 DEF Upcoming, FullAfter
  <2>2. /\ rows \in Seq(PastLines) /\ Len(rows) \in Nat /\ DOMAIN rows = 1..Len(rows)
        /\ Ascending(rows, pager[s].cursor)
    BY <1>1, <2>1, LenProperties DEF PagerOK
  <2>3. ToSet(rows) \subseteq Taken(s) /\ ToSet(rows) \subseteq Seen
    BY <2>1 DEF Taken, Seen
  <2>4. \A l \in ToSet(rows) : Belongs(l, s)
    BY <1>1, <2>3 DEF SeenOnce
  <2>5. \A k \in ToSet(rows), l \in Seen \cup ToSet(rows) : k[1] = l[1] => k = l
    BY <1>1, <2>3 DEF SeenOnce
  <2>6. ASSUME NEW m \in lasting, ledger[m].kind = s
        PROVE  \/ Line(m) \in ToSet(exported) \/ Line(m) \in ToSet(rows)
               \/ FullAfter(s) /\ \A i \in 1..Len(rows) : Later(Line(m), rows[i])
    <3>1. From(m, s) /\ OnItsPage(Line(m), s)
      BY <1>2, <2>6
    <3>2. Line(m) # head[s]
      BY <1>3, <3>1 DEF From, Line, PastLines
    <3> QED  BY <2>1, <3>1, <3>2 DEF OnItsPage
  <2>7. FullAfter(s) \in BOOLEAN
    BY <1>1, <2>1 DEF PagerOK
  <2> QED  BY <1>4, <2>1, <2>2, <2>4, <2>5, <2>6, <2>7
<1>5. CASE pager[s].rows = <<>> /\ pager[s].full
  <2>1. rows = NextPage(s) /\ FullAfter(s) = (Len(rows) = PageSize)
    BY <1>5, Zenon DEF Upcoming, FullAfter
  <2>2. /\ rows \in Seq(PastLines) /\ Len(rows) \in Nat
        /\ Ascending(rows, pager[s].cursor)
        /\ \A i \in 1..Len(rows) : From(rows[i][1], s) /\ rows[i] = Line(rows[i][1])
        /\ \A m : From(m, s) /\ Later(Line(m), pager[s].cursor) =>
                 \/ Line(m) \in ToSet(rows)
                 \/ Len(rows) = PageSize /\ \A i \in 1..Len(rows) : Later(Line(m), rows[i])
    BY <1>1, <2>1, PageOfSource, Zenon
  <2>3. DOMAIN rows = 1..Len(rows)
    BY <2>2, LenProperties
  <2>4. \A l \in ToSet(rows) : From(l[1], s) /\ l = Line(l[1])
    BY <2>2, <2>3, Zenon DEF ToSet
  <2>5. \A l \in ToSet(rows) : Belongs(l, s)
    BY <2>4 DEF Belongs, From, Line
  <2>6. ASSUME NEW k \in ToSet(rows), NEW l \in Seen \cup ToSet(rows), k[1] = l[1]
        PROVE  k = l
    <3>1. CASE l \in Seen
      <4>1. l \in PastLines
        BY <3>1, SeenArePast DEF LedgerInv
      <4>2. l = Line(k[1])
        BY <1>1, <2>4, <2>6, <3>1, <4>1, FreshIsKnown
      <4> QED  BY <2>4, <4>2
    <3>2. CASE l \in ToSet(rows)
      BY <2>4, <2>6, <3>2
    <3> QED  BY <3>1, <3>2
  <2>7. ASSUME NEW m \in lasting, ledger[m].kind = s
        PROVE  \/ Line(m) \in ToSet(exported) \/ Line(m) \in ToSet(rows)
               \/ /\ rows # <<>> /\ FullAfter(s)
                  /\ \A i \in 1..Len(rows) : Later(Line(m), rows[i])
    <3>1. From(m, s) /\ OnItsPage(Line(m), s)
      BY <1>2, <2>7
    <3>2. Line(m) # head[s]
      BY <1>3, <3>1 DEF From, Line, PastLines
    <3>3. ToSet(pager[s].rows) = {}
      BY <1>5 DEF ToSet
    <3>4. Line(m) \in ToSet(exported) \/ Later(Line(m), pager[s].cursor)
      BY <3>1, <3>2, <3>3 DEF OnItsPage
    <3>5. ASSUME Len(rows) = PageSize  PROVE rows # <<>>
      BY <3>5, ExportsAssumption
    <3> QED  BY <2>1, <2>2, <3>1, <3>4, <3>5
  <2>8. FullAfter(s) \in BOOLEAN
    BY <2>1
  <2> QED  BY <2>2, <2>3, <2>5, <2>6, <2>7, <2>8
<1>6. CASE pager[s].rows = <<>> /\ ~pager[s].full
  <2>1. rows = <<>> /\ FullAfter(s) = (Len(rows) = PageSize)
    BY <1>6, Zenon DEF Upcoming, FullAfter
  <2>2. /\ rows \in Seq(PastLines) /\ Len(rows) = 0 /\ DOMAIN rows = 1..0 /\ ToSet(rows) = {}
    BY <2>1 DEF ToSet
  <2>3. ASSUME NEW m \in lasting, ledger[m].kind = s
        PROVE  Line(m) \in ToSet(exported)
    <3>1. From(m, s) /\ OnItsPage(Line(m), s)
      BY <1>2, <2>3
    <3>2. Line(m) # head[s]
      BY <1>3, <3>1 DEF From, Line, PastLines
    <3>3. ToSet(pager[s].rows) = {}
      BY <1>6 DEF ToSet
    <3> QED  BY <1>6, <3>1, <3>2, <3>3 DEF OnItsPage
  <2>4. Ascending(rows, pager[s].cursor)
    BY <2>2 DEF Ascending
  <2> QED  BY <2>1, <2>2, <2>3, <2>4
<1> QED  BY <1>4, <1>5, <1>6

\* A queue is its head and the rest
LEMMA HeadAndRest ==
    ASSUME NEW S, NEW q \in Seq(S), q # <<>>, NEW h, h = Head(q), NEW rest, rest = Tail(q)
    PROVE  /\ h \in S /\ rest \in Seq(S)
           /\ Len(rest) \in Nat /\ Len(q) = Len(rest) + 1 /\ DOMAIN rest = 1..Len(rest)
           /\ h = q[1] /\ 1 \in 1..Len(q)
           /\ \A i \in 1..Len(rest) : i + 1 \in 1..Len(q) /\ rest[i] = q[i + 1]
<1>1. Len(q) \in Nat \ {0} /\ DOMAIN q = 1..Len(q)
  BY EmptySeq, LenProperties
<1>2. /\ h \in S /\ rest \in Seq(S) /\ Len(rest) = Len(q) - 1
      /\ \A i \in 1..Len(rest) : rest[i] = q[i + 1]
  BY HeadTailProperties
<1>3. h = q[1]
  OBVIOUS
<1>4. Len(rest) \in Nat /\ DOMAIN rest = 1..Len(rest) /\ Len(q) = Len(rest) + 1
  BY <1>1, <1>2, LenProperties
<1>5. \A i \in 1..Len(rest) : i + 1 \in 1..Len(q)
  BY <1>4
<1> QED  BY <1>1, <1>2, <1>3, <1>4, <1>5

LEMMA SetOfQueue ==
    ASSUME NEW q, NEW h, NEW rest, DOMAIN q = 1..Len(q), DOMAIN rest = 1..Len(rest),
           Len(rest) \in Nat, Len(q) = Len(rest) + 1, h = q[1],
           \A i \in 1..Len(rest) : i + 1 \in 1..Len(q) /\ rest[i] = q[i + 1]
    PROVE  ToSet(q) = {h} \cup ToSet(rest)
<1>1. ASSUME NEW i \in 1..Len(q)
      PROVE  q[i] = h \/ \E j \in 1..Len(rest) : q[i] = rest[j]
  <2>1. CASE i = 1
    BY <2>1
  <2>2. CASE i # 1
    <3>1. PICK j : j = i - 1
      OBVIOUS
    <3>2. j \in 1..Len(rest) /\ j + 1 = i
      BY <2>2, <3>1
    <3> QED  BY <3>2
  <2> QED  BY <2>1, <2>2
<1>2. ToSet(q) \subseteq {h} \cup ToSet(rest)
  BY <1>1 DEF ToSet
<1>3. h \in ToSet(q)
  BY DEF ToSet
<1>4. ToSet(rest) \subseteq ToSet(q)
  BY DEF ToSet
<1> QED  BY <1>2, <1>3, <1>4

\* A generator yields: its first row goes to the merge
LEMMA YieldStep ==
    ASSUME ~RangeOpen, LedgerInv, NEW s \in Sources, head[s] = Unread,
           NEW rows, rows = Upcoming(s), rows # <<>>,
           UNCHANGED <<ledger, lasting, exported, moves>>,
           pager' = [pager EXCEPT ![s].rows = Tail(rows), ![s].cursor = Head(rows),
                                  ![s].full = FullAfter(s)],
           head' = [head EXCEPT ![s] = Head(rows)]
    PROVE  LedgerInv'
<1>1. LedgerOK /\ PagersOK /\ SeenOnce /\ FileOK /\ NoneMissing
  BY DEF LedgerInv
<1>2. /\ rows \in Seq(PastLines) /\ Len(rows) \in Nat /\ DOMAIN rows = 1..Len(rows)
      /\ Ascending(rows, pager[s].cursor)
      /\ FullAfter(s) \in BOOLEAN
      /\ \A l \in ToSet(rows) : Belongs(l, s)
      /\ \A k \in ToSet(rows), l \in Seen \cup ToSet(rows) : k[1] = l[1] => k = l
      /\ \A m \in lasting : ledger[m].kind = s =>
            \/ Line(m) \in ToSet(exported) \/ Line(m) \in ToSet(rows)
            \/ /\ rows # <<>> /\ FullAfter(s)
               /\ \A i \in 1..Len(rows) : Later(Line(m), rows[i])
  BY UpcomingIs
<1>3. PICK h, rest, full : h = Head(rows) /\ rest = Tail(rows) /\ full = FullAfter(s)
  OBVIOUS
<1>4. /\ h \in PastLines /\ rest \in Seq(PastLines)
      /\ h = rows[1] /\ 1 \in 1..Len(rows)
      /\ \A i \in 1..Len(rest) : i + 1 \in 1..Len(rows) /\ rest[i] = rows[i + 1]
      /\ Len(rest) \in Nat
  BY <1>2, <1>3, HeadAndRest
<1>5. ToSet(rows) = {h} \cup ToSet(rest)
  <2>1. Len(rows) = Len(rest) + 1 /\ DOMAIN rest = 1..Len(rest)
    BY <1>2, <1>3, HeadAndRest
  <2>2. DOMAIN rows = 1..Len(rows) /\ Len(rest) \in Nat /\ h = rows[1]
    BY <1>2, <1>4
  <2>3. \A i \in 1..Len(rest) : i + 1 \in 1..Len(rows) /\ rest[i] = rows[i + 1]
    BY <1>4
  <2> QED  BY ONLY <2>1, <2>2, <2>3, SetOfQueue
<1>6. /\ pager'[s] = [cursor |-> h, rows |-> rest, full |-> full]
      /\ head'[s] = h
      /\ \A t \in Sources \ {s} : pager'[t] = pager[t] /\ head'[t] = head[t]
      /\ pager' \in [Sources -> {pager'[t] : t \in Sources}] /\ DOMAIN head' = Sources
  <2>1. pager' = [pager EXCEPT ![s].rows = rest, ![s].cursor = h, ![s].full = full]
    BY <1>3, Zenon
  <2>2. /\ pager[s] = [cursor |-> pager[s].cursor, rows |-> pager[s].rows, full |-> pager[s].full]
        /\ DOMAIN pager = Sources /\ DOMAIN head = Sources
    BY <1>1 DEF PagersOK, PagerOK
  <2>3. PICK c, q, f : pager[s] = [cursor |-> c, rows |-> q, full |-> f]
    BY <2>2, Zenon
  <2>4. pager'[s] = [cursor |-> h, rows |-> rest, full |-> full]
    BY <2>1, <2>2, <2>3
  <2>5. \A t \in Sources \ {s} : pager'[t] = pager[t]
    BY <2>1, <2>2
  <2>6. DOMAIN pager' = Sources /\ pager' = [t \in Sources |-> pager'[t]]
    BY <2>1, <2>2
  <2>7. pager' \in [Sources -> {pager'[t] : t \in Sources}]
    BY <2>6
  <2>8. head'[s] = h /\ DOMAIN head' = Sources /\ \A t \in Sources \ {s} : head'[t] = head[t]
    BY <1>3, <2>2
  <2> QED  BY <2>4, <2>5, <2>7, <2>8
<1>7. /\ pager'[s].cursor = h /\ pager'[s].rows = rest /\ pager'[s].full = full
      /\ \A m : Line(m)' = Line(m)
  <2>1. PICK p : p = pager'[s]
    OBVIOUS
  <2>2. p = [cursor |-> h, rows |-> rest, full |-> full]
    BY <1>6, <2>1
  <2>3. p.cursor = h /\ p.rows = rest /\ p.full = full
    BY <2>2
  <2>4. \A m : Line(m)' = Line(m)
    BY DEF Line
  <2> QED  BY <2>1, <2>3, <2>4
<1>8. PICK c : c = pager[s].cursor /\ c \in PastLines \cup {BeforeAll}
  BY <1>1 DEF PagersOK, PagerOK
<1>9. Later(h, c)
  BY <1>2, <1>4, <1>8 DEF Ascending
<1>10. LedgerOK'
  BY <1>1 DEF LedgerOK
<1>11. PagersOK'
  <2>1. PagerOK(s)'
    <3>1. ASSUME NEW i \in 1..Len(rest)  PROVE Later(rest[i], h)
      <4>1. 1 < i + 1
        OBVIOUS
      <4> QED  BY <1>2, <1>4, <4>1 DEF Ascending
    <3>2. ASSUME NEW i \in 1..Len(rest), NEW j \in 1..Len(rest), i < j
          PROVE  Later(rest[j], rest[i])
      <4>1. i + 1 < j + 1
        BY <3>2
      <4> QED  BY <1>2, <1>4, <4>1 DEF Ascending
    <3>3. Ascending(rest, h)
      BY <3>1, <3>2 DEF Ascending
    <3> QED  BY <1>2, <1>3, <1>4, <1>6, <3>3 DEF PagerOK
  <2>2. \A t \in Sources \ {s} : PagerOK(t)'
    BY <1>1, <1>6 DEF PagersOK, PagerOK
  <2> QED  BY <1>6, <2>1, <2>2 DEF PagersOK
<1>12. SeenOnce'
  <2>1. Taken(s)' \subseteq ToSet(rows)
    BY <1>5, <1>7 DEF Taken
  <2>2. \A t \in Sources \ {s} : Taken(t)' = Taken(t)
    BY <1>6 DEF Taken
  <2>3. Seen' \subseteq Seen \cup ToSet(rows)
    BY <2>1, <2>2 DEF Seen
  <2>4. \A l : \A t \in Sources : Belongs(l, t)' <=> Belongs(l, t)
    BY DEF Belongs
  <2>5. \A t \in Sources : \A l \in Taken(t)' : Belongs(l, t)'
    BY <1>1, <1>2, <2>1, <2>2, <2>4 DEF SeenOnce
  <2>6. \A l \in ToSet(exported)' : \E t \in Sources : Belongs(l, t)'
    BY <1>1, <2>4 DEF SeenOnce
  <2>7. \A k, l \in Seen' : k[1] = l[1] => k = l
    BY <1>1, <1>2, <2>3 DEF SeenOnce
  <2> QED  BY <2>5, <2>6, <2>7 DEF SeenOnce
<1>13. FileOK'
  <2>1. ASSUME NEW i \in 1..Len(exported)  PROVE Later(h, exported[i])
    <3>1. exported[i] = c \/ Later(c, exported[i])
      BY <1>1, <1>8, Numbered DEF FileOK
    <3>2. exported[i] \in Nat \X Nat /\ c \in Nat \X Nat /\ h \in Nat \X Nat
      <4>1. exported[i] \in PastLines
        BY <1>1, ElementOfSeq DEF FileOK
      <4> QED  BY <1>4, <1>8, <4>1, Numbered
    <3> QED  BY <1>9, <3>1, <3>2, TimeOrders
  <2> QED  BY <1>1, <1>6, <2>1 DEF FileOK
<1>14. NoneMissing'
  <2>1. ASSUME NEW m \in lasting, ledger[m].kind = s  PROVE OnItsPage(Line(m), s)'
    <3>1. h # Done
      BY <1>4, Numbered
    <3>2. CASE Line(m) \in ToSet(exported)
      BY <1>7, <3>2 DEF OnItsPage
    <3>3. CASE Line(m) \in ToSet(rows)
      BY <1>5, <1>6, <1>7, <3>1, <3>3 DEF OnItsPage
    <3>4. CASE FullAfter(s) /\ \A i \in 1..Len(rows) : Later(Line(m), rows[i])
      <4>1. Later(Line(m), h) /\ \A i \in 1..Len(rest) : Later(Line(m), rest[i])
        BY <1>4, <3>4
      <4> QED  BY <1>3, <1>6, <1>7, <3>1, <3>4, <4>1 DEF OnItsPage
    <3> QED  BY <1>2, <2>1, <3>2, <3>3, <3>4
  <2>2. ASSUME NEW m \in lasting, ledger[m].kind # s  PROVE OnItsPage(Line(m), ledger[m].kind)'
    BY <1>1, <1>6, <2>2 DEF LedgerOK, NoneMissing, OnItsPage, Line
  <2> QED  BY <2>1, <2>2 DEF NoneMissing, Line
<1> QED  BY <1>10, <1>11, <1>12, <1>13, <1>14 DEF LedgerInv

\* A generator ends: nothing of its source is left
LEMMA EndStep ==
    ASSUME ~RangeOpen, LedgerInv, NEW s \in Sources, head[s] = Unread, Upcoming(s) = <<>>,
           UNCHANGED <<ledger, lasting, exported, moves, pager>>, head' = [head EXCEPT ![s] = Done]
    PROVE  LedgerInv'
<1>1. LedgerOK /\ PagersOK /\ SeenOnce /\ FileOK /\ NoneMissing
  BY DEF LedgerInv
<1>2. \A m \in lasting : ledger[m].kind = s => Line(m) \in ToSet(exported)
  <2>1. PICK rows : rows = Upcoming(s)
    OBVIOUS
  <2>2. ToSet(rows) = {}
    BY <2>1 DEF ToSet
  <2> QED  BY <2>1, <2>2, UpcomingIs
<1>3. head'[s] = Done /\ DOMAIN head' = Sources /\ \A t \in Sources \ {s} : head'[t] = head[t]
  BY <1>1 DEF PagersOK
<1>4. LedgerOK'
  BY <1>1 DEF LedgerOK
<1>5. PagersOK'
  <2>1. \A t \in Sources : PagerOK(t)'
    BY <1>1, <1>3 DEF PagersOK, PagerOK
  <2> QED  BY <1>1, <1>3, <2>1 DEF PagersOK
<1>6. SeenOnce'
  BY <1>1 DEF SeenOnce, Seen, Taken, Belongs
<1>7. FileOK'
  BY <1>1, <1>3 DEF FileOK
<1>8. NoneMissing'
  BY <1>1, <1>2, <1>3 DEF NoneMissing, OnItsPage, Line, LedgerOK
<1> QED  BY <1>4, <1>5, <1>6, <1>7, <1>8 DEF LedgerInv

\* The merge takes the earliest of what the sources hold
LEMMA MergeStep ==
    ASSUME LedgerInv, NEW s \in Sources, Merge(s)
    PROVE  LedgerInv'
<1>1. LedgerOK /\ PagersOK /\ SeenOnce /\ FileOK /\ NoneMissing
  BY DEF LedgerInv
<1>2. PICK l : l = head[s]
  OBVIOUS
<1>3. /\ \A t \in Sources : head[t] # Unread
      /\ l # Done /\ Earliest(l)
      /\ exported' = Append(exported, l)
      /\ head' = [head EXCEPT ![s] = Unread]
      /\ UNCHANGED <<ledger, lasting, pager, moves>>
  BY <1>2 DEF Merge
<1>4. l \in PastLines /\ l = pager[s].cursor /\ l \in Taken(s) /\ Unread # Done
  <2>1. l \in PastLines /\ l = pager[s].cursor
    BY <1>1, <1>2, <1>3 DEF PagersOK, PagerOK
  <2> QED  BY <2>1, Numbered DEF Taken
<1>5. PICK n \in Nat : n = Len(exported) /\ DOMAIN exported = 1..n
  BY <1>1, LenProperties DEF FileOK
<1>6. /\ exported' \in Seq(PastLines) /\ Len(exported') = n + 1 /\ DOMAIN exported' = 1..(n + 1)
      /\ exported'[n + 1] = l
      /\ \A i \in 1..n : exported'[i] = exported[i]
  <2>1. exported \in Seq(PastLines)
    BY <1>1 DEF FileOK
  <2>2. /\ exported' \in Seq(PastLines) /\ Len(exported') = n + 1
        /\ \A i \in 1..n : exported'[i] = exported[i]
        /\ exported'[n + 1] = l
    BY <1>3, <1>4, <1>5, <2>1, AppendProperties
  <2> QED  BY <2>2, LenProperties
<1>7. ToSet(exported') = ToSet(exported) \cup {l}
  BY <1>5, <1>6 DEF ToSet
<1>8. /\ head'[s] = Unread /\ DOMAIN head' = Sources
      /\ \A t \in Sources \ {s} : head'[t] = head[t]
  BY <1>1, <1>3 DEF PagersOK
<1>9. LedgerOK'
  BY <1>1, <1>3 DEF LedgerOK
<1>10. PagersOK'
  <2>1. \A t \in Sources : PagerOK(t)'
    BY <1>1, <1>3, <1>8 DEF PagersOK, PagerOK
  <2> QED  BY <1>1, <1>3, <1>8, <2>1 DEF PagersOK
<1>11. SeenOnce'
  <2>1. \A t \in Sources : Taken(t)' = Taken(t)
    BY <1>3 DEF Taken
  <2>2. Seen' = Seen
    BY <1>4, <1>7, <2>1 DEF Seen
  <2>3. \A k : \A t \in Sources : Belongs(k, t)' <=> Belongs(k, t)
    BY <1>3 DEF Belongs
  <2>4. \A t \in Sources : \A k \in Taken(t)' : Belongs(k, t)'
    BY <1>1, <2>1, <2>3 DEF SeenOnce
  <2>5. ASSUME NEW k \in ToSet(exported')  PROVE \E t \in Sources : Belongs(k, t)'
    BY <1>1, <1>4, <1>7, <2>3 DEF SeenOnce
  <2>6. \A j, k \in Seen' : j[1] = k[1] => j = k
    BY <1>1, <2>2 DEF SeenOnce
  <2> QED  BY <2>4, <2>5, <2>6 DEF SeenOnce
<1>12. \A i \in 1..n : Later(l, exported[i])
  BY <1>1, <1>2, <1>3, <1>4, <1>5 DEF FileOK
<1>13. FileOK'
  <2>1. \A i, j \in 1..(n + 1) : i < j => Later(exported'[j], exported'[i])
    <3>1. ASSUME NEW i \in 1..(n + 1), NEW j \in 1..(n + 1), i < j
          PROVE  Later(exported'[j], exported'[i])
      <4>1. i \in 1..n
        BY <3>1
      <4>2. CASE j = n + 1
        BY <1>6, <1>12, <4>1, <4>2
      <4>3. CASE j # n + 1
        <5>1. j \in 1..n
          BY <4>3
        <5> QED  BY <1>1, <1>5, <1>6, <3>1, <4>1, <5>1 DEF FileOK
      <4> QED  BY <4>2, <4>3
    <3> QED  BY <3>1
  <2>2. ASSUME NEW i \in 1..(n + 1), NEW t \in Sources
        PROVE  \/ head'[t] = Done
               \/ head'[t] = Unread /\ exported'[i] = pager[t].cursor
               \/ Later(pager[t].cursor, exported'[i])
    <3>1. CASE i = n + 1 /\ t = s
      BY <1>4, <1>6, <1>8, <3>1
    <3>2. CASE i = n + 1 /\ t # s
      <4>1. CASE head[t] = Done
        BY <1>8, <3>2, <4>1
      <4>2. CASE head[t] # Done
        <5>1. head[t] \in PastLines /\ head[t] = pager[t].cursor /\ head[t] \in Taken(t)
          <6>1. head[t] \in PastLines /\ head[t] = pager[t].cursor
            BY <1>1, <1>3, <4>2 DEF PagersOK, PagerOK
          <6> QED  BY <6>1, Numbered DEF Taken
        <5>2. head[t] = l \/ Later(head[t], l)
          BY <1>3, <4>2 DEF Earliest, Heads
        <5>3. head[t] # l
          BY <1>1, <1>4, <3>2, <5>1, OneSource DEF SeenOnce
        <5> QED  BY <1>6, <3>2, <5>1, <5>2, <5>3
      <4> QED  BY <4>1, <4>2
    <3>3. CASE i # n + 1
      <4>1. i \in 1..n
        BY <3>3
      <4>2. CASE t = s
        BY <1>4, <1>6, <1>12, <4>1, <4>2
      <4>3. CASE t # s
        BY <1>1, <1>3, <1>5, <1>6, <1>8, <4>1, <4>3 DEF FileOK
      <4> QED  BY <4>2, <4>3
    <3> QED  BY <3>1, <3>2, <3>3
  <2> QED  BY <1>3, <1>6, <2>1, <2>2 DEF FileOK
<1>14. NoneMissing'
  <2>1. ASSUME NEW m \in lasting  PROVE OnItsPage(Line(m), ledger[m].kind)'
    <3>1. OnItsPage(Line(m), ledger[m].kind) /\ Line(m)' = Line(m) /\ ledger[m].kind \in Sources
      BY <1>1, <1>3 DEF NoneMissing, Line, LedgerOK
    <3>2. CASE Line(m) \in ToSet(exported')
      BY <1>3, <3>1, <3>2 DEF OnItsPage
    <3>3. CASE Line(m) \notin ToSet(exported')
      <4>1. Line(m) \notin ToSet(exported) /\ Line(m) # l
        BY <1>7, <3>3
      <4>2. CASE ledger[m].kind = s
        BY <1>2, <1>3, <1>4, <1>8, <3>1, <4>1, <4>2 DEF OnItsPage
      <4>3. CASE ledger[m].kind # s
        BY <1>3, <1>8, <3>1, <4>1, <4>3 DEF OnItsPage
      <4> QED  BY <4>2, <4>3
    <3> QED  BY <3>2, <3>3
  <2> QED  BY <1>3, <2>1 DEF NoneMissing, Line
<1> QED  BY <1>9, <1>10, <1>11, <1>13, <1>14 DEF LedgerInv

\* Money moves: nothing that was seen is changed but to leave the range
LEMMA MoneyMoves ==
    ASSUME LedgerInv, NEW m \in Movements, NEW to, Changed(m, to),
           to \in [kind : Sources \cup {"FAILED"}, at : Past \cup {Today}],
           \/ ledger[m] = Nothing
           \/ ledger[m].kind = "PENDING" /\ to.kind \in {"SETTLED", "FAILED"} /\ to.at = Today
    PROVE  LedgerInv'
<1>1. LedgerOK /\ PagersOK /\ SeenOnce /\ FileOK /\ NoneMissing
  BY DEF LedgerInv
<1>2. /\ ledger' = [ledger EXCEPT ![m] = to] /\ lasting' = lasting \ {m}
      /\ UNCHANGED <<pager, head, exported>>
  BY DEF Changed
<1>3. /\ ledger'[m] = to /\ \A q \in Movements \ {m} : ledger'[q] = ledger[q]
      /\ ledger' \in [Movements -> {Nothing} \cup [kind : Sources \cup {"FAILED"}, at : Past \cup {Today}]]
  BY <1>1, <1>2 DEF LedgerOK
<1>4. LedgerOK'
  BY <1>1, <1>2, <1>3 DEF LedgerOK
<1>5. PagersOK'
  <2>1. \A t \in Sources : PagerOK(t)'
    BY <1>1, <1>2 DEF PagersOK, PagerOK
  <2> QED  BY <1>1, <1>2, <2>1 DEF PagersOK
<1>6. FileOK'
  BY <1>1, <1>2 DEF FileOK
<1>7. SeenOnce'
  <2>1. Seen' = Seen /\ \A t \in Sources : Taken(t)' = Taken(t)
    BY <1>2 DEF Seen, Taken
  <2>2. ASSUME NEW l \in PastLines, NEW t \in Sources, Belongs(l, t)
        PROVE  Belongs(l, t)'
    <3>1. l[1] \in Movements
      BY DEF PastLines
    <3>2. CASE l[1] # m
      BY <1>3, <2>2, <3>1, <3>2 DEF Belongs
    <3>3. CASE l[1] = m
      <4>1. ledger[m] # Nothing
        <5>1. Nothing.kind = "none"
          BY DEF Nothing
        <5> QED  BY <2>2, <3>3, <5>1 DEF Belongs, Sources
      <4>2. ledger[m].kind = "PENDING" /\ t = "PENDING"
        BY <2>2, <3>3, <4>1 DEF Belongs
      <4> QED  BY <1>3, <3>3, <4>1, <4>2 DEF Belongs
    <3> QED  BY <3>2, <3>3
  <2>3. ToSet(exported) \subseteq PastLines /\ \A t \in Sources : Taken(t) \subseteq PastLines
    BY <1>1, SeenArePast DEF Seen
  <2>4. \A t \in Sources : \A l \in Taken(t)' : Belongs(l, t)'
    BY <1>1, <2>1, <2>2, <2>3 DEF SeenOnce
  <2>5. \A l \in ToSet(exported') : \E t \in Sources : Belongs(l, t)'
    BY <1>1, <1>2, <2>2, <2>3 DEF SeenOnce
  <2>6. \A j, k \in Seen' : j[1] = k[1] => j = k
    BY <1>1, <2>1 DEF SeenOnce
  <2> QED  BY <2>4, <2>5, <2>6 DEF SeenOnce
<1>8. NoneMissing'
  <2>1. ASSUME NEW q \in lasting', NEW l, l = <<q, ledger[q].at>>, NEW k, k = ledger[q].kind
        PROVE  l = <<q, ledger'[q].at>> /\ k = ledger'[q].kind /\ OnItsPage(l, k)'
    <3>1. q \in lasting /\ ledger'[q] = ledger[q]
      BY <1>1, <1>2, <1>3, <2>1 DEF LedgerOK
    <3>2. OnItsPage(l, k)
      BY <1>1, <2>1, <3>1 DEF NoneMissing
    <3>3. OnItsPage(l, k)'
      BY <1>2, <3>2 DEF OnItsPage
    <3> QED  BY <2>1, <3>1, <3>3
  <2> QED  BY <2>1 DEF NoneMissing
<1> QED  BY <1>4, <1>5, <1>6, <1>7, <1>8 DEF LedgerInv

LEMMA InitLedgerInv == ExportsInit => LedgerInv
<1> SUFFICES ASSUME ExportsInit  PROVE LedgerInv
  OBVIOUS
<1>1. /\ ledger \in [Movements -> {Nothing} \cup [kind : Sources, at : Past]]
      /\ lasting = {m \in Movements : ledger[m] # Nothing}
      /\ pager = [s \in Sources |-> [cursor |-> BeforeAll, rows |-> <<>>, full |-> TRUE]]
      /\ head = [s \in Sources |-> Unread]
      /\ exported = <<>>
  BY DEF ExportsInit, BeforeAll
<1>2. PICK t : t = TRUE
  OBVIOUS
<1>3. PICK p : p = [cursor |-> BeforeAll, rows |-> <<>>, full |-> t]
  OBVIOUS
<1>4. \A s \in Sources : pager[s] = p /\ head[s] = Unread
  BY <1>1, <1>2, <1>3
<1>5. /\ p = [cursor |-> p.cursor, rows |-> p.rows, full |-> p.full]
      /\ p.cursor = BeforeAll /\ p.rows = <<>> /\ p.full = TRUE
  BY <1>2, <1>3
<1>6. Len(<<>>) = 0 /\ ToSet(<<>>) = {} /\ \A S : <<>> \in Seq(S)
  BY EmptySeq DEF ToSet
<1>7. LedgerOK
  BY <1>1 DEF LedgerOK
<1>8. PagersOK
  <2>1. Ascending(<<>>, BeforeAll)
    BY <1>6 DEF Ascending
  <2>2. p.full \in BOOLEAN
    BY <1>5
  <2>3. \A s \in Sources : PagerOK(s)
    BY <1>4, <1>5, <1>6, <2>1, <2>2, Zenon DEF PagerOK
  <2>4. pager \in [Sources -> {pager[s] : s \in Sources}] /\ DOMAIN head = Sources
    BY <1>1
  <2> QED  BY <2>3, <2>4 DEF PagersOK
<1>9. Seen = {} /\ \A s \in Sources : Taken(s) = {}
  <2>1. \A s \in Sources : Taken(s) = {}
    BY <1>4, <1>5, <1>6 DEF Taken
  <2> QED  BY <1>1, <1>6, <2>1 DEF Seen
<1>10. SeenOnce
  BY <1>1, <1>6, <1>9 DEF SeenOnce
<1>11. FileOK
  BY <1>1, <1>6 DEF FileOK
<1>12. NoneMissing
  <2>1. ASSUME NEW m \in lasting  PROVE OnItsPage(<<m, ledger[m].at>>, ledger[m].kind)
    <3>1. m \in Movements /\ ledger[m] \in [kind : Sources, at : Past]
      BY <1>1, <2>1
    <3>2. <<m, ledger[m].at>> \in PastLines /\ ledger[m].kind \in Sources
      BY <3>1 DEF PastLines
    <3>3. Later(<<m, ledger[m].at>>, BeforeAll) /\ Unread # Done
      BY <3>2, Numbered
    <3> QED  BY <1>4, <1>5, <1>6, <3>2, <3>3 DEF OnItsPage
  <2> QED  BY <2>1 DEF NoneMissing
<1> QED  BY <1>7, <1>8, <1>10, <1>11, <1>12 DEF LedgerInv

LEMMA StepLedgerInv ==
    ASSUME ~RangeOpen, LedgerInv, [ExportsNext]_exports
    PROVE  LedgerInv'
<1>1. ASSUME NEW s \in Sources, Advance(s)  PROVE LedgerInv'
  <2>1. PICK rows : rows = Upcoming(s)
    OBVIOUS
  <2>2. CASE rows # <<>>
    <3>1. /\ head[s] = Unread
          /\ UNCHANGED <<ledger, lasting, exported, moves>>
          /\ pager' = [pager EXCEPT ![s].rows = Tail(rows), ![s].cursor = Head(rows),
                                    ![s].full = FullAfter(s)]
          /\ head' = [head EXCEPT ![s] = Head(rows)]
      BY <1>1, <2>1, <2>2, AdvanceIs, Zenon
    <3> QED  BY <2>1, <2>2, <3>1, YieldStep, Zenon
  <2>3. CASE rows = <<>>
    <3>1. /\ head[s] = Unread
          /\ UNCHANGED <<ledger, lasting, exported, moves, pager>>
          /\ head' = [head EXCEPT ![s] = Done]
      BY <1>1, <2>1, <2>3, AdvanceIs, Zenon
    <3> QED  BY <2>1, <2>3, <3>1, EndStep, Zenon
  <2> QED  BY <2>2, <2>3
<1>2. ASSUME NEW s \in Sources, Merge(s)  PROVE LedgerInv'
  BY <1>2, MergeStep
<1>3. ASSUME NEW m \in Movements, MovesMoney(m)  PROVE LedgerInv'
  <2>1. PICK to \in [kind : Sources, at : Past \cup {Today}] : Changed(m, to)
    BY <1>3 DEF MovesMoney, Sources
  <2>2. ledger[m] = Nothing
    BY <1>3 DEF MovesMoney
  <2> QED  BY <2>1, <2>2, MoneyMoves
<1>4. ASSUME NEW m \in Movements, Settles(m)  PROVE LedgerInv'
  <2>1. PICK kind \in {"SETTLED", "FAILED"} : Changed(m, [kind |-> kind, at |-> Today])
    BY <1>4 DEF Settles
  <2>2. PICK to : to = [kind |-> kind, at |-> Today]
    OBVIOUS
  <2>3. /\ to \in [kind : Sources \cup {"FAILED"}, at : Past \cup {Today}]
        /\ to.kind \in {"SETTLED", "FAILED"} /\ to.at = Today
    BY <2>2 DEF Sources
  <2>4. Changed(m, to) /\ ledger[m].kind = "PENDING"
    BY <1>4, <2>1, <2>2 DEF Settles
  <2> QED  BY <2>3, <2>4, MoneyMoves
<1>5. ASSUME UNCHANGED exports  PROVE LedgerInv'
  BY <1>5 DEF exports, LedgerInv, LedgerOK, PagersOK, PagerOK, SeenOnce, Seen, Taken, Belongs, FileOK,
              NoneMissing, OnItsPage
<1> QED  BY <1>1, <1>2, <1>3, <1>4, <1>5 DEF ExportsNext

\* Of a range that is over the file says every movement once, in the order of time, and
\* leaves none out, for every page size, every number of movements and whatever moves while
\* the file is written (exports.service.ts).
THEOREM FileSaysEverythingOnce == ASSUME ~RangeOpen PROVE ExportsSpec => []LedgerIsWhole
<1>1. LedgerInv => LedgerIsWhole
  <2> SUFFICES ASSUME LedgerInv  PROVE LedgerIsWhole
    OBVIOUS
  <2>1. DOMAIN exported = 1..Len(exported)
    BY LenProperties DEF LedgerInv, FileOK
  <2>2. ASSUME NEW i \in DOMAIN exported, NEW j \in DOMAIN exported, i < j
        PROVE  Later(exported[j], exported[i]) /\ exported[i][1] # exported[j][1]
    <3>1. Later(exported[j], exported[i])
      BY <2>1, <2>2 DEF LedgerInv, FileOK
    <3>2. exported[i] \in PastLines /\ exported[i] \in Seen /\ exported[j] \in Seen
      <4>1. exported[i] \in ToSet(exported) /\ exported[j] \in ToSet(exported)
        BY DEF ToSet
      <4> QED  BY <4>1, SeenArePast DEF LedgerInv, Seen
    <3>3. exported[i] # exported[j]
      BY <3>1, <3>2, Numbered, TimeOrders
    <3> QED  BY <3>1, <3>2, <3>3 DEF LedgerInv, SeenOnce
  <2>3. ASSUME \A s \in Sources : head[s] = Done, NEW m \in lasting
        PROVE  <<m, ledger[m].at>> \in ToSet(exported)
    BY <2>3 DEF LedgerInv, LedgerOK, NoneMissing, OnItsPage
  <2> QED  BY <2>2, <2>3 DEF LedgerIsWhole
<1>2. LedgerInv /\ [ExportsNext]_exports => LedgerInv'
  BY StepLedgerInv
<1> QED  BY <1>1, <1>2, InitLedgerInv, PTL DEF ExportsSpec

-----------------------------------------------------------------------------
(* The lists: what is inductive                                            *)

ListsSpec == ListsInit /\ [][ListsNext]_lists

\* A list in the order of the ids' sort column
Ascends(items) == \A i, j \in 1..Len(items) : i < j => Before(items[i], items[j])

\* Rows that follow a cursor, and what their answer says of those that come later
Follows(items, cursor) == \A i \in 1..Len(items) : KeysetWhere(items[i], cursor)
LeadsOn(items, next) == next # None => items # <<>> /\ next = items[Len(items)]
Covers(rows, cursor, items, next) ==
    \A id \in rows : KeysetWhere(id, cursor) =>
        \/ id \in ToSet(items)
        \/ next # None /\ Before(items[Len(items)], id)

AnswerOK(x) ==
    /\ x.answer = [items |-> x.answer.items, next |-> x.answer.next]
    /\ x.answer.items \in Seq(Ids) /\ x.answer.next \in Ids \cup {None}
    /\ Ascends(x.answer.items) /\ Follows(x.answer.items, x.cursor)
    /\ ToSet(x.answer.items) \subseteq Matches[x.filter]
    /\ LeadsOn(x.answer.items, x.answer.next)
    /\ Covers(x.stood, x.cursor, x.answer.items, x.answer.next)

Sent(x) == x = [at |-> "sent", filter |-> x.filter, cursor |-> x.cursor, token |-> x.token]
Served(x) == x = [at |-> "served", filter |-> x.filter, cursor |-> x.cursor, token |-> x.token,
                  answer |-> x.answer, stood |-> x.stood]

\* A request under way, or none
ReadOK(x) ==
    \/ x = NoRead
    \/ /\ x.filter \in Filters /\ x.cursor \in Ids \cup {None} /\ x.token \in {1, 2}
       /\ Sent(x) \/ (Served(x) /\ AnswerOK(x) /\ x.stood \subseteq Matches[x.filter])

Asking(r) == read[r] # NoRead /\ read[r].cursor = None /\ Current(r)
More(r) == read[r] # NoRead /\ read[r].cursor # None

\* One request for more at a time, one current request for a list, and the one excludes the
\* other; a request for more continues the list that is shown
ReadsOK ==
    /\ read = [r \in Reads |-> read[r]]
    /\ \A r \in Reads : ReadOK(read[r])
    /\ \A r \in Reads : More(r) => list.loadingMore /\ page # "new"
    /\ \A q, r \in Reads : More(q) /\ More(r) => q = r
    /\ \A r \in Reads : Asking(r) => list.loading /\ read[r].filter = list.filter
    /\ \A q, r \in Reads : Asking(q) /\ Asking(r) => q = r
    /\ \A r \in Reads : More(r) /\ Current(r) =>
          /\ ~list.loading /\ read[r].cursor = list.next /\ read[r].filter = list.shownFor
          /\ read[r].at = "served" => stood \subseteq read[r].stood
    /\ page # "new" => \A r \in Reads : read[r].at = "served" => read[r].stood \subseteq there
    /\ page = "new" => \A r \in Reads : read[r].at = "served" => read[r].answer.next = None

Screen(l) ==
    l = [filter |-> l.filter, shownFor |-> l.shownFor, items |-> l.items, next |-> l.next,
         token |-> l.token, loading |-> l.loading, loadingMore |-> l.loadingMore,
         mounted |-> l.mounted, picked |-> l.picked]

ListOK ==
    /\ Screen(list)
    /\ list.filter \in Filters /\ list.shownFor \in Filters
    /\ list.items \in Seq(Ids) /\ list.next \in Ids \cup {None} /\ list.token \in {1, 2}
    /\ list.loading \in BOOLEAN /\ list.loadingMore \in BOOLEAN
    /\ page \in {"bookings", "customers", "new"} /\ there \subseteq Ids
    /\ Ascends(list.items) /\ ToSet(list.items) \subseteq Matches[list.shownFor]
    /\ LeadsOn(list.items, list.next) /\ (page = "new" => list.next = None)
    /\ page # "new" => stood \subseteq there \cap Matches[list.shownFor]
    /\ page # "new" => Covers(stood, None, list.items, list.next)

\* A time that is picked is of the day that is shown
PickOK ==
    /\ BookedAsShown
    /\ page = "new" /\ ~list.loading => ToSet(list.items) \subseteq Matches[list.filter]
    /\ page = "new" /\ list.picked # None => ~list.loading /\ list.picked \in Matches[list.filter]

ListsInv == ReadsOK /\ ListOK /\ PickOK

-----------------------------------------------------------------------------
(* The server's answer                                                     *)

LEMMA RowsAreNumbered ==
    /\ Ids \subseteq Nat /\ IsFiniteSet(Ids) /\ None \notin Ids /\ Limit \in Nat /\ Limit >= 1
    /\ SortValue \in [Ids -> Nat] /\ Matches \in [Filters -> SUBSET Ids]
  BY ListsAssumption DEF None

LEMMA BeforeOrders ==
    /\ \A a \in Ids : ~Before(a, a)
    /\ \A a, b, c \in Ids : Before(a, b) /\ Before(b, c) => Before(a, c)
    /\ \A a, b \in Ids : a = b \/ Before(a, b) \/ Before(b, a)
<1>1. \A a \in Ids : a \in Nat /\ SortValue[a] \in Nat
  BY RowsAreNumbered
<1> QED  BY <1>1 DEF Before

LEMMA ListOrders ==
    ASSUME NEW S \in SUBSET Ids
    PROVE  Orders(InListOrder, S) /\ IsFiniteSet(S)
<1>1. \A x, y \in S : <<x, y>> \in InListOrder <=> Before(x, y)
  BY DEF InListOrder
<1>2. IsFiniteSet(S)
  BY RowsAreNumbered, FS_Subset
<1> QED  BY <1>1, <1>2, BeforeOrders DEF Orders

\* A page of what stands now: in order, after the cursor, of the filter, and followed by
\* everything it leaves out
LEMMA AnswerIs ==
    ASSUME NEW r \in Reads, NEW f \in Filters, NEW c \in Ids \cup {None},
           read[r].filter = f, read[r].cursor = c, NEW a, a = Answer(r)
    PROVE  /\ a = [items |-> a.items, next |-> a.next]
           /\ a.items \in Seq(Ids) /\ a.next \in Ids \cup {None}
           /\ Ascends(a.items) /\ Follows(a.items, c)
           /\ ToSet(a.items) \subseteq Matches[f]
           /\ LeadsOn(a.items, a.next)
           /\ Covers(Filtered(f), c, a.items, a.next)
           /\ page = "new" => a.next = None
<1>1. PICK S : S = {id \in Filtered(f) : KeysetWhere(id, c)}
  OBVIOUS
<1>2. S \in SUBSET Ids /\ S \subseteq Matches[f]
  BY <1>1, RowsAreNumbered DEF Filtered
<1>3. \A x \in S : KeysetWhere(x, c)
  BY <1>1
<1>4. \A x \in Filtered(f) : KeysetWhere(x, c) => x \in S
  BY <1>1
<1>5. PICK rows : rows = Ordered(S, InListOrder)
  OBVIOUS
<1>6. Selected(f, c) = rows
  BY <1>1, <1>5, Zenon DEF Selected
<1>7. Orders(InListOrder, S) /\ IsFiniteSet(S) /\ \A d, e : <<d, e>> \in InListOrder => Before(d, e)
  BY <1>2, ListOrders DEF InListOrder
<1>8. a = IF page = "new" THEN [items |-> rows, next |-> None] ELSE ToPage(rows)
  BY <1>6 DEF Answer
<1>9. ASSUME NEW items, items \in Seq(S), Len(items) \in Nat, DOMAIN items = 1..Len(items),
             \A i, j \in 1..Len(items) : i < j => <<items[i], items[j]>> \in InListOrder
      PROVE  /\ items \in Seq(Ids) /\ Ascends(items) /\ Follows(items, c)
             /\ ToSet(items) \subseteq Matches[f]
  <2>1. \A i \in 1..Len(items) : items[i] \in S
    BY <1>9, ElementOfSeq
  <2>2. items \in Seq(Ids)
    BY <1>2, <1>9, SeqMonotonic
  <2>3. Ascends(items) /\ Follows(items, c)
    BY <1>3, <1>7, <1>9, <2>1 DEF Ascends, Follows
  <2>4. ToSet(items) \subseteq Matches[f]
    BY <1>2, <1>9, <2>1 DEF ToSet
  <2> QED  BY <2>2, <2>3, <2>4
<1>10. CASE page = "new"
  <2>1. PICK n : n = Cardinality(S)
    OBVIOUS
  <2>2. rows \in Seq(S) /\ Len(rows) = n /\ n \in Nat
    BY <1>5, <1>7, <2>1, EveryRowInOrder
  <2>3. \A i, j \in 1..n : i < j => <<rows[i], rows[j]>> \in InListOrder
    BY <1>5, <1>7, <2>1, EveryRowInOrder
  <2>4. \A x \in S : \E i \in 1..n : rows[i] = x
    BY <1>5, <1>7, <2>1, EveryRowInOrder
  <2>5. DOMAIN rows = 1..Len(rows)
    BY <2>2, LenProperties
  <2>6. rows \in Seq(Ids) /\ Ascends(rows) /\ Follows(rows, c) /\ ToSet(rows) \subseteq Matches[f]
    BY <1>9, <2>2, <2>3, <2>5
  <2>7. Covers(Filtered(f), c, rows, None)
    BY <1>4, <2>2, <2>4, <2>5 DEF Covers, ToSet
  <2>8. a = [items |-> rows, next |-> None]
    BY <1>8, <1>10
  <2>9. a.items = rows /\ a.next = None
    BY <2>8
  <2>10. LeadsOn(rows, None)
    BY DEF LeadsOn
  <2>11. a = [items |-> a.items, next |-> a.next]
    BY <2>8, <2>9
  <2>12. None \in Ids \cup {None}
    OBVIOUS
  <2> QED  BY <2>6, <2>7, <2>9, <2>10, <2>11, <2>12, Zenon
<1>11. CASE page # "new"
  <2>1. PICK items : items = FirstOf(S, InListOrder, Limit)
    OBVIOUS
  <2>2. PICK next : next = IF Len(rows) > Limit THEN Last(items) ELSE None
    OBVIOUS
  <2>3. a = [items |-> items, next |-> next]
    <3>1. ToPage(rows) = [items |-> items, next |-> next]
      BY <1>5, <2>1, <2>2, Zenon DEF ToPage, FirstOf
    <3> QED  BY <1>8, <1>11, <3>1
  <2>4. /\ items \in Seq(S) /\ Len(items) \in Nat /\ DOMAIN items = 1..Len(items)
        /\ Len(rows) \in Nat
        /\ Len(rows) > Limit => Len(items) = Limit
        /\ \A i, j \in 1..Len(items) : i < j => <<items[i], items[j]>> \in InListOrder
        /\ \A x \in S : \/ x \in ToSet(items)
                        \/ /\ Len(rows) > Limit
                           /\ \A i \in 1..Len(items) : <<items[i], x>> \in InListOrder
    BY <1>5, <1>7, <2>1, RowsAreNumbered, FirstRows
  <2>5. items \in Seq(Ids) /\ Ascends(items) /\ Follows(items, c) /\ ToSet(items) \subseteq Matches[f]
    BY <1>9, <2>4
  <2>6. ASSUME Len(rows) > Limit
        PROVE  next \in Ids /\ LeadsOn(items, next) /\ Covers(Filtered(f), c, items, next)
    <3>1. Len(items) = Limit /\ Limit \in 1..Len(items)
      BY <2>4, <2>6, RowsAreNumbered
    <3>2. next = items[Len(items)] /\ next \in Ids /\ items # <<>>
      <4>1. next = items[Len(items)]
        BY <2>2, <2>6 DEF Last
      <4>2. items[Len(items)] \in Ids
        BY <2>5, <3>1, ElementOfSeq
      <4>3. items # <<>>
        BY <3>1, RowsAreNumbered
      <4> QED  BY <4>1, <4>2, <4>3
    <3>3. ASSUME NEW x \in Filtered(f), KeysetWhere(x, c)
          PROVE  x \in ToSet(items) \/ (next # None /\ Before(items[Len(items)], x))
      <4>1. x \in ToSet(items) \/ <<items[Len(items)], x>> \in InListOrder
        BY <1>4, <2>4, <3>1, <3>3
      <4> QED  BY <1>7, <3>2, <4>1, RowsAreNumbered
    <3> QED  BY <3>2, <3>3 DEF LeadsOn, Covers
  <2>7. ASSUME ~(Len(rows) > Limit)
        PROVE  next = None /\ LeadsOn(items, next) /\ Covers(Filtered(f), c, items, next)
    <3>1. next = None
      BY <2>2, <2>7
    <3> QED  BY <1>4, <2>4, <2>7, <3>1 DEF LeadsOn, Covers
  <2>8. next \in Ids \cup {None} /\ LeadsOn(items, next) /\ Covers(Filtered(f), c, items, next)
    BY <2>6, <2>7
  <2>9. a.items = items /\ a.next = next /\ a = [items |-> a.items, next |-> a.next]
    BY <2>3
  <2> QED  BY <1>11, <2>5, <2>8, <2>9, Zenon
<1> QED  BY <1>10, <1>11

-----------------------------------------------------------------------------
(* The screen                                                              *)

LEMMA OneRead ==
    ASSUME ReadsOK, NEW r \in Reads, NEW x, read' = [read EXCEPT ![r] = x]
    PROVE  /\ read' = [q \in Reads |-> read'[q]]
           /\ read'[r] = x /\ \A q \in Reads \ {r} : read'[q] = read[q]
<1>1. DOMAIN read = Reads
  BY DEF ReadsOK
<1> QED  BY <1>1

LEMMA ReadKinds ==
    ASSUME NEW x, ReadOK(x)
    PROVE  /\ x = NoRead <=> x.at = "idle"
           /\ x.at = "sent" => x # NoRead /\ Sent(x)
           /\ x.at = "served" => x # NoRead /\ Served(x) /\ AnswerOK(x) /\ x.stood \subseteq Matches[x.filter]
           /\ x # NoRead => x.filter \in Filters /\ x.cursor \in Ids \cup {None} /\ x.token \in {1, 2}
<1>1. NoRead.at = "idle"
  BY DEF NoRead
<1>2. Sent(x) => x.at = "sent"
  BY DEF Sent
<1>3. Served(x) => x.at = "served"
  BY DEF Served
<1> QED  BY <1>1, <1>2, <1>3 DEF ReadOK

\* The requests go on as they were: one was answered, or some rows of theirs went
LEMMA ReadsGoOn ==
    ASSUME ReadsOK, UNCHANGED <<page, list>>, read' = [q \in Reads |-> read'[q]],
           \A q \in Reads :
              /\ ReadOK(read'[q])
              /\ read'[q] = NoRead <=> read[q] = NoRead
              /\ read[q] # NoRead => /\ read'[q].filter = read[q].filter
                                     /\ read'[q].cursor = read[q].cursor
                                     /\ read'[q].token = read[q].token
              /\ read'[q].at = "served" /\ page = "new" => read'[q].answer.next = None
              /\ read'[q].at = "served" /\ page # "new" => read'[q].stood \subseteq there'
              /\ read'[q].at = "served" /\ More(q) /\ Current(q) => stood' \subseteq read'[q].stood
    PROVE  ReadsOK'
<1>1. \A q \in Reads : (More(q)' <=> More(q)) /\ (Asking(q)' <=> Asking(q))
  BY DEF More, Asking, Current
<1>2. \A q \in Reads : read[q] # NoRead => (Current(q)' <=> Current(q))
  BY DEF Current
<1>3. \A q \in Reads : (More(q) \/ Asking(q) => read[q] # NoRead)
  BY DEF More, Asking
<1> QED  BY <1>1, <1>2, <1>3 DEF ReadsOK

LEMMA ServeStep ==
    ASSUME ListsInv, NEW r \in Reads, Serve(r)
    PROVE  ListsInv'
<1>1. ReadsOK /\ ListOK /\ PickOK /\ ReadOK(read[r]) /\ read[r].at = "sent"
  BY DEF ListsInv, ReadsOK, Serve
<1>2. PICK f \in Filters, c \in Ids \cup {None}, t \in {1, 2} :
         read[r] # NoRead /\ read[r].filter = f /\ read[r].cursor = c /\ read[r].token = t
  BY <1>1, ReadKinds
<1>3. PICK a : a = Answer(r)
  OBVIOUS
<1>4. PICK x : x = [at |-> "served", filter |-> f, cursor |-> c, token |-> t,
                    answer |-> a, stood |-> Filtered(f)]
  OBVIOUS
<1>5. read' = [read EXCEPT ![r] = x] /\ UNCHANGED <<page, there, stood, list, writes, booked>>
  <2>1. read' = [read EXCEPT ![r] =
                   [at |-> "served", filter |-> read[r].filter, cursor |-> read[r].cursor,
                    token |-> read[r].token, answer |-> a, stood |-> Filtered(read[r].filter)]]
    BY <1>1, <1>3 DEF Serve, ReadsOK
  <2> QED  BY <1>2, <1>4, <2>1 DEF Serve
<1>6. /\ read' = [q \in Reads |-> read'[q]]
      /\ read'[r] = x /\ \A q \in Reads \ {r} : read'[q] = read[q]
  BY <1>1, <1>5, OneRead
<1>7. /\ x.at = "served" /\ x.filter = f /\ x.cursor = c /\ x.token = t /\ x.answer = a
      /\ x.stood = Filtered(f) /\ Served(x)
  BY <1>4 DEF Served
<1>8. /\ a = [items |-> a.items, next |-> a.next]
      /\ a.items \in Seq(Ids) /\ a.next \in Ids \cup {None}
      /\ Ascends(a.items) /\ Follows(a.items, c)
      /\ ToSet(a.items) \subseteq Matches[f]
      /\ LeadsOn(a.items, a.next)
      /\ Covers(Filtered(f), c, a.items, a.next)
      /\ page = "new" => a.next = None
  BY <1>2, <1>3, AnswerIs
<1>9. AnswerOK(x)
  BY <1>7, <1>8, Zenon DEF AnswerOK
<1>10. x.stood \subseteq Matches[f] /\ x.stood = there \cap Matches[f]
  BY <1>7 DEF Filtered
<1>11. ReadOK(x) /\ x # NoRead
  <2>1. x # NoRead
    BY <1>7 DEF NoRead
  <2> QED  BY <1>2, <1>7, <1>9, <1>10, <2>1 DEF ReadOK
<1>12. ReadsOK'
  <2>1. ASSUME NEW q \in Reads
        PROVE  /\ ReadOK(read'[q])
               /\ read'[q] = NoRead <=> read[q] = NoRead
               /\ read[q] # NoRead => /\ read'[q].filter = read[q].filter
                                      /\ read'[q].cursor = read[q].cursor
                                      /\ read'[q].token = read[q].token
               /\ read'[q].at = "served" /\ page = "new" => read'[q].answer.next = None
               /\ read'[q].at = "served" /\ page # "new" => read'[q].stood \subseteq there'
               /\ read'[q].at = "served" /\ More(q) /\ Current(q) => stood' \subseteq read'[q].stood
    <3>1. CASE q # r
      BY <1>1, <1>5, <1>6, <3>1 DEF ReadsOK
    <3>2. CASE q = r
      <4>1. ASSUME More(r), Current(r)  PROVE stood \subseteq x.stood
        <5>1. f = list.shownFor /\ page # "new"
          BY <1>1, <1>2, <4>1 DEF ReadsOK
        <5> QED  BY <1>1, <1>10, <5>1 DEF ListOK
      <4> QED  BY <1>2, <1>5, <1>6, <1>7, <1>8, <1>10, <1>11, <3>2, <4>1
    <3> QED  BY <3>1, <3>2
  <2> QED  BY <1>1, <1>5, <1>6, <2>1, ReadsGoOn
<1>13. ListOK'
  BY <1>1, <1>5 DEF ListOK, Screen
<1>14. PickOK'
  BY <1>1, <1>5 DEF PickOK, BookedAsShown
<1> QED  BY <1>12, <1>13, <1>14 DEF ListsInv

LEMMA WriteStep ==
    ASSUME ListsInv, NEW id \in Ids, Write(id)
    PROVE  ListsInv'
<1>1. ReadsOK /\ ListOK /\ PickOK /\ \A q \in Reads : ReadOK(read[q])
  BY DEF ListsInv, ReadsOK
<1>2. /\ there' = (IF id \in there THEN there \ {id} ELSE there \cup {id})
      /\ stood' = stood \ {id}
      /\ read' = [q \in Reads |-> IF read[q].at = "served"
                                  THEN [read[q] EXCEPT !.stood = @ \ {id}] ELSE read[q]]
      /\ UNCHANGED <<page, list, booked>>
  BY DEF Write
<1>3. read' = [q \in Reads |-> read'[q]]
  BY <1>2
<1>4. \A S : S \subseteq there => S \ {id} \subseteq there'
  BY <1>2
<1>5. \A rows, S, c, items, next : Covers(rows, c, items, next) => Covers(rows \ S, c, items, next)
  BY DEF Covers
<1>6. ReadsOK'
  <2>1. ASSUME NEW q \in Reads
        PROVE  /\ ReadOK(read'[q])
               /\ read'[q] = NoRead <=> read[q] = NoRead
               /\ read[q] # NoRead => /\ read'[q].filter = read[q].filter
                                      /\ read'[q].cursor = read[q].cursor
                                      /\ read'[q].token = read[q].token
               /\ read'[q].at = "served" /\ page = "new" => read'[q].answer.next = None
               /\ read'[q].at = "served" /\ page # "new" => read'[q].stood \subseteq there'
               /\ read'[q].at = "served" /\ More(q) /\ Current(q) => stood' \subseteq read'[q].stood
    <3>1. CASE read[q].at # "served"
      <4>1. read'[q] = read[q]
        BY <1>2, <3>1
      <4> QED  BY <1>1, <3>1, <4>1
    <3>2. CASE read[q].at = "served"
      <4>1. read[q] # NoRead /\ Served(read[q]) /\ AnswerOK(read[q]) /\ read[q].stood \subseteq Matches[read[q].filter]
            /\ read[q].filter \in Filters /\ read[q].cursor \in Ids \cup {None} /\ read[q].token \in {1, 2}
        BY <1>1, <3>2, ReadKinds
      <4>2. PICK f, c, t, a, S : read[q] = [at |-> "served", filter |-> f, cursor |-> c, token |-> t,
                                            answer |-> a, stood |-> S]
        BY <4>1 DEF Served
      <4>3. PICK R : R = S \ {id}
        OBVIOUS
      <4>4. PICK x : x = [at |-> "served", filter |-> f, cursor |-> c, token |-> t,
                           answer |-> a, stood |-> R]
        OBVIOUS
      <4>5. read'[q] = x
        <5>1. read[q].stood = S
          BY <4>2
        <5>2. read'[q] = [read[q] EXCEPT !.stood = R]
          BY <1>2, <3>2, <4>3, <5>1
        <5> QED  BY <4>2, <4>4, <5>2
      <4>6. /\ read[q].filter = f /\ read[q].cursor = c /\ read[q].token = t /\ read[q].answer = a
            /\ read[q].stood = S
        BY <4>2
      <4>7. /\ x.at = "served" /\ x.filter = f /\ x.cursor = c /\ x.token = t /\ x.answer = a
            /\ x.stood = S \ {id} /\ Served(x)
        BY <4>3, <4>4 DEF Served
      <4>8. AnswerOK(x)
        <5>1. Covers(S, c, a.items, a.next)
          BY <4>1, <4>6 DEF AnswerOK
        <5>2. Covers(x.stood, x.cursor, x.answer.items, x.answer.next)
          <6>1. Covers(S \ {id}, c, a.items, a.next)
            BY <1>5, <5>1, Zenon
          <6>2. Covers(x.stood, c, a.items, a.next)
            BY <4>7, <6>1, Zenon
          <6> QED  BY <4>7, <6>2, Zenon
        <5>3. x.answer = read[q].answer /\ x.cursor = read[q].cursor /\ x.filter = read[q].filter
          BY <4>6, <4>7
        <5>4. AnswerOK(read[q])
          BY <4>1
        <5> QED  BY <5>2, <5>3, <5>4, Zenon DEF AnswerOK
      <4>9. x # NoRead
        BY <4>7 DEF NoRead
      <4>10. ReadOK(x)
        BY <4>1, <4>6, <4>7, <4>8 DEF ReadOK
      <4>11. page # "new" => x.stood \subseteq there'
        BY <1>1, <1>4, <3>2, <4>6, <4>7 DEF ReadsOK
      <4>12. More(q) /\ Current(q) => stood' \subseteq x.stood
        BY <1>1, <1>2, <3>2, <4>6, <4>7 DEF ReadsOK
      <4>13. page = "new" => x.answer.next = None
        BY <1>1, <3>2, <4>6, <4>7 DEF ReadsOK
      <4> QED  BY <4>1, <4>5, <4>6, <4>7, <4>9, <4>10, <4>11, <4>12, <4>13
    <3> QED  BY <3>1, <3>2
  <2> QED  BY <1>1, <1>2, <1>3, <2>1, ReadsGoOn
<1>7. ListOK'
  <2>1. page # "new" => stood' \subseteq there' \cap Matches[list.shownFor]
    BY <1>1, <1>2 DEF ListOK
  <2>2. page # "new" => Covers(stood', None, list.items, list.next)
    BY <1>1, <1>2, <1>5 DEF ListOK
  <2>3. there' \subseteq Ids
    BY <1>1, <1>2 DEF ListOK
  <2> QED  BY <1>1, <1>2, <2>1, <2>2, <2>3 DEF ListOK, Screen
<1>8. PickOK'
  BY <1>1, <1>2 DEF PickOK, BookedAsShown
<1> QED  BY <1>6, <1>7, <1>8 DEF ListsInv

\* A request is answered, or fails: no other of its kind was current
LEMMA ReadCloses ==
    ASSUME ReadsOK, NEW r \in Reads, read' = [read EXCEPT ![r] = NoRead],
           UNCHANGED <<page, there>>, list'.token = list.token, list'.filter = list.filter,
           ~More(r) => list'.loadingMore = list.loadingMore,
           ~Asking(r) => list'.loading = list.loading,
           Asking(r) \/ More(r)
             \/ (list'.next = list.next /\ list'.shownFor = list.shownFor /\ stood' = stood)
    PROVE  ReadsOK'
<1>1. /\ read' = [q \in Reads |-> read'[q]]
      /\ read'[r] = NoRead /\ \A q \in Reads \ {r} : read'[q] = read[q]
  BY OneRead
<1>2. NoRead.at = "idle"
  BY DEF NoRead
<1>3. \A q \in Reads : /\ More(q)' => More(q) /\ q # r
                       /\ Asking(q)' => Asking(q) /\ q # r
                       /\ More(q)' /\ Current(q)' => Current(q)
  BY <1>1 DEF More, Asking, Current
<1>4. \A q \in Reads : ReadOK(read[q]) /\ ReadOK(read'[q])
  BY <1>1 DEF ReadsOK, ReadOK
<1>5. \A q \in Reads : More(q)' => list'.loadingMore /\ page' # "new"
  BY <1>3 DEF ReadsOK
<1>6. \A p, q \in Reads : More(p)' /\ More(q)' => p = q
  BY <1>3 DEF ReadsOK
<1>7. \A q \in Reads : Asking(q)' => list'.loading /\ read'[q].filter = list'.filter
  BY <1>1, <1>3 DEF ReadsOK
<1>8. \A p, q \in Reads : Asking(p)' /\ Asking(q)' => p = q
  BY <1>3 DEF ReadsOK
<1>9. ASSUME NEW q \in Reads, More(q)', Current(q)'
      PROVE  /\ ~list'.loading /\ read'[q].cursor = list'.next /\ read'[q].filter = list'.shownFor
             /\ read'[q].at = "served" => stood' \subseteq read'[q].stood
  <2>1. More(q) /\ Current(q) /\ q # r /\ read'[q] = read[q]
    BY <1>1, <1>3, <1>9
  <2>2. ~list.loading /\ ~Asking(r) /\ ~More(r)
    BY <2>1 DEF ReadsOK
  <2> QED  BY <2>1, <2>2 DEF ReadsOK
<1>10. page' # "new" => \A q \in Reads : read'[q].at = "served" => read'[q].stood \subseteq there'
  BY <1>1, <1>2 DEF ReadsOK
<1>11. page' = "new" => \A q \in Reads : read'[q].at = "served" => read'[q].answer.next = None
  BY <1>1, <1>2 DEF ReadsOK
<1> QED  BY <1>1, <1>4, <1>5, <1>6, <1>7, <1>8, <1>9, <1>10, <1>11 DEF ReadsOK

\* A request is sent: those still under way are of a list that was given up
LEMMA ReadOpens ==
    ASSUME ReadsOK, NEW r \in Reads, read[r] = NoRead,
           NEW f \in Filters, NEW c \in Ids \cup {None}, NEW t \in {1, 2},
           read' = [read EXCEPT ![r] = [at |-> "sent", filter |-> f, cursor |-> c, token |-> t]],
           UNCHANGED <<page, there, stood>>, list'.token = t,
           \A q \in Reads : read[q] # NoRead => page = "bookings" /\ read[q].token # t,
           c = None => list'.loading /\ list'.filter = f /\ list'.loadingMore = list.loadingMore,
           c # None => /\ ~list'.loading /\ c = list'.next /\ f = list'.shownFor
                       /\ list'.loadingMore /\ page # "new" /\ \A q \in Reads : ~More(q)
    PROVE  ReadsOK'
<1>1. PICK x : x = [at |-> "sent", filter |-> f, cursor |-> c, token |-> t]
  OBVIOUS
<1>2. /\ read' = [q \in Reads |-> read'[q]]
      /\ read'[r] = x /\ \A q \in Reads \ {r} : read'[q] = read[q]
  BY <1>1, OneRead
<1>3. x.at = "sent" /\ x.filter = f /\ x.cursor = c /\ x.token = t /\ Sent(x)
  BY <1>1 DEF Sent
<1>4. x # NoRead /\ ReadOK(x)
  <2>1. x # NoRead
    BY <1>3 DEF NoRead
  <2> QED  BY <1>3, <2>1 DEF ReadOK
<1>5. \A q \in Reads : ReadOK(read'[q])
  BY <1>2, <1>4 DEF ReadsOK
<1>6. \A q \in Reads \ {r} : /\ read'[q] # NoRead => ~Current(q)'
                             /\ More(q)' => More(q)
  BY <1>2 DEF Current, More
<1>7. (More(r)' <=> c # None) /\ (Asking(r)' <=> c = None)
  BY <1>2, <1>3, <1>4 DEF More, Asking, Current
<1>8. \A q \in Reads : Asking(q)' => q = r /\ c = None
  BY <1>6, <1>7 DEF Asking
<1>9. \A q \in Reads : More(q)' /\ Current(q)' => q = r /\ c # None
  BY <1>6, <1>7 DEF More
<1>10. \A q \in Reads : More(q)' => list'.loadingMore /\ page' # "new"
  BY <1>6, <1>7 DEF ReadsOK
<1>11. \A p, q \in Reads : More(p)' /\ More(q)' => p = q
  BY <1>6, <1>7 DEF ReadsOK
<1>12. \A q \in Reads : Asking(q)' => list'.loading /\ read'[q].filter = list'.filter
  BY <1>2, <1>3, <1>8
<1>13. \A q \in Reads : More(q)' /\ Current(q)' =>
          /\ ~list'.loading /\ read'[q].cursor = list'.next /\ read'[q].filter = list'.shownFor
          /\ read'[q].at = "served" => stood' \subseteq read'[q].stood
  BY <1>2, <1>3, <1>9
<1>14. page' # "new" => \A q \in Reads : read'[q].at = "served" => read'[q].stood \subseteq there'
  BY <1>2, <1>3 DEF ReadsOK
<1>15. page' = "new" => \A q \in Reads : read'[q].at = "served" => read'[q].answer.next = None
  BY <1>2, <1>3 DEF ReadsOK
<1>16. \A p, q \in Reads : Asking(p)' /\ Asking(q)' => p = q
  BY <1>8
<1> QED  BY <1>2, <1>5, <1>10, <1>11, <1>12, <1>13, <1>14, <1>15, <1>16 DEF ReadsOK

\* What a patient operator has waited for
LEMMA Quiet ==
    ASSUME Patient, ReadsOK, Settled, NEW q \in Reads, read[q] # NoRead
    PROVE  page = "bookings" /\ read[q].token # list.token /\ ~More(q)
<1>1. ~list.loading /\ ~list.loadingMore
  BY DEF Settled
<1>2. ~Asking(q) /\ ~More(q)
  BY <1>1 DEF ReadsOK
<1> QED  BY <1>2 DEF Asking, More, Current

LEMMA LoadingIs ==
    ASSUME ListOK, NEW f \in Filters, NEW l, l = Loading(f)
    PROVE  /\ Screen(l) /\ l.filter = f /\ l.loading /\ l.loading \in BOOLEAN /\ l.picked = None
           /\ l.shownFor = list.shownFor /\ l.items = list.items /\ l.next = list.next
           /\ l.loadingMore = list.loadingMore
           /\ l.token = (IF page = "bookings" THEN 3 - list.token ELSE list.token)
<1>1. PICK yes : yes = TRUE
  OBVIOUS
<1>2. l = [list EXCEPT !.filter = f, !.loading = yes, !.mounted = yes, !.picked = None,
                       !.token = IF page = "bookings" THEN 3 - @ ELSE @]
  BY <1>1, Zenon DEF Loading
<1>3. PICK g, s, i, n, t, d, e, m, p :
         list = [filter |-> g, shownFor |-> s, items |-> i, next |-> n, token |-> t,
                 loading |-> d, loadingMore |-> e, mounted |-> m, picked |-> p]
  BY DEF ListOK, Screen
<1>4. PICK k : k = IF page = "bookings" THEN 3 - list.token ELSE list.token
  OBVIOUS
<1>5. l = [list EXCEPT !.filter = f, !.loading = yes, !.mounted = yes, !.picked = None, !.token = k]
  BY <1>2, <1>4, Zenon
<1>6. l = [filter |-> f, shownFor |-> s, items |-> i, next |-> n, token |-> k,
           loading |-> yes, loadingMore |-> e, mounted |-> yes, picked |-> None]
  BY ONLY <1>3, <1>5
<1>7. /\ l.filter = f /\ l.shownFor = s /\ l.items = i /\ l.next = n /\ l.token = k
      /\ l.loading = yes /\ l.loadingMore = e /\ l.mounted = yes /\ l.picked = None
  BY ONLY <1>6
<1>8. Screen(l)
  BY ONLY <1>6, <1>7 DEF Screen
<1>9. s = list.shownFor /\ i = list.items /\ n = list.next /\ e = list.loadingMore
  BY ONLY <1>3
<1> QED  BY <1>1, <1>4, <1>7, <1>8, <1>9

\* The rest of what a handler does to the screen
LEMMA ScreenWith ==
    ASSUME ListOK, NEW b \in BOOLEAN
    PROVE  /\ \A l : l = [list EXCEPT !.loadingMore = b] =>
                 /\ Screen(l) /\ l.loadingMore = b /\ l.filter = list.filter
                 /\ l.shownFor = list.shownFor /\ l.items = list.items /\ l.next = list.next
                 /\ l.token = list.token /\ l.loading = list.loading /\ l.picked = list.picked
           /\ \A l : l = [list EXCEPT !.loading = b] =>
                 /\ Screen(l) /\ l.loading = b /\ l.filter = list.filter
                 /\ l.shownFor = list.shownFor /\ l.items = list.items /\ l.next = list.next
                 /\ l.token = list.token /\ l.loadingMore = list.loadingMore /\ l.picked = list.picked
<1>1. PICK g, h, i, n, t, d, e, m, p :
         list = [filter |-> g, shownFor |-> h, items |-> i, next |-> n, token |-> t,
                 loading |-> d, loadingMore |-> e, mounted |-> m, picked |-> p]
  BY DEF ListOK, Screen
<1>2. ASSUME NEW l, l = [list EXCEPT !.loadingMore = b]
      PROVE  /\ Screen(l) /\ l.loadingMore = b /\ l.filter = list.filter
             /\ l.shownFor = list.shownFor /\ l.items = list.items /\ l.next = list.next
             /\ l.token = list.token /\ l.loading = list.loading /\ l.picked = list.picked
  <2>1. l = [filter |-> g, shownFor |-> h, items |-> i, next |-> n, token |-> t,
             loading |-> d, loadingMore |-> b, mounted |-> m, picked |-> p]
    BY ONLY <1>1, <1>2
  <2>2. /\ l.filter = g /\ l.shownFor = h /\ l.items = i /\ l.next = n /\ l.token = t
        /\ l.loading = d /\ l.loadingMore = b /\ l.mounted = m /\ l.picked = p
    BY ONLY <2>1
  <2>3. Screen(l)
    BY ONLY <2>1, <2>2 DEF Screen
  <2> QED  BY <1>1, <2>2, <2>3
<1>3. ASSUME NEW l, l = [list EXCEPT !.loading = b]
      PROVE  /\ Screen(l) /\ l.loading = b /\ l.filter = list.filter
             /\ l.shownFor = list.shownFor /\ l.items = list.items /\ l.next = list.next
             /\ l.token = list.token /\ l.loadingMore = list.loadingMore /\ l.picked = list.picked
  <2>1. l = [filter |-> g, shownFor |-> h, items |-> i, next |-> n, token |-> t,
             loading |-> b, loadingMore |-> e, mounted |-> m, picked |-> p]
    BY ONLY <1>1, <1>3
  <2>2. /\ l.filter = g /\ l.shownFor = h /\ l.items = i /\ l.next = n /\ l.token = t
        /\ l.loading = b /\ l.loadingMore = e /\ l.mounted = m /\ l.picked = p
    BY ONLY <2>1
  <2>3. Screen(l)
    BY ONLY <2>1, <2>2 DEF Screen
  <2> QED  BY <1>1, <2>2, <2>3
<1> QED  BY <1>2, <1>3

\* The times are gone, and a time is picked
Emptied(v, b) == [list EXCEPT !.loading = b, !.items = v]
Picking(v) == [list EXCEPT !.picked = v]

LEMMA ScreenEmpties ==
    ASSUME ListOK, NEW b \in BOOLEAN, NEW v, NEW l, l = Emptied(v, b)
    PROVE  /\ Screen(l) /\ l.loading = b /\ l.filter = list.filter
           /\ l.shownFor = list.shownFor /\ l.items = v /\ l.next = list.next
           /\ l.token = list.token /\ l.loadingMore = list.loadingMore /\ l.picked = list.picked
<1>1. PICK g, h, i, n, t, d, e, m, p :
         list = [filter |-> g, shownFor |-> h, items |-> i, next |-> n, token |-> t,
                 loading |-> d, loadingMore |-> e, mounted |-> m, picked |-> p]
  BY DEF ListOK, Screen
<1>2. l = [filter |-> g, shownFor |-> h, items |-> v, next |-> n, token |-> t,
           loading |-> b, loadingMore |-> e, mounted |-> m, picked |-> p]
  BY ONLY <1>1, l = Emptied(v, b) DEF Emptied
<1>3. /\ l.filter = g /\ l.shownFor = h /\ l.items = v /\ l.next = n /\ l.token = t
      /\ l.loading = b /\ l.loadingMore = e /\ l.mounted = m /\ l.picked = p
  BY ONLY <1>2
<1>4. Screen(l)
  BY ONLY <1>2, <1>3 DEF Screen
<1> QED  BY <1>1, <1>3, <1>4

LEMMA ScreenPicks ==
    ASSUME ListOK, NEW v, NEW l, l = Picking(v)
    PROVE  /\ Screen(l) /\ l.picked = v /\ l.filter = list.filter
           /\ l.shownFor = list.shownFor /\ l.items = list.items /\ l.next = list.next
           /\ l.token = list.token /\ l.loading = list.loading /\ l.loadingMore = list.loadingMore
<1>1. PICK g, h, i, n, t, d, e, m, p :
         list = [filter |-> g, shownFor |-> h, items |-> i, next |-> n, token |-> t,
                 loading |-> d, loadingMore |-> e, mounted |-> m, picked |-> p]
  BY DEF ListOK, Screen
<1>2. l = [filter |-> g, shownFor |-> h, items |-> i, next |-> n, token |-> t,
           loading |-> d, loadingMore |-> e, mounted |-> m, picked |-> v]
  BY ONLY <1>1, l = Picking(v) DEF Picking
<1>3. /\ l.filter = g /\ l.shownFor = h /\ l.items = i /\ l.next = n /\ l.token = t
      /\ l.loading = d /\ l.loadingMore = e /\ l.mounted = m /\ l.picked = v
  BY ONLY <1>2
<1>4. Screen(l)
  BY ONLY <1>2, <1>3 DEF Screen
<1> QED  BY <1>1, <1>3, <1>4

\* A page appended, and a list painted
Appended(v, w, b) == [list EXCEPT !.items = v, !.next = w, !.loadingMore = b]
Begun(v, w, b, s) == [list EXCEPT !.items = v, !.next = w, !.loading = b, !.shownFor = s]

LEMMA ScreenAppends ==
    ASSUME ListOK, NEW b \in BOOLEAN, NEW v, NEW w,
           NEW l, l = Appended(v, w, b)
    PROVE  /\ Screen(l) /\ l.loadingMore = b /\ l.filter = list.filter
           /\ l.shownFor = list.shownFor /\ l.items = v /\ l.next = w
           /\ l.token = list.token /\ l.loading = list.loading /\ l.picked = list.picked
<1>1. PICK g, h, i, n, t, d, e, m, p :
         list = [filter |-> g, shownFor |-> h, items |-> i, next |-> n, token |-> t,
                 loading |-> d, loadingMore |-> e, mounted |-> m, picked |-> p]
  BY DEF ListOK, Screen
<1>2. l = [filter |-> g, shownFor |-> h, items |-> v, next |-> w, token |-> t,
           loading |-> d, loadingMore |-> b, mounted |-> m, picked |-> p]
  BY ONLY <1>1, l = Appended(v, w, b) DEF Appended
<1>3. /\ l.filter = g /\ l.shownFor = h /\ l.items = v /\ l.next = w /\ l.token = t
      /\ l.loading = d /\ l.loadingMore = b /\ l.mounted = m /\ l.picked = p
  BY ONLY <1>2
<1>4. Screen(l)
  BY ONLY <1>2, <1>3 DEF Screen
<1> QED  BY <1>1, <1>3, <1>4

LEMMA ScreenPaints ==
    ASSUME ListOK, NEW b \in BOOLEAN, NEW v, NEW w, NEW s,
           NEW l, l = Begun(v, w, b, s)
    PROVE  /\ Screen(l) /\ l.loading = b /\ l.filter = list.filter
           /\ l.shownFor = s /\ l.items = v /\ l.next = w
           /\ l.token = list.token /\ l.loadingMore = list.loadingMore /\ l.picked = list.picked
<1>1. PICK g, h, i, n, t, d, e, m, p :
         list = [filter |-> g, shownFor |-> h, items |-> i, next |-> n, token |-> t,
                 loading |-> d, loadingMore |-> e, mounted |-> m, picked |-> p]
  BY DEF ListOK, Screen
<1>2. l = [filter |-> g, shownFor |-> s, items |-> v, next |-> w, token |-> t,
           loading |-> b, loadingMore |-> e, mounted |-> m, picked |-> p]
  BY ONLY <1>1, l = Begun(v, w, b, s) DEF Begun
<1>3. /\ l.filter = g /\ l.shownFor = s /\ l.items = v /\ l.next = w /\ l.token = t
      /\ l.loading = b /\ l.loadingMore = e /\ l.mounted = m /\ l.picked = p
  BY ONLY <1>2
<1>4. Screen(l)
  BY ONLY <1>2, <1>3 DEF Screen
<1> QED  BY <1>1, <1>3, <1>4

\* Rows s of S, and the page t that follows them
Continues(S, s, c, t, n) ==
    /\ s \in Seq(Ids) /\ t \in Seq(Ids) /\ c \in Ids /\ n \in Ids \cup {None} /\ S \subseteq Ids
    /\ Ascends(s) /\ LeadsOn(s, c) /\ Covers(S, None, s, c)
    /\ Ascends(t) /\ Follows(t, c) /\ LeadsOn(t, n) /\ Covers(S, c, t, n)

\* Appended, they are a list again
LEMMA AppendPage ==
    ASSUME NEW S, NEW s, NEW c, NEW t, NEW n, Continues(S, s, c, t, n)
    PROVE  /\ s \o t \in Seq(Ids) /\ Ascends(s \o t) /\ LeadsOn(s \o t, n)
           /\ Covers(S, None, s \o t, n) /\ ToSet(s \o t) = ToSet(s) \cup ToSet(t)
<1>1. PICK u : u = s \o t
  OBVIOUS
<1>2. /\ s \in Seq(Ids) /\ t \in Seq(Ids) /\ c \in Ids /\ n \in Ids \cup {None} /\ S \subseteq Ids
       /\ Ascends(s) /\ LeadsOn(s, c) /\ Covers(S, None, s, c)
       /\ Ascends(t) /\ Follows(t, c) /\ LeadsOn(t, n) /\ Covers(S, c, t, n)
  BY DEF Continues
<1>3. PICK k \in Nat, m \in Nat : k = Len(s) /\ m = Len(t)
  BY <1>2, LenProperties
<1>4. u \in Seq(Ids) /\ Len(u) = k + m
  BY <1>2, <1>3, ConcatProperties, <1>1
<1>5. /\ \A i \in 1..k : u[i] = s[i] /\ s[i] \in Ids
      /\ \A i \in 1..m : u[k + i] = t[i] /\ t[i] \in Ids
  <2>1. \A i \in 1..k : u[i] = s[i]
    BY <1>2, <1>3, ConcatProperties, <1>1
  <2>2. \A i \in 1..m : u[k + i] = t[i]
    BY <1>2, <1>3, ConcatProperties, <1>1
  <2> QED  BY <1>2, <1>3, <2>1, <2>2, ElementOfSeq
<1>6. DOMAIN u = 1..(k + m) /\ DOMAIN s = 1..k /\ DOMAIN t = 1..m
  BY <1>2, <1>3, <1>4, LenProperties
<1>7. c # None
  BY <1>2, RowsAreNumbered
<1>8. k # 0 /\ c = s[k]
  BY <1>2, <1>3, <1>7, EmptySeq DEF LeadsOn
<1>9. \A i \in 1..(k + m) : i \in 1..k \/ (i > k /\ i - k \in 1..m /\ i = k + (i - k))
  OBVIOUS
<1>10. ToSet(u) = ToSet(s) \cup ToSet(t)
  <2>1. ASSUME NEW i \in 1..(k + m)  PROVE u[i] \in ToSet(s) \cup ToSet(t)
    BY <1>2, <1>5, <1>6, <1>9 DEF ToSet
  <2>2. ASSUME NEW i \in 1..k  PROVE s[i] \in ToSet(u)
    <3>1. i \in 1..(k + m)
      OBVIOUS
    <3> QED  BY <1>2, <1>5, <1>6, <3>1 DEF ToSet
  <2>3. ASSUME NEW i \in 1..m  PROVE t[i] \in ToSet(u)
    <3>1. k + i \in 1..(k + m)
      OBVIOUS
    <3> QED  BY <1>2, <1>5, <1>6, <3>1 DEF ToSet
  <2> QED  BY <1>2, <1>6, <2>1, <2>2, <2>3 DEF ToSet
<1>11. \A i \in 1..k : s[i] = c \/ Before(s[i], c)
  BY <1>2, <1>3, <1>8 DEF Ascends
<1>12. \A j \in 1..m : Before(c, t[j])
  BY <1>2, <1>3, <1>7 DEF Follows, KeysetWhere
<1>13. Ascends(u)
  <2> SUFFICES ASSUME NEW i \in 1..(k + m), NEW j \in 1..(k + m), i < j
               PROVE  Before(u[i], u[j])
    BY <1>2, <1>4 DEF Ascends
  <2>1. CASE j \in 1..k
    <3>1. i \in 1..k
      BY <1>2, <2>1
    <3>2. Before(s[i], s[j])
      BY <1>2, <1>3, <2>1, <3>1 DEF Ascends
    <3> QED  BY <1>2, <1>5, <2>1, <3>1, <3>2
  <2>2. CASE i \in 1..k /\ j > k
    <3>1. PICK l \in 1..m : j = k + l
      BY <1>2, <1>9, <2>2
    <3>2. s[i] \in Ids /\ t[l] \in Ids /\ Before(c, t[l]) /\ (s[i] = c \/ Before(s[i], c))
      BY <1>2, <1>5, <1>11, <1>12, <2>2
    <3>3. Before(s[i], t[l])
      BY <1>2, <3>2, BeforeOrders
    <3>4. u[i] = s[i] /\ u[j] = t[l]
      BY <1>2, <1>5, <2>2, <3>1
    <3> QED  BY <1>2, <3>3, <3>4
  <2>3. CASE i > k
    <3>1. PICK h \in 1..m : i = k + h
      BY <1>2, <1>9, <2>3
    <3>2. PICK l \in 1..m : j = k + l
      BY <1>2, <1>9, <2>3
    <3>3. Before(t[h], t[l])
      BY <1>2, <1>3, <3>1, <3>2 DEF Ascends
    <3> QED  BY <1>2, <1>5, <3>1, <3>2, <3>3
  <2> QED  BY <1>2, <1>9, <2>1, <2>2, <2>3
<1>14. ASSUME n # None  PROVE u # <<>> /\ n = u[Len(u)] /\ n = t[Len(t)]
  <2>1. n = t[Len(t)] /\ m # 0
    BY <1>2, <1>3, <1>14, EmptySeq DEF LeadsOn
  <2>2. m \in 1..m /\ k + m # 0
    BY <1>2, <2>1
  <2> QED  BY <1>2, <1>3, <1>4, <1>5, <2>1, <2>2
<1>15. LeadsOn(u, n)
  BY <1>2, <1>14 DEF LeadsOn
<1>16. Covers(S, None, u, n)
  <2> SUFFICES ASSUME NEW x \in S  PROVE x \in ToSet(u) \/ (n # None /\ Before(u[Len(u)], x))
    BY DEF Covers
  <2>1. x \in ToSet(s) \/ Before(s[Len(s)], x)
    BY <1>2 DEF Covers, KeysetWhere
  <2>2. CASE x \in ToSet(s)
    BY <1>2, <1>10, <2>2
  <2>3. CASE Before(s[Len(s)], x)
    <3>1. Before(c, x)
      BY <1>2, <1>3, <1>8, <2>3
    <3>2. x \in ToSet(t) \/ (n # None /\ Before(t[Len(t)], x))
      BY <1>2, <3>1 DEF Covers, KeysetWhere
    <3> QED  BY <1>2, <1>10, <1>14, <3>2
  <2> QED  BY <1>2, <2>1, <2>2, <2>3
<1> QED  BY <1>1, <1>4, <1>10, <1>13, <1>15, <1>16

LEMMA LoadStep ==
    ASSUME Patient, ListsInv, NEW r \in Reads, NEW f \in Filters, Load(r, f)
    PROVE  ListsInv'
<1>1. ReadsOK /\ ListOK /\ PickOK
  BY DEF ListsInv
<1>2. PICK l : l = Loading(f)
  OBVIOUS
<1>3. PICK t : t = l.token
  OBVIOUS
<1>4. /\ Screen(l) /\ l.filter = f /\ l.loading /\ l.loading \in BOOLEAN /\ l.picked = None
      /\ l.shownFor = list.shownFor /\ l.items = list.items /\ l.next = list.next
      /\ l.loadingMore = list.loadingMore
      /\ t = (IF page = "bookings" THEN 3 - list.token ELSE list.token)
  BY <1>1, <1>2, <1>3, LoadingIs
<1>5. t \in {1, 2}
  BY <1>1, <1>4 DEF ListOK
<1>6. list' = l /\ UNCHANGED <<page, there, stood, writes, booked>>
  BY <1>2 DEF Load
<1>7. /\ read[r] = NoRead
      /\ read' = [read EXCEPT ![r] = [at |-> "sent", filter |-> f, cursor |-> None, token |-> t]]
  BY <1>3, <1>6 DEF Load, Send
<1>8. ASSUME NEW q \in Reads, read[q] # NoRead
      PROVE  page = "bookings" /\ read[q].token # t
  <2>1. CASE page # "bookings"
    BY <1>1, <1>8, <2>1, Quiet DEF Load
  <2>2. CASE page = "bookings"
    BY <1>4, <1>8, <2>2 DEF Load
  <2> QED  BY <2>1, <2>2
<1>9. ReadsOK'
  <2>1. None \in Ids \cup {None}
    OBVIOUS
  <2> QED  BY <1>1, <1>3, <1>4, <1>5, <1>6, <1>7, <1>8, <2>1, ReadOpens
<1>10. ListOK'
  BY <1>1, <1>3, <1>4, <1>5, <1>6 DEF ListOK
<1>11. PickOK'
  BY <1>1, <1>4, <1>6 DEF PickOK, BookedAsShown
<1> QED  BY <1>9, <1>10, <1>11 DEF ListsInv

LEMMA LoadMoreStep ==
    ASSUME Patient, ListsInv, NEW r \in Reads, LoadMore(r)
    PROVE  ListsInv'
<1>1. ReadsOK /\ ListOK /\ PickOK
  BY DEF ListsInv
<1>2. PICK yes \in BOOLEAN : yes = TRUE
  OBVIOUS
<1>3. PICK l : l = [list EXCEPT !.loadingMore = yes]
  OBVIOUS
<1>4. /\ Screen(l) /\ l.loadingMore = yes /\ l.filter = list.filter
      /\ l.shownFor = list.shownFor /\ l.items = list.items /\ l.next = list.next
      /\ l.token = list.token /\ l.loading = list.loading /\ l.picked = list.picked
  BY <1>1, <1>3, ScreenWith
<1>5. list' = l /\ UNCHANGED <<page, there, stood, writes, booked>>
  BY <1>2, <1>3, Zenon DEF LoadMore
<1>6. page # "new" /\ list.next # None /\ Settled /\ list.shownFor = list.filter
  BY DEF LoadMore
<1>7. PICK f \in Filters : f = list.filter /\ Send(r, f, list.next, list.token)
  BY DEF LoadMore
<1>8. PICK c \in Ids \cup {None}, t \in {1, 2} : c = list.next /\ t = list.token
  BY <1>1 DEF ListOK
<1>9. /\ read[r] = NoRead
      /\ read' = [read EXCEPT ![r] = [at |-> "sent", filter |-> f, cursor |-> c, token |-> t]]
  BY <1>7, <1>8 DEF Send
<1>10. \A q \in Reads : /\ read[q] # NoRead => page = "bookings" /\ read[q].token # t
                        /\ ~More(q)
  <2>1. \A q \in Reads : read[q] # NoRead => page = "bookings" /\ read[q].token # t /\ ~More(q)
    BY <1>1, <1>6, <1>8, Quiet
  <2> QED  BY <2>1 DEF More
<1>11. ~list.loading /\ yes
  BY <1>2, <1>6 DEF Settled
<1>12. ReadsOK'
  <2>1. c # None /\ UNCHANGED <<page, there, stood>>
    BY <1>5, <1>6, <1>8
  <2>2. /\ list'.token = t /\ ~list'.loading /\ c = list'.next /\ f = list'.shownFor
        /\ list'.loadingMore /\ page # "new"
    BY <1>4, <1>5, <1>6, <1>7, <1>8, <1>11
  <2> QED  BY <1>1, <1>9, <1>10, <2>1, <2>2, ReadOpens
<1>13. ListOK'
  BY <1>1, <1>4, <1>5 DEF ListOK
<1>14. PickOK'
  BY <1>1, <1>4, <1>5 DEF PickOK, BookedAsShown
<1> QED  BY <1>12, <1>13, <1>14 DEF ListsInv

\* An answer of the list that is being loaded is painted, one that continues the list is
\* appended, and one that came too late is dropped.
LEMMA ArriveStep ==
    ASSUME ListsInv, NEW r \in Reads, Arrive(r)
    PROVE  ListsInv'
<1>1. ReadsOK /\ ListOK /\ PickOK /\ ReadOK(read[r]) /\ read[r].at = "served"
  BY DEF ListsInv, ReadsOK, Arrive
<1>2. PICK no \in BOOLEAN : no = FALSE
  OBVIOUS
<1>3. PICK a, c, f, S : a = read[r].answer /\ c = read[r].cursor /\ f = read[r].filter /\ S = read[r].stood
  OBVIOUS
<1>4. /\ read[r] # NoRead /\ f \in Filters /\ c \in Ids \cup {None} /\ S \subseteq Matches[f]
      /\ a.items \in Seq(Ids) /\ a.next \in Ids \cup {None}
      /\ Ascends(a.items) /\ Follows(a.items, c)
      /\ ToSet(a.items) \subseteq Matches[f]
      /\ LeadsOn(a.items, a.next) /\ Covers(S, c, a.items, a.next)
  BY <1>1, <1>3, ReadKinds DEF AnswerOK
<1>5. read' = [read EXCEPT ![r] = NoRead] /\ UNCHANGED <<page, there, writes, booked>>
  BY DEF Arrive
<1>6. CASE Current(r) /\ c # None
  <2>1. PICK v, w : v = list.items \o a.items /\ w = a.next
    OBVIOUS
  <2>2. PICK l : l = Appended(v, w, no)
    OBVIOUS
  <2>3. /\ Screen(l) /\ l.loadingMore = no /\ l.filter = list.filter
        /\ l.shownFor = list.shownFor /\ l.items = v /\ l.next = w
        /\ l.token = list.token /\ l.loading = list.loading /\ l.picked = list.picked
    BY <1>1, <1>2, <2>2, ScreenAppends
  <2>4. list' = l /\ stood' = stood
    <3>1. list' = Painted(r) /\ stood' = stood
      BY <1>3, <1>6 DEF Arrive
    <3>2. Painted(r) = [list EXCEPT !.items = @ \o read[r].answer.items, !.next = read[r].answer.next,
                                    !.loadingMore = FALSE]
      BY <1>3, <1>6 DEF Painted
    <3>3. Painted(r) = l
      BY <1>2, <1>3, <2>1, <2>2, <3>2, Zenon DEF Appended
    <3> QED  BY <3>1, <3>3
  <2>5. More(r) /\ ~Asking(r)
    BY <1>3, <1>4, <1>6 DEF More, Asking
  <2>6. c = list.next /\ f = list.shownFor /\ stood \subseteq S /\ page # "new"
    BY <1>1, <1>3, <1>6, <2>5 DEF ReadsOK
  <2>7. ReadsOK'
    BY <1>1, <1>5, <2>3, <2>4, <2>5, ReadCloses
  <2>8. /\ list.items \in Seq(Ids) /\ Ascends(list.items) /\ LeadsOn(list.items, c)
        /\ stood \subseteq Ids /\ Covers(stood, None, list.items, c) /\ c \in Ids
    BY <1>1, <1>4, <1>6, <2>6 DEF ListOK
  <2>9. Covers(stood, c, a.items, a.next)
    BY <1>4, <2>6 DEF Covers
  <2>10. /\ l.items \in Seq(Ids) /\ Ascends(l.items) /\ LeadsOn(l.items, l.next)
        /\ Covers(stood, None, l.items, l.next)
        /\ ToSet(l.items) = ToSet(list.items) \cup ToSet(a.items)
    <3>1. Continues(stood, list.items, c, a.items, a.next)
      BY <1>4, <2>8, <2>9 DEF Continues
    <3>2. l.items = list.items \o a.items /\ l.next = a.next
      BY <2>1, <2>3
    <3>3. PICK rest, n : rest = a.items /\ n = a.next
      OBVIOUS
    <3>4. PICK all : all = list.items \o rest
      OBVIOUS
    <3>5. Continues(stood, list.items, c, rest, n)
      BY <3>1, <3>3
    <3>6. /\ all \in Seq(Ids) /\ Ascends(all) /\ LeadsOn(all, n) /\ Covers(stood, None, all, n)
          /\ ToSet(all) = ToSet(list.items) \cup ToSet(rest)
      BY <3>4, <3>5, AppendPage
    <3>7. l.items = all /\ l.next = n
      BY <3>2, <3>3, <3>4
    <3> QED  BY <3>3, <3>6, <3>7
  <2>11. ListOK'
    BY <1>1, <1>2, <1>4, <1>5, <2>1, <2>3, <2>4, <2>6, <2>10 DEF ListOK
  <2>12. PickOK'
    BY <1>1, <1>5, <2>3, <2>4, <2>6 DEF PickOK, BookedAsShown
  <2> QED  BY <2>7, <2>11, <2>12 DEF ListsInv
<1>7. CASE Current(r) /\ c = None
  <2>1. PICK v, w : v = a.items /\ w = a.next
    OBVIOUS
  <2>2. PICK l : l = Begun(v, w, no, f)
    OBVIOUS
  <2>3. /\ Screen(l) /\ l.loading = no /\ l.filter = list.filter
        /\ l.shownFor = f /\ l.items = v /\ l.next = w
        /\ l.token = list.token /\ l.loadingMore = list.loadingMore /\ l.picked = list.picked
    BY <1>1, <1>2, <2>2, ScreenPaints
  <2>4. list' = l /\ stood' = S
    <3>1. list' = Painted(r) /\ stood' = S
      BY <1>3, <1>7 DEF Arrive
    <3>2. Painted(r) = [list EXCEPT !.items = read[r].answer.items, !.next = read[r].answer.next,
                                    !.loading = FALSE, !.shownFor = read[r].filter]
      BY <1>3, <1>7 DEF Painted
    <3>3. Painted(r) = l
      BY <1>2, <1>3, <2>1, <2>2, <3>2, Zenon DEF Begun
    <3> QED  BY <3>1, <3>3
  <2>5. Asking(r)
    BY <1>3, <1>4, <1>7 DEF Asking
  <2>6. list.loading /\ f = list.filter
    BY <1>1, <1>3, <2>5 DEF ReadsOK
  <2>7. ~More(r)
    BY <1>3, <1>7 DEF More
  <2>8. ReadsOK'
    BY <1>1, <1>5, <2>3, <2>4, <2>5, <2>7, ReadCloses
  <2>9. /\ page # "new" => S \subseteq there
        /\ page = "new" => a.next = None
    BY <1>1, <1>3 DEF ReadsOK
  <2>10. ListOK'
    BY <1>1, <1>2, <1>4, <1>5, <1>7, <2>1, <2>3, <2>4, <2>9 DEF ListOK
  <2>11. PickOK'
    BY <1>1, <1>4, <1>5, <2>1, <2>3, <2>4, <2>6 DEF PickOK, BookedAsShown
  <2> QED  BY <2>8, <2>10, <2>11 DEF ListsInv
<1>8. CASE ~Current(r)
  <2>1. PICK l : l = [list EXCEPT !.loadingMore = no]
    OBVIOUS
  <2>2. /\ Screen(l) /\ l.loadingMore = no /\ l.filter = list.filter
        /\ l.shownFor = list.shownFor /\ l.items = list.items /\ l.next = list.next
        /\ l.token = list.token /\ l.loading = list.loading /\ l.picked = list.picked
    BY <1>1, <2>1, ScreenWith
  <2>3. stood' = stood /\ ((c = None /\ list' = list) \/ (c # None /\ list' = l))
    BY <1>2, <1>3, <1>8, <2>1, Zenon DEF Arrive
  <2>4. c # None => More(r)
    BY <1>3, <1>4 DEF More
  <2>5. ReadsOK'
    BY <1>1, <1>5, <2>2, <2>3, <2>4, ReadCloses
  <2>6. ListOK'
    BY <1>1, <1>2, <1>5, <2>2, <2>3 DEF ListOK
  <2>7. PickOK'
    BY <1>1, <1>5, <2>2, <2>3 DEF PickOK, BookedAsShown
  <2> QED  BY <2>5, <2>6, <2>7 DEF ListsInv
<1> QED  BY <1>6, <1>7, <1>8

LEMMA FailStep ==
    ASSUME ListsInv, NEW r \in Reads, Fail(r)
    PROVE  ListsInv'
<1>1. ReadsOK /\ ListOK /\ PickOK /\ read[r] # NoRead
  BY DEF ListsInv, Fail
<1>2. PICK no \in BOOLEAN : no = FALSE
  OBVIOUS
<1>3. PICK none : none = <<>>
  OBVIOUS
<1>4. none \in Seq(Ids)
  BY <1>3, EmptySeq
<1>5. read' = [read EXCEPT ![r] = NoRead] /\ UNCHANGED <<page, there, stood, writes, booked>>
  BY DEF Fail
<1>6. PICK a, b, d : /\ a = [list EXCEPT !.loadingMore = no]
                     /\ b = [list EXCEPT !.loading = no]
                     /\ d = Emptied(none, no)
  OBVIOUS
<1>7. CASE read[r].cursor # None
  <2>1. list' = a
    BY <1>2, <1>6, <1>7, Zenon DEF Fail
  <2>2. /\ Screen(a) /\ a.loadingMore = no /\ a.filter = list.filter
        /\ a.shownFor = list.shownFor /\ a.items = list.items /\ a.next = list.next
        /\ a.token = list.token /\ a.loading = list.loading /\ a.picked = list.picked
    BY <1>1, <1>6, ScreenWith
  <2>3. More(r)
    BY <1>1, <1>7 DEF More
  <2>4. ReadsOK'
    BY <1>1, <1>5, <2>1, <2>2, <2>3, ReadCloses
  <2>5. ListOK'
    BY <1>1, <1>2, <1>5, <2>1, <2>2 DEF ListOK
  <2>6. PickOK'
    BY <1>1, <1>5, <2>1, <2>2 DEF PickOK, BookedAsShown
  <2> QED  BY <2>4, <2>5, <2>6 DEF ListsInv
<1>8. CASE read[r].cursor = None /\ ~Current(r)
  <2>1. list' = list
    BY <1>8 DEF Fail
  <2>2. ReadsOK'
    BY <1>1, <1>5, <2>1, ReadCloses
  <2>3. ListOK'
    BY <1>1, <1>5, <2>1 DEF ListOK, Screen
  <2>4. PickOK'
    BY <1>1, <1>5, <2>1 DEF PickOK, BookedAsShown
  <2> QED  BY <2>2, <2>3, <2>4 DEF ListsInv
<1>9. CASE read[r].cursor = None /\ Current(r)
  <2>1. (list' = d /\ page = "new") \/ (list' = b /\ page # "new")
    BY <1>2, <1>3, <1>6, <1>9, Zenon DEF Fail, Emptied
  <2>2. /\ Screen(b) /\ b.loading = no /\ b.filter = list.filter
        /\ b.shownFor = list.shownFor /\ b.items = list.items /\ b.next = list.next
        /\ b.token = list.token /\ b.loadingMore = list.loadingMore /\ b.picked = list.picked
    BY <1>1, <1>6, ScreenWith
  <2>3. /\ Screen(d) /\ d.loading = no /\ d.filter = list.filter
        /\ d.shownFor = list.shownFor /\ d.items = none /\ d.next = list.next
        /\ d.token = list.token /\ d.loadingMore = list.loadingMore /\ d.picked = list.picked
    BY <1>1, <1>2, <1>6, ScreenEmpties
  <2>4. Asking(r) /\ list.loading
    <3>1. Asking(r)
      BY <1>1, <1>9 DEF Asking
    <3> QED  BY <1>1, <3>1 DEF ReadsOK
  <2>5. ReadsOK'
    BY <1>1, <1>5, <2>1, <2>2, <2>3, <2>4, ReadCloses
  <2>6. ToSet(none) = {} /\ Ascends(none) /\ LeadsOn(none, None)
    BY <1>3 DEF ToSet, Ascends, LeadsOn
  <2>7. page = "new" => list.next = None
    BY <1>1 DEF ListOK
  <2>8. ListOK'
    BY <1>1, <1>2, <1>4, <1>5, <2>1, <2>2, <2>3, <2>6, <2>7 DEF ListOK
  <2>9. PickOK'
    BY <1>1, <1>5, <2>1, <2>2, <2>3, <2>4, <2>6 DEF PickOK, BookedAsShown
  <2> QED  BY <2>5, <2>8, <2>9 DEF ListsInv
<1> QED  BY <1>7, <1>8, <1>9

\* What does not touch the requests, the rows or what the list says of them
LEMMA ReadsStay ==
    ASSUME ReadsOK, UNCHANGED <<page, read, stood>>, page # "new" => there' = there,
           list'.filter = list.filter, list'.shownFor = list.shownFor,
           list'.next = list.next, list'.token = list.token, list'.loading = list.loading,
           list'.loadingMore = list.loadingMore
    PROVE  ReadsOK'
<1>1. \A q \in Reads : /\ More(q)' <=> More(q)
                       /\ Asking(q)' <=> Asking(q)
                       /\ Current(q)' <=> Current(q)
  BY DEF More, Asking, Current
<1> QED  BY <1>1 DEF ReadsOK

LEMMA PickSlotStep ==
    ASSUME ListsInv, NEW id \in Ids, PickSlot(id)
    PROVE  ListsInv'
<1>1. ReadsOK /\ ListOK /\ PickOK
  BY DEF ListsInv
<1>2. PICK l : l = Picking(id)
  OBVIOUS
<1>3. list' = l /\ UNCHANGED <<page, there, stood, read, writes, booked>>
  BY <1>2 DEF PickSlot, Picking
<1>4. /\ Screen(l) /\ l.picked = id /\ l.filter = list.filter
      /\ l.shownFor = list.shownFor /\ l.items = list.items /\ l.next = list.next
      /\ l.token = list.token /\ l.loading = list.loading /\ l.loadingMore = list.loadingMore
  BY <1>1, <1>2, ScreenPicks
<1>5. page = "new" /\ ~list.loading /\ id \in ToSet(list.items)
  BY DEF PickSlot
<1>6. ReadsOK'
  BY <1>1, <1>3, <1>4, ReadsStay
<1>7. ListOK'
  BY <1>1, <1>3, <1>4 DEF ListOK
<1>8. PickOK'
  BY <1>1, <1>3, <1>4, <1>5 DEF PickOK, BookedAsShown
<1> QED  BY <1>6, <1>7, <1>8 DEF ListsInv

LEMMA SubmitStep ==
    ASSUME ListsInv, NEW r \in Reads, Submit(r)
    PROVE  ListsInv'
<1>1. ReadsOK /\ ListOK /\ PickOK
  BY DEF ListsInv
<1>2. /\ page = "new" /\ list.picked # None /\ UNCHANGED <<page, stood, writes>>
      /\ booked' = booked \cup {<<list.filter, list.picked>>}
  BY DEF Submit
<1>3. ~list.loading /\ list.picked \in Matches[list.filter]
  BY <1>1, <1>2 DEF PickOK
<1>4. BookedAsShown'
  <2>1. BookedAsShown
    BY <1>1 DEF PickOK
  <2>2. PICK b : b = <<list.filter, list.picked>>
    OBVIOUS
  <2>3. booked' = booked \cup {b} /\ b[2] \in Matches[b[1]]
    BY <1>2, <1>3, <2>2
  <2> QED  BY <2>1, <2>3 DEF BookedAsShown
<1>5. CASE list.picked \in there
  <2>1. PICK l : l = Picking(None)
    OBVIOUS
  <2>2. list' = l /\ there' = there \ {list.picked} /\ read' = read
    BY <1>5, <2>1 DEF Submit, Picking
  <2>3. /\ Screen(l) /\ l.picked = None /\ l.filter = list.filter
        /\ l.shownFor = list.shownFor /\ l.items = list.items /\ l.next = list.next
        /\ l.token = list.token /\ l.loading = list.loading /\ l.loadingMore = list.loadingMore
    BY <1>1, <2>1, ScreenPicks
  <2>4. ReadsOK'
    BY <1>1, <1>2, <2>2, <2>3, ReadsStay
  <2>5. ListOK'
    BY <1>1, <1>2, <2>2, <2>3 DEF ListOK
  <2>6. PickOK'
    BY <1>1, <1>2, <1>4, <2>2, <2>3 DEF PickOK
  <2> QED  BY <2>4, <2>5, <2>6 DEF ListsInv
<1>6. CASE list.picked \notin there
  <2>1. PICK f \in Filters, t \in {1, 2} : f = list.filter /\ t = list.token
    BY <1>1 DEF ListOK
  <2>2. PICK l : l = Loading(f)
    OBVIOUS
  <2>3. /\ list' = l /\ UNCHANGED there /\ read[r] = NoRead
        /\ read' = [read EXCEPT ![r] = [at |-> "sent", filter |-> f, cursor |-> None, token |-> t]]
    BY <1>6, <2>1, <2>2 DEF Submit, Send
  <2>4. /\ Screen(l) /\ l.filter = f /\ l.loading /\ l.loading \in BOOLEAN /\ l.picked = None
        /\ l.shownFor = list.shownFor /\ l.items = list.items /\ l.next = list.next
        /\ l.loadingMore = list.loadingMore /\ l.token = t
    BY <1>1, <1>2, <2>1, <2>2, LoadingIs
  <2>5. \A q \in Reads : read[q] = NoRead
    BY <1>1, <1>2, <1>3 DEF ReadsOK, More, Asking, Current
  <2>6. ReadsOK'
    <3>1. None \in Ids \cup {None}
      OBVIOUS
    <3> QED  BY <1>1, <1>2, <2>1, <2>3, <2>4, <2>5, <3>1, ReadOpens
  <2>7. ListOK'
    BY <1>1, <1>2, <2>1, <2>3, <2>4 DEF ListOK
  <2>8. PickOK'
    BY <1>1, <1>2, <1>4, <2>3, <2>4 DEF PickOK
  <2> QED  BY <2>6, <2>7, <2>8 DEF ListsInv
<1> QED  BY <1>5, <1>6

LEMMA InitLists == ListsInit => ListsInv
<1> SUFFICES ASSUME ListsInit  PROVE ListsInv
  OBVIOUS
<1>1. PICK f \in Filters :
         list = [filter |-> f, shownFor |-> f, items |-> <<>>, next |-> None, token |-> 1,
                 loading |-> FALSE, loadingMore |-> FALSE, mounted |-> FALSE, picked |-> None]
  BY DEF ListsInit
<1>2. PICK no \in BOOLEAN : no = FALSE
  OBVIOUS
<1>3. PICK none : none = <<>>
  OBVIOUS
<1>4. none \in Seq(Ids)
  BY <1>3, EmptySeq
<1>5. PICK l : l = list
  OBVIOUS
<1>6. l = [filter |-> f, shownFor |-> f, items |-> none, next |-> None, token |-> 1,
           loading |-> no, loadingMore |-> no, mounted |-> no, picked |-> None]
  BY <1>1, <1>2, <1>3, <1>5, Zenon
<1>7. /\ l.filter = f /\ l.shownFor = f /\ l.items = none /\ l.next = None /\ l.token = 1
      /\ l.loading = no /\ l.loadingMore = no /\ l.mounted = no /\ l.picked = None
  BY ONLY <1>6
<1>8. Screen(l)
  BY ONLY <1>6, <1>7 DEF Screen
<1>9. /\ stood = {} /\ booked = {} /\ there \subseteq Ids /\ page \in {"bookings", "customers", "new"}
      /\ read = [r \in Reads |-> NoRead]
  BY ListsAssumption DEF ListsInit
<1>10. ToSet(none) = {} /\ Ascends(none) /\ LeadsOn(none, None)
  BY <1>3 DEF ToSet, Ascends, LeadsOn
<1>11. ListOK
  BY <1>2, <1>4, <1>5, <1>7, <1>8, <1>9, <1>10 DEF ListOK, Covers
<1>12. PickOK
  BY <1>5, <1>7, <1>9, <1>10 DEF PickOK, BookedAsShown
<1>13. ReadsOK
  <2>1. \A r \in Reads : read[r] = NoRead
    BY <1>9
  <2>2. read = [r \in Reads |-> read[r]]
    BY <1>9
  <2>3. \A r \in Reads : ReadOK(read[r]) /\ ~More(r) /\ ~Asking(r)
    BY <2>1 DEF ReadOK, More, Asking
  <2>4. NoRead.at = "idle"
    BY DEF NoRead
  <2> QED  BY <2>1, <2>2, <2>3, <2>4 DEF ReadsOK
<1> QED  BY <1>11, <1>12, <1>13 DEF ListsInv

LEMMA StepLists ==
    ASSUME Patient, ListsInv, [ListsNext]_lists
    PROVE  ListsInv'
<1>1. ASSUME NEW r \in Reads, NEW f \in Filters, Load(r, f)  PROVE ListsInv'
  BY <1>1, LoadStep
<1>2. ASSUME NEW r \in Reads, LoadMore(r)  PROVE ListsInv'
  BY <1>2, LoadMoreStep
<1>3. ASSUME NEW r \in Reads, Submit(r)  PROVE ListsInv'
  BY <1>3, SubmitStep
<1>4. ASSUME NEW r \in Reads, Serve(r)  PROVE ListsInv'
  BY <1>4, ServeStep
<1>5. ASSUME NEW r \in Reads, Arrive(r)  PROVE ListsInv'
  BY <1>5, ArriveStep
<1>6. ASSUME NEW r \in Reads, Fail(r)  PROVE ListsInv'
  BY <1>6, FailStep
<1>7. ASSUME NEW id \in Ids, PickSlot(id)  PROVE ListsInv'
  BY <1>7, PickSlotStep
<1>8. ASSUME NEW id \in Ids, Write(id)  PROVE ListsInv'
  BY <1>8, WriteStep
<1>9. ASSUME UNCHANGED lists  PROVE ListsInv'
  <2>1. UNCHANGED <<page, there, stood, list, read, writes, booked>>
    BY <1>9 DEF lists
  <2>2. ReadsOK'
    BY <2>1, ReadsStay DEF ListsInv
  <2>3. ListOK'
    BY <2>1 DEF ListsInv, ListOK, Screen
  <2>4. PickOK'
    BY <2>1 DEF ListsInv, PickOK, BookedAsShown
  <2> QED  BY <2>2, <2>3, <2>4 DEF ListsInv
<1> QED  BY <1>1, <1>2, <1>3, <1>4, <1>5, <1>6, <1>7, <1>8, <1>9 DEF ListsNext

\* However many requests overlap and however their answers, failures and the diary's writes
\* fall, a list is in order, of its filter, and complete as far as it goes, and a time booked
\* by hand is of the day that was shown (cursor.ts, BookingList.vue, CustomersPage.vue,
\* NewBooking.vue) - as long as the operator waits for the two screens without a token.
THEOREM ListsSayWhatStands == ASSUME Patient PROVE ListsSpec => []ListIsWhole
<1>1. ListsInv => ListIsWhole
  <2> SUFFICES ASSUME ListsInv  PROVE ListIsWhole
    OBVIOUS
  <2>1. ListOK /\ PickOK
    BY DEF ListsInv
  <2>2. DOMAIN list.items = 1..Len(list.items)
    BY <2>1, LenProperties DEF ListOK
  <2>3. ASSUME page # "new", NEW id \in stood
        PROVE  id \in ToSet(list.items) \/ (list.next # None /\ Before(Last(list.items), id))
    BY <2>1, <2>3 DEF ListOK, Covers, KeysetWhere, Last
  <2>4. Ascends(list.items) /\ ToSet(list.items) \subseteq Matches[list.shownFor]
    BY <2>1 DEF ListOK
  <2>5. BookedAsShown
    BY <2>1 DEF PickOK
  <2>6. \A i, j \in DOMAIN list.items : i < j => Before(list.items[i], list.items[j])
    BY <2>2, <2>4 DEF Ascends
  <2> QED  BY <2>3, <2>4, <2>5, <2>6 DEF ListIsWhole
<1>2. ListsInv /\ [ListsNext]_lists => ListsInv'
  BY StepLists
<1> QED  BY <1>1, <1>2, InitLists, PTL DEF ListsSpec
=============================================================================

--------------------------- MODULE AttemptProofs ----------------------------
(***************************************************************************)
(* What is proved about BookingAttempt for every set of keys, employees,   *)
(* times, services and requests, provided no request outlives its lease    *)
(* (Outliving) and the sweep spares a key whose hold lives (BoundSwept).   *)
(*                                                                         *)
(* The argument: whoever is past begin() stands behind a lease that is     *)
(* running (LeaseHeld), so nobody else gets past begin() and nobody else   *)
(* changes the row; hence a live hold is always the one its key's row      *)
(* names (HoldNamed), and a booking a row names fits the row's request.    *)
(***************************************************************************)
EXTENDS BookingAttempt, TLAPS

\* p is a booking of what body asks for
Fits(p, body) == /\ p \in Places
                 /\ p[2] = body.slot
                 /\ body.employee \in {p[1], AnyEmployee}

PageInv ==
    /\ page # "success" => draft.key # None
    /\ page = "stripe" => reservation # None
    /\ waiting # None => page = "wizard"

RequestOK(r) ==
    /\ request[r].at # "idle" => request[r].key \in Keys /\ request[r].body \in Bodies
    /\ \/ request[r].at = "held"
       \/ request[r].at = "done" /\ request[r].outcome = "CREATED"
       => Fits(request[r].booking, request[r].body)
    /\ request[r].at = "failing" => request[r].outcome \in Outcomes \ {"CREATED"}

RowOK(k) ==
    /\ row[k].state = "ABSENT" => row[k] = NoRow
    /\ row[k].booking # None => Fits(row[k].booking, row[k].body)
    /\ row[k].state = "COMPLETED" => row[k].booking # None

Working(r) == request[r].at \in Running \ {"arrived"}

LeaseHeld(r) == Working(r) =>
    LET k == request[r].key IN
    /\ row[k].state = "IN_PROGRESS" /\ ~row[k].lapsed /\ row[k].body = request[r].body
    /\ request[r].at = "held" => row[k].booking = request[r].booking

Alone == \A r, s \in Requests :
    Working(r) /\ Working(s) /\ request[r].key = request[s].key => r = s

HoldNamed(p) == hold[p].state = "live" =>
    LET k == hold[p].key IN
    k \in Keys /\ row[k].booking = p /\ ~(row[k].state = "COMPLETED" /\ row[k].lapsed)

\* who reserves, or was refused, has no hold
NothingHeld(r) ==
    \/ request[r].at = "reserving"
    \/ request[r].at = "failing" /\ request[r].outcome = "SLOT_UNAVAILABLE"
    => \A p \in Places : hold[p].state = "live" => hold[p].key # request[r].key

ServerInv ==
    /\ \A r \in Requests : RequestOK(r) /\ LeaseHeld(r) /\ NothingHeld(r)
    /\ \A k \in Keys : RowOK(k)
    /\ \A p \in Places : HoldNamed(p)
    /\ Alone

IInv == TypeOK /\ PageInv /\ ServerInv

-----------------------------------------------------------------------------
(* Initially no key is taken and no slot held.                             *)

LEMMA InitIInv == Init => IInv
  <1> SUFFICES ASSUME Init PROVE IInv
    OBVIOUS
  <1>1. TypeOK
    BY DEF Init, ServerInit, TypeOK, ServerTypeOK, Rows, NoRow, RequestStates, Idle, Holds, Free,
           Drafts, EmptyDraft, Pages
  <1>2. PageInv
    BY DistinctAssumption DEF Init, PageInv, EmptyDraft
  <1>3. ServerInv
    BY DEF Init, ServerInit, ServerInv, RequestOK, LeaseHeld, NothingHeld, RowOK, HoldNamed, Alone,
           Working, Running, Idle, NoRow, Free
  <1> QED
    BY <1>1, <1>2, <1>3 DEF IInv

-----------------------------------------------------------------------------
(* Steps that leave rows and holds alone.                                  *)

\* A request that comes, goes on or goes disturbs nobody.
LEMMA Quiet ==
    ASSUME ServerInv, UNCHANGED <<row, hold>>,
           \A r \in Requests :
              /\ RequestOK(r)' /\ NothingHeld(r)'
              /\ Working(r)' => /\ Working(r)
                                /\ request'[r].key = request[r].key
                                /\ request'[r].body = request[r].body
              /\ request'[r].at = "held" => row[request[r].key].booking = request'[r].booking
    PROVE  ServerInv'
  <1>1. \A r \in Requests : LeaseHeld(r)'
    BY DEF ServerInv, LeaseHeld
  <1>2. \A k \in Keys : RowOK(k)'
    BY DEF ServerInv, RowOK
  <1>3. \A p \in Places : HoldNamed(p)'
    BY DEF ServerInv, HoldNamed
  <1>4. Alone'
    BY DEF ServerInv, Alone
  <1> QED
    BY <1>1, <1>2, <1>3, <1>4 DEF ServerInv

\* The end of a request: an answer for the customer, or nothing.
LEMMA Finished ==
    ASSUME TypeOK, NEW r \in Requests, NEW o \in Outcomes, NEW b \in Places \cup {None},
           Finish(r, o, b)
    PROVE  /\ request' \in [Requests -> RequestStates]
           /\ \A s \in Requests \ {r} : request'[s] = request[s]
           /\ \/ request'[r] = Idle
              \/ /\ request'[r].at = "done" /\ request'[r].key = request[r].key
                 /\ request'[r].body = request[r].body
                 /\ request'[r].outcome = o /\ request'[r].booking = b
  BY DEF TypeOK, ServerTypeOK, Finish, RequestStates, Idle
\* With that, what is said of the requests stays, and r is past its work.
LEMMA Ends ==
    ASSUME IInv, NEW r \in Requests, NEW o \in Outcomes, NEW b \in Places \cup {None},
           Finish(r, o, b), request[r].at # "idle",
           o = "CREATED" => Fits(b, request[r].body)
    PROVE  /\ request' \in [Requests -> RequestStates]
           /\ \A s \in Requests \ {r} : request'[s] = request[s]
           /\ RequestOK(r)' /\ NothingHeld(r)' /\ ~Working(r)'
  <1>1. /\ request' \in [Requests -> RequestStates]
        /\ \A s \in Requests \ {r} : request'[s] = request[s]
        /\ \/ request'[r] = Idle
           \/ /\ request'[r].at = "done" /\ request'[r].key = request[r].key
              /\ request'[r].body = request[r].body
              /\ request'[r].outcome = o /\ request'[r].booking = b
    BY Finished DEF IInv
  <1>2. RequestOK(r)'
    BY <1>1 DEF RequestOK, Idle, IInv, ServerInv
  <1>3. NothingHeld(r)' /\ ~Working(r)'
    BY <1>1 DEF NothingHeld, Working, Running, Idle
  <1> QED
    BY <1>1, <1>2, <1>3

\* What is said of a request that stays rests on the holds.
LEMMA StaysSaid ==
    ASSUME ServerInv, NEW s \in Requests, request'[s] = request[s]
    PROVE  /\ RequestOK(s)' /\ (Working(s)' <=> Working(s))
           /\ hold' = hold => NothingHeld(s)'
           /\ row' = row => LeaseHeld(s)'
  BY DEF ServerInv, RequestOK, Working, NothingHeld, LeaseHeld

\* A request that ends and leaves the rows alone.
LEMMA EndsQuietly ==
    ASSUME IInv, NEW r \in Requests, NEW o \in Outcomes, NEW b \in Places \cup {None},
           Finish(r, o, b), request[r].at # "idle",
           o = "CREATED" => Fits(b, request[r].body), UNCHANGED <<row, hold>>
    PROVE  ServerInv' /\ request' \in [Requests -> RequestStates]
  <1>1. \A s \in Requests :
           /\ RequestOK(s)' /\ NothingHeld(s)'
           /\ Working(s)' => Working(s) /\ request'[s] = request[s]
           /\ request'[s].at = "held" => row[request[s].key].booking = request'[s].booking
    BY Ends, StaysSaid DEF IInv, ServerInv, LeaseHeld, Working, Running
  <1> QED
    BY <1>1, Quiet, Ends DEF IInv

\* A working request that goes on with its work and leaves the rows alone.
LEMMA GoesOnQuietly ==
    ASSUME IInv, NEW r \in Requests, Working(r), UNCHANGED <<row, hold>>,
           NEW q \in RequestStates, request' = [request EXCEPT ![r] = q],
           q.key = request[r].key, q.body = request[r].body, q.at \in Running,
           q.at = "held" => Fits(q.booking, q.body) /\ q.booking = row[q.key].booking,
           q.at = "failing" => q.outcome \in Outcomes \ {"CREATED"},
           q.at = "reserving" \/ (q.at = "failing" /\ q.outcome = "SLOT_UNAVAILABLE") =>
               \A p \in Places : hold[p].state = "live" => hold[p].key # q.key
    PROVE  ServerInv' /\ request' \in [Requests -> RequestStates]
  <1>1. /\ request' \in [Requests -> RequestStates] /\ request'[r] = q
        /\ \A s \in Requests \ {r} : request'[s] = request[s]
    BY DEF IInv, TypeOK, ServerTypeOK
  <1>2. request[r].at # "idle" /\ q.at # "done"
    BY DEF Working, Running
  <1>3. RequestOK(r)' /\ NothingHeld(r)'
    BY <1>1, <1>2 DEF RequestOK, NothingHeld, IInv, ServerInv
  <1>4. \A s \in Requests :
           /\ RequestOK(s)' /\ NothingHeld(s)'
           /\ Working(s)' => /\ Working(s) /\ request'[s].key = request[s].key
                             /\ request'[s].body = request[s].body
           /\ request'[s].at = "held" => row[request[s].key].booking = request'[s].booking
    BY <1>1, <1>3, StaysSaid DEF IInv, ServerInv, LeaseHeld, Working, Running
  <1> QED
    BY <1>1, <1>4, Quiet DEF IInv

-----------------------------------------------------------------------------
(* The server.                                                             *)

\* Who is at work, and what its key's row says of it.
LEMMA AtWork ==
    ASSUME IInv, NEW r \in Requests, request[r].at # "idle"
    PROVE  /\ request[r].key \in Keys /\ request[r].body \in Bodies
           /\ row[request[r].key] \in Rows /\ request[r] \in RequestStates
           /\ RowOK(request[r].key)
           /\ Working(r) => /\ row[request[r].key].state = "IN_PROGRESS"
                            /\ ~row[request[r].key].lapsed
                            /\ row[request[r].key].body = request[r].body
                            /\ request[r].at = "held" =>
                                  row[request[r].key].booking = request[r].booking
                            /\ \A s \in Requests \ {r} :
                                  Working(s) => request[s].key # request[r].key
           /\ RequestOK(r) /\ NothingHeld(r)
  BY DEF IInv, TypeOK, ServerTypeOK, ServerInv, RequestOK, LeaseHeld, Alone

\* The hold a row names is a live one of the key, or the key has none.
LEMMA Resumes ==
    ASSUME IInv, NEW k \in Keys
    PROVE  /\ Resumable(k) => Fits(row[k].booking, row[k].body)
           /\ ~Resumable(k) => \A p \in Places : hold[p].state = "live" => hold[p].key # k
  <1>1. \A p \in Places : p # None
    BY DistinctAssumption DEF Places
  <1> QED
    BY <1>1 DEF Resumable, IInv, ServerInv, RowOK, HoldNamed

\* Steps of the handler, and of begin() and the end, that leave the rows alone.
LEMMA QuietServer ==
    ASSUME IInv, NEW r \in Requests,
           \/ BeginAnswered(r) \/ Resume(r) \/ ReserveRefused(r) \/ HandlerFails(r) \/ Dies(r)
    PROVE  ServerInv' /\ request' \in [Requests -> RequestStates]
  <1> DEFINE k == request[r].key
  <1>1. request[r].at # "idle" /\ UNCHANGED <<row, hold>>
    BY DEF BeginAnswered, Resume, ReserveRefused, HandlerFails, Dies, Running
  <1>2. /\ request[r].key \in Keys /\ request[r].body \in Bodies
        /\ RowOK(request[r].key) /\ request[r] \in RequestStates
        /\ row[request[r].key] \in Rows
    BY <1>1, AtWork
  <1>3. CASE BeginAnswered(r)
    <2>1. PICK o \in Outcomes, b \in Places \cup {None} :
             Finish(r, o, b) /\ (o = "CREATED" => Fits(b, request[r].body))
      BY <1>2, <1>3 DEF BeginAnswered, Outcomes, RowOK, Rows
    <2> QED
      BY <1>1, <2>1, EndsQuietly
  <1>4. CASE Dies(r)
    BY <1>1, <1>4, EndsQuietly DEF Dies, Outcomes
  <1>5. CASE HandlerFails(r)
    <2> DEFINE q == [request[r] EXCEPT !.at = "failing", !.outcome = "OTHER"]
    <2>1. Working(r) /\ request' = [request EXCEPT ![r] = q]
      BY <1>5 DEF HandlerFails, Working, Running
    <2>2. /\ q \in RequestStates /\ q.key = request[r].key /\ q.body = request[r].body
          /\ q.at = "failing" /\ q.outcome = "OTHER"
      BY <1>2 DEF RequestStates, Running, Outcomes
    <2> QED
      BY <1>1, <2>1, <2>2, GoesOnQuietly DEF Running, Outcomes
  <1>6. CASE Resume(r)
    <2> DEFINE a == IF Resumable(k) THEN "held" ELSE "reserving"
               b == IF Resumable(k) THEN row[k].booking ELSE None
               q == [request[r] EXCEPT !.at = a, !.booking = b]
    <2>1. Working(r) /\ request' = [request EXCEPT ![r] = q]
      BY <1>6 DEF Resume, Working, Running
    <2>2. /\ q \in RequestStates /\ q.key = request[r].key /\ q.body = request[r].body
          /\ q.at = a /\ q.booking = b
      BY <1>2 DEF RequestStates, Running, Rows
    <2>3. row[k].body = request[r].body
      BY <1>1, <2>1, AtWork
    <2>4. CASE Resumable(k)
      <3>1. q.at = "held" /\ Fits(q.booking, q.body) /\ q.booking = row[q.key].booking
        BY <1>2, <2>2, <2>3, <2>4, Resumes
      <3> HIDE DEF q
      <3> QED
        BY <1>1, <2>1, <2>2, <3>1, GoesOnQuietly DEF Running
    <2>5. CASE ~Resumable(k)
      <3>1. q.at = "reserving" /\ \A p \in Places : hold[p].state = "live" => hold[p].key # q.key
        BY <1>2, <2>2, <2>5, Resumes
      <3> HIDE DEF q
      <3> QED
        BY <1>1, <2>1, <2>2, <3>1, GoesOnQuietly DEF Running
    <2> QED
      BY <2>4, <2>5
  <1>7. CASE ReserveRefused(r)
    <2>1. PICK o \in Outcomes \ {"CREATED"} : request' = [request EXCEPT ![r].at = "failing",
                                                           ![r].outcome = o]
      BY <1>7 DEF ReserveRefused, Outcomes
    <2> DEFINE q == [request[r] EXCEPT !.at = "failing", !.outcome = o]
    <2>2. Working(r) /\ request' = [request EXCEPT ![r] = q]
      BY <1>7, <2>1 DEF ReserveRefused, Working, Running
    <2>3. /\ q \in RequestStates /\ q.key = request[r].key /\ q.body = request[r].body
          /\ q.at = "failing" /\ q.outcome = o
      BY <1>2 DEF RequestStates, Running
    <2>4. \A p \in Places : hold[p].state = "live" => hold[p].key # request[r].key
      BY <1>1, <1>7, AtWork DEF ReserveRefused, NothingHeld
    <2> QED
      BY <1>1, <2>2, <2>3, <2>4, GoesOnQuietly DEF Running
  <1> QED
    BY <1>3, <1>4, <1>5, <1>6, <1>7
\* A step of one request on its key's row, which nobody else works on: the other rows and
\* requests are as before, and so are the holds of other keys.
LEMMA OwnRow ==
    ASSUME IInv, NEW r \in Requests, NEW k \in Keys, UNCHANGED hold,
           \A s \in Requests \ {r} : Working(s) => request[s].key # k,
           \A s \in Requests \ {r} : request'[s] = request[s],
           \A j \in Keys \ {k} : row'[j] = row[j],
           RequestOK(r)', LeaseHeld(r)', NothingHeld(r)', RowOK(k)',
           Working(r)' => request'[r].key = k,
           \A p \in Places : hold[p].key = k => HoldNamed(p)'
    PROVE  ServerInv'
  <1>1. \A s \in Requests : RequestOK(s)' /\ NothingHeld(s)'
    BY StaysSaid DEF IInv
  <1>2. \A s \in Requests : LeaseHeld(s)'
    <2>1. ASSUME NEW s \in Requests \ {r} PROVE LeaseHeld(s)'
      BY <2>1 DEF IInv, ServerInv, RequestOK, LeaseHeld, Working, Running
    <2> QED
      BY <2>1
  <1>3. \A j \in Keys : RowOK(j)'
    BY DEF IInv, ServerInv, RowOK
  <1>4. \A p \in Places : HoldNamed(p)'
    BY DEF IInv, ServerInv, HoldNamed
  <1>5. Alone'
    BY DEF IInv, ServerInv, Alone, Working
  <1> QED
    BY <1>1, <1>2, <1>3, <1>4, <1>5 DEF ServerInv

\* While the lease of a row does not run, nobody works under its key.
LEMMA NobodyWorks ==
    ASSUME IInv, NEW k \in Keys, row[k].state # "IN_PROGRESS" \/ row[k].lapsed
    PROVE  \A r \in Requests : Working(r) => request[r].key # k
  BY DEF IInv, ServerInv, LeaseHeld

\* begin() claims a key of which no hold is left, or one whose lease has run out.
LEMMA BeginStep ==
    ASSUME IInv, NEW r \in Requests, BeginNew(r) \/ TakeOverExpiredLease(r)
    PROVE  ServerInv' /\ request' \in [Requests -> RequestStates] /\ row' \in [Keys -> Rows]
  <1> DEFINE k == request[r].key
  <1>1. request[r].at = "arrived" /\ UNCHANGED hold
    BY DEF BeginNew, TakeOverExpiredLease
  <1>2. /\ k \in Keys /\ request[r].body \in Bodies /\ RowOK(k) /\ row[k] \in Rows
        /\ request[r] \in RequestStates
    BY <1>1, AtWork
  <1>3. /\ request' \in [Requests -> RequestStates]
        /\ request'[r].at = "begun" /\ request'[r].key = k
        /\ request'[r].body = request[r].body
        /\ \A s \in Requests \ {r} : request'[s] = request[s]
    BY <1>2 DEF BeginNew, TakeOverExpiredLease, IInv, TypeOK, ServerTypeOK, RequestStates,
                Running
  <1>4. \A s \in Requests : Working(s) => request[s].key # k
    BY <1>2, NobodyWorks DEF BeginNew, TakeOverExpiredLease, Unclaimed
  <1>5. RequestOK(r)' /\ NothingHeld(r)'
    BY <1>2, <1>3 DEF RequestOK, NothingHeld
  <1>6. CASE BeginNew(r)
    <2>1. /\ row' \in [Keys -> Rows]
          /\ row'[k] = [NoRow EXCEPT !.state = "IN_PROGRESS", !.body = request[r].body]
          /\ \A j \in Keys \ {k} : row'[j] = row[j]
      BY <1>2, <1>6 DEF BeginNew, IInv, TypeOK, ServerTypeOK, Rows, NoRow
    <2>2. RowOK(k)' /\ LeaseHeld(r)'
      BY <1>3, <2>1 DEF RowOK, LeaseHeld, NoRow
    <2>3. \A p \in Places : hold[p].state = "live" => hold[p].key # k
      <3>1. \A p \in Places : p # None
        BY DistinctAssumption DEF Places
      <3> QED
        BY <1>2, <1>6, <3>1 DEF BeginNew, Unclaimed, IInv, ServerInv, HoldNamed, RowOK, NoRow
    <2>4. \A p \in Places : hold[p].key = k => HoldNamed(p)'
      BY <1>1, <2>3 DEF HoldNamed
    <2> QED
      BY <1>1, <1>2, <1>3, <1>4, <1>5, <2>1, <2>2, <2>4, OwnRow
  <1>7. CASE TakeOverExpiredLease(r)
    <2>1. /\ row' \in [Keys -> Rows]
          /\ row'[k] = [row[k] EXCEPT !.lapsed = FALSE]
          /\ \A j \in Keys \ {k} : row'[j] = row[j]
      BY <1>2, <1>7 DEF TakeOverExpiredLease, IInv, TypeOK, ServerTypeOK, Rows
    <2>2. /\ row'[k].state = "IN_PROGRESS" /\ row'[k].body = row[k].body
          /\ row[k].body = request[r].body
          /\ row'[k].booking = row[k].booking /\ ~row'[k].lapsed
      BY <1>2, <1>7, <2>1 DEF TakeOverExpiredLease, Rows
    <2>3. RowOK(k)' /\ LeaseHeld(r)'
      BY <1>2, <1>3, <2>2 DEF RowOK, LeaseHeld
    <2>4. \A p \in Places : hold[p].key = k => HoldNamed(p)'
      BY <1>1, <2>2 DEF HoldNamed, IInv, ServerInv
    <2> QED
      BY <1>1, <1>2, <1>3, <1>4, <1>5, <2>1, <2>3, <2>4, OwnRow
  <1> QED
    BY <1>6, <1>7

\* The end of a request on its own row: the booking is stored with the answer; or the
\* attempt is given up, and its row is kept while it names a booking.
LEMMA EndStep ==
    ASSUME IInv, NEW r \in Requests, NEW k, k = request[r].key, Complete(r) \/ Abandon(r)
    PROVE  ServerInv' /\ request' \in [Requests -> RequestStates] /\ row' \in [Keys -> Rows]
  <1>1. request[r].at # "idle" /\ UNCHANGED hold /\ Working(r)
    BY DEF Complete, Abandon, Working, Running
  <1>2. /\ k \in Keys /\ request[r].body \in Bodies /\ RowOK(k) /\ row[k] \in Rows
        /\ request[r] \in RequestStates /\ RequestOK(r)
        /\ row[k].state = "IN_PROGRESS" /\ row[k].body = request[r].body
        /\ \A s \in Requests \ {r} : Working(s) => request[s].key # k
    BY <1>1, AtWork
  <1>3. \A p \in Places : p # None
    BY DistinctAssumption DEF Places
  <1>4. CASE Complete(r)
    <2>1. Fits(request[r].booking, request[r].body)
      BY <1>2, <1>4 DEF Complete, RequestOK
    <2>2. /\ request' \in [Requests -> RequestStates]
          /\ \A s \in Requests \ {r} : request'[s] = request[s]
          /\ RequestOK(r)' /\ NothingHeld(r)' /\ ~Working(r)'
      BY <1>1, <1>4, <2>1, Ends DEF Complete, Outcomes, Fits
    <2>3. /\ row' \in [Keys -> Rows]
          /\ row'[k].state = "COMPLETED" /\ ~row'[k].lapsed
          /\ row'[k].booking = request[r].booking /\ row'[k].body = row[k].body
          /\ \A j \in Keys \ {k} : row'[j] = row[j]
      BY <1>2, <1>4, <2>1 DEF Complete, IInv, TypeOK, ServerTypeOK, Rows, Fits
    <2>4. RowOK(k)' /\ LeaseHeld(r)'
      BY <1>2, <1>3, <2>1, <2>2, <2>3 DEF RowOK, LeaseHeld, Fits
    <2>5. \A p \in Places : hold[p].key = k => HoldNamed(p)'
      BY <1>1, <1>2, <1>4, <2>3 DEF Complete, HoldNamed, IInv, ServerInv, LeaseHeld
    <2> QED
      BY <1>1, <1>2, <2>2, <2>3, <2>4, <2>5, OwnRow
  <1>5. CASE Abandon(r)
    <2>1. request[r].outcome \in Outcomes \ {"CREATED"}
      BY <1>2, <1>5 DEF Abandon, RequestOK
    <2>2. /\ request' \in [Requests -> RequestStates]
          /\ \A s \in Requests \ {r} : request'[s] = request[s]
          /\ RequestOK(r)' /\ NothingHeld(r)' /\ ~Working(r)'
      BY <1>1, <1>5, <2>1, Ends DEF Abandon
    <2>3. /\ row' \in [Keys -> Rows]
          /\ row'[k] = IF row[k].booking = None THEN NoRow ELSE [row[k] EXCEPT !.lapsed = TRUE]
          /\ \A j \in Keys \ {k} : row'[j] = row[j]
      BY <1>2, <1>5 DEF Abandon, IInv, TypeOK, ServerTypeOK, Rows, NoRow
    <2>4. RowOK(k)' /\ LeaseHeld(r)'
      BY <1>2, <2>2, <2>3 DEF RowOK, LeaseHeld, Rows, NoRow
    <2>5. \A p \in Places : hold[p].key = k => HoldNamed(p)'
      BY <1>1, <1>2, <1>3, <2>3 DEF HoldNamed, IInv, ServerInv, Rows
    <2> QED
      BY <1>1, <1>2, <2>2, <2>3, <2>4, <2>5, OwnRow
  <1> QED
    BY <1>4, <1>5
\* A hold is put on a free slot and named by the row of its key, which had none.
LEMMA ReserveStep ==
    ASSUME IInv, NEW r \in Requests, NEW k, k = request[r].key, Reserve(r)
    PROVE  /\ ServerInv' /\ request' \in [Requests -> RequestStates]
           /\ row' \in [Keys -> Rows] /\ hold' \in [Places -> Holds]
  <1>1. request[r].at = "reserving" /\ Working(r)
    BY DEF Reserve, Working, Running
  <1>2. /\ k \in Keys /\ request[r].body \in Bodies /\ row[k] \in Rows
        /\ request[r] \in RequestStates
        /\ row[k].state = "IN_PROGRESS" /\ ~row[k].lapsed /\ row[k].body = request[r].body
        /\ \A s \in Requests \ {r} : Working(s) => request[s].key # k
        /\ \A q \in Places : hold[q].state = "live" => hold[q].key # k
    BY <1>1, AtWork DEF NothingHeld
  <1>3. PICK e \in Candidates(request[r].body) :
           LET p == <<e, request[r].body.slot>> IN
           /\ hold[p].state = "free"
           /\ hold' = [hold EXCEPT ![p] = [state |-> "live", key |-> k]]
           /\ row' = [row EXCEPT ![k].booking = p]
           /\ request' = [request EXCEPT ![r].at = "held", ![r].booking = p]
    BY DEF Reserve
  <1>4. PICK p \in Places : /\ p = <<e, request[r].body.slot>>
                            /\ Fits(p, request[r].body)
    <2>1. /\ request[r].body.employee \in Employees \cup {AnyEmployee}
          /\ request[r].body.slot \in Times
      BY <1>2 DEF Bodies
    <2>2. e \in Employees /\ request[r].body.employee \in {e, AnyEmployee}
      BY <1>3, <2>1 DEF Candidates
    <2> DEFINE q == <<e, request[r].body.slot>>
    <2>3. q \in Places /\ q[1] = e /\ q[2] = request[r].body.slot
      BY <2>1, <2>2 DEF Places
    <2>4. Fits(q, request[r].body)
      BY <2>2, <2>3 DEF Fits
    <2> QED
      BY <2>3, <2>4
  <1>5. /\ hold' \in [Places -> Holds] /\ hold'[p] = [state |-> "live", key |-> k]
        /\ \A q \in Places \ {p} : hold'[q] = hold[q]
    BY <1>2, <1>3, <1>4 DEF IInv, TypeOK, ServerTypeOK, Holds
  <1>6. /\ row' \in [Keys -> Rows] /\ row'[k] = [row[k] EXCEPT !.booking = p]
        /\ \A j \in Keys \ {k} : row'[j] = row[j]
    BY <1>2, <1>3, <1>4 DEF IInv, TypeOK, ServerTypeOK, Rows
  <1>7. /\ request' \in [Requests -> RequestStates]
        /\ request'[r].at = "held" /\ request'[r].booking = p
        /\ request'[r].key = k /\ request'[r].body = request[r].body
        /\ \A s \in Requests \ {r} : request'[s] = request[s]
    BY <1>2, <1>3, <1>4 DEF IInv, TypeOK, ServerTypeOK, RequestStates, Running
  <1>8. /\ row'[k].state = "IN_PROGRESS" /\ ~row'[k].lapsed
        /\ row'[k].body = request[r].body /\ row'[k].booking = p
    BY <1>2, <1>6 DEF Rows
  <1>9. \A s \in Requests : RequestOK(s)'
    BY <1>2, <1>4, <1>7 DEF RequestOK, IInv, ServerInv
  <1>10. \A s \in Requests : LeaseHeld(s)'
    <2>1. LeaseHeld(r)'
      BY <1>7, <1>8 DEF LeaseHeld
    <2>2. ASSUME NEW s \in Requests \ {r} PROVE LeaseHeld(s)'
      BY <1>2, <1>6, <1>7 DEF LeaseHeld, Working, Running, IInv, ServerInv, RequestOK
    <2> QED
      BY <2>1, <2>2
  <1>11. \A s \in Requests : NothingHeld(s)'
    <2>1. NothingHeld(r)'
      BY <1>7 DEF NothingHeld
    <2>2. ASSUME NEW s \in Requests \ {r} PROVE NothingHeld(s)'
      BY <1>2, <1>5, <1>7 DEF NothingHeld, Working, Running, IInv, ServerInv
    <2> QED
      BY <2>1, <2>2
  <1>12. \A j \in Keys : RowOK(j)'
    BY <1>4, <1>6, <1>8 DEF RowOK, IInv, ServerInv
  <1>13. \A q \in Places : HoldNamed(q)'
    <2>1. HoldNamed(p)'
      BY <1>2, <1>5, <1>8 DEF HoldNamed
    <2>2. ASSUME NEW q \in Places \ {p} PROVE HoldNamed(q)'
      BY <1>2, <1>5, <1>6 DEF HoldNamed, IInv, ServerInv
    <2> QED
      BY <2>1, <2>2
  <1>14. Alone'
    BY <1>2, <1>7 DEF Alone, Working, IInv, ServerInv
  <1> QED
    BY <1>5, <1>6, <1>7, <1>9, <1>10, <1>11, <1>12, <1>13, <1>14 DEF ServerInv

\* Every step of the server.
LEMMA ServerStep ==
    ASSUME IInv, NEW r \in Requests, Server(r), UNCHANGED browserVars
    PROVE  IInv'
  <1>1. ServerInv' /\ ServerTypeOK'
    <2>1. CASE \/ BeginAnswered(r) \/ Resume(r) \/ ReserveRefused(r) \/ HandlerFails(r)
               \/ Dies(r)
      <3>1. UNCHANGED <<row, hold>>
        BY <2>1 DEF BeginAnswered, Resume, ReserveRefused, HandlerFails, Dies
      <3> QED
        BY <2>1, <3>1, QuietServer DEF browserVars, IInv, TypeOK, ServerTypeOK
    <2>2. CASE BeginNew(r) \/ TakeOverExpiredLease(r)
      BY <2>2, BeginStep DEF BeginNew, TakeOverExpiredLease, browserVars, IInv, TypeOK,
                             ServerTypeOK
    <2>3. CASE Complete(r) \/ Abandon(r)
      BY <2>3, EndStep DEF Complete, Abandon, browserVars, IInv, TypeOK, ServerTypeOK
    <2>4. CASE Reserve(r)
      BY <2>4, ReserveStep DEF browserVars, IInv, TypeOK, ServerTypeOK
    <2> QED
      BY <2>1, <2>2, <2>3, <2>4 DEF Server
  <1> QED
    BY <1>1 DEF IInv, TypeOK, PageInv, browserVars

-----------------------------------------------------------------------------
(* Time, the sweep and the other customers.                                *)

\* A row that changes while nobody works under its key.
LEMMA RowAlone ==
    ASSUME IInv, NEW k \in Keys, UNCHANGED <<request, hold>>,
           \A r \in Requests : Working(r) => request[r].key # k,
           \A j \in Keys \ {k} : row'[j] = row[j],
           RowOK(k)', \A p \in Places : hold[p].key = k => HoldNamed(p)'
    PROVE  ServerInv'
  <1>1. \A r \in Requests : RequestOK(r)' /\ NothingHeld(r)'
    BY StaysSaid DEF IInv
  <1>2. \A r \in Requests : LeaseHeld(r)'
    BY DEF LeaseHeld, Working, Running, IInv, ServerInv, RequestOK
  <1>3. \A j \in Keys : RowOK(j)'
    BY DEF RowOK, IInv, ServerInv
  <1>4. \A p \in Places : HoldNamed(p)'
    BY DEF HoldNamed, IInv, ServerInv
  <1>5. Alone'
    BY DEF Alone, Working, IInv, ServerInv
  <1> QED
    BY <1>1, <1>2, <1>3, <1>4, <1>5 DEF ServerInv

\* A hold that ends, or comes to another customer, frees its key.
LEMMA HoldsEnd ==
    ASSUME IInv, NEW p \in Places, UNCHANGED <<row, request>>,
           hold'[p].state # "live", \A q \in Places \ {p} : hold'[q] = hold[q]
    PROVE  ServerInv'
  <1>1. \A q \in Places : hold'[q].state = "live" => hold'[q] = hold[q]
    OBVIOUS
  <1>2. \A r \in Requests : RequestOK(r)' /\ LeaseHeld(r)' /\ NothingHeld(r)'
    BY <1>1 DEF RequestOK, LeaseHeld, NothingHeld, Working, IInv, ServerInv
  <1>3. \A j \in Keys : RowOK(j)'
    BY DEF RowOK, IInv, ServerInv
  <1>4. \A q \in Places : HoldNamed(q)'
    BY <1>1 DEF HoldNamed, IInv, ServerInv
  <1>5. Alone'
    BY DEF Alone, Working, IInv, ServerInv
  <1> QED
    BY <1>2, <1>3, <1>4, <1>5 DEF ServerInv

\* What happens around the requests, if no lease runs out under its request and the
\* sweep leaves the key of a live hold.
LEMMA EnvironmentStep ==
    ASSUME IInv, ~Outliving, ~BoundSwept, Environment, UNCHANGED browserVars
    PROVE  IInv'
  <1>1. ASSUME NEW k \in Keys, LeaseLapses(k) \/ ReplayWindowCloses(k)
        PROVE  ServerInv' /\ ServerTypeOK'
    <2>1. /\ row[k] \in Rows /\ RowOK(k)
          /\ row' \in [Keys -> Rows] /\ row'[k] = [row[k] EXCEPT !.lapsed = TRUE]
          /\ \A j \in Keys \ {k} : row'[j] = row[j]
          /\ UNCHANGED <<request, hold>>
      BY <1>1 DEF LeaseLapses, ReplayWindowCloses, IInv, TypeOK, ServerTypeOK, ServerInv, Rows
    <2>2. /\ row'[k].state = row[k].state /\ row'[k].booking = row[k].booking
          /\ row'[k].body = row[k].body
      BY <2>1 DEF Rows
    <2>3. RowOK(k)'
      BY <1>1, <2>1, <2>2 DEF RowOK, LeaseLapses, ReplayWindowCloses
    <2>4. \A r \in Requests : Working(r) => request[r].key # k
      BY <1>1 DEF LeaseLapses, ReplayWindowCloses, Busy, Working
    <2>5. \A p \in Places : hold[p].key = k => HoldNamed(p)'
      BY <1>1, <2>1, <2>2 DEF HoldNamed, LeaseLapses, ReplayWindowCloses, IInv, ServerInv
    <2> QED
      BY <2>1, <2>3, <2>4, <2>5, RowAlone DEF browserVars, IInv, TypeOK, ServerTypeOK
  <1>2. ASSUME NEW k \in Keys, Sweep(k)
        PROVE  ServerInv' /\ ServerTypeOK'
    <2>1. /\ row' \in [Keys -> Rows] /\ row'[k] = NoRow
          /\ \A j \in Keys \ {k} : row'[j] = row[j]
          /\ UNCHANGED <<request, hold>>
      BY <1>2 DEF Sweep, IInv, TypeOK, ServerTypeOK, Rows, NoRow
    <2>2. RowOK(k)'
      BY <2>1 DEF RowOK, NoRow
    <2>3. \A r \in Requests : Working(r) => request[r].key # k
      BY <1>2, NobodyWorks DEF Sweep
    <2>4. \A p \in Places : hold[p].key = k => HoldNamed(p)'
      BY <1>2, <2>1, Resumes DEF HoldNamed, Sweep
    <2> QED
      BY <2>1, <2>2, <2>3, <2>4, RowAlone DEF browserVars, IInv, TypeOK, ServerTypeOK
  <1>3. ASSUME NEW p \in Places, HoldLapses(p) \/ HoldReleased(p) \/ OthersBook(p)
        PROVE  ServerInv' /\ ServerTypeOK'
    <2>1. /\ hold' \in [Places -> Holds] /\ hold'[p].state # "live"
          /\ \A q \in Places \ {p} : hold'[q] = hold[q]
          /\ UNCHANGED <<row, request>>
      BY <1>3 DEF HoldLapses, HoldReleased, OthersBook, Free, Booked, Holds, IInv, TypeOK,
                  ServerTypeOK
    <2> QED
      BY <2>1, HoldsEnd DEF browserVars, IInv, TypeOK, ServerTypeOK
  <1>4. ServerInv' /\ ServerTypeOK'
    BY <1>1, <1>2, <1>3 DEF Environment
  <1> QED
    BY <1>4 DEF IInv, TypeOK, PageInv, browserVars
-----------------------------------------------------------------------------
(* The browser.                                                            *)

\* Where the server is left alone, what is said of it stays.
LEMMA ServerAlone ==
    ASSUME ServerInv, UNCHANGED serverVars
    PROVE  ServerInv'
  BY DEF ServerInv, serverVars, RequestOK, LeaseHeld, NothingHeld, RowOK, HoldNamed, Alone, Working

\* The setters of the draft store give a draft, and touch the key only to renew it.
LEMMA DraftFacts ==
    ASSUME draft \in Drafts
    PROVE  /\ EmptyDraft \in Drafts /\ EmptyDraft.key = None
           /\ \A v \in Services : SetService(draft, v) \in Drafts
                                  /\ SetService(draft, v).key = draft.key
           /\ \A e \in Employees \cup {AnyEmployee} : SetEmployee(draft, e) \in Drafts
                                                      /\ SetEmployee(draft, e).key = draft.key
           /\ ClearSlot(draft) \in Drafts /\ ClearSlot(draft).key = draft.key
           /\ \A k \in Keys : /\ Begun(EmptyDraft, k) \in Drafts
                              /\ Begun(EmptyDraft, k).key = k
                              /\ ExpireReservation(draft, k) \in Drafts
                              /\ ExpireReservation(draft, k).key = k
  BY DEF Drafts, EmptyDraft, SetService, SetEmployee, ClearSlot, Begun, ExpireReservation

\* A time is chosen for a service and an employee that were chosen.
LEMMA SlotFacts ==
    ASSUME draft \in Drafts, CanReach(draft, "slot"), NEW t \in Times
    PROVE  SetSlot(draft, t) \in Drafts /\ SetSlot(draft, t).key = draft.key
  <1>1. <<draft.service, draft.employee>> \in Services \X (Employees \cup {AnyEmployee})
    BY DEF Drafts, CanReach
  <1> QED
    BY <1>1 DEF Drafts, SetSlot

\* Keys are not None.
LEMMA KeysAreKeys == \A k \in Keys : k # None
  BY DistinctAssumption

\* The pages that change the draft, the reservation or the route only.
LEMMA PageStep ==
    ASSUME IInv,
           \/ \E v \in Services : ChooseService(v)
           \/ \E e \in Employees \cup {AnyEmployee} : ChooseEmployee(e)
           \/ \E t \in Times : SelectSlot(t)
           \/ CountdownEnds \/ Redirect \/ GiveUpPayment \/ Restart
    PROVE  IInv'
  <1>1. UNCHANGED serverVars /\ UNCHANGED waiting
    BY DEF ChooseService, ChooseEmployee, SelectSlot, CountdownEnds, Redirect, GiveUpPayment,
           Restart
  <1>2. ServerInv' /\ ServerTypeOK'
    BY <1>1, ServerAlone DEF IInv, TypeOK, ServerTypeOK, serverVars
  <1>3. draft \in Drafts /\ reservation \in Places \cup {None} /\ page \in Pages
    BY DEF IInv, TypeOK
  <1>4. /\ draft' \in Drafts
        /\ draft' = draft \/ draft'.key = draft.key \/ draft'.key \in Keys
    BY <1>3, DraftFacts, SlotFacts
    DEF ChooseService, ChooseEmployee, SelectSlot, CountdownEnds, Redirect, GiveUpPayment, Restart
  <1>5. /\ reservation' \in Places \cup {None} /\ page' \in Pages
        /\ page' = "stripe" => reservation' # None
    BY <1>3 DEF ChooseService, ChooseEmployee, SelectSlot, CountdownEnds, Redirect, GiveUpPayment,
                Restart, Pages, IInv, PageInv
  <1>6. page' # "success" => draft'.key # None
    BY <1>4, KeysAreKeys, DraftFacts, <1>3
    DEF ChooseService, ChooseEmployee, SelectSlot, CountdownEnds, Redirect, GiveUpPayment,
        Restart, IInv, PageInv
  <1>7. waiting' # None => page' = "wizard"
    BY <1>1 DEF ChooseService, ChooseEmployee, SelectSlot, CountdownEnds, Redirect, GiveUpPayment,
                Restart, IInv, PageInv
  <1> QED
    BY <1>2, <1>4, <1>5, <1>6, <1>7 DEF IInv, TypeOK, PageInv

\* A request leaves with a key and with everything it asks for.
LEMMA SubmitStep ==
    ASSUME IInv, NEW r \in Requests, Submit(r)
    PROVE  IInv'
  <1> DEFINE body == [service |-> draft.service, employee |-> draft.employee,
                      slot |-> draft.slot]
  <1>1. draft \in Drafts /\ draft.key \in Keys /\ body \in Bodies
    BY DEF Submit, CanReach, IInv, TypeOK, PageInv, Drafts, Bodies
  <1>2. /\ request' = [request EXCEPT ![r] = [at |-> "arrived", key |-> draft.key, body |-> body,
                                              booking |-> None, outcome |-> None]]
        /\ waiting' = r /\ page = "wizard"
        /\ UNCHANGED <<row, hold, draft, reservation, page>>
    BY DEF Submit, Send
  <1> HIDE DEF body
  <1>3. /\ request' \in [Requests -> RequestStates]
        /\ request'[r].at = "arrived" /\ request'[r].key = draft.key /\ request'[r].body = body
        /\ \A s \in Requests \ {r} : request'[s] = request[s]
    BY <1>1, <1>2 DEF IInv, TypeOK, ServerTypeOK, RequestStates, Running
  <1>4. RequestOK(r)' /\ NothingHeld(r)' /\ ~Working(r)'
    BY <1>1, <1>3 DEF RequestOK, NothingHeld, Working
  <1>5. \A s \in Requests :
           /\ RequestOK(s)' /\ NothingHeld(s)'
           /\ Working(s)' => /\ Working(s) /\ request'[s].key = request[s].key
                             /\ request'[s].body = request[s].body
           /\ request'[s].at = "held" => row[request[s].key].booking = request'[s].booking
    BY <1>2, <1>3, <1>4, StaysSaid DEF IInv, ServerInv, LeaseHeld, Working, Running
  <1>6. ServerInv'
    BY <1>2, <1>5, Quiet DEF IInv
  <1> QED
    BY <1>2, <1>3, <1>6 DEF IInv, TypeOK, ServerTypeOK, PageInv

\* An answer that was read, lost or left behind; the page goes on from there.
LEMMA AnswerStep ==
    ASSUME IInv, (\E r \in Requests : Created(r) \/ Refused(r) \/ AnswerLost(r)) \/ Reload
    PROVE  IInv'
  <1>1. UNCHANGED <<row, hold>> /\ waiting' = None
    BY DEF Created, Refused, AnswerLost, Reload
  <1>2. /\ request' \in [Requests -> RequestStates]
        /\ \A s \in Requests : request'[s] = request[s] \/ request'[s] = Idle
    BY DEF Created, Refused, AnswerLost, Reload, IInv, TypeOK, ServerTypeOK, RequestStates, Idle
  <1>3. \A s \in Requests :
           /\ RequestOK(s)' /\ NothingHeld(s)'
           /\ Working(s)' => /\ Working(s) /\ request'[s].key = request[s].key
                             /\ request'[s].body = request[s].body
           /\ request'[s].at = "held" => row[request[s].key].booking = request'[s].booking
    <2> SUFFICES ASSUME NEW s \in Requests
                 PROVE  /\ RequestOK(s)' /\ NothingHeld(s)'
                        /\ Working(s)' => /\ Working(s) /\ request'[s].key = request[s].key
                                          /\ request'[s].body = request[s].body
                        /\ request'[s].at = "held" =>
                              row[request[s].key].booking = request'[s].booking
      OBVIOUS
    <2>1. CASE request'[s] = request[s]
      BY <1>1, <2>1, StaysSaid DEF IInv, ServerInv, LeaseHeld, Working, Running
    <2>2. CASE request'[s] = Idle
      BY <2>2 DEF RequestOK, NothingHeld, Working, Running, Idle
    <2> QED
      BY <1>2, <2>1, <2>2
  <1>4. ServerInv'
    BY <1>1, <1>3, Quiet DEF IInv
  <1>5. /\ draft \in Drafts /\ reservation \in Places \cup {None} /\ page \in Pages
        /\ \A r \in Requests : request[r].booking \in Places \cup {None}
    BY DEF IInv, TypeOK, ServerTypeOK, RequestStates
  <1>6. /\ draft' \in Drafts
        /\ draft' = draft \/ draft'.key = draft.key \/ draft'.key \in Keys
    BY <1>5, DraftFacts DEF Created, Refused, AnswerLost, Reload
  <1>7. /\ reservation' \in Places \cup {None} /\ page' \in {"wizard", "checkout"}
    BY <1>5, DistinctAssumption DEF Created, Refused, AnswerLost, Reload, IInv, PageInv
  <1>8. page # "success"
    BY DistinctAssumption DEF Created, Refused, AnswerLost, Reload, IInv, PageInv
  <1>9. draft'.key # None
    BY <1>6, <1>8, KeysAreKeys DEF IInv, PageInv
  <1> QED
    BY <1>1, <1>2, <1>4, <1>6, <1>7, <1>9 DEF IInv, TypeOK, ServerTypeOK, PageInv, Pages

\* A hold that is paid for is a hold of the attempt no more.
LEMMA PayStep ==
    ASSUME IInv, Pay
    PROVE  IInv'
  <1>1. reservation \in Places
    BY DEF Pay, IInv, TypeOK, PageInv
  <1>2. /\ hold' \in [Places -> Holds] /\ hold'[reservation] = Booked
        /\ \A q \in Places \ {reservation} : hold'[q] = hold[q]
        /\ UNCHANGED <<row, request, waiting>>
    BY <1>1 DEF Pay, Booked, Holds, IInv, TypeOK, ServerTypeOK
  <1>3. ServerInv'
    BY <1>1, <1>2, HoldsEnd DEF Booked
  <1>4. waiting = None
    BY DEF Pay, IInv, PageInv
  <1> QED
    BY <1>2, <1>3, <1>4, DraftFacts DEF Pay, IInv, TypeOK, ServerTypeOK, PageInv, Pages

-----------------------------------------------------------------------------
(* The theorems.                                                           *)

\* The invariant is inductive while leases outlive their requests and the sweep spares
\* the keys of live holds.
LEMMA StepIInv == ~Outliving /\ ~BoundSwept /\ IInv /\ [Next]_vars => IInv'
  <1> SUFFICES ASSUME ~Outliving, ~BoundSwept, IInv, [Next]_vars PROVE IInv'
    OBVIOUS
  <1>1. CASE UNCHANGED vars
    <2>1. UNCHANGED serverVars
      BY <1>1 DEF vars, serverVars
    <2> QED
      BY <1>1, <2>1, ServerAlone DEF vars, IInv, TypeOK, ServerTypeOK, PageInv
  <1>2. CASE Browser
    BY <1>2, PageStep, SubmitStep, AnswerStep, PayStep DEF Browser
  <1>3. CASE (\E r \in Requests : Server(r)) /\ UNCHANGED browserVars
    BY <1>3, ServerStep
  <1>4. CASE Environment /\ UNCHANGED browserVars
    BY <1>4, EnvironmentStep
  <1> QED
    BY <1>1, <1>2, <1>3, <1>4 DEF Next

\* The three promises of the key follow.
LEMMA Promises == IInv => AnswerFitsRequest /\ RetryFindsItsHold /\ OneAttemptAtATime
  <1> SUFFICES ASSUME IInv PROVE AnswerFitsRequest /\ RetryFindsItsHold /\ OneAttemptAtATime
    OBVIOUS
  <1>1. AnswerFitsRequest
    BY DEF IInv, ServerInv, RequestOK, Fits, AnswerFitsRequest
  <1>2. RetryFindsItsHold
    <2>1. OneHoldPerKey
      BY DEF IInv, ServerInv, HoldNamed, OneHoldPerKey
    <2> QED
      BY <2>1 DEF IInv, ServerInv, NothingHeld, RetryFindsItsHold
  <1>3. OneAttemptAtATime
    BY DEF IInv, ServerInv, Alone, Working, OneAttemptAtATime
  <1> QED
    BY <1>1, <1>2, <1>3

\* Whatever browser, server, sweep and clock do: an answer is a booking of what was asked.
THEOREM AnswersFit == ASSUME ~Outliving, ~BoundSwept PROVE Spec => []AnswerFitsRequest
  <1>1. IInv /\ [Next]_vars => IInv'
    BY StepIInv
  <1>2. IInv => AnswerFitsRequest
    BY Promises
  <1> QED
    BY <1>1, <1>2, InitIInv, PTL DEF Spec

\* A retry finds the hold of the attempt before: it is neither refused by it nor given a
\* second one.
THEOREM RetriesResume == ASSUME ~Outliving, ~BoundSwept PROVE Spec => []RetryFindsItsHold
  <1>1. IInv /\ [Next]_vars => IInv'
    BY StepIInv
  <1>2. IInv => RetryFindsItsHold
    BY Promises
  <1> QED
    BY <1>1, <1>2, InitIInv, PTL DEF Spec

\* At most one request of a key is past begin().
THEOREM LeaseExcludes == ASSUME ~Outliving, ~BoundSwept PROVE Spec => []OneAttemptAtATime
  <1>1. IInv /\ [Next]_vars => IInv'
    BY StepIInv
  <1>2. IInv => OneAttemptAtATime
    BY Promises
  <1> QED
    BY <1>1, <1>2, InitIInv, PTL DEF Spec
=============================================================================

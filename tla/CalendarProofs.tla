--------------------------- MODULE CalendarProofs ---------------------------
(***************************************************************************)
(* What is proved about Calendar for every set of employees, transactions, *)
(* weeks, blocked times and absences, and every clock.                     *)
(*                                                                         *)
(* A circle of waiting transactions is excluded by the order in which each *)
(* takes its locks (InOrder).  That nobody is promised twice rests on what *)
(* a check has found staying true until the write (Clear): only who holds  *)
(* the employee's calendar adds to it, and no two hold it (Apart).  Rota   *)
(* and catalog are written without a lock; what they leave behind is said  *)
(* by the report, the count or a tag, whichever comes last (Tagged).       *)
(***************************************************************************)
EXTENDS Calendar, FiniteSetTheorems, NaturalsInduction, WellFoundedInduction, TLAPS

-----------------------------------------------------------------------------
(* The inductive invariant.                                                *)

RowType == [live : {TRUE}, employee : Employees, start : BookAt, sold : Offerings]

Table ==
    /\ bookings \in [Rows -> RowType \cup {None}]
    /\ service \in [archived : BOOLEAN, online : BOOLEAN, filed : BOOLEAN, sold : Offerings]

\* A transaction's locks are the calendars its request is about.
Reserves(x) ==
    /\ x.op = "reserve" /\ x.locks = {x.args.employee}
    /\ x.args.employee \in Employees /\ x.args.start \in BookAt
    /\ x.passed => x.args \in RowType
Moves(x) ==
    /\ x.op = "move" /\ x.locks = {x.args.was.employee, x.args.employee}
    /\ x.args.was \in RowType /\ x.args.employee \in Employees /\ x.args.start \in BookAt
BlocksTime(x) ==
    /\ x.op = "block" /\ x.locks = {x.args.employee}
    /\ <<x.args.employee, x.args.span>> \in Blocks
Decides(x) ==
    /\ x.op = "leave" /\ x.locks = {x.args.row[1]}
    /\ x.args.row \in Absences /\ x.args.status \in {"REQUESTED", "APPROVED", "REJECTED"}

\* The locks a transaction has come before those it still wants.
InOrder(x) == \A e \in x.held, f \in x.locks \ x.held : e < f

Wellformed(x) ==
    \/ x = Idle
    \/ /\ x = [op |-> x.op, locks |-> x.locks, held |-> x.held, passed |-> x.passed, args |-> x.args]
       /\ x.locks \subseteq Employees /\ x.held \subseteq x.locks /\ x.passed \in BOOLEAN
       /\ x.passed => x.held = x.locks
       /\ InOrder(x)
       /\ Reserves(x) \/ Moves(x) \/ BlocksTime(x) \/ Decides(x)

Transactions ==
    /\ tx = [t \in Txs |-> tx[t]]
    /\ \A t \in Txs : Wellformed(tx[t])

Apart == \A t, u \in Txs : t # u => tx[t].held \cap tx[u].held = {}

\* What is about to be inserted meets no blocked time and no day of leave.
NewRow(x) == IF x.op = "reserve" THEN x.args
             ELSE [x.args.was EXCEPT !.employee = x.args.employee, !.start = x.args.start]
Fits(row) ==
    /\ \A y \in blocked : y[1] = row.employee => ~overlaps(BlockAt(row.start, row.sold), y[2])
    /\ Local[row.start][1] \notin LeaveOf(row.employee)

\* What a check has found is still so.
Clear(x) ==
    /\ x.op \in {"reserve", "move"} /\ x.passed => Fits(NewRow(x))
    /\ x.op = "block" /\ x.passed =>
          \A b \in Live(x.args.employee) : ~overlaps(Block(b), x.args.span)
    /\ x.op = "leave" /\ x.passed /\ x.args.status = "APPROVED" /\ x.args.seen # "APPROVED" =>
          BookingsInRange(x.args.row) = {}

PromisedOf(e) == \A b \in Live(e) :
    /\ \A c \in Live(e) \ {b} : ~overlaps(Block(b), Block(c))
    /\ \A x \in blocked : x[1] = e => ~overlaps(Block(b), x[2])
    /\ Local[bookings[b].start][1] \in LeaveOf(e) =>
          <<"leave", <<e, Local[bookings[b].start][1]>>>> \in excused

LockInv == TypeOK /\ Table /\ Transactions /\ Apart

IInv ==
    /\ LockInv
    /\ \A t \in Txs : Clear(tx[t])
    /\ \A e \in Employees : PromisedOf(e)

LEMMA Symmetric == \A a, b : overlaps(a, b) <=> overlaps(b, a)
  BY DEF overlaps

-----------------------------------------------------------------------------
(* Numbers.                                                                *)

LEMMA Smallest ==
    ASSUME NEW S \in SUBSET Nat, S # {}
    PROVE  \E e \in S : \A f \in S : e <= f
<1>1. PICK e \in S : \A f \in S : ~(<<f, e>> \in OpToRel(<, Nat))
  BY NatLessThanWellFounded, WFMin, Zenon
<1>2. \A f \in S : ~(f < e)
  BY <1>1 DEF OpToRel
<1> QED  BY <1>2

LEMMA Largest ==
    ASSUME NEW S, S # {}, NEW n \in Nat, S \subseteq 0..n
    PROVE  \E e \in S : \A f \in S : f <= e
<1> DEFINE T == {n - f : f \in S}
<1>1. T \in SUBSET Nat /\ T # {}
  <2>1. ASSUME NEW f \in S PROVE n - f \in Nat
    OBVIOUS
  <2> QED  BY <2>1
<1> HIDE DEF T
<1>2. PICK d \in T : \A f \in T : d <= f
  BY <1>1, Smallest
<1> USE DEF T
<1>3. PICK e \in S : d = n - e
  OBVIOUS
<1>4. ASSUME NEW f \in S PROVE f <= e
  <2>1. d <= n - f
    BY <1>2
  <2> QED  BY <1>3, <2>1
<1> QED  BY <1>4

LEMMA NextLockIs ==
    ASSUME NEW t \in Txs, tx[t].locks \subseteq Employees, tx[t].held # tx[t].locks,
           tx[t].held \subseteq tx[t].locks
    PROVE  /\ NextLock(t) \in tx[t].locks \ tx[t].held
           /\ \A f \in tx[t].locks \ tx[t].held : NextLock(t) <= f
<1>1. Employees \subseteq Nat
  BY CalendarAssumption
<1>2. \E e \in tx[t].locks \ tx[t].held : \A f \in tx[t].locks \ tx[t].held : e <= f
  BY <1>1, Smallest
<1> QED  BY <1>2 DEF NextLock

LEMMA Highest ==
    ASSUME NEW N \in SUBSET Employees, N # {}
    PROVE  \E m \in N : \A n \in N : n <= m
<1>0. Employees \subseteq Nat /\ IsFiniteSet(Employees)
  BY CalendarAssumption
<1> DEFINE Above(n) == {f \in Employees : f > n}
           All == {Above(n) : n \in N}
<1>1. All # {} /\ All \subseteq SUBSET Employees
  OBVIOUS
<1>2. IsWellFoundedOn(StrictSubsetOrdering(Employees), SUBSET Employees)
  BY <1>0, FS_StrictSubsetOrderingWellFounded, FS_FiniteSubsetsOfFinite, Zenon
<1>3. PICK A \in All : \A B \in All : ~(<<B, A>> \in StrictSubsetOrdering(Employees))
  <2> HIDE DEF All
  <2> QED  BY <1>1, <1>2, WFMin, Zenon
<1>4. PICK m \in N : A = Above(m)
  OBVIOUS
<1>5. ASSUME NEW n \in N, n > m PROVE FALSE
  <2>1. n \in Nat /\ m \in Nat /\ n \in Employees
    BY <1>0
  <2>2. ASSUME NEW f \in Employees, f > n PROVE f > m
    <3>1. f \in Nat
      BY <1>0
    <3> QED  BY <1>5, <2>1, <2>2, <3>1
  <2>3. n \in Above(m) /\ n \notin Above(n)
    BY <1>5, <2>1
  <2>4. <<Above(n), Above(m)>> \in StrictSubsetOrdering(Employees)
    BY <2>2, <2>3 DEF StrictSubsetOrdering
  <2> QED  BY <1>3, <1>4, <2>4
<1>6. \A n \in N : n \in Nat /\ m \in Nat
  BY <1>0
<1> QED  BY <1>5, <1>6

\* Among transactions of which each wants locks in order there is one waiting
\* for none of them: one whose next lock is the highest, or one that has all.
LEMMA NoCircle ==
    ASSUME LockInv
    PROVE  NoCircularWait
<1> SUFFICES ASSUME NEW ts \in SUBSET Txs, ts # {},
                    \A t \in ts : \E u \in ts : Waits(t, u)
             PROVE  FALSE
  BY DEF NoCircularWait, LockInv
<1>1. ASSUME NEW t \in ts
      PROVE  /\ NextLock(t) \in Employees
             /\ \A e \in tx[t].held : e < NextLock(t)
  <2>1. Wellformed(tx[t]) /\ tx[t].held # tx[t].locks
    BY DEF LockInv, Transactions, Waits
  <2>2. /\ tx[t].locks \subseteq Employees /\ tx[t].held \subseteq tx[t].locks
        /\ InOrder(tx[t])
    <3>1. CASE tx[t] = Idle
      BY <2>1, <3>1 DEF Idle
    <3> QED  BY <2>1, <3>1 DEF Wellformed
  <2>3. NextLock(t) \in tx[t].locks \ tx[t].held
    BY <2>1, <2>2, NextLockIs
  <2> QED  BY <2>2, <2>3 DEF InOrder
<1> DEFINE N == {NextLock(t) : t \in ts}
<1>2. PICK m \in N : \A n \in N : n <= m
  <2>1. N \in SUBSET Employees /\ N # {}
    BY <1>1
  <2> HIDE DEF N
  <2> QED  BY <2>1, Highest
<1>3. PICK t \in ts : m = NextLock(t)
  BY <1>2
<1>4. PICK u \in ts : Waits(t, u)
  BY <1>3
<1>5. NextLock(t) < NextLock(u)
  BY <1>1, <1>4 DEF Waits
<1>6. NextLock(u) <= NextLock(t)
  BY <1>2, <1>3
<1>7. NextLock(t) \in Nat /\ NextLock(u) \in Nat
  BY <1>1, CalendarAssumption
<1> QED  BY <1>5, <1>6, <1>7

-----------------------------------------------------------------------------
(* The rows and the transactions keep their shape.                         *)

RestType ==
    /\ now \in Clock
    /\ blocked \subseteq Blocks
    /\ leave \in [Absences -> {"none", "REQUESTED", "APPROVED", "REJECTED"}]
    /\ closed \subseteq Dates
    /\ hours \in [Employees -> Weeks]
    /\ staff \in [Employees -> [archived : BOOLEAN, online : BOOLEAN]]
    /\ performs \subseteq Employees
    /\ area \in Areas
    /\ reporting \subseteq Employees /\ reported \subseteq Rows
    /\ service \in [archived : BOOLEAN, online : BOOLEAN, filed : BOOLEAN, sold : Offerings]

RowsType == bookings \in [Rows -> RowType \cup {None}]

LEMMA Types == RestType /\ RowsType <=> TypeOK /\ Table
  BY DEF RestType, RowsType, TypeOK, Table, RowType, None

\* One transaction changes, and holds no lock that another one holds.
LEMMA OneChanges ==
    ASSUME Transactions, Apart, NEW t \in Txs, NEW x, Wellformed(x),
           tx' = [tx EXCEPT ![t] = x],
           \A u \in Txs \ {t} : x.held \cap tx[u].held = {}
    PROVE  Transactions' /\ Apart'
<1>1. \A u \in Txs : tx'[u] = IF u = t THEN x ELSE tx[u]
  BY DEF Transactions
<1>2. Transactions'
  BY <1>1 DEF Transactions
<1>3. Apart'
  BY <1>1 DEF Apart
<1> QED  BY <1>2, <1>3

LEMMA Ends ==
    ASSUME Transactions, Apart, NEW t \in Txs, tx' = [tx EXCEPT ![t] = Idle]
    PROVE  Transactions' /\ Apart'
<1>1. Wellformed(Idle) /\ Idle.held = {}
  BY DEF Wellformed, Idle
<1> QED  BY <1>1, OneChanges

LEMMA Begins ==
    ASSUME Transactions, Apart, NEW t \in Txs, NEW op, NEW locks \in SUBSET Employees, NEW args,
           tx' = [tx EXCEPT ![t] = Request(op, locks, args)],
           LET x == Request(op, locks, args)
           IN  Reserves(x) \/ Moves(x) \/ BlocksTime(x) \/ Decides(x)
    PROVE  Transactions' /\ Apart'
<1> DEFINE x == Request(op, locks, args)
<1>1. /\ x.op = op /\ x.locks = locks /\ x.held = {} /\ x.passed = FALSE /\ x.args = args
      /\ x = [op |-> x.op, locks |-> x.locks, held |-> x.held, passed |-> x.passed, args |-> x.args]
  BY DEF Request
<1>2. tx' = [tx EXCEPT ![t] = x]
  OBVIOUS
<1>3. Reserves(x) \/ Moves(x) \/ BlocksTime(x) \/ Decides(x)
  OBVIOUS
<1> HIDE DEF x
<1>4. InOrder(x)
  BY <1>1 DEF InOrder
<1>5. Wellformed(x)
  BY <1>1, <1>3, <1>4 DEF Wellformed
<1> QED  BY <1>1, <1>2, <1>5, OneChanges

\* A transaction that has its locks is no idle one.
LEMMA AtWork ==
    ASSUME Transactions, NEW t \in Txs, NEW op, Locked(t, op), op # "idle"
    PROVE  /\ tx[t] = [op |-> op, locks |-> tx[t].locks, held |-> tx[t].locks,
                       passed |-> tx[t].passed, args |-> tx[t].args]
           /\ tx[t].passed \in BOOLEAN /\ tx[t].locks \subseteq Employees
           /\ op = "reserve" => Reserves(tx[t])
           /\ op = "move" => Moves(tx[t])
           /\ op = "block" => BlocksTime(tx[t])
           /\ op = "leave" => Decides(tx[t])
<1>1. tx[t].op = op /\ tx[t].held = tx[t].locks
  BY DEF Locked
<1>2. tx[t] # Idle
  BY <1>1 DEF Idle
<1>3. Wellformed(tx[t])
  BY DEF Transactions
<1>4. /\ tx[t] = [op |-> tx[t].op, locks |-> tx[t].locks, held |-> tx[t].held,
                  passed |-> tx[t].passed, args |-> tx[t].args]
      /\ tx[t].locks \subseteq Employees /\ tx[t].passed \in BOOLEAN
      /\ Reserves(tx[t]) \/ Moves(tx[t]) \/ BlocksTime(tx[t]) \/ Decides(tx[t])
  BY <1>2, <1>3 DEF Wellformed
<1> QED  BY <1>1, <1>4 DEF Reserves, Moves, BlocksTime, Decides

\* The check passed with args; passed, all locks held.
Passed(x, args) == [op |-> x.op, locks |-> x.locks, held |-> x.locks, passed |-> TRUE, args |-> args]

LEMMA PassedIs ==
    ASSUME NEW x, NEW op, NEW args, NEW y,
           x = [op |-> op, locks |-> x.locks, held |-> x.locks, passed |-> x.passed, args |-> x.args],
           y = [x EXCEPT !.passed = TRUE, !.args = args]
    PROVE  y = Passed(x, args)
<1>1. DOMAIN x = {"op", "locks", "held", "passed", "args"}
  OBVIOUS
<1>2. y.passed = TRUE
  BY <1>1
<1>3. y.op = x.op /\ y.locks = x.locks /\ y.held = x.locks /\ y.args = args
  BY <1>1
<1>4. y = [f \in DOMAIN x |-> y[f]]
  OBVIOUS
<1> QED  BY <1>1, <1>2, <1>3, <1>4 DEF Passed

LEMMA Passes ==
    ASSUME Transactions, Apart, NEW t \in Txs, NEW op, Locked(t, op), op # "idle", NEW args, Pass(t, args),
           LET x == Passed(tx[t], args)
           IN  Reserves(x) \/ Moves(x) \/ BlocksTime(x) \/ Decides(x)
    PROVE  /\ tx' = [tx EXCEPT ![t] = Passed(tx[t], args)]
           /\ Transactions' /\ Apart'
<1>1. PICK y : y = Passed(tx[t], args)
  OBVIOUS
<1>2. /\ y.op = op /\ y.locks = tx[t].locks /\ y.held = y.locks /\ y.passed = TRUE /\ y.args = args
      /\ y = [op |-> y.op, locks |-> y.locks, held |-> y.held, passed |-> y.passed, args |-> y.args]
      /\ tx[t].locks \subseteq Employees /\ tx[t].held = tx[t].locks
  BY <1>1, AtWork DEF Passed, Locked
<1>3. tx' = [tx EXCEPT ![t] = y]
  <2>1. tx = [u \in Txs |-> tx[u]]
    BY DEF Transactions
  <2>2. tx[t] = [op |-> op, locks |-> tx[t].locks, held |-> tx[t].locks,
                 passed |-> tx[t].passed, args |-> tx[t].args]
    BY AtWork
  <2>3. tx' = [tx EXCEPT ![t].passed = TRUE, ![t].args = args]
    BY DEF Pass
  <2>4. tx'[t] = y
    <3>1. tx'[t] = [tx[t] EXCEPT !.passed = TRUE, !.args = args]
      BY <2>1, <2>3
    <3> QED  BY <1>1, <2>2, <3>1, PassedIs
  <2>5. \A u \in Txs \ {t} : tx'[u] = tx[u]
    BY <2>1, <2>3
  <2> QED  BY <2>1, <2>3, <2>4, <2>5
<1>4. InOrder(y)
  BY <1>2 DEF InOrder
<1>5. Wellformed(y)
  BY <1>1, <1>2, <1>4 DEF Wellformed
<1>6. \A u \in Txs \ {t} : y.held \cap tx[u].held = {}
  BY <1>2 DEF Apart
<1> QED  BY <1>1, <1>3, <1>5, <1>6, OneChanges

LEMMA Locks ==
    ASSUME Transactions, Apart, NEW t \in Txs, TakeLock(t)
    PROVE  /\ Transactions' /\ Apart'
           /\ tx[t] # Idle /\ ~tx[t].passed
           /\ \E held : tx' = [tx EXCEPT ![t] = [tx[t] EXCEPT !.held = held]]
<1> DEFINE x == tx[t]
           n == NextLock(t)
           y == [x EXCEPT !.held = x.held \cup {n}]
<1>1. x # Idle
  <2>1. tx[t].held # tx[t].locks
    BY DEF TakeLock
  <2> QED  BY <2>1 DEF Idle
<1>2. Wellformed(x)
  BY DEF Transactions
<1>3. /\ x = [op |-> x.op, locks |-> x.locks, held |-> x.held, passed |-> x.passed, args |-> x.args]
      /\ x.locks \subseteq Employees /\ x.held \subseteq x.locks /\ x.passed \in BOOLEAN
      /\ x.passed => x.held = x.locks
      /\ InOrder(x)
      /\ Reserves(x) \/ Moves(x) \/ BlocksTime(x) \/ Decides(x)
  BY <1>1, <1>2 DEF Wellformed
<1>4. ~x.passed /\ tx' = [tx EXCEPT ![t] = y]
  BY <1>3 DEF TakeLock
<1>5. n \in x.locks \ x.held /\ \A f \in x.locks \ x.held : n <= f
  BY <1>3, NextLockIs DEF TakeLock
<1>6. \A u \in Txs : n \notin tx[u].held
  BY DEF TakeLock
<1>7. PICK z : z = y
  OBVIOUS
<1>8. /\ z.op = x.op /\ z.locks = x.locks /\ z.held = x.held \cup {n} /\ z.passed = x.passed
      /\ z.args = x.args
      /\ z = [op |-> z.op, locks |-> z.locks, held |-> z.held, passed |-> z.passed, args |-> z.args]
  BY <1>3, <1>7
<1>9. InOrder(z)
  <2>1. Employees \subseteq Nat
    BY CalendarAssumption
  <2>2. ASSUME NEW e \in z.held, NEW f \in z.locks \ z.held PROVE e < f
    <3>1. f \in x.locks \ x.held /\ f # n /\ n <= f /\ f \in Nat /\ n \in Nat
      BY <1>3, <1>5, <1>8, <2>1, <2>2
    <3>2. CASE e = n
      BY <3>1, <3>2
    <3>3. CASE e \in x.held
      BY <1>3, <3>1, <3>3 DEF InOrder
    <3> QED  BY <1>8, <3>2, <3>3
  <2> QED  BY <2>2 DEF InOrder
<1>10. Reserves(z) \/ Moves(z) \/ BlocksTime(z) \/ Decides(z)
  BY <1>3, <1>8 DEF Reserves, Moves, BlocksTime, Decides
<1>11. Wellformed(z)
  BY <1>3, <1>4, <1>5, <1>8, <1>9, <1>10 DEF Wellformed
<1>12. \A u \in Txs \ {t} : z.held \cap tx[u].held = {}
  BY <1>6, <1>8 DEF Apart
<1>13. Transactions' /\ Apart'
  BY <1>4, <1>7, <1>11, <1>12, OneChanges
<1> QED  BY <1>1, <1>4, <1>13

-----------------------------------------------------------------------------
(* Every operation keeps the shape.                                        *)

\* One of the least busy employees exists, so the choice is one of the candidates.
LEMMA SelectsCandidate ==
    ASSUME NEW C \in SUBSET Employees, C # {}, NEW count \in [Employees -> Nat]
    PROVE  selectEmployee(C, count) \in C
<1>0. Employees \subseteq Nat
  BY CalendarAssumption
<1> DEFINE S == {count[e] : e \in C}
<1>1. PICK m \in S : \A k \in S : m <= k
  <2>1. S \in SUBSET Nat /\ S # {}
    OBVIOUS
  <2> HIDE DEF S
  <2> QED  BY <2>1, Smallest
<1> DEFINE L == {e \in C : count[e] = m}
<1>2. PICK e \in L : \A f \in L : e <= f
  <2>1. L \in SUBSET Nat /\ L # {}
    BY <1>0, <1>1
  <2> HIDE DEF L
  <2> QED  BY <2>1, Smallest
<1>3. ASSUME NEW f \in C
      PROVE  count[e] < count[f] \/ (count[e] = count[f] /\ e <= f)
  <2>1. count[e] \in Nat /\ count[f] \in Nat /\ count[e] <= count[f] /\ count[e] = m
    BY <1>1, <1>2
  <2>2. CASE count[f] = m
    BY <1>2, <2>1, <2>2
  <2>3. CASE count[f] # m
    BY <2>1, <2>3
  <2> QED  BY <2>2, <2>3
<1> QED  BY <1>2, <1>3 DEF selectEmployee

LEMMA CountsAreNumbers == \A date : BookingsOn(date) \in [Employees -> Nat]
<1> SUFFICES ASSUME NEW date, NEW e \in Employees
             PROVE  Cardinality({b \in Live(e) : Local[bookings[b].start][1] = date}) \in Nat
  BY DEF BookingsOn
<1>1. IsFiniteSet(Rows)
  BY FS_Interval, CalendarAssumption DEF Rows
<1>2. {b \in Live(e) : Local[bookings[b].start][1] = date} \subseteq Rows
  BY DEF Live
<1> QED  BY <1>1, <1>2, FS_Subset, FS_CardinalityType

LEMMA BeginStep ==
    ASSUME LockInv, NEW t \in Txs,
           \/ BeginReserve(t) \/ BeginReserveAny(t) \/ BeginMove(t)
           \/ BeginBlock(t) \/ BeginLeave(t) \/ BeginDecide(t)
    PROVE  /\ Transactions' /\ Apart'
           /\ \E x : Begin(t, x) /\ x.passed = FALSE
<1> USE DEF LockInv
<1>1. SUFFICES \E op, args : \E locks \in SUBSET Employees :
                  LET x == Request(op, locks, args)
                  IN  /\ Begin(t, x)
                      /\ Reserves(x) \/ Moves(x) \/ BlocksTime(x) \/ Decides(x)
  <2>1. PICK op, args : \E locks \in SUBSET Employees :
                  LET x == Request(op, locks, args)
                  IN  /\ Begin(t, x)
                      /\ Reserves(x) \/ Moves(x) \/ BlocksTime(x) \/ Decides(x)
    BY <1>1
  <2>2. PICK locks \in SUBSET Employees :
                  LET x == Request(op, locks, args)
                  IN  /\ Begin(t, x)
                      /\ Reserves(x) \/ Moves(x) \/ BlocksTime(x) \/ Decides(x)
    BY <2>1
  <2>3. tx' = [tx EXCEPT ![t] = Request(op, locks, args)]
    BY <2>2 DEF Begin
  <2>4. Request(op, locks, args).passed = FALSE
    BY DEF Request
  <2> QED  BY <2>2, <2>3, <2>4, Begins
<1>2. CASE BeginReserve(t)
  <2>1. PICK e \in Employees, start \in BookAt, actor \in {"CUSTOMER", "OFFICE"} :
           Begin(t, Request("reserve", {e}, [employee |-> e, start |-> start, actor |-> actor]))
    BY <1>2 DEF BeginReserve
  <2>2. Reserves(Request("reserve", {e}, [employee |-> e, start |-> start, actor |-> actor]))
    BY DEF Reserves, Request
  <2> QED  BY <2>1, <2>2, {e} \in SUBSET Employees
<1>3. CASE BeginReserveAny(t)
  <2>1. PICK start \in BookAt :
          LET free == {e \in Employees : Free(e, start, "CUSTOMER")}
              e == selectEmployee(free, BookingsOn(Local[start][1]))
          IN  /\ free # {}
              /\ Begin(t, Request("reserve", {e}, [employee |-> e, start |-> start, actor |-> "CUSTOMER"]))
    BY <1>3 DEF BeginReserveAny
  <2>2. PICK e : e = selectEmployee({f \in Employees : Free(f, start, "CUSTOMER")},
                                    BookingsOn(Local[start][1]))
    OBVIOUS
  <2>3. e \in Employees
    BY <2>1, <2>2, SelectsCandidate, CountsAreNumbers
  <2>4. Reserves(Request("reserve", {e}, [employee |-> e, start |-> start, actor |-> "CUSTOMER"]))
    BY <2>3 DEF Reserves, Request
  <2>5. {e} \in SUBSET Employees
    BY <2>3
  <2> QED  BY <2>1, <2>2, <2>4, <2>5
<1>4. CASE BeginMove(t)
  <2>1. PICK b \in Rows, e \in Employees, start \in BookAt :
        /\ bookings[b].live
        /\ Begin(t, Request("move", {bookings[b].employee, e},
                            [was |-> bookings[b], row |-> b, employee |-> e, start |-> start]))
    BY <1>4 DEF BeginMove
  <2>2. bookings[b] \in RowType
    BY <2>1 DEF Table, None
  <2>3. Moves(Request("move", {bookings[b].employee, e},
                      [was |-> bookings[b], row |-> b, employee |-> e, start |-> start]))
    BY <2>2 DEF Moves, Request
  <2>4. {bookings[b].employee, e} \in SUBSET Employees
    BY <2>2 DEF RowType
  <2> QED  BY <2>1, <2>3, <2>4
<1>5. CASE BeginBlock(t)
  <2>1. PICK y \in Blocks :
          Begin(t, Request("block", {y[1]}, [employee |-> y[1], span |-> y[2]]))
    BY <1>5 DEF BeginBlock
  <2>2. <<y[1], y[2]>> \in Blocks /\ y[1] \in Employees
    BY CalendarAssumption
  <2>3. BlocksTime(Request("block", {y[1]}, [employee |-> y[1], span |-> y[2]]))
    BY <2>2 DEF BlocksTime, Request
  <2>4. {y[1]} \in SUBSET Employees
    BY <2>2
  <2> QED  BY <2>1, <2>3, <2>4
<1>6. CASE BeginLeave(t) \/ BeginDecide(t)
  <2>1. PICK y \in Absences, status \in {"REQUESTED", "APPROVED", "REJECTED"} : \E seen :
          Begin(t, Request("leave", {y[1]}, [row |-> y, status |-> status, seen |-> seen]))
    BY <1>6 DEF BeginLeave, BeginDecide
  <2>5. PICK seen : Begin(t, Request("leave", {y[1]}, [row |-> y, status |-> status, seen |-> seen]))
    BY <2>1
  <2>2. Decides(Request("leave", {y[1]}, [row |-> y, status |-> status, seen |-> seen]))
    BY DEF Decides, Request
  <2>3. {y[1]} \in SUBSET Employees
    BY CalendarAssumption
  <2> QED  BY <2>2, <2>3, <2>5
<1> QED  BY <1>2, <1>3, <1>4, <1>5, <1>6

LEMMA CheckStep ==
    ASSUME LockInv, NEW t \in Txs,
           CheckReserve(t) \/ CheckMove(t) \/ CheckBlock(t) \/ CheckLeave(t)
    PROVE  Transactions' /\ Apart'
<1> USE DEF LockInv
<1>1. CASE Refuse(t)
  BY <1>1, Ends DEF Refuse
<1>2. CASE CheckReserve(t) /\ ~Refuse(t)
  <2> DEFINE a == tx[t].args
             row == [live |-> TRUE, employee |-> a.employee, start |-> a.start, sold |-> service.sold]
  <2>1. Locked(t, "reserve") /\ Pass(t, row)
    BY <1>2 DEF CheckReserve
  <2>2. Reserves(tx[t])
    BY <2>1, AtWork
  <2>3. row \in RowType
    BY <2>2 DEF Reserves, RowType, Table
  <2>4. PICK r : r = row
    OBVIOUS
  <2>5. r.employee = a.employee /\ r.start = a.start
    BY <2>4
  <2>6. Reserves(Passed(tx[t], r))
    BY <2>2, <2>3, <2>4, <2>5 DEF Reserves, Passed
  <2> QED  BY <2>1, <2>4, <2>6, Passes
<1>3. CASE CheckMove(t) /\ ~Refuse(t)
  <2>1. Locked(t, "move") /\ Pass(t, tx[t].args)
    BY <1>3 DEF CheckMove
  <2>2. Moves(tx[t])
    BY <2>1, AtWork
  <2>3. Moves(Passed(tx[t], tx[t].args))
    BY <2>2 DEF Moves, Passed
  <2> QED  BY <2>1, <2>3, Passes
<1>4. CASE CheckBlock(t) /\ ~Refuse(t)
  <2>1. Locked(t, "block") /\ Pass(t, tx[t].args)
    BY <1>4 DEF CheckBlock
  <2>2. BlocksTime(tx[t])
    BY <2>1, AtWork
  <2>3. BlocksTime(Passed(tx[t], tx[t].args))
    BY <2>2 DEF BlocksTime, Passed
  <2> QED  BY <2>1, <2>3, Passes
<1>5. CASE CheckLeave(t) /\ ~Refuse(t)
  <2>1. Locked(t, "leave") /\ Pass(t, tx[t].args)
    BY <1>5 DEF CheckLeave
  <2>2. Decides(tx[t])
    BY <2>1, AtWork
  <2>3. Decides(Passed(tx[t], tx[t].args))
    BY <2>2 DEF Decides, Passed
  <2> QED  BY <2>1, <2>3, Passes
<1> QED  BY <1>1, <1>2, <1>3, <1>4, <1>5

LEMMA WriteStep ==
    ASSUME LockInv, NEW t \in Txs,
           WriteReserve(t) \/ WriteMove(t) \/ WriteBlock(t) \/ WriteLeave(t)
    PROVE  Transactions' /\ Apart' /\ tx' = [tx EXCEPT ![t] = Idle]
<1>1. tx' = [tx EXCEPT ![t] = Idle]
  BY DEF WriteReserve, WriteMove, WriteBlock, WriteLeave, Insert, Refuse
<1> QED  BY <1>1, Ends DEF LockInv

-----------------------------------------------------------------------------
(* What a step may not add to a calendar it does not hold.                 *)

NoMore(e) ==
    /\ \A b \in Rows : bookings'[b].live /\ bookings'[b].employee = e => bookings'[b] = bookings[b]
    /\ \A y \in blocked' : y[1] = e => y \in blocked
    /\ LeaveOf(e)' \subseteq LeaveOf(e)
    /\ \A d \in LeaveOf(e)' : <<"leave", <<e, d>>>> \in excused => <<"leave", <<e, d>>>> \in excused'

LEMMA Unmoved ==
    ASSUME NEW e, NoMore(e)
    PROVE  \A b \in Live(e)' : b \in Live(e) /\ bookings'[b] = bookings[b]
  BY DEF NoMore, Live

LEMMA ClearKept ==
    ASSUME NEW x, Wellformed(x), Clear(x), \A e \in x.locks : NoMore(e)
    PROVE  Clear(x)'
<1>1. CASE x = Idle
  BY <1>1 DEF Clear, Idle
<1>2. ASSUME x # Idle, x.op \in {"reserve", "move"}, x.passed
      PROVE  Fits(NewRow(x))'
  <2>1. PICK row : row = NewRow(x)
    OBVIOUS
  <2>2. row.employee \in x.locks
    <3>1. CASE x.op = "reserve"
      BY <1>2, <2>1, <3>1 DEF Wellformed, Reserves, Moves, BlocksTime, Decides, NewRow
    <3>2. CASE x.op = "move"
      <4>1. Moves(x)
        BY <1>2, <3>2 DEF Wellformed, Reserves, BlocksTime, Decides
      <4>2. row.employee = x.args.employee
        BY <2>1, <3>2, <4>1 DEF Moves, NewRow, RowType
      <4> QED  BY <4>1, <4>2 DEF Moves
    <3> QED  BY <1>2, <3>1, <3>2
  <2>3. Fits(row)
    BY <1>2, <2>1 DEF Clear
  <2>4. NoMore(row.employee)
    BY <2>2
  <2>5. Fits(row)'
    BY <2>3, <2>4 DEF Fits, NoMore
  <2>6. NewRow(x)' = NewRow(x)
    BY DEF NewRow
  <2> QED  BY <2>1, <2>5, <2>6
<1>3. ASSUME x # Idle, x.op = "block", x.passed
      PROVE  \A b \in Live(x.args.employee)' : ~overlaps(Block(b)', x.args.span)
  <2>1. NoMore(x.args.employee)
    BY <1>3 DEF Wellformed, Reserves, Moves, BlocksTime, Decides
  <2>2. \A b \in Live(x.args.employee) : ~overlaps(Block(b), x.args.span)
    BY <1>3 DEF Clear
  <2> QED  BY <2>1, <2>2, Unmoved DEF Block
<1>4. ASSUME x # Idle, x.op = "leave", x.passed, x.args.status = "APPROVED", x.args.seen # "APPROVED"
      PROVE  BookingsInRange(x.args.row)' = {}
  <2>1. NoMore(x.args.row[1])
    BY <1>4 DEF Wellformed, Reserves, Moves, BlocksTime, Decides
  <2>2. BookingsInRange(x.args.row) = {}
    BY <1>4 DEF Clear
  <2> QED  BY <2>1, <2>2, Unmoved DEF BookingsInRange
<1> QED  BY <1>1, <1>2, <1>3, <1>4 DEF Clear

LEMMA PromiseKept ==
    ASSUME NEW e \in Employees, NoMore(e), PromisedOf(e)
    PROVE  PromisedOf(e)'
<1> SUFFICES ASSUME NEW b \in Live(e)'
             PROVE  /\ \A c \in Live(e)' \ {b} : ~overlaps(Block(b)', Block(c)')
                    /\ \A x \in blocked' : x[1] = e => ~overlaps(Block(b)', x[2])
                    /\ Local[bookings'[b].start][1] \in LeaveOf(e)' =>
                          <<"leave", <<e, Local[bookings'[b].start][1]>>>> \in excused'
  BY DEF PromisedOf
<1>1. b \in Live(e) /\ bookings'[b] = bookings[b] /\ Block(b)' = Block(b)
  BY Unmoved DEF Block
<1>2. \A c \in Live(e)' : c \in Live(e) /\ Block(c)' = Block(c)
  BY Unmoved DEF Block
<1>3. \A c \in Live(e)' \ {b} : ~overlaps(Block(b)', Block(c)')
  BY <1>1, <1>2 DEF PromisedOf
<1>4. \A x \in blocked' : x[1] = e => ~overlaps(Block(b)', x[2])
  BY <1>1 DEF PromisedOf, NoMore
<1>5. Local[bookings'[b].start][1] \in LeaveOf(e)' =>
          <<"leave", <<e, Local[bookings'[b].start][1]>>>> \in excused'
  BY <1>1 DEF PromisedOf, NoMore
<1> QED  BY <1>3, <1>4, <1>5

\* What is promised, and what the checks have found.
Safe == (\A t \in Txs : Clear(tx[t])) /\ (\A e \in Employees : PromisedOf(e))

LEMMA IdleIsClear == Clear(Idle) /\ Clear(Idle)'
  BY DEF Clear, Idle

\* A step that adds nothing to any calendar.
LEMMA NothingAdded ==
    ASSUME LockInv, Safe, \A e \in Employees : NoMore(e),
           \A t \in Txs : tx'[t] = tx[t] \/ Clear(tx[t])'
    PROVE  Safe'
<1>1. ASSUME NEW t \in Txs, tx'[t] = tx[t] PROVE Clear(tx[t])'
  <2>1. PICK x : x = tx[t]
    OBVIOUS
  <2>2. Wellformed(x) /\ Clear(x)
    BY <2>1 DEF LockInv, Transactions, Safe
  <2>3. x.locks \subseteq Employees
    BY <2>2 DEF Wellformed, Idle
  <2>4. Clear(x)'
    BY <2>2, <2>3, ClearKept
  <2>5. Clear(x)' => Clear(tx[t])'
    BY <1>1, <2>1
  <2> QED  BY <2>4, <2>5
<1> QED  BY <1>1, PromiseKept DEF Safe

\* A step of a transaction that adds to what it holds, and is over.
LEMMA AddedUnderLock ==
    ASSUME LockInv, Safe, NEW t \in Txs, tx' = [tx EXCEPT ![t] = Idle],
           \A e \in Employees \ tx[t].held : NoMore(e),
           \A e \in tx[t].held : PromisedOf(e)'
    PROVE  Safe'
<1>1. ASSUME NEW u \in Txs PROVE Clear(tx[u])'
  <2>1. CASE u = t
    BY <2>1, IdleIsClear DEF LockInv, Transactions
  <2>2. CASE u # t
    <3>1. PICK x : x = tx[u]
      OBVIOUS
    <3>2. Wellformed(x) /\ Clear(x) /\ x = tx'[u]
      BY <2>2, <3>1 DEF LockInv, Transactions, Safe
    <3>3. CASE x = Idle
      BY <3>2, <3>3, IdleIsClear
    <3>4. CASE x # Idle /\ ~x.passed
      BY <3>2, <3>4 DEF Clear
    <3>5. CASE x # Idle /\ x.passed
      <4>1. x.locks \subseteq Employees \ tx[t].held
        BY <2>2, <3>1, <3>2, <3>5 DEF Wellformed, LockInv, Apart
      <4>2. Clear(x)'
        BY <3>2, <4>1, ClearKept
      <4> QED  BY <3>2, <4>2
    <3> QED  BY <3>3, <3>4, <3>5
  <2> QED  BY <2>1, <2>2
<1>2. \A e \in Employees : PromisedOf(e)'
  BY PromiseKept DEF Safe
<1> QED  BY <1>1, <1>2 DEF Safe

-----------------------------------------------------------------------------
(* What the operations find and write.                                     *)

\* What the engine offers meets no commitment and falls on no day of leave.
LEMMA BookableIs ==
    ASSUME NEW snap, NEW start \in Instants, isSlotBookable(snap, start)
    PROVE  /\ \A b \in snap.busy : ~overlaps(BlockAt(start, snap.sold), b)
           /\ Local[start][1] \notin snap.leave
<1>1. PICK d : d = Local[start][1]
  OBVIOUS
<1>2. PICK date \in Dates : /\ d <= date /\ date <= d
                            /\ start \in employeeSlotsFor(snap, date, snap.now + snap.notice)
  BY <1>1 DEF isSlotBookable, generateAvailability, instantToLocalDate
<1>3. date = d
  <2>1. date \in Nat /\ d \in Nat
    BY <1>1, ClockAssumption
  <2> QED  BY <1>2, <2>1
<1>4. date \notin snap.leave
  BY <1>2 DEF employeeSlotsFor
<1>5. \A b \in snap.busy : ~overlaps(BlockAt(start, snap.sold), b)
  BY <1>2, <1>4 DEF employeeSlotsFor
<1> QED  BY <1>1, <1>3, <1>4, <1>5

\* The office's view and the view of what was sold keep commitments and leave.
LEMMA Views ==
    ASSUME NEW e, NEW sold
    PROVE  LET snap == Snapshot(e)
           IN  /\ snap.busy = Busy(e) /\ snap.leave = LeaveOf(e) /\ snap.sold = service.sold
               /\ asOfficeSnapshot(snap).busy = Busy(e) /\ asOfficeSnapshot(snap).leave = LeaveOf(e)
               /\ asOfficeSnapshot(snap).sold = service.sold
               /\ asSoldSnapshot(snap, sold).busy = Busy(e)
               /\ asSoldSnapshot(snap, sold).leave = LeaveOf(e)
               /\ asSoldSnapshot(snap, sold).sold = sold
  BY DEF Snapshot, asOfficeSnapshot, asSoldSnapshot

LEMMA FitsIfOffered ==
    ASSUME NEW row \in RowType, NEW snap, isSlotBookable(snap, row.start), snap.sold = row.sold,
           snap.busy = Busy(row.employee), snap.leave = LeaveOf(row.employee)
    PROVE  Fits(row)
<1>1. row.start \in Instants
  BY CalendarAssumption DEF RowType
<1>2. \A y \in blocked : y[1] = row.employee => y[2] \in Busy(row.employee)
  BY DEF Busy
<1> QED  BY <1>1, <1>2, BookableIs DEF Fits

\* What a check has found is so.
LEMMA CheckIsClear ==
    ASSUME LockInv, NEW t \in Txs,
           CheckReserve(t) \/ CheckMove(t) \/ CheckBlock(t) \/ CheckLeave(t)
    PROVE  Clear(tx[t])'
<1> USE DEF LockInv
<1>0. CASE Refuse(t)
  BY <1>0, IdleIsClear DEF Refuse, Transactions
<1>1. CASE CheckReserve(t) /\ ~Refuse(t)
  <2> DEFINE a == tx[t].args
  <2>1. PICK row : row = [live |-> TRUE, employee |-> a.employee, start |-> a.start, sold |-> service.sold]
    OBVIOUS
  <2>2. Locked(t, "reserve") /\ Pass(t, row) /\ Free(a.employee, a.start, a.actor)
    BY <1>1, <2>1 DEF CheckReserve
  <2>3. Reserves(tx[t])
    BY <2>2, AtWork
  <2>4. row \in RowType /\ row.employee = a.employee /\ row.start = a.start /\ row.sold = service.sold
    BY <2>1, <2>3 DEF Reserves, RowType, Table
  <2>5. Fits(row)
    BY <2>2, <2>4, Views, FitsIfOffered DEF Free
  <2>6. Reserves(Passed(tx[t], row))
    BY <2>3, <2>4 DEF Reserves, Passed
  <2>7. tx'[t] = Passed(tx[t], row)
    BY <2>2, <2>6, Passes DEF Transactions
  <2>8. tx'[t].op = "reserve" /\ tx'[t].args = row
    BY <2>2, <2>7 DEF Passed, Locked
  <2>9. Fits(row)'
    BY <2>2, <2>5 DEF Pass, calendar, Fits, LeaveOf
  <2> QED  BY <2>8, <2>9 DEF Clear, NewRow
<1>2. CASE CheckMove(t) /\ ~Refuse(t)
  <2>1. PICK a : a = tx[t].args
    OBVIOUS
  <2>2. /\ Locked(t, "move") /\ Pass(t, a)
        /\ isSlotBookable(asSoldSnapshot(Snapshot(a.employee), a.was.sold), a.start)
    BY <1>2, <2>1 DEF CheckMove
  <2>3. Moves(tx[t])
    BY <2>2, AtWork
  <2>4. PICK row : row = [a.was EXCEPT !.employee = a.employee, !.start = a.start]
    OBVIOUS
  <2>5. row \in RowType /\ row.employee = a.employee /\ row.start = a.start /\ row.sold = a.was.sold
    BY <2>1, <2>3, <2>4 DEF Moves, RowType
  <2>6. Fits(row)
    BY <2>2, <2>5, Views, FitsIfOffered
  <2>7. Moves(Passed(tx[t], a))
    BY <2>1, <2>3 DEF Moves, Passed
  <2>8. tx'[t] = Passed(tx[t], a)
    BY <2>2, <2>7, Passes DEF Transactions
  <2>9. tx'[t].op = "move" /\ tx'[t].args = a
    BY <2>2, <2>8 DEF Passed, Locked
  <2>10. Fits(row)'
    BY <2>2, <2>6 DEF Pass, calendar, Fits, LeaveOf
  <2> QED  BY <2>4, <2>9, <2>10 DEF Clear, NewRow
<1>3. CASE CheckBlock(t) /\ ~Refuse(t)
  <2>1. PICK a : a = tx[t].args
    OBVIOUS
  <2>2. /\ Locked(t, "block") /\ Pass(t, a)
        /\ \A b \in Live(a.employee) : ~overlaps(Block(b), a.span)
    BY <1>3, <2>1 DEF CheckBlock
  <2>3. BlocksTime(Passed(tx[t], a))
    BY <2>1, <2>2, AtWork DEF BlocksTime, Passed
  <2>4. tx'[t] = Passed(tx[t], a)
    BY <2>2, <2>3, Passes DEF Transactions
  <2>5. tx'[t].op = "block" /\ tx'[t].args = a
    BY <2>2, <2>4 DEF Passed, Locked
  <2>6. bookings' = bookings
    BY <2>2 DEF Pass, calendar
  <2> QED  BY <2>2, <2>5, <2>6 DEF Clear, Live, Block
<1>4. CASE CheckLeave(t) /\ ~Refuse(t)
  <2>1. PICK a : a = tx[t].args
    OBVIOUS
  <2>2. /\ Locked(t, "leave") /\ Pass(t, a)
        /\ a.status = "APPROVED" /\ a.seen # "APPROVED" => BookingsInRange(a.row) = {}
    BY <1>4, <2>1 DEF CheckLeave
  <2>3. Decides(Passed(tx[t], a))
    BY <2>1, <2>2, AtWork DEF Decides, Passed
  <2>4. tx'[t] = Passed(tx[t], a)
    BY <2>2, <2>3, Passes DEF Transactions
  <2>5. tx'[t].op = "leave" /\ tx'[t].args = a
    BY <2>2, <2>4 DEF Passed, Locked
  <2>6. bookings' = bookings
    BY <2>2 DEF Pass, calendar
  <2> QED  BY <2>2, <2>5, <2>6 DEF Clear, BookingsInRange, Live
<1> QED  BY <1>0, <1>1, <1>2, <1>3, <1>4

\* An insert beside rows of which some may have ended.
LEMMA InsertIsSafe ==
    ASSUME LockInv, Safe, NEW t \in Txs, NEW row \in RowType, Fits(row),
           NEW rows \in [Rows -> RowType \cup {None}],
           \A b \in Rows : rows[b] \in {bookings[b], None},
           NoOverlap(row, bookings), Insert(t, row, rows)
    PROVE  /\ RowsType'
           /\ \A e \in Employees \ {row.employee} : NoMore(e)
           /\ PromisedOf(row.employee)'
<1>1. PICK i : bookings' = [rows EXCEPT ![i] = row]
  BY DEF Insert
<1>2. \A b \in Rows : bookings'[b] = IF b = i THEN row ELSE rows[b]
  BY <1>1
<1>3. RowsType'
  BY <1>1, <1>2 DEF RowsType
<1>4. ASSUME NEW b \in Rows, bookings'[b].live PROVE bookings'[b] \in {row, bookings[b]}
  BY <1>2, <1>4 DEF None
<1>5. UNCHANGED <<blocked, leave>> /\ \A e : LeaveOf(e)' = LeaveOf(e)
  BY DEF Insert, LeaveOf
<1>6. \A x : x \in excused /\ x[1] = "leave" => x \in excused'
  BY DEF Insert, StillHolds
<1>7. ASSUME NEW e \in Employees \ {row.employee} PROVE NoMore(e)
  BY <1>4, <1>5, <1>6 DEF NoMore
<1>8. PromisedOf(row.employee)'
  <2> DEFINE e == row.employee
  <2>0. row.employee \in Employees
    BY DEF RowType
  <2>1. ASSUME NEW b \in Live(e)'
        PROVE  /\ \A c \in Live(e)' \ {b} : ~overlaps(Block(b)', Block(c)')
               /\ \A x \in blocked' : x[1] = e => ~overlaps(Block(b)', x[2])
               /\ Local[bookings'[b].start][1] \in LeaveOf(e)' =>
                     <<"leave", <<e, Local[bookings'[b].start][1]>>>> \in excused'
    <3> DEFINE New(c) == c = i /\ Block(c)' = BlockAt(row.start, row.sold)
               Old(c) == c \in Live(e) /\ bookings'[c] = bookings[c] /\ Block(c)' = Block(c)
    <3>1. ASSUME NEW c \in Live(e)' PROVE New(c) \/ Old(c)
      <4>1. c \in Rows /\ bookings'[c].live /\ bookings'[c].employee = e
        BY DEF Live
      <4>2. CASE c = i
        BY <1>2, <4>1, <4>2 DEF Block
      <4>3. CASE c # i
        BY <1>2, <4>1, <4>3 DEF Live, Block, None
      <4> QED  BY <4>2, <4>3
    <3>2. \A c \in Live(e) : ~overlaps(BlockAt(row.start, row.sold), Block(c))
      BY DEF NoOverlap, Live, Block
    <3>3. PromisedOf(e)
      BY <2>0 DEF Safe
    <3>4. ASSUME NEW c \in Live(e)', c # b PROVE ~overlaps(Block(b)', Block(c)')
      BY <3>1, <3>2, <3>3, <3>4, Symmetric DEF PromisedOf
    <3>5. ASSUME NEW x \in blocked', x[1] = e PROVE ~overlaps(Block(b)', x[2])
      BY <1>5, <3>1, <3>3, <3>5 DEF PromisedOf, Fits
    <3>6. ASSUME Local[bookings'[b].start][1] \in LeaveOf(e)'
          PROVE  <<"leave", <<e, Local[bookings'[b].start][1]>>>> \in excused'
      <4>1. CASE New(b)
        BY <1>2, <1>5, <3>6, <4>1 DEF Fits, Live
      <4>2. CASE Old(b)
        BY <1>5, <1>6, <3>3, <3>6, <4>2 DEF PromisedOf
      <4> QED  BY <3>1, <4>1, <4>2
    <3> QED  BY <3>4, <3>5, <3>6
  <2> QED  BY <2>1 DEF PromisedOf
<1> QED  BY <1>3, <1>7, <1>8

\* A step of a transaction that changes no row of the calendar.
LEMMA SameCalendar ==
    ASSUME UNCHANGED <<bookings, blocked, leave, excused>>
    PROVE  (RowsType => RowsType') /\ \A e : NoMore(e)
  BY DEF RowsType, NoMore, LeaveOf

LEMMA InsertStep ==
    ASSUME LockInv, Safe, NEW t \in Txs, WriteReserve(t) \/ WriteMove(t), ~Refuse(t)
    PROVE  RowsType' /\ Safe'
<1> USE DEF LockInv
<1>0. tx' = [tx EXCEPT ![t] = Idle]
  BY WriteStep
<1>1. CASE WriteReserve(t)
  <2>1. PICK row : row = tx[t].args
    OBVIOUS
  <2>2. Locked(t, "reserve") /\ tx[t].passed /\ NoOverlap(row, bookings) /\ Insert(t, row, bookings)
    BY <1>1, <2>1 DEF WriteReserve
  <2>3. row \in RowType /\ tx[t].held = {row.employee}
    BY <2>1, <2>2, AtWork DEF Reserves, Locked
  <2>4. Fits(row)
    BY <2>1, <2>2 DEF Safe, Clear, Locked, NewRow
  <2>5. bookings \in [Rows -> RowType \cup {None}]
    BY DEF Table
  <2>6. /\ RowsType'
        /\ \A e \in Employees \ {row.employee} : NoMore(e)
        /\ PromisedOf(row.employee)'
    BY <2>2, <2>3, <2>4, <2>5, InsertIsSafe
  <2> QED  BY <1>0, <2>3, <2>6, AddedUnderLock
<1>2. CASE WriteMove(t)
  <2>1. PICK a : a = tx[t].args
    OBVIOUS
  <2>2. PICK row : row = [a.was EXCEPT !.employee = a.employee, !.start = a.start]
    OBVIOUS
  <2>3. PICK rows : rows = IF bookings[a.row] = a.was THEN [bookings EXCEPT ![a.row] = None] ELSE bookings
    OBVIOUS
  <2>4. Locked(t, "move") /\ tx[t].passed /\ NoOverlap(row, bookings) /\ Insert(t, row, rows)
    BY <1>2, <2>1, <2>2, <2>3 DEF WriteMove
  <2>5. Moves(tx[t])
    BY <2>4, AtWork
  <2>6. row \in RowType /\ row.employee = a.employee
    BY <2>1, <2>2, <2>5 DEF Moves, RowType
  <2>7. row.employee \in tx[t].held /\ tx[t].held \subseteq Employees
    BY <2>1, <2>4, <2>5, <2>6 DEF Moves, Locked, RowType
  <2>8. Fits(row)
    BY <2>1, <2>2, <2>4 DEF Safe, Clear, Locked, NewRow
  <2>9. rows \in [Rows -> RowType \cup {None}] /\ \A b \in Rows : rows[b] \in {bookings[b], None}
    BY <2>3 DEF Table
  <2>10. /\ RowsType'
         /\ \A e \in Employees \ {row.employee} : NoMore(e)
         /\ PromisedOf(row.employee)'
    BY <2>4, <2>6, <2>8, <2>9, InsertIsSafe
  <2>11. \A e \in tx[t].held : PromisedOf(e)'
    BY <2>7, <2>10, PromiseKept DEF Safe
  <2> QED  BY <1>0, <2>7, <2>10, <2>11, AddedUnderLock
<1> QED  BY <1>1, <1>2

LEMMA BlockStep ==
    ASSUME LockInv, Safe, NEW t \in Txs, WriteBlock(t), ~Refuse(t)
    PROVE  RowsType' /\ Safe'
<1> USE DEF LockInv
<1>0. tx' = [tx EXCEPT ![t] = Idle]
  BY WriteStep
<1>1. PICK a : a = tx[t].args
  OBVIOUS
<1>2. /\ Locked(t, "block") /\ tx[t].passed
      /\ blocked' = blocked \cup {<<a.employee, a.span>>}
      /\ UNCHANGED <<bookings, leave, excused>>
  BY <1>1 DEF WriteBlock
<1>3. tx[t].held = {a.employee} /\ a.employee \in Employees
  BY <1>1, <1>2, AtWork DEF BlocksTime, Locked
<1>4. \A b \in Live(a.employee) : ~overlaps(Block(b), a.span)
  BY <1>1, <1>2 DEF Safe, Clear, Locked
<1>5. \A e \in Employees \ {a.employee} : NoMore(e)
  BY <1>2 DEF NoMore, LeaveOf
<1>6. PromisedOf(a.employee)
  BY <1>3 DEF Safe
<1>7. PromisedOf(a.employee)'
  BY <1>2, <1>4, <1>6 DEF PromisedOf, Live, Block, LeaveOf
<1>8. RowsType'
  BY <1>2, Types DEF RowsType
<1> QED  BY <1>0, <1>3, <1>5, <1>7, <1>8, AddedUnderLock

LEMMA LeaveStep ==
    ASSUME LockInv, Safe, NEW t \in Txs, WriteLeave(t)
    PROVE  RowsType' /\ Safe'
<1> USE DEF LockInv
<1>0. tx' = [tx EXCEPT ![t] = Idle]
  BY WriteStep
<1>1. PICK a : a = tx[t].args
  OBVIOUS
<1>2. /\ Locked(t, "leave") /\ tx[t].passed
      /\ leave' = [leave EXCEPT ![a.row] = a.status]
      /\ UNCHANGED <<bookings, blocked>>
      /\ excused' = IF a.status # "APPROVED" THEN excused \ {<<"leave", a.row>>}
                    ELSE IF a.seen = "APPROVED" /\ leave[a.row] # "APPROVED"
                            /\ BookingsInRange(a.row) # {}
                         THEN excused \cup {<<"leave", a.row>>} ELSE excused
  BY <1>1 DEF WriteLeave
<1>a. Decides(tx[t])
  BY <1>2, AtWork
<1>3. PICK e \in Employees, d \in Dates : a.row = <<e, d>>
  <2>1. a.row \in Absences /\ Absences \subseteq Employees \X Dates
    BY <1>1, <1>a, CalendarAssumption DEF Decides
  <2> QED  BY <2>1
<1>4. tx[t].held = {e} /\ e \in Employees /\ <<e, d>> \in Absences
  BY <1>1, <1>2, <1>3, <1>a DEF Decides, Locked
<1>5. leave \in [Absences -> {"none", "REQUESTED", "APPROVED", "REJECTED"}]
  BY DEF TypeOK
<1>6. \A y \in Absences : leave'[y] = IF y = <<e, d>> THEN a.status ELSE leave[y]
  BY <1>2, <1>3, <1>5
<1>7. \A x : x \in excused /\ x # <<"leave", <<e, d>>>> => x \in excused'
  BY <1>2, <1>3
<1>8. ASSUME NEW f \in Employees \ {e} PROVE NoMore(f)
  <2>1. LeaveOf(f)' = LeaveOf(f)
    BY <1>6, <1>8 DEF LeaveOf
  <2> QED  BY <1>2, <1>7, <1>8, <2>1 DEF NoMore
<1>9. PromisedOf(e)
  BY <1>4 DEF Safe
<1>10. CASE a.status # "APPROVED" \/ leave[a.row] = "APPROVED"
  <2>1. LeaveOf(e)' \subseteq LeaveOf(e)
    BY <1>3, <1>6, <1>10 DEF LeaveOf
  <2>2. ASSUME NEW c \in LeaveOf(e)', <<"leave", <<e, c>>>> \in excused
        PROVE  <<"leave", <<e, c>>>> \in excused'
    <3>1. <<e, c>> \in Absences /\ leave'[<<e, c>>] = "APPROVED"
      <4>1. PICK y \in Absences : y[1] = e /\ y[2] = c /\ leave'[y] = "APPROVED"
        BY DEF LeaveOf
      <4>2. y \in Employees \X Dates
        BY CalendarAssumption
      <4>3. y = <<e, c>>
        BY <4>1, <4>2
      <4> QED  BY <4>1, <4>3
    <3>2. CASE c = d
      BY <1>2, <1>3, <1>6, <2>2, <3>1, <3>2
    <3>3. CASE c # d
      BY <1>7, <2>2, <3>3
    <3> QED  BY <3>2, <3>3
  <2>3. NoMore(e)
    BY <1>2, <2>1, <2>2 DEF NoMore
  <2>4. PromisedOf(e)'
    BY <1>4, <1>9, <2>3, PromiseKept
  <2>5. RowsType'
    BY <1>2, Types DEF RowsType
  <2> QED  BY <1>0, <1>4, <1>8, <2>4, <2>5, AddedUnderLock
<1>11. CASE a.status = "APPROVED" /\ leave[a.row] # "APPROVED"
  <2>1. BookingsInRange(a.row) = {} \/ <<"leave", <<e, d>>>> \in excused'
    BY <1>1, <1>2, <1>3, <1>11 DEF Safe, Clear, Locked
  <2>2. LeaveOf(e)' \subseteq LeaveOf(e) \cup {d}
    BY <1>6, CalendarAssumption DEF LeaveOf
  <2>3. Live(e)' = Live(e) /\ \A b \in Live(e) : Block(b)' = Block(b)
    BY <1>2 DEF Live, Block
  <2>4. ASSUME NEW b \in Live(e), Local[bookings[b].start][1] \in LeaveOf(e)'
        PROVE  <<"leave", <<e, Local[bookings[b].start][1]>>>> \in excused'
    <3>1. CASE Local[bookings[b].start][1] = d
      BY <1>3, <2>1, <3>1 DEF BookingsInRange
    <3>2. CASE Local[bookings[b].start][1] # d
      BY <1>7, <1>9, <2>2, <2>4, <3>2 DEF PromisedOf
    <3> QED  BY <3>1, <3>2
  <2>5. PromisedOf(e)'
    BY <1>2, <1>9, <2>3, <2>4 DEF PromisedOf
  <2>6. RowsType'
    BY <1>2, Types DEF RowsType
  <2> QED  BY <1>0, <1>4, <1>8, <2>5, <2>6, AddedUnderLock
<1> QED  BY <1>10, <1>11

LEMMA TransactStep ==
    ASSUME LockInv, Safe, NEW t \in Txs, Transact(t)
    PROVE  RowsType' /\ Transactions' /\ Apart' /\ Safe'
<1> USE DEF LockInv
<1>0. RowsType
  BY Types
<1>1. ASSUME UNCHANGED <<bookings, blocked, leave, excused>>,
             \A u \in Txs : tx'[u] = tx[u] \/ Clear(tx[u])'
      PROVE  RowsType' /\ Safe'
  BY <1>0, <1>1, SameCalendar, NothingAdded
<1>2. CASE \/ BeginReserve(t) \/ BeginReserveAny(t) \/ BeginMove(t)
           \/ BeginBlock(t) \/ BeginLeave(t) \/ BeginDecide(t)
  <2>1. PICK x : Begin(t, x) /\ x.passed = FALSE
    BY <1>2, BeginStep
  <2>2. \A u \in Txs : tx'[u] = IF u = t THEN x ELSE tx[u]
    BY <2>1 DEF Begin, Transactions
  <2>3. Clear(tx[t])'
    BY <2>1, <2>2 DEF Clear
  <2>4. UNCHANGED <<bookings, blocked, leave, excused>>
    BY <2>1 DEF Begin, calendar
  <2> QED  BY <1>1, <1>2, <2>2, <2>3, <2>4, BeginStep
<1>3. CASE CheckReserve(t) \/ CheckMove(t) \/ CheckBlock(t) \/ CheckLeave(t)
  <2>1. /\ \A u \in Txs \ {t} : tx'[u] = tx[u]
        /\ UNCHANGED <<bookings, blocked, leave, excused>>
    BY <1>3 DEF CheckReserve, CheckMove, CheckBlock, CheckLeave, Refuse, Pass, calendar, Transactions
  <2> QED  BY <1>1, <1>3, <2>1, CheckStep, CheckIsClear
<1>4. CASE TakeLock(t)
  <2>1. PICK held : tx' = [tx EXCEPT ![t] = [tx[t] EXCEPT !.held = held]]
    BY <1>4, Locks
  <2>2. \A u \in Txs : tx'[u] = IF u = t THEN [tx[t] EXCEPT !.held = held] ELSE tx[u]
    BY <2>1 DEF Transactions
  <2>3. tx[t] # Idle /\ ~tx[t].passed
    BY <1>4, Locks
  <2>4. ~tx'[t].passed
    BY <2>2, <2>3 DEF Transactions, Wellformed
  <2>5. Clear(tx[t])'
    BY <2>4 DEF Clear
  <2>6. UNCHANGED <<bookings, blocked, leave, excused>>
    BY <1>4 DEF TakeLock, calendar
  <2> QED  BY <1>1, <1>4, <2>2, <2>5, <2>6, Locks
<1>5. CASE WriteReserve(t) \/ WriteMove(t) \/ WriteBlock(t) \/ WriteLeave(t)
  <2>1. CASE Refuse(t) /\ ~WriteLeave(t)
    <3>1. /\ \A u \in Txs : tx'[u] = IF u = t THEN Idle ELSE tx[u]
          /\ UNCHANGED <<bookings, blocked, leave, excused>>
      BY <2>1 DEF Refuse, calendar, Transactions
    <3> QED  BY <1>1, <1>5, <3>1, WriteStep, IdleIsClear
  <2> QED  BY <1>5, <2>1, WriteStep, InsertStep, BlockStep, LeaveStep
<1> QED  BY <1>2, <1>3, <1>4, <1>5 DEF Transact

\* What the office writes without a lock adds to no calendar.
LEMMA OfficeStep ==
    ASSUME LockInv, Safe,
           \/ \E e \in Employees : Administer(e)
           \/ \E b \in Rows : Cancel(b)
           \/ DeleteBlock \/ CloseDay \/ OpenDay
           \/ CountForService \/ ArchiveService \/ UpdateService
           \/ CountForCategory \/ ArchiveCategory \/ LookAtCategory \/ FileService
           \/ Tick
    PROVE  RowsType' /\ Transactions' /\ Apart' /\ Safe'
<1>0. RowsType
  BY Types DEF LockInv
<1>1. UNCHANGED tx
  BY DEF Administer, ReplaceWorkingHours, CreateException, DeleteException, ReportConflicts,
         CountForEmployee, ArchiveEmployee, UpdateEmployee, CountForPairing, RemovePairing, AddPairing,
         Cancel, DeleteBlock, CloseDay, OpenDay, CountForService, ArchiveService, UpdateService,
         CountForCategory, ArchiveCategory, LookAtCategory, FileService, Tick, Edit, Looked, Written
<1>2. Transactions' /\ Apart'
  BY <1>1 DEF LockInv, Transactions, Apart
<1>3. ASSUME RowsType', \A e \in Employees : NoMore(e) PROVE RowsType' /\ Safe'
  BY <1>1, <1>3, NothingAdded
<1>4. CASE \E b \in Rows : Cancel(b)
  <2>1. PICK b \in Rows : bookings' = [bookings EXCEPT ![b] = None]
    BY <1>4 DEF Cancel
  <2>2. \A c \in Rows : bookings'[c] = IF c = b THEN None ELSE bookings[c]
    BY <1>0, <2>1 DEF RowsType
  <2>3. UNCHANGED <<blocked, leave>> /\ \A e : LeaveOf(e)' = LeaveOf(e)
    BY <1>4 DEF Cancel, LeaveOf
  <2>4. \A x : x \in excused /\ x[1] = "leave" => x \in excused'
    BY <1>4 DEF Cancel, StillHolds
  <2>5. \A e : NoMore(e)
    BY <2>2, <2>3, <2>4 DEF NoMore, None
  <2>6. RowsType'
    BY <1>0, <2>1 DEF RowsType
  <2> QED  BY <1>2, <1>3, <2>5, <2>6
<1>5. CASE DeleteBlock
  <2>1. blocked' \subseteq blocked /\ UNCHANGED <<bookings, leave, excused>>
    BY <1>5 DEF DeleteBlock
  <2>2. \A e : NoMore(e)
    BY <2>1 DEF NoMore, LeaveOf
  <2> QED  BY <1>0, <1>2, <1>3, <2>1, <2>2 DEF RowsType
<1>6. CASE UNCHANGED <<bookings, blocked, leave>> /\ excused \subseteq excused'
  BY <1>0, <1>2, <1>3, <1>6 DEF NoMore, LeaveOf, RowsType
<1>7. CASE \E e \in Employees : Administer(e)
  BY <1>6, <1>7 DEF Administer, ReplaceWorkingHours, CreateException, DeleteException, ReportConflicts,
         CountForEmployee, ArchiveEmployee, UpdateEmployee, CountForPairing, RemovePairing, AddPairing,
         Looked, Written, calendar
<1>8. CASE \/ CloseDay \/ OpenDay \/ CountForService \/ ArchiveService \/ UpdateService
           \/ CountForCategory \/ ArchiveCategory \/ LookAtCategory \/ FileService \/ Tick
  BY <1>6, <1>8 DEF CloseDay, OpenDay, CountForService, ArchiveService, UpdateService,
         CountForCategory, ArchiveCategory, LookAtCategory, FileService, Tick, Looked, Written, calendar
<1> QED  BY <1>4, <1>5, <1>7, <1>8

-----------------------------------------------------------------------------
(* The other tables keep their types.                                      *)

LEMMA TransactRest ==
    ASSUME LockInv, NEW t \in Txs, Transact(t)
    PROVE  RestType'
<1>0. RestType
  BY Types DEF LockInv
<1>1. ASSUME UNCHANGED <<now, calendar, rota, catalog, office, area>> PROVE RestType'
  BY <1>0, <1>1 DEF RestType, calendar, rota, catalog, office
<1>2. CASE \/ BeginReserve(t) \/ BeginReserveAny(t) \/ BeginMove(t)
           \/ BeginBlock(t) \/ BeginLeave(t) \/ BeginDecide(t)
  <2>1. PICK x : Begin(t, x)
    BY <1>2, BeginStep
  <2> QED  BY <1>1, <2>1 DEF Begin
<1>3. CASE Refuse(t) \/ CheckReserve(t) \/ CheckMove(t) \/ CheckBlock(t) \/ CheckLeave(t) \/ TakeLock(t)
  BY <1>1, <1>3 DEF CheckReserve, CheckMove, CheckBlock, CheckLeave, Refuse, Pass, TakeLock, counters
<1>4. ASSUME NEW row, NEW rows, Insert(t, row, rows) PROVE RestType'
  BY <1>0, <1>4 DEF Insert, RestType, rota, catalog, counters
<1>5. CASE WriteReserve(t)
  BY <1>3, <1>4, <1>5 DEF WriteReserve
<1>6. CASE WriteMove(t)
  BY <1>3, <1>4, <1>6 DEF WriteMove
<1>7. CASE WriteBlock(t) /\ ~Refuse(t)
  <2>1. Locked(t, "block") /\ blocked' = blocked \cup {<<tx[t].args.employee, tx[t].args.span>>}
        /\ UNCHANGED <<now, leave, closed, rota, catalog, office, counters>>
    BY <1>7 DEF WriteBlock
  <2>2. BlocksTime(tx[t])
    BY <2>1, AtWork DEF LockInv
  <2> QED  BY <1>0, <2>1, <2>2 DEF BlocksTime, RestType, rota, catalog, office, counters
<1>8. CASE WriteLeave(t)
  <2>1. Locked(t, "leave") /\ leave' = [leave EXCEPT ![tx[t].args.row] = tx[t].args.status]
        /\ UNCHANGED <<now, blocked, closed, rota, catalog, office, counters>>
    BY <1>8 DEF WriteLeave
  <2>2. Decides(tx[t])
    BY <2>1, AtWork DEF LockInv
  <2> QED  BY <1>0, <2>1, <2>2 DEF Decides, RestType, rota, catalog, office, counters
<1> QED  BY <1>2, <1>3, <1>5, <1>6, <1>7, <1>8 DEF Transact

Account == [archived : BOOLEAN, online : BOOLEAN]

LEMMA Switched ==
    ASSUME NEW x \in Account
    PROVE  [x EXCEPT !.archived = TRUE] \in Account /\ [x EXCEPT !.online = ~@] \in Account
<1>1. ASSUME NEW v \in BOOLEAN
      PROVE  [x EXCEPT !.archived = v] \in Account /\ [x EXCEPT !.online = v] \in Account
  BY DEF Account
<1> QED  BY <1>1, Zenon DEF Account

LEMMA OfficeRest ==
    ASSUME LockInv,
           \/ \E e \in Employees : Administer(e)
           \/ \E b \in Rows : Cancel(b)
           \/ DeleteBlock \/ CloseDay \/ OpenDay
           \/ CountForService \/ ArchiveService \/ UpdateService
           \/ CountForCategory \/ ArchiveCategory \/ LookAtCategory \/ FileService
           \/ Tick
    PROVE  RestType'
<1>0. RestType
  BY Types DEF LockInv
<1>1. ASSUME NEW e \in Employees, Administer(e) PROVE RestType'
  <2>0. \A f \in Employees : Uncovered(f) \subseteq Rows
    BY DEF Uncovered, Ahead, Live
  <2>1. CASE ReplaceWorkingHours(e) \/ CreateException(e) \/ DeleteException(e) \/ ReportConflicts(e)
    BY <1>0, <2>0, <2>1 DEF ReplaceWorkingHours, CreateException, DeleteException, ReportConflicts, Edit,
           RestType, calendar, catalog, office, rota, counters
  <2>2. CASE CountForEmployee(e) \/ CountForPairing(e)
    BY <1>0, <2>2 DEF CountForEmployee, CountForPairing, Looked, Edit, RestType, calendar, catalog, rota
  <2>3. CASE ArchiveEmployee(e) \/ UpdateEmployee(e)
    <3>1. /\ \/ staff' = [staff EXCEPT ![e].archived = TRUE]
             \/ staff' = [staff EXCEPT ![e].online = ~@]
          /\ UNCHANGED <<now, calendar, rota, performs, service, reporting, reported, area>>
      BY <2>3 DEF ArchiveEmployee, UpdateEmployee, Written, Edit, office, counters
    <3>2. staff' \in [Employees -> Account]
      <4>1. staff \in [Employees -> Account]
        BY <1>0 DEF RestType, Account
      <4>2. PICK x : x = staff[e]
        OBVIOUS
      <4>3. x \in Account /\ [x EXCEPT !.archived = TRUE] \in Account /\ [x EXCEPT !.online = ~@] \in Account
        BY <4>1, <4>2, Switched
      <4> QED  BY <3>1, <4>1, <4>2, <4>3
    <3> QED  BY <1>0, <3>1, <3>2 DEF Account, RestType, calendar, rota
  <2>4. CASE RemovePairing(e) \/ AddPairing(e)
    BY <1>0, <2>4 DEF RemovePairing, AddPairing, Written, Edit, RestType, calendar, rota, office, counters
  <2> QED  BY <1>1, <2>1, <2>2, <2>3, <2>4 DEF Administer
<1>2. ASSUME NEW b \in Rows, Cancel(b) PROVE RestType'
  BY <1>0, <1>2 DEF Cancel, RestType, rota, catalog
<1>3. CASE DeleteBlock \/ CloseDay \/ OpenDay
  BY <1>0, <1>3 DEF DeleteBlock, CloseDay, OpenDay, Edit, RestType, rota, catalog, office
<1>4. CASE ArchiveService
  BY <1>0, <1>4 DEF ArchiveService, Written, RestType, calendar, rota, counters
<1>5. CASE UpdateService
  BY <1>0, <1>5 DEF UpdateService, Edit, RestType, calendar, rota, office
<1>6. CASE FileService
  BY <1>0, <1>6 DEF FileService, Written, RestType, calendar, rota, counters
<1>7. CASE ArchiveCategory
  BY <1>0, <1>7 DEF ArchiveCategory, Written, RestType, calendar, rota, counters
<1>8. CASE CountForService \/ CountForCategory \/ LookAtCategory
  BY <1>0, <1>8 DEF CountForService, CountForCategory, LookAtCategory, Looked, Edit, RestType,
         calendar, catalog, rota
<1>9. CASE Tick
  BY <1>0, <1>9 DEF Tick, RestType, calendar, catalog, rota, office, counters
<1> QED  BY <1>1, <1>2, <1>3, <1>4, <1>5, <1>6, <1>7, <1>8, <1>9

-----------------------------------------------------------------------------
LEMMA StepInv == LockInv /\ Safe /\ [Next]_vars => LockInv' /\ Safe'
<1> SUFFICES ASSUME LockInv, Safe, [Next]_vars PROVE LockInv' /\ Safe'
  OBVIOUS
<1>1. ASSUME RestType', RowsType', Transactions', Apart' PROVE LockInv'
  <2>1. (TypeOK /\ Table)'
    BY <1>1, Types, PTL
  <2> QED  BY <1>1, <2>1 DEF LockInv
<1>2. CASE \E t \in Txs : Transact(t)
  BY <1>1, <1>2, TransactStep, TransactRest
<1>3. CASE UNCHANGED vars
  <2>1. UNCHANGED tx /\ UNCHANGED <<bookings, blocked, leave, excused>>
    BY <1>3 DEF vars, calendar
  <2>2. Safe'
    BY <2>1, SameCalendar, NothingAdded
  <2>3. Transactions' /\ Apart'
    BY <2>1 DEF LockInv, Transactions, Apart
  <2>4. RestType /\ RowsType
    BY Types DEF LockInv
  <2>5. RowsType'
    BY <2>1, <2>4 DEF RowsType
  <2>6. RestType'
    BY <1>3, <2>4 DEF RestType, vars, calendar, rota, catalog, office, counters
  <2> QED  BY <1>1, <2>2, <2>3, <2>5, <2>6
<1>4. CASE ~(\E t \in Txs : Transact(t)) /\ Next
  BY <1>1, <1>4, OfficeStep, OfficeRest DEF Next
<1> QED  BY <1>2, <1>3, <1>4

\* To begin with, appointments lie apart and outside leave, and nobody holds a calendar.
LEMMA InitInv == Init => LockInv /\ Safe
<1> SUFFICES ASSUME Init PROVE LockInv /\ Safe
  OBVIOUS
<1>1. RowsType
  <2>1. PICK o \in Offerings : service = [archived |-> FALSE, online |-> TRUE, filed |-> FALSE, sold |-> o]
    BY DEF Init
  <2>2. PICK first \in Booked : bookings = [b \in Rows |->
          IF b > Len(first) THEN None
          ELSE [live |-> TRUE, employee |-> first[b][1], start |-> first[b][2], sold |-> service.sold]]
    BY DEF Init
  <2>3. first \in Seq(Employees \X BookAt) /\ Rows \subseteq Nat \ {0}
    BY CalendarAssumption DEF Rows
  <2>4. ASSUME NEW b \in Rows PROVE bookings[b] \in RowType \cup {None}
    <3>1. CASE b > Len(first)
      BY <2>2, <3>1
    <3>2. CASE ~(b > Len(first))
      <4>1. first[b] \in Employees \X BookAt
        BY <2>3, <3>2
      <4>2. bookings[b] = [live |-> TRUE, employee |-> first[b][1], start |-> first[b][2], sold |-> o]
        BY <2>1, <2>2, <3>2
      <4> QED  BY <4>1, <4>2 DEF RowType
    <3> QED  BY <3>1, <3>2
  <2>5. bookings = [b \in Rows |-> bookings[b]]
    BY <2>2
  <2> QED  BY <2>4, <2>5 DEF RowsType
<1>2. RestType
  <2>1. now \in Clock /\ blocked \subseteq Blocks /\ closed \subseteq Dates /\ performs \subseteq Employees
    BY CalendarAssumption DEF Init
  <2>2. leave \in [Absences -> {"none", "REQUESTED", "APPROVED", "REJECTED"}]
    BY DEF Init
  <2>3. hours \in [Employees -> Weeks] /\ staff \in [Employees -> [archived : BOOLEAN, online : BOOLEAN]]
    BY DEF Init
  <2>4. area \in Areas /\ reporting \subseteq Employees /\ reported \subseteq Rows
    BY DEF Init
  <2>5. service \in [archived : BOOLEAN, online : BOOLEAN, filed : BOOLEAN, sold : Offerings]
    <3>1. \A v, w \in BOOLEAN : \A o \in Offerings :
             [archived |-> v, online |-> w, filed |-> v, sold |-> o]
                \in [archived : BOOLEAN, online : BOOLEAN, filed : BOOLEAN, sold : Offerings]
      OBVIOUS
    <3>2. \E o \in Offerings : service = [archived |-> FALSE, online |-> TRUE, filed |-> FALSE, sold |-> o]
      BY DEF Init
    <3>3. TRUE \in BOOLEAN /\ FALSE \in BOOLEAN
      OBVIOUS
    <3> QED  BY <3>1, <3>2, <3>3, Zenon
  <2> QED  BY <2>1, <2>2, <2>3, <2>4, <2>5 DEF RestType
<1>3. Transactions /\ Apart
  BY DEF Init, Transactions, Wellformed, Apart, Idle
<1>4. \A t \in Txs : Clear(tx[t])
  BY IdleIsClear DEF Init
<1>5. \A e \in Employees : PromisedOf(e)
  BY DEF Init, PromisedOf
<1> QED  BY <1>1, <1>2, <1>3, <1>4, <1>5, Types DEF LockInv, Safe

\* Transactions never wait for each other in a circle, whatever calendars they
\* want and however many they are (withCalendarLock).
THEOREM CircleFree == Spec => []NoCircularWait
<1> QED  BY InitInv, StepInv, NoCircle, PTL DEF Spec

\* No employee is promised twice, for any number of concurrent reservations, moves,
\* blocked times and leave decisions (reservation.service.ts, reschedule.service.ts,
\* availability-admin.service.ts).
THEOREM NobodyPromisedTwice == Spec => []PromisedOnce
<1>1. Safe => PromisedOnce
  BY DEF Safe, PromisedOf, PromisedOnce
<1> QED  BY <1>1, InitInv, StepInv, PTL DEF Spec

-----------------------------------------------------------------------------
(* Appointments the rota or the catalog no longer supports.  Reports and   *)
(* counts are kept as rows come and go: what is true of an appointment is  *)
(* said by a tag of its row, given with the row at the latest.             *)

Marks(e) == {<<"employee", e>>, <<"pairing", e>>, <<"service">>}

\* e is retired, or about to be: the count was taken
Leaving(e) == \/ staff[e].archived \/ e \notin performs \/ service.archived
              \/ Marks(e) \cap pending # {}

RetiredOf(e) == \A b \in Ahead(e) : Leaving(e) => <<"retired", b>> \in excused

CategoryInv ==
    /\ category \/ <<"category">> \in pending
    /\ service.filed /\ ~service.archived
    => <<"filed">> \in excused

CoverOf(e) == e \in reporting \/ \A b \in Uncovered(e) \ reported : <<"cover", b>> \in excused

Tagged == CategoryInv /\ \A e \in Employees : RetiredOf(e) /\ CoverOf(e)

\* As time passes appointments end; none begins to be ahead.
LEMMA AheadLess ==
    ASSUME LockInv, NEW e \in Employees, UNCHANGED bookings, now' = now \/ (now' \in Clock /\ now' > now)
    PROVE  Ahead(e)' \subseteq Ahead(e)
<1>1. ASSUME NEW b \in Rows, bookings[b].live, bookings[b].start + bookings[b].sold.duration > now'
      PROVE  bookings[b].start + bookings[b].sold.duration > now
  <2>1. bookings[b] \in RowType
    BY <1>1 DEF LockInv, Table, None
  <2>2. bookings[b].start \in Nat /\ bookings[b].sold.duration \in Nat
    <3>1. bookings[b].start \in Instants
      BY <2>1, CalendarAssumption DEF RowType
    <3>2. bookings[b].sold \in Offerings
      BY <2>1 DEF RowType
    <3> QED  BY <3>1, <3>2, OfferingsAssumption DEF Instants
  <2>3. now \in Nat /\ now' \in Nat
    <3>1. now \in Clock /\ now' \in Clock
      BY DEF LockInv, TypeOK
    <3>2. Clock \subseteq Instants
      BY CalendarAssumption
    <3> QED  BY <3>1, <3>2 DEF Instants
  <2> QED  BY <1>1, <2>2, <2>3
<1> QED  BY <1>1 DEF Ahead, Live

\* Tags other than those of leave days stay as long as their row.
LEMMA TagsAfterInsert ==
    ASSUME LockInv, Tagged, NEW t \in Txs, NEW row \in RowType,
           NEW rows \in [Rows -> RowType \cup {None}],
           \A b \in Rows : rows[b] \in {bookings[b], None},
           Insert(t, row, rows)
    PROVE  Tagged'
<1>1. PICK i : /\ bookings' = [rows EXCEPT ![i] = row]
               /\ excused' = {x \in excused : StillHolds(x, rows)} \cup Overtaken(i, row)
  BY DEF Insert
<1>2. \A b \in Rows : bookings'[b] = IF b = i THEN row ELSE rows[b]
  BY <1>1
<1>3. /\ UNCHANGED <<now, hours, exceptions, staff, performs, service, category, pending, reporting>>
      /\ reported' = {c \in reported : rows[c].live}
  BY DEF Insert, rota, catalog
<1>4. CategoryInv'
  BY <1>1, <1>3 DEF Tagged, CategoryInv, StillHolds
<1>5. ASSUME NEW e \in Employees, NEW b \in Live(e)', b # i
      PROVE  b \in Live(e) /\ bookings'[b] = bookings[b] /\ rows[b].live /\ Block(b)' = Block(b)
  BY <1>2, <1>5 DEF Live, None, Block
<1>6. ASSUME NEW e \in Employees PROVE RetiredOf(e)'
  <2> SUFFICES ASSUME NEW b \in Ahead(e)', Leaving(e)' PROVE <<"retired", b>> \in excused'
    BY DEF RetiredOf
  <2>1. Leaving(e)
    BY <1>3 DEF Leaving
  <2>2. CASE b = i
    <3>1. e = row.employee
      BY <1>2, <2>2 DEF Ahead, Live
    <3> QED  BY <1>1, <2>1, <2>2, <3>1 DEF Overtaken, Leaving, Marks
  <2>3. CASE b # i
    <3>1. b \in Ahead(e) /\ rows[b].live
      BY <1>3, <1>5, <2>3 DEF Ahead
    <3> QED  BY <1>1, <2>1, <3>1 DEF Tagged, RetiredOf, StillHolds
  <2> QED  BY <2>2, <2>3
<1>7. ASSUME NEW e \in Employees PROVE CoverOf(e)'
  <2> SUFFICES ASSUME e \notin reporting, NEW b \in Uncovered(e)', b \notin reported'
               PROVE  <<"cover", b>> \in excused'
    BY <1>3 DEF CoverOf
  <2>0. RotaOf(e)' = RotaOf(e)
    BY <1>3 DEF RotaOf
  <2>1. b \in Ahead(e)' /\ ~IsCovered(RotaOf(e), Block(b)')
    BY <2>0 DEF Uncovered
  <2>2. CASE b = i
    <3>1. e = row.employee /\ Block(b)' = BlockAt(row.start, row.sold)
      BY <1>2, <2>1, <2>2 DEF Ahead, Live, Block
    <3> QED  BY <1>1, <2>1, <2>2, <3>1 DEF Overtaken
  <2>3. CASE b # i
    <3>1. b \in Ahead(e) /\ rows[b].live /\ Block(b)' = Block(b)
      BY <1>3, <1>5, <2>1, <2>3 DEF Ahead
    <3>2. b \in Uncovered(e) /\ b \notin reported
      BY <1>3, <2>1, <3>1 DEF Uncovered
    <3> QED  BY <1>1, <3>1, <3>2 DEF Tagged, CoverOf, StillHolds
  <2> QED  BY <2>2, <2>3
<1> QED  BY <1>4, <1>6, <1>7 DEF Tagged

\* A step that leaves appointments, rota and catalog alone, and no tag of a row behind.
LEMMA TagsRest ==
    ASSUME LockInv, Tagged,
           UNCHANGED <<bookings, hours, exceptions, staff, performs, service, category, pending, reporting, reported>>,
           now' = now \/ (now' \in Clock /\ now' > now),
           \A x : x \in excused /\ x[1] \in {"cover", "retired", "filed"} => x \in excused'
    PROVE  Tagged'
<1>1. \A e \in Employees : Ahead(e)' \subseteq Ahead(e) /\ RotaOf(e)' = RotaOf(e)
  BY AheadLess DEF RotaOf
<1>2. \A e \in Employees : RetiredOf(e)'
  BY <1>1 DEF Tagged, RetiredOf, Leaving
<1>3. \A e \in Employees : CoverOf(e)'
  BY <1>1 DEF Tagged, CoverOf, Uncovered, Block
<1>4. CategoryInv'
  BY DEF Tagged, CategoryInv
<1> QED  BY <1>2, <1>3, <1>4 DEF Tagged

LEMMA TransactTags ==
    ASSUME LockInv, Tagged, NEW t \in Txs, Transact(t)
    PROVE  Tagged'
<1> DEFINE Quiet == /\ UNCHANGED <<now, bookings, hours, exceptions, staff, performs, service, category>>
                    /\ UNCHANGED <<pending, reporting, reported>>
                    /\ \A x : x \in excused /\ x[1] \in {"cover", "retired", "filed"} => x \in excused'
<1>0. Quiet => Tagged'
  BY TagsRest
<1>1. CASE \/ BeginReserve(t) \/ BeginReserveAny(t) \/ BeginMove(t)
           \/ BeginBlock(t) \/ BeginLeave(t) \/ BeginDecide(t)
  <2>1. PICK x : Begin(t, x)
    BY <1>1, BeginStep
  <2> QED  BY <1>0, <2>1 DEF Begin, calendar, rota, catalog, office
<1>2. CASE Refuse(t) \/ CheckReserve(t) \/ CheckMove(t) \/ CheckBlock(t) \/ CheckLeave(t) \/ TakeLock(t)
  <2>1. Quiet
    BY <1>2 DEF CheckReserve, CheckMove, CheckBlock, CheckLeave, Refuse, Pass, TakeLock,
           calendar, rota, catalog, office
  <2> QED  BY <1>0, <2>1
<1>3. CASE WriteReserve(t) /\ ~Refuse(t)
  <2>1. Locked(t, "reserve") /\ tx[t].passed /\ Insert(t, tx[t].args, bookings)
    BY <1>3 DEF WriteReserve
  <2>2. tx[t].args \in RowType
    BY <2>1, AtWork DEF LockInv, Reserves
  <2>3. bookings \in [Rows -> RowType \cup {None}]
    BY DEF LockInv, Table
  <2> QED  BY <2>1, <2>2, <2>3, TagsAfterInsert
<1>4. CASE WriteMove(t) /\ ~Refuse(t)
  <2>1. PICK a : a = tx[t].args
    OBVIOUS
  <2>2. PICK row : row = [a.was EXCEPT !.employee = a.employee, !.start = a.start]
    OBVIOUS
  <2>3. PICK rows : rows = IF bookings[a.row] = a.was THEN [bookings EXCEPT ![a.row] = None] ELSE bookings
    OBVIOUS
  <2>4. Locked(t, "move") /\ Insert(t, row, rows)
    BY <1>4, <2>1, <2>2, <2>3 DEF WriteMove
  <2>5. row \in RowType
    BY <2>1, <2>2, <2>4, AtWork DEF LockInv, Moves, RowType
  <2>6. rows \in [Rows -> RowType \cup {None}] /\ \A b \in Rows : rows[b] \in {bookings[b], None}
    BY <2>3 DEF LockInv, Table
  <2> QED  BY <2>4, <2>5, <2>6, TagsAfterInsert
<1>5. CASE WriteBlock(t) /\ ~Refuse(t)
  <2>1. Quiet
    BY <1>5 DEF WriteBlock, rota, catalog, office
  <2> QED  BY <1>0, <2>1
<1>6. CASE WriteLeave(t)
  <2>1. \A x : x \in excused /\ x[1] \in {"cover", "retired", "filed"} => x \in excused'
    BY <1>6 DEF WriteLeave
  <2>2. Quiet
    BY <1>6, <2>1 DEF WriteLeave, rota, catalog, office
  <2> QED  BY <1>0, <2>2
<1> QED  BY <1>1, <1>2, <1>3, <1>4, <1>5, <1>6 DEF Transact

\* Nothing of the rota or the catalog is read by the other part of the invariant.
LEMMA CoverKept ==
    ASSUME LockInv, Tagged, NEW e \in Employees,
           UNCHANGED <<now, bookings, hours, exceptions>>, reporting \subseteq reporting',
           reported \subseteq reported', \A x : x \in excused /\ x[1] = "cover" => x \in excused'
    PROVE  CoverOf(e)'
<1>1. Uncovered(e)' = Uncovered(e)
  BY DEF Uncovered, Ahead, Live, RotaOf, Block
<1> QED  BY <1>1 DEF Tagged, CoverOf

LEMMA RetiredKept ==
    ASSUME LockInv, Tagged, NEW e \in Employees,
           UNCHANGED <<now, bookings>>, Leaving(e)' => Leaving(e),
           \A x : x \in excused /\ x[1] = "retired" => x \in excused'
    PROVE  RetiredOf(e)'
<1>1. Ahead(e)' = Ahead(e)
  BY DEF Ahead, Live
<1> QED  BY <1>1 DEF Tagged, RetiredOf

\* The rota: whoever's was written is to be reported, or what the deletion uncovers is excused.
LEMMA RotaTags ==
    ASSUME LockInv, Tagged, NEW e \in Employees,
           ReplaceWorkingHours(e) \/ CreateException(e) \/ DeleteException(e) \/ ReportConflicts(e)
    PROVE  Tagged'
<1>1. /\ UNCHANGED <<now, bookings, staff, performs, service, category, pending>>
      /\ excused \subseteq excused'
  BY DEF ReplaceWorkingHours, CreateException, DeleteException, ReportConflicts, Edit, calendar, catalog,
         office, rota
<1>2. CategoryInv'
  BY <1>1 DEF Tagged, CategoryInv
<1>3. ASSUME NEW f \in Employees PROVE RetiredOf(f)'
  BY <1>1, RetiredKept DEF Leaving
<1>4. \A f \in Employees : Ahead(f)' = Ahead(f) /\ \A b \in Ahead(f) : Block(b)' = Block(b)
  BY <1>1 DEF Ahead, Live, Block
<1>5. ASSUME NEW f \in Employees, f # e PROVE CoverOf(f)'
  <2>1. RotaOf(f)' = RotaOf(f)
    <3>1. CASE ReplaceWorkingHours(e)
      <4>1. hours'[f] = hours[f] /\ exceptions' = exceptions
        BY <1>5, <3>1 DEF ReplaceWorkingHours, LockInv, TypeOK
      <4> QED  BY <4>1 DEF RotaOf
    <3>2. CASE CreateException(e)
      <4>1. PICK rule : exceptions' = exceptions \cup {[employee |-> e, rule |-> rule]}
        BY <3>2 DEF CreateException
      <4>2. hours' = hours
        BY <3>2 DEF CreateException
      <4>3. {y \in exceptions' : y.employee = f} = {y \in exceptions : y.employee = f}
        BY <1>5, <4>1
      <4> QED  BY <4>2, <4>3 DEF RotaOf
    <3>3. CASE DeleteException(e)
      <4>1. PICK x : x.employee = e /\ exceptions' = exceptions \ {x}
        BY <3>3 DEF DeleteException
      <4>2. hours' = hours
        BY <3>3 DEF DeleteException
      <4>3. {y \in exceptions' : y.employee = f} = {y \in exceptions : y.employee = f}
        BY <1>5, <4>1
      <4> QED  BY <4>2, <4>3 DEF RotaOf
    <3>4. CASE ReportConflicts(e)
      BY <3>4 DEF ReportConflicts, rota, RotaOf
    <3> QED  BY <3>1, <3>2, <3>3, <3>4
  <2>2. Uncovered(f)' = Uncovered(f)
    BY <1>4, <2>1 DEF Uncovered
  <2>3. reported \subseteq reported' /\ (f \in reporting => f \in reporting')
    BY <1>5 DEF ReplaceWorkingHours, CreateException, DeleteException, ReportConflicts, office
  <2> QED  BY <1>1, <2>2, <2>3 DEF Tagged, CoverOf
<1>6. CoverOf(e)'
  <2>1. CASE ReplaceWorkingHours(e) \/ CreateException(e)
    BY <2>1 DEF ReplaceWorkingHours, CreateException, CoverOf
  <2>2. CASE DeleteException(e)
    <3>1. /\ reporting' = reporting /\ reported' = reported
          /\ excused' = excused \cup {<<"cover", b>> : b \in
                {c \in Ahead(e) : ~IsCovered(RotaOf(e)', Block(c))} \ reported}
      BY <2>2 DEF DeleteException, office
    <3>2. Uncovered(e)' = {c \in Ahead(e) : ~IsCovered(RotaOf(e)', Block(c))}
      BY <1>4 DEF Uncovered
    <3> QED  BY <3>1, <3>2 DEF CoverOf
  <2>3. CASE ReportConflicts(e)
    <3>1. Uncovered(e)' = Uncovered(e)
      BY <1>4, <2>3 DEF Uncovered, ReportConflicts, rota, RotaOf
    <3> QED  BY <2>3, <3>1 DEF ReportConflicts, CoverOf
  <2> QED  BY <2>1, <2>2, <2>3
<1> QED  BY <1>2, <1>3, <1>5, <1>6 DEF Tagged

\* The catalog: a count finds no appointment to come, and the write needs the count.
LEMMA CatalogTags ==
    ASSUME LockInv, Tagged,
           \/ \E e \in Employees : \/ CountForEmployee(e) \/ ArchiveEmployee(e) \/ UpdateEmployee(e)
                                   \/ CountForPairing(e) \/ RemovePairing(e) \/ AddPairing(e)
           \/ CountForService \/ ArchiveService \/ UpdateService
           \/ CountForCategory \/ ArchiveCategory \/ LookAtCategory \/ FileService
    PROVE  Tagged'
<1>1. /\ UNCHANGED <<now, bookings, hours, exceptions, reporting, reported>>
      /\ excused \subseteq excused'
  BY DEF CountForEmployee, ArchiveEmployee, UpdateEmployee, CountForPairing, RemovePairing, AddPairing,
         CountForService, ArchiveService, UpdateService, CountForCategory, ArchiveCategory,
         LookAtCategory, FileService, Looked, Written, Edit, calendar, rota, office
<1>2. \A e \in Employees : CoverOf(e)'
  BY <1>1, CoverKept
<1>3. service \in [archived : BOOLEAN, online : BOOLEAN, filed : BOOLEAN, sold : Offerings]
  BY DEF LockInv, Table
<1>4. ASSUME NEW f \in Employees PROVE RetiredOf(f)'
  <2>0. Ahead(f)' = Ahead(f)
    BY <1>1 DEF Ahead, Live
  <2>1. ASSUME Ahead(f) = {} PROVE RetiredOf(f)'
    BY <2>0, <2>1 DEF RetiredOf
  <2>2. ASSUME Leaving(f)' => Leaving(f) PROVE RetiredOf(f)'
    BY <1>1, <2>2, RetiredKept
  <2>3. CASE \E e \in Employees : CountForEmployee(e) \/ CountForPairing(e)
    <3>1. PICK e \in Employees : CountForEmployee(e) \/ CountForPairing(e)
      BY <2>3
    <3>2. /\ UNCHANGED <<staff, performs, service>> /\ Ahead(e) = {}
          /\ \/ pending' = pending \cup {<<"employee", e>>}
             \/ pending' = pending \cup {<<"pairing", e>>}
      BY <3>1 DEF CountForEmployee, CountForPairing, Looked, catalog
    <3>3. CASE e # f
      <4>1. Leaving(f)' => Leaving(f)
        BY <3>2, <3>3 DEF Leaving, Marks
      <4> QED  BY <2>2, <4>1
    <3> QED  BY <2>1, <3>2, <3>3
  <2>4. CASE \E e \in Employees : ArchiveEmployee(e) \/ RemovePairing(e)
    <3>1. PICK e \in Employees : ArchiveEmployee(e) \/ RemovePairing(e)
      BY <2>4
    <3>2. \/ /\ <<"employee", e>> \in pending /\ pending' \subseteq pending
             /\ staff' = [staff EXCEPT ![e].archived = TRUE] /\ UNCHANGED <<performs, service>>
          \/ /\ <<"pairing", e>> \in pending /\ pending' \subseteq pending
             /\ performs' = performs \ {e} /\ UNCHANGED <<staff, service>>
      BY <3>1 DEF ArchiveEmployee, RemovePairing, Written
    <3>3. CASE e = f
      <4>1. Leaving(f)
        BY <3>2, <3>3 DEF Leaving, Marks
      <4> QED  BY <2>2, <4>1
    <3>4. CASE e # f
      <4>1. staff'[f] = staff[f]
        BY <3>2, <3>4 DEF LockInv, TypeOK
      <4>2. Leaving(f)' => Leaving(f)
        BY <3>2, <3>4, <4>1 DEF Leaving, Marks
      <4> QED  BY <2>2, <4>2
    <3> QED  BY <3>3, <3>4
  <2>5. CASE \E e \in Employees : UpdateEmployee(e) \/ AddPairing(e)
    <3>1. PICK e \in Employees : UpdateEmployee(e) \/ AddPairing(e)
      BY <2>5
    <3>2. /\ \/ staff' = staff
             \/ staff' = [staff EXCEPT ![e].online = ~@]
          /\ performs \subseteq performs' /\ UNCHANGED <<service, pending>>
      BY <3>1 DEF UpdateEmployee, AddPairing, office
    <3>3. staff'[f].archived = staff[f].archived
      BY <3>2 DEF LockInv, TypeOK
    <3>4. Leaving(f)' => Leaving(f)
      BY <3>2, <3>3 DEF Leaving, Marks
    <3> QED  BY <2>2, <3>4
  <2>6. CASE CountForService
    BY <2>1, <2>6 DEF CountForService
  <2>7. CASE ArchiveService
    <3>1. Leaving(f)
      BY <2>7 DEF ArchiveService, Written, Leaving, Marks
    <3> QED  BY <2>2, <3>1
  <2>8. CASE UpdateService \/ FileService
    <3>1. UNCHANGED <<staff, performs>> /\ pending' \subseteq pending
      BY <2>8 DEF UpdateService, FileService, Written, office
    <3>2. service'.archived = service.archived
      BY <1>3, <2>8 DEF UpdateService, FileService
    <3>3. Leaving(f)' => Leaving(f)
      BY <3>1, <3>2 DEF Leaving, Marks
    <3> QED  BY <2>2, <3>3
  <2>9. CASE CountForCategory \/ ArchiveCategory \/ LookAtCategory
    <3>1. UNCHANGED <<staff, performs, service>>
          /\ Marks(f) \cap pending' \subseteq Marks(f) \cap pending
      BY <2>9 DEF CountForCategory, ArchiveCategory, LookAtCategory, Looked, Written, catalog, Marks
    <3>2. Leaving(f)' => Leaving(f)
      BY <3>1 DEF Leaving, Marks
    <3> QED  BY <2>2, <3>2
  <2> QED  BY <2>3, <2>4, <2>5, <2>6, <2>7, <2>8, <2>9
<1>5. CategoryInv'
  <2>1. CASE CountForCategory
    BY <2>1 DEF CountForCategory, Looked, catalog, CategoryInv
  <2>2. CASE ArchiveCategory
    BY <2>2 DEF ArchiveCategory, Written, CategoryInv, Tagged
  <2>3. CASE FileService
    BY <1>3, <2>3 DEF FileService, Written, CategoryInv, Tagged
  <2>4. CASE UpdateService \/ ArchiveService
    <3>1. /\ service'.filed = service.filed /\ (service.archived => service'.archived)
          /\ category' = category /\ pending' \subseteq pending
      BY <1>3, <2>4 DEF UpdateService, ArchiveService, Written, office
    <3> QED  BY <1>1, <3>1 DEF CategoryInv, Tagged
  <2>5. CASE \/ \E e \in Employees : \/ CountForEmployee(e) \/ ArchiveEmployee(e) \/ UpdateEmployee(e)
                                     \/ CountForPairing(e) \/ RemovePairing(e) \/ AddPairing(e)
             \/ CountForService \/ LookAtCategory
    <3>1. UNCHANGED <<service, category>> /\ (<<"category">> \in pending' => <<"category">> \in pending)
      BY <2>5 DEF CountForEmployee, ArchiveEmployee, UpdateEmployee, CountForPairing, RemovePairing,
             AddPairing, CountForService, LookAtCategory, Looked, Written, office, catalog
    <3> QED  BY <1>1, <3>1 DEF CategoryInv, Tagged
  <2> QED  BY <2>1, <2>2, <2>3, <2>4, <2>5
<1> QED  BY <1>2, <1>4, <1>5 DEF Tagged

LEMMA CancelTags ==
    ASSUME LockInv, Tagged, NEW b \in Rows, Cancel(b)
    PROVE  Tagged'
<1>1. /\ bookings' = [bookings EXCEPT ![b] = None]
      /\ UNCHANGED <<now, hours, exceptions, staff, performs, service, category, pending, reporting>>
      /\ reported' = reported \ {b}
      /\ excused' = {x \in excused : StillHolds(x, bookings')}
  BY DEF Cancel, rota, catalog
<1>2. \A c \in Rows : bookings'[c] = IF c = b THEN None ELSE bookings[c]
  BY <1>1 DEF LockInv, Table
<1>3. ASSUME NEW e \in Employees, NEW c \in Ahead(e)'
      PROVE  c # b /\ c \in Ahead(e) /\ bookings'[c].live /\ Block(c)' = Block(c)
  BY <1>1, <1>2, <1>3 DEF Ahead, Live, Block, None
<1>4. \A e \in Employees : RetiredOf(e)'
  BY <1>1, <1>3 DEF Tagged, RetiredOf, Leaving, StillHolds
<1>5. \A e \in Employees : CoverOf(e)'
  BY <1>1, <1>3 DEF Tagged, CoverOf, Uncovered, RotaOf, StillHolds
<1>6. CategoryInv'
  BY <1>1 DEF Tagged, CategoryInv, StillHolds
<1> QED  BY <1>4, <1>5, <1>6 DEF Tagged

LEMMA StepTags == LockInv /\ Tagged /\ [Next]_vars => Tagged'
<1> SUFFICES ASSUME LockInv, Tagged, [Next]_vars PROVE Tagged'
  OBVIOUS
<1>1. CASE \E t \in Txs : Transact(t)
  BY <1>1, TransactTags
<1>2. CASE \E b \in Rows : Cancel(b)
  BY <1>2, CancelTags
<1>3. CASE \/ \E e \in Employees : Administer(e)
           \/ CountForService \/ ArchiveService \/ UpdateService
           \/ CountForCategory \/ ArchiveCategory \/ LookAtCategory \/ FileService
  BY <1>3, RotaTags, CatalogTags DEF Administer
<1>4. CASE UNCHANGED vars \/ DeleteBlock \/ CloseDay \/ OpenDay \/ Tick
  <2>1. /\ UNCHANGED <<bookings, hours, exceptions, staff, performs, service, category>>
        /\ UNCHANGED <<pending, reporting, reported, excused>>
    BY <1>4 DEF vars, DeleteBlock, CloseDay, OpenDay, Tick, calendar, rota, catalog, office
  <2>2. now' = now \/ (now' \in Clock /\ now' > now)
    BY <1>4 DEF vars, DeleteBlock, CloseDay, OpenDay, Tick, Edit
  <2> QED  BY <2>1, <2>2, TagsRest
<1> QED  BY <1>1, <1>2, <1>3, <1>4 DEF Next

LEMMA InitTags == Init => Tagged
<1> SUFFICES ASSUME Init PROVE Tagged
  OBVIOUS
<1>1. \A e \in Employees : ~Leaving(e)
  <2>1. /\ \A e \in Employees : staff[e] = [archived |-> FALSE, online |-> TRUE]
        /\ performs = Employees /\ pending = {}
    BY DEF Init
  <2>2. \A e \in Employees : ~staff[e].archived
    BY <2>1
  <2>3. ~service.archived
    BY DEF Init
  <2> QED  BY <2>1, <2>2, <2>3 DEF Leaving
<1>2. \A e \in Employees : RetiredOf(e)
  BY <1>1 DEF RetiredOf
<1>3. \A e \in Employees : CoverOf(e)
  BY DEF Init, CoverOf, Uncovered, Ahead, Live
<1>4. CategoryInv
  BY DEF Init, CategoryInv
<1> QED  BY <1>2, <1>3, <1>4 DEF Tagged

\* An appointment the rota does not cover is one the office was told about, is about
\* to be told about, or one inserted or uncovered where nobody is told
\* (replaceWorkingHours and the exceptions of employees.service.ts).
THEOREM NothingUncoveredUnseen == Spec => []UncoveredIsReported
<1>1. Tagged => UncoveredIsReported
  BY DEF Tagged, CoverOf, UncoveredIsReported
<1> QED  BY <1>1, InitInv, InitTags, StepInv, StepTags, PTL DEF Spec

\* Nothing with appointments to come is retired, but for what was inserted between
\* the count and the write (employees.service.ts, catalog.service.ts).
THEOREM NothingRetiredInUse == Spec => []RetiredIsUnused
<1>1. Tagged => RetiredIsUnused
  BY DEF Tagged, RetiredOf, Leaving, CategoryInv, RetiredIsUnused
<1> QED  BY <1>1, InitInv, InitTags, StepInv, StepTags, PTL DEF Spec

-----------------------------------------------------------------------------
(* Clocks and intervals.                                                   *)

\* An hour the clock shows once is one instant
LEMMA OneInstant ==
    ASSUME NEW date, NEW m, Placed(date, m)
    PROVE  /\ InstantsAt(date, m) = {wallClockToInstant(date, m)}
           /\ wallClockToInstant(date, m) \in Instants
<1>1. Instants \subseteq Int /\ IsFiniteSet(Instants)
  BY FS_Interval, ClockAssumption DEF Instants
<1>2. InstantsAt(date, m) \subseteq Instants
  BY DEF InstantsAt
<1>3. IsFiniteSet(InstantsAt(date, m))
  BY <1>1, <1>2, FS_Subset
<1>4. PICK i : InstantsAt(date, m) = {i}
  BY <1>3, FS_Singleton DEF Placed
<1> QED  BY <1>2, <1>4 DEF wallClockToInstant

\* And the other way round
LEMMA ShownOnce ==
    ASSUME NEW date, NEW m, NEW i, InstantsAt(date, m) = {i}
    PROVE  Placed(date, m) /\ wallClockToInstant(date, m) = i
  BY FS_Singleton DEF Placed, wallClockToInstant

\* It divides time into what shows less and what shows no less
LEMMA Divides ==
    ASSUME NEW date \in Nat, NEW m \in Minutes, Placed(date, m), NEW i \in Instants
    PROVE  wallClockToInstant(date, m) <= i <=>
               Local[i][1] > date \/ (Local[i][1] = date /\ Local[i][2] >= m)
<1>1. PICK j \in Instants : InstantsAt(date, m) = {j} /\ j = wallClockToInstant(date, m)
  BY OneInstant
<1>2. Local[j] = IF m = DayEnd THEN <<date + 1, 0>> ELSE <<date, m>>
  BY <1>1 DEF InstantsAt
<1>3. \A k \in Instants : Local[k] = Local[j] => k = j
  BY <1>1, <1>2 DEF InstantsAt
<1>4. Local[i][1] = Local[j][1] => (i < j <=> Local[i][2] < Local[j][2])
  BY <1>3, TransitionsAssumption
<1>5. (i < j => Local[i][1] <= Local[j][1]) /\ (j < i => Local[j][1] <= Local[i][1])
  BY ClockAssumption
<1>6. /\ i \in Nat /\ j \in Nat /\ DayEnd \in Nat /\ m \in Nat
      /\ Local[i][1] \in Nat /\ Local[i][2] \in Nat /\ Local[i][2] < DayEnd
  BY ClockAssumption DEF Instants, Minutes
<1>7. CASE m = DayEnd
  <2>1. Local[j][1] = date + 1 /\ Local[j][2] = 0
    BY <1>2, <1>7
  <2> QED  BY <1>1, <1>4, <1>5, <1>6, <1>7, <2>1
<1>8. CASE m # DayEnd
  <2>1. Local[j][1] = date /\ Local[j][2] = m
    BY <1>2, <1>8
  <2> QED  BY <1>1, <1>4, <1>5, <1>6, <2>1
<1> QED  BY <1>7, <1>8

\* So a span whose bounds are shown once is a stretch of instants
LEMMA SpanIs ==
    ASSUME NEW date \in Nat, NEW s \in Minutes \X Minutes, SpanPlaced(date, s)
    PROVE  /\ Span(date, s) \in Instants \X Instants
           /\ \A i \in Instants :
                 InSpan(i, date, s) <=> Span(date, s)[1] <= i /\ i < Span(date, s)[2]
<1>1. Placed(date, s[1]) /\ Placed(date, s[2])
  BY DEF SpanPlaced
<1>2. s[1] \in Minutes /\ s[2] \in Minutes
  OBVIOUS
<1>3. Span(date, s) \in Instants \X Instants
  BY <1>1, OneInstant DEF Span
<1>4. ASSUME NEW i \in Instants
      PROVE  InSpan(i, date, s) <=> Span(date, s)[1] <= i /\ i < Span(date, s)[2]
  <2>1. PICK a \in Instants : a = wallClockToInstant(date, s[1])
    BY <1>1, OneInstant
  <2>2. PICK b \in Instants : b = wallClockToInstant(date, s[2])
    BY <1>1, OneInstant
  <2>3. a <= i <=> Local[i][1] > date \/ (Local[i][1] = date /\ Local[i][2] >= s[1])
    BY <1>1, <1>2, <2>1, Divides
  <2>4. b <= i <=> Local[i][1] > date \/ (Local[i][1] = date /\ Local[i][2] >= s[2])
    BY <1>1, <1>2, <2>2, Divides
  <2>5. Span(date, s)[1] = a /\ Span(date, s)[2] = b
    BY <2>1, <2>2 DEF Span
  <2>6. /\ i \in Nat /\ a \in Nat /\ b \in Nat /\ Local[i][1] \in Nat /\ Local[i][2] \in Nat
        /\ s[1] \in Nat /\ s[2] \in Nat
    BY <1>2, ClockAssumption DEF Instants, Minutes
  <2> QED  BY <2>3, <2>4, <2>5, <2>6 DEF InSpan
<1> QED  BY <1>3, <1>4

Pairs == Int \X Int

\* What lies in a piece lies in the whole, and in no hole
LEMMA PieceAvoidsHoles ==
    ASSUME NEW from \in Pairs, NEW holes \in SUBSET Pairs, NEW p \in subtract(from, holes),
           NEW block \in Pairs, block[1] < block[2], contains(p, block)
    PROVE  /\ contains(from, block)
           /\ \A h \in holes : \A i \in block[1]..(block[2] - 1) : ~(h[1] <= i /\ i < h[2])
<1>1. p[1] \in Int /\ p[2] \in Int /\ contains(from, p) /\ \A h \in holes : ~overlaps(h, p)
  BY DEF subtract, Pairs
<1>2. contains(from, block)
  BY <1>1 DEF contains, Pairs
<1>3. ASSUME NEW h \in holes, NEW i \in block[1]..(block[2] - 1), h[1] <= i, i < h[2] PROVE FALSE
  <2>1. /\ i \in Int /\ h[1] \in Int /\ h[2] \in Int /\ block[1] \in Int /\ block[2] \in Int
        /\ block[1] <= i /\ i < block[2]
    BY DEF Pairs
  <2>2. p[1] <= i /\ i < p[2]
    BY <1>1, <2>1 DEF contains
  <2>3. overlaps(h, p)
    BY <1>1, <1>3, <2>1, <2>2 DEF overlaps, IsEmpty
  <2> QED  BY <1>1, <2>3
<1> QED  BY <1>2, <1>3

\* And what lies in the whole and in no hole lies in a piece
LEMMA PieceExists ==
    ASSUME NEW from \in Instants \X Instants, NEW holes \in SUBSET (Instants \X Instants),
           NEW block \in Pairs, block[1] < block[2], contains(from, block),
           \A h \in holes : \A i \in block[1]..(block[2] - 1) : ~(h[1] <= i /\ i < h[2])
    PROVE  \E p \in subtract(from, holes) : contains(p, block)
<1> DEFINE Lower == {from[1]} \cup {h[2] : h \in holes}
           Upper == {from[2]} \cup {h[1] : h \in holes}
<1>1. LastInstant \in Nat /\ Lower \subseteq Instants /\ Upper \subseteq Instants
  BY ClockAssumption
<1>2. block[1] \in Int /\ block[2] \in Int /\ from[1] <= block[1] /\ block[2] <= from[2]
  BY DEF Pairs, contains
<1>3. from[1] \in Lower /\ from[2] \in Upper
  OBVIOUS
<1>4. \A h \in holes : h[2] \in Lower /\ h[1] \in Upper /\ h[1] \in Instants /\ h[2] \in Instants
  OBVIOUS
<1>5. ASSUME NEW p \in Lower \X Upper, ~IsEmpty(p), contains(from, p), \A h \in holes : ~overlaps(h, p)
      PROVE  p \in subtract(from, holes)
  BY <1>5 DEF subtract
<1> HIDE DEF Lower, Upper
<1>6. PICK x \in Lower : x <= block[1] /\ \A y \in Lower : y <= block[1] => y <= x
  <2> DEFINE S == {y \in Lower : y <= block[1]}
  <2>1. S # {} /\ S \subseteq 0..LastInstant
    BY <1>1, <1>2, <1>3 DEF Instants
  <2> HIDE DEF S
  <2>2. PICK x \in S : \A y \in S : y <= x
    BY <1>1, <2>1, Largest
  <2> QED  BY <2>2 DEF S
<1>7. PICK z \in Upper : block[2] <= z /\ \A y \in Upper : block[2] <= y => z <= y
  <2> DEFINE S == {y \in Upper : block[2] <= y}
  <2>1. S # {} /\ S \in SUBSET Nat
    <3>1. ASSUME NEW y \in Upper PROVE y \in Nat
      BY <1>1 DEF Instants
    <3> QED  BY <1>2, <1>3, <3>1
  <2> HIDE DEF S
  <2>2. PICK z \in S : \A y \in S : z <= y
    BY <2>1, Smallest
  <2> QED  BY <2>2 DEF S
<1>8. x \in Nat /\ z \in Nat /\ from[1] \in Nat /\ from[2] \in Nat
  BY <1>1, <1>3 DEF Instants
<1>9. x < z /\ from[1] <= x /\ z <= from[2]
  BY <1>2, <1>3, <1>6, <1>7, <1>8
<1>10. ASSUME NEW h \in holes, overlaps(h, <<x, z>>) PROVE FALSE
  <2>1. h[1] \in Nat /\ h[2] \in Nat /\ h[1] < h[2] /\ h[1] < z /\ x < h[2]
    BY <1>4, <1>8, <1>10 DEF overlaps, IsEmpty, Instants
  <2>2. CASE h[2] <= block[1]
    BY <1>4, <1>6, <1>8, <2>1, <2>2
  <2>3. CASE block[2] <= h[1]
    BY <1>4, <1>7, <1>8, <2>1, <2>3
  <2>4. CASE block[1] < h[2] /\ h[1] < block[2]
    <3>1. PICK i \in Int : i = IF h[1] <= block[1] THEN block[1] ELSE h[1]
      BY <1>2, <2>1
    <3>2. i \in block[1]..(block[2] - 1) /\ h[1] <= i /\ i < h[2]
      BY <1>2, <2>1, <2>4, <3>1
    <3> QED  BY <3>2
  <2> QED  BY <1>2, <2>1, <2>2, <2>3, <2>4
<1>11. <<x, z>> \in subtract(from, holes)
  <2>1. ~IsEmpty(<<x, z>>) /\ contains(from, <<x, z>>)
    BY <1>8, <1>9 DEF IsEmpty, contains
  <2> QED  BY <1>5, <1>10, <2>1
<1> QED  BY <1>6, <1>7, <1>11 DEF contains

\* Two stretches overlap when they have an instant in common
LEMMA MeetsIs ==
    ASSUME NEW a \in Pairs, NEW b \in Pairs, a[1] < a[2]
    PROVE  overlaps(a, b) <=> (a[1]..(a[2] - 1)) \cap (b[1]..(b[2] - 1)) # {}
<1>1. a[1] \in Int /\ a[2] \in Int /\ b[1] \in Int /\ b[2] \in Int
  BY DEF Pairs
<1>2. ASSUME overlaps(a, b) PROVE (a[1]..(a[2] - 1)) \cap (b[1]..(b[2] - 1)) # {}
  <2>1. PICK i \in Int : i = IF a[1] <= b[1] THEN b[1] ELSE a[1]
    BY <1>1
  <2>2. i \in (a[1]..(a[2] - 1)) \cap (b[1]..(b[2] - 1))
    BY <1>1, <1>2, <2>1 DEF overlaps, IsEmpty
  <2> QED  BY <2>2
<1>3. ASSUME NEW i \in (a[1]..(a[2] - 1)) \cap (b[1]..(b[2] - 1)) PROVE overlaps(a, b)
  BY <1>1 DEF overlaps, IsEmpty
<1> QED  BY <1>2, <1>3

\* The grid in steps, and as a remainder
LEMMA GridIs ==
    ASSUME NEW a \in Minutes, NEW m \in Minutes, a <= m
    PROVE  (m - a) % Interval = 0 <=> \E n \in Minutes : m = a + n * Interval
<1>1. Interval \in Nat /\ Interval >= 1 /\ DayEnd \in Nat /\ a \in Nat /\ m \in Nat /\ m <= DayEnd
  BY ClockAssumption DEF Minutes
<1>2. PICK d \in Nat : d = m - a
  BY <1>1
<1>3. PICK q \in Int, r \in Int : /\ q = d \div Interval /\ r = d % Interval
                                  /\ d = Interval * q + r /\ 0 <= r /\ r < Interval
  BY <1>1
<1>4. ASSUME r = 0 PROVE \E n \in Minutes : m = a + n * Interval
  <2>1. d = Interval * q
    BY <1>1, <1>3, <1>4
  <2>2. q >= 0
    <3>1. ASSUME q <= -1 PROVE FALSE
      <4>1. Interval * q <= Interval * (-1)
        BY <1>1, <3>1
      <4> QED  BY <1>1, <1>2, <2>1, <4>1
    <3> QED  BY <1>3, <3>1
  <2>3. q <= d
    BY <1>1, <1>2, <1>3, <2>1, <2>2
  <2>4. q \in Minutes
    BY <1>1, <1>2, <1>3, <2>2, <2>3 DEF Minutes
  <2> QED  BY <1>1, <1>2, <1>3, <2>1, <2>4
<1>5. ASSUME NEW n \in Minutes, m = a + n * Interval PROVE r = 0
  <2>1. n \in Int /\ d = n * Interval
    BY <1>1, <1>2, <1>5 DEF Minutes
  <2>2. PICK k \in Int : k = n - q
    BY <1>3, <2>1
  <2>3. r = k * Interval
    BY <1>1, <1>3, <2>1, <2>2
  <2>4. CASE k >= 1
    BY <1>1, <1>3, <2>3, <2>4
  <2>5. CASE k <= -1
    BY <1>1, <1>3, <2>3, <2>5
  <2>6. CASE k = 0
    BY <1>1, <2>3, <2>6
  <2> QED  BY <2>2, <2>4, <2>5, <2>6
<1> QED  BY <1>2, <1>3, <1>4, <1>5
-----------------------------------------------------------------------------
(* The engine, against what a slot has to be.                              *)

Spans == Minutes \X Minutes

\* What the engine is given
WeekOK(week) == \A h \in week : h.span \in Spans /\ h.breaks \subseteq Spans
RotaOK(r) ==
    /\ WeekOK(r.hours)
    /\ \A x \in r.exceptions : x.span \in Spans
SnapOK(snap) ==
    /\ RotaOK(snap.rota) /\ snap.busy \subseteq Pairs
    /\ snap.now \in Instants /\ snap.notice \in Nat /\ snap.horizon \in Nat
    /\ snap.sold \in [duration : Nat \ {0}, prep : Nat, cleanup : Nat]

\* Every segment of a day has bounds within it
LEMMA SegmentsFit ==
    ASSUME NEW r, RotaOK(r), NEW date, NEW s \in segmentsFor(r, date)
    PROVE  s.span \in Spans /\ s.breaks \subseteq Spans
  BY DEF RotaOK, WeekOK, segmentsFor

\* An appointment takes some time
LEMMA BlockIs ==
    ASSUME NEW sold \in [duration : Nat \ {0}, prep : Nat, cleanup : Nat], NEW i \in Instants
    PROVE  /\ BlockAt(i, sold) \in Pairs
           /\ BlockAt(i, sold)[1] <= i /\ i < BlockAt(i, sold)[2]
           /\ BlockAt(i, sold)[1] < BlockAt(i, sold)[2]
<1>1. i \in Nat /\ sold.duration \in Nat \ {0} /\ sold.prep \in Nat /\ sold.cleanup \in Nat
  BY DEF Instants
<1> QED  BY <1>1 DEF BlockAt, Pairs

\* The pieces of a segment whose bounds exist hold a block exactly if every instant of it
\* is in the shift and in no break
LEMMA PiecesAreTime ==
    ASSUME NEW date \in Nat, NEW s, s.span \in Spans, s.breaks \subseteq Spans,
           SpanPlaced(date, s.span), \A b \in s.breaks : SpanPlaced(date, b),
           NEW block \in Pairs, block[1] < block[2]
    PROVE  (\E p \in subtract(Span(date, s.span), {Span(date, b) : b \in s.breaks}) : contains(p, block))
           <=> /\ block[1] \in Instants /\ block[2] \in Instants
               /\ \A i \in block[1]..(block[2] - 1) :
                     InSpan(i, date, s.span) /\ \A b \in s.breaks : ~InSpan(i, date, b)
<1> DEFINE from == Span(date, s.span)
           holes == {Span(date, b) : b \in s.breaks}
<1>1. /\ from \in Instants \X Instants
      /\ \A i \in Instants : InSpan(i, date, s.span) <=> from[1] <= i /\ i < from[2]
  BY SpanIs DEF Spans
<1>2. ASSUME NEW b \in s.breaks
      PROVE  /\ Span(date, b) \in Instants \X Instants
             /\ \A i \in Instants : InSpan(i, date, b) <=> Span(date, b)[1] <= i /\ i < Span(date, b)[2]
  BY SpanIs DEF Spans
<1>3. holes \subseteq Instants \X Instants /\ \A b \in s.breaks : Span(date, b) \in holes
  BY <1>2
<1>4. \A h \in holes : \E b \in s.breaks : h = Span(date, b)
  OBVIOUS
<1>5. Instants \X Instants \subseteq Pairs /\ LastInstant \in Nat
  BY ClockAssumption DEF Instants, Pairs
<1>6. block[1] \in Int /\ block[2] \in Int
  BY DEF Pairs
<1> HIDE DEF from, holes
<1>7. ASSUME NEW p \in subtract(from, holes), contains(p, block)
      PROVE  /\ block[1] \in Instants /\ block[2] \in Instants
             /\ \A i \in block[1]..(block[2] - 1) :
                   InSpan(i, date, s.span) /\ \A b \in s.breaks : ~InSpan(i, date, b)
  <2>1. /\ contains(from, block)
        /\ \A h \in holes : \A i \in block[1]..(block[2] - 1) : ~(h[1] <= i /\ i < h[2])
    BY <1>1, <1>3, <1>5, <1>7, PieceAvoidsHoles
  <2>2. from[1] <= block[1] /\ block[2] <= from[2] /\ from[1] \in Nat /\ from[2] \in 0..LastInstant
    BY <1>1, <2>1 DEF contains, Instants
  <2>3. block[1] \in Instants /\ block[2] \in Instants
    BY <1>5, <1>6, <2>2 DEF Instants
  <2>4. ASSUME NEW i \in block[1]..(block[2] - 1)
        PROVE  InSpan(i, date, s.span) /\ \A b \in s.breaks : ~InSpan(i, date, b)
    <3>1. i \in Instants /\ from[1] <= i /\ i < from[2]
      BY <1>5, <1>6, <2>2, <2>3 DEF Instants
    <3> QED  BY <1>1, <1>2, <1>3, <2>1, <3>1
  <2> QED  BY <2>3, <2>4
<1>8. ASSUME block[1] \in Instants, block[2] \in Instants,
             \A i \in block[1]..(block[2] - 1) :
                   InSpan(i, date, s.span) /\ \A b \in s.breaks : ~InSpan(i, date, b)
      PROVE  \E p \in subtract(from, holes) : contains(p, block)
  <2>1. \A i \in block[1]..(block[2] - 1) : i \in Instants
    BY <1>5, <1>8 DEF Instants
  <2>2. contains(from, block)
    <3>1. block[1] \in block[1]..(block[2] - 1) /\ block[2] - 1 \in block[1]..(block[2] - 1)
      BY <1>6
    <3>2. from[1] <= block[1] /\ block[2] - 1 < from[2]
      BY <1>1, <1>8, <2>1, <3>1
    <3>3. from[2] \in Int
      BY <1>1, <1>5 DEF Pairs
    <3> QED  BY <1>6, <3>2, <3>3 DEF contains
  <2>3. ASSUME NEW h \in holes, NEW i \in block[1]..(block[2] - 1) PROVE ~(h[1] <= i /\ i < h[2])
    BY <1>2, <1>4, <1>8, <2>1
  <2> QED  BY <1>1, <1>3, <2>2, <2>3, PieceExists
<1> QED  BY <1>7, <1>8 DEF from, holes

\* The segments a day offers slots in
SlotsOf(snap, date, segment, earliest) ==
    {i \in {wallClockToInstant(date, m) : m \in {g \in gridMinutes(segment) : Placed(date, g)}} :
        /\ i >= earliest
        /\ \E p \in subtract(Span(date, segment.span), {Span(date, b) : b \in segment.breaks}) :
              contains(p, BlockAt(i, snap.sold))
        /\ \A b \in snap.busy : ~overlaps(BlockAt(i, snap.sold), b)}

PlacedSegment(s, date) == SpanPlaced(date, s.span) /\ \A b \in s.breaks : SpanPlaced(date, b)

LEMMA BookableIsASlot ==
    ASSUME NEW snap, NEW i \in Instants
    PROVE  isSlotBookable(snap, i) <=>
             LET date == Local[i][1] IN
             /\ date \in Dates \ snap.closed
             /\ Local[snap.now][1] <= date /\ date <= Local[snap.now][1] + snap.horizon
             /\ date \notin snap.leave
             /\ \E s \in segmentsFor(snap.rota, date) :
                   PlacedSegment(s, date) /\ i \in SlotsOf(snap, date, s, snap.now + snap.notice)
<1> DEFINE date == Local[i][1]
<1>1. i \in employeeSlotsFor(snap, date, snap.now + snap.notice) <=>
         /\ date \notin snap.leave
         /\ \E s \in segmentsFor(snap.rota, date) :
               PlacedSegment(s, date) /\ i \in SlotsOf(snap, date, s, snap.now + snap.notice)
  BY DEF employeeSlotsFor, PlacedSegment, SlotsOf
<1>2. date \in Nat /\ \A d \in Dates : d \in Nat
  BY ClockAssumption
<1>3. \A d \in Dates : date <= d /\ d <= date <=> d = date
  BY <1>2
<1> DEFINE days == {d \in Dates \ snap.closed :
                      /\ date <= d /\ d <= date
                      /\ Local[snap.now][1] <= d /\ d <= Local[snap.now][1] + snap.horizon}
<1>4. \A d : d \in days <=>
         /\ d = date /\ date \in Dates \ snap.closed
         /\ Local[snap.now][1] <= date /\ date <= Local[snap.now][1] + snap.horizon
  BY <1>3
<1>5. isSlotBookable(snap, i) <=>
         i \in UNION {employeeSlotsFor(snap, d, snap.now + snap.notice) : d \in days}
  BY DEF isSlotBookable, generateAvailability, instantToLocalDate
<1> HIDE DEF days
<1>6. isSlotBookable(snap, i) <=>
         \E d \in days : i \in employeeSlotsFor(snap, d, snap.now + snap.notice)
  BY <1>5
<1> QED  BY <1>1, <1>4, <1>6

\* On the grid and shown once is what the engine starts from
LEMMA GridStart ==
    ASSUME NEW i \in Instants, NEW s, s.span \in Spans
    PROVE  (i \in {wallClockToInstant(Local[i][1], m) :
                       m \in {g \in gridMinutes(s) : Placed(Local[i][1], g)}})
           <=> /\ Cardinality({j \in Instants : Local[j] = Local[i]}) = 1
               /\ Local[i][2] \in s.span[1]..s.span[2]
               /\ \E n \in Minutes : Local[i][2] = s.span[1] + n * Interval
<1> DEFINE date == Local[i][1]
           minute == Local[i][2]
<1>1. /\ Local[i] = <<date, minute>> /\ date \in Nat /\ minute \in Nat /\ minute < DayEnd
      /\ DayEnd \in Nat
  BY ClockAssumption DEF Instants
<1>2. s.span[1] \in Minutes /\ s.span[2] \in Minutes /\ minute \in Minutes
  BY <1>1 DEF Spans, Minutes
<1>3. InstantsAt(date, minute) = {j \in Instants : Local[j] = Local[i]}
  BY <1>1 DEF InstantsAt
<1>4. minute \in gridMinutes(s) <=>
         /\ minute \in s.span[1]..s.span[2]
         /\ \E n \in Minutes : minute = s.span[1] + n * Interval
  <2>1. s.span[1] \in Int /\ s.span[2] \in Int
    BY <1>2, ClockAssumption DEF Minutes
  <2>2. CASE s.span[1] <= minute
    BY <1>2, <2>2, GridIs DEF gridMinutes
  <2>3. CASE ~(s.span[1] <= minute)
    BY <1>1, <2>1, <2>3 DEF gridMinutes
  <2> QED  BY <2>2, <2>3
<1> HIDE DEF date, minute
<1>5. ASSUME NEW m \in gridMinutes(s), Placed(date, m), i = wallClockToInstant(date, m)
      PROVE  m = minute
  <2>1. i \in InstantsAt(date, m)
    BY <1>5, OneInstant
  <2>2. Local[i] = IF m = DayEnd THEN <<date + 1, 0>> ELSE <<date, m>>
    BY <2>1 DEF InstantsAt
  <2> QED  BY <1>1, <2>2
<1>6. ASSUME Placed(date, minute) PROVE i = wallClockToInstant(date, minute)
  <2>1. i \in InstantsAt(date, minute)
    BY <1>3
  <2> QED  BY <1>6, <2>1, OneInstant
<1>7. Placed(date, minute) <=> Cardinality({j \in Instants : Local[j] = Local[i]}) = 1
  BY <1>3 DEF Placed
<1>8. (i \in {wallClockToInstant(date, m) : m \in {g \in gridMinutes(s) : Placed(date, g)}})
      <=> minute \in gridMinutes(s) /\ Placed(date, minute)
  BY <1>5, <1>6
<1> QED  BY <1>4, <1>7, <1>8 DEF date, minute
\* One segment: it offers the start exactly if the employee can work then
LEMMA SlotIsTime ==
    ASSUME NEW snap, SnapOK(snap), NEW i \in Instants,
           NEW s \in segmentsFor(snap.rota, Local[i][1]), PlacedSegment(s, Local[i][1])
    PROVE  i \in SlotsOf(snap, Local[i][1], s, snap.now + snap.notice) <=>
             /\ BlockAt(i, snap.sold)[1] \in Instants /\ BlockAt(i, snap.sold)[2] \in Instants
             /\ Cardinality({j \in Instants : Local[j] = Local[i]}) = 1
             /\ \E n \in Minutes : Local[i][2] = s.span[1] + n * Interval
             /\ \A j \in BlockAt(i, snap.sold)[1]..(BlockAt(i, snap.sold)[2] - 1) :
                   InSpan(j, Local[i][1], s.span) /\ \A b \in s.breaks : ~InSpan(j, Local[i][1], b)
             /\ \A b \in snap.busy :
                   (BlockAt(i, snap.sold)[1]..(BlockAt(i, snap.sold)[2] - 1)) \cap (b[1]..(b[2] - 1)) = {}
             /\ i >= snap.now + snap.notice
<1> DEFINE date == Local[i][1]
           block == BlockAt(i, snap.sold)
<1>1. date \in Nat
  BY ClockAssumption
<1>2. s.span \in Spans /\ s.breaks \subseteq Spans
  BY SegmentsFit DEF SnapOK
<1>3. block \in Pairs /\ block[1] <= i /\ i < block[2] /\ block[1] < block[2]
  BY BlockIs DEF SnapOK
<1>4. ASSUME NEW b \in snap.busy
      PROVE  ~overlaps(block, b) <=> (block[1]..(block[2] - 1)) \cap (b[1]..(b[2] - 1)) = {}
  <2>1. b \in Pairs
    BY DEF SnapOK
  <2> HIDE DEF block
  <2> QED  BY <1>3, <2>1, MeetsIs
<1> HIDE DEF block
<1>5. (\E p \in subtract(Span(date, s.span), {Span(date, b) : b \in s.breaks}) : contains(p, block))
      <=> /\ block[1] \in Instants /\ block[2] \in Instants
          /\ \A j \in block[1]..(block[2] - 1) :
                InSpan(j, date, s.span) /\ \A b \in s.breaks : ~InSpan(j, date, b)
  <2>1. SpanPlaced(date, s.span) /\ \A b \in s.breaks : SpanPlaced(date, b)
    BY DEF PlacedSegment
  <2> HIDE DEF date
  <2> QED  BY <1>1, <1>2, <1>3, <2>1, PiecesAreTime
<1>6. (i \in {wallClockToInstant(date, m) : m \in {g \in gridMinutes(s) : Placed(date, g)}})
      <=> /\ Cardinality({j \in Instants : Local[j] = Local[i]}) = 1
          /\ Local[i][2] \in s.span[1]..s.span[2]
          /\ \E n \in Minutes : Local[i][2] = s.span[1] + n * Interval
  BY <1>2, GridStart
<1>7. ASSUME InSpan(i, date, s.span) PROVE Local[i][2] \in s.span[1]..s.span[2]
  <2>1. Local[i][2] \in Nat /\ s.span[1] \in Nat /\ s.span[2] \in Nat
    BY <1>2, ClockAssumption DEF Spans, Minutes
  <2> QED  BY <1>7, <2>1 DEF InSpan
<1>8. i \in block[1]..(block[2] - 1)
  BY <1>3 DEF Pairs, Instants
<1>9. i \in SlotsOf(snap, date, s, snap.now + snap.notice) <=>
         /\ i \in {wallClockToInstant(date, m) : m \in {g \in gridMinutes(s) : Placed(date, g)}}
         /\ i >= snap.now + snap.notice
         /\ \E p \in subtract(Span(date, s.span), {Span(date, b) : b \in s.breaks}) : contains(p, block)
         /\ \A b \in snap.busy : ~overlaps(block, b)
  BY DEF SlotsOf, block
<1> HIDE DEF date
<1>10. i \in SlotsOf(snap, date, s, snap.now + snap.notice) <=>
         /\ block[1] \in Instants /\ block[2] \in Instants
         /\ Cardinality({j \in Instants : Local[j] = Local[i]}) = 1
         /\ \E n \in Minutes : Local[i][2] = s.span[1] + n * Interval
         /\ \A j \in block[1]..(block[2] - 1) :
               InSpan(j, date, s.span) /\ \A b \in s.breaks : ~InSpan(j, date, b)
         /\ \A b \in snap.busy : (block[1]..(block[2] - 1)) \cap (b[1]..(b[2] - 1)) = {}
         /\ i >= snap.now + snap.notice
  BY <1>4, <1>5, <1>6, <1>7, <1>8, <1>9
<1> QED  BY <1>10 DEF date, block

\* What is offered can be worked
LEMMA OfferedCanBeWorked ==
    ASSUME NEW snap, SnapOK(snap), NEW i \in Instants, isSlotBookable(snap, i)
    PROVE  Workable(snap, i) /\ IsCovered(snap.rota, BlockAt(i, snap.sold))
<1> DEFINE date == Local[i][1]
           block == BlockAt(i, snap.sold)
<1>1. /\ date \in Dates \ snap.closed /\ date \notin snap.leave
      /\ date <= Local[snap.now][1] + snap.horizon
  BY BookableIsASlot
<1>2. PICK s \in segmentsFor(snap.rota, date) :
         PlacedSegment(s, date) /\ i \in SlotsOf(snap, date, s, snap.now + snap.notice)
  BY BookableIsASlot
<1>3. /\ block[1] \in Instants /\ block[2] \in Instants
      /\ Cardinality({j \in Instants : Local[j] = Local[i]}) = 1
      /\ \E n \in Minutes : Local[i][2] = s.span[1] + n * Interval
      /\ \A j \in block[1]..(block[2] - 1) :
            InSpan(j, date, s.span) /\ \A b \in s.breaks : ~InSpan(j, date, b)
      /\ \A b \in snap.busy : (block[1]..(block[2] - 1)) \cap (b[1]..(b[2] - 1)) = {}
      /\ i >= snap.now + snap.notice
  BY <1>2, SlotIsTime
<1> HIDE DEF block
<1>4. Workable(snap, i)
  BY <1>1, <1>3 DEF Workable, Minutes, block
<1>5. IsCovered(snap.rota, block)
  <2>1. block \in Pairs /\ block[1] < block[2]
    BY BlockIs DEF SnapOK, block
  <2>2. block[1] \in block[1]..(block[2] - 1)
    BY <2>1 DEF Pairs
  <2>3. instantToLocalDate(block[1]) = date
    BY <1>3, <2>2 DEF InSpan, instantToLocalDate
  <2>4. s.span \in Spans /\ s.breaks \subseteq Spans
    BY <1>2, SegmentsFit DEF SnapOK
  <2>5. date \in Nat
    BY ClockAssumption
  <2>6. SpanPlaced(date, s.span) /\ \A b \in s.breaks : SpanPlaced(date, b)
    BY <1>2 DEF PlacedSegment
  <2> HIDE DEF date
  <2>7. PICK p \in subtract(Span(date, s.span), {Span(date, b) : b \in s.breaks}) : contains(p, block)
    BY <1>3, <2>1, <2>4, <2>5, <2>6, PiecesAreTime
  <2>8. {c \in s.breaks : SpanPlaced(date, c)} = s.breaks
    BY <2>6
  <2>9. p \in coveringIntervals(snap.rota, date)
    <3>1. \A t \in {u \in segmentsFor(snap.rota, date) : SpanPlaced(date, u.span)} :
             \A x \in subtract(Span(date, t.span),
                               {Span(date, b) : b \in {c \in t.breaks : SpanPlaced(date, c)}}) :
                x \in coveringIntervals(snap.rota, date)
      BY DEF coveringIntervals
    <3>2. s \in {u \in segmentsFor(snap.rota, date) : SpanPlaced(date, u.span)}
      BY <2>6
    <3> QED  BY <2>7, <2>8, <3>1, <3>2
  <2> QED  BY <1>3, <2>3, <2>7, <2>9 DEF IsCovered
<1> QED  BY <1>4, <1>5 DEF block

\* And on a day whose bounds all exist, what can be worked is offered
LEMMA WorkableIsOffered ==
    ASSUME NEW snap, SnapOK(snap), NEW i \in Instants, Workable(snap, i),
           PlainDay(snap.rota, Local[i][1])
    PROVE  isSlotBookable(snap, i)
<1> DEFINE date == Local[i][1]
           block == BlockAt(i, snap.sold)
<1>1. /\ date \notin snap.leave \cup snap.closed
      /\ block[1] \in Instants /\ block[2] \in Instants
      /\ Cardinality({j \in Instants : Local[j] = Local[i]}) = 1
      /\ \A b \in snap.busy : (block[1]..(block[2] - 1)) \cap (b[1]..(b[2] - 1)) = {}
      /\ i >= snap.now + snap.notice
      /\ date <= Local[snap.now][1] + snap.horizon
  BY DEF Workable
<1>2. PICK s \in segmentsFor(snap.rota, date) :
         /\ \E n \in Minutes : Local[i][2] = s.span[1] + n * Interval
         /\ \A j \in block[1]..(block[2] - 1) :
               InSpan(j, date, s.span) /\ \A b \in s.breaks : ~InSpan(j, date, b)
  BY DEF Workable, Minutes
<1>3. PlacedSegment(s, date)
  BY <1>2 DEF PlainDay, PlacedSegment
<1>4. i \in SlotsOf(snap, date, s, snap.now + snap.notice)
  BY <1>1, <1>2, <1>3, SlotIsTime
<1>5. date \in Dates
  <2>1. block[1] <= i /\ i < block[2]
    BY BlockIs DEF SnapOK
  <2>2. i < LastInstant
    BY <1>1, <2>1, ClockAssumption DEF Instants
  <2> QED  BY <2>2, ClockAssumption
<1>6. Local[snap.now][1] <= date
  <2>1. snap.now \in Instants /\ snap.now <= i
    BY <1>1 DEF SnapOK, Instants
  <2>2. CASE snap.now = i
    BY <2>1, <2>2, ClockAssumption
  <2>3. CASE snap.now < i
    BY <2>1, <2>3, ClockAssumption
  <2> QED  BY <2>1, <2>2, <2>3 DEF Instants
<1> QED  BY <1>1, <1>2, <1>3, <1>4, <1>5, <1>6, BookableIsASlot

-----------------------------------------------------------------------------
(* What the calendar gives the engine.                                     *)

\* Exceptions keep within the day, as the week does
RulesFit == \A x \in exceptions : x.rule.span \in Spans

LEMMA RulesStep == RulesFit /\ [Next]_vars => RulesFit'
<1> SUFFICES ASSUME RulesFit, [Next]_vars PROVE RulesFit'
  OBVIOUS
<1>1. CASE UNCHANGED exceptions
  BY <1>1 DEF RulesFit
<1>2. ASSUME NEW t \in Txs, Transact(t) PROVE UNCHANGED exceptions
  BY <1>2 DEF Transact, BeginReserve, BeginReserveAny, CheckReserve, WriteReserve, BeginMove,
              CheckMove, WriteMove, BeginBlock, CheckBlock, WriteBlock, BeginLeave, BeginDecide,
              CheckLeave, WriteLeave, TakeLock, Begin, Pass, Refuse, Insert, rota
<1>3. ASSUME NEW e \in Employees, CreateException(e) PROVE RulesFit'
  <2>1. PICK d \in Dates, kind \in {"CLOSED", "EXTRA_HOURS"}, span \in ExtraSpans :
           exceptions' = exceptions \cup {[employee |-> e, rule |->
              [date |-> d, kind |-> kind, span |-> IF kind = "CLOSED" THEN <<0, 0>> ELSE span]]}
    BY <1>3 DEF CreateException
  <2>2. span \in Spans /\ <<0, 0>> \in Spans
    BY RotaAssumption, ClockAssumption DEF Spans, Minutes
  <2> QED  BY <2>1, <2>2 DEF RulesFit
<1>4. ASSUME NEW e \in Employees, DeleteException(e) PROVE RulesFit'
  BY <1>4 DEF DeleteException, RulesFit
<1>5. ASSUME NEW e \in Employees, Administer(e), ~CreateException(e), ~DeleteException(e)
      PROVE  UNCHANGED exceptions
  BY <1>5 DEF Administer, ReplaceWorkingHours, ReportConflicts, CountForEmployee, ArchiveEmployee,
              UpdateEmployee, CountForPairing, RemovePairing, AddPairing, Looked, Written, rota
<1>6. ASSUME \/ \E b \in Rows : Cancel(b)
             \/ DeleteBlock \/ CloseDay \/ OpenDay
             \/ CountForService \/ ArchiveService \/ UpdateService
             \/ CountForCategory \/ ArchiveCategory \/ LookAtCategory \/ FileService
             \/ Tick
      PROVE  UNCHANGED exceptions
  BY <1>6 DEF Cancel, DeleteBlock, CloseDay, OpenDay, CountForService, ArchiveService, UpdateService,
              CountForCategory, ArchiveCategory, LookAtCategory, FileService, Tick, Looked, Written, rota
<1> QED  BY <1>1, <1>2, <1>3, <1>4, <1>5, <1>6 DEF Next, vars, rota

LEMMA SnapshotFits ==
    ASSUME TypeOK, Table, RulesFit, NEW e \in Employees
    PROVE  SnapOK(Snapshot(e))
<1> DEFINE snap == Snapshot(e)
<1>1. /\ snap.rota = RotaOf(e) /\ snap.busy = Busy(e) /\ snap.sold = service.sold
      /\ snap.now = now /\ snap.notice = Notice /\ snap.horizon = Horizon
  BY DEF Snapshot
<1>2. RotaOK(RotaOf(e))
  <2>1. hours[e] \in Weeks
    BY DEF TypeOK
  <2>2. WeekOK(hours[e])
    BY <2>1, RotaAssumption DEF WeekOK, Spans
  <2> QED  BY <2>2 DEF RotaOK, RotaOf, RulesFit
<1>3. Busy(e) \subseteq Pairs
  <2>1. ASSUME NEW b \in Live(e) PROVE Block(b) \in Pairs
    <3>1. bookings[b].sold \in Offerings /\ bookings[b].start \in BookAt
      <4>1. b \in Rows /\ bookings[b].live
        BY DEF Live
      <4>2. bookings[b] # None
        BY <4>1 DEF None
      <4> QED  BY <4>1, <4>2 DEF TypeOK
    <3>2. /\ bookings[b].sold \in [duration : Nat \ {0}, prep : Nat, cleanup : Nat]
          /\ bookings[b].start \in Instants
      BY <3>1, OfferingsAssumption, CalendarAssumption
    <3> QED  BY <3>2, BlockIs DEF Block
  <2>2. ASSUME NEW x \in blocked PROVE x[2] \in Pairs
    BY ClockAssumption, CalendarAssumption DEF TypeOK, Pairs, Instants
  <2> QED  BY <2>1, <2>2 DEF Busy
<1>4. now \in Instants /\ Notice \in Nat /\ Horizon \in Nat
  BY CalendarAssumption DEF TypeOK
<1>5. service.sold \in [duration : Nat \ {0}, prep : Nat, cleanup : Nat]
  BY OfferingsAssumption DEF Table
<1> QED  BY <1>1, <1>2, <1>3, <1>4, <1>5 DEF SnapOK

\* What the engine offers is what the employee can work, minute by minute of the local
\* clock, for every rota, clock and grid; and on a day whose bounds all exist it offers all
\* of it (employeeSlotsFor, isSlotBookable, coveringIntervals).
THEOREM OfferedIsTheRota == Spec => []OfferedIsWorkable
<1>1. Init => RulesFit
  BY DEF Init, RulesFit
<1>2. LockInv /\ RulesFit => OfferedIsWorkable
  <2> SUFFICES ASSUME LockInv, RulesFit, NEW e \in Employees, NEW i \in Instants
               PROVE  /\ isSlotBookable(Snapshot(e), i) =>
                           /\ Workable(Snapshot(e), i)
                           /\ IsCovered(Snapshot(e).rota, BlockAt(i, Snapshot(e).sold))
                      /\ Workable(Snapshot(e), i) /\ PlainDay(Snapshot(e).rota, Local[i][1])
                           => isSlotBookable(Snapshot(e), i)
    BY Zenon DEF OfferedIsWorkable
  <2>1. SnapOK(Snapshot(e))
    BY SnapshotFits DEF LockInv
  <2> QED  BY <2>1, OfferedCanBeWorked, WorkableIsOffered
<1> QED  BY <1>1, <1>2, InitInv, StepInv, RulesStep, PTL DEF Spec
=============================================================================

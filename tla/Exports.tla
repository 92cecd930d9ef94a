------------------------------ MODULE Exports -------------------------------
(***************************************************************************)
(* The payments export (exports.service.ts): one ledger in order of time,  *)
(* merged as it is streamed from four sources, each paged by a keyset      *)
(* cursor while money keeps moving.                                        *)
(*                                                                         *)
(* A movement is a row of payments, manual_payments or refunds; time is    *)
(* what orders it in its source, and Today the time of what happens now.   *)
(***************************************************************************)
EXTENDS Integers, Sequences, FiniteSets, SequencesExt, Keyset

CONSTANTS
    Movements,  \* numbered: the id breaks ties
    Past,       \* the times of what has happened before the export
    Today,
    PageSize,   \* PAGE_SIZE
    RangeOpen,  \* does the range include today?
    MaxMoves    \* movements recorded or settled while the export runs

ASSUME ExportsAssumption ==
    /\ Movements \subseteq Nat \ {0} /\ IsFiniteSet(Movements) /\ Past \subseteq Nat /\ Today \in Nat
    /\ \A t \in Past : t < Today
    /\ PageSize \in Nat \ {0} /\ RangeOpen \in BOOLEAN /\ MaxMoves \in Nat

VARIABLES
    ledger,   \* every movement: what it is and when it was
    lasting,  \* those that have not changed since the export began
    pager,    \* the generators: cursor, rows read and not yielded, was the page full?
    head,     \* what the merge holds of each source: a row, or why there is none
    exported, \* the lines of the file: <<id, time>>
    moves

exports == <<ledger, lasting, pager, head, exported, moves>>

Sources == {"STRIPE", "MANUAL", "SETTLED", "PENDING"}
Nothing == [kind |-> "none", at |-> 0]
\* Not asked for yet, and iterator.next() with done
Unread == <<>>
Done == <<0>>

InRange(t) == t \in Past \/ RangeOpen

CardEntries == {m \in Movements : ledger[m].kind = "STRIPE" /\ InRange(ledger[m].at)}
ManualEntries == {m \in Movements : ledger[m].kind = "MANUAL" /\ InRange(ledger[m].at)}
\* Settled refunds by settledAt, pending ones by requestedAt; others are no movement
RefundEntries(state) == {m \in Movements : ledger[m].kind = state /\ InRange(ledger[m].at)}

EntriesOf(s) ==
    CASE s = "STRIPE" -> CardEntries [] s = "MANUAL" -> ManualEntries [] OTHER -> RefundEntries(s)

ExportsInit ==
    /\ ledger \in [Movements -> {Nothing} \cup [kind : Sources, at : Past]]
    /\ lasting = {m \in Movements : ledger[m] # Nothing}
    /\ pager = [s \in Sources |-> [cursor |-> <<0, 0>>, rows |-> <<>>, full |-> TRUE]]
    /\ head = [s \in Sources |-> Unread]
    /\ exported = <<>>
    /\ moves = 0

\* Mutant: a page begins after the time of the last row, whatever ties with it
PastTime(e, c) == e[2] > c[2]

\* Where a page begins; lines are <<id, time>>
PastCursor(e, c) == e[2] > c[2] \/ (e[2] = c[2] /\ e[1] > c[1])

\* By time, then id
Later(e, d) == e[2] > d[2] \/ (e[2] = d[2] /\ e[1] > d[1])
Lines == Movements \X (Past \cup {Today})
InTime == {p \in Lines \X Lines : Later(p[2], p[1])}

NextPage(s) ==
    LET rows == Ordered({e \in {<<m, ledger[m].at>> : m \in EntriesOf(s)} :
                             PastCursor(e, pager[s].cursor)}, InTime) IN
    SubSeq(rows, 1, IF Len(rows) > PageSize THEN PageSize ELSE Len(rows))

\* iterator.next(): the next row of the page, or of the next page, or the end
Yield(s, rows) ==
    /\ pager' = [pager EXCEPT ![s].rows = Tail(rows), ![s].cursor = Head(rows),
                              ![s].full = IF pager[s].rows # <<>> THEN @ ELSE Len(rows) = PageSize]
    /\ head' = [head EXCEPT ![s] = Head(rows)]

Advance(s) ==
    LET rows == IF pager[s].rows # <<>> THEN pager[s].rows
                ELSE IF pager[s].full THEN NextPage(s) ELSE <<>> IN
    /\ head[s] = Unread
    /\ IF rows # <<>> THEN Yield(s, rows)
       ELSE head' = [head EXCEPT ![s] = Done] /\ UNCHANGED pager
    /\ UNCHANGED <<ledger, lasting, exported, moves>>

Heads == {head[s] : s \in Sources} \ {Unread, Done}

\* The ids of payments, manual payments and refunds do not meet
Earliest(e) == \A d \in Heads : d = e \/ Later(d, e)

\* The consumer asks for a line
Merge(s) ==
    /\ \A t \in Sources : head[t] # Unread
    /\ head[s] # Done /\ Earliest(head[s])
    /\ exported' = Append(exported, head[s])
    /\ head' = [head EXCEPT ![s] = Unread]
    /\ UNCHANGED <<ledger, lasting, pager, moves>>

-----------------------------------------------------------------------------
(* Meanwhile                                                               *)

Changed(m, to) ==
    /\ moves < MaxMoves
    /\ moves' = moves + 1
    /\ ledger' = [ledger EXCEPT ![m] = to]
    /\ lasting' = lasting \ {m}
    /\ UNCHANGED <<pager, head, exported>>

\* A manual payment may be entered with the day it was taken
MovesMoney(m) ==
    /\ ledger[m] = Nothing
    /\ \/ \E kind \in {"STRIPE", "MANUAL", "PENDING"} : Changed(m, [kind |-> kind, at |-> Today])
       \/ \E t \in Past : Changed(m, [kind |-> "MANUAL", at |-> t])

Settles(m) ==
    /\ ledger[m].kind = "PENDING"
    /\ \/ Changed(m, [kind |-> "SETTLED", at |-> Today])
       \/ Changed(m, [kind |-> "FAILED", at |-> Today])

ExportsNext ==
    \/ \E s \in Sources : Advance(s) \/ Merge(s)
    \/ \E m \in Movements : MovesMoney(m) \/ Settles(m)

-----------------------------------------------------------------------------
(* Properties                                                              *)

\* Of a range that is over the file says every movement once, in the order of time, and
\* at its end leaves out nothing that was there from the beginning, wherever the pages of
\* the four sources ended and whatever moved between them.
LedgerIsWhole ==
    /\ \A i, j \in DOMAIN exported : i < j =>
          /\ Later(exported[j], exported[i])
          /\ exported[i][1] # exported[j][1]
    /\ (\A s \in Sources : head[s] = Done) =>
          \A m \in lasting : InRange(ledger[m].at) => <<m, ledger[m].at>> \in ToSet(exported)
=============================================================================

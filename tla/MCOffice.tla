------------------------------ MODULE MCOffice ------------------------------
(* Two employees and two days of four minutes.  The first day skips minute 1,
   the second shows minute 2 twice. *)
EXTENDS Calendar, TLC

MCSymmetry == Permutations(Txs)

MCLocal == [i \in 0..8 |-> <<<<1, 0>>, <<1, 2>>, <<1, 3>>,
                             <<2, 0>>, <<2, 1>>, <<2, 2>>, <<2, 2>>, <<2, 3>>, <<3, 0>>>>[i + 1]]
MCWeekday == [d \in {1, 2} |-> d]

Shift(day, from, to, breaks) == [weekday |-> day, span |-> <<from, to>>, breaks |-> breaks]

MCWeeks == {
    {Shift(1, 0, 4, {}), Shift(2, 0, 4, {})},
    {Shift(1, 0, 4, {<<1, 2>>}), Shift(2, 0, 3, {<<0, 1>>})}}
MCExtraSpans == {<<0, 2>>}
MCBlocks == {<<1, <<4, 5>>>>, <<2, <<1, 2>>>>}
MCAbsences == {<<1, 1>>, <<1, 2>>}
MCOfferings == {[duration |-> 1, prep |-> 0, cleanup |-> 1]}
MCBooked == {<<>>, <<<<1, 3>>, <<2, 3>>>>}
MCMaxTxs == [closures |-> 2, leave |-> 3, rota |-> 1, catalog |-> 1]
MCMaxEdits == [closures |-> 2, leave |-> 0, rota |-> 2, catalog |-> 2]
=============================================================================

------------------------------- MODULE MCDesk -------------------------------
(***************************************************************************)
(* Desk, Lists, Exports and Reminders share no variable, so a behaviour    *)
(* that moves one of them while the others rest shows all that an          *)
(* interleaving would.                                                     *)
(***************************************************************************)
EXTENDS Desk, Lists, Exports, Reminders, TLC

CONSTANTS b1, b2

MCRoles == {{"payment"}, {"refund", "cancel"}, {"attend"}, {"create"}}

\* Rows 2 and 3 tie; each filter lets one of them through, or both
MCSortValue == [i \in Ids |-> CASE i = 1 -> 1 [] i = 4 -> 3 [] OTHER -> 2]
MCMatches   == [f \in Filters |-> IF f = "a" THEN {1, 2, 3} ELSE {2, 4}]

\* An appointment on the third day that may move to the fourth, and a studio that
\* reminds one day, or one and two days, before
TwoBookings == {b1, b2}
TwoDays     == [b \in TwoBookings |-> IF b = b1 THEN 3 ELSE 4]
OneOrTwo    == {{1}, {1, 2}}

MCSymmetry == Permutations(Keys) \cup Permutations(Calls)

VARIABLE turn

Init ==
    /\ turn \in {"desk", "lists", "exports", "reminders"}
    /\ DeskInit /\ ListsInit /\ ExportsInit /\ RemindersInit
    /\ turn # "desk" => Cardinality({s \in Screens : "create" \in screen[s].can}) > 0
    /\ turn # "lists" => page = "new" /\ there = {} /\ list.filter = "a"
    /\ turn # "exports" => lasting = {}
    /\ turn # "reminders" => offsets = {1}

Next ==
    /\ UNCHANGED turn
    /\ \/ turn = "desk" /\ DeskNext /\ UNCHANGED <<lists, exports, reminders>>
       \/ turn = "lists" /\ ListsNext /\ UNCHANGED <<desk, exports, reminders>>
       \/ turn = "exports" /\ ExportsNext /\ UNCHANGED <<desk, lists, reminders>>
       \/ turn = "reminders" /\ RemindersNext /\ UNCHANGED <<desk, lists, exports>>

Spec == Init /\ [][Next]_<<turn, desk, lists, exports, reminders>>
=============================================================================

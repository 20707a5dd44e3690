------------------------------- MODULE Pages -------------------------------
(***************************************************************************)
(* What the page of an inbox says of time (burner/templates.go), as it is  *)
(* loaded again and again, and the form on it that names a new address.    *)
(*                                                                         *)
(* The page is of one inbox and of one message in it, which came in in the *)
(* second the inbox was made: its age and the time the inbox has left add  *)
(* up to the life of an inbox.                                             *)
(***************************************************************************)
EXTENDS StringDuration, EmailGenerator

CONSTANTS
    InboxLife,   \* how long an inbox lives: 24 hours
    Starts,      \* how old the message is at the first look
    Pauses,      \* between a look at the page and the next
    Overdue      \* bound: how long after its end the inbox is looked at

ASSUME PagesAssumption ==
    /\ InboxLife \in Nat /\ Overdue \in Nat
    /\ Starts \subseteq Nat /\ Pauses \subseteq Nat

VARIABLE age     \* of the message

pagesVars == <<age, given>>

Left == InboxLife - age

\* time.Duration's Round to a minute, of what is not negative: half a minute
\* rounds up.
RoundToMinute(d) ==
    LET over == d % Minute
    IN IF 2 * over < Minute THEN d - over ELSE d + Minute - over

\* Mutant: the age is not rounded before it is taken apart.
CalculateReceivedAtUnrounded ==
    IF age < 30 * Second
    THEN [fresh |-> TRUE, shown |-> [h |-> <<>>, min |-> <<>>]]
    ELSE [fresh |-> FALSE, shown |-> GetHoursAndMinutes(age)]

\* "fresh" stands for "Less than 30s ago".
CalculateReceivedAt ==
    IF age < 30 * Second
    THEN [fresh |-> TRUE, shown |-> [h |-> <<>>, min |-> <<>>]]
    ELSE [fresh |-> FALSE, shown |-> GetHoursAndMinutes(RoundToMinute(age))]

TransformInboxForTemplate == GetHoursAndMinutes(Left)

PagesInit ==
    /\ age \in Starts
    /\ NamesInit

\* Each look at the page is a request of its own.
Reload(pause) ==
    /\ age + pause <= InboxLife + Overdue
    /\ age' = age + pause
    /\ UNCHANGED given

PagesNext ==
    \/ \E pause \in Pauses : Reload(pause)
    \/ NamesNext /\ UNCHANGED age

PagesSpec == PagesInit /\ [][PagesNext]_pagesVars

-----------------------------------------------------------------------------

Numerals(h, min) == [h |-> <<Numeral(h)>>, min |-> <<Numeral(min)>>]

\* The age shown beside a message is hours and minutes, and right to half a
\* minute, through all the roundings: below the half minute, across the full
\* hour.
AgeIsTrue ==
    LET received == CalculateReceivedAt
        h   == received.shown.h[1].n
        min == received.shown.min[1].n
    IN IF received.fresh
       THEN age < 30 * Second
       ELSE /\ Len(received.shown.h) = 1 /\ Len(received.shown.min) = 1
            /\ received.shown = Numerals(h, min)
            /\ min < 60
            /\ age - (h * Hour + min * Minute) \in (-30 * Second)..(30 * Second)

LeftInHoursAndMinutes == Numerals(Left \div Hour, (Left % Hour) \div Minute)

\* "GetHoursAndMinutes extracts only the hours and minutes from a duration"
\* (stringduration/stringduration.go:8): the time an inbox is said to have left
\* is what it has, as long as that is a minute or more.
CountdownIsTrue ==
    Left >= Minute => TransformInboxForTemplate = LeftInHoursAndMinutes
=============================================================================

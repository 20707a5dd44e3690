--------------------------- MODULE StringDuration ---------------------------
(***************************************************************************)
(* Hours and minutes out of the text of a duration                         *)
(* (stringduration/stringduration.go).  Durations are whole milliseconds.  *)
(***************************************************************************)
EXTENDS Integers, Sequences

Second == 1000
Minute == 60 * Second
Hour   == 60 * Minute

\* A text is a sequence of numerals and single letters.  The fraction of the
\* seconds is left out: no letter is in it.
Numeral(n) == [sort |-> "numeral", n |-> n]
Letter(c)  == [sort |-> c, n |-> 0]

\* time.Duration's String: "1h0m5s", "1m5s", "5s", "500ms", "-5s".
Magnitude(u) ==
    LET hours   == Numeral(u \div Hour)
        minutes == Numeral((u % Hour) \div Minute)
        seconds == Numeral((u % Minute) \div Second)
    IN CASE u >= Hour ->
              <<hours, Letter("h"), minutes, Letter("m"), seconds, Letter("s")>>
         [] Minute <= u /\ u < Hour     -> <<minutes, Letter("m"), seconds, Letter("s")>>
         [] Second <= u /\ u < Minute   -> <<seconds, Letter("s")>>
         [] 0 < u /\ u < Second         -> <<Numeral(u), Letter("m"), Letter("s")>>
         [] u = 0                       -> <<Numeral(0), Letter("s")>>

DurationString(d) ==
    IF d < 0 THEN <<Letter("-")>> \o Magnitude(-d) ELSE Magnitude(d)

\* Mutant: a duration of less than an hour is not told apart.
ScanHoursFirst(loop, c) ==
    CASE loop.over -> loop
      [] ~loop.over /\ c.sort = "h" -> [loop EXCEPT !.gotHour = TRUE]
      [] ~loop.over /\ c.sort = "m" -> [loop EXCEPT !.over = TRUE]
      [] ~loop.over /\ c.sort \notin {"h", "m"} ->
            IF loop.gotHour THEN [loop EXCEPT !.min = Append(@, c)]
                            ELSE [loop EXCEPT !.hour = Append(@, c)]

\* The loop over the text; "over" stands for break.
Scan(loop, c) ==
    CASE loop.over -> loop
      [] ~loop.over /\ ~loop.gotHour /\ c.sort = "h" -> [loop EXCEPT !.gotHour = TRUE]
      [] ~loop.over /\ ~loop.gotHour /\ c.sort = "m" ->
            [loop EXCEPT !.min = loop.hour, !.hour = <<>>, !.over = TRUE]
      [] ~loop.over /\ ~loop.gotHour /\ c.sort \notin {"h", "m"} ->
            [loop EXCEPT !.hour = Append(@, c)]
      [] ~loop.over /\ loop.gotHour /\ c.sort = "m" -> [loop EXCEPT !.over = TRUE]
      [] ~loop.over /\ loop.gotHour /\ c.sort # "m" -> [loop EXCEPT !.min = Append(@, c)]

Unread == [gotHour |-> FALSE, over |-> FALSE, hour |-> <<>>, min |-> <<>>]

\* The loop's variables after each token of the text.
Loop(text) ==
    LET loop[i \in 0..Len(text)] == IF i = 0 THEN Unread ELSE Scan(loop[i-1], text[i])
    IN loop

GetHoursAndMinutes(d) ==
    LET text == DurationString(d)
        loop == Loop(text)[Len(text)]
    IN [h   |-> IF loop.hour = <<>> THEN <<Numeral(0)>> ELSE loop.hour,
        min |-> loop.min]
=============================================================================

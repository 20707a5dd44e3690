----------------------------- MODULE PagesProofs -----------------------------
(***************************************************************************)
(* What the pages say of time is right for every lifetime and at every     *)
(* moment of it, and the addresses the program gives out are proper and    *)
(* come in one spelling but for hosts configured with capitals, whatever   *)
(* the alphabet, the limits and the hosts.                                 *)
(*                                                                         *)
(* The loop over a text is a recursive function, about which nothing can   *)
(* be said before there is known to be one: that takes an induction over   *)
(* the length of the text.  The first part provides it, for sets of        *)
(* numbers, from the well-foundedness of the natural numbers.              *)
(***************************************************************************)
EXTENDS Pages, WellFoundedInduction, SequenceTheorems, TLAPS

-----------------------------------------------------------------------------
(* Induction.                                                              *)

Below == OpToRel(<, Nat)

LEMMA BelowMeans == \A i, j \in Nat : <<i, j>> \in Below <=> i < j
  BY DEF Below, OpToRel

LEMMA BelowIsFounded == IsWellFoundedOn(Below, Nat)
  BY NatLessThanWellFounded, Zenon DEF Below

LEMMA LeastElement ==
    ASSUME NEW S \in SUBSET Nat, S # {}
    PROVE  \E n \in S : \A m \in S : n <= m
<1>1. PICK n \in S : \A m \in S : <<m, n>> \notin Below
  BY BelowIsFounded, WFMin
<1>2. \A m \in S : ~(m < n)
  BY <1>1, BelowMeans
<1>3. n \in Nat /\ \A m \in S : m \in Nat
  OBVIOUS
<1> QED BY <1>2, <1>3

LEMMA Induction ==
    ASSUME NEW S, 0 \in S, \A n \in Nat : n \in S => n + 1 \in S
    PROVE  Nat \subseteq S
<1> SUFFICES ASSUME Nat \ S # {} PROVE FALSE
  OBVIOUS
<1>1. PICK n \in Nat \ S : \A m \in Nat \ S : n <= m
  BY LeastElement
<1>2. n # 0 /\ n - 1 \in Nat
  BY <1>1
<1>3. n - 1 \in S
  BY <1>1, <1>2
<1> QED BY <1>1, <1>2, <1>3

-----------------------------------------------------------------------------
(* The loop over the text of a duration.                                   *)

\* f is the first n rounds of the loop over text.
IsLoop(f, text, n) ==
    f = [i \in 0..n |-> IF i = 0 THEN Unread ELSE Scan(f[i-1], text[i])]

LEMMA LoopExists ==
    ASSUME NEW text, NEW n \in Nat
    PROVE  \E f : IsLoop(f, text, n)
<1> DEFINE S == {k \in Nat : \E f : IsLoop(f, text, k)}
<1>1. 0 \in S
  <2>1. IsLoop([i \in 0..0 |-> Unread], text, 0)
    BY DEF IsLoop
  <2> QED BY <2>1
<1>2. ASSUME NEW k \in Nat, k \in S
      PROVE  k + 1 \in S
  <2>1. PICK f : IsLoop(f, text, k)
    BY <1>2
  <2> DEFINE g == [i \in 0..(k+1) |-> IF i <= k THEN f[i] ELSE Scan(f[k], text[i])]
  <2>2. \A i \in 0..k : f[i] = IF i = 0 THEN Unread ELSE Scan(f[i-1], text[i])
    BY <2>1 DEF IsLoop
  <2>3. ASSUME NEW i \in 0..(k+1)
        PROVE  g[i] = IF i = 0 THEN Unread ELSE Scan(g[i-1], text[i])
    <3>1. CASE i = 0
      BY <2>2, <3>1
    <3>2. CASE i \in 1..k
      <4>1. g[i] = f[i] /\ g[i-1] = f[i-1]
        BY <3>2
      <4> QED BY <2>2, <3>2, <4>1
    <3>3. CASE i = k + 1
      <4>1. g[i] = Scan(f[k], text[i]) /\ g[i-1] = f[k]
        BY <3>3
      <4> QED BY <3>3, <4>1
    <3> QED BY <3>1, <3>2, <3>3
  <2>4. IsLoop(g, text, k + 1)
    BY <2>3 DEF IsLoop
  <2> QED BY <2>4
<1>3. Nat \subseteq S
  <2> HIDE DEF S
  <2> QED BY <1>1, <1>2, Induction
<1> QED BY <1>3

LEMMA LoopRounds ==
    ASSUME NEW text, Len(text) \in Nat
    PROVE  /\ Loop(text)[0] = Unread
           /\ \A i \in 1..Len(text) : Loop(text)[i] = Scan(Loop(text)[i-1], text[i])
<1>1. Loop(text) = CHOOSE f : IsLoop(f, text, Len(text))
  BY DEF Loop, IsLoop
<1>2. IsLoop(Loop(text), text, Len(text))
  BY <1>1, LoopExists, Zenon
<1> QED BY <1>2 DEF IsLoop

\* The loop's variables.
State(got, over, hour, min) ==
    [gotHour |-> got, over |-> over, hour |-> hour, min |-> min]

\* One round of it, for what a text of a minute or more is made of.
LEMMA Rounds ==
    /\ \A n, min : Scan(State(FALSE, FALSE, << >>, min), Numeral(n))
                      = State(FALSE, FALSE, <<Numeral(n)>>, min)
    /\ \A n, hour : Scan(State(TRUE, FALSE, hour, << >>), Numeral(n))
                      = State(TRUE, FALSE, hour, <<Numeral(n)>>)
    /\ \A hour, min : Scan(State(FALSE, FALSE, hour, min), Letter("h"))
                         = State(TRUE, FALSE, hour, min)
    /\ \A hour, min : Scan(State(FALSE, FALSE, hour, min), Letter("m"))
                         = State(FALSE, TRUE, << >>, hour)
    /\ \A hour, min : Scan(State(TRUE, FALSE, hour, min), Letter("m"))
                         = State(TRUE, TRUE, hour, min)
<1>1. ASSUME NEW n, NEW c, c = Numeral(n), NEW rest
      PROVE  /\ Scan(State(FALSE, FALSE, << >>, rest), c) = State(FALSE, FALSE, <<c>>, rest)
             /\ Scan(State(TRUE, FALSE, rest, << >>), c) = State(TRUE, FALSE, rest, <<c>>)
  <2>1. c.sort = "numeral" /\ Append(<< >>, c) = <<c>>
    BY <1>1 DEF Numeral
  <2> QED BY <2>1 DEF Scan, State
<1>2. ASSUME NEW hour, NEW min
      PROVE  /\ Scan(State(FALSE, FALSE, hour, min), Letter("h"))
                    = State(TRUE, FALSE, hour, min)
             /\ Scan(State(FALSE, FALSE, hour, min), Letter("m"))
                    = State(FALSE, TRUE, << >>, hour)
             /\ Scan(State(TRUE, FALSE, hour, min), Letter("m"))
                    = State(TRUE, TRUE, hour, min)
  BY DEF Scan, State, Letter
<1> QED BY <1>1, <1>2

LEMMA Over ==
    ASSUME NEW loop, NEW c, loop.over
    PROVE  Scan(loop, c) = loop
  BY DEF Scan

\* The texts of an hour and more, and of a minute and more.
HoursText(h, min, s) ==
    <<Numeral(h), Letter("h"), Numeral(min), Letter("m"), Numeral(s), Letter("s")>>
MinutesText(min, s) == <<Numeral(min), Letter("m"), Numeral(s), Letter("s")>>

LEMMA HoursRead ==
    ASSUME NEW h, NEW min, NEW s,
           NEW text, text = HoursText(h, min, s)
    PROVE  /\ Loop(text)[Len(text)].hour = <<Numeral(h)>>
           /\ Loop(text)[Len(text)].min = <<Numeral(min)>>
<1> USE DEF HoursText
<1> DEFINE loop == Loop(text)
<1>1. Len(text) = 6
  OBVIOUS
<1>2. /\ text[1] = Numeral(h) /\ text[2] = Letter("h") /\ text[3] = Numeral(min)
      /\ text[4] = Letter("m") /\ text[5] = Numeral(s) /\ text[6] = Letter("s")
  OBVIOUS
<1>3. loop[0] = Unread /\ \A i \in 1..6 : loop[i] = Scan(loop[i-1], text[i])
  BY <1>1, LoopRounds
<1> HIDE DEF loop
<1>4. loop[1] = Scan(loop[0], Numeral(h))
  BY <1>2, <1>3
<1>5. loop[2] = Scan(loop[1], Letter("h"))
  BY <1>2, <1>3
<1>6. loop[3] = Scan(loop[2], Numeral(min))
  BY <1>2, <1>3
<1>7. loop[4] = Scan(loop[3], Letter("m"))
  BY <1>2, <1>3
<1>8. loop[5] = Scan(loop[4], text[5]) /\ loop[6] = Scan(loop[5], text[6])
  BY <1>3
<1>9. loop[0] = State(FALSE, FALSE, << >>, << >>)
  BY <1>3 DEF Unread, State
<1>10. loop[1] = State(FALSE, FALSE, <<Numeral(h)>>, << >>)
  BY <1>4, <1>9, Rounds
<1>11. loop[2] = State(TRUE, FALSE, <<Numeral(h)>>, << >>)
  BY <1>5, <1>10, Rounds
<1>12. loop[3] = State(TRUE, FALSE, <<Numeral(h)>>, <<Numeral(min)>>)
  BY <1>6, <1>11, Rounds
<1>13. loop[4] = State(TRUE, TRUE, <<Numeral(h)>>, <<Numeral(min)>>)
  BY <1>7, <1>12, Rounds
<1>14. loop[6] = loop[4]
  <2>1. loop[4].over
    BY <1>13 DEF State
  <2> QED BY <1>8, <2>1, Over
<1> QED BY <1>1, <1>13, <1>14 DEF loop, State

LEMMA MinutesRead ==
    ASSUME NEW min, NEW s,
           NEW text, text = MinutesText(min, s)
    PROVE  /\ Loop(text)[Len(text)].hour = << >>
           /\ Loop(text)[Len(text)].min = <<Numeral(min)>>
<1> USE DEF MinutesText
<1> DEFINE loop == Loop(text)
<1>1. Len(text) = 4
  OBVIOUS
<1>2. text[1] = Numeral(min) /\ text[2] = Letter("m")
  OBVIOUS
<1>3. loop[0] = Unread /\ \A i \in 1..4 : loop[i] = Scan(loop[i-1], text[i])
  BY <1>1, LoopRounds
<1> HIDE DEF loop
<1>4. loop[1] = Scan(loop[0], Numeral(min))
  BY <1>2, <1>3
<1>5. loop[2] = Scan(loop[1], Letter("m"))
  BY <1>2, <1>3
<1>6. loop[3] = Scan(loop[2], text[3]) /\ loop[4] = Scan(loop[3], text[4])
  BY <1>3
<1>7. loop[0] = State(FALSE, FALSE, << >>, << >>)
  BY <1>3 DEF Unread, State
<1>8. loop[1] = State(FALSE, FALSE, <<Numeral(min)>>, << >>)
  BY <1>4, <1>7, Rounds
<1>9. loop[2] = State(FALSE, TRUE, << >>, <<Numeral(min)>>)
  BY <1>5, <1>8, Rounds
<1>10. loop[4] = loop[2]
  <2>1. loop[2].over
    BY <1>9 DEF State
  <2> QED BY <1>6, <2>1, Over
<1> QED BY <1>1, <1>9, <1>10 DEF loop, State

LEMMA AppendToOne == \A x, y : Append(<<x>>, y) = <<x, y>>
<1> SUFFICES ASSUME NEW x, NEW y PROVE Append(<<x>>, y) = <<x, y>>
  OBVIOUS
<1>1. <<x>> \in Seq({x, y}) /\ Len(<<x>>) = 1 /\ <<x, y>> \in Seq({x, y})
  OBVIOUS
<1>2. Append(<<x>>, y) \in Seq({x, y}) /\ Len(Append(<<x>>, y)) = 2
  BY <1>1
<1>3. Append(<<x>>, y)[1] = x /\ Append(<<x>>, y)[2] = y
  BY <1>1
<1>4. \A i \in 1..2 : Append(<<x>>, y)[i] = <<x, y>>[i]
  BY <1>3
<1> QED BY <1>1, <1>2, <1>4, SeqEqual

\* The text of less than a minute and no less than a second.
SecondsText(s) == <<Numeral(s), Letter("s")>>

\* What the loop makes of it: it finds neither of its letters, and all it read
\* counts as hours.
LEMMA SecondsRead ==
    ASSUME NEW s, NEW text, text = SecondsText(s)
    PROVE  /\ Loop(text)[Len(text)].hour = SecondsText(s)
           /\ Loop(text)[Len(text)].min = << >>
<1> USE DEF SecondsText
<1> DEFINE loop == Loop(text)
<1>1. Len(text) = 2
  OBVIOUS
<1>2. text[1] = Numeral(s) /\ text[2] = Letter("s")
  OBVIOUS
<1>3. loop[0] = Unread /\ \A i \in 1..2 : loop[i] = Scan(loop[i-1], text[i])
  BY <1>1, LoopRounds
<1> HIDE DEF loop
<1>4. loop[1] = Scan(loop[0], Numeral(s))
  BY <1>2, <1>3
<1>5. loop[2] = Scan(loop[1], Letter("s"))
  BY <1>2, <1>3
<1>6. loop[0] = State(FALSE, FALSE, << >>, << >>)
  BY <1>3 DEF Unread, State
<1>7. loop[1] = State(FALSE, FALSE, <<Numeral(s)>>, << >>)
  BY <1>4, <1>6, Rounds
<1>8. Append(<<Numeral(s)>>, Letter("s")) = <<Numeral(s), Letter("s")>>
  BY AppendToOne
<1>9. \A hour, min : Scan(State(FALSE, FALSE, hour, min), Letter("s"))
                       = State(FALSE, FALSE, Append(hour, Letter("s")), min)
  BY DEF Scan, State, Letter
<1>10. loop[2] = State(FALSE, FALSE, <<Numeral(s), Letter("s")>>, << >>)
  BY <1>5, <1>7, <1>8, <1>9
<1> QED BY <1>1, <1>10 DEF loop, State

LEMMA Units == Second = 1000 /\ Minute = 60000 /\ Hour = 3600000
  BY DEF Second, Minute, Hour

\* GetHoursAndMinutes does what its comment says for all that is a minute or
\* more, however long.
LEMMA HoursAndMinutes ==
    ASSUME NEW d \in Nat, d >= Minute
    PROVE  GetHoursAndMinutes(d) = Numerals(d \div Hour, (d % Hour) \div Minute)
<1> DEFINE h    == d \div Hour
           min  == (d % Hour) \div Minute
           s    == (d % Minute) \div Second
           text == DurationString(d)
<1> USE DEF Second, Minute, Hour
<1>1. CASE d >= Hour
  <2>1. text = Magnitude(d)
    BY DEF DurationString
  <2>2. text = HoursText(h, min, s)
    BY <1>1, <2>1 DEF Magnitude, HoursText
  <2>3. /\ Loop(text)[Len(text)].hour = <<Numeral(h)>>
        /\ Loop(text)[Len(text)].min = <<Numeral(min)>>
    <3> HIDE DEF h, min, s, text
    <3> QED BY <2>2, HoursRead
  <2>4. <<Numeral(h)>> # << >>
    OBVIOUS
  <2> HIDE DEF h, min
  <2> QED BY <2>3, <2>4 DEF GetHoursAndMinutes, Numerals, h, min
<1>2. CASE d < Hour
  <2>1. text = Magnitude(d)
    BY DEF DurationString
  <2>2. text = MinutesText(min, s)
    BY <1>2, <2>1 DEF Magnitude, MinutesText
  <2>3. h = 0
    BY <1>2
  <2>4. /\ Loop(text)[Len(text)].hour = << >>
        /\ Loop(text)[Len(text)].min = <<Numeral(min)>>
    <3> HIDE DEF h, min, s, text
    <3> QED BY <2>2, MinutesRead
  <2> QED BY <2>3, <2>4 DEF GetHoursAndMinutes, Numerals
<1> QED BY <1>1, <1>2

\* In the last minute of an inbox, down to its last second, the page has its
\* seconds for hours and no minutes: CountdownIsTrue cannot be said of less
\* than a minute (stringduration/stringduration.go:29).
THEOREM LastMinuteMisread ==
    ASSUME NEW d \in Nat, Second <= d, d < Minute
    PROVE  GetHoursAndMinutes(d) = [h |-> SecondsText(d \div Second), min |-> << >>]
<1> DEFINE s    == (d % Minute) \div Second
           text == DurationString(d)
<1>1. /\ 1000 <= d /\ d < 60000 /\ ~(d >= Hour) /\ ~(d < Second) /\ d # 0 /\ ~(d < 0)
      /\ Second <= d /\ d < Minute /\ ~(Minute <= d)
  BY Units
<1>2. d % Minute = d
  BY <1>1, Units
<1>3. s = d \div Second
  BY <1>2
<1>4. text = Magnitude(d)
  BY <1>1 DEF DurationString
<1>5. text = SecondsText(s)
  BY <1>1, <1>4 DEF Magnitude, SecondsText
<1>6. /\ Loop(text)[Len(text)].hour = SecondsText(s)
      /\ Loop(text)[Len(text)].min = << >>
  <2> HIDE DEF s, text
  <2> QED BY <1>5, SecondsRead
<1>7. SecondsText(s) # << >>
  BY DEF SecondsText
<1> HIDE DEF s
<1> QED BY <1>3, <1>6, <1>7 DEF GetHoursAndMinutes

\* The countdown is in hours and minutes, and is right, at any time up to the
\* last minute.
LEMMA CountdownRight ==
    ASSUME Left \in Int
    PROVE  CountdownIsTrue
  BY HoursAndMinutes DEF CountdownIsTrue, LeftInHoursAndMinutes,
     TransformInboxForTemplate, Minute, Second

LEMMA MinutesAndRest ==
    ASSUME NEW d \in Nat
    PROVE  \E q, over \in Nat : over < 60000 /\ d = 60000 * q + over /\ d % 60000 = over
<1>1. \A n \in Nat : n % 60000 \in Nat /\ n % 60000 < 60000
  OBVIOUS
<1>2. \A n \in Nat : n \div 60000 \in Nat
  OBVIOUS
<1>3. \A n \in Nat : n = 60000 * (n \div 60000) + (n % 60000)
  OBVIOUS
<1> QED BY <1>1, <1>2, <1>3

LEMMA FullMinutes == \A q \in Nat : (60000 * q) % 60000 = 0
  OBVIOUS

\* Rounding is by half a minute at most, and half a minute becomes one.
LEMMA RoundedToMinute ==
    ASSUME NEW d \in Nat
    PROVE  /\ RoundToMinute(d) \in Nat
           /\ RoundToMinute(d) % 60000 = 0
           /\ -30000 <= d - RoundToMinute(d)
           /\ d - RoundToMinute(d) <= 30000
           /\ d >= 30000 => RoundToMinute(d) >= 60000
<1>1. PICK q \in Nat, over \in Nat :
         over < 60000 /\ d = 60000 * q + over /\ d % 60000 = over
  BY MinutesAndRest
<1>2. RoundToMinute(d) = IF 2 * over < 60000 THEN d - over ELSE d + 60000 - over
  BY <1>1, Units DEF RoundToMinute
<1>3. CASE 2 * over < 60000
  <2>1. /\ d - over = 60000 * q
        /\ -30000 <= d - (60000 * q) /\ d - (60000 * q) <= 30000
        /\ d >= 30000 => 60000 * q >= 60000
    BY <1>1, <1>3
  <2>2. RoundToMinute(d) = 60000 * q
    BY <1>2, <1>3, <2>1
  <2> QED BY <2>1, <2>2, FullMinutes
<1>4. CASE ~(2 * over < 60000)
  <2>1. /\ d + 60000 - over = 60000 * (q + 1) /\ q + 1 \in Nat
        /\ -30000 <= d - (60000 * (q + 1)) /\ d - (60000 * (q + 1)) <= 30000
        /\ 60000 * (q + 1) >= 60000
    BY <1>1, <1>4
  <2>2. RoundToMinute(d) = 60000 * (q + 1)
    BY <1>2, <1>4, <2>1
  <2> QED BY <2>1, <2>2, FullMinutes
<1> QED BY <1>3, <1>4

\* A time of full minutes is its hours and minutes.
LEMMA TakenApart ==
    ASSUME NEW d \in Nat, d % 60000 = 0
    PROVE  LET h   == d \div Hour
               min == (d % Hour) \div Minute
           IN /\ h \in Nat /\ min \in Nat /\ min < 60
              /\ h * Hour + min * Minute = d
<1>1. \A n \in Nat : n \div 3600000 \in Nat
  OBVIOUS
<1>2. \A n \in Nat : (n % 3600000) \div 60000 \in Nat /\ (n % 3600000) \div 60000 < 60
  OBVIOUS
<1>3. (d \div 3600000) * 3600000 + ((d % 3600000) \div 60000) * 60000 = d
  OBVIOUS
<1> QED BY <1>1, <1>2, <1>3, Units

LEMMA AgeRight ==
    ASSUME age \in Nat
    PROVE  AgeIsTrue
<1> DEFINE d   == RoundToMinute(age)
           h   == d \div Hour
           min == (d % Hour) \div Minute
<1>1. CASE age < 30 * Second
  BY <1>1 DEF AgeIsTrue, CalculateReceivedAt
<1>2. CASE ~(age < 30 * Second)
  <2>1. age >= 30 * Second
    BY <1>2 DEF Second
  <2>2. /\ d \in Nat /\ d >= Minute /\ d % 60000 = 0
        /\ age - d \in (-30 * Second)..(30 * Second)
    <3>1. age >= 30000 /\ 30 * Second = 30000 /\ -30 * Second = -30000 /\ Minute = 60000
      BY <2>1, Units
    <3>2. /\ d \in Nat /\ d >= 60000 /\ d % 60000 = 0
          /\ -30000 <= age - d /\ age - d <= 30000
      BY <3>1, RoundedToMinute
    <3> HIDE DEF d
    <3> QED BY <3>1, <3>2
  <2> HIDE DEF d
  <2>3. GetHoursAndMinutes(d) = Numerals(h, min)
    BY <2>2, HoursAndMinutes
  <2>4. h \in Nat /\ min \in Nat /\ min < 60 /\ h * Hour + min * Minute = d
    BY <2>2, TakenApart
  <2> HIDE DEF h, min
  <2>5. CalculateReceivedAt = [fresh |-> FALSE, shown |-> Numerals(h, min)]
    BY <1>2, <2>3 DEF CalculateReceivedAt, d
  <2>6. /\ Numerals(h, min).h[1].n = h /\ Numerals(h, min).min[1].n = min
        /\ Len(Numerals(h, min).h) = 1 /\ Len(Numerals(h, min).min) = 1
    BY DEF Numerals, Numeral
  <2>7. CalculateReceivedAt.fresh = FALSE /\ CalculateReceivedAt.shown = Numerals(h, min)
    BY <2>5
  <2> QED BY <2>2, <2>4, <2>6, <2>7 DEF AgeIsTrue
<1> QED BY <1>1, <1>2

AgeOK == age \in Nat

LEMMA AgeCounts == PagesSpec => []AgeOK
<1>1. PagesInit => AgeOK
  BY PagesAssumption DEF PagesInit, AgeOK
<1>2. AgeOK /\ [PagesNext]_pagesVars => AgeOK'
  BY PagesAssumption DEF PagesNext, Reload, pagesVars, AgeOK
<1> QED BY <1>1, <1>2, PTL DEF PagesSpec

\* Whatever the moment of a look at the page, the age it shows is right to half
\* a minute (burner/templates.go:68).
THEOREM AgeTrue == PagesSpec => []AgeIsTrue
<1>1. AgeOK => AgeIsTrue
  BY AgeRight DEF AgeOK
<1> QED BY <1>1, AgeCounts, PTL

\* Whatever the lifetime of an inbox, the time it is said to have left is right,
\* up to its last minute (burner/html.go, stringduration/stringduration.go:9).
THEOREM CountdownTrue == PagesSpec => []CountdownIsTrue
<1>1. AgeOK => CountdownIsTrue
  BY PagesAssumption, CountdownRight DEF AgeOK, Left
<1> QED BY <1>1, AgeCounts, PTL

-----------------------------------------------------------------------------
(* The addresses.  Every name given out is its own lower case, every host  *)
(* one of the configured ones as it is configured, and a chosen one its    *)
(* own lower case as well.                                                 *)

Proper(user) ==
    /\ user \in Seq(Characters)
    /\ ToLower(user) = user
    /\ VerifyUser(user)

NamesInv ==
    \A a \in given :
        /\ Proper(a.user)
        /\ a.host \in Hosts
        /\ a.chosen \in BOOLEAN
        /\ a.chosen => a.host # NoHost /\ LowerHost[a.host] = a.host

\* Lower-casing keeps a name's length and does nothing the second time.
LEMMA Lowered ==
    ASSUME NEW user \in Seq(Characters)
    PROVE  /\ ToLower(user) \in Seq(Characters)
           /\ ToLower(ToLower(user)) = ToLower(user)
<1>1. /\ Len(user) \in Nat
      /\ \A i \in 1..Len(user) : user[i] \in Characters
  OBVIOUS
<1>2. \A i \in 1..Len(user) : /\ Lower[user[i]] \in Characters
                              /\ Lower[Lower[user[i]]] = Lower[user[i]]
  BY <1>1, GeneratorAssumption
<1>3. ToLower(user) \in [1..Len(user) -> Characters]
  BY <1>2 DEF ToLower
<1>4. ToLower(user) \in Seq(Characters) /\ Len(ToLower(user)) = Len(user)
  BY <1>1, <1>3
<1>5. ToLower(ToLower(user)) = [i \in 1..Len(user) |-> Lower[ToLower(user)[i]]]
  BY <1>4 DEF ToLower
<1>6. \A i \in 1..Len(user) : ToLower(user)[i] = Lower[user[i]]
  BY DEF ToLower
<1>7. ToLower(ToLower(user)) = [i \in 1..Len(user) |-> Lower[user[i]]]
  BY <1>2, <1>5, <1>6
<1> QED BY <1>4, <1>7 DEF ToLower

\* A random name passes the check that only chosen names are put to.
LEMMA RandomIsProper ==
    ASSUME NEW name \in [1..L -> Alphabet]
    PROVE  Proper(name)
<1>1. L \in Nat /\ MinUser <= L /\ L <= MaxUser
  BY GeneratorAssumption
<1>2. name \in Seq(Characters) /\ Len(name) = L
  BY <1>1, GeneratorAssumption
<1>3. \A i \in 1..L : /\ name[i] \in Alphanumeric
                      /\ Lower[name[i]] = name[i]
  BY GeneratorAssumption
<1>4. ToLower(name) = name
  BY <1>2, <1>3 DEF ToLower
<1>5. name \notin Reserved
  BY <1>2, GeneratorAssumption
<1> QED BY <1>1, <1>2, <1>3, <1>4, <1>5 DEF Proper, VerifyUser

LEMMA TypedIsText ==
    ASSUME NEW user \in Typed
    PROVE  user \in Seq(Characters)
<1>1. PICK n \in 0..(MaxUser + 1) : user \in [1..n -> Characters]
  BY DEF Typed
<1>2. n \in Nat
  BY GeneratorAssumption
<1> QED BY <1>1, <1>2

LEMMA NamesStep == NamesInv /\ [NamesNext]_given => NamesInv'
<1> SUFFICES ASSUME NamesInv, [NamesNext]_given PROVE NamesInv'
  OBVIOUS
<1>1. ASSUME NEW user, NEW host \in Hosts, NEW chosen \in BOOLEAN,
             Proper(user),
             chosen => host # NoHost /\ LowerHost[host] = host,
             Give(user, host, chosen)
      PROVE  NamesInv'
  BY <1>1 DEF Give, NamesInv
<1>2. ASSUME NEW name \in [1..L -> Alphabet], NEW host \in Hosts, NewRandom(name, host)
      PROVE  NamesInv'
  BY <1>1, <1>2, RandomIsProper DEF NewRandom
<1>3. ASSUME NEW user \in Typed, NEW host \in HostNames, NewFromUserAndHost(user, host)
      PROVE  NamesInv'
  <2>1. Proper(ToLower(user))
    BY <1>3, TypedIsText, Lowered DEF NewFromUserAndHost, Proper
  <2>2. /\ LowerHost[host] \in Hosts
        /\ LowerHost[host] # NoHost
        /\ LowerHost[LowerHost[host]] = LowerHost[host]
    BY <1>3, GeneratorAssumption DEF NewFromUserAndHost, VerifyHost
  <2> QED BY <1>1, <1>3, <2>1, <2>2 DEF NewFromUserAndHost
<1>4. CASE UNCHANGED given
  BY <1>4 DEF NamesInv
<1> QED BY <1>2, <1>3, <1>4 DEF NamesNext

LEMMA NamesInvariance == PagesSpec => []NamesInv
<1>1. PagesInit => NamesInv
  BY DEF PagesInit, NamesInit, NamesInv
<1>2. [PagesNext]_pagesVars => [NamesNext]_given
  BY DEF PagesNext, Reload, pagesVars
<1> QED BY <1>1, <1>2, NamesStep, PTL DEF PagesSpec

\* Every address given out, random ones included, is one that verifyUser
\* passes, of a configured host, and none that is reserved in any case.
THEOREM NamesProper == PagesSpec => []GivenIsProper
<1>1. NamesInv => GivenIsProper
  BY DEF NamesInv, Proper, GivenIsProper, VerifyUser
<1> QED BY <1>1, NamesInvariance, PTL

\* Addresses that differ in case only are one address, or one of them is a
\* random one at a host configured with capitals: for any configuration.
THEOREM NamesInOneSpelling == PagesSpec => []OneSpelling
<1>1. NamesInv => OneSpelling
  <2> SUFFICES ASSUME NamesInv, NEW a \in given, NEW b \in given, Alike(a, b)
               PROVE  /\ a.user = b.user
                      /\ \/ a.host = b.host
                         \/ \E c \in {a, b} : ~c.chosen /\ c.host # LowerHost[c.host]
    BY DEF OneSpelling
  <2>1. a.user = b.user
    BY DEF NamesInv, Proper, Alike
  <2>2. LowerHost[a.host] = LowerHost[b.host]
    BY DEF Alike
  <2>3. CASE a.host = LowerHost[a.host] /\ b.host = LowerHost[b.host]
    BY <2>1, <2>2, <2>3
  <2>4. ASSUME NEW c \in {a, b}, c.host # LowerHost[c.host]
        PROVE  ~c.chosen
    BY <2>4 DEF NamesInv
  <2> QED BY <2>1, <2>3, <2>4
<1> QED BY <1>1, NamesInvariance, PTL
=============================================================================

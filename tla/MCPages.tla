------------------------------ MODULE MCPages ------------------------------
(***************************************************************************)
(* Small instances of Pages.  The letter k stands for all letters, 1 for   *)
(* the digits, the Kelvin sign for the characters that only become letters *)
(* when they are lower-cased, "k" for the reserved names.  DOMAINS is      *)
(* "Kiwi.com,kiwi.com,Burner.org,".                                        *)
(***************************************************************************)
EXTENDS Pages, TLC

MCCharacters == {"k", "K", "1", "kelvin", "-"}
MCLower == [c \in MCCharacters |-> IF c \in {"K", "kelvin"} THEN "k" ELSE c]
MCAlphanumeric == {"k", "K", "1"}
MCAlphabet == {"k", "1"}
MCReserved == {<<"k">>}

MCHostNames == {"kiwi.com", "Kiwi.com", "burner.org", "Burner.org", ""}
MCLowerHost == [h \in MCHostNames |-> CASE h = "Kiwi.com" -> "kiwi.com"
                                       [] h = "Burner.org" -> "burner.org"
                                       [] OTHER -> h]
MCHosts == {"Kiwi.com", "kiwi.com", "Burner.org", ""}

\* An hour and a bit, so that the full hour is passed in both directions.
MCInboxLife == Hour + 5 * Minute
MCStarts == {0, 400, 10 * Second}
MCPauses == {20 * Second}
MCOverdue == 40 * Second
=============================================================================

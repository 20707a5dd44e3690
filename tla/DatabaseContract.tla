-------------------------- MODULE DatabaseContract --------------------------
(***************************************************************************)
(* What every burner.Database promises the program (burner/db.go, and the  *)
(* test suite all implementations share, data/testsuite.go), without       *)
(* saying how it keeps its data:                                           *)
(*                                                                         *)
(*   - a save stores the inbox as it is asked to, over whatever lies under *)
(*     its id, or returns an error and may have stored it all the same;    *)
(*   - an update of a stored inbox touches its route id and failed mark,   *)
(*     and nothing else;                                                   *)
(*   - an update of an inbox that is not there does nothing, or stores the *)
(*     inbox whole, or leaves a fragment of it, without address and        *)
(*     without a TTL, that never goes: the implementations differ, and the *)
(*     shared tests do not say;                                            *)
(*   - nothing else goes before its inbox's TTL, be it inbox or message.   *)
(*                                                                         *)
(* The program saves an inbox once and reports its registration once, in   *)
(* either order.                                                           *)
(***************************************************************************)
EXTENDS Models

CONSTANT Durable   \* a Boolean: the data outlives the process

VARIABLES
    asked,     \* the inbox the program draws up under an id, Nil before
    saved,     \* the ids whose save was called, or died with its process
    settled,   \* the ids whose update was called, or died with its process
    boxes,     \* the stored inboxes: id -> row, Nil where there is none
    mail,      \* the stored messages
    now

vars == <<asked, saved, settled, boxes, mail, now>>

Present(id) == boxes[id] # Nil
Asked == {id \in InboxIDs : asked[id] # Nil}

Init == /\ asked = [id \in InboxIDs |-> Nil]
        /\ saved = {}
        /\ settled = {}
        /\ boxes = [id \in InboxIDs |-> Nil]
        /\ mail = {}
        /\ now \in Nat

Ask(id) ==
    /\ id \notin Asked
    /\ asked'[id] \in Inbox
    /\ asked'[id].Address # Nil
    /\ asked'[id].TTL # 0
    /\ asked' = [asked EXCEPT ![id] = asked'[id]]
    /\ UNCHANGED <<saved, settled, boxes, mail, now>>

\* One row is written, or none.
Write(id, row) == boxes' = [boxes EXCEPT ![id] = row]

Save(id) ==
    /\ id \in Asked \ saved
    /\ saved' = saved \cup {id}
    /\ \/ UNCHANGED boxes
       \/ \E a \in Addresses :
             /\ SameAddress(a, asked[id].Address)
             /\ Write(id, [asked[id] EXCEPT !.Address = a])
    /\ UNCHANGED <<asked, settled, mail, now>>

\* What an update starts from.
Bases(id) == IF Present(id) THEN {boxes[id]} ELSE {asked[id], ZeroInbox}

Created(row) == [row EXCEPT !.EmailProviderRouteID = "route", !.FailedToCreate = FALSE]
Failed(row)  == [row EXCEPT !.FailedToCreate = TRUE]

Update(id) ==
    /\ id \in Asked \ settled
    /\ settled' = settled \cup {id}
    /\ \/ UNCHANGED boxes
       \/ \E row \in Bases(id) : Write(id, Created(row)) \/ Write(id, Failed(row))
    /\ UNCHANGED <<asked, saved, mail, now>>

Deliver ==
    /\ \E m \in mail' : m \in Message /\ m.InboxID \in Asked /\ mail' = mail \cup {m}
    /\ UNCHANGED <<asked, saved, settled, boxes, now>>

DueBoxes == {id \in InboxIDs : Present(id) /\ boxes[id].TTL # 0 /\ boxes[id].TTL <= now}
DueMail  == {m \in mail : asked[m.InboxID].TTL <= now}

Delete(ids, ms) ==
    /\ boxes' = [id \in InboxIDs |-> IF id \in ids THEN Nil ELSE boxes[id]]
    /\ mail' = mail \ ms
    /\ UNCHANGED <<asked, saved, settled, now>>

\* The process dies, and with it the calls it had still to make and, where it
\* kept them to itself, the data.
Crash ==
    /\ saved' = saved \cup Asked
    /\ settled' = settled \cup Asked
    /\ IF Durable THEN UNCHANGED <<boxes, mail>>
       ELSE boxes' = [id \in InboxIDs |-> Nil] /\ mail' = {}
    /\ UNCHANGED <<asked, now>>

Tick == now' = now + 1 /\ UNCHANGED <<asked, saved, settled, boxes, mail>>

Next ==
    \/ \E id \in InboxIDs : Ask(id) \/ Save(id) \/ Update(id)
    \/ Deliver
    \/ \E ids \in SUBSET DueBoxes, ms \in SUBSET DueMail : Delete(ids, ms)
    \/ Crash
    \/ Tick

Spec == Init /\ [][Next]_vars
=============================================================================

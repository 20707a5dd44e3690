--------------------------- MODULE InboxLifecycle ---------------------------
(***************************************************************************)
(* What creating an inbox promises, whoever asks for it and however its    *)
(* request, the registration with the email provider, the clean-up and the *)
(* restarts of the process interleave.  An inbox goes through              *)
(*                                                                         *)
(*          none -> pending -> ready  -> gone                              *)
(*                          -> failed -> gone                              *)
(*                                                                         *)
(* and never back: once ready it does not turn out to have failed, once    *)
(* failed it does not turn out well, and it never goes before its time.    *)
(* A registration whose result is lost leaves its inbox pending until it   *)
(* is gone.                                                                *)
(***************************************************************************)
EXTENDS Naturals

CONSTANTS
    InboxIDs,
    Life,      \* how long an inbox is kept
    Durable    \* inboxes outlive the process

VARIABLES
    status,    \* id -> where in its life the inbox is
    expiry,    \* id -> the last second of its life, once it has one
    now

vars == <<status, expiry, now>>

Live == {"pending", "ready", "failed"}

TypeOK ==
    /\ status \in [InboxIDs -> Live \cup {"none", "gone"}]
    /\ expiry \in [InboxIDs -> Nat]
    /\ now \in Nat

Init ==
    /\ status = [id \in InboxIDs |-> "none"]
    /\ expiry = [id \in InboxIDs |-> 0]
    /\ now = 0

\* The inbox's life is counted from the request, not from the write.
Promise(id) ==
    /\ status[id] = "none"
    /\ expiry[id] = 0
    /\ expiry' = [expiry EXCEPT ![id] = now + Life]
    /\ UNCHANGED <<status, now>>

Create(id) ==
    /\ status[id] = "none"
    /\ now < expiry[id]
    /\ status' = [status EXCEPT ![id] = "pending"]
    /\ UNCHANGED <<expiry, now>>

Settle(id) ==
    /\ status[id] = "pending"
    /\ \E s \in {"ready", "failed"} : status' = [status EXCEPT ![id] = s]
    /\ UNCHANGED <<expiry, now>>

Expire(ids) ==
    /\ \A id \in ids : status[id] \in Live /\ expiry[id] <= now
    /\ status' = [id \in InboxIDs |-> IF id \in ids THEN "gone" ELSE status[id]]
    /\ UNCHANGED <<expiry, now>>

\* What a process that keeps its inboxes to itself loses when it dies.
Lose ==
    /\ ~Durable
    /\ status' = [id \in InboxIDs |->
                     IF status[id] \in Live THEN "gone" ELSE status[id]]
    /\ UNCHANGED <<expiry, now>>

Tick == now' = now + 1 /\ UNCHANGED <<status, expiry>>

Next ==
    \/ \E id \in InboxIDs : Promise(id) \/ Create(id) \/ Settle(id)
    \/ \E ids \in SUBSET InboxIDs : Expire(ids)
    \/ Lose
    \/ Tick

Spec == Init /\ [][Next]_vars

-----------------------------------------------------------------------------

\* No inbox goes before its time, unless with the process that kept it.
GoneWasDue ==
    Durable => \A id \in InboxIDs : status[id] = "gone" => expiry[id] <= now

\* Once an inbox is there its time is fixed; what becomes of its registration
\* is said once; what is gone stays gone, even an inbox of the same id.
OnlyForwards ==
    [][ \A id \in InboxIDs :
          /\ status[id] # "none" => status'[id] # "none" /\ expiry'[id] = expiry[id]
          /\ status[id] \in {"ready", "failed"} => status'[id] \in {status[id], "gone"}
          /\ status[id] = "gone" => status'[id] = "gone" ]_vars
=============================================================================

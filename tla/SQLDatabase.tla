---------------------------- MODULE SQLDatabase ----------------------------
(***************************************************************************)
(* data/sqldb: one table of inboxes and one of messages in PostgreSQL or   *)
(* SQLite.  Each operation is one statement, so one step.  The schema, not *)
(* the program, keeps addresses unique; whether it also ties messages to   *)
(* their inbox depends on the engine: PostgreSQL enforces the foreign key  *)
(* and its cascade, SQLite accepts the clause and ignores it unless a      *)
(* pragma the program never issues switches it on.                         *)
(***************************************************************************)
EXTENDS Models

CONSTANTS
    ForeignKeys,   \* the engine enforces "references inbox(id) on delete cascade"
    Unreliable     \* a statement may return an error of the connection

VARIABLES
    inboxes,   \* table inbox: id -> row, Nil where there is none
    messages,  \* table message: the rows of each inbox_id
    sweeping,  \* the clean-up goroutine is still in its loop
    now

tables == <<inboxes, messages>>

\* database/sql over a network: an error may come back for a statement that
\* ran as well as for one that did not.
Exec(rows, mail, ok) ==
    \/ /\ ok
       /\ inboxes' = rows
       /\ messages' = mail
    \/ /\ ~ok
       /\ Unreliable
       /\ \/ UNCHANGED tables
          \/ inboxes' = rows /\ messages' = mail

\* A statement a constraint rejects changes nothing.
Reject(ok) == ~ok /\ UNCHANGED tables

\* Mutant: the address column is not unique.
InsertableTwice(id, i) == inboxes[id] = Nil

Insertable(id, i) ==
    /\ inboxes[id] = Nil
    /\ \A k \in InboxIDs : inboxes[k] # Nil => inboxes[k].Address # Lower[i.Address]

SaveNewInbox(id, i, ok) ==
    \/ /\ Insertable(id, i)
       /\ Exec([inboxes EXCEPT ![id] = [i EXCEPT !.Address = Lower[@]]], messages, ok)
    \/ ~Insertable(id, i) /\ Reject(ok)

EmailAddressExists(a) ==
    \E id \in InboxIDs : inboxes[id] # Nil /\ SameAddress(inboxes[id].Address, a)

\* Mutant: the rows are matched on a part of the address.
GetInboxLikeAddress(a) == {id \in InboxIDs : inboxes[id] # Nil}

\* The first row of a query that asks for no order.
GetInboxByAddress(a) ==
    {id \in InboxIDs : inboxes[id] # Nil /\ SameAddress(inboxes[id].Address, a)}

\* Mutant: the row is deleted and inserted anew, and the cascade takes its mail.
SetInboxCreatedAnew(id, i, ok) ==
    Exec([inboxes EXCEPT ![id] = IF @ = Nil THEN Nil ELSE [i EXCEPT !.FailedToCreate = FALSE]],
         [messages EXCEPT ![id] = IF ForeignKeys THEN {} ELSE @], ok)

\* An UPDATE of a row that is not there succeeds and does nothing.
SetInboxCreated(id, i, ok) ==
    Exec([inboxes EXCEPT ![id] =
             IF @ = Nil THEN Nil
             ELSE [@ EXCEPT !.FailedToCreate = FALSE,
                            !.EmailProviderRouteID = i.EmailProviderRouteID]],
         messages, ok)

\* Mutant: the statement has lost its where clause.
SetInboxFailedEverywhere(id, i, ok) ==
    Exec([k \in InboxIDs |->
             IF inboxes[k] = Nil THEN Nil ELSE [inboxes[k] EXCEPT !.FailedToCreate = TRUE]],
         messages, ok)

SetInboxFailed(id, i, ok) ==
    Exec([inboxes EXCEPT ![id] =
             IF @ = Nil THEN Nil ELSE [@ EXCEPT !.FailedToCreate = TRUE]],
         messages, ok)

\* Mutant: the message table has lost its reference to the inbox table.
SaveNewMessageFree(m, ok) ==
    Exec(inboxes, [messages EXCEPT ![m.InboxID] = @ \cup {m}], ok)

SaveNewMessage(m, ok) ==
    LET insertable ==
            /\ ForeignKeys => inboxes[m.InboxID] # Nil
            /\ \A id \in InboxIDs : \A x \in messages[id] : x.ID # m.ID
    IN \/ /\ insertable
          /\ Exec(inboxes, [messages EXCEPT ![m.InboxID] = @ \cup {m}], ok)
       \/ ~insertable /\ Reject(ok)

\* Only inboxes are deleted by TTL; their messages go with them by cascade.
RunTTLDelete(ok) ==
    LET due == {id \in InboxIDs : inboxes[id] # Nil /\ inboxes[id].TTL < now}
    IN Exec([id \in InboxIDs |-> IF id \in due THEN Nil ELSE inboxes[id]],
            [id \in InboxIDs |-> IF ForeignKeys /\ id \in due THEN {} ELSE messages[id]],
            ok)

\* The loop of Start's goroutine: the first error ends it for good.
Sweep == /\ sweeping
         /\ \E ok \in BOOLEAN : RunTTLDelete(ok) /\ sweeping' = ok

\* Mutant: the tables are dropped before they are created.
StartAfresh ==
    /\ sweeping' = TRUE
    /\ inboxes' = [id \in InboxIDs |-> Nil]
    /\ messages' = [id \in InboxIDs |-> {}]

\* "create table if not exists" keeps what an earlier process stored.
Start == sweeping' = TRUE /\ UNCHANGED tables
=============================================================================

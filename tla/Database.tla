------------------------------ MODULE Database ------------------------------
(***************************************************************************)
(* The burner.Database interface (burner/db.go) as the rest of the program *)
(* sees it: one of the three implementations, chosen when the program      *)
(* starts (config.go), plus what happens to the data behind its back.      *)
(***************************************************************************)
EXTENDS Models

CONSTANTS
    Backend,       \* "memory", "sql" (PostgreSQL and SQLite) or "dynamo"
    ForeignKeys,   \* see SQLDatabase
    Unreliable     \* calls to a database over a network may fail

ASSUME DatabaseAssumption ==
    /\ Backend \in {"memory", "sql", "dynamo"}
    /\ ForeignKeys \in BOOLEAN
    /\ Unreliable \in BOOLEAN

VARIABLES inboxes, messages, index, sweeping, now

data   == <<inboxes, messages>>
dbVars == <<inboxes, messages, index, sweeping>>

Memory == INSTANCE InMemory
SQL    == INSTANCE SQLDatabase
Dynamo == INSTANCE DynamoDB

DBTypeOK ==
    /\ inboxes \in [InboxIDs -> Inbox \cup {Nil}]
    /\ messages \in [InboxIDs -> SUBSET Message]
    /\ index \in [InboxIDs -> Addresses \cup {Nil}]
    /\ sweeping \in BOOLEAN

\* An empty store, its clean-up running.
DBInit ==
    /\ inboxes = [id \in InboxIDs |-> Nil]
    /\ messages = [id \in InboxIDs |-> {}]
    /\ index = [id \in InboxIDs |-> Nil]
    /\ sweeping = TRUE

Durable == Backend # "memory"

\* Only a database the program talks to over a network can fail to answer.
CallMayFail == Unreliable /\ Durable

Stored(id) == inboxes[id] # Nil

-----------------------------------------------------------------------------
(* The calls that write.  ok = FALSE is a returned error.                  *)

SaveNewInbox(id, i, ok) ==
    /\ \/ Backend = "memory" /\ Memory!SaveNewInbox(id, i, ok)
       \/ Backend = "sql"    /\ SQL!SaveNewInbox(id, i, ok)
       \/ Backend = "dynamo" /\ Dynamo!SaveNewInbox(id, i, ok)
    /\ UNCHANGED <<index, sweeping>>

SetInboxCreated(id, i, ok) ==
    /\ \/ Backend = "memory" /\ Memory!SetInboxCreated(id, i, ok)
       \/ Backend = "sql"    /\ SQL!SetInboxCreated(id, i, ok)
       \/ Backend = "dynamo" /\ Dynamo!SetInboxCreated(id, i, ok)
    /\ UNCHANGED <<index, sweeping>>

SetInboxFailed(id, i, ok) ==
    /\ \/ Backend = "memory" /\ Memory!SetInboxFailed(id, i, ok)
       \/ Backend = "sql"    /\ SQL!SetInboxFailed(id, i, ok)
       \/ Backend = "dynamo" /\ Dynamo!SetInboxFailed(id, i, ok)
    /\ UNCHANGED <<index, sweeping>>

SaveNewMessage(m, ok) ==
    /\ \/ Backend = "memory" /\ Memory!SaveNewMessage(m, ok)
       \/ Backend = "sql"    /\ SQL!SaveNewMessage(m, ok)
       \/ Backend = "dynamo" /\ Dynamo!SaveNewMessage(m, ok)
    /\ UNCHANGED <<index, sweeping>>

-----------------------------------------------------------------------------
(* The calls that read, when they answer.                                  *)

EmailAddressExists(a) ==
    \/ Backend = "memory" /\ Memory!EmailAddressExists(a)
    \/ Backend = "sql"    /\ SQL!EmailAddressExists(a)
    \/ Backend = "dynamo" /\ Dynamo!EmailAddressExists(a)

\* The ids GetInboxByAddress can find; it returns an error if there is none.
\* DynamoDB may find one whose item has gone since, and then returns the empty
\* inbox without an error.
GetInboxByAddress(a) ==
    CASE Backend = "memory" -> Memory!GetInboxByAddress(a)
      [] Backend = "sql"    -> SQL!GetInboxByAddress(a)
      [] Backend = "dynamo" -> Dynamo!GetInboxByAddress(a)

\* GetInboxByID of an id that is not stored: an error, or DynamoDB's empty
\* inbox without one.
GetInboxByIDFails(id) == ~Stored(id) /\ Backend # "dynamo"
GetInboxByID(id) == IF Stored(id) THEN inboxes[id] ELSE ZeroInbox

\* What GetMessagesByInboxID can return, over all ids.
Mail == UNION {messages[id] : id \in InboxIDs}

-----------------------------------------------------------------------------
(* What no caller asks for.                                                *)

DeleteExpired ==
    \/ Backend = "memory" /\ Memory!DeleteExpiredData /\ UNCHANGED <<index, sweeping>>
    \/ Backend = "sql"    /\ SQL!Sweep /\ UNCHANGED index
    \/ /\ Backend = "dynamo"
       /\ \E id \in InboxIDs : Dynamo!TTLDelete(id)
       /\ UNCHANGED <<index, sweeping>>

PropagateIndex ==
    /\ Backend = "dynamo"
    /\ \E id \in InboxIDs : Dynamo!Propagate(id)
    /\ UNCHANGED <<inboxes, messages, sweeping>>

\* The process dies and is started again.
RestartDB ==
    \/ Backend = "memory" /\ Memory!Start /\ UNCHANGED <<index, sweeping>>
    \/ Backend = "sql"    /\ SQL!Start /\ UNCHANGED index
    \/ Backend = "dynamo" /\ UNCHANGED dbVars
=============================================================================

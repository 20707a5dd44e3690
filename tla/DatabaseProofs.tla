--------------------------- MODULE DatabaseProofs ---------------------------
(***************************************************************************)
(* Lemmas about the calls of Database that hold for all three              *)
(* implementations: each keeps the types, and each does to the rows no     *)
(* more than the lemma says.  The proofs about the modules built on        *)
(* Database cite these and, where the implementations differ, split on     *)
(* Backend.                                                                *)
(***************************************************************************)
EXTENDS Database, TLAPS

LEMMA NewInboxType == NewInbox \in Inbox /\ ZeroInbox \in Inbox
  BY DEF NewInbox, ZeroInbox, Inbox, RouteIDs

-----------------------------------------------------------------------------
(* Types.                                                                  *)

LEMMA DBInitType == DBInit => DBTypeOK
  BY DEF DBInit, DBTypeOK

LEMMA SaveNewInboxType ==
    ASSUME DBTypeOK,
           NEW id \in InboxIDs, NEW i \in Inbox, i.Address \in Addresses,
           NEW ok \in BOOLEAN,
           SaveNewInbox(id, i, ok)
    PROVE  DBTypeOK'
<1>1. [i EXCEPT !.Address = Lower[@]] \in Inbox
  BY LowerAssumption DEF Inbox
<1>2. inboxes' \in [InboxIDs -> Inbox \cup {Nil}]
  <2>1. CASE Backend = "memory" /\ Memory!SaveNewInbox(id, i, ok)
    BY <2>1 DEF Memory!SaveNewInbox, DBTypeOK
  <2>2. CASE Backend = "sql" /\ SQL!SaveNewInbox(id, i, ok)
    BY <1>1, <2>2 DEF SQL!SaveNewInbox, SQL!Exec, SQL!Reject, SQL!tables, DBTypeOK
  <2>3. CASE Backend = "dynamo" /\ Dynamo!SaveNewInbox(id, i, ok)
    BY <2>3 DEF Dynamo!SaveNewInbox, Dynamo!Call, Dynamo!items, DBTypeOK
  <2> QED BY <2>1, <2>2, <2>3 DEF SaveNewInbox
<1>3. messages' \in [InboxIDs -> SUBSET Message]
  BY DEF SaveNewInbox, Memory!SaveNewInbox, SQL!SaveNewInbox, SQL!Exec, SQL!Reject,
         SQL!tables, Dynamo!SaveNewInbox, Dynamo!Call, Dynamo!items, DBTypeOK
<1> QED BY <1>2, <1>3 DEF SaveNewInbox, DBTypeOK

LEMMA SetInboxCreatedType ==
    ASSUME DBTypeOK,
           NEW id \in InboxIDs, NEW i \in Inbox, NEW ok \in BOOLEAN,
           SetInboxCreated(id, i, ok)
    PROVE  DBTypeOK'
<1>1. ZeroInbox \in Inbox
  BY NewInboxType
<1>2. \A row \in Inbox : [row EXCEPT !.FailedToCreate = FALSE,
                                     !.EmailProviderRouteID = i.EmailProviderRouteID] \in Inbox
  BY DEF Inbox
<1>3. inboxes' \in [InboxIDs -> Inbox \cup {Nil}]
  <2>1. CASE Backend = "memory" /\ Memory!SetInboxCreated(id, i, ok)
    BY <2>1 DEF Memory!SetInboxCreated, DBTypeOK, Inbox
  <2>2. CASE Backend = "sql" /\ SQL!SetInboxCreated(id, i, ok)
    <3>1. inboxes[id] # Nil =>
             [inboxes[id] EXCEPT !.FailedToCreate = FALSE,
                                 !.EmailProviderRouteID = i.EmailProviderRouteID] \in Inbox
      BY <1>2 DEF DBTypeOK
    <3> QED BY <2>2, <3>1 DEF SQL!SetInboxCreated, SQL!Exec, SQL!tables, DBTypeOK
  <2>3. CASE Backend = "dynamo" /\ Dynamo!SetInboxCreated(id, i, ok)
    <3>1. Dynamo!Upserted(id) \in Inbox
      BY <1>1 DEF Dynamo!Upserted, Dynamo!ZeroInbox, ZeroInbox, DBTypeOK
    <3> QED BY <1>2, <2>3, <3>1 DEF Dynamo!SetInboxCreated, Dynamo!Call, Dynamo!items, DBTypeOK
  <2> QED BY <2>1, <2>2, <2>3 DEF SetInboxCreated
<1>4. messages' \in [InboxIDs -> SUBSET Message]
  BY DEF SetInboxCreated, Memory!SetInboxCreated, SQL!SetInboxCreated, SQL!Exec,
         SQL!tables, Dynamo!SetInboxCreated, Dynamo!Call, Dynamo!items, DBTypeOK
<1> QED BY <1>3, <1>4 DEF SetInboxCreated, DBTypeOK

LEMMA SetInboxFailedType ==
    ASSUME DBTypeOK,
           NEW id \in InboxIDs, NEW i \in Inbox, NEW ok \in BOOLEAN,
           SetInboxFailed(id, i, ok)
    PROVE  DBTypeOK'
<1>1. ZeroInbox \in Inbox
  BY NewInboxType
<1>2. \A row \in Inbox : [row EXCEPT !.FailedToCreate = TRUE] \in Inbox
  BY DEF Inbox
<1>3. inboxes' \in [InboxIDs -> Inbox \cup {Nil}]
  <2>1. CASE Backend = "memory" /\ Memory!SetInboxFailed(id, i, ok)
    BY <1>2, <2>1 DEF Memory!SetInboxFailed, DBTypeOK
  <2>2. CASE Backend = "sql" /\ SQL!SetInboxFailed(id, i, ok)
    BY <1>2, <2>2 DEF SQL!SetInboxFailed, SQL!Exec, SQL!tables, DBTypeOK
  <2>3. CASE Backend = "dynamo" /\ Dynamo!SetInboxFailed(id, i, ok)
    <3>1. Dynamo!Upserted(id) \in Inbox
      BY <1>1 DEF Dynamo!Upserted, Dynamo!ZeroInbox, ZeroInbox, DBTypeOK
    <3> QED BY <1>2, <2>3, <3>1 DEF Dynamo!SetInboxFailed, Dynamo!Call, Dynamo!items, DBTypeOK
  <2> QED BY <2>1, <2>2, <2>3 DEF SetInboxFailed
<1>4. messages' \in [InboxIDs -> SUBSET Message]
  BY DEF SetInboxFailed, Memory!SetInboxFailed, SQL!SetInboxFailed, SQL!Exec,
         SQL!tables, Dynamo!SetInboxFailed, Dynamo!Call, Dynamo!items, DBTypeOK
<1> QED BY <1>3, <1>4 DEF SetInboxFailed, DBTypeOK

LEMMA SaveNewMessageType ==
    ASSUME DBTypeOK,
           NEW m \in Message, NEW ok \in BOOLEAN,
           SaveNewMessage(m, ok)
    PROVE  DBTypeOK'
<1>1. m.InboxID \in InboxIDs
  BY DEF Message
<1>2. inboxes' = inboxes
  BY DEF SaveNewMessage, Memory!SaveNewMessage, SQL!SaveNewMessage, SQL!Exec, SQL!Reject,
         SQL!tables, Dynamo!SaveNewMessage, Dynamo!Call, Dynamo!items
<1>3. messages' \in [InboxIDs -> SUBSET Message]
  <2>1. CASE Backend = "memory" /\ Memory!SaveNewMessage(m, ok)
    BY <1>1, <2>1 DEF Memory!SaveNewMessage, DBTypeOK
  <2>2. CASE Backend = "sql" /\ SQL!SaveNewMessage(m, ok)
    BY <1>1, <2>2 DEF SQL!SaveNewMessage, SQL!Exec, SQL!Reject, SQL!tables, DBTypeOK
  <2>3. CASE Backend = "dynamo" /\ Dynamo!SaveNewMessage(m, ok)
    BY <1>1, <2>3 DEF Dynamo!SaveNewMessage, Dynamo!Call, Dynamo!items, DBTypeOK
  <2> QED BY <2>1, <2>2, <2>3 DEF SaveNewMessage
<1> QED BY <1>2, <1>3 DEF SaveNewMessage, DBTypeOK

LEMMA DeleteExpiredType ==
    ASSUME DBTypeOK, DeleteExpired
    PROVE  DBTypeOK'
<1>1. CASE Backend = "memory" /\ Memory!DeleteExpiredData /\ UNCHANGED <<index, sweeping>>
  <2>1. inboxes' \in [InboxIDs -> Inbox \cup {Nil}]
    BY <1>1 DEF Memory!DeleteExpiredData, DBTypeOK
  <2>2. messages' \in [InboxIDs -> SUBSET Message]
    BY <1>1 DEF Memory!DeleteExpiredData, DBTypeOK
  <2> QED BY <1>1, <2>1, <2>2 DEF DBTypeOK
<1>2. CASE Backend = "sql" /\ SQL!Sweep /\ UNCHANGED index
  BY <1>2 DEF SQL!Sweep, SQL!RunTTLDelete, SQL!Exec, SQL!tables, DBTypeOK
<1>3. CASE /\ Backend = "dynamo"
           /\ \E id \in InboxIDs : Dynamo!TTLDelete(id)
           /\ UNCHANGED <<index, sweeping>>
  BY <1>3 DEF Dynamo!TTLDelete, DBTypeOK
<1> QED BY <1>1, <1>2, <1>3 DEF DeleteExpired

LEMMA PropagateIndexType ==
    ASSUME DBTypeOK, PropagateIndex
    PROVE  DBTypeOK'
<1>1. \A id \in InboxIDs : inboxes[id] # Nil => inboxes[id].Address \in Addresses \cup {Nil}
  BY DEF DBTypeOK, Inbox
<1> QED BY <1>1 DEF PropagateIndex, Dynamo!Propagate, DBTypeOK

LEMMA RestartDBType ==
    ASSUME DBTypeOK, RestartDB
    PROVE  DBTypeOK'
  BY DEF RestartDB, Memory!Start, SQL!Start, SQL!tables, dbVars, DBTypeOK

-----------------------------------------------------------------------------
(* Rows.                                                                   *)

\* What a save leaves under its id when it was carried out.
Holds(row, i) ==
    /\ row # Nil
    /\ row.TTL = i.TTL
    /\ row.EmailProviderRouteID = i.EmailProviderRouteID
    /\ row.FailedToCreate = i.FailedToCreate
    /\ row.Address \in Addresses
    /\ SameAddress(row.Address, i.Address)

\* A save writes the caller's inbox, or nothing and returns an error; it
\* touches no other row.
LEMMA SaveNewInboxRows ==
    ASSUME DBTypeOK,
           NEW id \in InboxIDs, NEW i \in Inbox, i.Address \in Addresses,
           NEW ok \in BOOLEAN,
           SaveNewInbox(id, i, ok)
    PROVE  /\ \A k \in InboxIDs : k # id => inboxes'[k] = inboxes[k]
           /\ Holds(inboxes'[id], i) \/ (~ok /\ inboxes' = inboxes)
           /\ Backend = "memory" => ok
<1>1. i # Nil /\ [i EXCEPT !.Address = Lower[@]] # Nil
  BY NilAssumption, LowerAssumption DEF Inbox
<1>2. Holds(i, i)
  BY <1>1 DEF Holds, SameAddress
<1>3. Holds([i EXCEPT !.Address = Lower[@]], i)
  BY <1>1, LowerAssumption DEF Holds, SameAddress, Inbox
<1>4. CASE Backend = "memory" /\ Memory!SaveNewInbox(id, i, ok)
  BY <1>2, <1>4 DEF Memory!SaveNewInbox, DBTypeOK
<1>5. CASE Backend = "sql" /\ SQL!SaveNewInbox(id, i, ok)
  BY <1>3, <1>5 DEF SQL!SaveNewInbox, SQL!Exec, SQL!Reject, SQL!tables, DBTypeOK
<1>6. CASE Backend = "dynamo" /\ Dynamo!SaveNewInbox(id, i, ok)
  BY <1>2, <1>6 DEF Dynamo!SaveNewInbox, Dynamo!Call, Dynamo!items, DBTypeOK
<1> QED BY <1>4, <1>5, <1>6 DEF SaveNewInbox

\* A sweep only takes rows whose TTL is reached, and of DynamoDB's items only
\* those that have one.
LEMMA DeleteExpiredRows ==
    ASSUME DBTypeOK, now \in Nat, DeleteExpired
    PROVE  \A k \in InboxIDs :
              \/ inboxes'[k] = inboxes[k]
              \/ /\ inboxes'[k] = Nil
                 /\ inboxes[k] # Nil
                 /\ inboxes[k].TTL <= now
                 /\ Backend = "dynamo" => inboxes[k].TTL # 0
<1>0. \A k \in InboxIDs : inboxes[k] # Nil => inboxes[k].TTL \in Nat
  BY DEF DBTypeOK, Inbox
<1>1. CASE Backend = "memory" /\ Memory!DeleteExpiredData
  BY <1>0, <1>1 DEF Memory!DeleteExpiredData, DBTypeOK
<1>2. CASE Backend = "sql" /\ SQL!Sweep
  BY <1>0, <1>2 DEF SQL!Sweep, SQL!RunTTLDelete, SQL!Exec, SQL!tables, DBTypeOK
<1>3. CASE Backend = "dynamo" /\ \E id \in InboxIDs : Dynamo!TTLDelete(id)
  BY <1>0, <1>3 DEF Dynamo!TTLDelete, Dynamo!Complete, DBTypeOK
<1> QED BY <1>1, <1>2, <1>3 DEF DeleteExpired

\* The row an update starts from: the caller's own copy, the row that is
\* there, or an item with nothing but its key.
Base(id, i) ==
    IF Backend = "memory" THEN i ELSE IF Stored(id) THEN inboxes[id] ELSE ZeroInbox

LEMMA SetInboxOthers ==
    ASSUME DBTypeOK,
           NEW id \in InboxIDs, NEW i \in Inbox, NEW ok \in BOOLEAN,
           SetInboxCreated(id, i, ok) \/ SetInboxFailed(id, i, ok)
    PROVE  \A k \in InboxIDs : k # id => inboxes'[k] = inboxes[k]
<1>1. CASE SetInboxCreated(id, i, ok)
  BY <1>1 DEF SetInboxCreated, Memory!SetInboxCreated, SQL!SetInboxCreated, SQL!Exec,
     SQL!tables, Dynamo!SetInboxCreated, Dynamo!Call, Dynamo!items, DBTypeOK
<1>2. CASE SetInboxFailed(id, i, ok)
  BY <1>2 DEF SetInboxFailed, Memory!SetInboxFailed, SQL!SetInboxFailed, SQL!Exec,
     SQL!tables, Dynamo!SetInboxFailed, Dynamo!Call, Dynamo!items, DBTypeOK
<1> QED BY <1>1, <1>2

LEMMA SetInboxCreatedRows ==
    ASSUME DBTypeOK,
           NEW id \in InboxIDs, NEW i \in Inbox, NEW ok \in BOOLEAN,
           SetInboxCreated(id, i, ok)
    PROVE  \/ inboxes' = inboxes /\ (ok => Backend = "sql" /\ ~Stored(id))
           \/ /\ inboxes'[id] = [Base(id, i) EXCEPT
                      !.FailedToCreate = FALSE,
                      !.EmailProviderRouteID = i.EmailProviderRouteID]
              /\ Backend = "sql" => Stored(id)
<1>1. i = [i EXCEPT !.EmailProviderRouteID = i.EmailProviderRouteID]
  BY DEF Inbox
<1>2. CASE Backend = "memory" /\ Memory!SetInboxCreated(id, i, ok)
  BY <1>1, <1>2 DEF Memory!SetInboxCreated, DBTypeOK, Base, Inbox
<1>3. CASE Backend = "sql" /\ SQL!SetInboxCreated(id, i, ok)
  BY <1>3 DEF SQL!SetInboxCreated, SQL!Exec, SQL!tables, DBTypeOK, Base, Stored
<1>4. CASE Backend = "dynamo" /\ Dynamo!SetInboxCreated(id, i, ok)
  BY <1>4 DEF Dynamo!SetInboxCreated, Dynamo!Call, Dynamo!items, Dynamo!Upserted,
              Dynamo!ZeroInbox, ZeroInbox, DBTypeOK, Base, Stored
<1> QED BY <1>2, <1>3, <1>4 DEF SetInboxCreated

LEMMA SetInboxFailedRows ==
    ASSUME DBTypeOK,
           NEW id \in InboxIDs, NEW i \in Inbox, NEW ok \in BOOLEAN,
           SetInboxFailed(id, i, ok)
    PROVE  \/ inboxes' = inboxes /\ (ok => Backend = "sql" /\ ~Stored(id))
           \/ /\ inboxes'[id] = [Base(id, i) EXCEPT !.FailedToCreate = TRUE]
              /\ Backend = "sql" => Stored(id)
<1>1. CASE Backend = "memory" /\ Memory!SetInboxFailed(id, i, ok)
  BY <1>1 DEF Memory!SetInboxFailed, DBTypeOK, Base
<1>2. CASE Backend = "sql" /\ SQL!SetInboxFailed(id, i, ok)
  BY <1>2 DEF SQL!SetInboxFailed, SQL!Exec, SQL!tables, DBTypeOK, Base, Stored
<1>3. CASE Backend = "dynamo" /\ Dynamo!SetInboxFailed(id, i, ok)
  BY <1>3 DEF Dynamo!SetInboxFailed, Dynamo!Call, Dynamo!items, Dynamo!Upserted,
              Dynamo!ZeroInbox, ZeroInbox, DBTypeOK, Base, Stored
<1> QED BY <1>1, <1>2, <1>3 DEF SetInboxFailed

\* A restart keeps all rows or, of a store that dies with the process, none.
LEMMA RestartDBRows ==
    ASSUME RestartDB
    PROVE  IF Durable THEN inboxes' = inboxes
                      ELSE inboxes' = [id \in InboxIDs |-> Nil]
  BY DatabaseAssumption DEF RestartDB, Durable, Memory!Start, SQL!Start, SQL!tables, dbVars

-----------------------------------------------------------------------------
(* Addresses in the SQL databases.                                         *)

\* SaveNewInbox stores addresses in lower case, which is what makes the
\* table's byte-wise unique constraint mean "no address twice".
UniqueRows ==
    /\ \A j \in InboxIDs : Stored(j) =>
          inboxes[j].Address \in Addresses /\ Lower[inboxes[j].Address] = inboxes[j].Address
    /\ \A j, k \in InboxIDs :
          Stored(j) /\ Stored(k) /\ inboxes[j].Address = inboxes[k].Address => j = k

\* Rows that are left out, or keep their address, stay unique.
LEMMA UniqueRowsKept ==
    ASSUME UniqueRows,
           \A j \in InboxIDs :
              inboxes'[j] # Nil => Stored(j) /\ inboxes'[j].Address = inboxes[j].Address
    PROVE  UniqueRows'
  BY DEF UniqueRows, Stored

LEMMA SaveNewInboxUnique ==
    ASSUME DBTypeOK, UniqueRows, Backend = "sql",
           NEW id \in InboxIDs, NEW i \in Inbox, i.Address \in Addresses,
           NEW ok \in BOOLEAN,
           SaveNewInbox(id, i, ok)
    PROVE  UniqueRows'
<1> DEFINE row == [i EXCEPT !.Address = Lower[@]]
<1>1. /\ row.Address = Lower[i.Address]
      /\ row.Address \in Addresses
      /\ Lower[row.Address] = row.Address
  BY LowerAssumption DEF Inbox
<1>2. \/ inboxes' = inboxes
      \/ SQL!Insertable(id, i) /\ inboxes' = [inboxes EXCEPT ![id] = row]
  BY DEF SaveNewInbox, SQL!SaveNewInbox, SQL!Exec, SQL!Reject, SQL!tables
<1>3. CASE inboxes' = inboxes
  BY <1>3, UniqueRowsKept DEF Stored
<1>4. CASE SQL!Insertable(id, i) /\ inboxes' = [inboxes EXCEPT ![id] = row]
  <2>1. /\ inboxes'[id] = row
        /\ \A k \in InboxIDs : k # id => inboxes'[k] = inboxes[k]
        /\ \A k \in InboxIDs : k # id /\ Stored(k) => inboxes[k].Address # row.Address
    BY <1>1, <1>4 DEF DBTypeOK, SQL!Insertable, Stored
  <2> HIDE DEF row
  <2> QED BY <1>1, <2>1 DEF UniqueRows, Stored
<1> QED BY <1>2, <1>3, <1>4

LEMMA SetInboxUnique ==
    ASSUME DBTypeOK, UniqueRows, Backend = "sql",
           NEW id \in InboxIDs, NEW i \in Inbox, NEW ok \in BOOLEAN,
           SetInboxCreated(id, i, ok) \/ SetInboxFailed(id, i, ok)
    PROVE  UniqueRows'
<1>1. \A k \in InboxIDs : k # id => inboxes'[k] = inboxes[k]
  BY SetInboxOthers
<1>2. inboxes' # inboxes =>
         Stored(id) /\ inboxes'[id].Address = inboxes[id].Address
  <2>1. Stored(id) => inboxes[id] \in Inbox
    BY DEF DBTypeOK, Stored
  <2>2. CASE SetInboxCreated(id, i, ok)
    <3>1. \/ inboxes' = inboxes
          \/ /\ Stored(id)
             /\ inboxes'[id] = [inboxes[id] EXCEPT
                     !.FailedToCreate = FALSE,
                     !.EmailProviderRouteID = i.EmailProviderRouteID]
      BY <2>2 DEF SetInboxCreated, SQL!SetInboxCreated, SQL!Exec, SQL!tables,
                      DBTypeOK, Stored
    <3> QED BY <2>1, <3>1 DEF Inbox
  <2>3. CASE SetInboxFailed(id, i, ok)
    <3>1. \/ inboxes' = inboxes
          \/ /\ Stored(id)
             /\ inboxes'[id] = [inboxes[id] EXCEPT !.FailedToCreate = TRUE]
      BY <2>3 DEF SetInboxFailed, SQL!SetInboxFailed, SQL!Exec, SQL!tables, DBTypeOK, Stored
    <3> QED BY <2>1, <3>1 DEF Inbox
  <2> QED BY <2>2, <2>3
<1> QED BY <1>1, <1>2, UniqueRowsKept DEF Stored

-----------------------------------------------------------------------------
(* Mail.                                                                   *)

\* The databases that keep an inbox's mail with it, and delete it with it.
Tied == Backend = "dynamo" \/ (Backend = "sql" /\ ForeignKeys)

LEMMA SaveNewInboxMail ==
    ASSUME DBTypeOK,
           NEW id \in InboxIDs, NEW i \in Inbox, NEW ok \in BOOLEAN,
           SaveNewInbox(id, i, ok)
    PROVE  \A k \in InboxIDs : \/ messages'[k] = messages[k]
                               \/ Backend = "dynamo" /\ k = id /\ messages'[k] = {}
BY DEF SaveNewInbox, Memory!SaveNewInbox, SQL!SaveNewInbox, SQL!Exec, SQL!Reject,
       SQL!tables, Dynamo!SaveNewInbox, Dynamo!Call, Dynamo!items, DBTypeOK

LEMMA SetInboxMail ==
    ASSUME NEW id \in InboxIDs, NEW i \in Inbox, NEW ok \in BOOLEAN,
           SetInboxCreated(id, i, ok) \/ SetInboxFailed(id, i, ok)
    PROVE  messages' = messages
BY DEF SetInboxCreated, Memory!SetInboxCreated, SQL!SetInboxCreated, SQL!Exec, SQL!tables,
       Dynamo!SetInboxCreated, Dynamo!Call, Dynamo!items,
       SetInboxFailed, Memory!SetInboxFailed, SQL!SetInboxFailed, Dynamo!SetInboxFailed

\* A message is added to its inbox's, or nothing changes and an error is
\* returned; a message that carries its inbox's fate needs an inbox, and in
\* DynamoDB one that is no fragment.
LEMMA SaveNewMessageRows ==
    ASSUME DBTypeOK,
           NEW m \in Message, NEW ok \in BOOLEAN,
           \A x \in messages[m.InboxID] : x.ID = m.ID => x = m,
           SaveNewMessage(m, ok)
    PROVE  /\ inboxes' = inboxes
           /\ \/ messages' = messages /\ ~ok
              \/ /\ messages' = [messages EXCEPT ![m.InboxID] = @ \cup {m}]
                 /\ Tied => Stored(m.InboxID)
                 /\ Backend = "dynamo" => inboxes[m.InboxID].TTL # 0
<1>1. m.InboxID \in InboxIDs
  BY DEF Message
<1>2. {x \in messages[m.InboxID] : x.ID # m.ID} \cup {m} = messages[m.InboxID] \cup {m}
  OBVIOUS
<1>3. CASE Backend = "memory" /\ Memory!SaveNewMessage(m, ok)
  BY <1>1, <1>2, <1>3 DEF Memory!SaveNewMessage, DBTypeOK, Tied
<1>4. CASE Backend = "sql" /\ SQL!SaveNewMessage(m, ok)
  BY <1>1, <1>4 DEF SQL!SaveNewMessage, SQL!Exec, SQL!Reject, SQL!tables, DBTypeOK, Tied, Stored
<1>5. CASE Backend = "dynamo" /\ Dynamo!SaveNewMessage(m, ok)
  BY <1>1, <1>2, <1>5 DEF Dynamo!SaveNewMessage, Dynamo!Call, Dynamo!items, Dynamo!Complete,
                          DBTypeOK, Tied, Stored
<1> QED BY <1>3, <1>4, <1>5 DEF SaveNewMessage

\* A sweep takes messages whose own TTL is reached or, where they are tied to
\* their inbox, those of an inbox whose TTL is reached, and leaves none of it.
LEMMA DeleteExpiredMail ==
    ASSUME DBTypeOK, now \in Nat, DeleteExpired
    PROVE  \A k \in InboxIDs :
              /\ messages'[k] \subseteq messages[k]
              /\ \A m \in messages[k] \ messages'[k] :
                    IF Tied THEN Stored(k) /\ inboxes[k].TTL <= now ELSE m.TTL <= now
              /\ Tied /\ Stored(k) /\ ~Stored(k)' => messages'[k] = {}
<1>0. /\ \A k \in InboxIDs : inboxes[k] # Nil => inboxes[k].TTL \in Nat
      /\ \A k \in InboxIDs : \A m \in messages[k] : m.TTL \in Nat
  BY DEF DBTypeOK, Inbox, Message
<1>1. CASE Backend = "memory" /\ Memory!DeleteExpiredData
  BY <1>0, <1>1 DEF Memory!DeleteExpiredData, DBTypeOK, Tied
<1>2. CASE Backend = "sql" /\ SQL!Sweep
  BY <1>0, <1>2 DEF SQL!Sweep, SQL!RunTTLDelete, SQL!Exec, SQL!tables, DBTypeOK, Tied, Stored
<1>3. CASE Backend = "dynamo" /\ \E id \in InboxIDs : Dynamo!TTLDelete(id)
  BY <1>0, <1>3 DEF Dynamo!TTLDelete, Dynamo!Complete, DBTypeOK, Tied, Stored
<1> QED BY <1>1, <1>2, <1>3 DEF DeleteExpired

LEMMA RestartDBMail ==
    ASSUME RestartDB
    PROVE  IF Durable THEN messages' = messages
                      ELSE messages' = [id \in InboxIDs |-> {}]
  BY DatabaseAssumption DEF RestartDB, Durable, Memory!Start, SQL!Start, SQL!tables, dbVars
=============================================================================

------------------------------ MODULE DynamoDB ------------------------------
(***************************************************************************)
(* data/dynamodb: one item per inbox that also holds the inbox's messages. *)
(* UpdateItem on a key that is not there creates an item with just the     *)
(* attributes it sets, so an update can leave an item without an address,  *)
(* without a TTL and without a map of messages.  Addresses are looked up   *)
(* in a global secondary index, which follows the table with a delay.      *)
(* Expired items are deleted by the service, not by the program.           *)
(***************************************************************************)
EXTENDS Models

CONSTANT Unreliable    \* a request may return an error of the service

VARIABLES
    inboxes,   \* the items' own attributes, Nil where there is no item
    messages,  \* the items' map of messages
    index,     \* the address index's view of each item, Nil where it has none
    now

items == <<inboxes, messages>>

Call(boxes, mail, ok) ==
    \/ /\ ok
       /\ inboxes' = boxes
       /\ messages' = mail
    \/ /\ ~ok
       /\ Unreliable
       /\ \/ UNCHANGED items
          \/ inboxes' = boxes /\ messages' = mail

\* PutItem replaces the item, messages included.
SaveNewInbox(id, i, ok) ==
    Call([inboxes EXCEPT ![id] = i], [messages EXCEPT ![id] = {}], ok)

EmailAddressExists(a) == \E id \in InboxIDs : index[id] = a

\* The index's answer; the item is then read from the table by its id.
GetInboxByAddress(a) == {id \in InboxIDs : index[id] = a}

\* UpdateItem starts from an item with nothing but its key.
Upserted(id) == IF inboxes[id] = Nil THEN ZeroInbox ELSE inboxes[id]

\* Mutant: the update is done with PutItem, of a part of the inbox.
SetInboxFailedPut(id, i, ok) ==
    Call([inboxes EXCEPT ![id] = [ZeroInbox EXCEPT !.FailedToCreate = TRUE]],
         messages, ok)

SetInboxCreated(id, i, ok) ==
    Call([inboxes EXCEPT ![id] =
             [Upserted(id) EXCEPT !.FailedToCreate = FALSE,
                                  !.EmailProviderRouteID = i.EmailProviderRouteID]],
         messages, ok)

SetInboxFailed(id, i, ok) ==
    Call([inboxes EXCEPT ![id] = [Upserted(id) EXCEPT !.FailedToCreate = TRUE]],
         messages, ok)

\* PutItem sets every attribute, "ttl" and "messages" among them; an item an
\* update made has neither.
Complete(id) == inboxes[id] # Nil /\ inboxes[id].TTL # 0

\* Mutant: the message is set on whatever item there is, or on a new one.
SaveNewMessageUpserts(m, ok) ==
    Call(inboxes, [messages EXCEPT ![m.InboxID] = @ \cup {m}], ok)

\* Mutant: the map of messages is set, not an entry of it.
SaveNewMessageAlone(m, ok) ==
    \/ /\ Complete(m.InboxID)
       /\ Call(inboxes, [messages EXCEPT ![m.InboxID] = {m}], ok)
    \/ ~Complete(m.InboxID) /\ ~ok /\ UNCHANGED items

\* "SET messages.<id>" needs a messages attribute to set into.
SaveNewMessage(m, ok) ==
    \/ /\ Complete(m.InboxID)
       /\ Call(inboxes,
               [messages EXCEPT ![m.InboxID] = {x \in @ : x.ID # m.ID} \cup {m}], ok)
    \/ ~Complete(m.InboxID) /\ ~ok /\ UNCHANGED items

\* The service's TTL process looks at one item at a time, and only at items
\* that have a TTL attribute.
TTLDelete(id) ==
    /\ Complete(id)
    /\ inboxes[id].TTL < now
    /\ inboxes' = [inboxes EXCEPT ![id] = Nil]
    /\ messages' = [messages EXCEPT ![id] = {}]

\* The index catches up with one item.
Propagate(id) ==
    index' = [index EXCEPT ![id] = IF inboxes[id] = Nil THEN Nil
                                   ELSE inboxes[id].Address]
=============================================================================

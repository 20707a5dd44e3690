------------------------------ MODULE InMemory ------------------------------
(***************************************************************************)
(* data/inmemory: two Go maps behind one RWMutex, which makes every        *)
(* operation a single step.  No operation ever returns an error except the *)
(* lookups of something absent.  Writers replace the whole row, also when  *)
(* they were meant to update one: SetInboxCreated and SetInboxFailed store *)
(* the caller's copy, whether or not the map still, or already, holds it.  *)
(***************************************************************************)
EXTENDS Models

VARIABLES
    inboxes,   \* im.emails: id -> row, Nil where the map has no entry
    messages,  \* im.messages: id -> its messages; nothing the program does
               \* tells an id without a map of messages from one whose map is
               \* empty, so both are the empty set
    now        \* time.Now()

Start == /\ inboxes' = [id \in InboxIDs |-> Nil]
         /\ messages' = [id \in InboxIDs |-> {}]

\* Mutant: an insert that keeps addresses unique, as the SQL schema does.
SaveNewInboxUnique(id, i, ok) ==
    LET free == \A k \in InboxIDs : inboxes[k] = Nil \/ inboxes[k].Address # i.Address
    IN /\ ok = free
       /\ inboxes' = IF free THEN [inboxes EXCEPT ![id] = i] ELSE inboxes
       /\ UNCHANGED messages

SaveNewInbox(id, i, ok) ==
    /\ ok
    /\ inboxes' = [inboxes EXCEPT ![id] = i]
    /\ UNCHANGED messages

\* Byte-wise comparison: an address in another case is another address.
EmailAddressExists(a) ==
    \E id \in InboxIDs : inboxes[id] # Nil /\ inboxes[id].Address = a

\* The first match of a walk over the map, whose order is any.
GetInboxByAddress(a) == {id \in InboxIDs : inboxes[id] # Nil /\ inboxes[id].Address = a}

\* Mutant: an update that stores only the fields it is about.
SetInboxCreatedPartial(id, i, ok) ==
    /\ ok
    /\ inboxes' = [inboxes EXCEPT ![id] =
                      [ZeroInbox EXCEPT !.EmailProviderRouteID = i.EmailProviderRouteID]]
    /\ UNCHANGED messages

SetInboxCreated(id, i, ok) ==
    /\ ok
    /\ inboxes' = [inboxes EXCEPT ![id] = [i EXCEPT !.FailedToCreate = FALSE]]
    /\ UNCHANGED messages

SetInboxFailed(id, i, ok) ==
    /\ ok
    /\ inboxes' = [inboxes EXCEPT ![id] = [i EXCEPT !.FailedToCreate = TRUE]]
    /\ UNCHANGED messages

\* Mutant: the inbox's map of messages is always made anew.
SaveNewMessageAlone(m, ok) ==
    /\ ok
    /\ messages' = [messages EXCEPT ![m.InboxID] = {m}]
    /\ UNCHANGED inboxes

\* The map of an inbox's messages is keyed by message id and made on demand,
\* even for an inbox that is not there.
SaveNewMessage(m, ok) ==
    /\ ok
    /\ messages' = [messages EXCEPT ![m.InboxID] =
                       {x \in @ : x.ID # m.ID} \cup {m}]
    /\ UNCHANGED inboxes

\* Mutants of the sweep: expired entries go from the map's domain; it comes a
\* second early; it takes only what is due this very second; it deletes
\* messages with their inbox instead of by their own TTL.
DeleteExpiredDomain ==
    /\ inboxes' = [id \in {k \in InboxIDs : inboxes[k] = Nil \/ inboxes[k].TTL >= now} |->
                      inboxes[id]]
    /\ UNCHANGED messages

DeleteExpiredWhere(Due(_)) ==
    /\ inboxes' = [id \in InboxIDs |->
                      IF inboxes[id] # Nil /\ Due(inboxes[id].TTL) THEN Nil ELSE inboxes[id]]
    /\ messages' = [id \in InboxIDs |->
                       IF inboxes[id] # Nil /\ Due(inboxes[id].TTL) THEN {} ELSE messages[id]]

DeleteExpiredEarly   == LET Due(ttl) == ttl <= now + 1 IN DeleteExpiredWhere(Due)
DeleteExpiredMissing == LET Due(ttl) == ttl = now IN DeleteExpiredWhere(Due)
DeleteExpiredCascade == LET Due(ttl) == ttl < now IN DeleteExpiredWhere(Due)

(***************************************************************************)
(* The sweep compares each TTL, the start of a second, with a time.Now()   *)
(* of its own that also has nanoseconds.  A record whose TTL is the        *)
(* current second is therefore due or not depending on the instant its     *)
(* turn comes.  Turns come in time order, all inboxes before all messages: *)
(* once an inbox of this second was due, every message of it is.           *)
(***************************************************************************)
DeleteExpiredData ==
    LET boxesNow == {id \in InboxIDs : inboxes[id] # Nil /\ inboxes[id].TTL = now}
        mailNow  == {m \in UNION {messages[id] : id \in InboxIDs} : m.TTL = now}
    IN \E boxes \in SUBSET boxesNow, mail \in SUBSET mailNow :
        /\ boxes # {} => mail = mailNow
        /\ inboxes' = [id \in InboxIDs |->
              IF inboxes[id] # Nil /\ (inboxes[id].TTL < now \/ id \in boxes)
              THEN Nil ELSE inboxes[id]]
        /\ messages' = [id \in InboxIDs |->
              {m \in messages[id] : ~(m.TTL < now \/ m \in mail)}]
=============================================================================

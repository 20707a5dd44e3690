------------------------ MODULE DatabaseClientProofs ------------------------
(***************************************************************************)
(* What the three databases keep to under the program's load, for any      *)
(* number of inboxes and messages and any lifetime: the properties of      *)
(* DatabaseClient, and that each implements DatabaseContract.              *)
(*                                                                         *)
(* That accepted mail is kept rests on mail ending with its inbox or by    *)
(* itself at the same TTL, which CInv follows from the inbox as the        *)
(* program drew it up, over the row, to the message made from the row and  *)
(* to the message that is stored.  DynamoDB's rows may be fragments that   *)
(* an update made, of which nothing follows but that they take no mail.    *)
(***************************************************************************)
EXTENDS DatabaseClient, DatabaseProofs

\* An inbox as it is drawn up, before its registration is reported.
KnownInv(id) ==
    known[id] # Nil =>
        /\ known[id].Address \in Addresses
        /\ known[id].TTL # 0
        /\ known[id].EmailProviderRouteID = "-"
        /\ ~known[id].FailedToCreate

\* A row but for its marks: the inbox that was drawn up, or what an update of
\* an item that was not there leaves in DynamoDB.
AsDrawnUp(row, i) ==
    /\ row.TTL = i.TTL
    /\ row.Address \in Addresses
    /\ SameAddress(row.Address, i.Address)
IsFragment(row) == row.Address = Nil /\ row.TTL = 0

\* The in-memory store puts the program's copy in the place of a row; as long
\* as it may still do so, that changes nothing but the marks.
RowInv(id) ==
    Stored(id) =>
        /\ known[id] # Nil
        /\ \/ AsDrawnUp(inboxes[id], known[id])
           \/ Backend = "dynamo" /\ IsFragment(inboxes[id])
        /\ Backend = "memory" /\ id \notin settled => inboxes[id] = known[id]
        /\ Backend # "memory" /\ id \notin saved =>
              Backend = "dynamo" /\ IsFragment(inboxes[id])

\* A message carries the id of an inbox there was, and its TTL or a fragment's.
SentInv(mid) ==
    /\ sent[mid] # Nil =>
          /\ sent[mid].ID = mid
          /\ known[sent[mid].InboxID] # Nil
          /\ \/ sent[mid].TTL = known[sent[mid].InboxID].TTL
             \/ Backend = "dynamo"
    /\ outcome[mid] # "none" => sent[mid] # Nil

\* There is an inbox, and no fragment of one.
Housed(id) == Stored(id) /\ inboxes[id].Address # Nil

\* Stored messages are ones the program sent, under their own inbox.
MailInv(id) ==
    /\ \A m \in messages[id] : m.InboxID = id /\ sent[m.ID] = m
    /\ Tied /\ messages[id] # {} => Housed(id)

KeptInv(mid) ==
    outcome[mid] = "accepted" /\ now < known[sent[mid].InboxID].TTL =>
        sent[mid] \in messages[sent[mid].InboxID]

CInv ==
    /\ TypeOK
    /\ \A id \in InboxIDs : KnownInv(id) /\ RowInv(id) /\ MailInv(id)
    /\ \A mid \in MessageIDs : SentInv(mid) /\ KeptInv(mid)

-----------------------------------------------------------------------------
(* Types.                                                                  *)

LEMMA SentTypes ==
    ASSUME TypeOK
    PROVE  /\ \A mid \in MessageIDs : sent[mid] # Nil =>
                 /\ sent[mid] \in Message
                 /\ sent[mid].InboxID \in InboxIDs
                 /\ sent[mid].TTL \in Nat
           /\ \A id \in InboxIDs : known[id] # Nil =>
                 known[id] \in Inbox /\ known[id].TTL \in Nat
           /\ \A id \in InboxIDs : inboxes[id] # Nil =>
                 inboxes[id] \in Inbox /\ inboxes[id].TTL \in Nat
           /\ \A id \in InboxIDs : \A m \in messages[id] : m \in Message /\ m.ID \in MessageIDs
  BY DEF TypeOK, DBTypeOK, Message, Inbox

LEMMA Marked ==
    ASSUME NEW i \in Inbox
    PROVE  /\ [i EXCEPT !.FailedToCreate = TRUE] \in Inbox
           /\ [i EXCEPT !.EmailProviderRouteID = "route"] \in Inbox
  BY DEF Inbox, RouteIDs

LEMMA DrawnUp ==
    ASSUME TypeOK, NEW a \in Addresses
    PROVE  LET i == [NewInbox EXCEPT !.Address = a, !.TTL = now + Life]
           IN /\ i \in Inbox
              /\ i # Nil
              /\ i.Address = a
              /\ i.TTL # 0
              /\ i.EmailProviderRouteID = "-"
              /\ ~i.FailedToCreate
<1> DEFINE i == [NewInbox EXCEPT !.Address = a, !.TTL = now + Life]
<1>1. /\ NewInbox \in Inbox
      /\ NewInbox.EmailProviderRouteID = "-"
      /\ ~NewInbox.FailedToCreate
  BY NewInboxType DEF NewInbox, ZeroInbox
<1>2. now + Life \in Nat /\ now + Life # 0
  BY ClientAssumption DEF TypeOK
<1>3. /\ i \in Inbox
      /\ i.Address = a
      /\ i.TTL # 0
      /\ i.EmailProviderRouteID = "-"
      /\ ~i.FailedToCreate
  BY <1>1, <1>2 DEF Inbox
<1> QED BY <1>3, NilAssumption

LEMMA ClientTypeStep == CInv /\ [Next]_vars => TypeOK'
<1> SUFFICES ASSUME CInv, [Next]_vars PROVE TypeOK'
  OBVIOUS
<1>0. TypeOK /\ DBTypeOK
  BY DEF CInv, TypeOK
<1>1. ASSUME NEW id \in InboxIDs, NEW a \in Addresses, Launch(id, a)
      PROVE  TypeOK'
  BY <1>0, <1>1, DrawnUp DEF TypeOK, Launch, dbVars, DBTypeOK
<1>2. ASSUME NEW id \in InboxIDs, Save(id)
      PROVE  TypeOK'
  <2>1. known[id] \in Inbox /\ known[id].Address \in Addresses
    BY <1>0, <1>2, SentTypes DEF Save, CInv, KnownInv
  <2>2. DBTypeOK'
    BY <1>0, <1>2, <2>1, SaveNewInboxType DEF Save
  <2> QED BY <1>0, <1>2, <2>2 DEF TypeOK, Save
<1>3. ASSUME NEW id \in InboxIDs, NEW answer \in {"route", "error"}, Settle(id, answer)
      PROVE  TypeOK'
  <2>1. known[id] \in Inbox
    BY <1>0, <1>3, SentTypes DEF Settle
  <2>2. DBTypeOK'
    BY <1>0, <1>3, <2>1, Marked, SetInboxFailedType, SetInboxCreatedType DEF Settle
  <2> QED BY <1>0, <1>3, <2>2 DEF TypeOK, Settle
<1>4. ASSUME NEW mid \in MessageIDs, NEW id \in InboxIDs, LookUp(mid, id)
      PROVE  TypeOK'
  <2>1. [InboxID |-> id, ID |-> mid, TTL |-> inboxes[id].TTL] \in Message
    BY <1>0, <1>4, SentTypes DEF LookUp, Stored, Message
  <2> QED BY <1>0, <1>4, <2>1 DEF TypeOK, LookUp, dbVars, DBTypeOK
<1>5. ASSUME NEW mid \in MessageIDs, Deliver(mid)
      PROVE  TypeOK'
  <2>1. DBTypeOK'
    BY <1>0, <1>5, SentTypes, SaveNewMessageType DEF Deliver
  <2> QED BY <1>0, <1>5, <2>1 DEF TypeOK, Deliver
<1>6. CASE Upkeep
  BY <1>0, <1>6, DeleteExpiredType, PropagateIndexType DEF TypeOK, Upkeep, clientVars
<1>7. CASE Restart
  BY <1>0, <1>7, RestartDBType DEF TypeOK, Restart
<1>8. CASE Tick
  BY <1>0, <1>8 DEF TypeOK, Tick, clientVars, dbVars, DBTypeOK
<1>9. CASE UNCHANGED vars
  BY <1>0, <1>9 DEF TypeOK, vars, clientVars, dbVars, DBTypeOK
<1> QED BY <1>1, <1>2, <1>3, <1>4, <1>5, <1>6, <1>7, <1>8, <1>9 DEF Next

-----------------------------------------------------------------------------
(* The invariant.                                                          *)

LEMMA ClientInit == Init => CInv
<1> SUFFICES ASSUME Init PROVE CInv
  OBVIOUS
<1>1. TypeOK
  BY DBInitType DEF Init, TypeOK
<1> QED BY <1>1
    DEF Init, DBInit, CInv, KnownInv, RowInv, SentInv, MailInv, KeptInv, Stored

\* What a step that only touches rows has to show.
LEMMA RowsStep ==
    ASSUME CInv, TypeOK', UNCHANGED <<known, now, sent, outcome, messages>>,
           \A id \in InboxIDs : RowInv(id)' /\ (Housed(id) => Housed(id)')
    PROVE  CInv'
<1>1. \A id \in InboxIDs : KnownInv(id)' /\ MailInv(id)'
  BY DEF CInv, KnownInv, MailInv
<1>2. \A mid \in MessageIDs : SentInv(mid)' /\ KeptInv(mid)'
  BY DEF CInv, SentInv, KeptInv
<1> QED BY <1>1, <1>2 DEF CInv

LEMMA LaunchStep ==
    ASSUME CInv, NEW id \in InboxIDs, NEW a \in Addresses, Launch(id, a), TypeOK'
    PROVE  CInv'
<1> DEFINE i == [NewInbox EXCEPT !.Address = a, !.TTL = now + Life]
<1>0. TypeOK
  BY DEF CInv
<1>1. /\ i.Address = a
      /\ i.TTL # 0
      /\ i.EmailProviderRouteID = "-"
      /\ ~i.FailedToCreate
  BY <1>0, DrawnUp
<1> HIDE DEF i
<1>2. /\ known[id] = Nil
      /\ known'[id] = i
      /\ \A k \in InboxIDs : known[k] # Nil => known'[k] = known[k]
      /\ \A k \in InboxIDs : k # id => known'[k] = known[k]
      /\ UNCHANGED <<inboxes, messages, now, saved, settled, sent, outcome>>
  BY <1>0 DEF Launch, i, TypeOK, dbVars
<1>3. \A k \in InboxIDs : KnownInv(k)'
  BY <1>1, <1>2 DEF CInv, KnownInv
<1>4. \A k \in InboxIDs : RowInv(k)' /\ MailInv(k)'
  BY <1>2 DEF CInv, RowInv, MailInv, Housed, Stored
<1>5. ASSUME NEW mid \in MessageIDs
      PROVE  SentInv(mid)' /\ KeptInv(mid)'
  <2>1. sent[mid] # Nil => sent[mid].InboxID \in InboxIDs
    BY <1>0, SentTypes
  <2> QED BY <1>2, <2>1 DEF CInv, SentInv, KeptInv
<1> QED BY <1>3, <1>4, <1>5 DEF CInv

\* The inbox saved is in its row, or the row is what it was.
LEMMA SavedRow ==
    ASSUME CInv, NEW id \in InboxIDs, Save(id)
    PROVE  /\ UNCHANGED <<now, known, settled, sent, outcome, messages>>
           /\ saved' = saved \cup {id}
           /\ id \notin saved
           /\ known[id] # Nil
           /\ \A k \in InboxIDs : k # id => inboxes'[k] = inboxes[k]
           /\ \/ inboxes' = inboxes
              \/ /\ Holds(inboxes'[id], known[id])
                 /\ Backend = "memory" => inboxes'[id] = known[id]
<1>0. TypeOK /\ DBTypeOK
  BY DEF CInv, TypeOK
<1>1. /\ known[id] # Nil
      /\ id \notin saved
      /\ saved' = saved \cup {id}
      /\ UNCHANGED <<now, known, settled, sent, outcome>>
  BY DEF Save
<1>2. known[id] \in Inbox /\ known[id].Address \in Addresses
  BY <1>0, <1>1, SentTypes DEF CInv, KnownInv
<1>3. PICK ok \in BOOLEAN : SaveNewInbox(id, known[id], ok)
  BY DEF Save
<1>4. /\ \A k \in InboxIDs : k # id => inboxes'[k] = inboxes[k]
      /\ Holds(inboxes'[id], known[id]) \/ inboxes' = inboxes
  BY <1>0, <1>2, <1>3, SaveNewInboxRows
<1>5. Backend = "memory" => inboxes'[id] = known[id]
  BY <1>0, <1>3, DatabaseAssumption DEF SaveNewInbox, Memory!SaveNewInbox, DBTypeOK
<1>6. Backend = "dynamo" => messages[id] = {}
  BY <1>1 DEF CInv, MailInv, RowInv, IsFragment, Housed, Tied
<1>7. messages' = messages
  <2>1. \A k \in InboxIDs : messages'[k] = messages[k]
    BY <1>0, <1>2, <1>3, <1>6, SaveNewInboxMail
  <2>2. DBTypeOK'
    BY <1>0, <1>2, <1>3, SaveNewInboxType
  <2> QED BY <1>0, <2>1, <2>2 DEF DBTypeOK
<1> QED BY <1>1, <1>4, <1>5, <1>7

LEMMA SaveStep ==
    ASSUME CInv, NEW id \in InboxIDs, Save(id), TypeOK'
    PROVE  CInv'
<1>1. /\ UNCHANGED <<now, known, settled, sent, outcome, messages>>
      /\ saved' = saved \cup {id}
      /\ known[id] # Nil
      /\ \A k \in InboxIDs : k # id => inboxes'[k] = inboxes[k]
      /\ \/ inboxes' = inboxes
         \/ /\ Holds(inboxes'[id], known[id])
            /\ Backend = "memory" => inboxes'[id] = known[id]
  BY SavedRow
<1>2. ASSUME NEW k \in InboxIDs
      PROVE  RowInv(k)' /\ (Housed(k) => Housed(k)')
  <2>1. CASE inboxes' = inboxes
    BY <1>1, <2>1 DEF CInv, RowInv, Housed, Stored
  <2>2. CASE k # id
    BY <1>1, <2>2 DEF CInv, RowInv, Housed, Stored
  <2>3. CASE k = id /\ Holds(inboxes'[id], known[id]) /\ (Backend = "memory" => inboxes'[id] = known[id])
    <3>1. AsDrawnUp(inboxes'[id], known[id])
      BY <2>3 DEF Holds, AsDrawnUp
    <3>2. Housed(id)'
      BY <2>3, NilAssumption DEF Holds, Housed, Stored
    <3> QED BY <1>1, <2>3, <3>1, <3>2 DEF RowInv
  <2> QED BY <1>1, <2>1, <2>2, <2>3
<1> QED BY <1>1, <1>2, RowsStep

\* What a report of a registration starts from: the row that is there or,
\* where there is none, what the implementation puts in its place.
StartOf(id) ==
    IF Stored(id) THEN inboxes[id] ELSE IF Backend = "memory" THEN known[id] ELSE ZeroInbox

\* It changes the mark or the route id of that.
LEMMA SettledRow ==
    ASSUME CInv, NEW id \in InboxIDs, NEW answer \in {"route", "error"}, Settle(id, answer)
    PROVE  /\ UNCHANGED <<now, known, saved, sent, outcome, messages>>
           /\ settled' = settled \cup {id}
           /\ id \notin settled
           /\ known[id] # Nil
           /\ StartOf(id) \in Inbox
           /\ \A k \in InboxIDs : k # id => inboxes'[k] = inboxes[k]
           /\ \/ inboxes' = inboxes
              \/ /\ \/ inboxes'[id] = Contract!Created(StartOf(id))
                    \/ inboxes'[id] = Contract!Failed(StartOf(id))
                 /\ Backend = "sql" => Stored(id)
<1>0. TypeOK /\ DBTypeOK
  BY DEF CInv, TypeOK
<1>1. /\ known[id] # Nil
      /\ known[id] \in Inbox
      /\ id \notin settled
      /\ StartOf(id) \in Inbox
  BY <1>0, SentTypes, NewInboxType DEF Settle, Stored, StartOf
<1>2. Backend = "memory" => StartOf(id) = known[id]
  BY <1>1 DEF CInv, RowInv, StartOf
<1>3. CASE answer = "error"
  <2> DEFINE i == [known[id] EXCEPT !.FailedToCreate = TRUE]
  <2>1. i \in Inbox
    BY <1>1, Marked
  <2>2. [i EXCEPT !.FailedToCreate = TRUE] = [known[id] EXCEPT !.FailedToCreate = TRUE]
    BY <1>1 DEF Inbox
  <2>3. PICK ok \in BOOLEAN : SetInboxFailed(id, i, ok)
    BY <1>3 DEF Settle
  <2> HIDE DEF i
  <2>4. /\ \A k \in InboxIDs : k # id => inboxes'[k] = inboxes[k]
        /\ messages' = messages
    BY <1>0, <2>1, <2>3, SetInboxOthers, SetInboxMail
  <2>5. \/ inboxes' = inboxes
        \/ /\ inboxes'[id] = [Base(id, i) EXCEPT !.FailedToCreate = TRUE]
           /\ Backend = "sql" => Stored(id)
    BY <1>0, <2>1, <2>3, SetInboxFailedRows
  <2>6. [Base(id, i) EXCEPT !.FailedToCreate = TRUE] = Contract!Failed(StartOf(id))
    BY <1>2, <2>2 DEF Base, StartOf, Contract!Failed
  <2> QED BY <1>1, <2>4, <2>5, <2>6 DEF Settle
<1>4. CASE answer = "route"
  <2> DEFINE i == [known[id] EXCEPT !.EmailProviderRouteID = "route"]
  <2>1. i \in Inbox /\ i.EmailProviderRouteID = "route"
    BY <1>1, Marked DEF Inbox
  <2>2. [i EXCEPT !.FailedToCreate = FALSE, !.EmailProviderRouteID = "route"]
             = [known[id] EXCEPT !.FailedToCreate = FALSE, !.EmailProviderRouteID = "route"]
    BY <1>1 DEF Inbox
  <2>3. PICK ok \in BOOLEAN : SetInboxCreated(id, i, ok)
    BY <1>4 DEF Settle
  <2> HIDE DEF i
  <2>4. /\ \A k \in InboxIDs : k # id => inboxes'[k] = inboxes[k]
        /\ messages' = messages
    BY <1>0, <2>1, <2>3, SetInboxOthers, SetInboxMail
  <2>5. \/ inboxes' = inboxes
        \/ /\ inboxes'[id] = [Base(id, i) EXCEPT
                   !.FailedToCreate = FALSE,
                   !.EmailProviderRouteID = i.EmailProviderRouteID]
           /\ Backend = "sql" => Stored(id)
    BY <1>0, <2>1, <2>3, SetInboxCreatedRows
  <2>6. /\ StartOf(id) \in Inbox
        /\ \A row \in Inbox :
              [row EXCEPT !.FailedToCreate = FALSE, !.EmailProviderRouteID = "route"]
                = Contract!Created(row)
    BY <1>1 DEF Inbox, Contract!Created
  <2>7. [Base(id, i) EXCEPT !.FailedToCreate = FALSE, !.EmailProviderRouteID = "route"]
             = Contract!Created(StartOf(id))
    <3>1. CASE Backend = "memory"
      BY <1>1, <1>2, <2>2, <2>6, <3>1 DEF Base
    <3>2. CASE Backend # "memory"
      BY <2>6, <3>2 DEF Base, StartOf
    <3> QED BY <3>1, <3>2
  <2> QED BY <1>1, <2>1, <2>4, <2>5, <2>7 DEF Settle
<1> QED BY <1>3, <1>4

\* Marks touch neither address nor TTL.
LEMMA MarkedRow ==
    ASSUME NEW row \in Inbox
    PROVE  \A r \in {Contract!Created(row), Contract!Failed(row)} :
              r # Nil /\ r.Address = row.Address /\ r.TTL = row.TTL
<1>1. \A r \in {Contract!Created(row), Contract!Failed(row)} :
        r \in Inbox /\ r.Address = row.Address /\ r.TTL = row.TTL
  BY DEF Contract!Created, Contract!Failed, Inbox, RouteIDs
<1> QED BY <1>1, NilAssumption

LEMMA SettleStep ==
    ASSUME CInv, NEW id \in InboxIDs, NEW answer \in {"route", "error"}, Settle(id, answer),
           TypeOK'
    PROVE  CInv'
<1>1. /\ UNCHANGED <<now, known, saved, sent, outcome, messages>>
      /\ settled' = settled \cup {id}
      /\ known[id] # Nil
      /\ StartOf(id) \in Inbox
      /\ \A k \in InboxIDs : k # id => inboxes'[k] = inboxes[k]
      /\ \/ inboxes' = inboxes
         \/ /\ \/ inboxes'[id] = Contract!Created(StartOf(id))
               \/ inboxes'[id] = Contract!Failed(StartOf(id))
            /\ Backend = "sql" => Stored(id)
  BY SettledRow
<1>2. ASSUME NEW k \in InboxIDs
      PROVE  RowInv(k)' /\ (Housed(k) => Housed(k)')
  <2>1. CASE inboxes' = inboxes
    BY <1>1, <2>1 DEF CInv, RowInv, Housed, Stored
  <2>2. CASE k # id
    BY <1>1, <2>2 DEF CInv, RowInv, Housed, Stored
  <2>3. CASE k = id /\ inboxes' # inboxes
    <3>1. /\ inboxes'[id] # Nil
          /\ inboxes'[id].Address = StartOf(id).Address
          /\ inboxes'[id].TTL = StartOf(id).TTL
      BY <1>1, <2>3, MarkedRow
    <3>2. Housed(id) => Housed(id)'
      BY <3>1 DEF Housed, Stored, StartOf
    <3>3. /\ \/ AsDrawnUp(StartOf(id), known[id])
             \/ Backend = "dynamo" /\ IsFragment(StartOf(id))
          /\ Backend # "memory" /\ id \notin saved =>
                Backend = "dynamo" /\ IsFragment(StartOf(id))
      <4>1. CASE Stored(id)
        BY <4>1 DEF CInv, RowInv, StartOf
      <4>2. CASE ~Stored(id) /\ Backend = "memory"
        BY <1>1, <4>2 DEF CInv, KnownInv, StartOf, AsDrawnUp, SameAddress
      <4>3. CASE ~Stored(id) /\ Backend = "dynamo"
        BY <4>3 DEF StartOf, ZeroInbox, IsFragment
      <4> QED BY <1>1, <2>3, <4>1, <4>2, <4>3, DatabaseAssumption
    <3> QED BY <1>1, <2>3, <3>1, <3>2, <3>3 DEF RowInv, AsDrawnUp, IsFragment
  <2> QED BY <2>1, <2>2, <2>3
<1> QED BY <1>1, <1>2, RowsStep

LEMMA LookUpStep ==
    ASSUME CInv, NEW mid \in MessageIDs, NEW id \in InboxIDs, LookUp(mid, id), TypeOK'
    PROVE  CInv'
<1> DEFINE msg == [InboxID |-> id, ID |-> mid, TTL |-> inboxes[id].TTL]
<1>0. TypeOK
  BY DEF CInv
<1>1. /\ sent[mid] = Nil
      /\ Stored(id)
      /\ sent'[mid] = msg
      /\ \A n \in MessageIDs : n # mid => sent'[n] = sent[n]
      /\ UNCHANGED <<inboxes, messages, now, known, saved, settled, outcome>>
  BY <1>0 DEF LookUp, dbVars, TypeOK
<1>2. \A k \in InboxIDs : KnownInv(k)' /\ RowInv(k)'
  BY <1>1 DEF CInv, KnownInv, RowInv, Stored
<1>3. \A k \in InboxIDs : MailInv(k)'
  <2>1. \A k \in InboxIDs : \A m \in messages[k] : m.ID \in MessageIDs /\ m # Nil
    BY <1>0, SentTypes, NilAssumption
  <2> QED BY <1>1, <2>1 DEF CInv, MailInv, Housed, Stored
<1>4. SentInv(mid)' /\ KeptInv(mid)'
  <2>1. outcome[mid] = "none"
    BY <1>1 DEF CInv, SentInv
  <2>2. known[id] # Nil /\ (inboxes[id].TTL = known[id].TTL \/ Backend = "dynamo")
    BY <1>1 DEF CInv, RowInv, AsDrawnUp
  <2> QED BY <1>1, <2>1, <2>2 DEF SentInv, KeptInv
<1>5. \A n \in MessageIDs : n # mid => SentInv(n)' /\ KeptInv(n)'
  BY <1>1 DEF CInv, SentInv, KeptInv
<1> QED BY <1>2, <1>3, <1>4, <1>5 DEF CInv

LEMMA DeliverRows ==
    ASSUME CInv, NEW mid \in MessageIDs, Deliver(mid)
    PROVE  /\ sent[mid] # Nil
           /\ outcome[mid] = "none"
           /\ UNCHANGED <<inboxes, now, known, saved, settled, sent>>
           /\ \E ok \in BOOLEAN :
                 /\ outcome' = [outcome EXCEPT ![mid] = IF ok THEN "accepted" ELSE "failed"]
                 /\ \/ messages' = messages /\ ~ok
                    \/ /\ messages' = [messages EXCEPT ![sent[mid].InboxID] = @ \cup {sent[mid]}]
                       /\ Tied => Housed(sent[mid].InboxID)
<1>0. TypeOK /\ DBTypeOK
  BY DEF CInv, TypeOK
<1>1. sent[mid] # Nil /\ sent[mid] \in Message /\ sent[mid].InboxID \in InboxIDs
  BY <1>0, SentTypes DEF Deliver
<1>2. \A x \in messages[sent[mid].InboxID] : x.ID = sent[mid].ID => x = sent[mid]
  BY <1>1 DEF CInv, MailInv, SentInv
<1>3. PICK ok \in BOOLEAN :
        /\ SaveNewMessage(sent[mid], ok)
        /\ outcome' = [outcome EXCEPT ![mid] = IF ok THEN "accepted" ELSE "failed"]
  BY DEF Deliver
<1>4. /\ inboxes' = inboxes
      /\ \/ messages' = messages /\ ~ok
         \/ /\ messages' = [messages EXCEPT ![sent[mid].InboxID] = @ \cup {sent[mid]}]
            /\ Tied => Stored(sent[mid].InboxID)
            /\ Backend = "dynamo" => inboxes[sent[mid].InboxID].TTL # 0
  BY <1>0, <1>1, <1>2, <1>3, SaveNewMessageRows
<1>5. /\ Stored(sent[mid].InboxID)
      /\ Backend = "dynamo" => inboxes[sent[mid].InboxID].TTL # 0
      => Housed(sent[mid].InboxID)
  BY <1>1, NilAssumption DEF CInv, RowInv, AsDrawnUp, IsFragment, Housed
<1> QED BY <1>1, <1>3, <1>4, <1>5 DEF Deliver

LEMMA DeliverStep ==
    ASSUME CInv, NEW mid \in MessageIDs, Deliver(mid), TypeOK'
    PROVE  CInv'
<1>0. TypeOK /\ DBTypeOK
  BY DEF CInv, TypeOK
<1>1. PICK ok \in BOOLEAN :
        /\ sent[mid] # Nil
        /\ outcome[mid] = "none"
        /\ UNCHANGED <<inboxes, now, known, saved, settled, sent>>
        /\ outcome' = [outcome EXCEPT ![mid] = IF ok THEN "accepted" ELSE "failed"]
        /\ \/ messages' = messages /\ ~ok
           \/ /\ messages' = [messages EXCEPT ![sent[mid].InboxID] = @ \cup {sent[mid]}]
              /\ Tied => Housed(sent[mid].InboxID)
  BY DeliverRows
<1>2. sent[mid].InboxID \in InboxIDs /\ sent[mid].ID = mid
  BY <1>0, <1>1, SentTypes DEF CInv, SentInv
<1>3. \A k \in InboxIDs :
        /\ messages[k] \subseteq messages'[k]
        /\ \A m \in messages'[k] \ messages[k] :
              m = sent[mid] /\ k = sent[mid].InboxID /\ (Tied => Housed(k))
  BY <1>0, <1>1, <1>2 DEF DBTypeOK
<1>4. \A k \in InboxIDs : KnownInv(k)' /\ RowInv(k)'
  BY <1>1 DEF CInv, KnownInv, RowInv, Stored
<1>5. ASSUME NEW k \in InboxIDs
      PROVE  MailInv(k)'
  <2>1. \A m \in messages'[k] : m.InboxID = k /\ sent'[m.ID] = m
    BY <1>1, <1>2, <1>3 DEF CInv, MailInv
  <2>2. Tied /\ messages'[k] # {} => Housed(k)'
    BY <1>1, <1>3 DEF CInv, MailInv, Housed, Stored
  <2> QED BY <2>1, <2>2 DEF MailInv
<1>6. ASSUME NEW n \in MessageIDs
      PROVE  SentInv(n)' /\ KeptInv(n)'
  <2>1. SentInv(n)'
    BY <1>0, <1>1 DEF CInv, SentInv, TypeOK
  <2>2. CASE n # mid
    <3>1. outcome'[n] = outcome[n]
      BY <1>0, <1>1, <2>2 DEF TypeOK
    <3>2. sent[n] # Nil => sent[n].InboxID \in InboxIDs
      BY <1>0, SentTypes
    <3> QED BY <1>1, <1>3, <2>1, <3>1, <3>2 DEF CInv, KeptInv, SentInv
  <2>3. CASE n = mid
    <3>1. ok => sent[mid] \in messages'[sent[mid].InboxID]
      BY <1>0, <1>1, <1>2 DEF DBTypeOK
    <3>2. outcome'[mid] = "accepted" => ok
      BY <1>0, <1>1 DEF TypeOK
    <3> QED BY <1>1, <2>1, <2>3, <3>1, <3>2 DEF KeptInv
  <2> QED BY <2>2, <2>3, <2>1
<1> QED BY <1>4, <1>5, <1>6 DEF CInv

\* A sweep takes inboxes that are due, and mail of inboxes that are due: with
\* the inbox it is tied to, or by the TTL it has from the inbox.
LEMMA SweptRows ==
    ASSUME CInv, DeleteExpired
    PROVE  \A k \in InboxIDs :
              /\ \/ inboxes'[k] = inboxes[k]
                 \/ /\ inboxes'[k] = Nil
                    /\ inboxes[k] # Nil
                    /\ inboxes[k].TTL # 0
                    /\ inboxes[k].TTL <= now
              /\ messages'[k] \subseteq messages[k]
              /\ \A m \in messages[k] \ messages'[k] : known[k].TTL <= now
              /\ Tied /\ Stored(k) /\ ~Stored(k)' => messages'[k] = {}
<1>0. DBTypeOK /\ now \in Nat
  BY DEF CInv, TypeOK
<1>1. \A k \in InboxIDs :
         /\ messages'[k] \subseteq messages[k]
         /\ \A m \in messages[k] \ messages'[k] :
               IF Tied THEN Stored(k) /\ inboxes[k].TTL <= now ELSE m.TTL <= now
         /\ Tied /\ Stored(k) /\ ~Stored(k)' => messages'[k] = {}
  BY <1>0, DeleteExpiredMail
<1>2. \A k \in InboxIDs : Housed(k) => known[k] # Nil /\ inboxes[k].TTL = known[k].TTL
  BY DEF CInv, RowInv, AsDrawnUp, IsFragment, Housed
<1>3. ASSUME NEW k \in InboxIDs, NEW m \in messages[k] \ messages'[k]
      PROVE  known[k].TTL <= now
  <2>1. m.InboxID = k /\ sent[m.ID] = m /\ m.ID \in MessageIDs /\ m # Nil
    BY <1>3, SentTypes, NilAssumption DEF CInv, MailInv
  <2>2. CASE Tied
    BY <1>1, <1>2, <1>3, <2>2 DEF CInv, MailInv
  <2>3. CASE ~Tied
    BY <1>1, <1>3, <2>1, <2>3 DEF CInv, SentInv, Tied
  <2> QED BY <2>2, <2>3
<1>4. \A k \in InboxIDs :
         \/ inboxes'[k] = inboxes[k]
         \/ /\ inboxes'[k] = Nil
            /\ inboxes[k] # Nil
            /\ inboxes[k].TTL # 0
            /\ inboxes[k].TTL <= now
  <2>1. \A k \in InboxIDs :
           \/ inboxes'[k] = inboxes[k]
           \/ /\ inboxes'[k] = Nil
              /\ inboxes[k] # Nil
              /\ inboxes[k].TTL <= now
              /\ Backend = "dynamo" => inboxes[k].TTL # 0
    BY <1>0, DeleteExpiredRows
  <2>2. \A k \in InboxIDs : Stored(k) /\ Backend # "dynamo" => inboxes[k].TTL # 0
    BY DEF CInv, RowInv, AsDrawnUp, KnownInv
  <2> QED BY <2>1, <2>2 DEF Stored
<1> QED BY <1>1, <1>3, <1>4

LEMMA SweepStep ==
    ASSUME CInv, DeleteExpired, UNCHANGED <<now, clientVars>>, TypeOK'
    PROVE  CInv'
<1>1. \A k \in InboxIDs : KnownInv(k)' /\ RowInv(k)'
  BY SweptRows DEF CInv, KnownInv, RowInv, Stored, clientVars
<1>2. \A k \in InboxIDs : MailInv(k)'
  BY SweptRows DEF CInv, MailInv, Housed, Stored, clientVars
<1>3. ASSUME NEW mid \in MessageIDs
      PROVE  SentInv(mid)' /\ KeptInv(mid)'
  <2>1. SentInv(mid)'
    BY DEF CInv, SentInv, clientVars
  <2>2. outcome[mid] = "accepted" =>
           /\ sent[mid].InboxID \in InboxIDs
           /\ known[sent[mid].InboxID].TTL \in Nat
    BY SentTypes DEF CInv, SentInv
  <2>3. now \in Nat
    BY DEF CInv, TypeOK
  <2> QED BY <2>1, <2>2, <2>3, SweptRows DEF CInv, KeptInv, clientVars
<1> QED BY <1>1, <1>2, <1>3 DEF CInv

LEMMA RestartStep ==
    ASSUME CInv, Restart, TypeOK'
    PROVE  CInv'
<1>0. TypeOK
  BY DEF CInv
<1>1. /\ RestartDB
      /\ UNCHANGED <<now, known, sent>>
      /\ saved \subseteq saved' /\ settled \subseteq settled'
      /\ \A mid \in MessageIDs :
            outcome'[mid] = IF sent[mid] # Nil /\ (outcome[mid] = "none" \/ ~Durable)
                            THEN "lost" ELSE outcome[mid]
  BY DEF Restart
<1>2. ASSUME NEW mid \in MessageIDs
      PROVE  /\ SentInv(mid)'
             /\ outcome'[mid] = "accepted" => outcome[mid] = "accepted" /\ Durable
  BY <1>1 DEF CInv, SentInv
<1>3. CASE Durable
  <2>1. inboxes' = inboxes /\ messages' = messages
    BY <1>1, <1>3, RestartDBRows, RestartDBMail
  <2> QED BY <1>1, <1>2, <2>1 DEF CInv, KnownInv, RowInv, MailInv, KeptInv, Housed, Stored
<1>4. CASE ~Durable
  <2>1. /\ inboxes' = [id \in InboxIDs |-> Nil]
        /\ messages' = [id \in InboxIDs |-> {}]
    BY <1>1, <1>4, RestartDBRows, RestartDBMail
  <2> QED BY <1>1, <1>2, <1>4, <2>1 DEF CInv, KnownInv, RowInv, MailInv, KeptInv, Stored
<1> QED BY <1>3, <1>4

\* Steps that touch no row leave all as it is, or later.
LEMMA IdleStep ==
    ASSUME CInv, UNCHANGED <<inboxes, messages, clientVars>>, now' \in Nat, now <= now', TypeOK'
    PROVE  CInv'
<1>1. \A id \in InboxIDs : KnownInv(id)' /\ RowInv(id)' /\ MailInv(id)'
  BY DEF CInv, KnownInv, RowInv, MailInv, Housed, Stored, clientVars
<1>2. ASSUME NEW mid \in MessageIDs
      PROVE  SentInv(mid)' /\ KeptInv(mid)'
  <2>1. outcome[mid] = "accepted" => known[sent[mid].InboxID].TTL \in Nat
    BY SentTypes DEF CInv, SentInv
  <2>2. now \in Nat
    BY DEF CInv, TypeOK
  <2> QED BY <2>1, <2>2 DEF CInv, SentInv, KeptInv, clientVars
<1> QED BY <1>1, <1>2 DEF CInv

LEMMA ClientStep == CInv /\ [Next]_vars => CInv'
<1> SUFFICES ASSUME CInv, [Next]_vars PROVE CInv'
  OBVIOUS
<1>0. TypeOK' /\ now \in Nat
  BY ClientTypeStep DEF CInv, TypeOK
<1>1. ASSUME NEW id \in InboxIDs, NEW a \in Addresses, Launch(id, a)
      PROVE  CInv'
  BY <1>0, <1>1, LaunchStep
<1>2. ASSUME NEW id \in InboxIDs, Save(id)
      PROVE  CInv'
  BY <1>0, <1>2, SaveStep
<1>3. ASSUME NEW id \in InboxIDs, NEW answer \in {"route", "error"}, Settle(id, answer)
      PROVE  CInv'
  BY <1>0, <1>3, SettleStep
<1>4. ASSUME NEW mid \in MessageIDs, NEW id \in InboxIDs, LookUp(mid, id)
      PROVE  CInv'
  BY <1>0, <1>4, LookUpStep
<1>5. ASSUME NEW mid \in MessageIDs, Deliver(mid)
      PROVE  CInv'
  BY <1>0, <1>5, DeliverStep
<1>6. CASE Upkeep
  <2>1. CASE DeleteExpired
    BY <1>0, <1>6, <2>1, SweepStep DEF Upkeep
  <2>2. CASE PropagateIndex
    BY <1>0, <1>6, <2>2, IdleStep DEF Upkeep, PropagateIndex
  <2> QED BY <1>6, <2>1, <2>2 DEF Upkeep
<1>7. CASE Restart
  BY <1>0, <1>7, RestartStep
<1>8. CASE Tick
  BY <1>0, <1>8, IdleStep DEF Tick, dbVars
<1>9. CASE UNCHANGED vars
  BY <1>0, <1>9, IdleStep DEF vars, dbVars
<1> QED BY <1>1, <1>2, <1>3, <1>4, <1>5, <1>6, <1>7, <1>8, <1>9 DEF Next

LEMMA ClientInvariance == Spec => []CInv
  BY ClientInit, ClientStep, PTL DEF Spec

-----------------------------------------------------------------------------
(* What it means.                                                          *)

LEMMA KeptMail == CInv => AcceptedMailIsKept
<1> SUFFICES ASSUME CInv, NEW mid \in MessageIDs, outcome[mid] = "accepted",
                    now < known[sent[mid].InboxID].TTL
             PROVE  sent[mid] \in Mail
  BY DEF AcceptedMailIsKept
<1>1. sent[mid] \in messages[sent[mid].InboxID]
  BY DEF CInv, KeptInv
<1>2. sent[mid].InboxID \in InboxIDs
  BY SentTypes DEF CInv, SentInv
<1> QED BY <1>1, <1>2 DEF Mail

\* A row that is no fragment has its inbox's address; the others are DynamoDB's.
LEMMA RowAddress ==
    ASSUME CInv, NEW id \in InboxIDs, Stored(id)
    PROVE  /\ known[id] # Nil
           /\ \/ SameAddress(inboxes[id].Address, known[id].Address)
              \/ Backend = "dynamo" /\ inboxes[id].Address = Nil
  BY DEF CInv, RowInv, AsDrawnUp, IsFragment

LEMMA HousedMail == Tied /\ CInv => MailHasInbox
  BY DEF CInv, MailInv, Housed, Mail, MailHasInbox

\* Every variable keeps its type, for each of the three databases.
THEOREM ClientTypeCorrect == Spec => []TypeOK
<1>1. CInv => TypeOK
  BY DEF CInv
<1> QED BY <1>1, ClientInvariance, PTL

\* A mail whose save returned no error can be read until its inbox's TTL,
\* whatever else the database is asked for, except that a process that keeps
\* its data to itself dies.
THEOREM AcceptedKept == Spec => []AcceptedMailIsKept
  BY KeptMail, ClientInvariance, PTL

\* With DynamoDB and with PostgreSQL no mail is without its inbox.
THEOREM MailHoused == Tied => (Spec => []MailHasInbox)
<1> SUFFICES ASSUME Tied PROVE Spec => []MailHasInbox
  OBVIOUS
<1>1. CInv => MailHasInbox
  BY HousedMail
<1> QED BY <1>1, ClientInvariance, PTL

-----------------------------------------------------------------------------
(* The contract.                                                           *)

LEMMA ContractInit == Init => Contract!Init
  BY DEF Init, DBInit, Contract!Init, Mail

LEMMA ContractTypes ==
    /\ Contract!Inbox = Inbox
    /\ Contract!Message = Message
    /\ Contract!ZeroInbox = ZeroInbox
  BY DEF Contract!Inbox, Inbox, Contract!RouteIDs, RouteIDs, Contract!Message, Message,
         Contract!ZeroInbox, ZeroInbox

LEMMA ContractStutter ==
    ASSUME UNCHANGED <<known, saved, settled, inboxes, messages, now>>
    PROVE  UNCHANGED Contract!vars
  BY DEF Contract!vars, Mail

LEMMA ContractLaunch ==
    ASSUME CInv, NEW id \in InboxIDs, NEW a \in Addresses, Launch(id, a)
    PROVE  Contract!Ask(id)
<1> DEFINE i == [NewInbox EXCEPT !.Address = a, !.TTL = now + Life]
<1>0. TypeOK
  BY DEF CInv
<1>1. i \in Inbox /\ i.Address # Nil /\ i.TTL # 0
  BY <1>0, DrawnUp, NilAssumption
<1> HIDE DEF i
<1>2. /\ known[id] = Nil
      /\ known' = [known EXCEPT ![id] = i]
      /\ UNCHANGED <<saved, settled, inboxes, messages, now>>
  BY DEF Launch, i, dbVars
<1>3. known'[id] = i /\ known' = [known EXCEPT ![id] = known'[id]]
  BY <1>0, <1>2 DEF TypeOK
<1>4. id \notin Contract!Asked /\ known'[id] \in Contract!Inbox
  BY <1>1, <1>2, <1>3, ContractTypes DEF Contract!Asked
<1>5. UNCHANGED <<saved, settled, inboxes, Mail, now>>
  BY <1>2 DEF Mail
<1> QED BY <1>1, <1>3, <1>4, <1>5 DEF Contract!Ask

LEMMA ContractSave ==
    ASSUME CInv, CInv', NEW id \in InboxIDs, Save(id)
    PROVE  Contract!Save(id)
<1>0. TypeOK /\ DBTypeOK /\ DBTypeOK'
  BY DEF CInv, TypeOK
<1>1. /\ UNCHANGED <<now, known, settled, messages>>
      /\ saved' = saved \cup {id}
      /\ id \notin saved
      /\ known[id] # Nil
      /\ \A k \in InboxIDs : k # id => inboxes'[k] = inboxes[k]
      /\ inboxes' = inboxes \/ Holds(inboxes'[id], known[id])
  BY SavedRow
<1>2. inboxes' = inboxes \/
      \E a \in Addresses :
         /\ Contract!SameAddress(a, known[id].Address)
         /\ Contract!Write(id, [known[id] EXCEPT !.Address = a])
  <2> SUFFICES ASSUME Holds(inboxes'[id], known[id])
               PROVE  \E a \in Addresses :
                         /\ Contract!SameAddress(a, known[id].Address)
                         /\ Contract!Write(id, [known[id] EXCEPT !.Address = a])
    BY <1>1
  <2>1. inboxes'[id] \in Inbox /\ known[id] \in Inbox
    BY <1>0, <1>1, SentTypes DEF Holds, DBTypeOK
  <2>2. inboxes'[id] = [known[id] EXCEPT !.Address = inboxes'[id].Address]
    BY <2>1 DEF Holds, Inbox
  <2>3. inboxes' = [inboxes EXCEPT ![id] = inboxes'[id]]
    BY <1>0, <1>1 DEF DBTypeOK
  <2>4. /\ inboxes'[id].Address \in Addresses
        /\ SameAddress(inboxes'[id].Address, known[id].Address)
    BY DEF Holds
  <2> QED BY <2>2, <2>3, <2>4 DEF Contract!Write, Contract!SameAddress, SameAddress
<1> QED BY <1>1, <1>2 DEF Contract!Save, Contract!Asked, Mail

LEMMA ContractSettle ==
    ASSUME CInv, CInv', NEW id \in InboxIDs, NEW answer \in {"route", "error"}, Settle(id, answer)
    PROVE  Contract!Update(id)
<1>0. DBTypeOK /\ DBTypeOK'
  BY DEF CInv, TypeOK
<1>1. /\ UNCHANGED <<now, known, saved, messages>>
      /\ settled' = settled \cup {id}
      /\ id \notin settled
      /\ known[id] # Nil
      /\ \A k \in InboxIDs : k # id => inboxes'[k] = inboxes[k]
      /\ \/ inboxes' = inboxes
         \/ inboxes'[id] = Contract!Created(StartOf(id))
         \/ inboxes'[id] = Contract!Failed(StartOf(id))
  BY SettledRow
<1>2. StartOf(id) \in Contract!Bases(id)
  BY ContractTypes DEF StartOf, Stored, Contract!Bases, Contract!Present
<1>3. inboxes' = [inboxes EXCEPT ![id] = inboxes'[id]]
  BY <1>0, <1>1 DEF DBTypeOK
<1>4. \/ inboxes' = inboxes
      \/ \E row \in Contract!Bases(id) :
            Contract!Write(id, Contract!Created(row)) \/ Contract!Write(id, Contract!Failed(row))
  BY <1>1, <1>2, <1>3 DEF Contract!Write
<1> QED BY <1>1, <1>4 DEF Contract!Update, Contract!Asked, Mail

LEMMA ContractDeliver ==
    ASSUME CInv, NEW mid \in MessageIDs, Deliver(mid)
    PROVE  Contract!Deliver \/ UNCHANGED Contract!vars
<1>0. TypeOK /\ DBTypeOK
  BY DEF CInv, TypeOK
<1>1. /\ sent[mid] # Nil
      /\ UNCHANGED <<known, saved, settled, inboxes, now>>
      /\ \/ messages' = messages
         \/ messages' = [messages EXCEPT ![sent[mid].InboxID] = @ \cup {sent[mid]}]
  BY DeliverRows
<1>2. /\ sent[mid] \in Message
      /\ sent[mid].InboxID \in InboxIDs
      /\ known[sent[mid].InboxID] # Nil
  BY <1>0, <1>1, SentTypes DEF CInv, SentInv
<1>3. CASE messages' = messages
  BY <1>1, <1>3, ContractStutter
<1>4. CASE messages' = [messages EXCEPT ![sent[mid].InboxID] = @ \cup {sent[mid]}]
  <2>1. /\ messages'[sent[mid].InboxID] = messages[sent[mid].InboxID] \cup {sent[mid]}
        /\ \A k \in InboxIDs : k # sent[mid].InboxID => messages'[k] = messages[k]
    BY <1>0, <1>2, <1>4 DEF DBTypeOK
  <2>2. \A m : m \in Mail' <=> m \in Mail \/ m = sent[mid]
    <3>1. \A m : m \in Mail' <=> \E k \in InboxIDs : m \in messages'[k]
      BY DEF Mail
    <3>2. \A m : m \in Mail <=> \E k \in InboxIDs : m \in messages[k]
      BY DEF Mail
    <3> QED BY <1>2, <2>1, <3>1, <3>2, Zenon
  <2>3. Mail' = Mail \cup {sent[mid]} /\ sent[mid] \in Mail'
    BY <2>2
  <2> QED BY <1>1, <1>2, <2>3, ContractTypes DEF Contract!Deliver, Contract!Asked
<1> QED BY <1>1, <1>3, <1>4

LEMMA ContractSweep ==
    ASSUME CInv, DeleteExpired, UNCHANGED <<now, known, saved, settled>>, CInv'
    PROVE  \E ids \in SUBSET Contract!DueBoxes, ms \in SUBSET Contract!DueMail :
              Contract!Delete(ids, ms)
<1> DEFINE ids == {k \in InboxIDs : inboxes'[k] # inboxes[k]}
           ms == Mail \ Mail'
<1>0. DBTypeOK /\ DBTypeOK'
  BY DEF CInv, TypeOK
<1>1. ids \in SUBSET Contract!DueBoxes
  BY SweptRows DEF Contract!DueBoxes, Contract!Present
<1>2. ms \in SUBSET Contract!DueMail
  <2>1. ASSUME NEW m \in ms
        PROVE  m \in Mail /\ known[m.InboxID].TTL <= now
    <3>1. PICK k \in InboxIDs : m \in messages[k]
      BY <2>1 DEF Mail
    <3>2. m \notin messages'[k]
      BY <2>1 DEF Mail
    <3>3. m.InboxID = k
      BY <3>1 DEF CInv, MailInv
    <3> QED BY <2>1, <3>1, <3>2, <3>3, SweptRows
  <2> QED BY <2>1 DEF Contract!DueMail
<1>3. Mail' = Mail \ ms
  BY SweptRows DEF Mail
<1>4. inboxes' = [id \in InboxIDs |-> IF id \in ids THEN Nil ELSE inboxes[id]]
  <2>1. \A id \in InboxIDs : inboxes'[id] = IF id \in ids THEN Nil ELSE inboxes[id]
    BY SweptRows
  <2> QED BY <1>0, <2>1 DEF DBTypeOK
<1>5. Contract!Delete(ids, ms)
  BY <1>3, <1>4 DEF Contract!Delete
<1> QED BY <1>1, <1>2, <1>5

LEMMA ContractRestart ==
    ASSUME Restart
    PROVE  Contract!Crash
<1>1. /\ RestartDB
      /\ UNCHANGED <<now, known>>
      /\ saved' = saved \cup Contract!Asked
      /\ settled' = settled \cup Contract!Asked
  BY DEF Restart, Contract!Asked
<1>2. CASE Durable
  BY <1>1, <1>2, RestartDBRows, RestartDBMail DEF Contract!Crash, Mail
<1>3. CASE ~Durable
  BY <1>1, <1>3, RestartDBRows, RestartDBMail DEF Contract!Crash, Mail
<1> QED BY <1>2, <1>3

LEMMA ContractStep == CInv /\ CInv' /\ [Next]_vars => [Contract!Next]_(Contract!vars)
<1> SUFFICES ASSUME CInv, CInv', [Next]_vars PROVE [Contract!Next]_(Contract!vars)
  OBVIOUS
<1>1. ASSUME NEW id \in InboxIDs, NEW a \in Addresses, Launch(id, a)
      PROVE  [Contract!Next]_(Contract!vars)
  BY <1>1, ContractLaunch DEF Contract!Next
<1>2. ASSUME NEW id \in InboxIDs, Save(id)
      PROVE  [Contract!Next]_(Contract!vars)
  BY <1>2, ContractSave DEF Contract!Next
<1>3. ASSUME NEW id \in InboxIDs, NEW answer \in {"route", "error"}, Settle(id, answer)
      PROVE  [Contract!Next]_(Contract!vars)
  BY <1>3, ContractSettle DEF Contract!Next
<1>4. ASSUME NEW mid \in MessageIDs, NEW id \in InboxIDs, LookUp(mid, id)
      PROVE  [Contract!Next]_(Contract!vars)
  BY <1>4, ContractStutter DEF LookUp, dbVars
<1>5. ASSUME NEW mid \in MessageIDs, Deliver(mid)
      PROVE  [Contract!Next]_(Contract!vars)
  BY <1>5, ContractDeliver DEF Contract!Next
<1>6. CASE Upkeep
  <2>1. CASE DeleteExpired
    BY <1>6, <2>1, ContractSweep DEF Upkeep, clientVars, Contract!Next
  <2>2. CASE PropagateIndex
    BY <1>6, <2>2, ContractStutter DEF Upkeep, PropagateIndex, clientVars
  <2> QED BY <1>6, <2>1, <2>2 DEF Upkeep
<1>7. CASE Restart
  BY <1>7, ContractRestart DEF Contract!Next
<1>8. CASE Tick
  BY <1>8 DEF Tick, dbVars, clientVars, Contract!Next, Contract!Tick, Mail
<1>9. CASE UNCHANGED vars
  BY <1>9, ContractStutter DEF vars, dbVars, clientVars
<1> QED BY <1>1, <1>2, <1>3, <1>4, <1>5, <1>6, <1>7, <1>8, <1>9 DEF Next

\* Each of the three databases does only what the interface promises, in
\* whatever order saves and reports of an inbox come: every step of it is a
\* step of the contract or leaves the data as they are.
THEOREM ContractImplemented == Spec => ImplementsContract
<1>1. Init => Contract!Init
  BY ContractInit
<1>2. CInv /\ CInv' /\ [Next]_vars => [Contract!Next]_(Contract!vars)
  BY ContractStep
<1> QED BY <1>1, <1>2, ClientInvariance, PTL DEF Spec, ImplementsContract, Contract!Spec
=============================================================================

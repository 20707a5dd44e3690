------------------------------- MODULE Models -------------------------------
(***************************************************************************)
(* The records burner.kiwi passes around (burner/models.go), cut down to   *)
(* the fields its control flow depends on.                                 *)
(*                                                                         *)
(* Inbox ids and message ids are UUIDs the program draws itself            *)
(* (uuid.NewRandom), so they are members of two finite sets and each one   *)
(* is used at most once.  An email address is an uninterpreted value; the  *)
(* only thing the program ever computes from one is its lower-case form.   *)
(*                                                                         *)
(* Time is Unix time in whole seconds, the unit of every TTL.              *)
(***************************************************************************)
EXTENDS Naturals, FiniteSets

CONSTANTS
    InboxIDs,      \* the UUIDs of inboxes
    MessageIDs,    \* the UUIDs of messages
    Addresses,     \* the email addresses in play
    Lower,         \* the lower-case form of each address
    Nil            \* no row, no map entry, no attribute

ASSUME LowerAssumption ==
    /\ Lower \in [Addresses -> Addresses]
    /\ \A a \in Addresses : Lower[Lower[a]] = Lower[a]

\* "-" until the email provider has answered, then the route id it gave; ""
\* is the zero value of a record that was never written.
RouteIDs == {"", "-", "route"}

\* TTL = 0 stands for a record that carries no TTL at all.
Inbox == [Address : Addresses \cup {Nil},
          TTL : Nat,
          EmailProviderRouteID : RouteIDs,
          FailedToCreate : BOOLEAN]

Message == [InboxID : InboxIDs, ID : MessageIDs, TTL : Nat]

ASSUME NilAssumption ==
    /\ Nil \notin Addresses
    /\ Nil \notin Inbox
    /\ Nil \notin Message

\* Go's zero value, which an unmarshal of nothing leaves behind.
ZeroInbox == [Address |-> Nil, TTL |-> 0,
              EmailProviderRouteID |-> "", FailedToCreate |-> FALSE]

NewInbox == [ZeroInbox EXCEPT !.EmailProviderRouteID = "-"]

SameAddress(a, b) == Lower[a] = Lower[b]
=============================================================================

--------------------------- MODULE EmailGenerator ---------------------------
(***************************************************************************)
(* The addresses the program gives out (emailgenerator/generateemail.go):  *)
(* random ones, and ones a visitor types on the page under /edit.          *)
(***************************************************************************)
EXTENDS Integers, Sequences, FiniteSets

CONSTANTS
    Characters,    \* what a visitor can type
    Lower,         \* strings.ToLower of a character
    Alphanumeric,  \* a-z, A-Z and 0-9
    Alphabet,      \* what random names are made of: a-z and 0-9
    MinUser, MaxUser,   \* 3 and 64
    L,             \* length of a random name: 8
    Reserved,      \* webmaster, admin, postmaster, administrator, root
    HostNames,     \* the host names there are, whatever their case
    LowerHost,     \* strings.ToLower of a host name
    NoHost,        \* the empty one, which a comma too many in DOMAINS configures
    Hosts,         \* the configured ones, in the spelling they are configured in
    MaxGiven       \* bound on the addresses given out

\* Random names are never looked up among the reserved ones, but have another
\* length than any of them.  Of the configured hosts nothing is known: one may
\* be there twice, in two spellings.
ASSUME GeneratorAssumption ==
    /\ Alphabet \subseteq Alphanumeric /\ Alphanumeric \subseteq Characters
    /\ Lower \in [Characters -> Characters]
    /\ \A c \in Characters : Lower[Lower[c]] = Lower[c]
    /\ \A c \in Alphabet : Lower[c] = c
    /\ MinUser \in Nat /\ MaxUser \in Nat /\ L \in MinUser..MaxUser
    /\ \A r \in Reserved : Len(r) # L
    /\ Hosts \subseteq HostNames
    /\ NoHost \in HostNames
    /\ LowerHost \in [HostNames -> HostNames]
    /\ \A h \in HostNames : LowerHost[LowerHost[h]] = LowerHost[h]
    /\ MaxGiven \in Nat

VARIABLE given    \* the addresses given out so far

NamesInit == given = {}

ToLower(user) == [i \in 1..Len(user) |-> Lower[user[i]]]

VerifyUser(user) ==
    /\ Len(user) >= MinUser
    /\ Len(user) <= MaxUser
    /\ \A i \in 1..Len(user) : user[i] \in Alphanumeric
    /\ user \notin Reserved

VerifyHost(host) == host # NoHost /\ host \in Hosts

Give(user, host, chosen) ==
    given' = given \cup {[user |-> user, host |-> host, chosen |-> chosen]}

\* The host is one of the configured ones as it stands there.
NewRandom(name, host) == Give(name, host, FALSE)

\* Mutants: the name is verified as it was typed; it is given as it was typed.
NewFromUserAndHostAsTyped(user, host) ==
    /\ VerifyUser(user)
    /\ VerifyHost(LowerHost[host])
    /\ Give(ToLower(user), LowerHost[host], TRUE)
NewFromUserAndHostInCapitals(user, host) ==
    /\ VerifyUser(ToLower(user))
    /\ VerifyHost(LowerHost[host])
    /\ Give(user, LowerHost[host], TRUE)

NewFromUserAndHost(user, host) ==
    /\ VerifyUser(ToLower(user))
    /\ VerifyHost(LowerHost[host])
    /\ Give(ToLower(user), LowerHost[host], TRUE)

\* Names of up to one character more than is allowed.
Typed == UNION {[1..n -> Characters] : n \in 0..(MaxUser + 1)}

MayGive == Cardinality(given) < MaxGiven

NamesNext ==
    \/ MayGive /\ \E name \in [1..L -> Alphabet], host \in Hosts : NewRandom(name, host)
    \/ MayGive /\ \E user \in Typed, host \in HostNames : NewFromUserAndHost(user, host)

-----------------------------------------------------------------------------

\* Every address given out is of a configured host, is of a length and of
\* characters other programs accept, and is none of the reserved ones, in
\* whatever case it was asked for (generateemail.go:70-90).  Only a random one
\* may lack its host.
GivenIsProper ==
    \A a \in given :
        /\ a.host \in Hosts
        /\ a.chosen => a.host # NoHost
        /\ VerifyUser(a.user)
        /\ ToLower(a.user) \notin Reserved

\* The same letters in another case.
Alike(a, b) == ToLower(a.user) = ToLower(b.user) /\ LowerHost[a.host] = LowerHost[b.host]

\* Two addresses given out differ in nothing but the case of their letters only
\* if one is a random address at a host configured with capitals, which is used
\* as it stands: databases that compare byte by byte take them for two
\* (InMemory, DynamoDB), SQL for one.  Chosen addresses never add a spelling.
OneSpelling ==
    \A a, b \in given :
        Alike(a, b) =>
            /\ a.user = b.user
            /\ \/ a.host = b.host
               \/ \E c \in {a, b} : ~c.chosen /\ c.host # LowerHost[c.host]
=============================================================================

# burner.kiwi in TLA+

burner.kiwi gives a visitor an email address for 24 hours. These modules model
how an inbox comes to be, how mail gets into it by SMTP and through Mailgun, what
the three databases do with both, what a browser's session is worth, what the
pages say of time, which addresses are given out, and how it all ends. TLC
checks them on small instances, and TLAPS proves every safety property the
passing runs check, for any number of inboxes, mails and addresses.

Checking a run: `tlc -config MCInboxCreation_sql.cfg MCInboxCreation.tla`.
Checking the proofs: `tlapm InboxCreationProofs.tla`. `PROJECT.json` lists the
runs, which lines of `src/` each definition stands for, the hazards and the
findings.

## The system

| Part | State | Operations | Talks to |
|---|---|---|---|
| `burner/html.go` | none of its own; the session cookie is with the browser | GET / (create or show), POST /edit (create under a chosen name), delete (forget the cookie), pages that read | database, address generator, the goroutine |
| `burner/json.go`, `burner/middleware.go`, `notary/` | none; the signed token is with the client | create, read an inbox, read its messages | the same; tokens |
| `burner/email.go` | none | `createRouteAndUpdate`, a goroutine per new inbox; the sender blacklist | email provider, database |
| `data/inmemory` | two maps behind a lock | the `Database` interface, a sweep every 6 hours | |
| `data/sqldb` (PostgreSQL, SQLite) | two tables | the same, a clean-up loop every hour | the driver |
| `data/dynamodb` | one table, one index on addresses | the same; expiry is the service's | AWS |
| `email/smtpmail` | one SMTP session per connection | RCPT check, delivery | database |
| `email/mailgunmail` | routes kept at Mailgun | register a route, receive a webhook, delete expired routes hourly | Mailgun, database |
| `emailgenerator`, `stringduration` | none | pure functions | |
| `burner/server.go`, `config.go` | configuration | start-up, routing | everything |

What is hard here, and a test would hardly reach:

* **Requests and goroutines.** Creating an inbox starts a goroutine that will
  write to the same row the handler is about to insert, from a copy of the same
  record. Either may come first, and requests run beside one another: the
  check that an address is free and the insert that takes it are two calls.
* **Different databases, one program.** An update of an absent row is ignored
  by SQL, stores the caller's copy in memory, and makes a fragment of an item in
  DynamoDB. SQL keeps addresses unique, the others do not. Mail and inbox are
  tied together by a foreign key, by being one item, or not at all.
* **Failures.** A call over a network may fail before or after it took effect,
  a process may die between two calls, and Lambda may freeze it after an answer.
* **Time.** Everything expires by TTLs in seconds, deleted by sweeps that run
  whenever they run, while handlers hold copies of what they read.

`PROJECT.json` has these one by one, at their lines.

### What makes each part correct

* Creation: a credential handed out leads to its inbox until the inbox expires;
  marks in the row are what the provider said; addresses are unique; every
  request is answered; each inbox goes through its life once and forwards.
* Databases: a stored inbox keeps its address and TTL and is not deleted early,
  whichever of its save and the report of its registration comes first, and what
  an update makes of an inbox that is not there is one of three things; accepted
  mail stays until its inbox expires, and goes after that.
* Mail: what a sender was told is delivered lies in an inbox of every address it
  names, and in no other, until that inbox expires; what it was told is not was
  not stored, or at most for the first addressees; a mail lies in an inbox twice
  only if Mailgun had stopped waiting for an answer; live routes stay, expired
  routes go.
* Sessions: a browser's session leads to its inbox as long as that lives, is lost
  only for a cause, and does not stay with an inbox whose registration failed.
* Addresses and pages: addresses given out are proper, and come in one spelling
  but for random ones at a host configured with capitals; ages and remaining
  times shown are right.

## The modules

```
Models                                records, ids, addresses, time
  InMemory  SQLDatabase  DynamoDB       one module per implementation
        \       |       /
         Database                       the interface: one of the three
          |            \
  InboxCreation         DatabaseClient
    |        |            |     |     \
    |     Website         |  SmtpMail  MailgunMail
    |                     |
  InboxLifecycle       DatabaseContract   what they implement

  StringDuration   EmailGenerator
            \       /
             Pages
```

| Module | Models |
|---|---|
| `Models` | `burner/models.go`: `Inbox` and `Message` with the fields control flow depends on. `Lower` is all the databases compute from an address. |
| `InMemory` | `data/inmemory`. One action per operation, since one lock guards both maps. |
| `SQLDatabase` | `data/sqldb`. One statement, one step. `Exec` is the driver: with `Unreliable` an error may come back from a statement that ran or did not. `ForeignKeys` is whether the engine enforces the schema's cascade. |
| `DynamoDB` | `data/dynamodb`. `Call` is the client library, `index` the address index, which `Propagate` brings up to date one item at a time; `TTLDelete` is the service. |
| `Database` | the interface; `Backend` chooses. A writing operation takes `ok`, the result it reports. |
| `DatabaseContract` | what the shared test suite (`data/testsuite.go`) and the program's use of it expect of any implementation, as a specification without any of their structure. It says what an update of a row that is not there may come to: nothing, the whole inbox, or a fragment that never goes. |
| `DatabaseClient` | a load on `Database`: an inbox is drawn up (`Launch`), saved once by its request and reported once by its goroutine (`Settle`), neither waiting for the other; mail is looked up and saved in two calls; sweeps, restarts. |
| `SmtpMail` | `email/smtpmail`: the sessions whose look-ups and saves those are, and the senders. |
| `MailgunMail` | `email/mailgunmail`: the same for webhooks, with Mailgun's routes and the loop that deletes them. |
| `InboxLifecycle` | the life of an inbox: none, pending, then ready or failed, then gone; with its expiry. |
| `InboxCreation` | the handlers that create inboxes and their goroutines. |
| `Website` | a browser with one session cookie and several tabs, whose requests those are (`burner/html.go`, `burner/cookieauth.go`). |
| `EmailGenerator` | `emailgenerator`: the addresses given out so far. |
| `StringDuration`, `Pages` | `stringduration`, and the two texts about time that `burner/templates.go` makes with it. |
| `DatabaseProofs`, `DatabaseClientProofs`, `SmtpMailProofs`, `MailgunMailProofs`, `InboxCreationProofs`, `InboxLifecycleProofs`, `WebsiteProofs`, `PagesProofs` | the proofs. |
| `MCDatabase`, `MCSmtpMail`, `MCMailgunMail`, `MCInboxCreation`, `MCWebsite`, `MCPages` | values for TLC. |

Definitions called a mutant are the model with one plausible mistake in it. They
are used by no specification; each one is there so that a property can be seen
to fail when the code is wrong.

### InboxCreation and the code

An inbox id names one request, its goroutine and its inbox.

| Action | Code |
|---|---|
| `CheckAddress` | a handler up to and including `EmailAddressExists`: `newRandomInbox`, `NewNamedInbox`, `NewInboxJSON`. The generators may come up with any address |
| `Launch` | id and TTL are fixed, `go createRouteAndUpdate(i)` with a copy of `i` |
| `Save` | `SaveNewInbox`; an error ends the request, on Lambda without waiting |
| `MayAnswer` | `SetInboxID` or `Sign`, then `wg.Wait()` on Lambda |
| `Answer` | POST /edit redirects, the JSON API answers; neither looks at the row again |
| `Show` | GET / goes on to `getInbox`: an error page, the page, or the cookie taken back because `FailedToCreate` |
| `Register`, `Update` | `createRouteAndUpdate`: the provider's answer, then `SetInboxFailed` or `SetInboxCreated`, whose own error is dropped |
| `Freeze` | Lambda suspends a process that has answered, its goroutines with it |
| `CleanUp`, `Propagate`, `Restart`, `Tick` | sweeps, DynamoDB's index, a crash, the clock |

`kind` distinguishes only GET / from the other two, which do the same from here.
A cookie is a header of the response, so it is granted when the response is sent;
an error page of `getInbox` carries it too.

**Timing assumption.** `Tick` of `InboxCreation` does not let the clock reach the TTL of an inbox
whose handler or goroutine is still at work. The TTL is 24 hours away when they
start and both consist of a few calls. Without the assumption a registration
that outlived its inbox would bring the row back (memory) or leave a fragment
of an item behind (DynamoDB). `DatabaseClient` does without the assumption: there
a registration may be reported at any time after the inbox was drawn up, and what
that does to the row is part of the contract.

### SmtpMail and the code

A mail is one of `Letters`, which says what the code tells mails apart by. An
attempt `<<m, n>>` is the n-th time its sender tries; the message for the p-th
address of its To header is `<<m, n, p>>`, a new id each time, as in the code.

| Action | Code |
|---|---|
| `MailFrom` | a connection and `Mail`, with the blacklist |
| `Rcpt` | `Rcpt` for one recipient; an error of the database counts as "no such address" |
| `Data` | go-smtp's refusal of DATA without a recipient, `parsemail.Parse`, `AddTargetBlank`; an empty To header leaves the loop at once |
| `Find`, `SaveEntry` | one round of the loop of `handleMessage`: `GetInboxByAddress`, then `SaveNewMessage` of the message made from its answer; either's error ends the loop |
| `Receive`, `GiveUp` | the sender takes the answer, or stops waiting for it and may try again; the handler goes on |
| `RegisterRoute` | always a route |
| `LaunchInbox`, `SaveInbox`, `Surroundings` | the rest of the program: inboxes drawn up and saved, sweeps, the clock |
| `CrashAll` | the process dies, with all sessions |

`SameAddress` on PostgreSQL's part compares without regard to case; `To` addresses
that are not the program's make `Find` fail like those of swept inboxes.

### MailgunMail and the code

| Action | Code |
|---|---|
| `CreateRoute`, `RegisterRoute` | the call to Mailgun, which may fail having made the route, and the error `RegisterRoute` returns in every case |
| `GetRoutes` | `deleteExpiredRoutes` asks for the first page of routes |
| `DeleteRoute`, `PassRoute` | one round of its loop: due and deleted; or not due, or an error that is logged |
| `Arrive`, `Post`, `Hear`, `GiveUp`, `OtherRoutes` | Mailgun: it matches a mail with a route, posts the webhook, takes 200 and 406 as final, repeats after other answers or none, and has routes of other programs |
| `Reject` | verification (401) and blacklist (406) |
| `Find` | `GetInboxByID`, `ParseAddress` (whose error returns without a status, that is with 200), `AddTargetBlank` |
| `SaveMail` | `SaveNewMessage`, and 200 whatever it returned |
| `LaunchInbox`, `SaveInbox`, `Surroundings` | as in `SmtpMail`; `RegisterRoute` may come before or after `SaveInbox` |
| `Crash` | the process dies; routes stay, the loop starts anew |

The route may work before the inbox is saved. To a webhook that comes in between
the databases that have no such row report an error, and Mailgun tries again;
DynamoDB reports an empty inbox or a fragment, neither of which takes mail, the
answer is 200, and the mail is lost without anybody being told. `DealtWithMailWasSaved` is about
inboxes that are stored when the answer is given, and says no more than that the
mail was handed to the database by then, whose error the handler drops.
`StoredTwiceOnlyIfAbandoned` is about the other answers: after an error Mailgun
posts again, and that stores nothing twice because no handler answers an error
once it called `SaveNewMessage`. Only when Mailgun stops waiting (`abandoned`) for
a handler that goes on can both attempts store the mail.

The handlers are taken as mounted, as `mailgun_test.go` mounts them. As it stands
`New` passes `s.Router` to the provider's `Start` before it makes the router
(`burner/server.go:71`, `76`), and with Mailgun `Start` calls a method of it: the
program panics when it starts. That is one sequence of steps with one outcome,
which a model adds nothing to.

### Website and the code

`jar` is the browser's cookie; `tab` what each tab waits for. A request carries
the cookie of the time it is sent, and what its response says of the cookie
happens when it arrives.

| Action | Code |
|---|---|
| `Request` | GET / without a session, POST /edit with one: the start of a creation, whose steps are `InboxCreation`'s |
| `Look`, `Read` | GET / with a session, and `getInbox`, which takes the cookie back for an inbox marked as failed |
| `AskDelete` | POST /delete, confirmed or not |
| `Respond` | the response of a creation; the cookie is made now |
| `CreationArrives`, `RevocationArrives`, `DeletionArrives`, `Stop` | a response arrives, or is never looked at |
| `Background` | everything else in `InboxCreation` |

A declined deletion runs into `session.Delete` after its redirect
(`burner/html.go:327`). `http.Redirect` has written the headers by then, so that
the cookie stays; `SessionLeftForCause` would not hold if the two were swapped.

### Pages, StringDuration, EmailGenerator and the code

`DurationString` is Go's `Duration.String`, `Scan` the body of the loop in
`GetHoursAndMinutes`, `Loop` the values of its variables after each token of the
text. `Pages` lets an inbox and a message age from one look at the page to the
next and compares what is shown with arithmetic. Below a minute the loop does not do what its comment says: "45s" has
no letter it looks for and becomes 45 hours, "500ms" stops at the m and becomes
500 minutes. A visitor sees it for the last minute of an inbox, for
which the page says "Expires in 45s hours and  minutes"; the theorem
`LastMinuteMisread` states it for every duration from a second to a minute.
`CountdownIsTrue` is therefore about a minute and more.

`EmailGenerator` lower-cases the name before it checks it, and the host before it
looks it up among the configured ones, which are left as they are. A host
configured with a capital is given to random addresses and can never be chosen,
and if `DOMAINS` has it in two spellings, an address can be given out in both:
`OneSpelling` says that it takes such a host and a random address, whatever the
configuration. `config.go` splits `DOMAINS` at its commas and checks nothing, so that
one comma too many configures the empty host, which nobody can choose but random
addresses may get.
Characters that only become ASCII letters when lower-cased (the Kelvin sign) are
accepted; `MCPages` has one.

## The runs

Time is in units in which an inbox lives for `Life = 2`; `MaxTime = 3` lets a
sweep come a unit after an expiry. Two inboxes are two racing requests: the
properties relate at most two inboxes, and no step involves a third. `upper`
and `lower` are two spellings of one address. The runs stop when all ids are used
and the clock has reached its bound, so deadlock is not checked.

| Run | Shows |
|---|---|
| `MCInboxCreation_memory` | in memory, where updates store whole rows: `ImplementsLifecycle`, no stray row, no cookie revoked without a failure, expired inboxes deleted |
| `MCInboxCreation_sql` | a SQL database whose calls may fail, with a crash of the process: `CredentialHasInbox`, `MarksAreTrue`, `AddressUnique`, `ImplementsLifecycle` |
| `MCInboxCreation_lambda` | Lambda and an unreliable DynamoDB with a lagging index: `LambdaWaits`, `RequestsAnswered`, `CredentialHasInbox`, `ImplementsLifecycle` |
| `MCDatabase_memory` | the in-memory store keeps `DatabaseContract`, with saves and reports in either order and reports of inboxes already swept, and the mail it accepted; expired mail goes even when it came after its inbox was swept |
| `MCSmtpMail_postgres` | `AnsweredMailIsServed`, `MailWasAddressed`, `RefusedMailIsAPrefix`, `MailHadRecipient` of overlapping attempts on an unreliable PostgreSQL, which keeps the contract, the mail and the tie of mail to inboxes under this load |
| `MCMailgunMail_dynamo` | `LiveRouteKept`, `StoredTwiceOnlyIfAbandoned`, `DealtWithMailWasSaved`, `ExpiredRouteDeleted` with an unreliable DynamoDB, which keeps the same three, also when a route is reported before its inbox is saved or after the save failed |
| `MCWebsite_sql` | `SessionHasInbox`, `SessionLeftForCause`, `FailedSessionEnds` |
| `MCPages_hour` | `AgeIsTrue`, `CountdownIsTrue`, `GivenIsProper`, `OneSpelling` |

The bounds, beside those above:

* `MaxRestarts` is 1 for `MCInboxCreation_sql`, so that a crash can fall between
  any two steps, and 0 in the other runs of `InboxCreation` and in `MCWebsite`: a
  crash of a store in memory ends everything at once. The proofs cover any
  number of crashes of any backend. The runs over `DatabaseClient` do not bound
  crashes.
* `MCDatabase`: two inboxes under either spelling of an address, two messages,
  which may be for the same inbox or not.
* `MCSmtpMail`: one mail, two attempts that may overlap, up to two addresses, two
  inboxes. Attempts of different mails differ from attempts of one mail in
  nothing but their letters. Its five letters are one for each way through the
  code: two inboxes of which the envelope names one, one inbox while the envelope
  names only the other, blacklisted, no To header, unreadable. `Life = 1`, `MaxTime = 2`.
* `MCMailgunMail`: one inbox, one mail of each sort there is, two attempts, a page
  of one route and up to one route of another program, so that the inbox's own
  may be beyond the page. What happens to one inbox's route touches no other's.
* `MCWebsite`: two tabs and two inboxes, the one before and the one after, with
  one address. `CookieLife` is one more than `Life`, in the code two seconds.
* `MCPages`: looks 20 seconds apart, the page's reload interval, from three
  starting points over an hour and five minutes, and 40 seconds past the end; the
  code's branches are at 30 s, at a minute and at an hour. Names of up to three of
  five characters with two as the longest allowed; two addresses, since the
  properties relate two. `DOMAINS` has one host in two spellings, one with a
  capital and an empty one; one host name is not in it.

Symmetry is used only in runs without liveness, and only over inbox ids.

Four runs show where the code does not do what it, or its documentation, says:

| Run | Shows |
|---|---|
| `MCInboxCreation_failure_lost` | the goroutine marks the inbox as failed before the handler saves it; the save overwrites the mark, or, with SQL, the mark finds no row. The visitor keeps an address that gets no mail. `burner/email.go:33`: "this failure is picked up in the next request" |
| `MCInboxCreation_sweeper` | one failed statement and the clean-up loop is over (`break`, `data/sqldb/sqldb.go:49`) |
| `MCDatabase_sqlite` | SQLite does not enforce the cascade that is to delete mail; the mail of a swept inbox stays |
| `MCMailgunMail_refused` | `RegisterRoute` wraps a nil error into one that is not nil, so that an inbox Mailgun has a route for is marked as failed |

Not a run of its own: in memory and with DynamoDB, which have no constraint on
addresses, two requests that pass the check for one address both save it. The
check and the save are two calls, and `AddressUnique` is stated for SQL.

### Fairness

`WF_vars(Handle(id))`: the Go scheduler runs a handler that can run, and every
call it waits for returns, with an error if need be; all handlers' steps are
fair together because a handler has one next step. `WF_vars(Settle(id))`: the
same of the goroutine. Neither helps a process that was killed or frozen, whose
steps are not enabled. `WF_vars(CleanUp)`: the sweeps are timers of their own; in
DynamoDB it is the service's promise. With `Unreliable` this says that not every
clean-up fails for ever; the loop that ended has no step left, which is how
`MCInboxCreation_sweeper` gets its counterexample. Nothing is assumed of
`Restart`, `Tick`, `Freeze` or `Propagate`.

`MailgunSpec`: the loop comes round every hour (`WF` of `GetRoutes`, which is
enabled between its rounds), gets on with its page (`WF` of `PassRoute`), and
Mailgun does not fail every deletion of a route for ever (`SF` of `DeleteRoute`:
the route has to be on a page again after each failure). `ExpiredRouteDeleted` has
a way out for more routes than one page shows: `GetRoutes(1000, 0)` always asks for
the first page, and a route beyond it is never seen. Nothing is assumed of the
mails.

`WebSpec`: handlers run (`WF` of `Serve`), and some tab is left open whose page
reloads every 20 seconds (`Refresh`, `burner/server.go:82`), and not every one of its reloads is
broken off or fails (`SF` of `Look`, `Read` and `RevocationArrives` of that tab;
`WF` of its other responses). Nothing is assumed of the other tabs or the clock.

## The proofs

`InboxCreationProofs` proves, for any finite or infinite sets of ids and
addresses, any lifetime, any bounds, and each of the three databases:

* `TypeCorrect`, `CredentialSafe`, `MarksTrue`, `RevocationJustified`,
  `LambdaSafe`: the invariants of the same content hold of `Spec`;
* `NoStrays`: `NoStrayRow`, with any database but DynamoDB, where an update
  after a failed save makes an item;
* `AddressesUnique`: `AddressUnique` with a SQL database.

`InboxLifecycleProofs` proves `LifecycleImplemented`: `Spec` implements
`InboxLifecycle`. What such a life amounts to is proved of the abstract
specification alone (`LifeForwards`, `LifeInTime`) and carried over by the
refinement: `OnlyForwards` and `NoneTooEarly`.

`DatabaseClientProofs`: `ClientTypeCorrect`, `AcceptedKept`, `MailHoused` (where
mail and inbox are tied: DynamoDB, and SQL with foreign keys enforced) and
`ContractImplemented`, the refinement of `DatabaseContract`, for each of the three
databases at once.

`SmtpMailProofs` and `MailgunMailProofs`: the types; `SmtpKeepsContract` and
`MailgunKeepsContract`, by which what is proved of `DatabaseClient` holds under
these loads; `AnsweredServed`, `MailAddressed`, `RefusedPrefix`, `HadOneRecipient`;
`LiveRoutes`, `StoredTwiceAbandoned`, and `DealtWithSaved`, which is about steps.

`WebsiteProofs`: `WebTypeCorrect`, `SessionSafe`, and `SessionKept`, which is about
steps; `WebKeepsLifecycle` and `WebKeepsCreation`, by which what is proved of
`InboxCreation` holds behind a browser.

`PagesProofs`: `AgeTrue` and `CountdownTrue`, for a message of any age and an inbox
of any lifetime; `LastMinuteMisread`; of the addresses `NamesProper` and
`NamesInOneSpelling`, for whatever hosts are configured.

The assumptions are those the modules state of their constants
(`LowerAssumption`, `NilAssumption`, `DatabaseAssumption`, `CreationAssumption`,
`ClientAssumption`, `SmtpAssumption`, `MailgunAssumption`, `WebsiteAssumption`,
`GeneratorAssumption`, `PagesAssumption`); TLC evaluates them in every run of their module. They
say nothing of the deployment. That the length of random names is not that of a
reserved one (8, against words of 4, 5, 9, 10 and 13 letters) is so in the code,
but nothing there says that it has to be.

**The inductive invariant.** `CredentialHasInbox` is not inductive: that the row
is there when the response is sent depends on what the goroutine can have done
to it since the save, on the sweep not having been allowed to take it, and on no
crash having taken a store in memory. `IInv` is `TypeOK` and, for each id,

* `HandlerInv`: where handler and goroutine can be relative to each other, and
  what the handler's copy and its credential then are;
* `ClockInv`: while either works, the TTL is ahead of the clock;
* `RowInv`: a saved inbox's row has the handler's address and TTL and is there
  while it is worked on or not expired; a row that was not saved can only be the
  goroutine's (in memory while the handler has not come to the save, in DynamoDB
  a fragment without a TTL); marks agree with the provider's answer.

`Frame` says that an id whose variables and row did not change keeps all three,
so each action's lemma deals with its own id only: `HandlerStep`, `SaveStep`,
`TaskStep`, `UpdateStep`, and `CleanUpStep`, `RestartStep`, `TickStep` for the
actions that touch all of them. What an operation of `Database` can do to the
rows is stated and proved once for the three implementations in `DatabaseProofs`.

The refinement proof computes the status of each id before and after a step:
`OneLife` turns "this id's status changed from s to t" into the abstract action.
`SaveLife` is where the order of goroutine and save matters: a row that is there
before its save is overwritten by it, so that no inbox starts its life settled.

**DatabaseClient.** `CInv` follows an inbox's TTL from the inbox the program drew
up (`KnownInv`), over the row (`RowInv`), to the message made from the row
(`SentInv`) and to the message that is stored (`MailInv`). Only because all four
agree does a sweep, which looks at rows and messages separately, never take mail
before its time (`KeptInv`). Fragments in DynamoDB are where they do not agree: a
fragment has no TTL, and a message made from one has none either, but a fragment
takes no mail (`Housed`), so that such a message is never stored. `RowInv` also
says that the in-memory store, which puts the program's copy of an inbox in place
of its own, has had no reason to change it until then; this holds whether the copy
comes before the save, after it, or after the sweep. The refinement takes one
lemma per action; `ContractSettle` has the three things an update of an absent row
can come to, and of a sweep it is shown that the ids and messages that went are
due.

**SmtpMail.** `AttemptInv` is the loop invariant of `handleMessage`, per attempt:
the entries before the place are served, those after it not begun. It is stated
for handlers that ended or died too, since `AnsweredMailIsServed` is about those,
and a served entry stays served (`ServedKept`) because messages, known inboxes
and outcomes do not change once they are there. `OwnedInv` says that every message
is some attempt's, which `MailWasAddressed` needs, `IndexInv` that DynamoDB's lagging
index knows no address the program did not store. `RecipientInv` follows what RCPT found
through the handler to the messages it makes: the session forgets its recipients
at DATA, while the inbox that let the mail in may be gone long before it is saved.

**MailgunMail.** `RouteInv`: a route that was made is there until its inbox's
TTL. `HookInv`: an attempt that has not come to its save made no message, nor did
one that was answered with an error. `PostedInv`: Mailgun goes on to another
attempt only when it heard an error or stopped waiting for the one before. The two
together are `StoredTwiceOnlyIfAbandoned`.

**Website.** Every step of a browser is one of `InboxCreation`'s or none, so that
`IInv` holds. `WInv` adds that the cookie is of an inbox whose credential was
issued, and that a response that takes a cookie back is about an inbox the
provider refused.

**Website over InboxLifecycle.** `WebStepCreation` makes a step of a browser a step of
`InboxCreation`, `StepLife` makes that a step of a life.

**Pages.** What the loop over a text leaves in its variables depends on all of the
text, of which there is one shape for an hour and more, one for a minute and more
and one below. `Loop` is a recursive function over the places of a text. That a
function with such a definition exists needs an induction over the length of the
text, stated for sets of numbers (`Induction`) and proved from the well-foundedness
of the natural numbers; what it yields for a text of a given shape is then worked
out round by round. The rest is arithmetic with `\div` and `%`, spelled out in
lemmas.

**EmailGenerator.** Every name given out is its own lower case and every host a
configured one, which is its own lower case too if it was chosen; a random name,
which the code never checks, passes all checks. Two addresses that are alike
therefore have the same name, and the same host unless one of them is random and
its host has a capital.

**Only model-checked:** liveness (`RequestsAnswered`, `ExpiredInboxDeleted`,
`ExpiredMailDeleted`, `ExpiredRouteDeleted`, `FailedSessionEnds`), which needs
fairness and is out of TLAPS's reach here.

## Not modelled, and limits

* Headers, static files, metrics, avatars, HTML rewriting: no state.
* The JSON API's two reading endpoints and the token that opens them: the handlers
  change nothing, and the token is a library's signature over the inbox's id and
  TTL, which `InboxCreation` has as the credential. That their answer leaves out
  `FailedToCreate` is so, and promised otherwise nowhere.
* Start-up: a sequence without state, see `MailgunMail` above.
* The substring test of the blacklist: a property of the letter.
* DynamoDB reads of the base table return the latest item. They are eventually
  consistent in the code (`GetItem` without `ConsistentRead`); only the index is
  modelled as stale.
* A message id and an inbox id are never drawn twice.
* `Website` and the mail modules are not composed with each other: they meet in the
  row of an inbox, of which mail reads the address, the id and the TTL, which
  never change once it is saved.

What is left that could be done: eventually consistent base-table reads, and a
client of the JSON API that polls as `Website`'s tabs do.

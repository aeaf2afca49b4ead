# The Kinó Café manager backend, in TLA+

The backend is a NestJS server with a PostgreSQL database behind Prisma, a Redis
cache, an object store (Cloudflare R2) and a mail provider (Mailjet). Handlers
are `async` functions: between two `await`s of one handler any other handler may
run, any awaited call may reject, and `deploy.sh` restarts the process at any
moment (`pm2 restart`, lines 27-29). No handler opens a database transaction of
its own. Almost everything that can go wrong in this program goes wrong between
two awaits, and that is what the modules model: **one action is one awaited call
with the code up to the next one**, and a call that rejects, or a restart, is an
action of its own.

Paths below are relative to `src/src/`, the schema is `src/prisma/schema.prisma`.

## 1. Inventory

| part | state it keeps | operations | hard behaviour |
|---|---|---|---|
| Membership cards (`admin/admin.service.ts:199`) | `Member.membershipCardNumber`, `memberSince` | `addMembershipCard` | two checks, the write, the PDF, the undoing and the mail are separate calls; two administrators at once; the undo uses what was read first |
| Membership PDF (`membership-pdf/`) | none | `generateMembershipPdf` | reads the row a second time, inside the card's handler |
| Newsletter (`newsletter/`) | newsletters, deliveries, subscriptions, a cached list | a cron job every minute; subscribe, unsubscribe | runs overlap, the cached list is stale, mails fail or are accepted unseen, restarts |
| Registration and signatures (`auth/auth.service.ts:238`, `member/member.service.ts:65`) | member rows, images in R2 | `signup`, `addSignature` | bodies that are rewritten before they are validated; the existence check, the upload, the row; keys made of a second and a codice fiscale; only the email is unique |
| Password reset (`auth/auth.service.ts:106`, `:198`) | `resetPwdJwt`, `password` | `forgotPassword`, `resetPassword` | links that age, expire and replace each other; mail that nobody waits for |
| Attendance (`attendance/`) | check-in rows | make a QR code, check in | two look-ups and a create; one catch block for every error; events deleted by hand |
| Expenses (`expense/`) | rows and pictures | create, set repaid, delete, list | row and picture are written and deleted by different calls |
| Purchases and items (`purchase/`, `item/`) | purchases, lines, items | create, delete, report, receipt over the socket; create item | prices that move while a purchase is stored; a report in two reads; amounts at their bounds |
| Object store, mail (`r2/`, `mail/`) | images; none | upload, download, delete; `sendEmail` | a call that rejects may have taken effect |
| Sessions and guards (`auth/`, `member/`) | none: tokens of two weeks | login, renewal by `getMember`, guards | the role in a token is as old as the token; role and password are read before bcrypt and the signing; the renewed token is signed before the row is updated |
| Administrator reads and forms (`admin/admin.service.ts:45`, `membership-pdf/`) | none | spreadsheet, form of a member; user list, cards, signatures | two sheets from two reads, a form drawn from a row that may change back |
| Istat (`istat/`) | a cached list, a search index | list and search of comuni | none: the list comes from a library and never changes |
| Opening days, shared helpers, validation, wiring | none | one read; word endings; checks of bodies | none |

How they interact: every handler shares the `Member` table; the card handler
calls the PDF service, which reads the row again; `signup` ends in `login`; the
newsletter and the card, reset and sign-up handlers hand mails to the mail service,
only the newsletter waits for the answer; registration and expenses share R2;
purchases read items, attendances refer to opening days. Newsletters, opening
days, cards and prices are changed by hand in the database: no endpoint
does it, and the modules have actions for it where a handler can notice.

What makes each part correct is the list of properties in section 4.
`PROJECT.json` has the hazards, line by line, with the properties that cover them.

## 2. Modules and how they correspond to the code

| module | is | state | actions, in the order of the code |
|---|---|---|---|
| `MembershipCard` | `addMembershipCard` with the PDF's read | card and date of each member, who has signed; per request its body, phase, first read, PDF and mail | `FindMember`, `FindCard`, `Connect`, `ReadPdfData`, `RenderPdf`, `Rollback`, `Answer`; rejections `QueryFails`, `PdfFails`, `RollbackFails`, `TemplateFails`; environment `AddSignature`, `Crash` |
| `CardRegistry` | what the assignment promises: no card twice, and a request without rival is a transaction | card and date of each member; per request what it names, the date it found, whether it had a rival | `Begin`, `Give`, `Undo`, `Close` |
| `Newsletter` | `sendScheduledNewsletters` | newsletters, deliveries, subscriptions, cache entry; per run its stage and local variables | `Tick` (the cron), `LookupHits`/`LookupMisses`, `Query`, `Store`, `Pick`, `FindRecipients`, `Send`, `RecordSent`, `RecordFailed`, `MarkSent`, `MarkFailed`; `QueryFails`, `UpdateFails`; `Create`, `Subscribe`, `Unsubscribe`, `Crash` |
| `Registration` | `signup` with the `ValidationPipe` and the transforms of its DTO, `addSignature` | rows with email, codice fiscale and phone number as text, signature keys, objects in R2; per request key and phase | `Refuse`, `FindExisting`, `Store`/`UploadFails`, `Decode`, `Create`/`CreateFails`, `Welcome`, `Login`; `FindSigner`, `SaveKey`/`SaveFails`; `Tick`, `Crash` |
| `MemberRegister` | what a reader of the Member table may rely on | mailboxes (whatever their spelling), keys, stored images | `Store`, `Register`, `Sign` |
| `PasswordReset` | `forgotPassword`, `resetPassword` | link and password of each member, links that arrived; per request link, first read, phase | `FindMember`, `Verify`, `Sign`, `SaveLink`, `SendMail`/`TemplateFails`, `AskFails`; `VerifyLink`, `CompareLink`, `ChangePassword`, `ResetFails`; `Tick`, `Crash` |
| `Session` | `login`, `getMember`, the two guards | members, roles, passwords, tokens that are out; per request what it read, its token and phase | `FindMember`, `Compare`, `Sign`; `Verify`, `ReadMember`, `Renew`, `Answer`; `Admit`; `Fail`; by hand `Promote`, `Demote`, `Remove`; `ChangePassword`, `Tick`, `Crash` |
| `Attendance` | QR codes and check-ins | events and members that have a row, check-in times, codes; per scan its code, time and phase | `FindEventToPrint`, `MakeCode`; `Verify`, `FindEvent`, `FindFirst`, `FindSecond`, `Create`/`CreateRefused`, `CallFails`; `DeleteEvent`, `DeleteMember`, `Tick`, `Crash` |
| `Expense` | the expense service | rows, `repaid`, pictures; per request its target and phase | `Start`, `Upload`/`UploadFails`, `Insert`/`InsertFails`; `SetRepaid`(`Fails`); `Find`, `Unlink`(`Fails`), `Remove`(`Fails`); `Crash` |
| `Purchase` | purchases, items, receipts, reports | prices, purchases, lines (a set: rows have no order); per request what it read, its bill, its receipt; per report what it read and its sheet, with a row for each name that was sold | `FindItems`, `Create`/`CreateFails`, `Emit`; `Delete`; `ReadPurchases`, `ReadItems`; `CreateItem`, `Reprice`, `DeleteItem`, `Crash` |
| `CardReaders` | the spreadsheet and the form of a member, composed with `MembershipCard` | its two sheets, the card on each form; who was in flight beside whom | `ReadMembers`, `ReadCards`, `WriteBuffer`; `ReadRow`, `Deliver`; `ReaderFails`; `Restart`, and every action of `MembershipCard` |

`MC*` instantiate a module for TLC (symmetry sets, small definitions);
`*_proofs` hold the theorems (those about `CardReaders` are in
`MembershipCard_proofs`, whose lemmas they use). Definitions that begin "Mutant:" are plausible
slips of the code; no specification uses them.

Conventions. `phase` (or `stage`) of a request is the call it waits for;
its last values are the answers, told apart where the code tells them apart.
`overlaps` is a history variable: the pairs of requests that were in flight at the
same time. Many properties have the form "so and so, unless a rival was in
flight": that is what the code guarantees without transactions, and it says
exactly which race is to blame when it does not hold. `beside` is the same between readers and card requests. `found`, `fromCache`, `alone`
(newsletter), `mailed` and `first` (cards), `gone` (purchases), `inbox` (reset), `withdrawn` and
`caught` (sessions) are histories as well.

A text a client types is a value and a form: "a@b.it" and "A@B.it " are one email
written in two ways. The transforms of the DTO (`Cleaned`) bring each value to the form
`Plain`; comparing texts, as the queries do, and comparing values, as a reader would,
is not the same, and the properties compare values.

## 3. What is assumed of the environment

* A Prisma call is atomic: it takes effect, or rejects without effect. Unique
  and foreign keys, cascades and defaults are those of the schema. Connecting
  a card over the one-to-one relation disconnects its former holder.
* An R2 upload or deletion that rejects may have taken effect. A mail
  that `sendEmail` reports as failed may have arrived; one it reports as sent has.
  Mails that nobody waits for may be lost.
* The cache is Redis and survives a restart. An entry ends at its time to live;
  an empty list is an entry, since `[]` is truthy. Any read or write of it may fail.
* Minutes, seconds and hours are small numbers; a token is its email or event and
  the second it was signed in, which is what determines its text.
* Amounts are whole cents. The rounding of binary fractions is not modelled. A list of
  purchased items is not empty and its quantities are at least 1, as the DTOs demand
  (`create-purchase.dto.ts:24`, `purchased-item.dto.ts:19`); prices and discounts have
  any sign, and so has what is given on a card (`purchase.dto.ts:44`).
* Reset links live at least as long as they must lie apart (`Spam <= Life`): 5 minutes
  and one hour in the code (`auth.service.ts:130`, `:152`).
* Names of different kinds are different: a request is no member, an absent value none
  that can be typed. These are the named `ASSUME`s of the modules; TLC evaluates them.
* Roles and rows are changed by hand at any moment. An event, or a member, is deleted with
  its check-ins (`schema.prisma:165-168`), an item with the lines of purchases.
* Card number 0, which `admin.service.ts:213` takes for no card, is excluded. The
  attachment of the card mail is named by the number read first, always `null`
  (`admin.service.ts:288`): a file name, and left out.

## 4. Runs

Each run is one configuration file. Deadlock is not an error in any of them: when
every request has been answered and the clock has reached its bound, the modelled
system may stop. Type invariants are proved for every module and not run again.

| run | instance | what it shows |
|---|---|---|
| `card` (`Card.cfg`) | 2 requests with arbitrary bodies, 2 members and an id without row, one member with incomplete data, 2 cards and a number without row, any initial holders | `CardsUnshared`: no two holders of a card. `EveryHolderJustified`: every card held is accounted for by the request that gave it; a 400 leaves none. `GrantLostOnlyToRival`: a 200 lasts unless a rival was in flight. `PdfShowsOwnCard`: so is the second read. `OriginalDateKept`: a member without a card has the date it had before any request, or that of a request that had a rival. `RegistryRefined`: a request without rival writes to a row and a card that are still as it found them, and its undoing puts the row back. `EveryRequestEnds` |
| `news` (`News.cfg`) | 1 newsletter, 2 members, 2 runs that may overlap, a window of one minute each way | `SentWasMailed`, `DeliveriesFinal`, `EveryoneRecorded`: rows are true, final, and complete where the newsletter is about to be SENT. `NeverEarly`, also from the cache. `SendingHasRun`: SENDING is left behind only by a run that was cut off. `RetrySkipsRecorded`: a run that is alone and reads the database mails nobody twice |
| `news_progress` (`NewsProgress.cfg`) | 2 newsletters, 1 member, 1 run | `EveryRunEnds`: whatever rejects, the run leaves both loops |
| `readers` (`Readers.cfg`) | the card requests of `card`, a spreadsheet and a form | `SheetsAgree`: the two sheets tell the same of every member and card, and `FormLasts`: a form shows a card its member still holds, unless a card request for that member or card was in flight with the reader |
| `register` (`Register.cfg`) | 2 sign-ups, 1 request to sign, a member without signature; emails, codes and phones shared and spelled in every way, bodies that are invalid or make a transform throw; 2 seconds | `TwinsWereTogether`: a second row for a code or phone, however typed, needs two sign-ups in flight together. `SignatureIsOwn`: no upload lands on another person's key. `SuccessLasts`, `OrphansExplained`. `RegisterRefined`: rows are never lost, mailboxes unique, no row names an image that is not stored |
| `session` (`Session.cfg`) | 1 login, 1 visit, 1 call, 1 member, 2 passwords, 4 seconds, tokens alive for 2 | `RenewalHeedsRow`: a token that names a role was signed while the member had it, or by a request in flight when it was taken away, however often it is renewed. `RoleLapses`: a life of a token after a role was taken away it admits nobody, but for those requests. `TrustedByPassword`: a replaced password opens nothing |
| `reset` (`Reset.cfg`) | 2 requests for a link, 1 to use one, an unknown email, 4 seconds, links too young for 2 and alive for 3 | `NoSpam`, `LinkLasts`: links are spaced, and one that was mailed is not made useless before its time. `SilenceIsShort`: who is answered 200 without a mail had a link written for less than the interval. `ResetByCurrentLink`, `RefusedWasReplaced`. `EveryRequestEnds` |
| `attend` (`Attend.cfg`) | 2 requests for codes, 2 scans, 2 members, 2 events and an id without row, 2 minutes, codes that expire, events and members deleted at any moment | `AnsweredMeansPresent`: a 200 has a row. `ConfirmedOnce`: of scans that overlap one checks the member in, and its time stays. `TakenByRival`: only a simultaneous scan, or a deletion, turns a scan away at the unique key |
| `expenses` (`Expenses.cfg`) | 2 creations, 1 update, 2 deletions, equal or different contents | `PictureKept`: no row names a missing picture until a deletion began. `NoPictureLeft`: a deleted expense leaves no picture. `DeletedOnce` |
| `sale` (`Sale.cfg`) | 2 purchases, 1 deletion, 1 report, 2 items, one without a name, a negative price, lists of two lines, of two items or of one item twice, a discount or none | `TotalInRange`; `ReceiptAddsUp` however prices move; `LinesKept`: a stored purchase has the lines of its bill for items that exist, one for each; `ReportAddsUp`: the sheet has every quantity read, and an article is unknown only if an item read was deleted, has the empty name or is named like the placeholder, although purchases and items are read in two calls |

Two runs look for the opposite: something a document, a comment or an index of the
repository says and the code does not do. TLC finds a behaviour that refutes each.

| run | refutes | how |
|---|---|---|
| `news_twice` | one delivery per member and newsletter (`schema.prisma:89`) | two runs, one after the other: the second takes the newsletter from the cache, deliveries and all, mails again, and marks FAILED what was SENT |
| `reg_no_code` | "Codice Fiscale, can be null" (`member.dto.ts:71`) | without one `cfData` is undefined and reading from it throws, after the image was stored |

### Other disagreements met while modelling

These have no run; the property that does hold, and that a run checks, is in brackets
where there is one.

* "user already has a card" is a 400 (`admin.controller.ts:88`), but of two requests for one
  member in flight together both pass the check (`admin.service.ts:213`), and the second
  replaces the card of the first (`:227`) [`GrantLostOnlyToRival`].
* The discount has "default: 0" (`purchase.dto.ts:29`); without one the amounts are NaN
  (`purchase.service.ts:253`) and the row is rejected with a 500 [`TotalInRange`].
* `member.controller.ts:53` documents 401 for a member that is not found; `addSignature`
  answers 404 (`member.service.ts:75`).
* `auth.controller.ts:35` documents 400 for invalid input; an email that is not a string
  makes a transform throw (`member.dto.ts:60`) before anything is validated, a 500
  (`Refuse`).
* `admin.service.ts:259` says the original `memberSince` is kept. The value put back is
  the one read first, so that of a request undone meanwhile may come back
  [`OriginalDateKept`].
* The report calls an item "Articolo Sconosciuto" that is there, if its name is empty
  (`purchase.service.ts:145`, `:166`), which `item.dto.ts:14` allows [`ReportAddsUp`].
* `newsletter.service.ts:202` says "fully SENT"; deliveries may be FAILED
  [`EveryoneRecorded`].
* An empty list is cached for an hour (`:70`, `:99`), so a newsletter whose five minutes
  of buffer (`:86`) fall in that hour is never taken.
* A signature "can't be overwritten" (`member.service.ts:79`); of two requests in
  flight together the second overwrites the first [`SuccessLasts`].
* `auth.controller.ts:36` documents 409 for a known codice fiscale or phone number; two
  sign-ups in flight together both get a row [`TwinsWereTogether`].
* `auth.controller.ts:47` documents 200 as "email sent"; a request within five minutes of
  one that failed after saving its link is answered 200 with no mail on its way
  [`SilenceIsShort`].
* Of two simultaneous scans of one member the second is answered "Invalid QR code"
  (`attendance.service.ts:153`) for a valid code [`TakenByRival`].
* The change on a cash receipt has a point where the other amounts have a comma
  (`purchase.service.ts:77`, `:99`).
* A member born abroad has no `birthComune` (`auth.service.ts:281`), which the PDF
  requires (`membership-pdf.service.ts:46`): such a member can never be given a card.

### Why the instances are large enough

All safety properties are proved for every instance (section 5), so the instances matter
for liveness, and for showing that the interesting cases happen: every mutant of the
code must be caught by them. A violation needs
two actors: two writers of one row, key or link, and at most one bystander. Two requests of a kind and one
of the other, over a clock that reaches the end of every interval, cover every
order of any two of them with every failure and a restart at any point. The
parameters a request brings (bodies, targets, prices, what persons share) are
chosen freely in `Init` or by the first action of a request. `Horizon`, `LastSecond`,
`LastMinute`, `Prices`, `Carts`, `Discounts` and `Amounts` are the only bounds.
The theorems hold for any values of them.

### Fairness

The `FairSpec` of cards, newsletter and reset has weak fairness of what a request, or a
run, does next, and of nothing else: an awaited call settles sooner or later, by result or by rejection.
Nobody is obliged to send a request, to let the clock go on or to restart the process.
The other modules state none: nothing in them has to happen. Symmetry is used only in
runs without liveness.

## 5. What is proved

Eight modules hold theorems, checked by TLAPS for every value of the constants that meets
the named assumptions (disjoint names; rows among ids; times in `Nat`; amounts in `Int`).
Each safety property a run checks and no document refutes is a theorem, and so is the type correctness of every
module. No set of requests, members, items or names is assumed to be finite.

* `MembershipCard_proofs`: `TypeOK`, `CardsUnshared`, `EveryHolderJustified`,
  `GrantLostOnlyToRival`, `PdfShowsOwnCard`, `OriginalDateKept`, and the
  refinement `RegistryRefined`; of `CardReaders`, `ReadersTypeOK`, `SheetsAgree` and
  `FormLasts`. `CardsUnshared` is inductive
  with the types, because `Transferred` takes the card from its former holder. The others
  are not. They need what the checks of a request established (`Located`), that requests in
  flight together are in `overlaps` (`OverlapsRecorded`), that what a request wrote is as
  it left it unless it had a rival (`Lasting`), that the card of a request's member
  is its own or none unless it had a twin (`OwnCardOrNone`), and where each
  date in a row or a first read comes from (`DatesTraced`). A rival can only disturb a
  request while both are in flight, and then `overlaps` has the pair for good.
  The refinement needs that a request in flight that has had no rival has its row to itself
  (`Undisturbed`): before it writes, member and card are free and the date is the one it
  read; afterwards they are its own. Then, one action at a time, the first read is `Begin`,
  `Connect` is `Give`, `Rollback` is `Undo`, and what ends a request is `Close`.
  What an export read first is still so when it reads again, and what a form shows is held
  for good, unless a card request was beside the reader (`SheetsKept`, `FormsKept`).
  `ReadersImplementCards` says that the composition implements the card assignment, so that
  all of the above holds among readers.
* `Newsletter_proofs`: `TypeOK`, `SendingHasRun`, `NeverEarly`, `DeliveriesFinal`,
  `SentWasMailed`, `EveryoneRecorded`, `RetrySkipsRecorded`. The strengthenings are
  `Placed` (what the stage of a run says of its local variables), `DueNear` (what is due, cached or being worked
  on lies within the window of a clock that only grows), `KnownAreRows` (deliveries a
  list came with are rows, and rows are never deleted), `FoundTraced` (each
  recipient found is still to do, being mailed, or recorded), and for retries
  `AloneIsOnly` (who is told to be alone is: only the clock starts runs) with
  `RetriesFresh` (whom such a run has still to mail has no row, since nobody else writes).
* `Expense_proofs`: `TypeOK`, `PictureKept`, `NoPictureLeft`, `DeletedOnce`. The invariant
  they share: rows are of creations that are done, a deletion that went on found a row
  of a creation that is done, and one that waits to remove the row has already removed
  the picture, which only the creation could bring back.
* `Registration_proofs`: `TypeOK`, `TwinsWereTogether`, `SuccessLasts`, `SignatureIsOwn`,
  `OrphansExplained` and the refinement `RegisterRefined`. What the pipe lets through is
  written in one way (`Clean`), so that comparing texts finds equal values; `Places` and
  `Signatures` tie phases to rows and keys; an object lies under the key of the request
  that stored it (`Images`). `SignupsMet` and `SignersMet` are the heart: a sign-up that
  passed its check has met, in flight, every member like it that came later, and whoever
  signed for a person while another was signing met it. `ImagesKept` follows: what
  a request stored is replaced only by one with its code that it met.
* `PasswordReset_proofs`: `TypeOK`, `NoSpam`, `LinkLasts`, `ResetByCurrentLink`,
  `RefusedWasReplaced`, `SilenceIsShort`. A link that is stored, mailed or in use was written
  (`LinksWritten`, `LinksMailed`), and `RequestsKnow`: a request at work knows of each
  request of its member that was done before it, and has read its link or a younger one.
* `Attendance_proofs`: `TypeOK`, `AnsweredMeansPresent`, `ConfirmedOnce`, `TakenByRival`.
  Every row is of a scan that is done (`RowsMade`), and one that is about to create a row
  has met every scan that created it since its queries (`CreatesFirst`).
* `Session_proofs`: `TypeOK`, `RenewalHeedsRow`, `TrustedByPassword`, `RoleLapses`. Each
  token, out or about to be, names a role its member has, had when it was signed, or lost
  while the request was in flight (`TokensHeeded`); so it is for the role and
  the password a request has read (`RolesRead`, `HashesRead`).
* `Purchase_proofs`: `TypeOK`, `TotalInRange`, `ReceiptAddsUp`, `LinesKept`,
  `ReportAddsUp`. The sums of the model are folds over finite sets, of which the library has
  no usable theorem. The first part proves what is needed: a sum exists for every finite
  set (a set without one would have a smallest such subset), it does not depend on which
  element is taken first, and from this that equal summands give equal sums, that an element
  can be taken out, that a sum can be taken over renamed elements (`SumRenamed`: the
  lines of the receipt for those of the request), over a table by rows or by columns
  (`SumExchange`), and by name (`SumByName`: the sheet of the report). Induction is over sets of
  sets, not over a predicate. The second part is the invariant: a bill has the lines and
  the sum of its request (`Billed`), a receipt those of its bill at the prices read first
  (`Receipted`), and each line of a stored purchase, or read by a report, is of an item that exists
  or was deleted (`ItemsKnown`, `Reported`), because an id is never used again; that is
  why an unknown article with a name of its own on a sheet means a deletion.

Beside the properties of the runs:

* `RunsDescend` with `WorkIsLeft` (newsletter) and `RequestsDescend` (cards, reset) are the part
  of liveness that needs no fairness: each step of a run or request goes down a well-founded
  order (lexicographic for a run: what it has still to list, the newsletters left, the
  recipients left, the recording of one delivery), nothing another actor does takes it
  up again, what has ended stays ended, and a loop is entered only with something
  left. `EveryRunEnds` is checked on two newsletters and one member; this holds for any number.
* `MailboxesHaveOneRow` (registration): the unique index compares texts, so that mailboxes are
  unique only because the DTO writes each address in one way (`Clean`).

Only model-checked: liveness under fairness (`EveryRequestEnds`, `EveryRunEnds`), since
weak fairness speaks of ENABLED, which the prover does not have.

## 6. Not modelled

* Reads that are one query and change nothing: lists, opening days, attended events, the
  download of a signature. Whatever such a read returns was true at one moment.
* Istat: the cached list comes from a library and is constant, so it does not matter
  which request built the index another one searches.
* Of the validation of bodies: only sign-up is modelled, where it rewrites what is
  compared later. All other requests begin with a body that passed.
* The word endings of the shared helpers, which are wording.
* Layout, wording, logging; rendering of mails, PDF, QR code and workbook.
* The removal of a member's row by hand: only `Session` and `Attendance` have it, where a
  token outlives its member. In all other modules members stay; there it would make a
  handler's update reject, as any call there may, but would also take deliveries along.
  Items are not renamed.
* Sockets that come and go: `Emit` is what whoever is connected receives.

## 7. Plan

The order was: cards (the operation with most awaits and an undo), newsletter (the
only concurrent job), registration, reset, attendance, expenses, purchases; then sessions,
the readers beside the card requests, the bodies of a sign-up, and the proofs of all
modules, those of the sums in `Purchase` last. What is left:

1. A composition of `Registration` and `MembershipCard` over one Member table: sign up,
   sign, be given a card, which needs the signature the first two leave. Each module has
   the other's effect as an action of its environment (`AddSignature`) or as rows that
   are there from the beginning (`Legacy`).
2. Binary fractions: the rounding of prices in `Purchase`, which counts in cents.

## 8. Running

`tlc -config Card.cfg MCMembershipCard` and likewise for the other runs, with the module
and configuration named in `PROJECT.json`; `tlapm MembershipCard_proofs.tla` for the
proofs. The `readers` run takes three minutes on
two workers, each other under two; each proof module a few minutes at most.

# KinSittr in TLA+

KinSittr lets parents book nannies. A Go API (`apps/api`) serves a web front end
and an admin console, keeps everything in PostgreSQL, charges parents and pays
nannies through Stripe, and stores files with a media host. This directory
holds TLA+ specifications of the parts of the API where requests, webhooks,
processes and failures interleave, and of what the browser keeps between
requests: its query cache, its session and the buttons of its pages; the
configurations with which TLC checks them on small instances; and theorems,
proved with TLAPS, that hold for every instance. Paths below are relative to `apps/api` unless they say otherwise.

- [The system](#the-system)
- [How the code is modelled](#how-the-code-is-modelled)
- [The modules](#the-modules)
- [What the runs check](#what-the-runs-check)
- [What the proofs show](#what-the-proofs-show)
- [Where code and documentation disagree](#where-code-and-documentation-disagree)
- [What is not modelled](#what-is-not-modelled)
- [Plan](#plan)

Checking a run: `tlc -config Moderation.cfg MCModeration.tla`. Checking a proof:
`tlapm ModerationProofs.tla`. `PROJECT.json` lists the runs, the source lines of
every definition, the mutants and the hazards of the code.

## The system

Every component is a set of HTTP handlers (`*/pipes/*.pipe.go`) over a
repository (`repositories/*`) that turns each call into one SQL statement or one
transaction. There is no in-memory state shared by requests: the components
meet in the database, at Stripe, and in the order in which a handler makes its
calls. What makes them hard is always the same: a handler decides on what it
read some calls ago.

| Component | State | Operations | Meets | Hard behaviours | What makes it correct |
|---|---|---|---|---|---|
| **Bookings**: scheduling and change requests (`bookings`, `repositories/bookings`, `admin/pipes/list.bookings.pipe.go`) | `bookings` (status, start, duration), `booking_change_requests`, two exclusion constraints, one partial unique index | create, approve, decline, cancel, complete; request, accept and decline a reschedule or a cancellation; admin cancel and complete | payments (charge when completing, refund when an admin cancels), conversations (opened by the approval), reviews | conflict checks race with writes; a proposal is accepted after the booking moved on; time passes between check and write | nobody is double-booked; hours move only by consent; an agreed cancellation stays; an answer given stays |
| **Payments** (`payments`, `repositories/payments`, `shared/stripe`) | `booking_payments`, `stripe_webhook_events`; at Stripe: payment intents, charges, refunds | charge, retry, refund, apply a webhook event, list mismatches for the admin | bookings; Stripe calls back | three records of the same money with nothing atomic across them; timeouts after Stripe has acted; events late, repeated and out of order; crashes between charge and record | completed only if charged; charged once; the row claims only what Stripe knows; a failed payment can be repaired; what went wrong is listed |
| **Reviews** (`reviews`, `repositories/reviews`, migrations 16-18) | `nanny_reviews`, `parent_reviews`, the audit records of moderation, `nanny_profiles.rating_avg/rating_count` | review a nanny or a parent, flag, unflag | bookings (read only) | the rating is derived from rows that other open transactions are changing; row locks of reviews and nannies | only service that took place is reviewed; reviews stand; audit records and visibility agree; ratings come from reviews |
| **Migrations** (`db/migrate.go`, `cmd/migrate`) | `schema_migrations`, `schema_migration_failures`, a session advisory lock, the schema | migrate, baseline | every instance that starts, the deployment pipeline | instances of different builds start together; runners die around a commit | a migration takes effect once, on the history its build expects; starting ends |
| **Accounts and sessions** (`auth`, `admin/auth`, `repositories/account`, `admin/pipes/account.suspension.pipe.go`, `admin.users.pipe.go`, `workers/recovery`) | `users`, `refresh_sessions`, `password_recovery_tokens`, `admin_invites`, `admin_account_actions` | register, log in, refresh, log out, change and recover a password, deactivate, suspend, reactivate, invite, accept, disable | all handlers, through the tokens | refresh against log-out and suspension; slow password hashing; several recovery requests and resets; admins who act at once | a link is used once; an address keeps its account; the audit records tell what happened; an inactive account gains nothing |
| **Screening** (`admin/pipes/screening.pipe.go`, `repositories/admin/nanny.repository.go`) | verification status, screening steps, `admin_nanny_actions` | start, tick and untick steps, verify, reject, reset | bookings (only verified nannies are asked) | steps and decisions by several admins at once, each on what it read; steps are merged and written as a whole | the records are a chain; whoever is verified had every step confirmed |
| **Conversations** (`conversations`, `repositories/messages`, `repositories/admin/conversations.go`, the composers of the front end) | conversations, messages, read marks, admin locks; on the page: the draft, the conversation shown, the send under way | send, resend, lock, unlock, hide | bookings (opened by the approval) | a lock between check and insert; answers that get lost; a page that moves to another conversation under the draft | a text is stored twice only if the page said that sending failed; a draft is given up only once it is stored |
| **Saved cards** (`payments/pipes/parent.billing.pipe.go`, `booking.payment.pipe.go`) | the customer and default on record; at Stripe: customers, cards and a default of its own | set a card up, set the default, delete; look for a card to approve or charge with | payments (the card that is charged), bookings (approval needs a card) | a setup that was asked for twice or ended half way; a default read, looked up and written by several handlers; the last card deleted against an approval | cards are with the customer on record; the last card stays while something is to be charged; a card that is there is charged |
| **Payout accounts** (`payments/pipes/nanny.connect.pipe.go`, `webhook.pipe.go`) | the account on record and whether it is complete; at Stripe: accounts and their state | ask for a link, look at the status, apply `account.updated` | Stripe calls back | three writers of one flag, each from an answer that may be old; events late, repeated and out of order | the account on record is the one that was filled in; a complete account is noticed |
| **Reminders** (`workers/notifications`, `repositories/notifications`) and notifications | notifications, one reminder per booking and party | remind; notify and read | every handler notifies, best effort | workers of several servers, started at different times, with overlapping windows | every party is reminded once |
| Profiles, documents, avatars | one row per owner, files at the media host | edit, upload, delete, list | screening reads documents | a file without its row | - |
| **Web: pages and query cache** (`apps/web/src/utils/api`, `apps/web/src/components`) | the cache's entries, mutations under way | queries, mutations, invalidations, polls | every handler | a refetch that started before the write; a lost answer; a query that is forgotten | what the user has done is shown when nothing is under way |
| **Web: session of a browser** (`utils/api/session.ts`, `api.ts`, `auth.ts`, the guards, `proxy.ts`) | one stored session and a role cookie for all tabs | sign in, register, refresh, sign out, guard, leave | accounts and sessions | several requests refresh at once, in several tabs, around sign-ins and sign-outs | one person at a time; a live session is not thrown away |
| **Web: buttons** (the tables, cards, panels and dialogs) | what a page has read of a row, the dialog, calls under way | click, submit a reason, refetch | the handlers of bookings, screening, accounts, moderation | a row changed by others; calls for two rows at once; answers out of order | a refusal has a reason |
| Clients, server, middleware, configuration | none of their own | - | - | - | - |

## How the code is modelled

**A handler is a small process.** The variable `h` (`tx` in `Reviews`, `r` in
`Migrations`) says for each handler which call it makes next and what it
remembers. Each statement or transaction of the repository is one action;
between two of them everybody else may act. A guard that stands in a `WHERE`
clause or a constraint is a guard of the write; a check that the handler makes
on a row it has read is a guard of the read, and may be stale when the write
comes. `GiveUp` (or `Crash`, `Disconnect`) ends a handler before any of its
calls, which covers failed lookups, failed statements, errors of Stripe, clients
that go away and processes that die: what was committed before stays.

**Data is abstracted to what decides.** Identifiers are model values. Hours are
small records `[start, dur]` and the clock counts hours. Money has no amount,
only whether Stripe took it and for which booking. A rating is kept as count and
sum of stars, which determines `rating_avg` up to the rounding of the column.
Authorisation (whose booking it is) is part of how a booking is looked up and
only kept where two parties must differ (`Resolvable`).

**Transactions.** PostgreSQL's default READ COMMITTED is assumed, as the code
does. A transaction whose statements all concern rows it locks is one action. In
`Reviews`, where a statement reads rows that others are writing, the transaction
is split at its statements and the snapshot of each is explicit (`View`,
`RefreshStart` and `Refresh`).

**The browser.** JavaScript runs one callback at a time: what a function does
between two `await`s is one step, and the tabs of a browser share only what
`localStorage` and the cookies hold. TanStack Query is modelled from how the
pages use it: an entry is fetched when a page mounts it and it is missing, stale
or invalidated; an invalidation refetches what is on the screen; a mutation hook
knows its latest call only.

**Mutants.** An operator whose comment begins with "Mutant" belongs to no
specification. It is the definition after it with a plausible mistake in it (a
dropped guard, a missing rollback, a wrong key), and the property it names is
violated when it takes that definition's place.

## The modules

### BookingLifecycle, Bookings, BookingsProofs

`BookingLifecycle` is what the component promises: the moves of one booking's
status, and that a booking is approved together with its conversation. Each
operation is one step.

`Bookings` is the component as written. `status`, `slot`, `convos` and `reqs` are
the tables; `now` is the clock.

| Code | Actions |
|---|---|
| `create.booking.pipe.go`: read the nanny, two conflict queries, insert | `CreateStart`, `CreateCheckParent`, `CreateCheckNanny`, `CreateBooking` |
| `approve.booking.pipe.go`, `decline.…`, `cancel.…` | `ApproveStart`/`ApproveBooking` (with the conversation, one transaction), `DeclineStart`/`DeclineBooking`, `CancelStart`/`CancelBooking` |
| `complete.booking.pipe.go`, payment retry: check, charge, update | `CompleteStart`, `CompleteBooking`; the charge in between is `BookingPayments` |
| change requests: create, accept, decline | `CreateRequestStart`, `CreateRequestCheck`, `CreateRequest`; `ResolveStart`, `AcceptReadRequest`, `AcceptCheck`, `AcceptCancel`, `AcceptReschedule`; `DeclineReadRequest`, `DeclineRequest` |
| admin: cancel, complete | `AdminCancelStart`/`AdminCancel`, `AdminCompleteStart`/`AdminComplete`, both through `AdminUpdate` |

The exclusion constraints `bookings_parent_nanny_slot_excl` and
`bookings_nanny_approved_slot_excl` are `Admitted`: the only thing that keeps the
calendar right once two checks have raced. The refinement mapping to
`BookingLifecycle` is the identity on `status` and `convos`; every other variable
is hidden.

### PaymentLifecycle, BookingPayments, BookingPaymentsProofs

`PaymentLifecycle` is what the component promises about money, without rows, events
or handlers: an intent is used for one booking (`Charge`), settled (`Settle`) and
given back (`GiveBack`), for one booking only once, and a booking is completed
(`Complete`) only when an intent of its own was paid. `BookingPayments` is the
component as written, and implements it: `status` maps to itself and `intents` to
`Money`, which forgets the key and Stripe's first answer; `row`, `sent`,
`processed`, `ready`, `fault` and `h` are hidden. A refund that Stripe answers a second
time, and a completion or cancellation of a booking that is settled already, are
stuttering steps.

`status`, `row` and `intents` are the three records of the same money; `sent` and
`processed` are the webhook events Stripe has sent and those the API has recorded;
`ready` says whose parties are set up for payment. `fault` is the weather of a
behaviour, chosen at the start: a run can so tell apart what a property needs
(`ChargedOnce` holds when handlers crash, and is not claimed when answers are
lost).

Completing is `CompleteStart`, `ChargeSetupMissing`/`ChargeSetupFound`,
`ChargeLookup`, then `ChargeRefused`, `ChargeReplayed` or `ChargeCreated` at Stripe,
`RecordCharge` and `CompleteBooking`. The first charge of a booking has a fixed
idempotency key and a retry after a failure a fresh one, so `ChargeReplayed`
returns the answer Stripe gave first. The UNIQUE constraint on
`stripe_payment_intent_id`, which the empty string of failed charges can violate,
is `Upsertable`. Cancelling is `CancelStart`, `RefundLookup`,
`RefundCreated`/`RefundRefused`, `RefundFailed` or `RecordRefund`, `CancelBooking`; the
parties' own cancellation, which does not touch payments, is `AgreedCancel`. A row names
the intent's latest charge whatever came of it, so the refund of a payment that is
processing is asked for too; that Stripe refuses it as long as the charge has taken
nothing (`Refundable`) is an assumption about Stripe.
Webhooks are `WebhookStart`, `ApplyEvent`, `RecordEvent`, for any event of `sent` not
yet recorded, in any order and by several handlers at once. `Settle` is Stripe
finishing a payment that was processing. `Listed` is the query behind the admin's
list of mismatches.

### SavedCards, PayoutAccounts, Reminders, BillingProofs

`SavedCards` is one parent at Stripe and in the database. A request `ask[p]` sets a
card up (`SetupReads`, `CustomerCreated`, `CustomerRecorded`, then the browser's
`CardSaved` or `FormLeft`), sets the default (`DefaultAsked`, `DefaultPreferred`,
`DefaultStored`), deletes a card (`DeleteReads`, `DeleteLists`, `DeleteChecks`,
`CardDetached` or `DetachRefused`, `DefaultCleared`), or looks for one to approve or
charge a booking with (`CardSought`, then `resolvePaymentMethod`: `StoredFound` or
`StoredStale` and `DefaultForgotten`; `PreferredRead` of the customer and `PreferredFound`
of its default, or `PreferredUnread` when either cannot be read; `FirstRead`,
`CardAdopted`).
`overtaken` remembers the deletions that were overtaken after they had looked.
The charge is one step here; `BookingPayments` has the rest of it.

`PayoutAccounts` is the Stripe account of one nanny. `changes` counts what she has
entered, and `Complete` says after which changes the account can be paid; the link
(`LinkReads`, `AccountCreated`, `AccountRecorded`, `FormClosed`), the payments page
(`StatusReads`, `StatusAsked`, `StatusNoted`) and the webhook (`EventArrives`,
`EventApplied`, `EventSettled`) all write `onboarded`.

In `Reminders` time passes in halves of a worker's interval. `LooksAhead` is the
read of the one statement that adds the reminders, `NoticesAdded` its write, which
another worker's reminder of the same booking undoes as a whole. `settled` and
`sound` remember since when a booking has stood as it is and a worker has run.

### Reviews, ModerationProofs

`reviews`, `log` and `rating` hold what is committed; a transaction `tx[p]` carries
what it has written (`row`) and computed (`tally`) until `Commit`. `CreateStart`
reads the booking; `Insert` waits for the unique index, `InsertDuplicate` fails on
it; `Moderate` is the guarded UPDATE of an admin; `RefreshStart` takes the
snapshot of the subqueries of `refreshNannyRating` and `Refresh` gets the lock of
the nanny's row. Waiting is a guard (`Holds`, `HoldsNanny`). `Complete` and
`AdminCancel` are the bookings as this component sees them.

### Migrations, MigrationsProofs

`recorded` and `failures` are the two tables, `ran` counts how often the SQL of a
migration took effect, `holder` is the session that holds the advisory lock. A
run `r[p]` has a build, a mode and a position. The loop over the embedded files is
`Advance`; each file is checked (`CheckMissing`, `CheckBlank`, `CheckMatch`,
`CheckMismatch`), then applied (`Apply`, `ApplyFails`, `RecordFailure`, `Cleanup`),
backfilled (`Backfill`) or written down (`BaselineInsert`). `Start` has the rules of
`README.md` for the operator as its guard. `Unlock` may fail, which the code only
logs: the connection then keeps the lock until it is closed (`Disconnect`). `calm` is
TRUE in behaviours in which nothing fails but SQL that does not work: `OnlyGenuineFailures`
is about those. `FailuresArePending` is about all. The one way in which the failure of a
migration that is applied stays listed is named by the history variable `uncleaned`: the
`Cleanup` right after the commit, which is outside the transaction, failed or was cut off.

### Accounts, AccountsProofs

`role`, `active` and `password` are the rows of `users`, one for each address;
`session`, `link`, `invite` and `log` the other tables. `password` counts the
passwords an account has had: what matters is when it changes. `resets` is a
history variable.

| Code | Actions |
|---|---|
| `register.parent.pipe.go`, `register.nanny.pipe.go` | `RegisterStart`, `Create`, `Issue` |
| `login.pipe.go` of members and admins | `LoginStart`, `Issue` |
| `refresh.token.pipe.go`, `logout.pipe.go` | `RefreshStart`, `RefreshUser`, `Rotate`; `Logout` |
| `change.password.pipe.go`, `deactivate.account.pipe.go` | `ChangeStart`/`ChangePassword`, `DeactivateStart`/`Deactivate` |
| `recovery.pipe.go` and the clean-up worker | `RecoveryStart`, `Supersede`, `CreateLink`; `ResetStart`, `ResetUser`, `Reset`; `Cleanup` |
| `account.suspension.pipe.go` | `SuspendStart`/`Suspend`, `ReactivateStart`/`Reactivate` |
| `admin.users.pipe.go` | `Invite`, `AcceptInvite`, `DisableAdmin` |

The transactions that revoke sessions are one action each. A session that is
inserted between their DELETE and their COMMIT survives; that is the behaviour
in which it is inserted right after, since its handler looked at the account
before the COMMIT in either case. A right password is assumed where one is
asked for; a wrong one is a request that ends.

### Verification, Screening, ModerationProofs

`Verification` is what screening promises: the moves of a nanny's status, each
with its record, and no verification before every step has been confirmed.
`Screening` is the handlers: `StepsAccepted` looks at the status,
`StepsMerged` reads the steps again and fills in what the request leaves open,
`StepsWritten` writes all three without asking; starting, verifying and
resetting are a read (`StartReads`, `VerifyReads`, `ResetReads`) and a guarded
transaction. `asked` is a history variable: the steps that an accepted request
was ever to confirm. The refinement mapping gives it to `Verification` as the
steps confirmed, since a write may bring back a tick that another request has
taken away meanwhile.

### Messaging, ModerationProofs

One user's message page with the handlers it calls. `list` is the page's copy of
the conversations, ordered by the latest message; until one is picked the first
is shown, so that a refetch may put another one under a draft. `send` is the
mutation: it waits for the network, or belongs to a handler, which checks the
lock, inserts and marks as read. A handler may fail between any two, and its
answer may be lost. `stored` counts how often a text is in the database, `told`
the texts of which the page has said that sending failed. Read marks are left
out; hiding a message does not change what this user may send.

### QueryCache, ParentPages, NannyPages, AdminPages, PagesProofs

`QueryCache` is one cache entry and one mutation. The page tables are its
parameters: for each role the pages with their queries and mutations, what each
answer is computed from, and what each handler writes. A mutation alters a query
if it writes something the query's answer depends on; the badges of the sidebars are
queries of their own, whose keys begin as those of the lists do, so that one
invalidation reaches both. A call is served (`Commit`), refused with nothing written
(`Refuse`), or answered with an error although something was written
(`FailPartDone`: a declined charge leaves a failed payment, a stored message may not be
marked as read). What is altered and not
invalidated is listed by name (`ParentGaps`, `NannyGaps`, `AdminGaps`), and
`OwnWorkShows` is claimed for everything else. The gaps: for a parent, the page of
one booking after the list has cancelled it, and the public lists and profiles
after a review; for a nanny, earnings, the balance, the conversations, what she was
notified of and the page of one request after she has settled it (a retried payment is a
completion and does all that a completion does), and the frame's picture after an upload; for an
administrator, the pages of one nanny or parent and their audit lists after a
decision made in a list, and some lists after a review or a booking has been
moderated. They heal when the entry is thirty seconds old and mounted anew. A page that
invalidates on success only cannot tell of what a failed call left behind; that is
`excused`, too, while pages that invalidate in either case (`Always`) must show it.

### WebSession, WebSessionProofs

`store` and `cookie` are what all tabs share; `pair` is the server's side: which
tokens are of whom, alive and fresh; `inactive` are the accounts that are suspended,
disabled or closed. A request `req[r]` keeps what it has read
(`held`) while its fetch, the refresh after a 401 and the second fetch are under
way. Guards (`OpenPage`), the check of the administrators' sign-in page, sign-in,
registration, sign-out and leaving an account are requests as well; they end in
`GuardLetsIn`, `FailFor`, `CheckFindsAdmin`, `LoginEnds`, `SignOut` or
`LeaveIsNotHeardOf`. The server's part of a refresh is two steps, as in
`Accounts`: a session that was revoked or has run out of time is refused, and one
whose account is not active is barred. Sessions end without the browser's doing as well:
`SessionExpires`, `ResetPassword` (from a recovery link or another browser), `LockOut`
(a suspension, the disabling of an administrator, the closing of an account elsewhere) and
`LetBackIn`, which brings no session back. Two history variables say when a stored
session may be dead. `ended` has the pairs that were ended in one of these ways, or by a
change of the password while they were on their way to the browser; `crossed` is set when
an answer to something the server did was lost, or a refresh stored its pair where the session it
had refreshed was no longer stored.

### RowTables, RowActions, PagesProofs

`RowTables` has, for each kind of row, the states in which a component enables
its buttons (`...Offers`), in which the handler acts (`...Takes`), and what it
leaves (`...After`). `RowActions` is a page with such a row. The pages differ in
how they show that a row is busy: `Together` disables the buttons of all rows,
`OneFlag` has one flag for all actions that any answer clears before the refetch,
`Unmarked` pages show nothing, and on `Forgetful` ones a button stays disabled
after its call. `astray` remembers that something other than the page's own work
came in between.

### MC modules

`MCBookingPayments`, `MCReviews`, `MCAccounts` and `MCMigrations`
give the constants their values and name the symmetries. `MCBilling` puts
`BookingPayments`, `SavedCards`, `PayoutAccounts` and `Reminders` side by side,
`MCModeration` `Reviews`, `Messaging` and `Screening`, and `MCPages` the cache and
the rows: they share no state, so a behaviour follows one of them
(`part`, of those the constant `Parts` admits), and one run answers for all. In
`MCBilling` the parts share their model values, so that one symmetry serves them.
`MCCalendar` is `Bookings` with two bookings, of one parent or of two, and `MCBookings` with
one; `MCSession` is `WebSession` by itself. No run with liveness properties uses symmetry.

## What the runs check

All runs but one stop where the bound lets nobody do anything more, and say
`CHECK_DEADLOCK FALSE`; in `Migrations` a run can always start, and deadlock is
checked.

| Run | Instance | Checks |
|---|---|---|
| `calendar` | 2 bookings with one nanny, of two parents or of one, 2 handlers, 1 change request, 2 slots that touch | `NoDoubleBooking`, `NoDuplicateBooking` |
| `changes` | 1 booking, 2 change requests, 2 handlers, 2 slots, clock 0..4 | `AgreedCancelHolds`, `EarlyCompletionOnlyByReschedule`, `MovedOnlyByConsent`, `ResolutionIsFinal`, `ImplementsLifecycle` |
| `payments` | charges: 1 booking, 2 intents, 2 handlers, four kinds of weather: none, asynchronous payments with crashes, asynchronous with lost answers, declined with lost answers and crashes; cards: 2 cards, 2 customers, 1 booking, 2 requests, one of which may end half way; reminders: 2 bookings, 2 workers, 4 halves of an interval, one half to look ahead | `ImplementsMoney`, `RowIsBacked`, `ChargedOnce`, `RacesAreReconciled`; `LastCardIsKept`; `RemindedExactlyOnce` |
| `billing` | with fairness. Charges as in `payments`, cards declined and going missing; cards as in `payments`; an account that is changed three times, 2 calls, one of which may end half way | `RetryCompletes`; `MoneyIsOnRecord` (`CardsAreOnRecord`, `AccountIsOnRecord` and `OnboardingIsEarned`), `SavedCardIsCharged`; `OnboardingIsNoticed` |
| `lost_charge` | 1 booking, 1 handler, lost answers | finds `MismatchesAreListed` violated |
| `moderation` | 2 bookings of one nanny, 2 handlers, 1 and 5 stars, at most 2 audit records for each review; 2 conversations, 2 send requests, 2 texts, one lock at a time; 3 steps, 2 administrators, 5 changes of the status | `ReviewedAfterService`, `AuditMatches`, `RatingCountsReviews`, `NoDeadlock`; `SentTwiceOnlyIfTold`, `ClearedOnlyIfStored`; `ImplementsVerification` |
| `stale_rating` | the reviews of `moderation` | finds `RatingIsBacked` violated |
| `accounts` | 1 address, 2 handlers, 2 sessions, 2 recovery links, 3 passwords, 2 audit records | `LinkWorksOnce`, `SuspensionsAreLifted`, `AccountsRest` (`RoleStands` and `PasswordRests`), `AccessEnds` (`InactiveGainsNothing` and `AccessRunsOut`) |
| `migrations` | 2 runners, 3 migrations, 3 builds (the release before, the release, one with an edited file and a missing one), one file whose SQL may fail, with fairness | `AppliedOnce`, `RecordsAreTrue`, `SchemaFits`, `OnlyGenuineFailures`, `FailuresArePending`, `EveryRunEnds` |
| `web` | every query and mutation of the three roles, each pair by itself on up to 4 pages with 2 calls; 12 pages with buttons, 2 calls for a row; with fairness | `OwnWorkShows`, `OwnWorkIsShownInTheEnd`; `RefusalsHaveAReason` |
| `session` | 2 accounts (a parent, an administrator), 1 tab, 2 requests, 2 token pairs | `OnePersonPerBrowser`, `StoredSessionLives`, `LiveSessionIsKept` |
| `admin_refresh` | the session of `session`, 1 request | finds `RotatedSessionIsStored` violated |

**Why the bounds are enough.** The rules of the calendar relate two bookings, and
a race needs two handlers: `calendar` has both, with slots that
overlap (a slot with itself) and slots that only touch, so that an off-by-one in
the half-open ranges would show. Time plays no part in these two properties and
`MaxTime` is 0 there; in `changes`, where it does, the clock passes both slots.
Two change requests suffice for one that is pending while another was resolved.
In `payments` a booking may be charged twice, so two intents are needed, and one
that would be charged three times has been charged twice; the two handlers stand
for any two of: a completion, a retry, a refund and a webhook. Four weathers
rather than all 32 keep the run short: each fault but `nocard` occurs in one, and
`nocard` is in `billing`. Two customers and two accounts suffice to see that a second
one is made, two cards to see the last one go while another is the default, and
three changes of an account let an event of the first arrive after the last. A
request that ends half way can be repeated once, which is what the properties are
about. Workers that start half an interval apart have windows that overlap by
half, and four halves let a window pass for a booking that was settled before it. In `moderation` a rating is shared by two reviews and
an audit trail has a flag and an unflag; a text can meet another conversation and
be sent again while its first request runs; and a nanny can be rejected, reset
and screened again by two administrators. In `accounts` every statement concerns
one account, so one address is enough; two handlers meet there in any two of the
ten requests, and two links let one be superseded. In `migrations` three files let a run be
behind, at and ahead of a failing one, and the builds disagree in each way in
which embedded files can. In `web` the cache's entries meet in nothing but the pages
they are on, so a pair of a query and a mutation with four pages (the mutation's
own, one that shows the query, one whose shell does, one without) stands for all;
two calls let the second start while the refetch of the first runs. One tab
suffices for the session because requests of a page that was left go on, and every
request reads the store when it is made; two tabs give nothing new to the store,
a parent and an administrator stand for all accounts, since a nanny's session is handled as a
parent's; and the theorems of `WebSessionProofs` hold for any number. Token pairs are used
up after two, which a sign-in and a refresh need.

**Fairness.** Safety is checked without any. `RetryCompletes` assumes, in
`Fairness`, that a handler that is being served makes its next call (weak fairness:
the server runs) and that a charge that is tried again and again is not declined
every time (strong fairness of Stripe). It assumes nothing of the nanny, who need
not ask again, nor of Stripe's events: what it says is that she does not ask for
ever in vain, for a booking whose parties are from some time on set up for
payment. `SavedCardIsCharged` and `OnboardingIsNoticed` likewise assume only that a
request under way goes on (`AskProceeds`, `CallProceeds`); that the nanny looks at
her payments page again and again is a premise of the latter.
`EveryRunEnds` assumes only that a process makes its
next call: the poll of the lock in `acquireMigrationLock` has a deadline, so
nothing is assumed of the others or of the lock. `OwnWorkIsShownInTheEnd` assumes
that a fetch ends, well or badly (`FetchEnds`), and that a mutation's call ends and
its callbacks run (`CallEnds`); nothing is assumed of the user, who may leave the
page, and polls and refetches need not happen. `WebSpec`, under which
`admin_refresh` has its counterexample, lets every request that is under way go on
to its end.

## What the proofs show

The theorems hold for every set of bookings, requests, handlers, nannies, runners,
builds, intents, conversations, accounts and tabs, under the assumptions on constants that the modules name
(`SchedulingAssumption`, `ReviewsAssumption`, `AccountsAssumption`,
`MigrationsAssumption`, `PaymentsAssumption`, `ScreeningAssumptions`, `MessagingAssumptions`,
`SessionAssumptions`, `SavedCardsAssumptions`, `PayoutAccountsAssumptions`,
`RemindersAssumptions`, `CacheAssumptions`, `RowAssumptions`), which TLC
evaluates for the instances it checks.

**`BookingsProofs`.** `TypeOK` is not inductive: what a handler writes is what it
remembered some calls ago. `HandlersOK` says what may be relied on of that memory
(a handler that creates a booking has hours for it and alone knows its
identifier; one that files a request has a proposal for a booking that exists)
and that requests are about bookings that exist. `Invariance` proves
`TypeOK /\ HandlersOK`. The calendar follows from it: `CalendarStep` shows that a
step either keeps a booking's status and hours, makes it inactive, or was
admitted by the constraints, and `NoDoubleBookingHolds` and
`NoDuplicateBookingHolds` are its two readings. `RequestStep` says what a step can
do to a change request, from which `ResolutionStands` and, with the life cycle,
`AgreedCancelStands` follow. For the hours, `HoursOK` says what a handler has seen to:
one that accepts does so for the other party, and one that completes remembers the hours it
has read, which were over; whoever completes a booking before its hours are over therefore had
read others, and the booking was moved between its read and its write. What a handler remembers changes only in
its own steps (`JobSteps`), and `SlotStep` says who may move a booking; from these
`EarlyOnlyByReschedule` and `MovesNeedConsent` follow. `LifecycleRefined` proves the refinement, one step of
`Bookings` at a time.

**`BookingPaymentsProofs`.** Stripe gives money back but forgets nothing
(`Remembers`), so what was true of an intent when an event, a row or a handler
learnt of it still is when it is used (`EventTrue`, `RowTrue`, `JobTrue`). With the
types, and with `AnswersTrue` for the answers that Stripe repeats, these are the
inductive invariant; `CompletedOnlyIfCharged` alone is not, since a handler
completes on what it remembers. `ChargedOnlyOnce` needs a second one, `MildOK`: where
no attempt can fail no payment is recorded as failed, so that every charge has the
booking's first key, for which Stripe has one intent. `RacesReconciled` adds `CalmOK`:
when nothing fails, a charge that no row shows yet has a handler about to write the
row (`Writing`), and a refund of a booking that is not cancelled yet has one about to
cancel it (`Cancelling`), so that once all is quiet the tables agree with Stripe as
far as the list needs. `MoneyRefined` is the refinement of `PaymentLifecycle`, whose
five actions are the five things a step can do to `status` and `intents`
(`MoneyStep`): that a handler completes only a paid booking and refunds only a taken
payment comes from the invariant's `JobTrue`, since the handler learnt of the money
several steps before. From it `StatusKeepsLifecycle` follows: `BookingLifecycle`,
which `Bookings` implements, allows every change of status made here, so the two
models agree about the variable they share. Theorems: `PaymentsTypeCorrect`,
`CompletedIsCharged`, `RowsAreBacked`, `MoneyRefined`, `StatusKeepsLifecycle`,
`ChargedOnlyOnce`, `RacesReconciled`.

**`AccountsProofs`.** An account is created without audit records because whoever
writes one has found an account (`JobsOK`, `LogsOK`), and a link that was issued has
a user (`LinksOK`); with these, `LinkWorksOnce` and `SuspensionsAreLifted` are
inductive. The action properties follow step by step: `InactiveGainsNothing` from
`ArriveBarren` (who is let in finds an active account) and `ProceedBarren` (who
stores a session has been let in). That a refresh which overlaps a suspension leaves
a session behind is what the code does; `AccessNeverGrows` is that what is left does
not multiply: the sessions of an account that is not active, together with the
requests that may still store one, never become more. It counts sets, and `Counted`
is the invariant for that: they are finite, since they start empty and a
step adds one at most (`OneHandler`, `OneSession`). A step then adds nothing to either
set, or one session for the handler that stored it (`NoMore`, `Exchanged`). Theorems:
`AccountsTypeCorrect`, `LinksWorkOnce`, `SuspensionsHold`, `RolesStand`,
`PasswordsRest`, `AccountsStandStill` (the two together),
`InactiveAccountsGainNothing`, `AccessNeverGrows`, `AccessHasItsEnd` (the two together).

**`MigrationsProofs`.** What a runner has read is good because nobody writes the
records while it holds the lock (`LockOK`); what it has passed is recorded as its
build has it, and the operator's rules go on holding while it runs (`RunOK`).
A second invariant, `Pending`, is about listed failures: a failed migration has not taken
effect until it is recorded, so that a baseline, which records what is there, never
records a failed one, and a checksum is back-filled where no failure is listed. A failure
that a cleanup did not delete is of a migration in `uncleaned`, and nothing else adds one.
`ServesItsSchema` reads `RunOK` at the end of a run: a run that has succeeded has passed
every file of its build (`DoneWithFile`). How long a run lasts is a measure, `Left`: its
calls lower it (`AdvanceLowers`, `MigrateLowers`), other runners leave it alone, and it
starts at `4 * Last + 5` (`RunsAdvance`). `RunsGoOn` gives a call that can be made
wherever a run is; the next file it takes is the least that is left, by the
well-foundedness of the numbers. Theorems: `MigrationsTypeCorrect`, `EffectOnce`,
`RecordsHold`, `FailuresAreGenuine`, `HistoryHolds`, `ServesItsSchema`, `ChecksumsStand`,
`FailuresStayPending`, `RunsAdvance`, `RunsGoOn`.

**`ModerationProofs`: reviews.** The properties are inductive only with what holds while a
transaction is open: only one transaction has written a given review
(`Exclusive`), so what it found is still so when it commits (`Founded`), and the
rating it will write counts reviews that exist or its own (`Backed`). That a rating is
an average of one to five stars (`RatingsAreAverages`), so that the CHECK of
`rating_avg` refuses none, rests on the lemma `TallyIsAverage`: the reviews counted
fall into five disjoint sets, by their stars. `NobodyWaitsForEver` is why requests that
wait for each other's rows do not deadlock, for any number of them: who has the row of
the nanny waits for nothing, who waits for it wants no other row after it, and
who waits for a review has no row. It speaks of `MayGoOn`, written from the guards;
`WhoMayGoesOn` shows that whoever may go on has a next statement, by giving it.
Theorems: `ReviewsTypeCorrect`, `ReviewsFollowService`, `AuditAgrees`,
`RatingsCountReviews`, `ReviewsStand`, `RatingsAreAverages`, `WhoMayGoesOn`,
`NobodyWaitsForEver`.

**`ModerationProofs`: screening.** The steps are written from what was merged earlier, so
that `ticks` says nothing by itself; `TicksWereAsked` says that every tick that is
stored or about to be was asked for, and that a verification under way has seen
all of them. `ScreeningImplementsVerification` then proves the refinement, one
handler's step at a time. Theorems: `TicksAreAsked`,
`ScreeningImplementsVerification`.

**`ModerationProofs`: messages.** `OneAttempt` relates the draft, the mutation and the
handlers: a text that is not told of as failed has at most one request that may
still store it, and none if it is stored. `AwaitedOK` says what the answer the
page waits for will mean for the draft. Theorems: `TwiceIsTold`,
`ClearedIsStored`. The three parts share no
state: `ModerationIsItsParts` proves that every behaviour of `MCModeration` is one of
each, so that the theorems hold of what the run looks at.

**`BillingProofs`: reminders.** That a notice is added once is the unique index, but that
it is added at all has to follow a booking through an hour in which several workers may
ask. `TicksOK` says when a worker asks next and that its statement ends before time
passes; `StatementsOK` that what a statement leaves out is there already, and that
one which meets a notice of another worker, and is undone, loses nothing, because that
worker has added all that are due; `AskedOK` that a worker that has asked in the hour of a
booking has added its notices. The three, with the types, are inductive
(`RemindersInv`), and `RemindedOnce` is `AskedOK` at the end of the hour.

**`BillingProofs`: cards and account.** `CardsAreOnRecord` is not inductive: two setups
may be under way, each with a customer. The idempotency key makes them one, so that
`CustomersOK` can say that Stripe has one customer at most and that a setup past
recording has the one on record. For `LastCardKept`, `DeletionsOK` says that a card
about to be removed is not the last one of a parent with an approved booking, unless the
request is among those that were overtaken since they looked. `AccountsOK` is the same
for the account of the nanny; it needs that nobody fills in an account that is not on
record. `OnboardingEarned` is about a flag that several calls and events write, each from
an answer of Stripe that may be old: what any of them is about to note was so at Stripe
at some time (`NotedOK`), and what was so once is not forgotten (`NotedStands`).
`BillingIsItsParts` proves that every behaviour of `MCBilling` is one of the
charges, the cards, the account and the reminders, from which `MoneyOnRecord`
follows. Theorems: `RemindedOnce`, `CardsOnRecord`, `LastCardKept`, `AccountOnRecord`,
`OnboardingEarned`, `BillingIsItsParts`, `MoneyOnRecord`.

**`PagesProofs`: the cache.** The tables of the pages are constants, and TLC evaluates the
assumption on them: what a mutation alters is invalidated by it, or named as a gap
(`CacheAssumptions`). From that, `OwnWorkIsShown` holds for any tables and any number
of calls. Data that lacks a write is marked, or an answer that has the write is
still to come, or the browser has yet to be told (`MarksOK`), which holds of a call that
failed half way only on a page that tells of failures too; an answer from before the write
is on its way only until the browser is told, because the invalidation then drops the
request of what is on the screen, or else it is excused (`AnswersOK`).

**`PagesProofs`: the buttons.** `RowAssumptions` says what the pages rely on: each page
offers only what the API takes of the row as it is; a failed charge leaves a row for which
that is still so; a page that does not show a busy row asks for a reason before every
call; on a page that disables the buttons of one mutation at a time no row has two of
them. `RefusalsExplained` then holds for any such pages: as long as nothing has led
a page astray (`UpToDate`) it knows of every call it has made for the row
(`CallsAreGuarded`), what it shows is the row, or the row before a call of its own that the API has
served (`SeenAgrees`), and what is waiting at the API was offered and comes first
(`SentAgrees`, `OneAtATime`). The lemmas `SendKeeps` (a new call) and `FewerCallsKeep`
(a call that ends) carry the proof. Theorems: `OwnWorkIsShown`, `RefusalsExplained`.

**`WebSessionProofs`.** What every request holds must be of one person as well as
what is stored (`Good`), since a refresh merges the two; and a pair of tokens never
changes its owner once it has one (`PairStep`). The type invariant contains that a
page is never shown to an account of another role. That a stored session lives needs
two more: a pair on its way to the browser is of no other request (`Apart`), and a
stored session that has ended is about to be noticed, by the sign-out that revoked it
or by the refresh that brings its successor (`Noticed`), unless it is one of those that were
`ended`. Theorems: `TypeCorrect`,
`OnePerson`, `LiveIsKept`, `StoredLives`.

**Only model-checked.** Liveness (`RetryCompletes`, `SavedCardIsCharged`,
`OnboardingIsNoticed`, `EveryRunEnds`, `OwnWorkIsShownInTheEnd`) needs fairness, and
`NoDeadlock` speaks of `ENABLED`: both are beyond the prover. `NobodyWaitsForEver`
is as near as a proof comes to `NoDeadlock`, and `RunsAdvance` and `RunsGoOn` to
`EveryRunEnds`, of which only the step from fairness to the next call is missing. Every other property that a run checks is
stated by a theorem. That the tables of the real pages meet `RowAssumptions` and
`CacheAssumptions` is evaluated by TLC in run `web`.

## Where code and documentation disagree

Three runs show behaviour of the code that a document of the repository excludes.

- `lost_charge`: `ENDPOINTS.md` promises a list of the "booking/payment state
  mismatches". When Stripe has charged and its answer misses the client's
  timeout, the payment is recorded as failed without an intent. The webhook then
  finds no row, and a booking that is approved with the parent's money at Stripe
  is never listed. `RacesAreReconciled` shows that races alone do not cause this; it
  assumes calm weather because any one fault can: in each kind of weather with a
  single fault (a decline, a crash, a lost answer, an asynchronous payment) TLC finds
  a mismatch that is not listed.
- `stale_rating`: `ENDPOINTS.md` calls ratings "review-backed". Two reviews of a
  nanny published at the same time leave a rating that counts one of them, until
  the next one. `RatingCountsReviews` shows that it never counts too many.
- `admin_refresh`: `ENDPOINTS.md` has administrators "rotate admin access/refresh
  tokens". The server rotates and answers without a user, the client takes that
  for a refusal and clears the session: an administrator is signed out when the
  first access token expires.

`EarlyCompletionOnlyByReschedule` records a fourth, weaker one: `ENDPOINTS.md`
lets a nanny complete "an approved past booking"; the end is checked before the
charge and not at the UPDATE, and a reschedule accepted in between, and nothing
else, leaves a completed booking that is still to come: the completion had read other
hours, which were over, and the booking has those of an accepted request.

Observations that no document contradicts, and no run counts as wrong:

- A booking may be charged more than once: a lost answer, or a failed payment
  written over a captured one because the setup was missing
  (`booking.payment.pipe.go:51`), lets the retry use a fresh key. `PaymentLifecycle`
  allows it, and `ChargedOnce` says when it cannot happen.
- A `processing` event that is applied after the payment was settled reopens the row
  (`pg_repository.go:435`), and every retry is refused until another event comes.
- `resolvePaymentMethod` accepts a default card that was detached meanwhile, because a
  detached card has no customer (`booking.payment.pipe.go:178`): the charge then fails
  until another default is set. It is the premise of `SavedCardIsCharged`.
- A reminder is sent once for a booking, also when it is moved to another day after
  it; a worker that was down for a window does not catch up. Both are premises of
  `RemindedExactlyOnce`.
- The lock of a conversation is checked on a row read before
  (`send.message.pipe.go:59`), so that a message may enter a conversation after it was
  locked: at most those under way. The lock and its audit record are two statements.
- The conversation that is open without having been picked is the first of the list
  (`MessagesView.tsx:61`): somebody else's message moves another one under the text
  that is being written.
- Some pages invalidate on success only (`AdminBookingDetailView.tsx:51-59`): the failed
  payment that a refused completion records, a message stored by a call whose mark as read
  failed, or an account at Stripe for which no link could be made is not shown until the
  entry is fetched anew. They are the excused cases of `OwnWorkShows`.
- Of two change requests for one booking that are made at once the unique index
  refuses one; nothing of it is left to a handler.

## What is not modelled

- In modelled components: listing and reading handlers (they change nothing);
  wording of notifications; amounts, fees and payouts;
  the day after which Stripe forgets an idempotency key; comments and
  reasons of reviews; the counters that limit recovery requests, which only
  refuse; access tokens, which no table knows; what the SQL of a migration does to the schema; row locks
  in `Bookings` (a deadlock aborts a transaction, which is `GiveUp`).
- In the conversations: read marks and unread counts, pages of older messages, and
  the audit record of a lock, which is a second statement after it.
- In the front end: forms, filters and layout, which keep nothing that outlives the
  page and whose rules the API applies again; the age of the role cookie; the entries
  of one query for different parameters, which are watched one at a time.
- In saved cards and payout accounts: balances and payouts, which are read; the payout
  schedule, a setting that is written to Stripe and then to the database
  (`nanny.connect.pipe.go:163-172`), with nothing undone when the second fails.
- Of the reminders: a ticker that is late, and the hours in which no worker runs, whose
  bookings are not reminded of. Of notifications, everything else: they are best
  effort, and no handler looks at them.
- Profiles, documents and avatars: updates of a row by its owner. What they alter on
  the pages is in the page tables.
- Clients of Stripe, mail and media, tokens, logging; server, middleware,
  configuration, analytics: no state of their own, or pure
  input and output. What a timeout of Stripe's client means is in
  `BookingPayments`.

## Plan

Done, in this order: `BookingLifecycle`, `Bookings` and their proofs;
`BookingPayments` and `PaymentLifecycle`; `Migrations`, `Reviews` and `Accounts`,
each with its proofs; the front end (`QueryCache` and the page tables,
`WebSession` and its proofs, `RowTables` and `RowActions`); `Messaging`,
`Screening` and `Verification` with their proofs; `SavedCards`, `PayoutAccounts`
and `Reminders`; the proofs of `BookingPayments`, of `SavedCards`,
`PayoutAccounts` and `Reminders`, and of `QueryCache` and `RowActions`.

Left: a composition of `Bookings` and `BookingPayments` in one next-state relation
(the charge between `CompleteStart` and `CompleteBooking`), with `ready` given by
`SavedCards` and `PayoutAccounts`. What the two models assume of one another about
`status` is proved already (`LifecycleRefined`, `MoneyRefined`,
`StatusKeepsLifecycle`); a composition would add the calendar to the charges.

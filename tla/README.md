# Veakay backend: models, model checking and proofs

The backend is a NestJS service over PostgreSQL (Prisma), Redis and BullMQ. Its handlers read rows,
decide, and write in later statements; several instances answer requests at the same time, clients
and providers repeat calls, and a process may die between any two statements. The unit tests mock the
database and call one handler at a time. What they cannot reach is what these modules are about.

Paths below are relative to the repository; its NestJS sources are under `src/modules`.

## 1. Inventory

| Component | State | Operations | What is hard |
|---|---|---|---|
| **Wallet** (`wallet`, `campaigns/donate.controller.ts`) | `wallet_accounts`, `wallet_transactions`, `donations`, `withdrawal_requests`, `campaigns.raised_amount` | admin credit, donation with platform fee, opening an account, withdrawal request, review, payment | idempotency keys under retries, checks on balances read before the lock, a fee that runs in a transaction of its own, crashes between debit and status |
| **RevenueCat webhook** (`agencies/revenuecat-webhook.*`) | Redis cache and claims, `agencies.subscription_tier`, donations | processWebhook | redelivery, expiring claims and results, crashes with the claim held, slow calls |
| **Authentication** (`auth`, account status in `users`) | `users`, `social_identities`, `otp_codes`, `refresh_tokens`, second factors; Redis: lockout, cooldowns, logged-out tokens | register, verify, log in by password, code, social identity or second factor, rotate, log out, reset, deactivate | rotation against rotation and revocation, codes asked for and used twice, accounts that appear between lookup and write |
| **Friends** (`friends`) | `friend_requests` | send, accept, decline, unfriend | both directions asked at once, an index that looks one way |
| **Chat** (`chat`) | `conversations`, participants, messages, receipts, read cursors | open, add, remove, send, list, mark read | access checked before the write, cursors against new messages |
| **Group trips** (`group-campaigns`) | `group_members`, contributions, expenses, withdrawals, the trip's chat | members, permission, money, withdrawal | two services that must agree on who belongs, half-done changes |
| **Trip requests** (`trip-requests`) | `trip_requests` | ask, update, cancel | two parties change one status, a conversation that is reused |
| **Campaigns and identity reviews** (`campaigns`, `verified-badges`, identity part of `users`) | `campaigns`, `traveler_profiles`, `verified_badges`, milestone logs, the `campaigns` queue | update, remove, flag, review, lifecycle sweep, expiry and milestone jobs | jobs and administrators write the same rows, a review that writes three tables, ignored failures |
| **Agencies and staff** (`agencies`, `verified-badges`) | `agencies`, `agency_staff`, badges | register, approve, reject, invite, permit, remove | approval followed by mail and badge, rows checked before they are written |
| **Reviews** (`reviews`) | `agency_reviews`, `agencies.reputation_score` | write, edit, remove | an aggregate stored after it was computed |
| **Admin invites** (`admin-invites`) | `admin_invites`, roles | invite, revoke, accept | accept against revoke, two acceptances |
| **Packages, media** (`packages`, `storage`) | packages, their media and links, media assets, the bucket | create, change, remove, link; sign, put, confirm, clean up | confirmation against clean-up, media that outlive or underlive their packages |
| **Feed** (`feed`) | posts, comments, stories, likes, views | write, edit, remove, like, repost, view | rows that go while something is hung on them |
| **Reports** (`reports`, queue `moderation`) | `content_reports` | report, intake job, review | retried jobs |
| **Notifications** (`notifications`, queue `notifications`) | notifications, preferences, push devices | create, broadcast, dispatch job, register a device | pushes nobody waits for, jobs that race the call that created them |
| Agency settings, invoices, dashboards; subscriptions by Stripe; calls, fraud flags, audit log, mail, Redis, bootstrap | none or single rows | reads, single writes | nothing of several steps |

How they interact: controllers call one service; services share tables. Donations (Wallet) raise a
campaign (Campaigns) and are written by the webhook as well. Friendships decide who may join a
conversation; group trips and trip requests open conversations through `ConversationsService`, and a
participant may leave them behind their back. Reviews of a campaign write the profile that Wallet
reads before a high-value withdrawal. The approval of an agency decides who offers packages, and a
package's media are cleaned up by the storage service. Feed and reports notify through
`NotificationsService`. Notifications and mail are best-effort nearly everywhere: their failure is
caught and changes nothing.

Some code is reached by nothing: `checkAndTransitionCampaigns` and `transitionCampaign` have no
caller, nothing enqueues jobs for the queues, `MilestoneNotificationService` is injected nowhere and
`AgencySubscriptionService` is never called. The lifecycle service and the queue workers are modelled
nevertheless, as the operations they are; what they show holds once something calls them.

`PROJECT.json` lists every component with its status, and every hazard at its line.

## 2. Conventions

- One element of `Requests` is one HTTP call (or job). `Script` gives, for each, the set of calls it
  may turn out to be; order and interleaving are free. A retry is another element with the same key.
- A step is the work between two awaits: one query, or the statements of one transaction that commit
  together. Rows are named after the call that inserted them.
- Any call may break off at any step (`Fail`, `Break`): a crash, a failed query, a timeout.
- `Done` lets a finished system stutter, so that TLC's deadlock check stays on: a state in which a
  call can never be answered is reported.
- Rows of other services that a handler only reads are read nondeterministically, or are constants.
- An operator whose comment begins with `Fault` is a plausible slip in the definition that follows
  it. It is used by no specification; substituting it must break the property listed for it in
  `PROJECT.json` under `mutants`, which shows that the property depends on the code.
- All modules but Wallet and the webhook extend `HttpCalls`, in which a **load** fixes what the calls
  may be and how many are served at the same time (`AtOnce`: two in every load).
- `HttpCalls` has one history variable, which no step reads: `earlier[r]` are the calls that were
  answered before `r` was received, kept while `r` is served. The other calls that have been received are
  `Rivals(r)`: those that are or were served at the same time. So a property can speak of real-time order
  where the code protects what it does by no lock and no index. It says what holds whatever overlaps, and
  names the calls that must have been rivals where the code lets one spoil the work of another. A stale
  value that is used without a rival of the right kind, after a crash for instance, is a violation.
- What such a property allows, the code does: each exception was added to the property when TLC had shown a
  behaviour that needs it, and `hazards` in `PROJECT.json` names it.
- The proofs need no bound on calls and loads. `Overlaps.tla` defines what they share: calls in `earlier`
  are over (`EarlierIsOver`), and a step belongs to one call (`StepOf`). In each module `OthersMeet` says
  that a call that moves is then a rival of all that are served, and `RivalsStay` that rivals are never
  lost; so what a call has read still holds when it writes, or the rival that changed it can be named.
  `ProofLemmas.tla` has least numbers and sums over finite sets, which several components need.
- Two calls at a time show every race between a read and the write it decides: the properties relate
  two calls, and a third that is not served yet may still follow in the same load. Each load has two
  to five calls, since a hazard takes what it starts from, the two that collide, and what comes after.

## 3. Wallet

`Wallet.tla` models `wallet.service.ts`; `WalletLedger.tla` is the abstract ledger, `WalletProperties.tla`
states what is checked and the inductive invariant, `WalletProofs.tla` proves it, `MCWallet.tla` has
the instances.

| Code | Model |
|---|---|
| `manualDonate`, `adminCredit`, `requestWithdrawal`, `reviewWithdrawal`, `markWithdrawalPaid`, `getMyWallet` | the operations `donate`, `credit`, `request`, `review`, `pay`, `view` of a call |
| `getOrCreateWalletAccount` | `OpenAccount`, `CreateAccount` (unique `user_id`) |
| `_writeTransaction` | `FindKey`, `FindAccount` (where the balance of the later check is read), `Write` (unique key, increment, row) |
| `recordDonation` | `FindKey`, `FindCreator`, `FindAccount`, `Write`; with a fee `FeeFindKey`, `FeeFindAccount`, `FeeWait` |
| review and payment | `ReadWithdrawal`, `WriteReview` / `SetPaid` |

Amounts are integers, one currency is right and another wrong. The donation that awaits the debit of
its own fee is the one transaction that stays open across steps: it holds the creator's account row,
and the fee's own transaction waits for that row. Only the transaction timeout ends the wait, after
which the donation is rolled back; the fee may be charged nevertheless.

Runs:

| Run | Shows | Bounds |
|---|---|---|
| `wallet` | The inductive invariant; a paid withdrawal is backed by a debit of its own, also when the process died between debit and status and the call was repeated; donations, raised amounts and rows agree; the books implement `WalletLedger`; every call is answered | three scripts: `Withdrawing` (one credit, two withdrawals, one of which may exceed the balance, be of a high amount or of a wrong currency, reviews by several administrators, a payment with its retry and one under another key), `Donating` (a donation, its retry, its duplicates with another body, user or currency, a replayed credit; one amount carries a fee), `PayingWhileDonating` (a payment of a wallet that a donation holds) |
| `wallet_overdraft` | **Violation.** Two overlapping payments overdraw a wallet | two withdrawals of the whole balance |
| `wallet_double_debit` | **Violation.** Two administrators pay one withdrawal twice | one withdrawal, two keys |

The interesting cases need a call, its retry and one stranger on the same key or account, all of which
the scripts have; more requests repeat them. The proofs remove the bound for the properties they cover.

Liveness (`EveryCallAnswered`, an `[]<>`) assumes one weak fairness: as long as some call can go on, an
instance works on one. The event loop runs its continuations, and the database answers or times out.
No order among calls is assumed, nothing of failures or of arrivals; since a script has finitely many
calls, each is answered in the end.

What is proved, for all users, campaigns, keys, amounts, fees and numbers of requests, from
`AmountsAssumption`, `CallsAssumption` and `NoneAssumption`:

- `TypeCorrect`, `KeysAreUnique` (`OneRowPerKey`), `DebitsFollowReviews` (`DebitOnlyAfterReview`),
  which are parts of `IInv`;
- `PaymentsAreBacked` (`PaidIsBackedByDebit`) and `RetriesDebitOnce` (`RetriedPaymentDebitsOnce`): a
  withdrawal that counts as paid is linked to a row of the ledger that no other withdrawal is linked to,
  its own debit where keys name operations; repeating a payment under its key debits once;
- `ImplementsLedger` (`LedgerSpec`): every step inserts at most one row under a fresh key and moves the
  balance of its user by its amount, or leaves both alone. So a balance is the sum of its rows.

None of the parts is inductive alone. `IInv` adds what each call may rely on at its step:
`AtStepOfCall` (the step belongs to the call's operation), `PastStatusCheck` (a payment past its check
has a reviewed withdrawal, whatever others have written since: no status goes back to `requested`),
`NamesAreFresh` (row names are of calls that have come that far, so a new row is new), and
`WaitingDonationIsAlone`. The last one is why a donation may commit after its fee without looking its
key up again: while it waits, it holds the account of its campaign's creator, a donation of the same
key is for the same campaign and so needs the same account, and so nobody can take its key. `IInvInit`,
one lemma per conjunct over the actions and `IInvStep` make the invariant; `OneRequestMoves` and
`LedgerStep` say once what any step does to the calls and to the ledger.

The two theorems on payments rest on `IInv` and on `PaymentInv`, an invariant of its own: a row under a
key that is no donation's nor a fee's tells the call that wrote it (`RowsTellCalls`), a call about to set
the status was told of a row under its own key (`HasRow`), and a withdrawal that is linked to a row was
paid by a call that was told of it. The row a retry finds is then the row of the same payment, whoever
wrote it and wherever that call broke off; `CallsStay`, that a call remains what it is, ties the two.

`DonationsAreBooked` (`DonationsMatchBooks`) rests on `IInv` and on `DonationInv`, which adds that there are
finitely many donations. A step either leaves donations and raised amounts alone and writes no row of that
kind, or commits one donation with its row (`DonationStep`); by `NamesAreFresh` that donation is new, and
so the sum of its campaign grows by its amount (`SumWithOneMore`). That a sum is the same whichever element
is taken first (`SumTakes` in `ProofLemmas.tla`) is proved by the least set of which it would not hold.

Only liveness is model-checked alone.

What the model also shows, with no run of its own: a fee may commit although its donation is then
rolled back by the timeout, and a review that was decided before a payment overwrites its status.

## 4. RevenueCat webhook

`RevenueCatWebhook.tla` models `processWebhook`. Each element of `Deliveries` is a slot that serves one
delivery after another; RevenueCat delivers an event until it is answered 200, and the answer may be
lost. `world` fixes the events, a bound on faults, whether calls may outlive the claim (`slow`), whether
results expire, and who may register an agency meanwhile. `recordDonation` is here its lookup and its
commit; Wallet has the rest. A slot's steps follow the `await`s: cache, claim, second look, dispatch,
lookups of the agency in the order of the code, tier, result, deletion of the claim.

| Run | Shows | Bounds |
|---|---|---|
| `webhook` | One donation per store transaction, 200 only for what took effect, a paid tier only from its own purchase, and in the end every accepted event acknowledged: with slow calls, expiring claims and results, failures, crashes, lost answers | two slots; two events of one purchase, with a fault or with slow calls; a purchase and an expiration, slow with one fault or fast with two; four events of strangers, of no product or of no known type |
| `webhook_applied_twice` | **Violation.** An event takes effect twice with no fault, no slow call and no expiry | two events, two slots |

Two slots are enough for every race between a delivery and its repetition. Fairness: weak fairness of a
delivery's own steps and of the expiry of claims (Redis' clock), strong fairness of the delivery of each
event that stays unacknowledged: the provider goes on retrying, though a busy instance may refuse a
delivery now and then. Failures are bounded, as the provider's patience is.

`WebhookProofs.tla` proves, for any events, worlds and numbers of slots and faults, from the module's
assumptions: `TypeCorrect` (`TypeOK`), `AcknowledgedHasEffect` (`AcknowledgedIsApplied`),
`PurchasesAreDonatedOnce` (`OneDonationPerTransaction`) and `TiersArePaidFor` (`TierIsPaidFor`). The
invariant adds `Knows(d)`, what a delivery may rely on at its step: one that stores a result has an
event that took effect, one about to commit a donation has a campaign, and one about to set a tier has
a target that its event names. `Plain` and `Quiet` settle the steps that write nothing of this at once;
`Effects` is that what took effect stays so. Liveness is model-checked only.

## 5. Authentication

`Auth.tla` models `AuthService`, `TokenService`, `OtpService` and the status of an account in
`UsersService`. An account is named by its address, a session by the call that opened it, which stands
for both tokens of its pair; a code likewise. A call that carries a token or a code may be received once
the call that issued it has been answered. Hashing, signing, the identity tokens of Google and Apple and
TOTP are external; expiry of a token or code is a call that breaks off, and keys of Redis expire at any
time (`Expire`).

`SessionLifecycle.tla` is the abstract specification: a session is opened for one account, one that
replaces another is opened for the same account when the other has ended, a step ends sessions of one
account only, and what has ended stays so. `SessionsHaveALifecycle` is that specification under the
refinement mapping of `AuthProperties.tla` (state, owner and parent of each row of `refresh_tokens`).

| Run | Shows | Bounds |
|---|---|---|
| `auth` | `SessionsEnd`: a session that was there when someone logs out everywhere, resets the password or is deactivated has ended when that call is answered, whatever rotates it meanwhile. `SessionsHaveALifecycle`, `LinkedAccountsAreTravelers`. `CodesWorkOnce`, `RotatedOnce`: a code that let a call through, a code older than one that was asked for, and a token that was rotated serve no call that comes in after the answer | six loads of four or five calls: registering (by mail, as an agency, by a social identity), rotating, resetting, asking (two codes), mistaking (lockout after two failures), administering. Three accounts, one of them a super administrator with a second factor |

Two verifications of one code, two rotations of one token that overlap both go through, and two requests
for a code that overlap leave two codes good: the check and the write are two statements. `role` is here
the role of the account together with its platform role: `adminLogin` and the administrators' routes want
`superAdmin`, and an `admin` is none.

`AuthProofs.tla` proves, for any number of accounts, calls and loads, `Invariance` and
`SessionsImplement` (`Spec => SessionsHaveALifecycle`), from `AuthAssumption` and `LoadAssumption`. The
refinement needs to know, when a session is written, whom it is for, that the call has written none
before, and that the session it replaces has ended and is of the same account. None of that is in the
guard of the step; `Knows(r)` says since which step it holds, `Kept` that no step takes a session away,
gives it to another account or revives it, and `Alone(r)` that a step of one call leaves the others'
grounds alone. `Opens` and `EndsOfOne` are the two kinds of steps that the abstract specification sees.

The module also proves `LinksStay` (`Spec => []LinkedAccountsAreTravelers`): registration, social
login and the changes an administrator makes read an account in one statement and write by its address
in a later one, so the role that was checked is not known to be the role that is linked to. `AccountInv`
says why it is: an account that is there stays and keeps its role (`Stay`), so what a call found at one of
the steps `Found` is still there when it writes, and the rows of sessions and links name accounts that
exist.

`SessionsAreEnded` (`SessionsEnd`): `EndInv` adds that the sessions a call found at its start (`before`)
had been issued by then, so no session written since is one of them; with `Kept`, none that has ended comes
back. `TypeCorrect` (`TypeOK`) needs `Rest`, with both invariants and the paths of the calls (`AtStepOfCall`).
`CodesAreUsedOnce` (`CodesWorkOnce`) and `TokensRotateOnce` (`RotatedOnce`) rest on `CodesInv`: a code that
a call in `earlier` has used is used, and not picked by a call that came later; the codes that a later call
leaves good of its type were issued by none of its `earlier` calls (`CodeKnown`); and a session whose
successor has been written is ended (`SuccessorsEnd`), so that no later rotation finds it good (`Rotates`).

## 6. Friends, chat, group trips, trip requests

`HttpCalls` (calls, loads) is extended by `Friends`, that by `ChatStore` (conversations, participants
and messages, which three services write), and that by `Chat`, `GroupTrips` and `TripRequests`.
`Social.tla` composes the four on shared tables; a step of one leaves the tables of the others alone.
Each handler is a chain of steps from its `Receive…` to `ok` or `failed`, in the order of the awaits;
loops over friends and over messages keep what is left in `todo`.

`social` runs seven loads of four or five calls each with several alternatives:

- befriending: consent, final answers, unfriending;
- talking: messages by participants only, unread is counted;
- gathering: groups whose members come, go and come again, and whose friendships end meanwhile;
- travelling, spending: members of a trip who come, go, come again and leave its chat by themselves; one chat per trip, contributions, expenses and withdrawals of its members;
- discussing, requesting: no stage is skipped, conversations are reused.

Three users, one of them on the staff of an agency, and a second agency that is not approved give
every role a bystander. Two friendships exist before all loads but befriending.

| Property | Holds | Allowed only to rivals |
|---|---|---|
| `ConsentOfAddressee` | only a call of the addressee answers a request, and an answer stands | two answers to one row: the later one |
| `PostedByParticipants` | who writes has access when his message is stored | he is being removed |
| `ConversationsAreReused` | no conversation for those who have one of a call that was over | two calls that open one each |
| `UnreadIsCounted` | the cursor passes what has a read receipt | a message sent while it was about to move |
| `OneGroupChat` | the chat of a trip is opened once | two members added at once, before there is a chat |
| `RemovedIsOutOfChat` | who was removed with success is out | someone is being added |
| `StagesAreNotSkipped` | a trip request goes from stage to stage and stays at its end | the later write wins, though it follows from a stage there was |

Two users who ask each other at once leave two open rows; either may be accepted, and the other one stays.
`Staff`, who works for an agency, is a constant here: that the staff of an agency changes while one of them
writes is not seen. The media of a message, and the check that they are the sender's, are left out.

`group_rejoin` (**violation**): who is added again after a removal is a member outside the chat, even
when no other call is under way.

What the model also shows, with no run of its own: the second request of a traveler to one agency always
fails, in the insert, since the conversation that is reused is already in a unique column; and
`groupWithdraw` does not count what earlier requests ask for.

`SocialProofs.tla` proves `ConsentIsGiven` (`ConsentOfAddressee`) and `StagesAreKept`
(`StagesAreNotSkipped`), for any users, agencies, loads and numbers of calls. Lemmas on
frames (`Elsewhere`) dispose of the steps of the services that own other tables. `FriendsInv` says that
a row of `friend_requests` comes from a call that is past its insert, or was there before (`Born`), so
that its id is never inserted again; and that a call about to answer a row was let through to it as its
addressee, whether the row is still there or gone for good (`Befriending`). `TripsInv` says that the
stages a trip request has been in lead up to its status (`Lawful`), and that a call about to move it was
let through when the stage before had been reached, which stays so whatever the other party writes
meanwhile (`Travelling`).

Of conversations, `SocialInv` holds whatever calls overlap. Conversations only grow (`Grows`: none goes or
becomes another, who was ever in stays known, and messages stay where they are), so that what a call has
learnt stays true (`Known`): that its conversation is there, that its user is or was in it, that the staff's
access is to an agency's inbox. `Path` says which steps each operation goes through. `TypeCorrect` (`TypeOK`)
follows, in which no cursor and no receipt is ahead of the messages there are (`CursorsAre`, `ReceiptsAre`).

`Met` adds what a call has read and relies on when it writes, or else which rival has changed it: the row to
answer is pending (`FriendMet`), the trip request is where it was read to be (`TripMet`), no conversation for
the same people is one of an earlier call's (`OpenMet`), the sender has access (`PostMet`), what the cursor
is to pass is read (`MailMet`), and the trip's chat is the one that was seen (`GroupMet`). For each there are
two lemmas, on the call's own step and on a step of another, which is then a rival; together they make
`Invariance`. All safety properties of `social` follow and are theorems: `ConsentIsGiven`, `StagesAreKept`,
`ConversationsAreFound` (`ConversationsAreReused`), `OnlyParticipantsPost` (`PostedByParticipants`),
`UnreadIsBehindCursor` (`UnreadIsCounted`), `ChatIsOpenedOnce` (`OneGroupChat`), `RemovedLeaveChat`
(`RemovedIsOutOfChat`).

## 7. Campaigns and identity reviews

`Campaigns.tla` has one creator with two campaigns: details, goal and end of the trip, soft deletion,
flagging, both identity reviews with the badge between profile and campaign, the lifecycle service and
the two workers of the `campaigns` queue. Both processors are registered for one queue, so either may
take either job: the expiry worker ignores the name of the job, the milestone worker fails without a
campaign. Money is counted in donations of one unit, at most `MaxRaised` = 4 with goals 1 and 3, so that
each milestone is reached at a different donation of a goal of 3, or all at once with a goal of 1. A
donation is its check and the statement that raises the campaign.

`campaigns` runs five loads: reviewing and unflagging (several administrators, badge queries that fail and
are ignored), ending and reviving (sweep and expiry job against transitions and flags), funding (donations,
goals that change, three milestone jobs). `MilestoneSentOnce` and the invariant `IInv`, with
`IdentityIsReviewed` and `MarkedIsNotRefused`, hold however calls overlap. `RefusalTakesBadge` allows the
badge to a review that swallowed a failure, or that had a rival which gives it. `StatusFollowsLifecycle`
allows an administrator to flag and unflag whatever the status is, as the code does, and anything off the
lifecycle only to a call with a rival for the same campaign: the sweep, the expiry job and transitions write
by id what they decided before.
`milestone_lost` (**violation**): the log's primary key is the campaign, so after the first milestone
no other is ever notified.

`CampaignProofs.tla` proves, for any campaigns, goals, loads and calls, and for any number of calls at a
time, `TypeCorrect`, `IdentitiesAreReviewed`, `MarksAreNotRefused` and `MilestonesAreSentOnce`, from
`CampaignsAssumption` (a creator comes with no profile or with a new one) and `NoneAssumption`.
`MilestoneSentOnce` is not inductive: it becomes so with `LogTellsNotices`, which says of the log what
its primary key makes of it: the milestone it holds was notified once, and no other one ever was. The
same fact is the reason for `milestone_lost`. `AtStepOfCall` gives each step the fields of its call, and
`ProfileWasFound` that a profile that was found is still there when it is written, since no step deletes
one. The lemmas `ProfileStep`, `VerdictStep` and `MilestoneStep` single out the few actions that touch a
table, so that each property needs those alone.

`RefusalsTakeBadges` (`RefusalTakesBadge`) and `StatusesFollowLifecycle` (`StatusFollowsLifecycle`) rest on
`OverlapInv`: only a call that verifies the creator gives him a badge (`VerdictPath`), and so a review that
refuses him finds none that is active at its last step, unless it swallowed a failure or has a rival of that
kind (`RefusalKnown`); and a status about to be written, or a plan about to be applied, follows from what
the campaign still is, or a rival has moved it (`StatusKnown`). A plan names each campaign once. No action
makes a campaign a draft or puts it under review (`StatusIsShown`).

## 8. Agencies, reviews, invites, media, packages

`Marketplace.tla` composes `Agencies` (registration, decision, badge, staff and the guard in front of
it), `Reviews`, `AdminInvites`, `MediaAssets` and `Packages`; packages read the approval of agencies and
clean their media up. An agency is named by the account that registered it, and its owner's row of the
staff by the same name. A client's upload to the bucket is an action of its own that the service does
not see (`Put`). Clean-ups go asset by asset, in any order, each deleting its file and then marking its
row; a file that cannot be deleted is left.

`market` runs six loads of four calls (973,789 distinct states):

- deciding: an agency registers, is approved, rejected, given and denied its badge, while mail fails;
- staffing: two owners invite, promote and remove each other's staff, and try their own rows;
- reviewing: three users rate two agencies, edit and remove;
- administering: an invite is accepted and revoked, by those who may and by those who may not;
- uploading: a file is put, confirmed and put again, good and bad;
- offering: a package with one or two media is changed, linked and deleted.

| Property | Holds | Allowed only to rivals |
|---|---|---|
| `OwnerStays` | an agency keeps the owner who registered it | nothing |
| `ApprovalIsFinal` | an approval that was answered is final and gave a badge | a decision that was under way changes the agency |
| `InviteIsSpentOnce` | who comes after the answer cannot spend an invite again | two that overlap both spend it |
| `ReputationIsAverage` | after a call on reviews the score is their average | another such call for the agency |
| `UploadedIsStored` | an uploaded asset has its file | a confirmation that another one or a clean-up overtakes |
| `OnlyOrphansAreDeleted` | a clean-up takes nothing that its package shows | another update of the package |

`MarketProofs.tla` proves `OwnersStay` (`Spec => []OwnerStays`) for any agencies, staff, loads and
numbers of calls. The check that spares a row and the write that follows it are two steps, so the
property is not inductive: `OwnersHaveRows` says that each agency's first row is as it was created, and
`Knows(r)` that no call that has been let through to a row is about to write one of these. A row never
changes its user or its agency, which is why the check cannot become stale. `Elsewhere` and
`NoAgencyStep` dispose of the steps of the other four services.

The other properties are theorems too, by `MarketInv`: the paths of the calls (`Path`), the types and the
references between tables (`Typed`), and `Overlap`, one part for each service, of what a call relies on or
which rival has changed it. `InviteOver`: an invite about to be spent was spent by no earlier call
(`InvitesAreSpentOnce`). `AgencyOver`: no call about
to decide on an agency comes after the answer to its approval (`NotYetApproved`), so only one that was under
way changes it (`ApprovalsAreFinal`). `ReviewOver`: the average about to be stored is the one there is, or a
rival spoils it (`ReputationsAreAverages`). `MediaOver`: an asset about to be marked has its file, or a rival
takes files (`UploadsAreStored`). `PackageOver`: what is about to be deleted the package does
not show, or a rival updates it (`OrphansAreDeleted`). `TypeCorrect` (`TypeOK`) also needs that a
reputation is an average of naturals (`AverageTypes`), for which the reviews must be finitely many.

What the model also shows, with no run of its own:

- Media that two packages show are deleted when one of them drops them: the clean-up that is meant to
  keep orphans from piling up (`media-assets.service.ts:375-376`) does not look for other users of a
  medium. `OnlyOrphansAreDeleted` is therefore stated of the package that the call itself changed; the loads
  have two packages that share a medium.
- Accepting an invite asks for the role the invite grants, so only who has it already can accept.
- An approval whose mail fails has been written, and the repeated call is refused before the badge.

## 9. Feed, reports, notifications

`Content.tla` composes `Feed` (posts, comments, stories and reposts as `items`, with the foreign keys
between them; likes, views), `Reports` (with the worker of the queue `moderation`) and `Notifications`
(creation, broadcast, preferences, devices, and the worker of the queue `notifications`). A call notifies
each of its users by a chain of its own (`telling`); a push is on its way when no call waits for it any
more, reaches some of its tokens, and has the others removed. A retry of a job is one more call.

`content` runs five loads of four calls (responding, commenting, watching, notifying, reporting).
`DevicesAreKept` (a device goes only by its owner's call or by a push that did not reach it) and the foreign
keys in `TypeOK` hold however calls overlap. `PushedOnce`: what is recorded as pushed is not pushed again, but
by a call or run with a rival that pushes the same: a job that runs while the call that created its
notification has not recorded its push sends it again. `OneReportPerReader`: a run creates no report that
one of a run that was over before it has created, also when that one broke off. Two devices of one user and a
second one who registers one of them are enough for a token to change hands while a push to it is on its way.

Stories are items here as posts are, and `FindLike` refuses to unlike one, which no route offers.

What the model also shows, with no run of its own:

- A push while Firebase is out of reach removes all devices of its user: all its tokens have failed.
- A run of an intake job that breaks off between the report and the notifications of the super admins is not
  made up for: the retry finds the report and skips the rest.
- `reports.service.ts:23-24` compares a user with the reported item, which never is one, so that users
  may report what is their own.

`ContentProofs.tla` proves `DevicesStay` (`Spec => DevicesAreKept`) for any users, devices, pushes and
loads. `DevicesInv` says that whatever `removeStaleTokens` is still to drop was missed by a push, and that
a registration is of a user.

`TypeCorrect` (`TypeOK`, with the foreign keys of the feed) rests on `Typed`: a post that others refer to was
made by a call whose operation tells for ever what kind of item it is (`Made`, `IsA`), responses go with the
item they are hung on, and only a call that is not answered yet notifies anybody. `Awaiting` says of overlapping
calls that a report about to be written by a run of a job has no like of an earlier run (`ReadersReportOnce`,
that is `OneReportPerReader`), and that what is about to be pushed was not pushed, or has a rival
(`PushesAreOnce`, that is `PushedOnce`).

## 10. Findings

| Run | What the code does |
|---|---|
| `wallet_overdraft` | checks a balance read before the row lock and decrements unconditionally |
| `wallet_double_debit` | debits a withdrawal under the caller's key after an unprotected status check |
| `webhook_applied_twice` | does not look at the cache again once it has the claim |
| `group_rejoin` | adds a returning member to the chat with an insert that skips his old row |
| `milestone_lost` | keys the milestone log by campaign alone |

Each violates one property that a test or a comment of the repository states; `PROJECT.json` quotes it.

## 11. What is not modelled, and why

Agency settings, invoices, pricing and dashboards, fraud flags, calls, the audit log and the profiles and
preferences of users are single rows that one call writes and on which no other row depends, or
read-only aggregates. The Stripe subscription service is called by nothing and reads a table that no
migration creates. Mail, Redis and Prisma are clients of external systems whose failures are failures of
the calls that use them; bootstrap, filters and the response format are stateless. Of the modelled
services, lists, overviews, texts, pictures, previews, hashing, signatures and best-effort notifications
are abstracted where nothing depends on them.

Every safety property and action property of a passing run is a theorem. What stays with TLC is the two
liveness properties, `EveryCallAnswered` and `EventuallyAcknowledged`: the provers have neither fairness nor
`ENABLED`. What a sum over a set computes is defined by recursion, and is proved about through the least
counterexample, since induction itself is out of their reach. The five expected violations are, of course,
runs only.

## 12. Plan

Done: Wallet with its ledger, webhook, authentication with its session lifecycle, Social, Campaigns,
Marketplace and Content, and proofs of all their safety properties. Left:

1. Refinements: that the donations of the webhook are those of Wallet; an abstract conversation (who is in,
   what was said) and an abstract campaign lifecycle that Social and Campaigns implement.
2. Composition: the badge of Agencies with the one of Campaigns, and the staff that Chat reads as a
   constant with that of Agencies.
3. Users' profiles and the smart replies of agencies, should more come to depend on them.

The project is kept small enough to be checked as a whole: a dozen runs of a few minutes and forty
properties. A new property takes the place of a shallower one, and runs of one component are merged
where one instance answers both questions.

## 13. Running

    tlc -workers 2 -config wallet.cfg MCWallet.tla
    tlapm WalletProofs.tla

The MC module and the configuration of each run, and the modules with theorems, are in `PROJECT.json`.

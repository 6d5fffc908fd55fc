# Verification of the eclet marketplace backend

TLA+ models, TLC runs and TLAPS proofs about the NestJS backend in this
repository: a marketplace with moderated advertisements, registration with
e-mail confirmation, OAuth, sessions, chats, a catalogue of categories and lists
of favourites, on PostgreSQL (Prisma), Bull queues in Redis, socket.io and
GraphQL.

Paths below are relative to `src/src/`. `PROJECT.json` has the exact lines that
each definition stands for, the hazards with the properties that cover them, and
the mutations each property detects.

The code is work in progress: the injection graph does not resolve at this
commit (`ChatModule` does not provide `ChatRepository`, `MessagesModule` imports
`EncryptionModule` while its service injects `SecurityService`, and
`SecurityService` uses a member it does not declare). The models take each handler as
it is written, and name as constants the places where something outside of the handler
decides whether it can succeed at all (see "Constants that stand for the build").

## 1. The system

### Components, their state and their operations

| component | state | operations | correct when |
|---|---|---|---|
| Advertisement moderation (`advertisement/`) | table Advertisement (status), Bull queue `advertisement` | create inserts the row and queues a job; `ModerationProcessor.checkText` approves or rejects | every visible row has a job; a verdict is right for the text and for a list in force; owner mailed; a verdict does not flip |
| Banned words (`bannes-word/`) | table BannedWord | create, update, remove | read consistently by the processor |
| Registration (`user/`, `auth/login/`, `confirm-email-reguster/`) | User, EmailToken | signUp, signIn of an unconfirmed account, confirmEmail, delete | one account per address; activated once, and together with the end of its EmailToken; letters limited |
| OAuth sign-in (`oauth-auth/`) | ProviderModel | open an account, sign in by a known identity, link an identity | as above; an identity belongs to one account |
| Sessions (`auth/`, `jwt/`, `strategy/`) | User.status, tokens held by clients, queue `login` | open, refresh, log out | an ended session grants nothing while its token is good; the status agrees with the sessions; sign-ins are reported |
| Token blacklist (`black-list/`) | BlacklistedToken | add, look up, nightly clean-up | no entry goes before its token expires, up to the rounding of the clock |
| Chats, messages (`chat/`, `messages/`) | Chat, UserChatStatus, Message | open and remove chats; create, update, remove messages | no message without chat, members and users; the author alone changes it |
| Chat events (`chat-socketio/`) | what clients were told | one event per operation, emitted inside its transaction | follow the commits |
| Categories (`ads-categories/`) | Category | create, update, remove | names differ, parents exist |
| Favourites (`favourite/`) | Favourite and its join table | create, remove | judged advertisements of others; shrink on request |
| Mail queue (`mailer/`), login notification (`auth/login/login.processor.ts`) | queues `mail`, `login` | add; send by SMTP with three attempts | at least once before a job counts as done, again only after a fault, given up only after enough of them |
| Password resets (`reset-password-login/`, `reset-user-*`) | ForgotPassword, EmailChange, PasswordReset | ask for a token or code, verify a token | the letter of a request that succeeded carries the stored secret; nothing is stored that was not mailed; attempts limited |
| User profile (`user/`) behind its guards (`strategy/`) | User | update, delete, findOne | rows change as asked and by whom they may be; an old read brings nothing back |
| Paging (`base-page/`, every `findAll`) | none | count, check the page, select | a walk to the last page misses nothing that stayed in its place; nothing twice; no empty page |
| Reviews (`reviews/`) | Review, User.rating | create, update, remove | rating is the average |
| Error handling, encryption, settings, logger | none | pure checks | - |

### How they interact

- **Calls.** Controllers and resolvers call a service; the service calls other
  services and its repository, a wrapper over Prisma. A guard (a passport strategy)
  runs before the handler and does reads of its own, which the handler uses later.
- **Shared state.** All through PostgreSQL. Reads are outside of any transaction;
  writes are a single statement or an interactive `$transaction` with a timeout of
  five seconds. What decides a race is a unique index, a foreign key or a row lock,
  never the code's own look-up.
- **Messages.** Bull jobs (`advertisement`, `login`, `mail`) are added inside the
  transactions, before they commit. Socket events too. Letters carry links that come
  back as requests.
- **Timers.** `clearBlackList` at night; token, code and resend intervals; Bull's check
  for stalled jobs.

### What is hard

1. *Read, then write.* Every handler acts on rows it read before others changed them.
2. *Effects before the commit.* Jobs, mails and events escape a transaction that may
   still roll back, and may be processed before it commits.
3. *Swallowed errors and retries.* `checkText` catches everything; Bull redelivers after
   a crash.
4. *Locks.* Interactive transactions hold row locks across awaits.
5. *Three units of time* at the expiry of tokens.
6. *Cascades.* Deleting a user takes chats, tokens and lists along, and is refused by
   messages and advertisements.
7. *Two statements for one page.* Rows come and go between the count and the select, and
   between the pages, and an update moves a row where the listing is ordered by `updatedAt`.
8. *Checks the program applies to its own output.* A payload or an object built by one
   service is validated against the DTO of another, and no value it ever builds may pass.

## 2. Modules

| module | what it is |
|---|---|
| `AdLifecycle` | abstract: the promise of moderation about one row |
| `AdModeration` | create, the queue, the processor, crashes, banned words |
| `AccountLifecycle` | abstract: accounts and addresses |
| `Registration` | signUp, signIn (unconfirmed), the guard of confirmEmail, OAuth, delete |
| `SessionLifecycle` | abstract: what requests may be granted |
| `Session` | sign-in (confirmed), refresh, logout, guard, clean-up |
| `Conversation` | abstract: chats and messages as one-step operations |
| `Chat` | ChatService, MessagesService, locks, events, mails |
| `Shelves` | abstract: categories, advertisements, favourites as one-step operations |
| `Catalogue` | AdsCategoriesService, FavouriteService, placing of advertisements |
| `Delivery` | abstract: at least once, again only after a fault |
| `MailQueue` | the queues `mail` and `login`, both processors, Bull, SMTP, crashes |
| `Secrets` | abstract: mailed secrets, one per user and kind, and what they prove |
| `Resets` | ResetPasswordLoginService, ResetUserEmailService, ResetUserPasswordService |
| `Pages` | every listing: both page checks, count, select, and the writers beside them |
| `Records` | abstract: who may change which column of a user |
| `Profile` | UsersService.updateUser and delete behind their strategies |
| `XProofs` | theorems about `X` (seven modules) |
| `PagesProfileProofs` | theorems about `Pages` and about `Profile`, which is why the definitions of `Profile` that both would have are called `ProfileInit`, `ProfileNext` and so on |
| `MCX` | constants for the runs of `X` (nine modules) |

Each detailed module but `Pages` is shown to implement its abstract one. `AdModeration`,
`Registration` and `Session` extend the abstract module and share its variables (the
committed state); the others instantiate it with a refinement mapping: `Chat` and
`Catalogue` hide rows of open transactions, `MailQueue` instantiates `Delivery` twice,
once for each queue, `Resets` forgets how far a request is, `Profile` what it has read.
The detailed modules have tables in common but are checked apart: each models the steps
of the others that touch its tables as its own environment (the deletion of users in
five of them, `Judge` in `Catalogue`, `WriteElsewhere` in `Profile`, `Add` to `Close` in
`Pages`, `signIn` divided between `Registration` and `Session` at the check of the
verified flag, `AddLogin` and `AddLetter` in `MailQueue` for the jobs the others queue).

### From code to model

Common conventions. One request is one member of `Ids`/`Requests`, a record
with the stage it is at and what it has read. Every await at which another request may
change something the handler uses is the border of two actions; what happens between
two of them is one. A transaction's own writes become visible in one step, at
its commit. In `Chat` and `Catalogue` a request that is refused before it writes changes
nothing and is left out; in the other three the refusal is a stage. `Fail`/`Rollback`
stands for any call that throws, a transaction timeout or a dead process. A definition
whose name is another's with a suffix (`Taken_NotUnique`) is a mutation of it, which the
model does not use.

**AdModeration.** `Insert`, `Enqueue`, `Commit`, `Rollback`:
`AdvertisementService.create`. `StartJob`, `ReadBannedWords`, `Approve`,
`RejectAndMail`, `CommitRejection`, `RowMissing`, `HandlerError`, `FinishJob`:
`checkText` and the two transactions under it. `Crash`, `GiveBack`, `GiveUp`: the process and
Bull's stalled check. `CreateBannedWord`, `UpdateBannedWord`, `RemoveBannedWord`:
`BannedWordService`. Text is a set of words; `Hit` does what `isWordBanned` does (lower
case on both sides, words of at least three characters); a missing description
reads "null", as the string concatenation makes it (`NullWord`). `lists` and `faults` are history:
the lists in force since the submission, and why a run ended without a verdict.

**Registration.** `SignUp`, `OAuthNewcomer`, `Insert`, `InsertFails`, `MailFirst`,
`CommitSignUp`, `CommitOAuthUser`; `SignInUnknown`, `SignInWrong`, `SignIn`, `ReadAttempts`, `WriteAttempts`, `Resend`,
`SendUnstored`; `Follow`, a link that `JwtConfirmationStrategy` refuses; `OAuthKnown`,
`OAuthLink`, `CommitLink`, `LinkFails`; `Delete`, `ClearBlackList`, `Tick`. A taken unique value (an address, the id at
a provider) in an open transaction makes the second insert wait (`Locked`,
`IdLocked`), a committed one makes it fail (`Collides`). A list of
attempts is the set of them, each made by another request (`Attempts`): the code counts and
filters them and never asks for their order. `Follow` ends every link in a 500 (in a 401 while its
`notBefore` lies ahead): the strategy validates the payload before anything else, `ValidateConfirmPayload` requires `iat`
(`strategy/dto/confirmation-strategy.dto.ts:44`), and the tokens are signed with
`noTimestamp` (`jwt/jwt.service.ts:132`). The transaction of `confirmEmail` behind it cannot be
reached and has no action; an account opened by signUp is activated by linking an identity (`ActivateLinked`)
and in no other way, and `ActiveHasProvider` says that the two go together.

**Session.** `Arrive`, `Sign`, `UpdateStatus` (with the login job), `CommitLogin`: a
sign-in, of which OAuth needs the first two; `Verify`, `FindUser`, `FindInBlackList`: the
guard, three reads; `Refresh`, `Logout`, `LogoutFails` behind it; `Fail`, `Delete`,
`ClearBlackList`, `Tick`. Time is in half seconds, since `clearBlackList` rounds to the
nearest second and jsonwebtoken rounds down. The clean-up may start at any moment. One that
starts in the second half of a second takes a token for expired that is good until the second
is over (`Lasts` is what it leaves alone), so `EndedIsBlacklisted` and the promise of
`SessionLifecycle` speak of a token that is good for more than half a second yet; what remains
is exact: an entry is gone no earlier.

**Chat.** A request starts with its reads (`CheckChat`, `CheckRemoval`, `CheckPost`,
`CheckEdit`, `CheckRetraction`), opens a transaction with its write (`SaveChat`,
`DeleteChat`, `SaveMessage`, `UpdateMessage`, `DeleteMessage`), for a new message adds the
mail (`NotifyUser`), and ends in `Commit` or `Rollback`. A row is
"inserted" until its transaction ends and "lost" if that rolls back. `HoldsChat`,
`HoldsMessage`, `HoldsUser` say which locks an open transaction has: PostgreSQL's row
lock of an update or delete, and the key-share lock that a foreign key takes. `feed` is
what a client in the room has been told, `misled` the rows that a rolled-back
transaction has told of. `isRead` and the encryption's output are left out; one text is one value.

**Catalogue.** The reads (`CheckCreate`, `CheckUpdate`, `CheckRemove`, `CheckCategory`,
`CheckFavour`, `CheckUnfavour`), then one statement with its index and foreign keys
(`CreateCategory`, `UpdateCategory`, `DeleteCategory`, `SaveFavourite`,
`RemoveFavourite`); only an advertisement has an open transaction (`InsertAd`, `CommitAd`,
`RollbackAd`), which keeps its category and owner from deletion. `FavouriteService`
reads the list after the advertisement (`FindFavourite`), or both at once, in either order
(`FindForRemoval`). `Judge` is a verdict of `AdModeration`. `Kept` is a field that
`minimizeUpdates` drops because it has not changed. `moved` is history.

**MailQueue.** `AddLogin`, `AddLetter`: a job is added. `Take`, `Complete`, `Throw`,
`Retry`: Bull runs a handler, which ends or throws; `attempts` and `backoff` are those of
the queue. `Notify` (LoginProcessor adds a letter) and `Send` (MailProcessor hands it to
SMTP) are the handlers; a `Throw` after one of them is an acknowledgement that was lost.
`Crash`, `CheckStalled`: the process dies, and Bull finds the jobs it was running. A
letter is a job; only which sign-in it reports is kept of it. A sign-in of which neither
place nor browser is known (`unknown`) throws in every run, because its subject is
translated with `I18nContext.current()` outside of a request.

**Resets.** One request is the secret it draws. `AskUnknown`, `AskFirst`, `AskAgain`: the
reset at login; `AskForAnother`, `AskEmailTaken`, `AskEmailAgain`, `AskEmailFirst`,
`AskEmailSecond`, `AskPasswordCode`, `ConfirmEmail`, `ConfirmPassword`: the codes of the
settings, refused or not. `Insert` (which takes the row lock), `Mail`,
`Commit`, `Fail`: the transaction. `FindToken`, `MarkRequested`: verification of a token.
`NewPassword` ends in a 404. `DeleteUser`, `Expire`: what else changes the rows. `AskAgain`, the
second request of a user for a token, is refused for its number or ends in a 500:
`validateUpdateResetPasswordModel` runs before the transaction, on a DTO that nests the dates of
the attempts under `@ValidateNested`
(`reset-password-login/dto/save-update.reset-password.dto.ts:49`), and class-validator 0.14, the
version of `package-lock.json`, refuses an object it has no rules for, as a `Date`. A row is
therefore written once. `past` and
`mailed` are history: what was ever stored, and the requests whose letter was added.

**Pages.** One client walks through one listing. `AskMessages`, `AskChats`, `AskAds`,
`AskUsers`, `AskWords` fix the listing, its order and the size of a page; `AskHiddenAds`
is the query only administrators may send; `Admit` is the look-up of the chat, `Count`
the count with `validatePageNumber` and `validatePageSize`, `Select` the page. Between them
rows are added, removed, and begin or cease to fit the filter (`Add`, `Remove`,
`Mark`, `Unmark`, `Close`). The client chooses the order (`Sorts`): the time of creation
(`postedAt` of advertisements), of the last update, either way, or none, in which case any rows
may make up a page (`MayBePage`). Messages are always the newest first, words are never without
an order. `time` is the write that gave a row its place: the one that created it, and, where the
client sorts by `updatedAt`, the last update (`Touch`, Prisma's `@updatedAt`). Rows are numbered
in the client's order as it is when the walk begins, so `Init` has every listing, and the others
act from then on until the walk ends. `since`, `lost`, `gained`, `moved`, `gone` are history: what
was there when the walk began, and what joined, left or got another place.

**Profile.** `AdmitUser` and `AdmitSuperAdmin` are the strategies, with the row they
read; `EmptyBody` the interceptor; `WrongId`, `FindForSuperAdmin`, `CheckOwn`, `Unchanged`,
`UpdateSaveUser` are `updateUser`, `FindForDelete` and `DeleteUser` are `delete`. Access
tokens have no state: `JwtAccessStrategy` ignores expiry and nothing puts one on the
blacklist. Roles are constant, as no code changes one. `held` is history: which of
the values a request asked for stood in the row meanwhile.

### Constants that stand for the build

| constant | as committed | what the runs take | why |
|---|---|---|---|
| `PlainDtoPasses` (Registration, Session) | FALSE with class-validator 0.14 or later | TRUE, FALSE in `registration_limit` | `validateByDto` is handed object literals, which newer versions of the library reject as unknown values: then opening or linking an account by OAuth and logout end in a 500. With FALSE the interesting steps never succeed. The theorems hold for both. The constant stands for the handlers that would otherwise not be there at all. Refusals that leave the rest of their handler in place are modelled as committed: that of `Follow`, which every version of the library makes, and that of `AskAgain`, which 0.14 makes. |
| `KeysLoaded` (Chat) | FALSE | TRUE, FALSE in `chat_pair` | `messageConfig` is read from the key `emailService` (`settings/config/config-loader.service.ts:59`), so `encrypt` throws and no message can be created. The theorems hold for both. |

### Facts about the code met on the way

These are behaviours the models keep, and which no line of the repository contradicts
or no property is stated about:

- No letter confirms an account (`Follow`), although the controller documents success
  (`confirm-email-reguster/confirm-email-reguster.controller.ts:43`): one opened by signUp becomes
  active by linking an identity or not at all. If the payload check let a token pass, only the
  first letter could: the one resent carries a uuid that is never stored
  (`auth/login/login-auth.service.ts:420` leaves out the third argument of the repository's update).
- Nobody gets a second token for the reset at login (`AskAgain`), and the limit of attempts is
  reached only when it is one.
- The clean-up of the blacklist may take an entry up to half a second before its token expires
  (`black-list/black-list.service.ts:124` rounds to the nearest second).
- A listing ordered by `updatedAt` changes under its reader: an update between two pages puts a
  row at the end of the latest. With the oldest first the rows behind it move up, and one that was not
  updated is missed; with the newest first it is the updated row that is missed, and those it
  passes push one onto the next page again. `WalkIsComplete` and `RowComesOnce` say so. Users and
  advertisements without a sort field have no order, and promise nothing.
- `checkAdvertisement` (`advertisement/advertisement.service.ts:176`) throws when the row was
  found, so update, findOne and remove of advertisements never reach their write.
- `UserChatStatusService.update` refuses what it finds; no chat is ever muted or
  left. The socket refuses a token that is present, so nobody joins a room.
- A chat with oneself has two statuses of one user; messages can be added to it, but not
  changed, and they keep the chat and the user from deletion.
- Deleting a user cascades to chats without messages and emits no event; a chat with a
  message blocks it (Message to User is RESTRICT), and so does an advertisement. The Chat
  cascade fires before the RESTRICT of UserChatStatus.userId because the constraints were
  created in that order.
- The event of an update carries the message as it was before (`messages/messages.service.ts:491`).
- `getTotalChatCount` looks at the query object and not at its field (`query ? false :
  undefined`), so the chats with unread messages are counted and all are listed: the last
  pages of a user whose chats are read are refused. `WalkIsComplete` excepts chats.
- The counts of advertisements and users ignore the filter of the listing, so an empty page
  may be answered; the filter `withImages` is inverted. Over HTTP the listing of
  messages is refused, its query being typed by an interface, and the guard of GET /users
  names a strategy (`JwtAccessUserStrategy`) nobody registers; `Pages` takes both as the
  services offer them.
- Two updates of different columns of one user may mix; nothing promises that one request
  sees the other.
- A job's `attempts: 3` (`advertisement/advertisement.service.ts:73`) is never used, since
  `checkText` swallows every error: a failed run completes the job and leaves its
  advertisement onModeration. `UndecidedHasFault` says that this needs a fault.
- `verifyResetToken` sets a status on its response and never ends it. `resetPasswordByUser`
  is called with its arguments in the other order
  (`reset-password-login/reset-password-login.service.ts:321`), so no password is ever reset
  at login. `validateLastReset` (`reset-user-base/reset-user-base.ts:78`) dereferences a date
  only a confirmation writes, so a second code and every confirmation end in a 500. The
  controllers of `reset-user-*` carry no guard.
- A user whose tokens have expired without a logout stays online, a new one is online
  before the first sign-in; logging out of one of several sessions sets the user offline.
- Two identities of one provider may be linked to one account by overlapping requests
  (`SameProvider` is a set).
- `FacebookStrategy` reads `sub` from a profile of `id`, `email` and `displayName`, so the
  `providerId` of every Facebook identity is the string "undefined" (`OAuthId`): the unique
  index admits one Facebook account in all, and any later newcomer or link is refused.
- `findRootCategories` returns all categories.
- A category may be moved below itself or its own descendant: only the existence of the
  parent is checked.
- Removal from the favourites finds active advertisements only, as adding does: one that
  was rejected later stays on the list.

## 3. Runs

| run | instance | what it shows |
|---|---|---|
| `moderation_refines` | 1 advertisement; words `null`, `Null`, `no`; 1 crash, 1 redelivery | `Promise`: AdModeration implements AdLifecycle, with two spellings of one word, a word too short to count and a missing description; `UndecidedHasFault` |
| `moderation_safety` | 2 advertisements, 1 word, 2 crashes, fairness | `VisibleRowHasJob`, `OwnersAreMailed`, `VerdictIsFinal`, and `JobsEnd` (every queued job ends) |
| `registration_safety` | 3 requests, 2 addresses, 4 identities (2 Google and 1 Facebook with one address, 1 Facebook with the other), clock 0..1, fairness | `Promise`, `PendingHasToken`, `ActivatedOnce`, `ActiveHasProvider`, `RequestsEnd` |
| `registration_limit` | 3 requests, 1 address, 1 identity | finding: `ResendsWithinLimit` is violated |
| `session_safety` | 4 requests, 1 user, tokens of 2 seconds, clock 0..5 half seconds, a clean-up at any of them | `Promise`, `EndedIsBlacklisted`, `OnlineHasSession` |
| `chat_safety` | 2 requests, 2 users, 2 chats, 1 message, 2 texts | `KeepsPromise`, `MessagesHaveTheirChat`, `ChatsHaveTheirUsers`, `ClientsAreTold`, `GoneStaysGone`, `AuthorsOnly` |
| `chat_pair` | 2 requests, 2 chats | finding: `OneChatPerPair` is violated |
| `catalogue_safety` | 2 requests, 2 users, 2 categories, 2 names, 2 advertisements | `Promise`, `AdsHaveCategory`, `NoLoops`, `LeavesOnRequest` |
| `mail_delivery` | 1 sign-in, 2 letters, 3 attempts, 1 crash, 1 redelivery, fairness | `Promise`: both queues implement Delivery; `JobsEnd`; `LoginIsMailed` |
| `resets_safety` | 4 requests, 2 users, a limit of 1 attempt | `Promise`: Resets implements Secrets; `LetterWorks` |
| `pages_walk` | 4 writes (rows, and updates that move one), pages of 2, two refused sizes, three orders | `WalkIsComplete`, `EmptyPageHasACause`, `RowComesOnce` |
| `profile_update` | 2 requests, a super administrator and a user, 2 columns and one of others, 2 values | `Promise`: Profile implements Records; `GoneStaysGone` |

Five runs also check the type invariant of their module; the history variables
and bounded counters make it more than a formality (a counter over its limit shows
there).

**Why these bounds.** The races of this code are between a request that has read and
one that writes, over one row or two rows in a relation; two requests in flight at once
and one of each row meet all of them. A third request is needed in
`registration_safety`, where one request must open the account the other two race for, and
four in `session_safety` (two sessions, and a refresh and a logout between them) and in
`resets_safety` (two first requests at once for one user, one that finds their row, and a
verification). Two rows are there wherever a property compares rows (`NoLoops`, unique
names, two chats). In Registration, Session, Resets and Profile each request is used once,
which bounds the run; in Chat and Catalogue requests are reused, and the rows, each used
once, are the bound. Four rows make two full pages of two and a last page that is partly
filled after a removal, and two or three rows leave writes for the updates that move them; every order,
both directions, a filter and sizes out of range are tried. Three
attempts are those of the configuration, and one crash uses up the one redelivery Bull
allows by default. `MaxTime`, `MaxCrashes` bound the clock and the number of
crashes: the clock of `session_safety` begins before a token of two seconds expires and ends half a second
after, so that a clean-up meets it good, good for less than half a second, and expired.
For any other number the theorems stand in.

**Symmetry** is used in safety runs only, over sets whose members the model does
not tell apart. Users are not in the symmetry set of `Catalogue`, where one of them
owns the advertisements, and only symmetric runs without liveness use it.

**Deadlock** is checked in the AdModeration and Catalogue runs, whose environment never
ends. The others may stop: their requests, jobs or rows are used up. Deadlock of the
program itself, requests that wait for each other's row locks, needs a transaction that locks
a second row while it holds a first. Those of Chat and Resets lock with their first statement and
only add mails and events after it, so none waits while it holds anything, and there is nothing to
check. `RequestsEnd` covers the wait for a unique value in Registration.

**Fairness.** Nobody is assumed to send a request. `AdModeration`: weak fairness on the
worker taking a job, on each step of the handler (an await is settled or times out), on
the end of each request's transaction (Prisma gives it five seconds) and on the stalled
check, a timer. `Registration`: weak fairness on the next step of each started request;
a wait for an address ends because the transaction holding it is itself carried on.
`MailQueue`: weak fairness on a worker taking a job, on the end of its backoff, on the
stalled check, and on the next step of each run, which SMTP and Redis answer or let time
out. No fairness is assumed of failures, crashes, deletions, the clock or the clean-up.

### Findings

1. `registration_limit`: two sign-ins read one list of attempts and write it back; together
   they send more letters than `handleEmailResendLimit` allows.
2. `chat_pair`: `verifyChatExistence` reads before the transaction, no index backs it,
   and two users get two chats.

## 4. Proofs

All theorems are of the form `Spec => []Inv`, `Spec => [][A]_vars` or `Spec =>
AbstractSpec`, for every value of the constants under the named `ASSUME`s of the modules
(sentinels outside of the sets they stand beside, bounds that are naturals, functions on
their domains), which TLC evaluates in the runs. Every invariant and action property that a
passing run checks is the property of such a theorem. What is counted is finite: the rows of
`Pages`, which are numbers, and the lists of attempts of `Registration`; no other proof
needs a set to be finite.

| module | theorems | argument |
|---|---|---|
| `AdModerationProofs` | `TypeCorrect`, `EveryRowHasItsJob`, `Mails`, `UndecidedOnlyByFault`, `VerdictsAreFinal`, `KeepsPromise`, `JudgedRight` | none of the properties is inductive: they speak of rows and mails, and what keeps them is where the request, the job and the worker are. `IInv` relates the three: a row is visible exactly when its request is done (`RequestInv`); the worker's list is one read since the submission (`WorkerInv`, `ListsInv`); a delivery that has not mailed yet leaves one mail free (`MailsInv`); a run that is over left a verdict or a fault (`OutcomeInv`) |
| `RegistrationProofs` | `TypeCorrect`, `PendingAccountsHaveTokens`, `ActivatedAtMostOnce`, `ActiveByProvider`, `SignedInActive`, `KeepsPromise`, `AddressesAreUnique`, `NothingUndone` | `LockInv`: an open insert holds its address alone, so a commit never meets a taken one; `SeenInv`: what a request saw settled is settled; `ProvidersInv`: a provider row is of a request whose account is settled; with `ActiveHasProvider`, that an account is active exactly while it has one, a link that fails after any of its four writes leaves both or neither. The types need a layer of their own (`TypeInv`, inductive given `IInv`): a request writes a list it read steps before, so `DatesOK` bounds the lists that requests carry as well as those stored, and the bound is that of the check where the list was read (`ActiveDatesType`, `AttemptFits`). That bounds the list and not the letters, see finding 1 |
| `SessionProofs` | `TypeCorrect`, `OnlineUsersHaveSessions`, `SignInsAreReported`, `EndedStaysBlacklisted`, `KeepsPromise`, `LateAreRefused` | `Base` ties sessions to the requests that opened them (`OpenInv`), asking requests to sessions of their user (`AskInv`), jobs to sign-ins (`JobInv`). The promise needs in addition that a request which came too late is stopped by the blacklist whichever of the guard's reads it has done (`LateInv`); that an entry the clean-up takes is that of a token with at most half a second left, whenever it starts, is the lemma `OverdueEnds`. `TimeInv` adds the bounds of the clock and of every expiry |
| `ChatProofs` | `Invariance`, `TypeCorrect`, `ChatsKeepMessages`, `UsersOfChats`, `ChatIsConversation`, `EventsTellTheTruth`, `NoEventAfterGone`, `ChangedByAuthors` | which row each open transaction has inserted or locked, that no two share one (`Exclusive`), and that every uncommitted row has its transaction; then the lock of a chat keeps `close` and `post` apart. What clients are told is a second invariant, `Told`, inductive given the first: the feed of a row follows from its state and from whether an open transaction has announced its removal (`Leaving`), and since locks are exclusive at most one has (`TakesAlone`); a message's mail is queued while its transaction is open (`MailInv`); a request to change a message is its sender's (`AuthorInv`, stable because rows are used once). Rows that a rolled-back transaction has told of (`misled`) are excepted: of those the clients are told wrong, which is what the code does. |
| `CatalogueProofs` | `TypeCorrect`, `AdsKeepTheirCategory`, `OnlyMovesMakeLoops`, `ListsShrinkOnRequest`, `KeepsPromise`, `ShelvesAreInOrder` | a judged advertisement stays judged, so what FavouriteService checked still holds at its write; an uncommitted advertisement is its request's alone; the foreign keys hold for uncommitted rows too. `NoLoops` is inductive given that a parent exists: a new category is nobody's parent |
| `MailQueueProofs` | `Invariance`, `TypeCorrect`, `KeepsPromise`, `BothQueuesPay` | a job has acted at most once more than it has met faults, and exactly while a run of it has acted is one act unpaid; the counters bound each other, so a job is given up only after `Patience` faults whatever the attempts and the stalled limit |
| `ResetsProofs` | `Invariance`, `TypeCorrect`, `LettersWork`, `KeepsPromise`, `TokensAreOwn` | `RowInv` and `RequestInv`: a row that was written is locked by the one request between its write and its commit, and nothing was stored before it; a row once stored is not written again, so what was stored last is the secret of the one request that succeeded |
| `PagesProfileProofs`, Pages | `Invariance`, `TypeCorrect`, `WalksAreComplete`, `PagesAreNotEmpty`, `RowsComeOnce` | the place of a row is the number of rows up to it; what was there and stayed is seen up to the offset (`SeenInv`), what was seen lies within it (`OnceInv`). `OrderInv`: no two rows have one `time`, and a row yet to come has a later one. A step of the others leaves a row in its place in time or puts it behind all (`RowsStep`), so a removal only lowers places, an addition only raises them (`PlaceGrows`, by cardinalities), an update lowers those of the rows behind it when the oldest is first and raises those it passes when the newest is (`Steady`); the history variables say which of these happened. For an unordered listing only the size of a page is known, and nothing is claimed |
| `PagesProfileProofs`, Profile | `RecordsArePromised`, `DeletedStayDeleted`, `ProfileTypes` | the promise of Records is about answers given from a row that may be old. `ProfileInv`: whatever the row has, and whatever the row that was read had, of what was asked for is in `held` (`HeldOK`); who gets to the comparison is the user or a super administrator (`StageOK`). Then "unchanged" is true of some moment between, and an update writes only what was asked for onto the row as it is. A deleted user stays deleted because the statement needs the row |

Each `KeepsPromise` (`ChatIsConversation` and `RecordsArePromised` too) is by cases on the actions: a commit maps to the abstract operation,
all other steps to a stutter.

**What the promises come to.** A refinement says that the steps are those of the abstract
module; what a reader of the tables may rely on follows from it. The abstract modules end
with those facts and the proof modules prove them: an invariant of the small abstract
specification, and through `KeepsPromise` one of the code's. `OneAccountPerAddress` and
`NoWayBack` (AccountLifecycle), `LateIsNotGranted` (SessionLifecycle), `VerdictsAreJust`
(AdLifecycle), `NamesDiffer`, `ParentsExist` and `ListsAreOfOthers` (Shelves) are proved in this way; `WorkIsPaid` (Delivery) and
`SecretsAreOwn` (Secrets) are read off the inductive invariants.

**Only model-checked**: the liveness properties (`JobsEnd` of both queues, `RequestsEnd`,
`LoginIsMailed`), which need fairness and ENABLED and are beyond the prover, and the two
properties that the code violates, which are no theorems.

**Only proved**: `LoggedInActive` of Registration and `LoginIsReported` of Session, which
hold for every value of the constants and have no run of their own, the consequences of the
promises above, and the type invariants
of AdModeration, MailQueue, Pages and Profile.

## 5. Not modelled, and why

| part | why |
|---|---|
| reviews and ratings | not part of `AppModule`; create dereferences the review it hopes not to find, so no review is ever stored |
| chat socket | a token that is present is refused and one that is absent is dereferenced, so no connection is ever accepted. `Chat` has the events a client would get |
| updates of a chat's status | never change a row: what they find is refused, what they do not find is dereferenced |
| search index, redis and email wrappers, support, anonymous user | inert or unused at this commit |
| reads of one row (`findOne`), of categories and of favourites | one statement each, no state |
| `isRead` of messages | data without a rule |
| findOne, update and remove of advertisements | `checkAdvertisement` throws when the row was found, so none reaches a write |
| the strategy for administrators, the local strategy | no route reaches the first, the second only calls signIn |
| the transactions of confirmEmail, of a second reset and of a confirmed reset | a check before them refuses whatever the program hands it (`Follow`, `AskAgain`, `CodeStage`) |
| configuration, logging, translations, encryption | values and library code; where they decide whether a handler succeeds they are constants |
| ratings, images, dates of birth, templates of letters | data the properties do not tell apart |

## 6. Plan

Done, in this order: moderation, registration, sessions, chats, catalogue; the mail
queues, resets, paging, the profile; each with its runs and its proofs.

What is left:

1. **Composition** of Registration and Session at the verified flag, to check that a
   session belongs to an account that was active, across deletion; of Chat and MailQueue,
   to follow a message to its letter.
2. **What the code does not reach yet**: confirmEmail, second resets and their
   confirmations, the socket, reviews and the status of chats are worth a model once a request can get there; `Secrets` would
   then promise that a secret is used at most once.

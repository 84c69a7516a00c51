# Verification of the bulletin board

TLA+ models of the bulletin board (a Django project: classified
advertisements with accounts, review, discussions and private messages, served
by gunicorn workers over PostgreSQL), checked with TLC and, in part, proved with
TLAPS. The repository is the reference: every definition translates code under
`src/`, and `PROJECT.json` names the lines.

The program is a set of request handlers. Each runs in one worker process,
reads rows, decides on the copies it has read and writes with later statements.
Most of what can go wrong happens *between* those statements, when another
worker, an administrator, the clock or a kill comes in; the unit tests run the
handlers one after another, with a few hand-made races. The models therefore
take one statement (or one transaction that holds the rows it depends on) as a
step, and let everything else happen in between.

## 1. Inventory

| Part of the system | State | Operations | What is hard |
| --- | --- | --- | --- |
| **Credentials** (`users/passwords.py`, `authentication.py`, `serializers.py`, `tokens.py`, `reset.py`, `admin.py`, `web/views/accounts.py`) | `users_user` row (password hash, `password_changed_at`, `last_login`, `is_active`), claims of JSON web tokens, sessions, reset links | login (API, site), refresh, hash upgrade, change, reset (API, site), administrator's change, deactivation, deletion | results of slow operations (hashing, refresh) applied after the password changed; one-time links used twice; row locks and kills |
| **Signup** (`users/signup.py`, `rate_limit.py`, `validation.py`, the purge command) | `users_signuprequest` rows, `users_user` rows, the pause `users:email-send:signup` in the cache, letters | submit (three attempts), resend, confirm, purge | check-then-act on a unique address and an un-unique telephone; a lock made of a cache entry and a timeout; rollback |
| **Advertisement workflow** (`ads/workflow.py`, `models.py`, `serializers.py`, `views.py`, `admin.py`, `web/views/ads.py`) | `ads_ad` row, roles, letters owed | create, `update_ad` (edit, publish, archive, return), the admin page, delete | stale copies saved whole, permission read before the lock, one letter to one publication |
| **Messaging** (`messaging/views.py`, `models.py`) | threads, messages and their `read_at`, row locks, quotas | start, reply, open a page and mark it | lock order, double click, order of messages, marking what was not shown |
| **Discussions** (`ads/discussions.py`, form, serializer, views, admin) | `ads_review` rows, the visibility of their advertisements | create, PATCH, admin save, delete with cascade, for users and administrators | a rule over several rows checked without a lock; a save that revives a deleted row; a reply built from rows that have changed since |
| **Frequency limits** (`messaging/cache.py`, `messaging/rate_limit.py`, `users/rate_limit.py`, `users/middleware.py`) | counters in the database cache with an expiry | `allow_send`, `request_limit_wait`, `acquire_email_send` | whole-second expiry, three operations that disagree on it, counters that expire between two statements |
| **Media clean-up** (`users/media_cleanup.py`, the command) | files on the disk, the image fields that name them, the files' times | `cleanup_media`: read the references, walk, verify, unlink | a scan and a removal with no lock, while uploads store a file before the row that names it commits |
| **Demonstration data** (`seed_demo`) | the rows it makes, and their marks in the admin log | seed, `--flush` | visitors write under demonstration records between a check and its deletion; marks that vanish with the administrator who holds them |
| **Accounts** (`users/models.py`, `managers.py`, `admin.py`, the profile serializer) | `users_user` rows: address, names, rights, password | create, profile PATCH, the admin's two forms, delete | objects read early and saved late; a check in any letter case over a column unique letter by letter |
| **Catalogue** (`ads/filters.py`, `paginators.py`, the list views) | none; what one reader has been shown | five lists, their orders, turning a page | pages are separate queries over rows that change and tie |
| Uploads, templates, configuration, deployment | none of their own, or read-only | validation of files, pages, start | nothing concurrent of their own; see section 8 |

How they interact: all share one PostgreSQL. The credentials, signup and
messaging handlers lock `users_user` or their own rows with `SELECT FOR
UPDATE`. The cache table is in the same database and on the same connection, so
a counter written inside a transaction goes back with it. Messaging depends on
the advertisement's status and author, which the workflow changes; discussions
hang on advertisements; a deleted account takes its rows with it. No handler
calls another process: the mail server is the only outside call.

What makes each part correct is listed with its run in section 4; every hazard
found, with its line and the properties that cover it, is in `PROJECT.json`
under `hazards`, including those no property covers yet.

## 2. Modules

```
AccountAccess    abstract: a password's history and the credentials it honours
Credentials      implements AccountAccess      MCCredentials   CredentialsProofs
Signup           registration and the pause between letters     MCSignup        SignupProofs
AdReview         abstract: requests that act at one instant
AdWorkflow       implements AdReview            MCAdWorkflow    AdWorkflowProofs
Messaging        conversations about one advertisement          MCMessaging     MessagingProofs
Discussions      reviews, questions, answers                    MCDiscussions   DiscussionsProofs
FixedExpiryCache the operations of one counter in the cache
  SendLimit      EXTENDS it: the two windows of a sender        MCSendLimit     SendLimitProofs
  RequestLimit   EXTENDS it: login and signup windows           MCRequestLimit
                                                                RequestLimitProofs
MediaCleanup     cleanup_media among uploads                    \
DemoData         seed_demo among visitors                        | MCUpkeep     UpkeepProofs
Accounts         the rows of users and their writers             |
Catalogue        lists read page by page                        /
```

Common conventions. `Workers` are gunicorn workers; `req[w]` is the request a
worker serves: `pc` names the statement it is about to run, the other fields are
its local copies, and `Idle` clears them. A lock is the worker holding it.
PostgreSQL is READ COMMITTED: each statement sees what is committed, `SELECT FOR
UPDATE` waits and then sees the new row, and a transaction's writes appear at
its commit. A transaction that touches only rows it has locked is written at its
commit. Some definitions are followed or preceded by a variant commented
"Mutant of ...": a plausible bug, not part of the specification, used to see
that a property would notice it.

### Credentials
`row` is the account, `lock` its row lock, `tokens`, `sessions`, `links` what has
been handed out, `history` the password changes. Each credential carries, for the
properties only, the *epoch* (number of changes so far) of the password it was
proved against; what the code compares is modelled as it compares it: the token's
stamp and issue time (`TokenAccepted`), the session's hash, the link's hash and
last login (which is why any login or hash upgrade ends the links). The upgrade of
a hash is three steps (`LoginLoad`, `Upgrade`, `Recheck`) as in
`check_user_password`; refresh is check and issue. Computing a hash takes a unit
of `clock`.

### Signup
`requests` and `accounts` by address, `deadline` the pause. A submission is
reserve (`acquire_email_send`, which reads its clock some time before the statement
that uses it), select for update, check, delete, insert, commit,
with up to three attempts when the insert collides, then the letter; `confirm` is
lock, check, create, commit. gunicorn kills a worker at `Timeout`: at 60 s it
equals the pause, and that is what makes the pause work as a lock. `Submit` stands
for the API's serializer and the site's form, which differ in wording. `culled` marks
that the full cache threw away a running pause. The arbiter notices the timeout
with some slack; the model takes it as exact.

### AdWorkflow
One advertisement, `admins` the accounts with the role, and requests that carry
the role they came in with (read with the session or token). `update_ad`'s
transaction is lock, decide on the locked row, save the whole row, commit; the
letter comes after the commit and may fail. An advertisement created through the
API takes the default status, published, whoever creates it, as
`tests/test_review_flow.py:217` has it, although the repository's README speaks of
the administrator alone; the site's form makes a draft. The lock is on a row that is read again; if the advertisement is gone the
answer is 404.

### Messaging
One advertisement and, per initiator, a thread. `start` locks advertisement,
account and thread in that order, `reply` account and thread; `quota` is
`allow_send` taken at the lock of the account (its statements against the clock
are in SendLimit). Opening a page is a read and a later marking of its ids. The `log` of a thread is a
function from the ids of its messages, given in the order of the commits, to the rows;
a page is its last `PageSize` ids, and a deleted message leaves its id unused.

### Discussions
Records with advertisement, kind and parent, and `ads`, whether each advertisement
is published, hidden or gone. Who may see and change what is as in the code
(`VisibleTo`, `AccessibleTo`, `MayChange`). Creating, PATCH and the admin page
check with `validate_discussion` in one step and write in another; PATCH
writes with `update_fields` and then builds its reply from the rows as they are by
then, the admin page saves whole rows, which Django inserts when the row is gone.
`serial` records that no two requests have overlapped yet. Deletion is one step
with its cascade.

### FixedExpiryCache, SendLimit, RequestLimit
Time in ticks, `Second` of them to a second, because the expiry is stored in whole
seconds and `add`, `incr` and `get` disagree on the last one. `SendLimit` is
one sender (the caller holds the sender's row lock) and his two windows, statement
by statement, with rollback; `sent` are his messages of the last minute, each with the
expiry of the window it was let through in. `RequestLimit` is many workers counting without a
lock in the counter of a window of the clock.

### MediaCleanup
`files` by name with the later of their two times, `image` what each row names,
`upload` the requests that have stored a file and not yet committed. The command is
`job`: the references of users, those of advertisements, then name after name the
first `stat`, the decoding, the second `stat` and the unlink, one step each.
`KeyOf` is `_reference_key`, which makes one of two spellings of a name. Everything
the site does goes on meanwhile; `quiet` records whether it did.

### DemoData
One record of each sort the command makes and of each sort visitors can hang on
them; `Refs` are the foreign keys, all cascading. `marks` is the admin log. A run is
one transaction (`run` holds its own rows and marks, invisible until `CommitRun`)
under the advisory lock; `todo` are the keys it has not come to, and `Comes` says whose
turn it is, by the order of `handle` or the sort key of `flush`. The check and the
deletion of `flush` are two steps, between which visitors commit. `entries` is
`self.entries`, the marks a run reads at first and those it has made: `Existing` goes by
them whatever has become of the log meanwhile. A visitor may delete the administrator
under a run (`MarksFree` says when he must wait for it), and the marks that are committed
go with him; `bereft` records it, and `lost` which records such a seed has left unmarked.

### Accounts
A writer loads a row, checks the address and saves, three steps; `fields` is
`update_fields`. `Normal` is `normalize_email`. Rows of an early release, which may
differ in letter case only, are among the initial states.

### Catalogue
`entry` are the rows, `reader` one reader of one list. A page is two steps, as it is two
queries outside a transaction: `Count` fixes whether the page is the last one and where it
ends, `Show` filters, orders and cuts the rows there are by then. `late` counts what has
come to the list between the two on a last page. Dates and prices tie; `Answers` are all the arrangements of the rows that
respect the order, so that ties come anyhow in each page, as in PostgreSQL, and `Stable`
is the column that decides them.

### MCUpkeep
The last four share no state with each other, so their product would only repeat
itself. `turn` names the one that moves; the others stay in a fixed state. The state
space is the sum of the four, and each property is about one.

## 3. Abstract specification

`AccountAccess` says what one account promises with no handlers in it: an
owner's change is compare-and-set against the very password it was proved with,
and a change revokes at once everything proved before. `Credentials` implements
it with `log <- history, honoured <- Honoured`; TLC checks it
(`ImplementsAccountAccess`) and TLAPS proves it.

`AdReview` says what one advertisement is promised with no locks and no copies: a
request, once let in, is refused or acts at one instant, by the rules
(`Ruled`) and on the author and status of that instant, and the worker that
publishes owes exactly one letter. `AdWorkflow` implements it with the save's commit
as the instant (`Shown`, `Asked`, `Owed`); TLC checks it (`ImplementsAdReview`) and
TLAPS proves it.

## 4. Runs

| Run | Distinct states | What it shows |
| --- | --- | --- |
| `credentials` | 0.9 M | `RevokedStaysRevoked`: no token, session or link proved against an earlier password is honoured. `UpgradeKeepsPassword`: a hash upgrade never undoes a change. `TokensOutliveUpgrades`: an upgrade or another login ends nobody's tokens. `ImplementsAccountAccess`: section 3. |
| `credentials_live` | 0.1 M | `RequestsFinish`: every request ends, also when others fail or die holding the lock. |
| `signup` | 1.7 M | `OneSenderPerAddress`: the pause is a lock. `LettersAreCurrent`: a letter carries a live link, except one of a resend that was slow to take the pause (section 6). `AccountsComeFromCurrentRequests`: one account to a link, with the data of the request that waits. `RequestsAreKept`: a failed confirmation loses nothing. |
| `signup_phones` | violated | `PhonesStayUnique`, see section 6. |
| `ad_workflow` | 0.5 M | `ImplementsAdReview`: section 3. `ChangesAreAuthorized`: without the role only the author of that moment changes anything, and never into the catalogue. `EditsTouchOnlyTheirFields`: the whole row is saved and nothing undone. `AuthorsEditsAreReviewed`: new words wait for a reviewer, in the queue (`TypeOK` has every draft queued). |
| `messaging` | 0.5 M | `ThreadsOpenOnce`, `SendersStayWithinQuota`, `ThreadsFollowTheirMessages`, `OnlyShownMessagesAreRead`, `NoCircularWait`, `FirstWordsAreOnPublishedAds`. |
| `messaging_moved` | violated | `MessagesAreByParticipants`, see section 6. |
| `discussions` | 1.3 M | `RulesSufficeSerially`: request after request the rules of `validate_discussion` suffice, whichever of the three writers is used. `EditsKeepWithinBounds`: a PATCH that loses a race writes only what was sent and revives nothing, and its reply shows no answer that the reader may not see. |
| `discussions_raced` | violated | `QuestionsKeepTheirAnswers`, see section 6. |
| `send_limit` | 1.6 M | `AMinuteHoldsTwoWindowsAndOne`: fixed windows, late increments and the uncounted message of a window's last second never add up to more than two windows of messages and one in a minute (section 6 says how the one comes about). `ConversationsKeepTheirDistance`: new conversations are a window less one second apart. |
| `request_limit` | 0.7 M | `CountersOutliveTheirWindow` and `PromptRequestsGetTheLimit`: exactly the limit is let through of the requests answered within a second of their window's end. |
| `upkeep` | 1.0 M | Media: `UsedImagesSurvive`, the age limit alone protects the images of a site that goes on working; `OrphansAreFound`, with the writers stopped the report is exact, and no run that meets a path outside or a link comes to an unlink. Demonstration data: `FlushSparesVisitors`, `FlushLeavesOnlyWhatIsNeeded`; `PartsTypeOK` has every mark name a demonstration record and every demonstration record keep its mark, with the exception of section 6, and holds the inductive invariants of the four parts. Accounts: `AddressesStayUnique`, `SavesTouchOnlyTheirFields`. Catalogue: `PagesMissNothing`. |

Each module has one type invariant, which also says who may hold a lock when.

### Bounds, and why they are enough
- Two workers: every race found or excluded here is between a request and one
  other; administrators, the clock, purges and crashes are actions of their own
  and come on top. The proofs lift the number everywhere but in SendLimit and
  Catalogue, which have one sender and one reader by themselves.
- Credentials: two passwords, so that a change and a change back exist;
  `MaxClock = 2` changes; `MaxHeld = 1` token, session and link watched at a
  time. Any one credential can be the one that is wrongly honoured, so watching
  one loses nothing. `MaxClock = 1` in the liveness run.
- Signup: two addresses, of which `Registering` register (the other gets an
  account by hand), one telephone number they fight for, `Cooldown = Timeout = 2`
  (equal, as in the code), a request that expires at 4 and a clock that goes so far:
  two pauses, so that one can run out under a resend before the resend takes the next;
  `MaxTokens = 2`: a request and the one that replaces it. Workers are symmetric.
- AdWorkflow: an author and an administrator, both able to be either through
  changes of role and author; both are let into the admin site, so users are
  symmetric, and so are workers. Two contents, one tick of the clock (only "later"
  matters). The proofs lift all of it.
- Messaging: seller and buyer; limit 2 with three messages, so that the quota
  refuses; pages of one message, so that something is always on another page.
  `Heirs` is empty in the safety run and has one member in the run about a moved
  advertisement.
- Discussions: two records (question and answer), two advertisements of different
  owners, of which one changes its status or is deleted (`Changing`); one user and
  one administrator, who may use the admin page and may be given a record there
  (`Heirs`); one form open at a time (`MaxForms`), the other worker being the API's.
  Records that need a third are answers to answers, which two steps already rule in or
  out. The run about the race has one advertisement that never changes. Workers are
  symmetric.
- SendLimit: seconds of 5 ticks, windows of 3 and 2 seconds, limit 2, 36 ticks: more
  than two windows, so every alignment of two neighbours occurs, and ticks enough in
  a second for the message more than two windows: the run reaches `2 * Limit + 1`. The
  proofs cover every other value.
- RequestLimit: seconds of 2 ticks, windows of 2 seconds, limit 2, four requests in a
  window. The proofs cover every other value.
- MediaCleanup: one row of each table, two spellings of one name (the only way two
  files can matter to each other), one upload, a minimum age of two ticks and one tick
  beyond it; a request is killed within a tick of storing its file.
- DemoData: one record of each sort, since the records of a sort do not refer to each
  other except question and answer, which are two sorts here; one visit during a run
  (before a check or after it, the administrator's deletion under a seed) and any number
  between runs. The proofs lift the number of visits.
- Accounts: two accounts, three spellings of two addresses, two writers, three
  requests: two that race and the one they spoil. The proofs lift the numbers.
- Catalogue: three entries, two of one date, pages of one, one change between pages or
  between the count and the rows of one. The proofs lift all of it.

`CHECK_DEADLOCK FALSE` stands in each configuration because a bounded model
stops when its clock or its ids are used up, and a deleted account or
advertisement has nothing left to do.

### Fairness
Only `credentials_live` assumes any. `WF` of a worker's own next statement: a
process that can run does, the operating system sees to it. `SF` of
`Blocking`, the statements that wait for a row lock: PostgreSQL queues the waiters
of a row, so one that could get the lock again and again gets it. Nothing is
assumed of visitors, administrators or crashes.

## 5. Proofs

`CredentialsProofs` (any set of workers and passwords, no bound used):
- `TypeCorrect`, `RevocationFinal`, `UpgradeHarmless`, `TokensOutlive`, `Refinement`,
  for `TypeOK`, `RevokedStaysRevoked`, `UpgradeKeepsPassword`, `TokensOutliveUpgrades`
  and `ImplementsAccountAccess`.
- The argument. `RevokedStaysRevoked` is not inductive: it says nothing of
  requests under way, whose tokens will be handed out later. `Inductive` (in
  `Credentials`) adds that dates name changes and salts name hashes: the dates in
  the history are past and all different, the row carries the date of the last,
  a date taken by an administrator's form and not yet stored belongs to nobody
  else, and every credential, handed out or about to be, carries the date (or the
  hash) of the epoch it was proved against. So a credential that passes the code's
  comparison has the present epoch.
- Assumed: `CredentialsAssumption`, and what the model builds in: two hashes
  differ in their salt, and no two changes of a password take the same microsecond.

`RequestLimitProofs` (any workers, any window of whole seconds, any limit, any
granularity of the clock):
- `TypeCorrect`, `CountersOutlive`, `PromptRequestsCounted`, for `TypeOK`,
  `CountersOutliveTheirWindow` and `PromptRequestsGetTheLimit`.
- The argument. `OnTheWay`: from wherever in the window a request read the clock,
  and however long ago, now plus its wait is past the window's end; so the expiry
  it will store, also after it is cut to a second (`CutExpiry`), is a second past
  it. A prompt request therefore finds its counter alive
  (`PromptFindsItsCounter`), and `Tally` holds: the counter is the number of
  requests answered. The lemmas on `Floor`, `Wait` and `WindowOf` are the
  arithmetic of `users/rate_limit.py:18` and `messaging/cache.py:87`.
- Assumed: `SecondAssumption`, `RequestLimitAssumption`.

`AdWorkflowProofs` (any workers, users, contents, clock):
- `TypeCorrect`, `Authorized`, `NothingUndone`, `Reviewed`, `Refinement`, for
  `TypeOK`, `ChangesAreAuthorized`, `EditsTouchOnlyTheirFields`,
  `AuthorsEditsAreReviewed` and `ImplementsAdReview`.
- The argument. `TypeOK` is inductive because `RequestOK` says what a request under
  way relies on: between its lock and its save the copy is the row, and the
  permission and the rules that were asked at the lock still hold. Only the holder of
  the row lock writes a live row (`OnlySavesWrite`), so every property is a fact about one
  save (`AuthorsSave`). In the refinement the save is the step of `AdReview`
  that counts; a lock is no step, a refusal or a death withdraws the request.
- Assumed: `AdWorkflowAssumption`, `KeepAssumption` (the mark of an absent field is
  neither a user nor a content).

`SignupProofs` (any workers and addresses, any pause, worker timeout up to the pause,
lifetime of a request and clock):
- `TypeCorrect`, `OneSender`, `LettersCurrent`, `AccountsFromRequests`,
  `RequestsKept`, for the five properties of the run `signup`.
- The argument. `OneSenderPerAddress` is not inductive: it does not say how far the
  deadline in the cache reaches. `PausesHold` does: whoever has taken the pause finds a
  deadline at least `Cooldown` past the clock it read, and `ServedOK` in `TypeOK`, that
  no request is older than `Timeout`; so when another takes the pause, the first is dead.
  `CopiesAreCurrent` carries what a resend read up to the moment it takes the pause.
  `ServedOK` also says that a confirmation holds the lock of the row it copied, and that
  at the commit of a submission nobody else is inserting under its address: the two
  action properties are facts about these two commits (`CommitAccount`, `CommitRequest`).
- Assumed: `SignupAssumption`: finitely many workers, `Timeout` at most `Cooldown`
  (gunicorn's 60 seconds and `EMAIL_SEND_TIMEOUT`). That the cache has kept its entries
  is the disjunct `culled` of the properties.

`MessagingProofs` (any workers, users, limit, page size, clock):
- `TypeCorrect`, `OpenedOnce`, `FirstWords`, `NoDeadlock`, `WithinQuota`,
  `MessagesInOrder`, `ReadAfterShown`, for the seven properties of the run `messaging`.
- The argument. `WorkerOK` in `TypeOK` says that a request holds exactly the locks of its
  phase, and that what it asked of the locked rows still holds: the advertisement is
  published and somebody else's, the count is below the limit, the thread is there, or
  is not there and nobody else can open it. A step of one worker leaves every row that
  another has locked, which is why `WorkerOK` is kept by the others. The quota and the
  order of the messages are then facts about a commit. `NoDeadlock` (`Waiting`): who
  waits for an account waits for one who holds it, and that one can only be waiting for a
  thread; who holds a thread waits for nothing. So a chain of waits has two links at
  most and no circle closes.
- Assumed: `MessagingAssumption`.

`DiscussionsProofs` (any workers, users, advertisements, records):
- `TypeCorrect`, `RulesSuffice`, `EditsInBounds`, for `TypeOK`,
  `RulesSufficeSerially` and `EditsKeepWithinBounds`.
- The argument. In `TypeOK` no record outlives what it answers: the foreign keys are
  asked at each write (`WriteTyped`), and what a deletion takes is closed under answers
  (`ThreadIsClosed`). `RulesSufficeSerially` needs `Inductive`: while no two requests have
  overlapped, what `validate_discussion` said of the one under way is still true when it
  writes (`Checked`). `WriteKeeps` is the heart of it: a write that
  passes the rules leaves every answer under a question. A new record has no answers
  because ids are given in turn (`NewIsUnanswered`).
- Assumed: `DiscussionsAssumption`.

`SendLimitProofs` (any windows of whole seconds, any limit, any granularity of the
clock):
- `TypeCorrect`, `MinuteBounded`, `ConversationsApart`, for `TypeOK`,
  `AMinuteHoldsTwoWindowsAndOne` and `ConversationsKeepTheirDistance`.
- The argument. A message carries the expiry of the window it was let through in, and
  `Spaced` orders the messages of a minute by it: two of one window have fewer than
  `Limit` steps between them; of two windows the later expires a whole window after the
  earlier, and its messages begin after the earlier has expired. A message is dated by
  its last `add`, which can lie at the expiry or past it; that is why a message may be
  left over besides two windows (`MinuteFromSpacing`), and not more. `Spaced` is not
  inductive: `MessageWindow` adds what a call knows of its window at each statement
  (`Holds` before the reading, `Room` after it, `Taken` once it has counted) and of the
  entry a rollback will restore, so an increment that comes after the expiry, and the
  second `add` whose answer nobody looks at, are steps of their own. New conversations
  need less: their entry is never counted up (`Vacant`), only replaced, and `Apart` says
  how long it lasts.
- Assumed: `SecondAssumption`, `SendLimitAssumption`.

`UpkeepProofs` holds the proofs of the four parts of MCUpkeep, which share no name and no
state; `PartsTypes` puts their inductive invariants together as `PartsTypeOK` in the
specification of the run.

Of `Accounts` (any accounts, spellings, writers):
- `AccountsTyped`, `AddressesUnique`, `SavesNarrow`, the last two for
  `AddressesStayUnique` and `SavesTouchOnlyTheirFields`.
- The argument. `AccountsInductive` (in `Accounts`, checked by TLC in `PartsTypeOK`)
  adds to the types that a request past its check carries a normalised address, and
  that whoever shares that address by then spells it letter by letter alike. Other
  requests may take the address between check and save, but only in that spelling,
  and that the unique column refuses (`NobodyJoins`). The old rows that differ in case
  stay as they are; nobody joins them.
- Assumed: `AccountsAssumption`, which has `Normal` idempotent.

Of `MediaCleanup` (any names, rows, uploads, age limits from two ticks up):
- `MediaTyped`, `MediaAlwaysInductive`, `ImagesSurvive`, `RunsAreExact`, the last two for
  `UsedImagesSurvive` and `OrphansAreFound`; TLC checks `MediaInductive` in `PartsTypeOK`.
- The argument. The age limit stands in for a lock. `UploadsAreFresh`: a file that is
  stored and not yet named by a row is at most a tick old, so younger than any cutoff.
  `ReadRowsAreKnown`: what a row names that the command has read is among its used
  names, too young for it, or repointed; and the file in its hand is neither an upload's
  nor, but for a repointing, a row's. The second `stat` is needed there: it carries the
  age from the walk to the unlink. `QuietRunIsExact` keeps the account of an
  undisturbed run: what was due at its start is what it has removed and what is
  still an orphan, and each of these is a candidate, in hand or still to visit;
  `ReadRowsArePlain` that none of the rows it has read names something outside or a link.
- Assumed: `MediaAssumption`: a request lives less than the youngest age the command
  accepts (60 seconds under gunicorn; `users/media_cleanup.py:22` asks for 24 hours).

Of `Catalogue` (any finite set of advertisements, any dates, size of the pages, number of
changes):
- `PagesComplete`, for `PagesMissNothing`.
- The argument. Each order ends in the primary key (`Orders`, `OrderFacts`), so `Before`
  orders the rows of a list strictly and totally (`Irreflexive`, `Total`), and an entry's
  place on a page is the number of entries before it (`Ahead`, `Positions`).
  `PagesMissNothing` speaks of the last page only; `MissesNone` says of every page that,
  while none has left the list, an entry kept on it whose place lies on the pages turned
  (`Turned`) has been shown, and `RepeatsNone` that, while none has entered it, what was
  shown still lies there. A change of another row only pushes entries back in the first
  case and up in the second (`BecomeStep`), and a page shows exactly the places from its
  first to the end its count has set (`ShowEffect`). At the last page that end is the
  count: what the list holds beyond it, and so what a reader can miss there, is no more
  than what has come since (`CountHolds`).
- Assumed: `CatalogueAssumption`.

Of `DemoData` (any number of visits during a run):
- `DemoTyped`, `VisitorsSpared`, `OnlyNeededLeft`, the last two for `FlushSparesVisitors`
  and `FlushLeavesOnlyWhatIsNeeded`.
- The argument. `CheckedIsFree`: between the check of a record and its deletion only
  records committed meanwhile, and the log, come to name it. What hangs on
  a visitor's record counts as part of it, so no foreign key of the module names one
  (`RefsOf`) and a cascade stops there after one round (`TakenByFlush`). `RunMarks` says
  that what a run sees of demonstration records is marked, but for what seed has not come
  to, what was lost before and what a run is bereft of: seed makes the administrator
  first, when everything is still to do. A seed makes nothing twice (`NotThere`): a record
  without an entry refers to an account without one (`Referred`, which rests on cascades
  being complete, `ClosureIsComplete`), and seed does not come past such an account
  (`AccountsKnown`). `ReadMarks` ties the marks a run will commit to its entries: they are
  the same but for its own, or all gone with the administrator. Where seed finds the
  pair's own conversation, there is no demonstration conversation and no first message to
  be marked (`OneThread`). `KeptAreNeeded` follows the order of `flush`: what needs a
  record comes before it (`Orderly`), so what is still there of the command's own when the
  record is checked was kept as well, and is needed by a visitor's record; that need
  reaches no further than three rounds (`NeededIsClosed`). The administrator comes when
  nothing else is left to do, and stays for another mark only.
- Assumed: `DemoAssumption`. The sorts of records and their foreign keys are those of the
  module.

Every other property of a passing run is the subject of a theorem. Only model-checked:
- `RequestsFinish`: liveness under fairness is out of the prover's reach.
- The three properties that are violated.

## 6. Findings

- **Telephone numbers** (`signup_phones`). A confirmation looks for the number and
  creates the account in two statements, and the column has no unique constraint:
  two accounts can end up with the number.
- **A moved advertisement** (`messaging_moved`). The admin page may give an
  advertisement another author; its threads then hold messages of someone who no
  longer takes part, and the new author reads them.
- **Discussions** (`discussions_raced`). `validate_discussion` reads without a
  lock: an answer can be stored under a record that has just stopped being a question.

Noted without a run: the README's "ten messages in a minute" are fixed windows, as
`messaging/rate_limit.py:1` says, so a minute across two windows may hold twenty, and twenty-one
at the worst: the last message of a window may be long on its way to its last `add`, and
the expiry of the next window is cut to a second, so that a whole window fits
between it and the one after (`AMinuteHoldsTwoWindowsAndOne` is the exact bound); a request held up for more than a
second past its window may find its counter gone; an author who deletes an
advertisement after it was moved to another author deletes it all the same; an
administrator publishes what the row holds when the click arrives, which may be a text
edited since the page was opened; the admin page of a review saves the whole row, and
inserts it again when it has been deleted (`Discussions` models it).

- The admin page can move a question with answers to another advertisement; the
  answers stay where they were. The review API filters them out, the site's card and
  feed of questions show them.
- `seed_demo --flush` says it removes marked data only (`README.md:246`). Records that
  visitors commit between a check and its deletion go by cascade, and so does whatever
  else the admin log holds of the demonstration administrator: the exceptions in
  `FlushSparesVisitors`.
- Deleting the demonstration administrator by hand takes all the marks along. After
  that `seed_demo` refuses the other addresses and `--flush` removes nothing.
- Deleting him while `seed_demo` runs on a seeded site does the same in another way: the
  command makes him anew, still finds the other records by the entries it has read
  (`seed_demo.py:88-90`, `190-194`) and commits, and they stay without their marks beside
  the new administrator. Later seeds refuse their addresses and `--flush` does not find
  them: the exception in `MarksNameDemoRecords` (`lost`).
- A page of a list is a `COUNT` and then a `SELECT` outside a transaction
  (`ads/paginators.py:4-5`, `web/views/ads.py:27`; `ATOMIC_REQUESTS` is not set). An
  advertisement published between the two, on a page that is the last by the count,
  pushes another one off it, and no next page shows that one, although none has left the
  list: the exception in `PagesMissNothing` (`late`).
- `cleanup_media` on a working site can remove only one kind of image in use: an old
  file that a row is given anew from outside the site (`repointed`).
- A resend can mail a link that has just been replaced. `users/signup.py:117` reads the
  request before it takes the pause, which keeps registrations out only from then on. A
  registration that has taken the pause shortly before can commit its new request after
  that reading, and its pause run out while the resend is held up. gunicorn's 60 seconds
  equal the pause, so a resend that is held up nearly that long is still let on (the
  third disjunct of `LettersAreCurrent` says when; the proof found it, the run with a
  shorter clock had not).
- A deletion of an advertisement may hold one of its threads and wait for the
  advertisement while `start` holds that and waits for the thread. PostgreSQL ends
  the wait by failing one of the two.

## 7. Plan

Done: all modules of section 2, and the proofs of section 5. What would come next: the
locks of the rows of a deletion's cascade, one by one, in Messaging, as in the last note
of section 6; and the culling of a full cache table for the counters, as Signup has it
for the pause.

## 8. Not modelled

- The validation of uploads: a pure check of bytes by a library. That the file is
  stored before its row commits is in `MediaCleanup`.
- The free-text search of the catalogue, the counter of unread messages in the header
  and the list of threads (ordered by date and id like the lists of `Catalogue`):
  queries that change nothing. `Catalogue` has the other lists and their filters.
- Templates, scripts, wording, letters' texts.
- Configuration, logging and redaction, health check, error pages, deployment: they run
  once, before any request, or keep no state.
- Migrations: they ran before the states modelled here; what an early one may have left
  (addresses that differ in case) is in the initial states of `Accounts`.
- The process-local cache used without `DJANGO_CACHE_URL`: the limits are then per
  process, as the repository's README says.
- Inside PostgreSQL: serialisation of single statements, foreign keys and unique
  constraints are taken as they are documented and marked external.

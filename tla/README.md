# Firepit in TLA+

A verification development of Firepit, a discussion board: boards hold posts,
posts hold trees of comments, users endorse, subscribe, are notified, mark things
read, and GitHub webhooks post as system users. It covers the API server
(`src/api`) first, because that is where concurrent requests meet shared state.
Every definition is translated from the Go source; documents are quoted only
where the code and they disagree.

1. The system: its parts, and what makes them correct
2. How a request is modelled
3. The modules
4. The runs: what each checks, its bounds
5. Fairness and deadlock
6. What is proved
7. Where the code and its documents disagree
8. What is not modelled, and the plan

## 1. The system

The API is a Go process, possibly several behind a load balancer, over one
PostgreSQL database. `server/server.go` decodes an RPC envelope, the session
middleware looks up the caller, and one method of one service in `csilservices/`
handles the call, in a goroutine of its own. A method that writes does so in one
gorm transaction at PostgreSQL's default level, READ COMMITTED. There is no lock
in the process: everything the services share is in the tables.

| part | state | operations | talks to |
|---|---|---|---|
| Discussion core: `csilservices/thread.go`, `content/`, `store/{post,comment,revision}.go` | posts, comments (parent and ltree path), revisions | create, edit, delete post/comment, get-thread, list-posts, list-revisions | calls notify and categories in its transactions; reads boards, membership |
| Endorsements, reputation: `csilservices/endorsement.go`, `store/{endorsement,reputation}.go` | endorsements, trusted_domains, user_reputation | endorse, retract, list | calls notify; resolves posts and comments |
| GitHub ingestion: `github/` | github_mappings, system users, origin_ref of posts and comments | webhook deliveries | creates content through `content/` |
| Notification fan-out: `notify/` | notifications | publish of created, edited, endorsed | reads subscriptions, settings, grants, categories |
| Subscriptions: `store/subscription.go` | subscriptions | subscribe, set-muted, unsubscribe, list | read by notify, the unread summary |
| Read model: `store/read.go` | read_marks (watermarks), unread_overrides (pins) | mark-read, mark-unread, unread-summary | reads comments and subscriptions |
| Notification inbox: `store/notification.go` | notifications | pages, mark-read, mark-all-read | written by notify |
| Categories: `store/category.go` | categories, board_categories, post_categories | create, update, delete | consulted by create-post and edit-post |
| Boards, membership: `store/board.go`, `csilservices/{board,authz}.go` | boards, board_members | create, update, archive, set and remove member | consulted by every write to content |
| Accounts: `store/{user,session}.go`, `csilservices/auth.go`, `linkkeys/` | users, sessions, nonces | begin and complete login, logout, whoami | an external identity provider |
| Settings, friend groups: `store/{settings,social}.go` | user_settings, mention_grants, friend_groups | get/update, grant/revoke, create/delete, add/remove member | consulted by notify |
| RPC: `server/{server,dispatch}.go`, `transport/`, `csil/*.gen.go`, `webapp/src/lib/httpTransport.ts` | none between calls; in a call its frame, in the server whether it is draining | encode, route, decode, answer, shut down | carries every call between clients and services |
| Webapp: `webapp/src/lib/{unread,session,notifications}.ts*` | the session and counters a page shows | polls | the API |

What is hard, and what correctness means, part by part:

- **Discussion core.** Requests read rows without locks and write them later in
  the transaction. A reply is checked against a parent that may be tombstoned
  meanwhile; an edit writes back the post as it read it, counters and tombstone
  included; get-thread reads post and comments at two moments. Correct: the two
  columns that place a comment describe one tree; readers can always render it;
  tombstones stay; no text is lost from the history; comment_count is the number
  of comments. (The last three hold only in part: section 7.)
- **Endorsements.** Trust is looked up when an endorsement is given and again
  when it is withdrawn; two retractions can find one row. Correct: one notice
  per endorsement, nobody's later endorsement is deleted, reputation never
  exceeds the trusted endorsements that stand.
- **GitHub.** GitHub stops waiting and delivers again; the process dies before
  or after a commit. Correct: acknowledged means applied, applied once, follow-ups
  hang under their own issue, and every delivery is one day acknowledged.
- **Notify.** Subscriptions, mutes, grants and settings change while one
  transaction reads them with several statements. Correct: nobody is mentioned
  twice for one item, nobody is told twice, a mute is respected, an undisturbed
  subscriber is told.
- **Subscriptions.** Find, insert on conflict do nothing, find again. Correct:
  subscribing never lifts a mute, and the answers are true.
- **Read model.** A comment is stamped before it becomes visible; watermarks may
  be written out of order; pins are set while a mark-read clears them. Correct:
  what a user never saw is unread unless it was in flight at the watermark; what
  mark-read covers is settled; an item changes sides only for its reader's reasons.
- **Inbox, pages.** Rows arrive and move between two pages. Correct: no row that
  stays put is skipped or repeated.
- **Categories and boards.** Check in one statement, write in another, whole rows
  in some updates and named columns in others. Correct: a post carries categories
  of its board and no more than the board takes; a category is where one request
  put it; nothing is done without a right that was held while it was done.
- **Accounts.** First logins race for a row and for a handle; nonces, assertions
  and sessions expire at different times; the secret may change with the process.
  Correct: one row per person, a login succeeds while a handle is left, a session
  belongs to who earned it, and a cookie serves its user exactly while it is valid.
- **RPC.** 54 routes and the codecs of their messages, on both sides of the wire, by
  hand or by a generator; a process that is told to stop while calls run. Correct:
  what arrives is what was sent, nothing half decoded reaches a service, and a
  shutdown ends and lets what it waits for finish.
- **Friend groups.** Name and number are checked under the lock of the owner.
  Correct: no two of one name, never more than allowed.
- **Webapp.** Answers arrive late or out of order. Correct: nothing of a session
  is shown after its logout.

## 2. How a request is modelled

A READ COMMITTED transaction sees, at each statement, what others have
committed, and shows its own writes only when it commits. So a request is one
action per statement that reads, each recording what the next ones use, and one
action for its writes and commit; between any two of them any other request may
commit. Where a statement before the last one writes, the row lock it takes is in
the model too (`Locked` in `Reputation`). Every request can fail between any two
statements: the context is cancelled or the process is gone, and the transaction
rolls back (`Finish`, `Rollback`, `Fail`). A commit whose
acknowledgement is lost, so that the client is told of a failure that did not happen,
is in the model where it matters to what follows: `GithubIngest` (redelivery) and
`Reread` (`Boards`, `Categories`). Elsewhere a request fails before its commit or not.

Several processes share the tables and nothing else, and what is modelled through
the tables holds for them as for one. Two things they do not share. Each stamps
comments and watermarks with its own `time.Now()`: `ReadModel` has one clock, and
`OnlyFlyingIsMissed` holds of several processes only as far as their clocks agree.
And each that is not given a nonce secret makes up its own, so that a login begun at
one process and called back at another is refused; in `Accounts` that is a callback
with a foreign nonce.

Data is reduced to what the properties tell apart: texts and ids are model
values, except that comment ids are numbers, because the order of paths matters.
A timestamp appears as what it stands for: `bump` is the comment that set
last_activity_at, `edited` says whether edited_at is set.

## 3. The modules

Each component has a module of state and actions, a `...Props` module with its
properties, an `MC...` module that instantiates it for TLC, and a `...Proofs`
module. `Boards` shares those of `Categories`, which extends it. `Reputation` and
`Subscriptions` extend `Keyed` and share `RowProofs`, so the names of `Subscriptions`
say `Sub` or `ask` where `Reputation` has `Spec` or `request`.

| module | models |
|---|---|
| `Threads` | ThreadService: boards' archived flag, `posts`, `comments`, `revisions`, and `reqs`, what each request has read so far. `versions` is a history variable. |
| `CommentTree` | the abstract specification: comments join a post, never move or leave, and can be buried |
| `Reputation` | EndorsementService: `endorsements` (the id of the standing row per user and target), `trusted`, `reputation`, `notices`; `made`, `withdrawn` and `distrusted` are history variables |
| `GithubIngest` | the webhook handler and GitHub's side of a delivery: `status` of each delivery, `work` of each request in flight, `content` it stored; `dropped` and `hungUp` are history variables |
| `Keyed` | what the tables of `Reputation` and `Subscriptions` share: a row per user and target, and requests that race for it |
| `Subscriptions` | the three writes to one subscription row; `seen`, the values the row had while a request ran, is history |
| `ReadModel` | the read service and the unread summary: `comments` and how far each is (`flying` or visible), `marks` and `pins` of each reader, `subs`, and `reqs`, mark-read requests in flight; a mark remembers what was seen and what was flying when it was taken, as history |
| `Boards` | BoardService: `boards`, `members`, `admins`, and `reqs`, what each request asked, read and was told, which for an update comes after its change is stored (`Reread`) and may be an error; `had` (it was entitled at some moment) and `met` (whom it overlapped) are history |
| `Categories` | extends `Boards` with CategoryService and the part of create-post and edit-post that gives categories: `categories`, `links`, `posts`, `tags`, and `work`, what each open transaction has written and not committed |
| `Accounts` | AuthService, the callback, sessions: `users`, `sessions`, `minted` (the nonces that begin-login has sent out; the server keeps none), `login` (each callback, what follows it and its cookie), `request` (calls with a cookie), the clock and the secret; `checked` and `late` are history |
| `Schema` | the types of every message of the codec, field by field in the order it writes them |
| `Wire` | encoding and decoding over `Schema`: CBOR items, heads of numbers by width, optional fields, enums, times |
| `Codec` | what `Wire` is to do: the values of a type, what the other side is to make of them, canonical items |
| `Routes` | the calls of the client and the routing table of the dispatcher, side by side |
| `Rpc` | a call from client to service method and back over `Wire` and `Routes`, and the shutdown of the server |
| `Notify` | `DBPublisher.Publish` for a thread: what each request has found out (`news`, `todo`, `gate`, `tell`), the `inbox` of each user, event and item, and the preferences it reads (`subs`, `policy`, `grants`, `optedOut`, `shown`); `touched`, what was changed since a request's first statement, is history |

Names follow the code: `Threads!CreateCommentReadPost`, `...ReadBoard`,
`...ReadParent` and `CreateComment` are the four statements of
`threadService.CreateComment`; `UpdatePost`, `ChildPath`, `CreateRevision`,
`FindPostByOriginRef`, `BumpReputation` are the functions of those names.
`PROJECT.json` maps each definition to its lines. An operator commented "Mutant:"
is a plausible bug in the operator below it, used to show that a property can
fail; no specification refers to it.

`Threads` and `CommentTree` compose by refinement: `ThreadsProps!Tree` reads the
comments table through the two columns readers navigate by, and
`ImplementsCommentTree` says that `Threads` implements `CommentTree!Spec`.
`Reputation` takes over from `Threads` only that content can be tombstoned,
`GithubIngest` only that a post or comment is stored in one transaction. `Notify`
continues the creations and edits of `Threads` after their first write: it takes
over that paths are fixed when a comment is created, that only an author edits,
and the row each request has locked by then (`Locks`). Its subscriptions change as
`Subscriptions` commits them, in one step. `ReadModel` takes over from `Threads`
that a comment is inserted in one statement and visible at a later commit, and from
`Subscriptions` its commits. `Categories` composes with `Boards`: the board that a
request read may be archived, or its limit changed, by the actions of the other
module. `Accounts` ends where `Boards` begins: with the user of a call. `Rpc` is
what all of them are called through; it takes a service method for any answer
its operation can give.

In `Wire` a number is its eight bytes, so that widths and their boundaries are
modelled and no arithmetic overflows; a text is the name of a value. The recursion
of `cborEnc` and `cborDec` is unrolled to the depth of the interface: `Enc0` and `Dec0`
are scalars, and each of the four levels above applies `EncWith`, `DecWith` to
what the level below made of the elements of a list or the fields of a message.
That no type nests deeper is part of `InterfaceAssumption`, which TLC evaluates over
all 54 operations. The entries of a map stand at integers, in their order but with gaps, so
that leaving out a field moves no other. `Schema` is long
because the codec is (4865 lines on each side; `clients/go/codec.gen.go` is the
server's apart from its package name): one record per message. `Routes` has two tables
on purpose, the client's and the dispatcher's, since that they agree, with each
other and with the error arms of `csil/firepit.csil`, is not a definition:
`InterfaceAssumption` says it of the tables, and `EndToEnd` needs it. `Rpc` leaves open
which values of the types occur (`Values`), and which of them clients of another
version send (`Others`). A handle in `Accounts` is the sequence of its parts:
"ada-2" may be somebody's own name or the second choice of "ada".

## 4. The runs

| run | checks | instance |
|---|---|---|
| `threads_tree` | `TypeOK`, `TreeShape`, `ThreadSound`, `CountCoherent`, `ImplementsCommentTree` | one post, three comments, two requests in flight; create-post, create-comment, one edit of the post, delete-comment, archive, get-thread |
| `threads_edits` | `HistoryAnchored`, `TombstonesStay` | one post, one comment, two texts, two edits per item, two requests in flight; create, edit, delete |
| `reputation` | `TypeOK`, `NoticePerEndorsement`, `RetractsWhatItFound`, `NeverInflated` | two endorsers from two domains, one item, two rows per endorser, trust and tombstones changing |
| `github_ingest` | `TypeOK`, `AcknowledgedIsApplied`, `FollowUpsThreaded`, `AppliedOnce`, `EventuallyAcknowledged` | an issue opened and closed, a pull request of its number merged; two workers, two faults |
| `subscriptions` | `SubTypeOK`, `AnswersWereTrue`, `MutesStick` | one user and target, three requests in flight |
| `notify` | `TypeOK`, `ToldOnce`, `EverybodyGetsTheirDue` | two users, two boards, a post and two nested comments, bodies that mention nobody or everybody, two requests in flight, two changes |
| `read_model` | `TypeOK`, `OnlyFlyingIsMissed`, `MarkReadSettles`, `UnreadAccounted` | one reader, a post with two comments by others, two mark-read requests in flight, four stamps, two changes of pins, subscriptions or deletions |
| `categories` | `TypeOK`, `RightsHeld`, `OneSucceeds`, `StrayOnlyByOverlap`, `OneRequestsBoards`, `UpdatesKeep` | two boards, two categories, a post; any three requests of a menu with every operation; an admin whose role comes and goes |
| `accounts` | `SessionsEarned`, `AcceptedLoginSucceeds`, `ServedAsOwner` | three people, two nonces, two callbacks that may bring either, two calls in flight, two suffixes for a handle, three moments, one restart |
| `rpc` | `TypeOK`, `EndToEnd`, `Canonical`, `Drained`, `Stops` | every operation with every sample of its messages, beside a second call; a client may leave at any time, the server be told to stop |

What the deeper ones say:

- `ThreadSound`: an answer of get-thread can be rendered although its post and
  comments come from two moments: every parent is listed before its replies,
  subtrees are contiguous, and the count never exceeds what is listed.
- `ImplementsCommentTree`: whatever rows a request has read and others have
  changed since, no write moves, drops or revives a comment.
- `HistoryAnchored`: although two edits may both snapshot the same text, every
  committed edit leaves a revision, the k-th revision holds one of the first k
  texts (so the first one is never lost), and the row shows the last.
- `CountCoherent`: whatever comments overlap on one post, comment_count says how many
  there are, as long as the post was not edited; after an edit it says no more than
  that, because edit-post saves the count it read.
- `NeverInflated`: until a domain loses its trust, reputation is bounded by the
  standing trusted endorsements, whatever overlaps, fails or is withdrawn.
- `AcknowledgedIsApplied`, `AppliedOnce`: GitHub may give up on an answer and
  send again, and the process may die on either side of a commit.
- `ToldOnce`: edits may overlap each other and replies, and each looks for earlier
  mentions before it adds its own; yet nobody hears twice of one item.
- `EverybodyGetsTheirDue`: what fan-out decides with a join, a rank per target and
  three queries per mention agrees with what `PLANDOC.md` section 4 says of
  subscriptions, nearer mutes and mention policies, for everybody whose relevant
  preferences stayed the same while the request ran. Where two boards show one
  post and a user follows one and mutes the other, the code leaves it to the order
  of the rows and the property leaves it open.
- `OnlyFlyingIsMissed`: a watermark is a time, and comments are stamped before they
  commit, so one that was in flight may be hidden without having been seen. The
  property says that this is all that is ever missed.
- `UnreadAccounted`: an item leaves or enters a reader's unread set only for one of
  the reasons listed, the last of which is the code's own: a mark-read that commits
  after a newer one moves the watermark back.
- `StrayOnlyByOverlap`: a post with a category its board does not offer, or with
  more than its board takes, is the trace of two overlapping requests, never of a
  sequence of them. `OneRequestsBoards` says the same of the boards of a
  category, of which `Save` may insert again what was deleted.
- `UpdatesKeep`: a column of a board takes no value but the one that the request at
  its write named for it, and only an archival archives, nothing opens again: that is
  what `UpdateBoardFields` has over saving a row.
- `OneSucceeds`: of requests that race for one archival or one slug, of a board or of
  a category, one does what it asks. Of two creations of a category of one slug both
  may only if a deletion of the first came in between, and no update puts a deleted
  category there again beside a new one of its slug.
- `AcceptedLoginSucceeds`: whoever the identity provider vouches for loses no race
  while a handle is free. `SessionsEarned` says what a session was made from: an
  assertion in its time, of an accepted domain, for a nonce that this server minted,
  that had not expired and would still verify after whatever restarts. It does not
  say that this login began with that nonce: section 7. `ServedAsOwner` relates a
  call to the session it named when it arrived.
- `Drained`: a method that was called gets to return, with or without its client,
  unless it outlives the deadline.
- `EndToEnd`: client table, dispatcher table, both codecs and the mapping of errors
  agree on every operation, for present, absent and empty fields and at every width
  of a number; and a message of another client is decoded whole or refused. What that
  client leaves out, adds or lays down differently costs no more than optional fields
  (`Less`).

**Bounds.** Two requests in flight are enough for a race between one request and
whatever may happen between two of its statements, since the other one can run
many times over; three are used where three matter (an insert that loses, and a
row that goes before it is read again). One post or item, because no statement
relates two of them; three comments, because order and nesting need a parent and
two descendants or siblings. `MaxRevisions`, `MaxRows` and `MaxFaults` bound the
counters that would otherwise make the state space infinite. Two edits per item
in `threads_edits` suffice for two overlapping edits and for one after another. In
`threads_tree` one edit of the post is enough for a save that overtakes comments, and
there is no edit-comment, which touches neither paths nor counts: that an edit drops
no comment of the tree is run with one comment in `threads_edits` (`TombstonesStay`)
and proved for any number. Two faults suffice for a
failure that is followed by a second one, of the redelivery. Requests are
interchangeable, so they are a symmetry set, and so are texts; workers of
`github_ingest` are not, because symmetry is unsound for liveness.
In `notify`, `MaxChanges` bounds changes of preferences and endorsements together:
two suffice for a subscription and a mute on different levels, and for a change
before and one during a request. Only the user who wrote one of the three items
changes preferences (`Fickle`): he is an author, a subscriber and a mentioned user.

In `read_model` two comments and four stamps let a comment be before, in and after
a watermark, and two requests overtake each other. `MCMenu` names what the three
requests of `categories` may ask: each operation with the arguments that change
its outcome (one field or another, a limit that is too high, the own or the other
board); an update of a board and two edits, or an update of a category, its
deletion and a post, are three, and so are a deletion and two creations of its slug.
States that differ only in `met` where no property asks for it, because one of the two
is a board operation or was refused, are taken for one (`MCView`): no action reads `met`.
A request that was refused before its change was stored is forgotten, since it has
changed nothing; one whose change is stored counts as done whatever its client is
told (`told`), because create-category, update-category (`category.go:86`, `:136`) and
update-board (`board.go:250`) read once more after that, and answer with an error when
that fails. In `accounts` two users who came earlier may hold the first two
handles, so that all suffixes run out; `NonceTTL` and `SessionTTL` of one moment in
three let everything expire and be used in time; `MaxNonces` of two are one of before
and one of after a restart, or an expired one and one that is not; two callbacks are
enough because what one meets is a row another has put there. `rpc` needs no bound on its
length: a call that is done is forgotten. One field at a time takes each of its
samples while the others keep one value, because fields are encoded independently of each other; the
proof has every value. Clients of another version send one full sample of each
message, since what they do to it does not depend on the sample.

Two more runs are expected to fail, each on one property: section 7.

## 5. Fairness and deadlock

Two modules have a liveness property. In `Rpc` only `Deadline` is weakly fair: the ten
seconds `ListenAndServe` gives to a shutdown pass. That a service method returns is
not assumed, and `Stops` does not need it. In `GithubIngest`, `FairSpec` asks for weak fairness of
each worker's next statement, since a goroutine that can run is run, and its
statements wait for nobody; and of the redelivery of each delivery that failed.
The latter is an assumption about GitHub and its administrators, the one
`github/doc.go` makes. Nothing is assumed of failures, hang-ups or mappings that
come and go: they may happen or not. `MaxFaults` makes failures finite, as any
promise of success must.

`CHECK_DEADLOCK FALSE` is in every configuration: ids, edits, requests and faults are
bounded, so a behaviour may use them up, and an idle server has nothing it must do.

## 6. What is proved

Every property of the passing runs but the two of liveness is a theorem, for every
value of the constants: any finite or infinite sets of users, boards, posts,
requests and messages, as far as the ASSUMEs of the modules leave them open.

| theorem | says | inductive invariant |
|---|---|---|
| `ThreadsProofs!TypeCorrect`, `TreeAlwaysShaped` | `TypeOK`, `TreeShape` | `Inv`: types, `TreeShape`, every path names comments of its post, and what a pending request has read still justifies its write |
| `ThreadsProofs!CommentsImplementTree` | `ImplementsCommentTree` | `Inv`: initial states map to initial states, and each action to one of `CommentTree` or to none |
| `ThreadsProofs!TombstonesAreKept` | `TombstonesStay` | `Inv` |
| `ThreadsProofs!HistoriesAnchored` | `HistoryAnchored` | `HistInv`: the revisions of each row are anchored in its texts, nothing that does not exist has any, and what an edit has read was a text of its item |
| `ThreadsProofs!CountsCohere` | `CountCoherent` | `CountInv`: the counters of each row, and that the row a request has read counts no more comments than there are now |
| `ThreadsProofs!ThreadsAreSound` | `ThreadSound` | `Inv`, `CountInv` and `ParentsFound`: what get-thread found is closed under parents |
| `RowProofs!TypeCorrect`, `EndorsementNotifiedOnce`, `RetractionHitsItsRow` | `TypeOK`, `NoticePerEndorsement`, `RetractsWhatItFound` | `Inv`: of the requests on one key at most one has changed its row, and what it found is still so at its commit |
| `RowProofs!ReputationNeverInflated` | `NeverInflated` | `Backed`: reputation is bounded by the standing trusted endorsements minus those that a transaction about to commit will withdraw without decrement |
| `GithubProofs!AlwaysSound`, `TypeCorrect`, `NothingAcknowledgedIsLost`, `FollowUpsFindTheirPost` | types, `AcknowledgedIsApplied`, `FollowUpsThreaded` | `Sound`: these, and what each worker has established by the statement it is at |
| `GithubProofs!DeliveriesAreAppliedOnce` | `AppliedOnce` | `OnceInv`: a delivery GitHub waits for has at most one worker, and one past the duplicate check has found no row |
| `NotifyProofs!TypeCorrect`, `NotifyToldOnce` | `TypeOK`, `ToldOnce` | `Inv`: of the requests that publish one item at most one runs, and whom it is about to tell has not been told |
| `NotifyProofs!EverybodyGotTheirDue` | `EverybodyGetsTheirDue` | `FairInv`: what each request has decided of each user so far agrees with what the user set, or the user has changed it since |
| `RowProofs!SubscriptionsTypeCorrect`, `SubscribeAnswersTruly`, `SubscribeKeepsMutes` | `SubTypeOK`, `AnswersWereTrue`, `MutesStick` | `AskInv`: a request that has not answered has seen what the row is now |
| `ReadProofs!TypeCorrect`, `OnlyInFlightIsMissed`, `MarkReadAlwaysSettles`, `UnreadIsAccounted` | `TypeOK`, `OnlyFlyingIsMissed`, `MarkReadSettles`, `UnreadAccounted` | `Inv`: stamps are of the past, a watermark cuts the comments of its post in two by their stamps, and a mark-read carries a watermark no older than its beginning |
| `CategoryProofs!UpdatesLoseNothing` | `UpdatesKeep` | `Core` |
| `CategoryProofs!OneIsTold` | `OneSucceeds` | `Core`, `LinkInv`, `GoneInv`, `SlugInv` |
| `CategoryProofs!RightsAreHeld` | `RightsHeld` | `Core`, `RightsInv` |
| `CategoryProofs!TypeCorrect` | `TypeOK` | `Core`, `LinkInv`, `TagInv` |
| `CategoryProofs!BoardsOfOneRequest` | `OneRequestsBoards` | `Core`, `LinkInv`, `GoneInv` |
| `CategoryProofs!StraysOverlap` | `StrayOnlyByOverlap` | `Core`, `LinkInv`, `TagInv`, `StrayInv`, `LimitInv` |
| `AccountProofs!SessionsAreEarned` | `SessionsEarned` | `Inv`: what was vouched for a login that goes on, that one that has not inserted has no row yet and one past it has the row of its identity, and that a session has what its login had at the end |
| `AccountProofs!AcceptedLoginsSucceed` | `AcceptedLoginSucceeds` | `Inv`, and that a login has met a user of every handle it has tried |
| `AccountProofs!CallsAreServedAsOwner` | `ServedAsOwner` | `CallInv`: a finished login has its session until somebody logs out with its cookie, and what a call has looked up was so when it arrived |
| `RpcProofs!RoundTrip` | `Dec(type, Enc(type, v)) = Good(Received(type, v))` | none: a fact of the codec, for every type of up to four levels and each of its values |
| `RpcProofs!TypeCorrect`, `CallsEndToEnd`, `FramesCanonical`, `ShutdownDrains` | `TypeOK`, `EndToEnd`, `Canonical`, `Drained` | `Inv`: at each stage of a call what it carries follows from what was sent or answered, and a server that has stopped runs none, with a client or without |

Why the properties are not inductive as they stand, and what carries each proof:

- **Threads.** That a reply stays valid although its parent was read two statements
  ago needs `Justified`: the post and the parent are still there, of the same post,
  with the path that was kept. It holds because comments never move (`Grows`), and
  each action has one lemma showing that it only grows the tables. `CountCoherent`
  says nothing of the row an edit holds and will save; `CountInv` does. For
  `ThreadSound`, the order of paths is first shown to be a strict total order
  (`BeforeSplits`: two paths compare at the position where they part), then each
  comment's rank in it is shown to be taken exactly once (`RanksAreAllTaken`), so
  that `InPathOrder` lists what was found, in order (`PathOrderLists`). A parent's
  path is a prefix, hence before; and what stands between a path and one under it is
  under it too (`BetweenIsUnder`). `InOrder` is written by ranks because the
  libraries have no theorems about sorted sequences.
- **Endorsements, fan-out.** Both need row locks: without `RowProofs!Apart` two
  inserts could both commit, and `NotifyProofs!Apart` is what the row lock of an edit
  buys. `Right` says that whoever a request has found without a notice stays without
  one until its commit, and `Unheard`, that no notice of an item precedes the item,
  covers the subscribers, whom nobody looks up. `FairInv` follows a mentioned user
  through the gate: not asked yet, being asked (with the policy as read), or settled;
  every change of a preference writes `touched`, which excuses exactly what it
  changed (`Noted`). The rank that fan-out gives to targets is shown to put the nearer
  one first (`NearerRanksHigher`), and by well-founded induction some subscription
  of highest rank exists (`SomeSubscriptionGoverns`).
- **Read model.** A watermark remembers what was seen and what was flying when it
  was taken. `MarksCut` says that its time separates just these from the rest, which
  an insert keeps because a comment is stamped with the present (`StampsPast`).
- **Categories.** The proof is built in layers, each using those before it. `Core`:
  types, what is known of a request by the statement it is at, and who overlapped
  whom. `RightsInv`: a request that goes on without a right is on its way to be
  asked for it. `LinkInv`: no two transactions hold one category, and the links one
  has deleted or inserted are of the category it holds. `TagInv`: the categories a
  transaction is about to give are there and not given yet, which the locks of the
  unique index and of the foreign keys ensure. `GoneInv`: what deletions a category
  has seen. `StrayInv`: a post's category was validated by its giver and is stripped
  by whoever takes the board away, or the two overlapped. `LimitInv`: of two givers
  of categories to one post the later one saw the earlier one's work or overlapped
  it, and neither gave more than the limit. `SlugInv`: a category
  that is there has the slug it was created with, so has the
  row that an open transaction is about to put there, and of all these no two have
  one slug, for which the unique key waits; an update inserts a deleted category
  again only if its slug is still free. Every statement that changes nothing
  others can see is one case in all of them (`Calm`).
- **Accounts.** `SessionsEarned` says of a session only whose it is; that it stays
  so while other logins insert, lose races and are lost in a restart needs the
  strengthening: an id is a login's own until it inserts, a login that is over is
  never taken up again, and no restart touches one that has its session.
- **RPC.** The codec is proved one level at a time. `NumberRoundTrip` has the five
  widths of a number, `ScalarRoundTrip` the scalars. `PartsFound` says that a decoder
  finds under each key or index what was laid down there, because the fields of a
  message are in canonical order and hence have one entry each (`OneFieldPerKey`);
  `WholeDecoded`, that a whole of parts that round-trip does so too, nil and empty as
  `Received` has them. Four applications give `RoundTrip`; `EncInOrder` and
  `ReceivedTyped` go the same way. For clients of another version, `VariedEntries` says
  what their rearrangements leave of a map; that the first entry of a key exists at
  all is a well-founded induction over positions (`LeastPosition`); and `VariedDecoded`
  concludes that whatever is decoded of it is `Less`. The rest is the state machine:
  `Inv` is needed because `EndToEnd` says nothing of a frame in transit.

Two attempts failed for a reason. `StrayOnlyByOverlap` had spoken of any limit that
equals the first one; but a limit that is raised, used and lowered again leaves a post
with more than it, without an overlap. The property now also asks that no update
restores that limit (`FirstLimit`). And nothing had said that a row is not the value
that stands for none, or that ids of different tables differ, which the proofs use
wherever a set of targets mixes posts, comments and boards.

The assumptions, each stated in the module that declares the constants: comment ids
are numbers, finitely many, and no posts (`ThreadsAssumption`); NULL is no row and no
place of a comment (`NoneIsNoRow`, `NoneIsNoPlace`); users, targets and
domains are finite and have authors and domains (`ReputationAssumption`); deliveries
report events, and no worker is called like a status (`GithubAssumption`); posts have
boards and items authors, ids of boards, posts and comments differ, and a comment's
path is one that `Threads` gives it: it ends in its own id, and each prefix of it is
the path of the comment that prefix ends in (`NotifyAssumption`, which `TreeShape`
justifies); the same of `ReadModel`, with finitely many comments
(`ReadModelAssumption`); earlier users differ in id, identity and handle and have no
login's id and no empty one, expiries are times or none (`AccountsAssumption`). For
`Boards` and `Categories` the tables at first are well-typed, no id of theirs is a
new one, requests ask what their types say, and the posts that are there at first
have categories of their board and no more than it takes (`BoardsAssumption`,
`CategoriesAssumption`). For `Rpc` values are of their types (`RpcAssumption`), the two
tables agree, and types nest four deep with their fields in canonical order, as the
generator lays them down (`InterfaceAssumption`).

Only model-checked:

- `EventuallyAcknowledged` and `Stops`: liveness is out of the prover's reach.
- `InterfaceAssumption`: that the tables agree is a fact of 54 rows, which TLC
  evaluates and the proofs cite.
- What the two violating runs of section 7 show.

## 7. Where the code and its documents disagree

Two are runs expected to violate the property named:

- `threads_lost_edit` (`EveryEditPreserved`): two overlapping edits snapshot the
  same text; the one that commits first is in no revision. `PLANDOC.md:42` says
  every edit is preserved.
- `reputation_drift` (`ReputationCounts`): two overlapping retractions of one
  endorsement decrement twice.

The others are in the models as well. Each is what a property of section 4 leaves
open, by an exception it names:

- `UpdatePost` (`store/post.go:102`) saves the whole row that edit-post read. A
  delete-post in between is undone, although `csil/firepit.csil:169` says that the
  post becomes a tombstone: the second disjunct of `TombstonesStay`. By the same
  save a comment committed in between drops out of comment_count, which is why
  `CountCoherent` gives only an upper bound for edited posts, although
  `store/post.go:113` says count and comments never drift apart.
- A redelivery that overlaps the first request for it passes the duplicate check
  (`github/contentwriter.go:198`), and nothing unique stops the second insert,
  although `contentwriter.go:110` says an event is never applied again. `AppliedOnce`
  speaks of the deliveries GitHub did not give up on.
- Repositories `a/b-c` and `a/b_c` derive one handle (`contentwriter.go:42`), and the
  second one's deliveries fail for ever, although `docs/OPERATING.md:288` says every
  delivery gets a 200. `github_ingest` has one repository.
- A set-muted that loses its insert to a subscribe answers with an unmuted row, and
  success (`store/subscription.go:154`, against the comment at line 104). `MutesStick`
  is about rows that were muted.
- Two overlapping edits of a post (`csilservices/thread.go:329`) each give it
  categories up to the limit of its board, and it keeps the union, although
  `PLANDOC.md:514` calls the limit a maximum: `StrayOnlyByOverlap`.
- Create-post and edit-post check their categories against the board
  (`csilservices/thread.go:195`, `:329`) and insert them in a later statement; an
  update-category that takes the board away in between leaves a post with a category its board does not
  offer, although `store/category.go:77-78` says that a stored post category must be
  available in the post's origin board: the other exception of `StrayOnlyByOverlap`.
- A create-category or update-category that is answered with an error may be stored
  (`category.go:86`, `:136`), and so may an update of a board (`board.go:250`): the
  query for the answer comes after the commit. No property says what such a client
  may conclude.
- `csilservices/auth.go:33-34` says that the nonce proves that the callback belongs to
  this login flow; `VerifyNonce` (`linkkeys/nonce.go:54`) accepts any nonce this server
  has minted and not let expire, another login's too, and `SessionsEarned` says no more.
- `Save` in update-category (`category.go:116`) inserts the row again that a
  delete-category has just removed: the last conjunct of `OneRequestsBoards`.
- When every numbered handle is taken and two first logins of one person overlap,
  the second one's last insert meets the row of the first, and the login ends
  with an internal error; `store/user.go:87-89` says that row is looked up and
  returned. `AcceptedLoginSucceeds` is silent once the handles are gone.
- `store/read.go:34` says a watermark advances; overtaken, it goes back
  (`UnreadAccounted`). `read.go:116` and `PLANDOC.md:189` say that the first view of
  a thread creates it; get-thread writes no read_marks.
- `ListRevisions` ignores deleted_at and the caller, while `PLANDOC.md:211` says that
  tombstoned content hides its history from non-moderators.
- `dispatch.go:14-18` says that the Go client sends `("auth", "BeginLogin")`; it sends
  `("AuthService", "begin-login")`, and both are routed. An envelope of another version
  is answered with the status "malformed", although `transport/conventions.go` has one
  for it.

## 8. What is not modelled, and the plan

Left out for good: the migration runner, seed data, deployment; text limits,
formatting and logging; the signature check of webhooks, which changes nothing; the
validators generated beside the codec, of which only `BeginLoginRequest.Validate` is
called; the stream carrier of `transport/`, which carries one call per connection to
the identity provider. The LinkKeys client keeps no state; its answers are inputs of
`Accounts`, where a sealed token is good for one callback, as LinkKeys promises
(`linkkeys/nonce.go:27`). `Notify` leaves out deletions, whose requests publish
nothing, and the handles in a text: a body is the set of users it mentions. An edit
that also changes the categories of its post is split over `Threads`, `Notify` and
`Categories`; no module has all three. `Boards` leaves out anonymous callers, who
are refused before anything is read, and the look-up of a user who is made a
member, since users are never deleted. `Rpc` models the browser's transport with
the messages of the Go client; envelopes are no larger than the carrier takes, and
arrive whole, so that its answers 413 and 400 do not occur (`server.go:85-94`). A
client that leaves while its method runs is in it (`Leave`); what the method then
makes of its cancelled context is the failing statement of the other modules.

Planned, in this order:

1. `Pages`: keyset pages of boards, posts and notifications while rows arrive and
   move; mark-all-read. Abstract specification: every row that stays put is seen
   exactly once.
2. `Social`: friend groups under the lock of their owner; lazily created settings.
3. `Pollers`: the webapp's session and counters with answers in flight.

Theorems to add go with these modules; of those that exist, what section 6 lists as
only model-checked is what the prover cannot do.

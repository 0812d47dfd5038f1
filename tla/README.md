# Mindwall: TLA+ models and proofs

Mindwall stands between mail users and their mail server. It reads upstream
mailboxes over IMAP, analyses each message (deterministic checks and an LLM),
puts suspicious ones in a quarantine that analysts review, and serves the
result as a virtual mailbox over its own IMAP proxy; outgoing mail goes through
an SMTP proxy. One uvicorn worker serves the admin pages (`scripts/entrypoint.sh`),
so handlers interleave at every `await`; state lives in PostgreSQL.

This directory holds models of that code, the TLC runs that check them and
proofs that TLAPS checks. `PROJECT.json` lists the runs, the findings, the
hazards and, for each definition, the source lines it models.

## Inventory

| Component | State | Operations | Interaction | What makes it correct |
|---|---|---|---|---|
| Quarantine review queue (`app/quarantine`) | `quarantine_items`, `audit_events` | create or refresh an item, apply an action | called by the analysis; analysts through `POST /admin/quarantine/{id}/action` | status follows the state machine, one item per message, trail and row agree |
| Mailbox sync (`app/mailboxes/sync_*`) | `mailbox_sync_states`, `mailbox_items` | one sync of a folder | IMAP client, ingestion, analysis, quarantine in turn, on one session that they commit | no message lost or mapped twice, nothing shown unanalysed, checkpoint never ahead |
| Upstream IMAP client (`app/proxies/imap/client.py`) | a connection | select, fetch, search | used by the sync; errors become `UpstreamImapError` | returns what the folder holds |
| Ingestion (`app/messages`) | `messages`, raw files by SHA-256 | store a raw message | sync and Message Lab | a message is stored whole or not at all |
| Analysis (`app/analysis/service.py`) | `analysis_runs`, `dimension_scores` | run an analysis | reads a message, asks the LLM, creates the quarantine item | a run tells where its scores come from; a condemned message reaches the queue |
| Deterministic checks (`app/analysis/deterministic.py`) | none | eight checks and their aggregation | called by the analysis | evidence once found is not lost |
| LLM client and prompt (`ollama_client.py`, `prompt.py`) | none | one request, one strict retry, parsing | an external model, local only, 120 s | whatever it answers is a score or no answer |
| Verdict policy (`app/policies`) | `policy_settings` | compute a verdict, edit settings | analysis, admin | verdict monotone in the risk, degraded no laxer |
| Virtual inbox view (`app/mailboxes/view_service.py`) | none of its own | list by visibility | admin pages, IMAP proxy | shows what sync and review decided |
| IMAP proxy (`app/proxies/imap`) | a connection's state, the folder loaded at SELECT | LOGIN, SELECT, STATUS, FETCH, SEARCH, CLOSE, ... | reads `mailbox_items` while syncs write them | folders stay apart, numbers and UIDs keep their meaning |
| SMTP proxy (`app/proxies/smtp`) | a connection's state and envelope, `outbound_messages`, the outbound store | EHLO to QUIT, capture or relay | stores outgoing mail | what was accepted is on record as it was meant |
| Mailbox profiles (`app/mailboxes/service.py`, `router.py`) | `mailbox_profiles` | create, edit, reset password, test, delete | admin pages write them; both proxies log in with them | credentials are the ones last set, no deleted profile comes back |
| Alerts, policy settings, audit pages | their tables | acknowledge, resolve, override | admin pages | every change recorded |
| Workers (`workers/`) | none | three placeholders, two proxy starters | - | - |

What is hard here: handlers read a row, await, and write what they decided
from it, with no lock or version; the sync's session is committed by the
functions it calls; a sync may die or lose its connection between any two
steps; the upstream folder changes under it and may be renumbered; a mail
client holds numbers it was told once while the mailbox changes, and may repeat
any command at any time; the language model may be late, absent or wrong. The
hazards of `PROJECT.json` give the lines.

## Modules

| Module | What it models |
|---|---|
| `PolicyVerdict` | verdicts, `should_quarantine`, `_verdict_to_visibility` |
| `ReviewLifecycle` | abstract: the strict state machine a quarantine item promises to follow |
| `QuarantineReview` | `app/quarantine/service.py`, the action route and the auto-quarantine step of `run_analysis` |
| `MailboxSync` | `sync_mailbox_folder` with everything it calls, and the upstream folder |
| `ProxyCredentials` | the login check both proxies share |
| `MailboxProfiles` | the handlers that administer mailbox profiles |
| `SmtpSubmission` | SMTP connections, outbound store and delivery; EXTENDS `MailboxProfiles` |
| `ImapProxy` | IMAP connections and the virtual folders next to the sync; EXTENDS `MailboxProfiles`, `PolicyVerdict` |
| `VerdictScoring` | pure: checks, aggregation, parsing of the model's answer, combination, verdict; EXTENDS `PolicyVerdict` |
| `AnalysisPipeline` | the analyses of a message step by step; EXTENDS `VerdictScoring` |
| `MCQuarantineReview`, `MCMailboxSync`, `MCImapProxy`, `MCAnalysisPipeline` | the instances TLC checks |
| `QuarantineReviewProofs` | theorems about `QuarantineReview`, the refinement of `ReviewLifecycle` included |
| `MailboxSyncProofs`, `MailboxUidProofs` | theorems about the items of `MailboxSync`, and about its checkpoint and virtual UIDs |
| `MailboxProfilesProofs` | theorems about `MailboxProfiles` |
| `SmtpSubmissionProofs`, `ImapProxyProofs` | theorems about the proxies |
| `AnalysisPipelineProofs` | theorems about scores, runs and the queue |
| `NumberFacts` | lemmas about the largest of some numbers, counting and adding them, and induction over a finite set |

### Quarantine review

`item`, `runs` and `audit` are the three tables; `job` is what each handler
is doing and what its session has read. `Analyse`, `SelectItem` and then
`UpdateItem`, `InsertItem` or `InsertConflict` are an analysis and its
auto-quarantine step; `LoadForAction` and then `RejectAction` or `ApplyAction`
are `POST .../action`. A handler's write, its audit event and its commit are
one step, because the row stays locked from the UPDATE to the commit; reading
and writing are two steps, because nothing locks the row in between.
SQLAlchemy sends only the columns that differ from what the session read
(`expire_on_commit=False`, no refresh), and the model does the same. Notes and
risk scores are left out: no property distinguishes them.

### Mailbox sync

`state`, `items`, `messages` and `review` are the committed tables of one
folder; `sync[r]` is a handler with its session: its copy of the state row and
the columns its next commit writes, the items it has flushed but not
committed, the UIDs left to do, the item under construction. One action per
await: `LoadState`, `MarkSyncing` (first flush), `SelectFolder`, then for each
UID `SkipMapped`, or `StartMessage`, `Ingest` (commits), `Analyse` (commits),
`Quarantine` (commits), `AllocateUid`, `StoreItem`; then `Finish` (commits the
checkpoint). `AbortSync`, `MessageFails` and `AnalysisFails` are the handled
errors. `DatabaseError` is an error of the database, which poisons the session
and ends the run with a rollback: a unique key, or being the victim of a
deadlock. `Crash` is the death of a handler anywhere. The database is modelled
by what these handlers can observe of it: own changes are visible, others'
only once committed, an UPDATE locks the row until the commit, and an insert
waits for an uncommitted one with the same key. `Deadlocked` is PostgreSQL's
detector: it ends a session that waits, through any number of others, for
itself.

Beside the syncs, `Administer` is what administrators do to synced messages:
`Reanalyse` (`POST /messages/{id}/analyze`, a new verdict and perhaps a review
item) and `Release` (the action of the review queue). Neither writes a mailbox
item. `again` and `released` remember the messages they were done to, and
`VisibilityMatchesVerdict` is about all others. `raced` and `shared` are
histories too: which syncs had another one beside them, and which items such
syncs committed. Nothing in the code keeps two syncs of a folder apart, so no
property assumes it; what overlapping syncs break is excepted item by item, by
`shared`, or step by step, by `raced`.

`SearchFrom` is what a server answers to the command the client sends,
`UID SEARCH n:*`: sequence numbers, not UIDs (RFC 3501). `AnalysisFails` is
always possible. In the code as it is, it is even what happens on every synced
message: `run_analysis` reads `msg.urls` and `msg.attachments`, which are
loaded lazily and cannot be loaded from there under asyncio. The model keeps
the other outcome as well, so that it also covers the code with that repaired.
The visibility `pending` exists as an enum member and is never assigned; the
model leaves it out.

### Mailbox profiles

A handler reads the row (`Open`) and commits later (`UpdateMailbox`,
`ResetProxyPassword`, `TestConnectivity`, `DeleteMailbox`): a connectivity test
talks to two servers in between. `Sent` is the UPDATE the mapper builds, of the
columns that differ from what the handler read; one that finds no row raises.
A password is the number of the request that issued it, which makes it easy to
say which one is current. `last` is a history of what was committed.

### SMTP submission

`link[c]` is a connection with its state, envelope and database session;
`outbound` and `store` are the rows and the files. One action per command that
changes something, one per line of a message, and separate actions for the two
writes: `EndOfData` or `DiskError` for the file, `DeliverOutbound` or
`DeliveryError` for the row, since a crash or another handler may come between
them. `DeliveryError` is also a commit whose outcome nobody knows, and leaves
the session unusable, as nothing rolls it back. `view` is the transaction the
client believes is open; `receipts` what it was told is accepted. A client that
goes on sending a message the server has given up is `astray`: its lines are
read as commands, and only then may the two disagree.

### IMAP proxy

`conn[c]` is a connection with the list it loaded at SELECT. Of a sync the
module has what a client can see of it: `StoreItem` numbers a message from the
maximum its session sees and leaves the row in `pending`, `CommitItems` and
`RollBack` are the ends of the transaction. Any number of syncs of one mailbox
may do so side by side; `shared` remembers the rows that were pending beside
rows of another sync. `Administer` is any step of the profile handlers, a deletion of
the profile with its items included. `Fetch`, `UidFetch`, `Search` and
`UidSearch` give the client lines of sequence number, UID and message; a search
for anything but ALL or UIDs (`"other"` in `Criteria`) is answered with the whole
folder, as in the code. `view` is what the client has
heard of the folder it selected, `told` what clients know over all connections,
as a client with an offline copy would have it. `ParseSet` is the meaning of a
message set, `FetchParts` what `_build_fetch_response` finds in the text of the
request: it looks for substrings, so `RFC822.SIZE` also counts as `RFC822`.

### Analysis

`VerdictScoring` counts scores in ten-thousandths, as the code rounds to four
decimals. What a pattern or a host name matches is a fact of the message
(`Message`); which checks fire, how strong and for which dimension is
translated check by check. `AnalysisPipeline` runs them: `Start` (checks),
`Receive` and `Fail` (the model, with its one strict retry), `Persist` (first
transaction), `Quarantine` or `QuarantineFails` (second one), and `Vanish` for
an end before the run is committed. A run keeps `talk`, the replies it was made
from, as a history.

Definitions whose comment starts with "Mutant" are not part of a model: each
is the definition after it with a plausible bug. For each property checked
there is one with which TLC finds the property violated.

## Runs

| Run | Shows |
|---|---|
| `review_races` | `TypeOK`, `SessionInv`, `ItemRunCondemned`, `StatusIsLastDecision`, `CreatedOnce` with two analysts, two analyses, two review requests and one crash |
| `review_serial` | with review requests that do not overlap: `ReviewLifecycle` is implemented, the trail is a path of it, the reviewer is who decided last, a condemned message gets its item |
| `sync_races` | two overlapping syncs, arrivals, a renumbering, a crash, and a re-analysis or a release beside them: items agree with messages, with the verdicts of messages no administrator touched, and with review items; the checkpoint names a mapped UID; every sync ends |
| `sync_numbers` | three syncs, two of which may overlap, with failures, an expunge, a crash and a renumbering: virtual UIDs are unique and ascending but for items of overlapping syncs (`UniqueMindwallUid`, `MindwallUidsAscend`), the checkpoint goes back in no other sync (`CheckpointNeverRegresses`) and passes over a message only where the SEARCH takes its UID for a position (`PassedOverByPosition`) |
| `outbound_mail` | any sequence of SMTP commands, mode, failures and restarts, next to two profile handlers: `CredentialsAsLastSet`, `TestResultStands`, `DeletedStaysDeleted`, `AcceptedIsRecorded`, `RowsComplete`, `ViewsAgree`, and `EveryDataAnswered` under fairness |
| `imap_session` | a client of two mailboxes while two syncs number and commit messages and profiles change: `FoldersKeptApart`, `ServedToOwnerOnly`, `SequenceNumbersKeep`, `UidNamesOneMessage`, `AnswersWhatWasAsked`, `LaterUidsAreHigher` |
| `analysis_pipeline` | two analyses of eleven kinds of message with every behaviour of the model, sure and unsure: `RunTellsItsSource`, `EvidenceHolds`, `StricterWhenUnsure`, `CondemnedReachesQueue`, and `EveryAnalysisEnds` under fairness |

and five runs that TLC refutes, one for each finding:

| Run | What the code does |
|---|---|
| `review_stale_decision` | two analysts who open the same item both get their decision applied |
| `review_stale_trigger` | two re-analyses leave the run of one with the verdict of the other |
| `sync_passes_over` | after an expunge upstream the incremental search misses a new message for good |
| `sync_resync` | after a renumbering, messages with a UID used before are never read |
| `sync_unanalysed` | a message whose analysis failed is shown as cleared |

### Bounds

Items of different messages share no state in the quarantine, so one message
is enough for its properties; two handlers of each kind are needed for a race,
and two runs and two or three requests let a second decision or re-analysis
follow a first. Analysts are interchangeable, and so are workers
(`HandlerSymmetry`; not used with liveness). In the sync, a batch of two out of
four UIDs makes batches, the newest-first start and the checkpoint matter;
two UIDs are enough for two syncs to collide on one and deadlock over another.
Two values of UIDVALIDITY give one renumbering, which is all the code compares.
`AnalysisVerdict` holds one verdict per visibility. In `sync_races` one message
may be re-analysed or released, before or after its item is stored. In
`sync_numbers` a third sync follows or overtakes two that overlap, and three
UIDs with one expunged are the fewest with which UID and position differ above a
checkpoint. Verdicts reach neither a number nor a checkpoint, so
`AnalysisVerdict` is empty there and messages come through as failed or as not
analysed (`AnalysisFails`); the handlers are interchangeable and no liveness is
checked, so it uses symmetry.

Profiles share nothing with each other, so `outbound_mail` has one, with two
handlers and three requests: a creation and two that overlap. SMTP connections
share only the profile and the store, which names a file by its content, so one
connection is enough to interleave with the handlers; two addresses tell a kept
recipient from a new one, one line and a limit of one reach both sides of the
size check. `MaxRows = 1` counts committed rows, not attempts, so a connection
goes on after failures, and EHLO, RSET or MAIL may come again after any answer.
`imap_session` has two mailboxes with one handler, because what
could go wrong is that one is served from the other, and two items, the fewest
with which positions, UIDs and folders can disagree and two syncs can give one
number to two messages; two requests create both, or create one and edit, reset
or delete it. A connection may close and log in again any number of times, so
one stands for many in `told`. The sets `1:*` and `2` make a range with a star and
a number that is not always there. In `analysis_pipeline` the messages are the weak
findings with and without a dangerous attachment, two archives, a message that
pleads and threatens, and one that deceives by its sender, its links and its
form; the answers are in and out of range, sure and unsure at several risks, without a
risk, without a confidence and with no dimension. Two
analyses are what `StricterWhenUnsure` compares. The theorems lift
these bounds for everything but liveness and what "Only model-checked" names.

Deadlock is not checked:
the bounds stop every model, and an idle system may really stay idle;
`RunEnds` covers the waiting that matters.

### Fairness

Weak fairness of each handler's own steps once it was called: the event loop
runs every ready coroutine, IMAP calls have a timeout, the database answers.
An SMTP connection that collects or
stores a message ends its wait, with a line or after 300 seconds, and one that
reads commands may wait for ever; lines are bounded by `max_message_bytes`, and
that, not fairness, makes the collection end. The model answers or the
120 second timeout does. Nothing is assumed of those who call: no analyst has to review, nobody has to
trigger a sync or an analysis, no mail has to arrive. `review_serial` excludes
crashes, because the code never comes back to a message whose handler died
before it created the item; `sync_races` includes one, and so does
`outbound_mail`.

## Proofs

`QuarantineReviewProofs` proves for any sets of messages, analysts and
workers and any bounds that `IInv` is an invariant of `Spec`, and from it
`TypeOK`, `ItemRunCondemned`, `StatusIsLastDecision` and `CreatedOnce`. The
only assumption used is that of the constants (`QRConstants`). `ItemRunCondemned`
is not inductive by itself: the run an item will point to is held by a handler
between its steps. `SessionInv` says that what is held is still true when it is
used: runs are only appended, and an item once seen never disappears. The
writes share one lemma, `WriteInv`: a row changed together with an appended
event keeps the invariant if the event leads to the row's status, or is no
decision and leaves it alone. `CreatedOnce` needs `StatusIsLastDecision`: no
item means an empty trail, so a creation is its first event.

`SerialInv` adds to `IInv` what is true when review requests do not overlap
(`SerialSpec`): what a review has read of the item's status is still there when
it writes, so each of its decisions is a move of the state machine. From it
follow `AuditChainUnbroken`, `ReviewerMadeLastDecision` and
`LifecycleImplemented`, the refinement `SerialSpec => ImplementsLifecycle`: the
status of the item, or `"none"` where there is no item, takes the steps of
`ReviewLifecycle`. `SerialSpec` is a hypothesis nothing in the code enforces;
`review_stale_decision` shows what happens without it.

Two more results say how far the other findings reach. `TriggerIsOfItsRun`:
where no two analyses of one message overlap (`AnalysesApart`), an item has the
verdict of the run it points to, whatever reviews and crashes come between; so
overlapping re-analyses are all that `review_stale_trigger` needs.
`CondemnedIsOnItsWay`: a message that was condemned has its item, or an analysis
that is about to see to it, unless that analysis died; `WayIsShort`: it takes it
two steps at most. This is the safety half of the liveness property
`CondemnedReachesQueue` of `review_serial`, without the restriction to reviews
one at a time.

`MailboxSyncProofs` proves for any set of sync handlers, any batch size and
any bounds, from `SyncConstants` alone, `TypeOK`, `QuarantinedHasReviewItem`,
`VisibilityMatchesVerdict` and `ItemMapsItsMessage`. The types need more than
`TypeOK`: `Min` and `Max` are numbers only for sets that have one, so `TInv`
adds that the folder is finite and that the virtual UIDs in use are bounded.
None of the three properties is inductive, because an item is made true one
commit at a time. `InProgress` says how much of it each step of a session has
established (`Located` from the fetch, `Shown` from the analysis, `Reviewable`
once the quarantine item exists), and `Exclusive` that a message whose item is
under construction belongs to that session alone, so that no other item's
verdict changes when it is analysed. `LocalStep` covers all steps that store
neither a message nor a verdict; `Ingest` and `Analyse` have their own lemmas.

It also proves what the liveness property `RunEnds` rests on, for any finite
number of syncs. `SyncsEnd`: a sync has at most `6 * BatchSize + 3` steps before it, each
of its steps leaves it fewer, and nothing another actor does adds one.
`SyncsAreNotStuck`: in every set of syncs at work that wait for no sync outside
it, one has a step to take or is in a cycle the database breaks. The proof finds
the cycle (`CycleIsFound`) and is why `Deadlocked` follows chains of any length:
with a detector of two-cycles only, three syncs that wait in a circle would stay
there, which two handlers do not show. `DeadlocksTakeTheRow`: as UIDs are taken
in ascending order, no cycle consists of waits for UIDs alone; in each of them
one sync waits for the row of the folder and one holds it.

`MailboxUidProofs` proves, for any number of syncs that overlap, fail and die,
`CheckpointBacked`: not only
the committed checkpoint, but each session's copy of it and the UID the session
has reached are backed by items it sees, and items never disappear.
`CheckpointHasValidity`: a checkpoint is never stored without a UIDVALIDITY, so
that the next sync always has one to compare.

The other four hold for all behaviours as well, with `raced` and `shared` to
say what overlapping syncs may do. `UniqueMindwallUid` and `MindwallUidsAscend`
(`UidsAreAKey`, `UidsAscend`): a sync that had no other beside it numbers its
items above everything committed and everything its own session added, and no
other session commits meanwhile. `CheckpointNeverRegresses`
(`CheckpointIsMonotone`) rests on `CopyInv`: the copy of the state row of a sync
that was not raced is the row, or is of another UIDVALIDITY, up to the columns
its next commit writes; it started from the checkpoint in its copy.
`PassedOverByPosition` (`OnlyPositionPassesOver`): the batch is a
prefix of what the SEARCH finds above the checkpoint (`OldestIsPrefix`),
messages arrive above all of it, a UID leaves the list of a session only with
an item, and what the SEARCH does not find stands at a position no larger than
the checkpoint; deleting messages upstream only lowers positions. Nothing is
assumed about deletions. `sync_passes_over` shows that the exception happens.

`MailboxProfilesProofs` proves `CredentialsAsLastSet`, `TestResultStands` and
`DeletedStaysDeleted` for any number of profiles, handlers and requests. None is
inductive: a handler may bring back any column it has read. The invariant
says why it does not: a request's number is larger than every number in the row
it read, so that what it issues differs from what it read and is sent, and what
it does not issue never differs and is not. `SmtpSubmission` and `ImapProxy` EXTEND this module; their
steps are steps of it or stutters (`ProxyLeavesProfiles`,
`ClientsLeaveProfiles`), so that the three properties hold there too
(`ProfilesStand`, `ProfilesStandForClients`).

`SmtpSubmissionProofs` proves `AcceptedIsRecorded`, `RowsComplete` and
`ViewsAgree` for any number of connections, addresses and rows. `ConnInv` states
for each connection what its state says about its envelope, its login and
`view`, in terms of the files in the store and of the mailboxes that exist or
existed (`Known`). Both only grow, so that a step of one connection leaves the
others alone. A deletion takes its rows with it and a deleted id is not given
out again, so no receipt speaks of a mailbox that lost its rows.
`SubmissionTypes` is the type invariant, `ProfilesStand` restates the results
about profiles next to the proxy, and `MessagesEnd` is the measure behind
`EveryDataAnswered`: from DATA on a connection has at most
`max_message_bytes + 2` steps before it, and each step it takes leaves it fewer.

`ImapProxyProofs` proves, again for any constants, `TypeOK`,
`FoldersKeptApart`, `ServedToOwnerOnly`, `SequenceNumbersKeep`,
`UidNamesOneMessage`, `AnswersWhatWasAsked` and the action property
`LaterUidsAreHigher`. The argument: all
rows, committed or pending, all lists clients hold and all lines they were told are about one
fixed assignment of ids, mailboxes, UIDs and visibilities, which syncs only
extend. In it two messages of a mailbox share a UID only if both are in
`shared`, and a pending row is numbered above the committed ones, save such
pairs. A deleted mailbox leaves that assignment in the hands of the
connections that still have its list, and its id never comes back.
`AnswersWhatWasAsked` is about one answer: `RangesName` says which numbers a set
of ranges names in any list, `PartsAnswer` that the one section found is the one
sent, for any request made of `FetchItem`.

`AnalysisPipelineProofs` proves for any messages and whatever texts the model
returns `TypeOK`, `RunTellsItsSource`, `StricterWhenUnsure`,
`CondemnedReachesQueue` and `EvidenceHolds`. A committed run is `NewRun` of the
checks and of a conversation; the conversation of a handler is what its `pc`
says. Assumed: `APConstants` and that the texts hold numbers (`RawsAreTexts`);
TLC evaluates both in the run. `LevelMonotone` does not need the thresholds to
be in order: the code compares them one after the other, and the result is
monotone for any four numbers. `StricterWhenUnsure` leaves out an unsure run
next to a sure one of higher risk, about which the documentation and the code
disagree (below); in the code the order holds there too, and the proof does not
use the restriction.

That no dimension hides a finding (`FindingsAreShown`) holds for any thresholds.
The rest of `EvidenceHolds` is arithmetic: the risk of the checks is 0.6 of the
strongest finding and 0.4 of the mean of all, which weak findings pull down.
`EvidenceStands` shows how far they can. Only three checks are
weaker than 30, they fire once at most and lack 5, 10 and 15 of it, while one
dangerous attachment exceeds it by 60 (`Margin`); so the mean stays at 30
or above, the risk of the checks at 0.66 or above, and what is left of it
weighed against a model that sees no risk at 0.264. Without an answer it is
shifted to 0.76 at least. The theorem therefore asks of the thresholds only that
`allow` is below 0.264 and that `allow_with_banner` and `soft_hold` are below
0.76, which those of `app/config.py` are (0.25, 0.45 and 0.65). The sums are
those of a fold over the set of findings; `NumberFacts` reaches them by
induction over finite sets (`SetInduction`, in terms of a set of sets, since an
operator parameter is out of reach) and `SumEquation`.

`AnalysesEnd` is the measure behind `EveryAnalysisEnds`: an analysis has at most
four steps before it, and each of its steps leaves it fewer.

Only model-checked: the four liveness properties (`CondemnedReachesQueue` of the
review, `RunEnds`, `EveryDataAnswered`, `EveryAnalysisEnds`), since fairness and
ENABLED are out of the prover's reach. Their measures are proved as above; what
is left to TLC is that a step that can be taken is taken.

## Plan

1. Quarantine review: done, the refinement proved.
2. Mailbox sync: modelled, checked, and its safety proved.
3. Profiles, SMTP proxy, IMAP proxy, scoring and analysis: modelled, checked,
   their safety proved.
   Every invariant and action property of the passing runs is stated by a
   theorem.
4. A composition of `MailboxSync` and `ImapProxy`, in place of the syncs of
   `ImapProxy` that only number and commit.
5. The store of raw messages (written before the row, shared by content) and
   the audit events of policy settings.

Runs are merged where possible: a run per distinct question.

## Not modelled

No state that several actors share: presentation (admin pages, templates, the
wording of evidence and rationale), parsing details of MIME and HTML, the
prompt's text, configuration, logging, encryption, login and the session
cookie, start-up of the workers (three of which only wait for a signal).

No state at all in the running program: alerts, because `create_alert` has no
caller outside the tests; the upstream relay of `delivery.py`, because the
server passes it no profile and it fails before it connects (relay mode answers
550 to every message); policy overrides, which are stored and shown and which
the pipeline never reads.

Behaviours the models have, or leave out, that a reader of the documentation
may not expect:

- Sync: a crash between the commit of a message and that of its item leaves a
  second copy of the message after the next sync; a stored `syncing` outlives a
  dead sync; a first sync that fails on every message starts again from the
  newest batch and can leave mail out.
- Virtual UIDs: two overlapping syncs of a mailbox can give two messages one
  UID, or commit the lower of two UIDs later, and `mindwall_uid` has no unique
  key (`sync_service.py:145`). `docs/imap-proxy.md:85` calls the UIDs "stable
  sequential integers", and `_allocate_mindwall_uid` "monotonically
  increasing". The properties except exactly the items of such syncs.
- Re-analysis: `POST /messages/{id}/analyze` gives a synced message a new
  verdict, and a review item when it condemns it, and leaves the mailbox item: a
  message condemned late stays in INBOX.
- Review: opening the detail page does not mark an item as in review, although
  `docs/quarantine-workflow.md` says so. A release does not reach the mailbox
  item, so the message stays in the client's quarantine folder, although line
  21 says "`MailboxItem` visibility set to `VISIBLE`" (also line 69 and
  `view_service.py:18`): `update_item_visibility` has no caller. No property
  depends on it.
- Scoring: the shift of 0.10 applies to degraded runs only, while
  `docs/policy-engine.md:59` says "When `confidence < 0.5` (which includes all
  degraded runs)": a complete run whose model is unsure is not shifted
  (`StricterWhenUnsure` leaves the case out). The docstring
  of the aggregation (`deterministic.py:513`) speaks of an average where a
  dimension takes the maximum; a comment in `_combine_scores` says "take the
  max" where it takes the model's scores, and the maximum is taken where the
  rows are written. Nothing checks that thresholds are in ascending order.
- Profiles: two connectivity tests that overlap may leave the status of one
  with the error of the other. An edit of the settings leaves the status of the
  last test.
- IMAP: SEARCH and UID SEARCH answer SEEN, UNSEEN, a set of sequence numbers
  and every other criterion with all messages of the folder
  (`server.py:558`), while `docs/imap-proxy.md:61` says "Supports `ALL`, `SEEN`,
  `UNSEEN`, sequence-set" (`AnswersWhatWasAsked` says nothing of them). The limit of three failed logins that `docs/imap-proxy.md:103` mentions
  is not in the code; a connection is cut after 1800 seconds, active or not,
  without BYE; `RFC822.SIZE` brings the whole message, and next to
  `BODY[HEADER]` the wrong section; BODY beside a section brings no
  structure. A session outlives the password it was opened with.
- SMTP: relay mode never relays. The server calls `deliver_outbound` without
  a profile, so that every message is stored as `failed` and answered with 550,
  while `docs/smtp-proxy.md:91` says "On success, the `OutboundMessage` status is
  set to `relayed`" and line 94 promises a 451 for a failure. `RowsComplete`
  accepts both outcomes of a relay. After a message over the limit the rest of its lines is read as
  commands; a commit that fails makes the session of that connection refuse
  every later message.

# A verification project for EnvForge

EnvForge collects evidence from Linux hosts, turns it into *Environment Plans*
(frozen lists of actions), has them reviewed, applies them to a target host over
SSH, verifies them and rolls them back. The server (`apps/api`) is one Node
process over one SQLite file; handlers interleave at every `await`, and the
target host is changed by commands that fail, are cut off, or outlive the
process.

This directory holds TLA+ models of the server's core, TLC configurations that
check them on small instances, and theorems that the TLA+ proof system checks
for every value of the constants.

    tlc -workers 2 -config PlanApply_free.cfg MCPlanApply     one run
    tlapm PlanApplyTheorems.tla                               the proofs of a module

`PROJECT.json` lists the runs, the source lines behind every definition
(`map`), a mutant for every checked property, the hazards and the findings.

## 1. Inventory

Paths are below `src/apps/api/src/`.

| Component | State | Operations | What makes it hard | What makes it correct |
|---|---|---|---|---|
| Plan store (`plan-store.ts`) | plan rows, apply runs, idempotency records, action-run evidence, all in one JSON document | create, approve, reject, record dry run, claim, finalize, append evidence, set status | every operation is atomic, but callers decide on what they read before; stores are trimmed at 1000 | an approval pays for one run; a repeated key starts none; a row names the run that is to finish it; outcomes are final |
| Plan requests (`routes.ts` 3145–3626, `plan-runner.ts`, `engine/managed-execution.ts`) | what a handler holds between awaits | review, apply, dry run, verify, rollback | interleaving at each action, exceptions after the claim, crashes | evidence tells what happened on the host; every claimed run ends; one request executes a plan at a time |
| Managed action (`managed-execution.ts`, `action-runs.ts`) | the ActionRunRecord | snapshot, apply, verify, rollback | each phase may fail, and so may the recovery from it | legal transitions; an outcome that says what the host looks like |
| Adapters, safe writes (`managed-adapters.ts`, `config-files.ts`) | files, backups, packages on the host | probe, back up, write, validate, restore, remove | one stable backup per path; commands cut off count as exit 0; `\|\| true` | what a run changed is given back; what it did not change stays |
| Runtime store (`runtime-store.ts`, `db-store.ts`) | the document in SQLite, a 500 ms cache, a mutex | read, write, update | readers share the cached objects; failed writes; slow reads; one connection for all transactions | no lost update; nothing seen that is not stored |
| Scheduler (`scheduler.ts`, `cron.ts`, `webhooks.ts`) | schedules with nextRunAt | start, tick, fire, update | overlapping ticks, refused claims, rejections that end the process, restarts | one run per due time; a schedule does not get stuck; the next run is the first match |
| Comments, reports, suggestions and their queues (`runtime-store.ts` 1000–1830, `scheduler.ts` 48–89) | tables beside the document; index and notification queues; the inbox | add, like, report, resolve, decide; workers that index and send | one connection for everybody's transactions; overlapping ticks; sent but not recorded | what is deleted is not indexed; every task is done or given up, not too early |
| Accounts and sessions (`auth/local.ts`, `email-codes.ts`, `account.ts`, `identity.ts`, `password-reset.ts`, `session.ts`, admin routes) | users, identities, sessions, codes, pending changes, reset links | register, log in, link, unlink, change, delete, reset, promote, lock | checks made outside the update that relies on them | codes are single-use; every account keeps a way in; addresses and identities have one owner |
| Second factor (`auth/totp.ts`, `auth/login-2fa.ts`) | secret and recovery codes of a user, offers, intermediate sessions | enrol, confirm, disable, regenerate, exchange | factor, session and code are read at different times | no full session without the second factor |
| Plan building and gate (`environment-plan.ts`, `catalog-conflicts.ts`, `plan-lifecycle.ts`) | conflicts and gates of a frozen plan | derive, freeze, evaluate at review and at apply | the target is seen in part, and changes after the plan was made | exclusive capabilities never meet; warnings are confirmed |
| Capability standards (`capability-standards.ts`, `routes.ts` 627–1150) | standard profiles; drafts and versions of requirements | create, edit, clone, activate, retire; save, publish, restore | one profile is in the code until it is edited; requests name drafts, versions and profiles freely | one active profile of a key, one that admins see; one current version |
| Runtime detection rules (`catalog-rule-store.ts`, `routes.ts` 5933–6056) | rules in the document, an overlay in memory, the rules of the release | save, delete, load, promote, restart | loads overlap; requests before the first load; stages read outside the update | the overlay is what is stored; only what is in the code is certified |
| Catalogue overrides (`catalog-overrides.ts`, `routes.ts` 5689–5925) | overrides in the document, files beside it | create, edit, hide, remove, reset | the document first, then file by file | an id is listed once; an added item can be run; a removed one leaves nothing to its successor |
| SQLite opening (`db-sqlite.ts`, `migrations/`) | the connection, applied migrations | open, migrate, import legacy JSON, shut down | a crash between steps | each migration once; an import is whole or absent |
| E-mail queue (`email/queue.ts`, `email/rate-limit.ts`) | a queue and a loop in memory, a log of 200 in the document | enqueue (`auth/local.ts` 132, `password-reset.ts` 117, `account.ts` 107 and 121), drain | a burst passes a limit that is read from the log; answers get lost; what throws out of the loop ends the process | the log says what was sent; what goes out is bounded by the limit and what the log has not heard of; nothing is left in the queue |
| Decision engine and review inbox (`decision-engine/`, `routes.ts` 4082–4908) | evaluations, the inbox, preferences, a profile, what sessions decided | analyse, decide, answer an item, remember, promote a snapshot | a request goes by rows it read once and evaluates one candidate per update; other requests, probes and sessions in between; the history is cut | what needs a person is in the inbox, and nothing else; an answered item does not stay open |
| Task queue (`task-queue.ts`) | in memory | enqueue, drain | not run by the server | – |
| Artifact store (`artifact-store.ts`) | write-once files | put, get | – | content is what its hash says |
| Migration sessions, data migration (`migration-session.ts`, `migration-apply-runner.ts`, `postgres-data-migration.ts`) | documents over plans | advance, promote | derivations over the plan lifecycle | follow the plan's state |
| Catalogue data, classifiers, reports | none of their own | derive | – | sequential derivation |
| Collectors, SSH, web client | none kept | I/O | – | – |

Interaction: a route or the scheduler reads the runtime store, claims a plan
through the plan store, runs its actions one by one through the adapters on the
host, appends a record after each, and finalizes the claim. Verify and rollback
read the records back and work on the host by them. The plan row is the only
thing these handlers share. What a plan may contain is decided before: the
rebuild plan is held against the last snapshot of the target, frozen, and held
against the apply gate at review and at apply. Everything that is stored is in
one document behind a mutex (`RuntimeStore`), except the tables of the community
part, which share its connection; detection rules are copied into memory, mails
wait in memory, and files of catalogue items lie beside it. Accounts, sessions and second factors are in
the document as well: their requests read it and update it in separate steps.

## 2. Plan

Order, most important behaviour first; all written.

1. `TargetHost` – the host as one action can change it, as operators.
2. `PlanStore` – the store's operations, one atomic action each.
3. `PlanApply` – the requests over `PlanStore` and `TargetHost`: the system.
4. `ApprovalTokens` – what reviewing and applying promise; `PlanApply` implements it.
5. `PlanApplyTheorems` – the proofs about rows, runs and approvals, and those about
   evidence, effects and replies.
6. `ManagedAction` – the lifecycle of one action step by step; it shows that
   `TargetHost`, which `PlanApply` uses, tells the truth about a whole run.
7. `RuntimeStore` – the mutex, the cache and the shared connection under the
   plan store's atomicity; `AtomicDocument` is what it promises.
   `RuntimeStoreTheorems` proves it.
8. `Community` – the tables beside the document, statement by statement, and the
   workers on their queues; `CommunityTheorems` proves its properties.
9. `Cron`, `PlanSchedule` – ticks and refused claims over the claim of `PlanStore`;
   `PlanScheduleTheorems` proves that a due time starts one run, and that the cron
   search finds the first match.
10. `Accounts`, and `SecondFactor`, which composes it with the second factor;
    `AccountsTheorems` proves their properties.
11. `ApplyGate` – from the choice of capabilities to a changed target.
12. `ManagedActionTheorems` – the proofs of `ManagedAction`.
13. `CapabilityStandards`, `RuleOverlay`, `CatalogOverrides` – what admins govern;
    `GovernanceTheorems` proves their properties.
14. `EmailQueue` – the mails of the accounts; `AccountsTheorems` proves its safety
    properties too.
15. `DecisionInbox` – what an analysis asks of its user; `PlanningTheorems` proves
    its properties and those of `ApplyGate`.

## 3. The modules

**TargetHost** (no state). A host entry is what one action touches: `content`
(missing, original, planned, unknown) and `backup` (what the one stable
`.envforge.bak` of the path holds). `unknown` stands for whatever a command
leaves that failed half-way or was cut off. `RunsOf(kind, dry, t)` is every
(outcome, host) pair that `runManagedAction` can end with from `t`, `Undone(kind, t)`
every (result, host) pair of the plan-level rollback of one action, the undos
that fail and leave the host as it was or in part changed included. The removal
of a package within a managed action ends in `|| true`: it counts as done,
whether the package is gone or not. Kinds: `config` and `package`
have `canRollback` and their adapters; `command` is a mutating action without
it; `passive` has nothing to apply; `detectOnly` is refused by the lifecycle.

**PlanStore**. `rows`, `runs`, `evidence` are the store's arrays, keyed by id.
`runLog` and `idemLog` give the ids still kept, so trimming is modelled. A row's
status is stored twice in the code, on the row and in its payload; every
mutation writes both, so the model has one. `undoFailed` is the failed entries of a
row's `rollbackResults`, which `PersistRollback` writes with the status whatever
they are; `PersistVerify` is its counterpart. `createId` returns an id not used
before. One action per exported mutation; reads are operators.

**PlanApply**. `clients[c]` is one request's handler: what it read (`snap`,
`pending`, and of a rollback the undos that `failed`), where it is (`pc`), the run
it claimed. Each action is the code
between two awaits: the read and gate of the apply route (`RequestApply`), the
claim by its verdict (`ClaimGranted`, `ClaimDuplicate`, `ClaimTurnedAway`), one
managed action (`RunStep`), its record (`RecordStep`), the refusals after a halt
(`SkipStep`), the finalization (`FinishApply`, `FinishDryRun`, and
`ExecutionThrows` for the catch), the answer to a repeated key (`Replay`), and
verify and rollback with evidence read first and the row written last. `Crash`
loses every handler and keeps the store; no code at start-up touches plans.
`RunStep` takes a whole managed action as one step: other handlers' commands on
the same entry come before or after it. `CarefulSpec` restricts the
environment, not the code: an approval, verify or rollback of a plan in `Careful`
waits until no request is at work on it, and an approved one is applied first.

**ApprovalTokens**. A review grants a plan a token, anything else that happens
to the plan may revoke it, a claim spends it on a run; nothing is spent twice.
`PlanApply!Tokens` is the refinement mapping: the token is the approval of a row
with status *approved*, the pairs spent are the runs created.

**ManagedAction**. One action, run again and again: `status` is the record's,
`at` the place in the hooks, `host` the entry. The safe write is taken apart:
back up (and if that fails, go on), refuse, install, validate, restore. `start`
and `saved` are auxiliary.

**RuntimeStore**. The document is the set of updates it contains; an updater is
one call of `updateRuntimeDatabase`, a reader one of `readRuntimeDatabase`
outside of it. `queue` is the mutex with its holder first; `callers[c]` is where
a call stands between two awaits and the document it holds. A statement is
issued, runs on a thread of the driver (`RunGet`, `RunWrite`), and its result
waits in `results` until it arrives; with `Overtaking` results may arrive out of
order, as they may when the driver has several threads. `cache` and `fresh` are
those of `SafeJsonStore`; an updater in `InPlace` changes an array that the cache
shares, so that others see its change before it is stored. `Transactions` are
the other handlers that BEGIN on the same connection: `view` is the row as the
connection sees it, `committed` as it is on disk. Statements, mutations and the
legacy file may fail, the cache may age at any time, the process may die.

**AtomicDocument**. Updates are started, taken into the document and
acknowledged; none that is in leaves. `RuntimeStore!Document` is the refinement
mapping, from the row on disk: it is what `PlanStore`, whose actions are atomic,
builds on.

**Community**. A call is a program of statements; between two of them any other
call runs one. `tx` is who opened the transaction that is open, `undo` what a
ROLLBACK goes back to. BEGIN throws when one is open, and COMMIT and ROLLBACK end
the one that is open, whoever opened it; `stray` notes when that was another's
(`toggleCommentLike` can: its count runs after its COMMIT and inside its `try`,
so that a failing count rolls back somebody else's). The invariants but the
queues' hold unless that happened. A worker selects rows, works each in a
transaction, and records a failure after the ROLLBACK, within whatever
transaction is open by then. `sends` and `failures` are auxiliary. The index is
kept but the server never searches it, and nothing enqueues notifications;
both are modelled because their workers run.

**Cron** is pure: `NextRunAfter` is the code's candidate-by-candidate search,
`FirstMatchAfter` what its comment promises. The lengths of hours, days, weeks
and months are constants.

**PlanSchedule** extends `PlanStore` and `Cron`. `ticks[k]` is one `tick()`: the
schedules it read as due, the one it fires, its place in
`fireApprovedPlanSchedule`. A tick works on the rows it read; the
update goes to the row of now. An execution is an outcome. Errors of a tick end
in its catch; one in the catch is an unhandled rejection and ends the process,
as does one in `initializeNextRunTimes`; the process then starts again.
While `starting`, updates of ticks wait behind the one of the start-up. Schedules
can be deleted and not made: the routes answer 410.

**Accounts**. `local[q]` is where a request is and what it has read: the user, a
pending row, an identity, whether there was a second factor. Reads and updates
are steps of their own, updates are atomic. `passed` and `overlapped` are
auxiliary: a request wrote after another one had written under way, so that it
may have gone by something old. Codes are compared with the newest usable one of
the address and the purpose, as in the code, and not with the one the pending row
names. An account locked by an admin has `deletedAt` set, like a deleted one,
and keeps its sessions, which go on counting. A log-in that raises the role
(`auth/local.ts` 256) writes, and so may overtake others; one that does not only
adds its session.

**SecondFactor** extends `Accounts` with enrolment, confirmation, disabling,
recovery codes and the exchange of an intermediate session for a full one, and
has the next-state relation of both.

**ApplyGate**. `plans[p]` is a frozen plan with its conflicts, gates and stored
approval, `target` what is on the host, `snapshot` what the last probe saw of it.
`Draft` builds the plan against the snapshot; `Create` attaches the conflicts once
more without the target, as `prepareEnvironmentPlanForCreation` does. The gate is
held twice by a review, on the request and on what is to be stored, and once by
the apply. `drifted` is auxiliary: a plan was applied to a host that its snapshot
did not show as it is; nothing is claimed then.

**EmailQueue**. `mails[m]` is a mail from the request that asks for it to its end,
`queue` the array in memory, `drain` the loop: one at a time, woken by
`setImmediate` when a mail is admitted, since nothing starts the timer. A mail
is held against the log, queued, tried up to `Tries` times and logged; the log
is cut at `MaxLog`. An attempt may fail before or after the server took the
mail (`doubts` counts the latter). Making the transport for a mail just taken, or
writing the entry of one given up, may fail, which throws out of the loop
(`ThrowsOut`), is a rejection nobody handles and ends the process; `Stop` is its
end at any other moment. The code makes the transport once for a process and keeps it. `crowded` and `forgotten` are auxiliary: a mail was held against the
log while one like it was on its way; the log dropped a success that still
counted.

**DecisionInbox**. One user, one connection. `asks[a]` is an analysis or a decision:
it reads the document once (`rows`), then evaluates candidate by candidate
(`todo`), each in an update that appends to `history` and opens, leaves or closes
the item of `inbox`. What it has read are the objects of the store's cache, so
that it sees them change (`attached`) until the document is read from disk again
(`Reread`). A decision about candidates closes the items it was asked about, as
far as the list of open ones reaches. `on` of an answered item is the evaluation
it was answered on; `since` (what was evaluated again after the decision was
stored) and `cut` (the list was longer than a decision looks at) are auxiliary.

**CapabilityStandards**. `profiles`, `drafts` and `versions` are the arrays of the
document; every route is one update, so one action. `DefaultProfile` is the one in
the code, which `WithMutable` copies into `profiles` when it is edited. What
sections say is left out, and so is certification, which publishing records and
does not ask for. `undone` is auxiliary.

**RuleOverlay**. `calls[q]` is where a request is: after what it looked up
(`Request...`), after its update of the document, and in the two steps of
`loadRuntimeDetectionRules` – the update that certifies, and the read whose result
replaces `overlay`, taken as one step since the document is read and the overlay
set without a wait in between. `Boot` is the start-up, which loads after the server
has begun to listen. A restart may bring a release with more rules, never fewer.
`raced` is auxiliary: a rule was changed since the request read it.

**CatalogOverrides**. `edits[e]` is a request with what it has still to do: the
update of the document (`Push`), then its files, one at a time. `Stop` is a crash
or a disk that refuses. A form may be written and dropped for any id, by routes of
its own. `disturbed` is auxiliary.

**MC...** modules give TLC the instances. `MCPlanEvidence` has two scenes of
`PlanApply`, each around a plan of its own, of which one is in `Careful`;
`MCGovernance` is the sum of `CapabilityStandards`, `RuleOverlay` and
`CatalogOverrides`, of which a behaviour moves one: they share no state.
`MCAccounts` has the queue of mails beside `Accounts` and `SecondFactor`, and
`MCPlanning` is `ApplyGate` and `DecisionInbox`: a behaviour without requests of
the first is about the second there, and the other way round.

Lists that the code filters or searches are written with the set of the places
that are meant (`FirstAt`, `Filtered`, `Listings`) and not with `SelectSeq`, which
is recursive and says nothing to the prover.

## 4. The runs

| Run | Instance | Checks |
|---|---|---|
| free | 1 plan (config, command), 2 requests of any kind, 1 key or none, 2 approvals, 2 run ids, RunCap 1, EvidenceCap 2, 1 crash | `ActiveRunOwned`, `OutcomeIsFinal`, `SpendsTokens` |
| evidence | nothing trimmed, no crash, 2 approvals; crowded: a plan (package not there before, config), 2 requests at will; calm: such a plan in `Careful`, 3 requests without a key, none a dry run | `EvidenceTellsTheRun` (`EvidenceFollowsPlan` and `SuccessIsEvidenced`), `EffectsAreEvidenced`, `RepliesAgree`, `RolledBackUndone` |
| live | `FairSpec`, 1 plan (command, passive), 2 requests | `RunsSettle` |
| overlap | 1 plan, smallest instance | finding, below |
| lifecycle | every kind, 3 runs of the action, crashes anywhere | `KeepsItsPromise` (`EndsAsPromised`, `CutShortAsPromised` and `FailedIsUntouched`), `GivesBackItsBackup`, `RunEnds` |
| atomic | 3 updates, one of them in place, 1 read; a row, results in order, no transactions of others, 1 crash | `AckedIsSeen` (`AckedStays` and `ReadsSeeAcked`), `IsAtomic` |
| shared | `FairSpec`, 2 updates, one of them in place, 2 transactions of others; no row at first, results in any order, 1 crash | `OnlyUndone`, `UpdatesEnd` |
| moderation | `FairSpec`, 8 mixes of calls on one comment, one suggestion or one notification, 1 or 2 ticks, threshold 1, 2 attempts, 2 failing statements, 1 crash | `DeletedIsUnindexed`, `EscalatedIsHidden`, `AuditChains`, `TasksAreCounted` (`DeadIsExhausted` and `SentOnce`), `TasksSettle` |
| schedule | `FairSpec`, 1 schedule, 2 ticks, 2 runs, 2 approvals, 3 minutes, 1 fault; hours of 2 minutes, days of 2 hours, months of 1 and 2 days | `OneRunPerDue`, `NextIsFirstMatch`, `SchedulesGoOn`, and of `Cron` the assumption `SearchFindsFirstMatch` |
| accounts | 15 mixes of 2 to 5 requests on up to 2 accounts, 2 addresses, 2 providers, 2 attempts, 2 recovery codes; mails: 3 of 2 addresses and an account, limit 1, window 1, 2 tries, a log of 2, time 2, 2 failures, 1 stop, `MailFairness` | `CodesLetOneThrough`, `AlwaysALogin`, `SerialIsConsistent`, `AnAdminStays`, `EntryIsVerified`; `LogIsTrue`, `RateHolds`, `MailsSettle` |
| planning | gate: 2 plans over 3 capabilities, an exclusive pair and a warned one, 3 kinds of reviewers, 2 probes or changes of the host; inbox: 2 candidates, 2 snapshots, 2 sessions, 2 patterns of preferences, 2 profiles, scenes of 2 or 3 requests, a list of 2, a history of 3, 2 turns of the user | `ExclusivesNeverMeet`, `WarningsAreConfirmed`; `InboxFollowsHistory`, `DecidedIsResolved` |
| governance | profiles: 3 of 2 keys, versions up to 3; requirements: 2 capabilities, 2 profiles, 2 drafts, 3 versions; rules: 2 rules, 2 contents, 3 requests, 1 restart; items: one of the code or one added, 3 requests, 1 crash | `ActiveIsListed`, `OneCurrentRequirement`, `OverlayIsCurrent`, `NeverDowngrades`, `ItemsAreWhole` |

Why the bounds suffice. Two requests show every race between two handlers; the
third request of the calm scene lets a rollback follow two applies, or another
rollback, and its file and package have every way an undo may end. Two approvals
allow one re-approval, at any point. One plan is enough because plans share only
the trimmed logs, and caps of 1 and 2 make trimming happen with one plan. A key
shared by two requests is a repeated request. Two actions put one before or one
after the action that fails; `free` and `live` have the kinds that `evidence` has
not. Three runs of an action are a run
on the original host, one on what it left, and one on a backup of that. Three
updates are the one that is acknowledged, one that fails and leaves its change
in the cache, and one that builds on it; the read puts an old document in
between. Of two foreign transactions the second may find the first open and be
refused, or follow it.

A threshold of 1 and 2 attempts are crossed by two reports and two failures, as
5 is by six and five; two failing statements are one in a transaction and one in
what undoes it; each mix holds the calls that meet on one row. The small calendar
has every boundary of the big one (a month shorter than another, weeks out of
step with months, a second year longer than the first), and
`SearchFindsFirstMatch` looks at every expression over it from every minute of
its days; three minutes let a schedule be due, missed and due again. The mixes
of `accounts` are the sets of requests that read what another writes; two wrong
digits use a code up as five do. Two plans are one that changes the host under
the other, and two moves of the host are a change before or after a probe;
`Undrifted` stops where nothing is claimed any more. Three mails are one that
fills the limit, one that is refused and one that another account of the address
asks for; a log of two drops what still counts. Of two candidates one blocks and
one may be remembered; the second snapshot shows one of them changed; a decision
between two analyses is the third request; a history of three is trimmed. Of three profiles one is the
code's and two may share its key or have another; three requests on a rule are one
that looks something up, one that changes it, and one whose load overlaps theirs;
three on an item are a creation, what overlaps it, and the removal that puts it
right.

Client, run and plan identifiers are interchangeable, hence `SYMMETRY`, left out
of the runs with a liveness property and of those whose identifiers differ in
kind. Deadlock is checked in *moderation*, whose workers tick for ever; elsewhere
the system is done once every request of the instance was made.

One run is refuted by TLC and is a finding: `overlap` – an approval given while a
plan is applying opens a second claim; two requests execute the plan at once. A
test says they cannot; it tries no review in between. `CarefulIsExclusive` is the
proof that this is the only way.

Known behaviours of the code that a property leaves out, each said at the property
that would be false without its condition:

* A plan approved, applied and applied once more overwrites the only stable backup
  with its own content, and its rollback restores that; a run refused before it
  made a backup restores that of an earlier run. `RolledBackUndone` and
  `GivesBackItsBackup` speak of what the backups at hand can give.
* A plan gets the status *rolled-back* however many of its undos failed; a failed
  restore leaves the file as it was (`config-files.ts` 807–809). `RolledBackUndone`
  says that a recorded change that still stands has its failed result on the row.
* A log-in takes the first account that has the address, a deleted one too
  (`auth/local.ts` 239), while a registration and a change of address look at the
  live ones only: the password of an account that took the address of a deleted or
  locked one opens nothing. `AlwaysALogin` excepts this case (`Overshadowed`). Once
  requests overlapped it asks only that a password or an identity is left: two
  accounts may then have one address or one identity, and a log-in comes to the
  first.
* The profile of the code is listed as active, as long as nobody edited it, beside a
  clone of it that was made active; `ActiveIsListed` speaks of the stored ones.
* A ROLLBACK by any handler undoes a document that another stored on the same
  connection meanwhile, hidden by the cache for up to 500 ms; a row that a read
  fetched may arrive after a newer write and become the cache; on the first boot a
  reader that found no row writes an empty document over whatever was committed
  since (`runtime-store.ts` 893). `AckedStays` holds where none of the three can
  happen; `OnlyUndone` says that nothing else loses an update.
* The addresses and identities of two accounts, reset links and sessions of deleted
  accounts are consistent only as long as no request goes by what it read before
  another one's update; the second look that `verifyRegistration` and
  `confirmEmailChange` take ("belt-and-braces") narrows the window and does not
  close it. `SerialIsConsistent` holds without such an overlap.
* A lock is a `deletedAt` that an unlock clears, whoever had set it: the account
  comes back beside the one that took its address. It keeps its sessions, and a
  locked admin may lock the other. A log-in through a provider drops the identity
  of a locked account and makes a new one.
* A confirmation of an enrolment that overlaps another one replaces a factor that
  is on, and one that overlaps a disabling turns it on again. A log-in through a
  provider does not make an administrator set up a factor, and neither does
  registering with an address of the allow-list.
* Mails asked for in a burst pass the limit, which is read from a log that does not
  show them yet, and so do mails whose successes were cut from the log. A mail that
  went out and whose answer or entry was lost goes out again, up to three times, and
  may be entered as a failure, which the limit does not count; one that was out when
  the process ended has no entry. `RateHolds` leaves out the first two and bounds
  the copies that go out by the limit and one for each the log has not heard of. The comment at `auth/local.ts` 127 says that a pending row is
  persisted, and the head of `email/queue.ts` that the queue drains every five
  seconds; it is in memory and wakes itself.
* A candidate that is evaluated again between the list of open items and their
  closing is closed on an evaluation nobody has read; items of an old snapshot
  stay open for good. `DecidedIsResolved` speaks of what the decision was made on.
* Once the records of a key are trimmed, a repeated request starts another run and
  may be told another outcome; `RepliesAgree` speaks of runs whose records are kept.
* A recovery code is spent even if the session to be exchanged is gone by then.
* A conflict that blocks cannot be acknowledged; `catalog-conflicts.ts` 259–263
  says it is to be resolved. A plan made without a snapshot has no gate that says so.
* The comment above the review (`routes.ts` 3355) has acknowledgements merged with
  prior ones and kept when the gate refuses; the code stores nothing on a refusal
  and replaces the approval otherwise, which is what `Approve` does.
* A patch may make the last active profile of a key a draft, round the guard
  ("cannot retire the last active profile for this key", `routes.ts` 751); requests
  then go by the copy in the code, edited or not. A refused patch stores that copy.
  A published draft, a restored version may be another profile's.
* Making a promotion bundle reads a rule's stage outside the update ("never
  downgrades", `routes.ts` 6021): a promotion or a certification in between is set
  back, and a rule set back between the two steps of a load is in the overlay beside
  its double in the code ("never double-detects", `catalog-rule-store.ts` 25). The
  next load puts it right. Two creations of one rule may both be accepted; the later
  one replaces the earlier. An edit of a rule that is not stored creates it.
* An item made under the id of a hidden item of the code is accepted (the comment at
  `routes.ts` 5723 says ids in use are refused); a reset then lists the id twice,
  and neither a removal nor a reset takes the new one out. A removed item leaves its
  form behind.
* `prepareEnvironmentPlanForCreation` attaches the conflicts again without the
  target: a warning between two items of the plan, one of which is on the target,
  loses the gate that the target calls for.

## 5. Fairness

`FairSpec` is weak fairness of every handler's own steps (`Progress`). Node runs
each ready continuation, and a handler's next step stays enabled until it is
taken. It includes the assumption that a command on the host ends or its
connection drops: the adapters' `execOnClient` sets no timeout, so the code alone
does not guarantee it. Requests, reviews and crashes are not fair. `RunsSettle`
is checked without crashes: a run cut short by one stays *running* (a hazard in
`PROJECT.json`). In `ManagedAction` the same is assumed of `Lifecycle`.

In `RuntimeStore` it is weak fairness of every updater's own steps, and of a
reader's once it has begun: the event loop runs what is ready, and SQLite ends
every statement, with a result or an error. Calls, transactions of others and
crashes are not fair. No fairness is needed for the mutex itself: it serves in
order of arrival, and only its head can move.

In `Community` a call that has begun goes on and a tick that has begun goes on
(weak fairness), and for each queue there is again and again a tick that finds
every row of it due (strong fairness of `Select(w, {})`): ticks come every five
seconds and a backoff ends. Statements that fail and crashes are bounded.

In `PlanSchedule` the start-up comes to its update, ticks come every 30 s, each
goes on, and every execution ends. Reviews, other applies, deletions and time are
not fair: `SchedulesGoOn` says that a due schedule moves on or is deleted even if
the plan stays refused.

In `EmailQueue` the event loop goes on (`MailFairness`): a loop that is woken
starts, an attempt ends with an answer or an error, the log is written or the
write fails. Requests, failures and stops are not fair.

## 6. What is proved

`PlanApplyTheorems` proves for every finite or infinite set of plans, requests,
keys and run ids, every plan's steps, and every cap, from the named assumptions
`PlanStoreAssumptions` and `PlanApplyAssumptions` (types of the constants, the
"none" values outside their sets, caps positive):

| Theorem | Statement |
|---|---|
| `Invariant` | `Spec => []IInv` |
| `TypeCorrect` | `Spec => []TypeOK` |
| `ActiveRunOwnedAlways`, `OneRunPerApprovalAlways`, `OneRunPerKeyAlways` | `ActiveRunOwned` of run *free*, `OneRunPerApproval`, which `SpendsTokens` implies, and that a key kept names one run |
| `OutcomeIsFinalAlways` | `Spec => OutcomeIsFinal` |
| `Implementation` | `Spec => SpendsTokens` |
| `CarefulIsExclusive` | `CarefulSpec => []CarefulExclusive`: `ExclusiveApply` for the plans in `Careful` |

The argument. The properties are not inductive by themselves: that two runs
never rest on one approval needs that an approved row's stamp is unspent
(`ApprovedIsUnspent`), that stamps are granted in order and never shared
(`StampsGranted`), and, since only a working handler finalizes, that a handler
at work owns a running run alone (`WorkersOwnRuns`). That a row's active run is
running needs the last as well. `HandlersSane` and `EvidenceOfSteps` bound what
handlers hold; `KeptRunsAreUsed` ties the trimmed logs to the runs. `IInv` is
their conjunction. Every action is classified once by what it does to the
store (`NextIsStoreStep`) and to the handlers (`ProgressMoves`), and the
conjuncts are preserved class by class. `Implementation` maps each class to a
step of `ApprovalTokens` or a stutter. `CarefulIsExclusive` adds that while a
request executes a plan, the plan is *applying* or no approval is on it.

It proves further, from the same assumptions and on top of `IInv`:

| Theorem | Statement |
|---|---|
| `EvidenceTellsTheRunAlways` | `Spec => []EvidenceTellsTheRun` |
| `EffectsAreEvidencedAlways` | `Spec => []EffectsAreEvidenced` |
| `RepliesAgreeAlways` | `Spec => []RepliesAgree` |
| `RolledBackUndoneAlways` | `CarefulSpec => []RolledBackUndone` |

The argument. What a handler holds of a run it has claimed is as the run is
(`HandlersFresh`), and only the handler of a run records for it (`OwnRecords`); so
when it is at a step, its evidence is that of the steps before, all of which let it
go on (`StepsAreEvidenced`). An entry of the host changes by a step of an apply, which
is then about to be recorded (`PendingIsEvidenced`), or by a rollback of what the
evidence names; a dry run and a passive action change none (`NothingToApply`). What
a request is told is what its run ended with, or ended with before it was asked
(`ToldIsRecorded`, `RunsAreAsked`), and among the records that are kept a plan and a
key name one run (`ToldAlone`). Trimming drops the oldest, whose number is the least:
naturals are well-founded.

`RolledBackUndone` rests on this: from the request of a rollback to the next approval
nobody is at work on a careful operator's plan (`RollbackAlone`; a new approval waits
for the rollback), so no step is recorded as applied anew (`QuietEvidence`) and what
is off the host stays off (`GoneStays`), while the walk has undone every recorded step
it has behind it or holds it as failed (`WalkedIsGone`), which the row then gets; a
row's results change by the end of another rollback only (`RolledBackByRollback`). Neither a crash nor trimmed evidence disturbs that;
the run has neither.

`RuntimeStoreTheorems` proves, from `RuntimeStoreAssumptions`, for every set of updates, readers and transactions
and any number of crashes:

| Theorem | Statement |
|---|---|
| `TypeCorrect` | `Spec => []TypeOK`, which includes exclusion by the mutex; nothing else is assumed |
| `AckedStaysAlways`, `ReadsSeeAckedAlways` | `Quiet => (Spec => []AckedStays)`, and likewise `ReadsSeeAcked` |
| `AckedIsSeenAlways` | both, as run *atomic* checks them |
| `Atomic` | `Quiet => (Spec => IsAtomic)` |
| `OnlyUndoneAlways` | `Ordered => (Spec => OnlyUndone)` |

`Quiet` says that there is a row at first, no other user of the connection, and
either no read outside the mutex or results that arrive in order. Each part is
needed: a `ROLLBACK` of another handler, an overtaken read, and a first boot
with a reader (section 4) show what happens without it. The argument: one updater at a time is past the mutex
(`TInv`), so one write at a time is under way, and every document that is
cached, delivered or on its way contains what is stored, unless the result of the last
write is still to arrive behind it (`Fresh`); so an update under the mutex starts
from all that is stored. `Seen` says it of what
readers hold, `AllStarted` that nothing is stored that was not asked for.

`Ordered` leaves the transactions of others in: no read outside the mutex (the instance of
run *shared*), or a row at first and results in order. An overtaken read or a first
boot of a reader refutes `OnlyUndone` without it. The argument (`AInv`): what is on
disk is part of what the connection sees, and that is part of every document a write may
be made from, the cache, what was fetched and what the holder works on, unless a
write is still to arrive that is ahead of it; only a `ROLLBACK` or a crash goes back.

`ManagedActionTheorems` proves, for any number of runs and crashes:

| Theorem | Statement |
|---|---|
| `Invariant` | `Spec => []IInv` |
| `EndsAsPromisedAlways`, `CutShortAsPromisedAlways` | what a run leaves is in `RunsOf`, also when it is cut short |
| `KeepsItsPromiseAlways` | these two and the next, as run *lifecycle* checks them |
| `FailedIsUntouchedAlways`, `GivesBackItsBackupAlways`, `SeenPackageStaysAlways` | the properties of run *lifecycle*, and that a package the snapshot saw stays, which the ends in `RunsOf` imply |

The argument: for each place in the hooks the strengthening says what the host
may be, given the host at the start and what the snapshot saw; every hook moves
from one such place to another.

`PlanningTheorems` proves, for every set of plans, capabilities, catalogue,
rules, resolutions and reviewers, from `ApplyGateAssumptions`:

| Theorem | Statement |
|---|---|
| `Invariant` | `Spec => []GateInv` |
| `ExclusivesNeverMeetAlways` | `Spec => []ExclusivesNeverMeet` |
| `WarningsAreConfirmedAlways` | `Spec => []WarningsAreConfirmed` |

The argument: a frozen plan carries a conflict for every rule that fires among
its own capabilities and those its snapshot saw, through both attachments
(`Conflicts` never loses a rule). The gate refuses a plan that carries a blocking
one, and asks for each of the others. If the plan had seen the host as it is, what
is on it after the apply is within what the rules were held against.

and, for every set of candidates, snapshots and what they show, sessions, targets,
preferences, profiles and requests, any list and history, from `InboxAssumptions`:

| Theorem | Statement |
|---|---|
| `InboxFollowsHistoryAlways` | `InboxInit /\ [][InboxNext]_inboxVars => []InboxFollowsHistory` |
| `DecidedIsResolvedAlways` | the same of `DecidedIsResolved` |

The argument: an update appends one evaluation and sets the item of its key by it,
so the newest record of a key is the one its item goes by; a history that is cut
keeps, of each key that has any, its newest record (`HasLatest`); what is unsafe gets
an outcome that a preference does not touch (`SafeRecords`). For the second, `Knows`
says of a decision under way that an open item it concerns is still among those it
has to close, or was evaluated since, or was beyond the list.

`GovernanceTheorems` proves, for every set of rules, contents and requests, any
number of restarts and any releases, from `RuleAssumptions`:

| Theorem | Statement |
|---|---|
| `Invariant` | `RulesSpec => []RInv` |
| `OverlayIsCurrentAlways` | `RulesSpec => []OverlayIsCurrent` |
| `NeverDowngradesAlways` | `RulesSpec => NeverDowngrades` |

The argument: every change of what is stored is followed by a load, and until then
its request is at *reconcile* or *reload*; the load leaves exactly what is stored
and not in the code, because what is marked certified is in the code
(`CertifiedLanded`). A bundle marks a rule that is still in the early stage it was
read in, unless someone changed it since (`BundlesAreEarly`).

and, for every set of profiles, keys, capabilities, items and requests, from
`StandardsAssumptions` and `CatalogAssumptions`:

| Theorem | Statement |
|---|---|
| `ActiveIsListedAlways` | `StandardsSpec => []ActiveIsListed` |
| `OneCurrentRequirementAlways` | `StandardsSpec => []OneCurrentRequirement` |
| `ItemsAreWholeAlways` | `ItemsSpec => []ItemsAreWhole` |

The arguments. Activating a profile retires the others of its key, so that active
ones stand alone for theirs (`Alone`), and the default's key keeps an active one,
stored or in the code, until the guard is passed round (`DefaultKept`); the first
active profile is then one that is listed. A draft is saved where none is open, and a
version gets a number above those of its kind, so numbers are at most places and the
newest is published and retires the others (`RequirementsInv`). An added item is, for
every place its one request may be at, as the update and the files written so far
leave it (`Amidst`, the invariant of creations, edits and removals; `WholeItem`
between requests); requests of other items touch neither its override nor its files
(`Elsewhere`), and a filtered list has the kept entries, each once
(`FilteredPlaces`, by the injection that ranks the places).

`AccountsTheorems` proves, for any accounts, identities, sessions and requests, any
allow-list, number of attempts and of recovery codes, from `AccountsAssumptions`,
`SecondFactorAssumptions` and `MixAssumptions`, which says what requests before may
have left: accounts that can be logged into and share no address, identities with
one owner, sessions of accounts that live, recovery codes of one account, and an
administrator where there was one:

| Theorem | Statement |
|---|---|
| `AccountInvHolds` | `Spec => []AccountInv` |
| `CodesLetOneThroughAlways` | `Spec => []CodesLetOneThrough` |
| `AlwaysALoginHolds` | `Spec => []AlwaysALogin` |
| `SerialIsConsistentAlways` | `Spec => []SerialIsConsistent` |
| `AnAdminStaysAlways` | `Spec => []AnAdminStays` |
| `EntryIsVerifiedAlways` | `Spec => EntryIsVerified` |

The argument. `Fits` is what holds however requests interleave: where a request may
be and what it may then have read, rows of accounts there are, a mailed code open only
while nobody passed (`MailedCodesFit`), a session named by requests that are over, a
recovery code of one account or of the one request it let in (`RecoveryCodesFit`),
two requests in with one session never (`EntriesDiffer`), and a password or an
identity of every account (`KeepsACredential`). That one is inductive beside the
others: an unlink counts in its own update, and a clean-up takes a row by its id, of
an account found deleted, which only a lock can bring back. That a log-in with it
comes to the account follows from `SerialFacts`. The other properties are lost when a request goes by what
it read before another's update, and hold until then (`Serial`): a request that was
under way at no other's update since it began knows that what it read is so
(`Knows`: the address is free, the identity is nobody's, the link unused, the account
lives, has no factor, is an administrator's or has another one beside it); its own
steps keep what it knows and rest on it (`MoverKnows`, `SerialFactsStay`), and
those of others either write, after which only requests that have not begun or are
over go on unmarked, or change nothing it could have read (`WritesOrNot`).

It also proves, for any mails, limits, attempts, length of the log, failures and
stops, from `EmailAssumptions`:

| Theorem | Statement |
|---|---|
| `LogIsTrueHolds` | `MailInit /\ [][MailNext]_mailVars => []LogIsTrue` |
| `RateHoldsAlways` | the same of `RateHolds` |

The argument. The loop knows how often the mail it has was tried and when it went
out (`LoopKnows`), a mail that waits is in the queue once (`QueueWaits`), and one
never taken is untouched. For the rate (`RateInv`): what was delivered within the
window is in the log unless it was forgotten, no two mails to one address or of one
user are on their way unless they were asked for in a burst, and the one on its way
found room that nothing has taken since. Of a mail one copy at
most is heard of, the last, and only if the mail was delivered within the window or
is the one on its way (`HeardAreRecent`), so that the limit bounds them
(`HeardAreFew`); `CopiesAreFew` adds the others. The mails are finitely many.

`PlanScheduleTheorems` proves, for any schedules, plans, expressions and calendar,
from `PlanScheduleAssumptions` and those of the store it runs on:

| Theorem | Statement |
|---|---|
| `OneRunPerDueAlways` | `Spec => [](Len(idemLog) < RunCap => OneRunPerDue)`, and `Spec => []OneRunPerDue` if the store has room for a record of every run |
| `SearchIsFirstMatch` | `NextRunAfter(cron, from) = FirstMatchAfter(cron, from)`, for any `cron` and any `from` with `CalendarLasts(from)` |
| `NextIsFirstMatchAlways` | `Spec => NextIsFirstMatch`, if `CalendarReaches` |

The argument. A run that a schedule started has the due time for its key and the
schedule's plan for its plan (`RunsAreKeyed`), and its record is in the log unless
one was trimmed (`RecordsLast`), so that `GrantClaim` finds it and claims nothing for
the same due time. Without the condition the property is false: a record is trimmed
after 500 others, and a tick that read its schedules before may then claim again.

`CalendarLasts(from)` says that the months given reach to the end of the search, and
`CalendarReaches` that they do from the last minute: the dates of the code have no end
(the cfg's months have 68 minutes, of which 38 are asked for). The search is a recursive
function, of which the prover knows nothing until it has been shown to exist. That, and
what it finds, go by induction over how far a candidate is from the end of the search,
and since no library theorem with an operator for a parameter can be used, the induction
is over a set of numbers, whose complement would have a least element
(`WFMin`; `ByInduction`). The step is `LaterSkips`: the next candidate is later, and no
minute skipped has the month, the day or the hour that made the search jump
(`ToNextMonth`, `ToNextDay`, `ToNextHour`), which rests on the minutes of a month, a day
or an hour being an interval (`MonthIndexFacts`, `Quotient`). `NextIsFirstMatch` adds
that every step leaves a schedule, reschedules it from now, or deletes it.

`CommunityTheorems` proves, for any comments, users, suggestions, calls and workers,
any threshold and number of attempts, failures and crashes, from
`CommunityAssumptions` (of which: two additions are of two comments, since
`addComment` draws a new id):

| Theorem | Statement |
|---|---|
| `CommunityTypes` | `Spec => []TypeInv` |
| `DeletedIsUnindexedAlways` | `Spec => []DeletedIsUnindexed` |
| `EscalatedIsHiddenAlways` | `Spec => []EscalatedIsHidden` |
| `AuditChainsAlways` | `Spec => []AuditChains` |
| `TasksAreCountedAlways` | `Spec => []TasksAreCounted` |

The argument. Until a `COMMIT` or `ROLLBACK` ends another's transaction, whoever is
between its `BEGIN` and its `COMMIT` holds the open one (`Owner`), so it is alone with
the tables. They are `Whole` at every `BEGIN`, and within a transaction they are
whole but for what the statement its holder is at is there to do (`Half`), or the
transaction is about to be rolled back (`Doomed`); so what is on disk is whole. A
comment not added yet has no reports (`Fresh`). For the queues: a worker counts from
what it selected, and its own failure counts before it records one (`CountInv`);
while nothing fails, a task that was sent is open only in the hands of the worker
that is about to mark it (`Settled`), and what a worker is still to send nobody has
sent (`ToSend`).

Only model-checked: liveness (`RunsSettle`, `RunEnds`, `UpdatesEnd`, `TasksSettle`,
`SchedulesGoOn`, `MailsSettle`), which the prover does not reach. Every safety
property that a run checks is proved.

## 7. What is not modelled, and why

* `PlanApply` takes an update of the store as one atomic step that succeeds.
  `Atomic` is the ground for the first, under `Quiet`; writes that fail are in
  `RuntimeStore` and not in `PlanApply` (a hazard without a property).
* `RuntimeStore` leaves out `invalidate`, which nothing calls. What the
  transactions of others do to their own tables is in `Community`, without the
  document beside them: of the two, a ROLLBACK of one undoes the other.
* One user owns the plans: rows are looked up by owner everywhere, ownership never
  changes.
* Hash checks: a stored plan's payload is frozen and its hash never changes, so
  they cannot fail; deleting plans has no caller.
* `PlanApply` takes the gate as passed; a refused review or request leaves no
  trace and is no step. `ApplyGate` has the gate, and of a run only what it gets
  done.
* The SSH hardening adapter, service restarts, the imported-recipe adapter and
  the verify commands' own side effects.
* Of accounts: API tokens, log-out, the expiry of sessions and enrolments, profiles,
  rate limits. The 30 days a deleted address is said to be blocked
  (`auth/account.ts` 29–31) are enforced by no code.
* Of what admins govern: the text of sections, rules and files, certification runs
  (a log nothing is decided by), the audit log, releases that drop a rule.
* Code that the server does not run: `enqueueTask` has no caller, direct execution (`executor.ts`) is refused by its routes,
  `migration-apply-runner.ts` is imported by none.
* Migration sessions derive their stage from other documents; classifiers, reports and catalogue are sequential derivations and tables of data,
  the collectors and the web client input and output. They are most of the
  repository's lines, which is why the map covers a small share of it: there is no
  state in them to check. Of the decision engine, the scores beyond their thresholds.
* The components marked `not_modelled` in `PROJECT.json`, with the reasons there.

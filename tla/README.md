# Formal model of lib-opnsense

`lib-opnsense` is an asynchronous Python client for the OPNsense API.  On top of
one HTTP client it builds *managers* whose `ensure()` brings a resource of the
appliance into a wanted state: a record, a settings document, a daemon, a
package, the firmware.  Every such call is a coroutine that reads, decides and
writes over a network that loses answers, against an appliance that other
callers, and its own background jobs, change at the same time.

The modules here model that: what one API call guarantees, what the convergence
algorithms make of it, and what happens when several of them meet on one
appliance.  TLC checks the modules on small instances; TLAPS proves the main
results for every value of the constants.

Paths such as `client.py` are relative to `src/opnsense/` of the repository,
unless they begin with `README` or `docs`.

## 1. The system

| Component | State it keeps | Operations | What makes it correct |
|---|---|---|---|
| `OpnsenseClient` (`client.py`) | attempt, last status and exception of a call; the lazily created httpx client | `_request` (all verbs), `create`/`update`/`delete`/`search`/`reconfigure`, `wait_for_ready` | bounded attempts, a budget of at least one, exceptions that tell what may have happened |
| `BaseManager` (`managers/base.py`) | none between calls; within a call the record found, the duplicates to remove | `list`, `get`, `create`, `update`, `delete`, `ensure` | converges, reports what it did, never removes what nobody asked to remove, applies what it saves |
| `IdentityResolver`, `DiffEngine` (`core/`) | none | find the record(s) of a composite key; compare | exact matches only, every wanted field compared |
| 66 record managers and 14 settings managers (`managers/*/`) | declarations | inherited, a few overrides | a second run finds what the first created; the declared apply loads what was saved |
| `BaseSingletonManager` (`core/base_singleton.py`) | none between calls | `get`, `set`, `ensure` | no field lost, daemon runs what is saved |
| `BaseServiceManager`, `CoreServiceManager`, 14 service managers | none | `status`, `start`, `stop`, `restart`, `reconfigure`, `ensure` | truthful reports, silent check mode |
| `PluginManager` (`managers/services/plugin.py`) | none | `install`, `remove`, `ensure` with two waits and a verdict | a reported state is real, never fires into a running job |
| `FirmwareManager` (`managers/services/firmware.py`) | none | `check`, `update`, `upgrade`, `ensure`, two reboot-tolerant waits | finds what is pending, ends on the target and idle |
| `AcmeCertificateManager`, `AcmeAccountManager` | within a call the stamp of the status read before `sign` | `ensure` with `sign` or `register`, and a wait with a deadline | never takes an old status for the outcome, ends |
| `AuthPrivManager`, `AuthApiKeyManager`, `CoreSnapshotManager`, `IdsRulesetManager` (no base class) | none | whole-list update of a privilege; create and delete keys; create, delete, activate boot environments; toggle rulesets and reload | what was asked is done, nothing else is touched, toggles are loaded |
| `RtRouteManager`, `FwOneToOneManager` | the name of the enable flag (routes) | `ensure`, `create`, `update` with the flag translated | a flag under either name means the same on either firmware |
| Monit managers | none | `ensure` overrides | as for `BaseManager`, plus their translation |
| Endpoint, redaction, validation, logging, credentials, models, protocol | none | pure functions, formatting, reading files | unit-testable functions |

**How they interact.**  Managers call the client and nothing else; they share no
state in the process.  They interact *through the appliance*: its saved
configuration (searched, read and written), its running configuration (copied
from the saved one by an apply or reconfigure call), its daemons, and its single
firmware job with one progress log and a lagging package cache.  There are no
threads or locks: concurrency is several coroutines or processes, interleaved at
their awaits, and the appliance's own activity.

**What is hard.**

* A request whose answer is lost may have been executed, may be executed later,
  and is sent again.  The client does so for every verb, non-idempotent ones too.
* A decision is taken on data read one or more awaits earlier.
* Save and apply, fire and wait, read and write are separate requests; any of
  them may fail after the ones before it succeeded.
* Search rows carry less than the full record, a search answers one page, the
  package list lags behind, `status` is as old as the last check.
* Waits run through reboots and must end even if the appliance does not return.

`PROJECT.json` lists each of these hazards at the line where it bites, with the
properties that cover it or the reason why none does.

## 2. The modules

```
RemoteCall  <--implements--  HttpRequest        (one API call)
                                 |  its guarantees are assumed by
     +------------+--------------+--------------+-----------+-------------+
  Ensure      Settings      Standalone      AcmeIssue     Plugin       Firmware
 (records)  (settings and  (privileges,  (certificates, (packages)    (releases)
     |        service)      keys, boot      accounts)        \          /
     |                     environments,                    FirmwareJobs
     |                       rulesets)                 (the appliance's one job)
     |
     +-- its fields:       Fields     (forms of values, the translated flag)
     +-- its declarations: Catalogue --> Reruns
                        (80 managers)   (each manager, run again and again)
```

`XMC.tla` instantiates module `X` for TLC, `XProofs.tla` holds its theorems.
Operators whose comment begins with "Mutant" are plausible bugs of the
definition that follows them; substituting one must break a property.

### RemoteCall, HttpRequest: one API call

`RemoteCall` is what a caller may rely on: the operation runs at most `budget`
times, before or after the call ends, and the call returns only if it has run.

`HttpRequest` is `OpnsenseClient._request`.  `effective_retries`, `attempt`,
`status_code` and the exception raised are its locals; `pc` is the await it
stands at; `work` and `late` are the attempts the appliance may still execute.
`Send`, the answer actions (one per branch on the status: `RefusedWithStatus`,
`ServerError`, `ReturnsBody`, `ResultFailed`, `NotJson`), `TimesOut`,
`TransportFails` and `BackoffOver` are the pieces of the retry loop between two
awaits; `Effective` is the clamp of a per-call `max_retries`.

### Ensure: records

`BaseManager.ensure()` for any number of callers and one kind of record.  `pc`
names the await, `row` is `existing`, `todo` the duplicates left to delete,
`post`/`wire`/`attempt` the POST in flight.  `Start` checks the arguments and
goes to the first read; `Fetch` and `Search` find the record (`Matches`,
`MatchNone`, `MatchAmbiguous`, `MatchSurvivor`); `CleanGet`, `CleanDeleted` and
`CleanApplied` are `_collapse_duplicates`; `Hydrate` is `_hydrate_nested`;
`Converge` decides between create, update, delete and noop; `BeforeUpdate` and
`BeforeDelete` are the reads inside `update()` and `delete()`; `WriteDone` and
`ApplyDone` go on to the apply and the result.  The appliance is `saved` and
`running`; `ever` remembers which records carried an identity.  Key values are
abstract identities, fields are of two sorts: those a search row carries and
those only a full read answers.  A row carries its identity too: `compute_diff`
compares all of the wanted fields, the match keys among them, so a call by uuid
that finds a record of another identity differs from it and gives it its own.

### Settings: settings and service of one daemon

`BaseSingletonManager.set()/ensure()`, `BaseServiceManager.ensure()/_action()`
and `CoreServiceManager.ensure()` on one daemon.  The three meet in the
appliance: the apply of a settings change *is* a reconfigure of the daemon, which
may start it, and a service call may reconfigure it before the settings call
does.  `saved` is the document, `loaded` what the daemon was configured with, `up`
whether it runs.  `reconfigure` answering `{"status": "failed"}` raises through
`OpnsenseClient.reconfigure` (settings), and is an answer like any other for
`_action`, which posts directly.  Rejected arguments (wrong state, failed
validation) are state `"other"`.

### FirmwareJobs, Plugin, Firmware

`FirmwareJobs` is the appliance's side, as the two managers and their comments
use it: one job at a time, an empty log that reads `error`, `done` for refused
and ineffective jobs as well, a package cache that lags, a pending release that
only a finished check reveals, a reboot followed by the re-installation of listed
packages.  It is external to the repository and marked so in the map.

`Plugin` is `PluginManager.ensure()` for several callers: `ReadState`, `IdlePoll`
(`wait_for_idle`), the POST, `JobPoll` (`_wait_for_job` and `_verdict`), `Verify`
(the re-read loop).  `Firmware` is `FirmwareManager.ensure()`: `Begin`, the check
job (`CheckFired`, `CheckPoll`), `ReadStatus` with `VerbFor`, `_fire` (`VerbFired`,
and `GiveUp`, which is where a transport error is swallowed), `VersionPoll` and
`IdleAgainPoll`.  `stage` names the await, `asked` the arguments, `verb`, `sending`
and `tries` the POST in flight, `slept` the polls of a wait, `abandoned` the verbs
the appliance may still execute.  Others use the same appliance: a job may run when the
call starts (`ReleaseInit`, `Foreign`), and `StrangerFires` starts one whenever none
runs; `strangers` records which kinds did.  The two modules share no name of their own
(`Spec` is `ReleaseSpec` here), so that `FirmwareProofs` extends both.  Time is
counted in polls: a sleep and the poll after it are one
step, and anybody may act before every poll.

### Standalone: the managers without a base class

`AuthPrivManager.ensure()`, `AuthApiKeyManager.create_key()`, `delete_key()` and
`delete_all_keys()`, `CoreSnapshotManager.ensure()` and `activate()`, and
`IdsRulesetManager.ensure_many()`.  They share one shape, so they share one module:
a read (`ReadAssignment`, `ReadKeys`, `ReadEnvs`, `ReadActive`, `ReadRulesets`)
leaves a set of requests, `Proceed` is the noop, the dry run or the first POST,
`Posted` the loop over the rest (`todo`), and after it the reload of the IDS or the
second look for a created environment.  They differ in what they post: a whole list
rebuilt from the answer (`Selected`, `Assignees`), one deletion per row of one page
(`Pages`, `KeysOf`), the first row of a name (`Finds`), a creation by name, one toggle
per drifted ruleset.
`ListsUuids` says in which of its two shapes the appliance answers a privilege
(`_extract_targets`).

### AcmeIssue: an issuance in the background

`AcmeCertificateManager.ensure("issued")` and `AcmeAccountManager.ensure
("registered")`.  `sign` only starts an issuance; `starting` and `working` count
those that have not set a status yet and those that set 100, whoever started them:
a caller, a late or repeated `sign`, the cron or the GUI.  `ReadCertificate`,
`Settle` (wait for a running one), `Decide` (issue, renew or nothing), `WaitForIssue`
and `Conclude` are the pieces of `ensure()` between two reads; `seen` is the stamp
compared by `_wait_for_issue`, `expired` and `endings` are history for the
properties.  `super().ensure("present")` is one step here (`EnsureObject`), since it
is `Ensure`.

### Fields: the forms of one value

What `ensure()` makes of fields, for which `Ensure` has only "equal" and "drifted".
A value is given as a text or a list, a flag under either of its names; the
appliance shows it in a search row (native booleans, hashes of secrets) or a full
item (option dictionaries, no secrets).  `Normal`, `Rename` and `Params` are what
the manager makes of the params (`normalize_multi_select`, `_device_enable_flag`,
`_api_enable_flag`), `Validate` the check before the first request, `Differs` is
`compute_diff` with `Same` (`normalize_value`, `_csv_set`, `bcrypt.checkpw`) and
`WriteOnly`, `Hydrates` is the condition of `_hydrate_nested`.  `Twice` is the second
translation: `ensure()` calls the `create()` and `update()` of the subclass, which
translate what is translated already.  Callers share one manager, whose cached name of
the flag (`cached`) outlives an `Upgrade`.  `Translates` selects the manager:
`"device"` is `RtRouteManager`, `"api"` `FwOneToOneManager`, `"nothing"` any other.
The lists are those of the two Monit managers, the record managers that turn them into
comma-separated text; no class has both these and a translated flag, and a call that
gives one of the two is a call of one class.  A list for a field that nobody normalises
is excluded (`CallAssumption`): its `str()` equals nothing the appliance shows, so
every run would write it.

### Catalogue, Reruns: what each manager declares

The concrete managers are declarations: which collection they keep, by which keys
a record is found, which of those are required, what applies a change, whether
`list()` sends the search phrase.  `Catalogue` has one definition per class, with
exactly that.  `Reruns` asks what follows from a declaration: it runs `ensure()`
of managers one after the other, each match key given, empty or omitted.  `Start`
is the validation, `Lookup` is `find_existing` (`PhraseKeys` chooses the phrase,
`Answered` is what the appliance answers to it, `Matches` compares all keys),
`ReadDocument` the read of `BaseSingletonManager.set()`, then `Create`, `Update`
or `Delete` and `Apply`.  `EndpointMissing` is the 404 of the host aliases of Unbound,
whose appliance has neither `set` nor `del` (`edits`), and `Reconfigure` the service's
reconfigure where a class leaves the apply to its caller.  `OtherAdds` is another user of the appliance, whose
record has the caller's keys or differs in one.  A value is one of four: what was
given, a longer text that contains it, nothing, and the appliance's default; that
is what phrase and comparison tell apart.  Requests arrive once here: `Ensure` is
where they are lost and repeated, and it takes the keys as one abstract identity.

Facts about the appliance are inputs of `RerunsMC`, each from the repository:

* the fields a search compares by display text (the comments of the `list()`
  overrides, e.g. `managers/services/dnsmasq_range.py:138`), and the match keys that
  it fills in when they are omitted (the values selected in the captured empty
  records, `docs/api/data/*/*__schema.json`);
* that an endpoint of a module's `service` controller loads the whole module, and any
  other its own controller's records (`Loads`);
* which controllers need no apply.  Ten record managers declare
  `_apply_endpoint = None`, and the repository does not say the same of all of them.
  Users and groups are "N/A (immediate)" in the table of the developer guide
  (`GuideImmediate`).  The four ACME collections are *not* immediate: `AcmeServiceManager`
  asks for one `reconfigure` after their CRUD (`managers/acme/service.py:9`,
  `accounts.py:18`), so they are `HandedTo` the caller and have to be loaded once
  `Reconfigure` ran.  Trust CAs and certificates, firewall groups and categories are
  immediate on the word of their classes only (`ClassImmediate`); the guide says
  otherwise, see the findings.  For these four `ReportedChangeRuns` shows nothing; for
  the others, a forgotten or wrong endpoint breaks it.

## 3. What the runs check

| Run | Question | Properties | Bounds |
|---|---|---|---|
| `http_request` | what each way of ending says about the appliance | `TypeOK`, `ExecutionsBounded`, `FirstRefusalIsFinal`, `Settles`, `ImplementsCall` | `max_retries` -1, 0, 1, 2, 4 and not given (3); one status per branch |
| `ensure_one` | does a call alone converge and report the truth? | `TypeOK`, `CheckModeIsSilent`, `ReportsMatchEffects`, `Converged`, `OneMatch` | 1 caller, 2 calls in a row of every kind, 4 records, 2 attempts |
| `ensure_two` | two callers with different intents | `QuiescentIsApplied`, `OnlyAskedDeletes`, `Terminates` | 2 callers, 3 records, 2 attempts |
| `ensure_survivor` | concurrent deduplication | `ElderSurvives` | 2 callers (symmetric), 4 records, pages of 2; to begin with no record, three copies, or copies and a neighbour; 1 late request |
| `ensure_never_applied` | *finding*: does the next run apply what was only saved? | `QuiescentIsApplied` violated | 1 caller, 2 calls |
| `settings` | settings and service callers of one daemon | `TypeOK`, `OwnFieldsStay`, `QuietIsLoaded`, `ReportsMatchEffects`, `Terminates` | 2 callers, 2 fields of 2 values, 2 attempts, 1 late request |
| `plugin` | packages through the shared job | `TypeOK`, `ReportedStateIsReal`, `Terminates` | 2 callers, 2 packages, 2 attempts, 1 poll per wait |
| `firmware` | updates and upgrades through reboots | `ReleaseTypeOK`, `NoopIsTrue`, `ReachedIsSettled`, `MajorOnlyWhenAsked`, `ReleaseTerminates` | 3 versions (a point update, then a major upgrade), 3 attempts, waits of 1 and 3 polls, jobs of 2 kinds by others, one of which may run at the start |
| `catalogue` | do the declarations of all 80 managers make `ensure()` idempotent and effective? | `TypeOK`, `NoSecondCopy`, `ReportedChangeRuns`, `OthersStay` | 2 calls of one module, 3 records, keys given or empty, then the reconfigure left to the caller |
| `standalone` | do the managers without a base class do what was asked, and nothing else? | `TypeOK`, `AsAsked`, `RulesLoaded`, `OthersStay` | 2 callers, 2 users and a group, 4 keys, 3 environments, 2 rulesets, pages of 3, 2 attempts, 1 late request |
| `acme` | is the reported outcome that of an issuance that ended after this call decided? | `TypeOK`, `OutcomeIsFresh`, `Terminates` | 1 caller, 2 attempts, 2 polls per wait, 1 late request, 2 issuances of others |
| `fields` | does a value mean the same however it is given and shown? | `ReturnsAsGiven`, `SecondRunIsNoop` | 2 callers of one `RtRouteManager`, 3 calls, one field of each type, 11 ways of giving them, 1 edit, 1 upgrade |

**Why the bounds are enough.**  Two attempts are the first number at which a
request can be executed and sent again, and at which the loop can be left by
exhaustion; `http_request` covers longer budgets.  Two callers are the first
number at which a decision is overtaken; the theorem on deduplication covers any
number.  Four records leave room for two copies that exist, the two that two
callers add, in any order of their uuids, and a page smaller than the
collection: in `ensure_survivor` a page of two shows the younger copies only, or,
beside two neighbours, none, so that a caller creates next to a copy it did not see.  One late request is one overtaken write; more only repeat it, as the
effect of the requests is idempotent or is the `add` that the retry covers.  Two
fields distinguish own and foreign fields, or rows and full records.  One poll
per wait distinguishes giving up from going on; `firmware` has a few more, since a
wait there runs through a reboot, and its others' jobs are of two kinds at most: one
that is in the way of the check, and one that is in the way of the verb.  In `acme` one caller is enough: other callers are
issuances of others to it, two of them the first number at which one ends while
another runs.  In `standalone` a second user is what the filtered deletion needs; of
the four keys one or two exist, which leaves free ids for a `create_key` that is sent
again and executed late: with one key to begin with, both the key whose secret was
returned and its orphan fit the page that `AsAsked` speaks of; with two, the fourth is
beyond it.  In `fields` the flag, the secret and the list are in
the row, the text only in the item, so both answers are compared; the third call is a
rerun after both callers wrote.  In `catalogue` two calls are
creation and rerun of one manager, or of two that share an endpoint; no two managers
share a collection (`CollectionAssumption`, evaluated by TLC), and no endpoint loads
one of another module (`Loads`).  Three records are the call's, a neighbour's, and the second copy.

Premises to know.  `NoopIsTrue` is about calls before and during which nobody else ran
any job but checks (`strangers`): any other job may swallow the check, see the findings.
`MajorOnlyWhenAsked` and `ReachedIsSettled` end where somebody else fires a release.
`ReachedIsSettled` is checked for callers whose target is a
release at which they would have nothing more to do (`Aims`, `AimedRequests`): if
the verb they fire leads away from the target, they may be told it is reached while
that verb has not begun.  No two boot environments have one name (`UniquelyNamed`, as ZFS
has it): `ensure("absent")` deletes the first row of the name.  `AsAsked` and `RulesLoaded` are about calls that
no other call is at odds with (`AtOdds`, for two privileges of one type too: each
posts its list over the other's), and `AsAsked` about rows that fit one page
(`OnePage`).  `ReturnsAsGiven` ends at an upgrade after the name of the flag was
cached (`NameIsCurrent`), and excepts a secret that is compared in an answer that
does not show it (`Unseen`).  `OutcomeIsFresh` speaks of renewals and failures that
were reported before the deadline.

`QuiescentIsApplied` holds in `ensure_two`, where each caller calls once, and
fails in `ensure_never_applied`, where a call follows one whose apply failed: the
property is about calls that *returned*, and the second call returns `noop`.

### Findings

One has a run:

* **A saved change may never be applied** (`managers/base.py:515`,
  `ensure_never_applied`).  If the apply fails, the next `ensure()` sees no drift and
  does not apply.

Met while modelling, each to be seen by widening a run as said:

* **A retried create duplicates** (`client.py:525`).  `README.md:132` promises to
  "detect and prevent silent duplication"; the run that created the second copy
  returns, the next one raises `AmbiguousMatchError`.  `OneMatch` states the second
  half; that a store never holds two copies fails in `ensure_one`.
* **A firmware POST that never left is reported as a release being applied**
  (`managers/services/firmware.py:269`), if no target is given: `_fire` takes every
  `OpnsenseConnectionError` for a connection cut after "the request went out".
* **A busy appliance makes a false noop** (`managers/services/firmware.py:93`).
  `check()` posts its job without waiting for the appliance to be idle, as
  `PluginManager` does before it fires.  While another job runs (a plugin's, the
  re-installation after a boot, an update of somebody else) the check comes to nothing,
  the `done` of that job ends the wait, and the status is that of an earlier check,
  `none` after a boot: `ensure()` returns noop although a release is pending.  The
  docstring promises to "run the update check job, wait for it, then return the resolved
  status".  `NoopIsTrue` without `strangers \subseteq {"check"}` is violated in
  `firmware`.
* **Immediate or not** (`managers/firewall/group.py:63`, `managers/firewall/category.py:60`,
  `managers/trust/ca.py:77`, `managers/trust/cert.py:83`).  These classes declare no
  apply since changes "apply immediately"; `docs/api/developer-guide.md:237`, `:238`,
  `:313` and `:314` name `firewall/category/reconfigure`, `firewall/group/reconfigure`
  and `trust/settings/reconfigure` for the same controllers.  If the guide is right,
  `ReportedChangeRuns` fails for all four: in `catalogue` with
  `MCImmediate == GuideImmediate`.
* **An omitted match key makes every run create** (`managers/firewall/filter.py:89`;
  also `shaper/ts_pipe.py` and `shaper/ts_rule.py`).  Direction, protocol, bandwidth
  unit are match keys, documented as optional, and defaulted by the appliance:
  `NoSecondCopy` fails in `catalogue` with `Ways = {"given", "omitted"}`.
* **A stale success past the deadline is reported as a renewal**
  (`managers/acme/certificates.py:186`).  `_wait_for_issue` returns the last certificate
  read when the deadline passes, and `ensure()` then looks at the status only, not at
  the stamp: a renewal that has not begun is reported as `renewed`.  `RenewedIsFresh`
  of `AcmeIssue`, added to `AcmeIssue.cfg`, is violated.  In the same way the wait
  before `sign` goes on to sign at its deadline although an issuance still runs, of
  which the comment at line 167 says "never race it".
* **A list of names loses the other assignees** (`managers/auth/priv.py:159`).  When a
  privilege answers with a plain list, no name has a uuid, and the list posted holds
  the caller's target only: `OthersStay` fails in `standalone` with
  `ListsUuids = FALSE`, which is why it is the premise of the theorem.
* **The cached name of the flag outlives an upgrade**
  (`managers/routing/route.py:177`).  A manager kept across the upgrade to 26.7 sends
  `disabled`, which the appliance ignores, and reports what it did: `ReturnsAsGiven`
  without `NameIsCurrent`.
* **One page of keys** (`managers/auth/api_key.py:208`).  `delete_all_keys` filters the
  page it read and reports done: `AsAsked` without `OnePage`, with `PageSize = 1`.
* A retried `install` fires into the job its first attempt started
  (`managers/services/plugin.py:281`), the same root as the duplicated create; and an
  unlisted 4xx with a JSON body is returned as a success (`client.py:205`), which the
  refinement proof excludes by its premise `ListedOnly`.

### Fairness

`FairSpec` asks weak fairness of each caller's `Step` (of `Client` in
`HttpRequest`, of `ReleaseStep` in `Firmware`) and nothing of the appliance.  The
code justifies it: every await is a request bounded by `httpx.Timeout` or an
`asyncio.sleep`, so it ends with an answer or an exception, and the event loop resumes
the coroutine.  That is why a read that fails, and an answer that is lost, are
disjuncts of `Step`: when the
appliance is silent they are what happens.  `Start` is not fair, nobody has to
call; the end of a job, the boot and the execution of a request are not fair
either, so termination is shown although a job may never end and an appliance may
never come back.

Deadlock is not checked: every model ends when its calls have ended.

## 4. What is proved

All proofs are checked by TLAPS without any assumption beyond the named `ASSUME`s
of the modules, which TLC evaluates.  Most of them type the constants.  Four say more:
`CallAssumption` of `Fields` (lists go to fields the manager normalises, a flag is given
a value, the old name of the flag goes to a manager that translates it),
`CollectionAssumption` of `Reruns` (no two managers keep their records in one
collection), and in `Standalone` `NameAssumption` (names of users and groups do not
clash) and `WorldAssumption` (no two boot environments have one name to begin with).

* **HttpRequestProofs.**  `InvariantHolds`: the inductive invariant relates
  `pc`, `attempt`, `work`, `late` and `executed`; `ExecutionsBounded` alone is not
  inductive, since a lost attempt must be known to have left its place in the
  count.  From it follow `TypeCorrect`, `ExecutionsBoundedHolds`,
  `ExceptionsTruthful` (`FirstRefusalIsFinal` and `RaisedAfterLastAttempt`, through
  the fact that the status map sends listed statuses to refusals and 5xx to none)
  and `RequestImplementsCall`: every step is a step or a stutter of `RemoteCall`.
  The last one assumes `ListedOnly`, that the appliance answers no other 4xx: those
  `_request` returns as successes although nothing need have run.
* **EnsureProofs.**  `TypeCorrect`, step by step of the coroutine.
  `CheckModeHolds`: the strengthening `SilentInv` says that a call in check mode
  stands at no await a POST follows, and that every request the appliance may still
  execute is of an earlier call or of one without check mode.
  `ReportsHold`: the strengthening `TruthInv` says what a caller has sent and what
  was executed at each place (`EffectsInv`): nothing before the search is answered;
  past the duplicates something only if there were any; a write that is being applied
  was executed.
  `ElderAlwaysSurvives`.  The property is not inductive
  because a deletion may be on its way that was decided long ago.  The
  strengthening `SurvivorInv` (in `Ensure`) says that such a deletion is harmless
  wherever it is: a record is *doomed* when a lower uuid ever carried its identity;
  what is in `todo`, in flight or late deletes doomed records only, every record
  found is one that carries the identity, and whatever is missing was doomed.
  The lowest uuid that ever carried an identity is never doomed.  The proof uses
  neither the page size nor the number of callers or attempts.
  `QuiescentHolds`, for any number of callers that call once, under `MaxLate = 0`:
  by `AppliedInv`, while the two configurations differ some call `Owes` a reconfigure,
  which one that raised does for good.  `MaxRuns = 1` makes a caller stand for one
  call, so that a later call does not hide what an earlier one failed to apply: that
  case is the finding of `ensure_never_applied`.  A write executed after its caller
  gave up is applied by nobody, hence `MaxLate = 0`.
  `OnlyAskedDeletesHolds`, for callers that call once and requests however late: by
  `AskedInv`, a record keeps the identities it carried in `ever` (`Owned`), and
  every deletion queued, in flight or late is `Meant`: its caller asked for the
  absence of that record or identity, or deduplicates and the record is doomed.  The
  hypothesis `PresentByKeys` excludes a call that gives another identity to a record
  named by uuid: it takes that record from under a deletion already decided.
  `ConvergedHolds` and `OneMatchHolds`, for any records and any number of lost answers,
  retries and calls in a row.  By `AloneInv` a call knows at each await what there is of
  its identity (`Knows`), asks for just what is missing (`Asks`), finds it done when the
  answer is there (`Wrote`), and leaves it so (`Left`).  The hypotheses are what "nobody
  interferes" means: one caller (`Alone`), no request executed after it was given
  up (`MaxLate = 0`), a page that holds every record (`WholePage`).
* **SettingsProofs.**  `TypeCorrect` (with the place of each kind of call and what
  it has in flight there) and `OwnFieldsAlwaysStay`.  The strengthening
  `FieldInv`: every set in flight or late carries the params of a started call
  (`Backed`), hence moves an undisputed field only to the value its owner wants,
  and from the execution of its set on a call finds its fields (`Kept`).
  `QuietHolds` builds on it: by `LoadInv` the document runs ahead of the daemon only
  while some call is due to reconfigure it or failed to (`Due`); a set executed late
  changes nothing once its call found its fields (`LateSetSettled`).  `ReportsHold`:
  by `EffectsInv` a caller leaves no trace, not even late, before it sends.
* **FirmwareProofs.**  Of `Plugin`, `TypeCorrect` and `ReportedHolds`.  The
  strengthening `RealInv`: every job that runs or may still be started was asked for by
  some call (`Asked`), so an undisputed package moves one way only, and the cached list
  that lags behind it cannot show what is wanted before it is so.
  Of `Firmware`, for any releases in any order: `ReleaseTypeCorrect`.  All three
  theorems are about an appliance on which others run jobs before and during the call.
  `NoopHolds`, by `FreshInv`: while these are checks, only checks run until the call fires
  a release, so the appliance stays on its version, and whichever check swallowed the
  call's tells what is pending there.  `MajorHolds`, by `MajorInv`: a major upgrade in
  flight, running or abandoned was asked for, or a stranger's.
  `ReachedHolds`, by `ReachedInv`: once on the target the appliance stays there, since
  nothing this call fired is what is pending there, which is the hypothesis `Aimed`
  (every request `Aims`), and nobody else fired a release.
* **RerunsProofs.**  For any set of declarations and any number of calls:
  `TypeCorrect`; `OthersStayHolds`, since what is found carries all the keys looked
  for; `NoSecondCopyHolds` under `WellDeclared` (no match key is left to the
  appliance, and a key searched by display text has a required one before it, or
  `list()` asks for everything); `ReportedChangeRunsHolds` under `WellApplied` (the
  declared apply loads the collection, or the service's does to which it is handed, or
  none is needed).  `NoSecondCopy` needs the
  strengthening `CreatesFirst`: a caller about to create has seen no record of its
  own.  That rests on the lemma `CreatedIsAnswered`: a validated rerun's search
  answers what the create stored, which is where `WellDeclared` is used.  The theorems
  thus reduce the two properties to conditions on declarations one class at a time;
  the run `catalogue` shows the properties themselves on the real declarations.

* **StandaloneProofs.**  `TypeCorrect`, and `OthersStayHolds` under `ListsUuids`.  The
  strengthening `BackInv`: every request a caller has in flight or still to post, and
  every one the appliance may yet run, is backed by a started call that is no dry run
  and names its object (`Backed`); for a deletion of a row also that the row was that
  user's, or had that name, which stays true since an id is given out once.
  The type invariant `TypeInv` carries `UniquelyNamed` along, since an environment is
  created only under a free name; so the one row `Finds` picks is all there is to delete.
  `AsAskedHolds`: by `AskedInv`, the requests in a call's hands, and its late ones,
  are its `Own`, and a call nobody is at odds with is `Near`: what is missing from the
  world it asked for is among the requests it still has in hand.  That the
  appliance gives out finitely many ids is what makes a page that is not full the whole
  list.  `RulesLoadedHolds`: by `LoadInv`, a ruleset toggled and not yet loaded has a
  reload on its way (`Reloads`), provided the IDS ran what was saved to begin with.
* **AcmeIssueProofs.**  `TypeCorrect`, with the place at which each kind of call may
  stand, and `NeverStale`.  The strengthening `FreshInv` (`Watched`): while a caller
  waits, either the stamp is still the one it read, or every terminal status it may
  meet is among the endings since.
* **FieldsProofs.**  `TypeCorrect`, `AsGivenHolds` and `SecondRunWritesNothing`, for any
  fields and any ways of giving them.  The invariant `FieldsInv` (in `Fields`): what a
  caller sends is what it was given under one name of the flag, valid, and what stands
  differs from neither answer.  The lemmas are what a reviewer of `diff.py` would ask
  for: `RowDifference` and `ItemDifference` (what each comparison means),
  `RowSpeaks` (a row that carries all that is asked speaks for the item),
  `WrittenAgrees` (what is written is shown as equal), `TwiceRenamed` and `TwicePlain`
  (a second translation changes the name of the flag and nothing else) and
  `MeansGiven` (a record that agrees with what was sent has what was given).  They
  hold for each value of `Translates`; the run has `"device"`.

`RaisedAfterLastAttempt` is proved and in no run.  Every safety and action property
of the passing runs is stated by a theorem, under the hypotheses named above.
Model-checked only: liveness (`Settles`, `Terminates`, `ReleaseTerminates`), because
TLAPS reasons about neither fairness nor `ENABLED`; and that `NoSecondCopy` and
`ReportedChangeRuns` hold of the real declarations (`catalogue`), of which the theorems
make conditions, one declaration at a time.
There are no recursive operators in the modules.

## 5. What is not modelled, and the plan

Left out for good: URL building, log formatting, redaction (a pure function that
logs and reports use), typed dictionaries, the protocol class, reading credentials,
the diagnostics reads of Unbound (no state, no control flow), the checks of one
string in `core/validation.py` and `validators.py`, the service managers (declarations
of `BaseServiceManager`), the verbs of a certificate that are one POST each, the lab
and release scripts and the OpenAPI files outside the package.

Next, in this order:

1. `WaitForReady` and `Rebuild`: `wait_for_ready` over the statuses of `HttpRequest`,
   then `Firmware` and `Plugin` callers on one `FirmwareJobs`; two of the hazards
   without a property (`client.py:627`, `managers/services/firmware.py:154`) are about
   these statuses.
2. In `Fields`, nested blocks (`compute_diff` recursing) and dictionaries
   `{"selected": ...}`.
3. In `Catalogue`, the update verb (`_update_action`: the ACME controllers accept
   `set` and change nothing).

Next theorems: `Converged` and `OneMatch` for several callers, each with an identity of
its own (what one does to the others' records has to be bounded first);
`QuiescentIsApplied` for callers that call again, as long as none raised, which needs
a history of the calls that did; and those of the planned modules.

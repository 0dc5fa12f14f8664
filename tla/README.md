# baton-slack-enterprise in TLA+

A specification of the parts of `baton-slack-enterprise` whose correctness is hard to see in the
code or to test: how the connector reads and changes memberships and roles in Slack while other
tasks, administrators, failures and restarts interfere, and how its listings hold together while
the listed data changes. The specifications are checked with TLC on small instances and proved with
TLAPS for all values of their parameters; only liveness is left to TLC alone, and what makes it true
is proved.

## 1. The system

The connector is a Go program between ConductorOne (C1) and a Slack Enterprise Grid organization.
It is run by the vendored `baton-sdk`, which

- takes tasks from C1 and runs several of them at once, each in a goroutine
  (`connectorrunner/runner.go`); a task is one grant, one revoke, one sync, ...;
- runs a Grant or Revoke handler again when it fails with `Unavailable` or `DeadlineExceeded`, up
  to a number of attempts (`connectorbuilder/resource_provisioner.go`, `retry/retry.go`);
- drives a sync: lists every resource type page by page, then the grants of each resource, saving
  its plan in checkpoints and going on from them after a restart (`sync/syncer.go`);
- runs an action (`enable_user`, `disable_user`) in a goroutine that outlives the request that
  invoked it, and keeps a record of it that C1 polls (`actions/actions.go`);
- gives the connector an HTTP client with a cache: the answer to a GET is kept for up to an hour
  and no write drops it (`uhttp/wrapper.go`, `uhttp/gocache.go`).

The connector's handlers keep no state of their own. All state is in Slack, in the HTTP cache, in
the syncer's plan and session store, in the records of actions and in what a handler holds between
two of its calls. That is where things go
wrong, and it is what the modules have as variables.

### Components

| component | source | state | operations | what is hard | modelled |
|---|---|---|---|---|---|
| IDP group membership | `group.go`, `client/slack.go` | members in Slack, cached GET, the list a handler holds | Grant (PATCH add), Revoke (GET, PATCH replace), Grants (GET) | a list written back may be old: cache, concurrent tasks, lost answers | yes: `IdpGroup` |
| User group membership | `user_group.go` | members in Slack, the list a handler holds | Grant and Revoke: read all, write all | read and write are two calls | yes: `UserGroup` |
| Workspace membership and roles | `workspace.go`, `roles.go`, `client/path.go` | a user's standing, C1's last listing | Grant, Revoke, emitting grants | overlapping grants of one standing, stale listings | yes: `WorkspaceAccess` |
| Enterprise role sync | `enterprise_roles.go`, `pkg/helpers.go` | page tokens, the plan and its checkpoint, the store | List, Grants | data that changes between pages; resumption | yes: `EnterpriseRoleSync` |
| Enterprise role assignment | `enterprise_roles.go`, `client/slack.go` | assignments per entity, the user's team | Grant, Revoke: look up the team, change | the team changes; partial rejection | yes: `EnterpriseRoleAccess` |
| SCIM listing of users and groups | `user.go`, `group.go` | the index to go on from, cached pages | List | indices move while the listing runs | yes: `ScimListing` |
| Workspace sync | `workspace.go`, `roles.go`, `user_group.go` | page tokens, the plan and its checkpoint, session store of workspace names, the store | List, Entitlements, Grants | what one phase puts and a later one reads; groups and users that change between pages | yes: `WorkspaceSync` |
| Account creation | `user.go`, `client/slack.go` | accounts in Slack | CreateAccount: invite, then look up | first step done, second fails; two tasks for one person, for one workspace or two; the lookup knows no workspace | yes: `Accounts` |
| Actions | `actions.go`, `client/slack.go` | accounts in Slack | enable, disable a user | lost answers; the race with a cancelled request | yes: `Accounts` |
| SDK: action manager | `vendor/.../pkg/actions` | the records, their locks | invoke, wait, cancel, settle, poll | handler and cancellation settle one record | as `Accounts` needs it |
| Slack error mapping | `client/helpers.go` | none | error string to code | which errors count as success, retry, warning | by its outcomes |
| HTTP requests | `client/request.go` | none | one call | answers that are lost or unreadable | by its outcomes |
| Set-up | `connector.go`, `config.go` | none that changes | once, at start | - | parameters of the modules |
| Resource and API types | `resource_types.go`, `client/models.go`, ... | none | - | - | no behaviour |
| SDK: cache, runner, retryer, syncer | `vendor/.../baton-sdk` | cache, slots, attempts, plan | see above | they set the interleavings | as far as the components above need them |

### What makes them correct

- A membership changes only for users somebody named in a grant, in a revoke or by hand.
- A task that reports success, `GrantAlreadyExists` and `GrantAlreadyRevoked` included, had its
  effect while it ran.
- A handler works on lists, and on a team, of its own time, not on older ones.
- A revoke takes away and never gives, as long as no administrator interferes; with an HTTP cache that
  does not hold for the SCIM groups (section 6).
- What a sync brings is a snapshot: nothing that was never there, and, when it ends, everything that
  was there all the time. C1 takes what a sync does not emit for deleted (`BUGBOT.md:124`). The SCIM
  listings cannot promise that: what they miss is bounded by what was removed. And a sync ends.
- A task ends, however often its calls fail.
- C1 is told one outcome of an action, for good and a true one. A task that reports an account as
  created has taken the person into the workspace itself.
- In GovSlack, SCIM groups are read only.

## 2. The modules

All modules have the same shape: one action per remote call or environment step, `Observe` (where
there is one) to record for each running task what Slack's state has been since it began, `Spec`,
and `FairSpec` where a liveness property needs it. A *worker* is a slot of the task runner. `pc[w]`
is the next call of its handler; what happens between two remote calls is local and happens in one
step. Operators named `X_Something` are deliberately wrong variants of `X`; the specifications do
not use them, and each invariant has been checked to fail when one of them takes `X`'s place.

**`Membership`** - the abstract specification: a list of members and requests that name one user.
Whoever changes the list carries out one request: on the list as it is if the server does that
itself (`InPlace`), else on some list the group has had. `IdpGroup` implements it with grants in
place (`PATCH add`) and revokes on a list read before (`replace`); `UserGroup` with neither in
place. With everything in place it is an atomic list: that is what serial tasks, and grants alone,
implement. It rules out lists made up of several old ones, half-done writes, and changes nobody
asked for, under concurrency, retries, lost answers and crashes.

**`Snapshot`** - the abstract specification of a sync: facts begin and end, the sync stores some of
those that hold at the moment, and may end when it has all that held from its beginning on. A crash
takes an ended sync back at most, and what is stored stays. `EnterpriseRoleSync` implements it with
roles and their assignments, `WorkspaceSync` three times, with its tables of workspaces, of grants and
of memberships. Pages, calls, phases and checkpoints are below it.

**`InvokedActions`** - the abstract specification of connector actions, as C1 sees them: each comes to
one outcome, once, to success only if what it asks for has been so, and each answer about it is that
outcome, or "open" as long as there is none. `Accounts` implements it. Requests, records, handlers and
their races are below it.

**`IdpGroup`** - one SCIM group. `Start` is the entry of Grant, Revoke or Grants with its guards
(`Refused`: GovSlack, principals that are not users). A grant has one call, `add`. A revoke, and
Grants, go through `Lookup` (cache), `Get` (on a miss), `Store` (the response is cached again, hit
or miss; then the handler reads it) and, for a revoke whose user is on the list, `replace`. `Patch`
and `PatchReplyLost` are the effect of a PATCH with and without its answer; `CallUnavailable` and
`CallRejected` are calls without effect. `DropEntry` is expiry, eviction and `ClearCaches`; `Crash`
loses the running tasks and the cache; `AdminEdit` is somebody in Slack. `config` is the
configuration: GovSlack or not, cache or not.

**`UserGroup`** - one user group: `Read` (members of the moment, then "nothing to do" or the whole
new list) and `Write`. The reads are POSTs and are never cached. `AdminToggle` disables the group,
which makes the calls answer `no_such_subteam` (`NoSuchSubteam`).

**`WorkspaceAccess`** - one workspace. A user has one `standing`; `Flags`, `EmittedRoles` and
`Emitted` are the translation of Slack's flags to grants in `Workspace.Grants`, `Call` the
translation of a grant back to one Slack call in `roles.go`, `workspace.go` and `path.go`. `Sync`
copies the grants to `listed`, from which `Start` takes its tasks: C1 revokes what it knows, also
when it is out of date. `Unknown`, `AlreadyThere` and `Protected` are Slack's answers.

**`EnterpriseRoleSync`** - one sync of the enterprise roles. Assignments are numbered in Slack's
order, a cursor is the number of the last one of the page, pages may be short or empty (`Lasts`).
`ListPage` is one call of List (`found` is the map in the page token), `GrantsPage` and
`OrgRoleGrants` one of Grants; `plan` is the syncer's, `Checkpoint` saves it, `Crash` goes back to
the saved one while the store keeps what it has. The facts of the snapshot (`FactsOf`) are pairs of a
known role and an assignment of it, and the roles of the organization; a grant counts as stored
(`InStore`) only if its role is.

**`EnterpriseRoleAccess`** - Grant and Revoke of an enterprise role: `Info` (the team of the
profile), then `Change` at that team, or `ChangeRejectedOk`, an answer that is ok and lists the user
under `rejected_users`. An assignment is a pair of a user and an entity; the entity may be another
one than the user's team.

**`ScimListing`** - the listing by index of users and of groups. A page token is the index of the
next page; `Answers` is a GET through the cache; `MoreUsers` and `MoreGroups` are the two handlers'
tests for another page. `Add` and `Remove` move the entries behind. `Interrupt` gives the sync up,
or goes back to the checkpoint. A removal takes entries from a listing that stay in the directory, so
that the listing is no `Snapshot`; how many is what `MissesBounded` says.

**`WorkspaceSync`** - one sync of the workspaces. The plan is a set of calls and the phase they
belong to. `WorkspacesPage` puts names in the session store and asks for the roles and groups of each
workspace of the page (`ListRoles`, `ListGroups`); `NextPhase` plans the entitlements of the roles
(`RoleEntitlements` needs the name), then the grants (`UsersPage`, page by page; `MembersCall`, where
a group that is gone is a warning to the syncer), then seals the sync and clears the names. A call
for a workspace that is gone is not enabled: its error is neither a warning nor retried, and the sync
fails. `Checkpoint`, `Crash` and the store are as in `EnterpriseRoleSync`; `Edit...` and `Toggle...`
change Slack. What there is to tell of the users at a moment is `Standing` and `Belonging`; the
histories `kept`, `steady` and `loyal` have what has held since the sync began, entitlement by
entitlement: a guest who becomes a member keeps the grant of the workspace and changes that of the
role.

**`Accounts`** - the accounts of people. An invocation of an action has a request (`call`), a handler
in its own goroutine and a record (`status`, `cancelled`), as in the SDK's action manager:
`SetCancelled` and `SetOutcome` are its critical sections, `ReadAfterCancel` the read under the lock
after the first of them, `Return` the answer after the handler or the inline wait, `Poll` C1's
question. A person has an account of the organization (`account`) and belongs to some of its
workspaces (`teams`). The profile of a creation names a person and one workspace: `Invites` takes the
person into it, unless the person is there, and makes the account only of one who has none; `LookUp`
finds the account by mail, in whatever workspaces it is by then. Neither call is made again by the
SDK, and a creation that failed after the invitation stays so. The history `made` says of each
creation whether its invitation made a membership and whether that stands. `AdminEdit`, `Joins` and
`Leaves` are administrators, and the connector's grants and revokes of workspaces. `Crash` loses the
records and leaves what was done.

`MC*` modules give the parameters values for TLC. `*Proofs` modules hold the theorems.

## 3. The runs

All runs set `CHECK_DEADLOCK FALSE`: tasks, edits, syncs and crashes are bounded, so that every
behaviour may come to rest.

| run | what it shows |
|---|---|
| `IdpGroupTasks` | two workers, two tasks, three users and a principal that is none, one edit, in three configurations (cached, uncached, GovSlack). `BystandersKept`: users nobody named are members exactly if they were at the start, and so say all lists held or cached. `OkIsApplied`: success means the effect was there during the task. `ReadsAreFresh`, `AlreadyRevokedIsTrue`: with the cache off, lists and "already revoked" are of the task's time. `GovReadOnly`. `ImplementsMembership`: the refinement. `TaskEnds`. |
| `IdpGroupStaleWrite` (violation) | see section 6. |
| `UserGroupTasks` | two workers, two tasks, an edit: `WritesAreRecent`, `SuccessIsReal`, `BystandersKept`, `ImplementsMembership`, `TaskEnds`. |
| `WorkspaceTasks` | one user of any standing, two workers, an edit, syncs at any time: `GrantTakesEffect`, `RevokeTakesEffect` (for the entitlements there is a call for), `RevokeNeverPromotes` (as long as no administrator interferes). |
| `WorkspaceOtherRoles` (violation) | see section 6. |
| `EnterpriseSync` | four assignments of three roles, one of them unknown to the connector, two of the same role on different pages, pages of at most two; an edit, a crash, any checkpoints: `ImplementsSnapshot` (a sync that ends has what was there all the time, and no grant without its role), `EmittedOnce`, `SyncEnds`. |
| `EnterpriseTasks` | one user, two teams and another entity, two workers, an edit, rejections: `TeamIsRecent`, `GrantTakesEffect`, `RevokeTakesEffectAtTeam`. |
| `EnterpriseRejected`, `EnterpriseOtherEntity` (violations) | see section 6. |
| `ScimListings` | six entries and one more to come, two removals, pages of two, two syncs; users through the cache with new entries last, groups without cache and with new entries anywhere: `MissesBounded` (one entry for each removed; with cached pages, one for each removed and each edge between two pages), `SyncEnds`. |
| `WorkspaceSync` | two workspaces on two pages, each with two users on two pages, a user group of the second; any change in Slack (a user becomes or ceases to be a guest, member or stranger, a member joins or leaves, the group is disabled, a workspace goes), a crash, any checkpoints: `NamesAreKnown`, `NothingMissed`, `ImplementsSnapshots` (the three tables), `OneRoleEach` (as long as no crash makes pages come twice), `SyncEnds` (unless a listed workspace goes). |
| `Accounts` | one person, in any of two workspaces or none, an action and two creations, for one workspace or both, two edits (of the account, or moves), crashes: `HandlersOutcomeStands`, `ImplementsActions`, `CompleteIsReal`, `CreatedByOwnInvitation` (no membership of others is answered as the new account, however the tasks, a lost answer, a crash and moves interleave), `ActionsSettle`. |

### Bounds, and why they are enough

- *Workers*: two. The handlers interfere pairwise, over one list; a third worker adds nothing that
  an administrator's edit between two calls does not do. The proofs have any number.
- *Tasks*: two, or three with one worker in `IdpGroupStaleWrite` (a revoke to fill the cache, a task
  that changes the group, a revoke that reads the old list). With two workers an edit takes the part
  of the third task.
- *Users*: three, of whom two are members, so that there is always one that nobody names; one where
  no step for one user reads or writes anything of another (`WorkspaceAccess`,
  `EnterpriseRoleAccess`).
- *Attempts*: one retry: the handler starts afresh each time, so that
  the second retry is in the same states as the first but for the counter.
- *Pages of two*: a page that is full, short, last and full, and last and short all occur. In
  `WorkspaceSync` pages of one, so that two listings have two pages each. `ScimListing` has up to four
  pages, because cached and live pages by turns lose an entry at each edge, which needs four.
- *One invocation*: records of actions are separate; an action meets the creations, and edits, on the
  one account. Two edits let an account be made and disabled, or changed twice, beside an action;
  or take a person out of the workspace between two creations, so that both succeed in turn.
- *Workspaces of `Accounts`*: two, so that two creations are for the same or for different ones, and
  a person is invited who has an account in another.
- *Edits and crashes*: one or two; the bound is in the guard of the action (`MaxEdits`,
  `MaxCrashes`, `MaxAdds`, `MaxRemovals`, `MaxSyncs`, `MaxTasks`).

Workers are symmetric; symmetry is used in the runs without liveness.

### Fairness

`FairSpec` of `IdpGroup` and `UserGroup` has weak fairness of each worker's step: goroutines are
scheduled and an HTTP call returns in the end, with an answer or an error (the client has a
timeout). It does not say with which, so that a task may fail over and over: `TaskEnds` rests on the
retryer's counter. `EnterpriseRoleSync` has weak fairness of the syncer's step (it asks for the
next page while there is one), `ScimListing` of `ListPage`; the latter may be interrupted for ever,
which `SyncEnds` excepts. `WorkspaceSync` has weak fairness of the syncer's step: the syncer's
retryer makes a call that failed for the moment again, without a limit of attempts. `Accounts` has
weak fairness of each request (its inline wait is a timer of at most an hour), of each handler (its
context ends after an hour, the HTTP call with the client's timeout) and of each creation. Nothing
is assumed of new tasks, cancellations, polls, edits, checkpoints or crashes.

## 4. What is proved

Proofs are for all values of the parameters that satisfy the named `ASSUME` of the module
(distinct kinds of principals, natural bounds, a page size above zero, ...).

`IdpGroupProofs`
- `TypeCorrect`: `TypeOK` with `TasksInFlight`. Neither is inductive alone: that a PATCH leaves
  users only in the group needs that the worker is past its guards and works for a request made.
- `BystandersAreKept`. The invariant speaks of all lists there are, in Slack, in the cache and in
  the handlers (`Keeps`): each of them may become the group's list by a later `replace`.
- `OkIsAlwaysApplied`: lemma `OutcomeComes` tells by which steps a busy worker gets an outcome.
- `UncachedReadsAreFresh`: by `NoEntry`, without the cache there is no entry.
- `GovIsReadOnly`: by `GovSyncsOnly`, in GovSlack only syncs get past the guards.
- `TasksStayInFlight`; `UncachedAlreadyRevoked`.
- `TasksRunOut`, the safety half of `TaskEnds`: a task has at most `4 * MaxAttempts + 4` steps left,
  each of its steps leaves it fewer, and no step of others leaves it more.
- `GroupImplementsMembership`: each change is by an administrator or is a request carried out, in
  place or on a list the group has had. By `ListsWereReal` each list in the cache and in the
  handlers is one the group has had, and by `TasksInFlight` the request of a busy worker was made.
- `GrantsAreAtomic`: if no task is a revoke, any number of workers, with the cache and with edits,
  implements the atomic list.

`UserGroupProofs`
- `TypeCorrect`, `BystandersAreKept`, `SuccessIsAlwaysReal`.
- `WritesAreAlwaysRecent`: a list about to be written is the request carried out on a list of the
  task's own time, with any number of workers.
- `GroupImplementsMembership`, as above with neither request in place; `TasksStayInFlight`;
  `TasksRunOut`, with two calls for each attempt.
- `SerialTasksAreAtomic`: one worker and no edits implement the atomic list; the invariant is that
  the list held is the request carried out on the present list, or would change nothing.

`WorkspaceAccessProofs`
- `TypeCorrect`, `GrantsTakeEffect`, `RevokesAlwaysTakeEffect`. A step leaves a worker as it is,
  begins a task there or ends one (lemma `StepOfWorker`); by `InCall` the history of a worker whose
  call is under way has the standing of its user now, from which the outcome follows.
- `RevokesNeverPromote`: by `WasRanked`, whoever is listed as an owner or admin, or is about to lose
  that, has since come only to standings that "regular" does not add to, as long as only tasks change
  Slack.

`EnterpriseRoleAccessProofs`
- `TypeCorrect`, `TeamIsAlwaysRecent`, `GrantsTakeEffect`, `RevokesTakeEffectAtTeam`: the same
  argument, with `InTask` (the history has the assignments and teams of now) and the team a worker
  holds as one its history has.

`EnterpriseRoleSyncProofs`
- `TypeCorrect`, `NothingIsMissed` and `RolesAreEmittedOnce`. The invariant says of the plan, and of
  the saved one, that what lies before its cursors is in the store (`Sound`): a crash replaces one by
  the other, and the store only grows.
- `SyncImplementsSnapshot`: a page stores facts of the moment, by `Rooted` none without its role (the
  grants to ask for, of the plan and of the saved one, are of stored roles), and by `Sound` the sync
  ends with all that held throughout. Edits change the facts and the history alike.
- `SyncGoesOn`, the safety half of `SyncEnds`: every call has a page to ask for, and takes the plan
  nearer to its end, in an order (`Nearer`) without circles; only a crash goes back.

`ScimListingProofs`
- `HandlersAgree`: the two handlers' tests for another page are the same for all indices and totals.
- `TypeCorrect`.
- `MissesAreBounded`, if new entries come last or there is no cache. The invariant `Counting` counts,
  at the index and at the checkpoint's, the entries there all the time that lie behind without being
  stored, and for each cached page what has moved onto it since it was read. A removal adds one to each
  of these at most. A bound of one miss for each removal, cache or not, looks right and is false: TLC
  finds a listing whose pages are cached and live by turns, in which one removal takes an entry at each
  edge from a cached page to a live one.
- `NothingIsMissed`: without removals a listing that ends has everything there all the time.
- `ListingGoesOn`, the safety half of `SyncEnds`: a page leads to a greater index, and never beyond the
  most entries the directory may have; by `TotalsBounded` cached totals are no greater.

`WorkspaceSyncProofs`
- `TypeCorrect`.
- `NamesAreAlwaysKnown`: by `Named`, the names of the roles in the store, and of those still to be
  listed by the plan or by the saved plan, are in the session store. The saved plan is needed: after
  a crash it lists roles of workspaces that pages before the crash named.
- `NothingIsMissed`: by `Sound`, of the plan and of the saved plan, every workspace, entitlement and
  membership that has held is on a page to come, or is what the calls made have stored and the calls
  to make will. An edit takes what it ends out of the history, and nothing else.
- `OneRoleEachAlways`: by `ReadOnce`, as long as nothing has crashed, no user beyond the cursor of its
  workspace has a grant yet.
- `SyncImplementsSnapshots`: each step is one of `Snapshot`, for each of the three tables, or leaves
  the table alone.
- `StoreIsAlwaysClosed`: roles, groups and grants in the store are of workspaces in the store,
  memberships of groups in the store (`Closed`, which says so of the calls to make, too). That a sync
  that ends has the roles of all its workspaces is true only if nothing crashed: a workspace may be
  listed, go while a crash takes the plan back over its page, and come back before its users are read,
  whose grants are then stored without its roles; TLC finds this with one crash and two edits.
- `SyncGoesOn`: as long as the listed workspaces are there every call of the plan can be made
  (`NoCallIsStuck`: the workspace is there, the name is known, the cursor has a page), each takes the
  plan nearer to its end, and only a crash goes back.

`AccountsProofs`
- `TypeCorrect`, `HandlersOutcomeAlwaysStands`, `SettledAnswersAlwaysAgree`, `CompleteIsAlwaysReal`,
  `AccountsAreCreatedByOwnInvitation`, from one invariant (`IInv`): how far request, handler, record
  and C1 may be apart. A record is provisionally failed only before its handler has ended, and C1 has
  not been told of it then; a final status comes from the handler only. Of the creations: whoever
  looks an account up has made a membership, which is there as long as it stands (`CreationFacts`),
  and no two tasks made the same one (`MadeOnce`), for any number of workspaces.
- `AccountsImplementActions`: with the same invariant, the outcome of the abstract action is what its
  handler publishes, and every answer is given of a record that says so, or of one still open. The
  critical section of the handler and the read under the lock after a cancellation are the steps it
  rests on.

Only model-checked: the liveness properties (`TaskEnds`, `SyncEnds`, `ActionsSettle`). They speak of
fairness, and so of `ENABLED`, which the provers do not reason about, and they need induction along an
order, whose rule takes an operator as a parameter. What is proved of them is that a step leads
nearer to the end (`TasksRunOut`, `SyncGoesOn`, `ListingGoesOn`), and for the syncs that no call of a
plan is stuck. All other properties of the runs that pass are stated by theorems.

## 5. Assumptions about what is outside

- Slack carries a call out at one moment, wholly or not at all, and answers afterwards.
- `PATCH add` of a member is no error; `replace` puts the list it is sent.
- SCIM listings honour `count`, and have one order that edits only shift.
- `admin.roles.listAssignments`, the list of workspaces and `users.list` have one order; a cursor goes
  on behind the last entry of its page.
- Slack takes a person who is invited into the workspace, and refuses the invitation to a workspace
  the person is in. It has one account for a mail, which an invitation to another workspace leaves as
  it is.
- Slack's Web API reports a missing object in the body, not by status 404.
- An owner has Slack's admin flag too, a primary owner both; the primary owner and bots are not
  changed by calls.

## 6. What the checks found

Each is the violation run named, with the text it contradicts.

- `IdpGroupStaleWrite`: `RemoveUserFromGroup` writes back a list that may come from the cache: of two
  revokes, one after the other, the second brings back the user the first one removed, or a revoke
  undoes a grant made since the list was read (`client/slack.go:598`). One worker does it, without a
  sync: the list is the one the first revoke read, which stays in the cache for up to an hour unless a
  sync ends before. For the same reason a revoke may answer `GrantAlreadyRevoked` of a user who is a
  member (`client/slack.go:614`).
- `WorkspaceOtherRoles`: the revoke of a role without a call reports success (`roles.go:260`).
- `EnterpriseRejected`: `rejected_users` is read only when the request failed
  (`client/slack.go:823`), so that a rejected grant reports success.
- `EnterpriseOtherEntity`: Grants emits an assignment at any entity, Revoke takes it away at the
  user's team only (`enterprise_roles.go:313`), and reports success.

Seen while modelling, without a run of its own: a revoke from a disabled user group, or of the
enterprise role of a user that is gone, fails (`user_group.go:244`, `enterprise_roles.go:315`), where
`CHANGE_TYPES.md:216` has a revoke of what is gone succeed; the comment at `client/slack.go:24` that
`no_such_subteam` should be retried is not what `helpers.go:141` does: it becomes `NotFound`, which
nothing retries. A creation whose lookup fails can never succeed later, because its invitation is
refused from then on (`user.go:237`). An account answered as created may have been there before, in
another workspace, and the person may have left the workspace it is answered in between the
invitation and the lookup, which asks for the mail only. A revoke of `admin` sets the role without
reading the user first: of one whom an administrator made a guest since the last sync it makes a
member (`roles.go:264`); `RevokeNeverPromotes` excepts edits.

## 7. Not modelled

- Wording of errors and logs, annotations, URL and body building, rate-limit waiting times, size
  limits and keys of the cache, the storage of C1's file.
- The table of Slack's error strings (`MapSlackErrorToGRPCCode`): a constant table. The models have the
  outcomes the handlers tell apart: unavailable, not found, already there, rejected.
- The syncer's targeted syncs, its ledgered mode, grant expansion, and the limit of warnings, which is
  reached only by more than ten groups that go in one sync.
- The flags that leave out whole resource types (`GovEnv`, skipped roles) are parameters
  (`config`, `RolesSkipped`, `Configs`), not state: `New`, `NewSlack`, `Validate` and the
  configuration run once.
- The action manager's secret results, registration and clean-up of old records (over a thousand).
- Constant tables, JSON types, the mock client and generated code: no behaviour.

## 8. Plan

All components with changing state are modelled, and their safety properties proved. What is left, in
this order:

1. What C1 believes after its tasks: owner then admin granted to one user (`roles.go:210`), the admin
   role revoked from an owner (`roles.go:262`). `WorkspaceAccess` has the steps; a property needs
   C1's own view of grants between two syncs.
2. Abstract specifications of `WorkspaceAccess` and `EnterpriseRoleAccess`, in the manner of
   `Membership`, and proofs that they implement them.
3. A SCIM server that gives short pages (`group.go:128`); several groups that share the cache and one
   `ClearCaches`.
4. The table of error strings as a pure function, checked against what each handler tells apart.

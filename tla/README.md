# Formal models of chat-with-cli

chat-with-cli connects an MCP client (a chat assistant) to a workstation. A
**Relay** on a server terminates MCP and OAuth; an **Agent** on the workstation
dials out to the Relay over a WebSocket and runs tool calls in its **Engine**.
What must be right is authority: who may run what on which device, that a
withdrawal of authority takes effect and survives every failure, and that
nothing keeps running behind it. Around it stand the accounts and their quotas
on the Relay, and on the workstation the credentials, the files a call changes,
the control of the desktop, and the installation itself.

The TLA+ modules here model the parts of the program that carry this logic,
translated from the Go source (`src/`). TLC checks them on small instances and
TLAPS proves theorems for all values of the constants. `PROJECT.json` lists the
runs, the mapping of every definition to source lines, the findings, the hazards
and the theorems.

## Inventory

| Component | Source | State | Operations | Hard behaviour | Must hold |
|---|---|---|---|---|---|
| Durable authorization store | `oauthserver/server.go` (save and load), `state_guard.go` | maps of tokens, clients, devices, users; `oauth-state.json`; `oauth-state.guard`; `persistenceFault` | save transaction, rollback, recovery save, load | failure of each I/O step, crash and power loss between steps | an acknowledged withdrawal is final; what serves is durable |
| OAuth grants and token families | `oauthserver/server.go`, `admin.go`, `account.go` | pending requests, codes, access, refresh and rotated tokens, device owners | authorize, decide, exchange, rotate, replay, revoke, administrator and account actions | races between a decision and a withdrawal; replay; forgotten records | one good refresh token per family; nothing ended comes back |
| Users, sessions, invites | `identity.go`, `account.go`, `invite.go`, `admin.go`, `web.go` | users, sessions, ephemeral sessions, invites | set-up, registration, login, re-authentication, password change, the administrator's actions | password checked outside the lock; consumption and rollback; actions while a save is in doubt | sessions are current; an administrator remains |
| Usage quotas | `usage.go` | per-user records, gates, own state file | admission, accounting, checkpoint, grant, redeem | limits crossed while a call runs; crash between checkpoints | a code pays once, a payment is kept |
| Challenges and device proofs | `oauthserver/server.go`, `deviceidentity` | MAC keys, consumed challenges, registered clients, retired devices | challenge, registration, proof on authorization and connection | single use within a capacity, expiry, retirement under way | a retired device has no client |
| Request and login limits | `limits.go`, `identity.go` | rate windows, password slots | allow, take and return a slot | a full table, fixed windows | the burst is bounded |
| Broker | `relay/broker.go`, `authzctx` | peers by device, pending calls per peer, call slots | accept, replace, close, call, revalidate, disconnect | concurrent connections and calls, stray answers, revocation in flight | an answer is from the device asked; nothing is left behind |
| Agent connection loop | `agent/client.go` | connection, token, running calls | connect, serve, end of the remote session | rejected credential against lost connection | work of a refused credential has ended |
| OAuth client of the Agent | `oauthclient` | credential file, lock | login, token (refresh), forget, logout | two processes, rotation with a lost answer | no process ends another's session |
| Task manager | `engine/task.go`, `engine/engine.go` | active tasks, slots, history, kill-switch latch | start, wait, stop, stop all, restart | goroutines of a task against the kill switch and the session end | the kill switch and the session end leave nothing running |
| Task log | `engine/task.go` | PTY, log file, cap | copy, read, EOF | readers against writer and closer | EOF is final and told |
| Files and checkpoints | `engine/files.go`, `path_secure_*.go` | files under the roots | read, conditional write, patch, move, delete | concurrent writers, exchange and rollback, cancellation | no content is destroyed that the call did not expect |
| Desktop portal and input | `engine/portal_input.go`, `computer.go` | portal session, restore token, D-Bus connection | open, act, close | closing while in use, canceled requests that took effect | no control after the session, no stray session |
| Semantic desktop calls | `engine/accessibility.go` | none between calls | walk, judge, act | a tree that changes; bounds and deadlines | the element acted on is the only match |
| Identity, configuration and releases | `cmd/chat-with-cli`, `deviceidentity`, `releaseinstall` | configuration, key file, binary, backup, checksum | set-up, rotation, repair, update, rollback | a stop or loss of power between replacements | what is replaced can be had back |
| MCP server, pages, engine dispatch, protocol types | `mcpserver`, `ui.go`, `web.go`, `engine.go`, `protocol` | none over time | translation and wiring | none | |

Interactions: an MCP request is authorized by the token store, admitted by its
account's quota, then calls the broker, which sends it to the peer of the device;
the Agent's `serve` loop hands it to the Engine, which may start a task that
outlives the call, change files or open a portal session. Revocations travel the
other way: the store drops records, resets the device's peer and lets the broker's
periodic revalidation find the rest; the Agent, refused by the Relay, ends the
remote session, which stops the tasks and closes the portal. A kill-switch file on
the workstation stops everything locally. The Agent proves its device key against a
challenge both when its client is registered and when it connects, and keeps the
tokens of that client in a file it shares with the command line.

## Modules

| Module | Models | Main correspondence |
|---|---|---|
| `DurableAuthz` | what the store promises, without files or crashes | `serving` is what authorizes a request now |
| `AuthzStore` | the save transaction of the Relay and its restarts | one action per I/O step; `mem`, `file`, `guard` are the copies; `durable` and `guardDur` hold what a power loss may bring back |
| `AuthzStoreProof` | the theorems about the store | inductive invariant `IInv` and the refinement |
| `BrokerProof`, `OAuthTokensProof`, `AccountsProof` | the theorems about the module each extends | inductive invariants `BrokerInv`, `TokensInv`, `AccountsInv` |
| `TaskProof` | the theorems about `TaskManager` and `TaskLog` | inductive invariants `TaskInv`, `LogInv` |
| `RelayProof` | the theorems about `Usage`, `DeviceProofs` and `Limiter` | inductive invariants `UsageInv`, `ProofsInv`, `LimiterInv` |
| `AgentProof` | the theorems about `AgentLink` over `Credentials` | inductive invariant `AgentInv`: `CredInv` of the file and the families, `LinkInv` of the loop |
| `HostProof` | the theorems about `Portal`, `Workspace`, `Installation` and `UniqueUI` | inductive invariants `PortalInv`, `FilesInv`, `InstallInv`, `SelectionInv` |
| `OAuthTokens` | grants, codes, families, claims, withdrawal | one action per handler outcome or administrator action, each under the server mutex; `CleanUp` is `cleanupLocked` |
| `Accounts` | users, sessions, invites, the administrator | `visit` is a request in flight: a handler takes the mutex several times, and each of these is an action; `disk` is what the next process loads |
| `Usage` | quotas, activation codes, metered requests and frames | `book`, `file` and `durable` are the copies of the records; `gate` is the per-account gate; `Checkpoint` is the loop, `Close` the last checkpoint of a shutdown, after which the process counts on until `Exit` |
| `DeviceProofs` | challenges, clients bound to devices | `attempt` is a request between validating its challenge and taking the mutex; `key` stands for the MAC keys of one process |
| `Limiter` | rate windows and password slots | `AllowRate` is `allowRate` with its sweep; `AskSlot` to `GiveSlotBack` are the slot of `authenticate` and `prepareRegistration`; `bare` holds the requests that hash a password without one |
| `RemoteCalls` | what the broker promises a caller, without maps, request ids, slots and locks | `stage` is how far a call is: new, admitted, out, ended |
| `Broker` | connections and calls | `accept`, `pc` are the program counters of `acceptAgent`/`readLoop` and `Call`; the steps between two locks are separate actions |
| `TaskManager` | tasks, StopAll, kill switch, session, restart | `pc`, `copier`, `waiter` are the goroutines of a task; `stopAll[a]` is what caller `a` saw of the kill-switch file and the StopAll it runs |
| `TaskLog` | the output of one task | amounts of output in the PTY, the copier's buffer and the log; `rpc` is the reader inside `readContext` |
| `Credentials` | the credential file, its lock, and the Relay's side of a family | `step` is the operation a process is in; each request may fail before or after the Relay handled it, and `late` counts refreshes that are handled after their process gave them up |
| `AgentLink` | `Client.Run` over `Credentials` | `phase` is where the loop is; `jobs` are the credentials under which tasks of this process that run were started, `orphans` those of commands a crash left behind |
| `Workspace` | writes, patches, deletes and moves of files | `dir` holds the names callers use and each call's private name; `CommitSwap` is the exchange, `VerifyFails` and `Restore` its undoing; `effective` holds what was in effect when its call reported an error |
| `Portal` | the portal session and input calls | `portal`, `flagged` and `doomed` are the engine's side, `desk` the compositor's; each request is sent and answered separately |
| `UniqueUI` | the walk of invoke, get text and set text | `todo` is the walker's stack, `cut` its `truncated`, `seen` remembers what was visited, `whole` whether every read was answered; one element is visited per action |
| `Installation` | update, rollback, set-up, rotation and repair | `shown` is what programs see, `onDisk`, `configOnDisk` and `keyOnDisk` what a loss of power may leave; one action per replaced file and per sync |
| `MCAuthzStore`, `MCOAuthTokens`, `MCBroker`, `MCTaskManager` | instances for TLC | constants, symmetry, bounds |
| `MCAuthorization` | `AuthzStore` and `OAuthTokens` | the store under faults, and the grants it holds |
| `MCLive` | `Broker`, `TaskManager`, `TaskLog` with fairness | what must come to an end |
| `MCRelay` | `Usage`, `Accounts`, `DeviceProofs`, `Limiter` | the Relay beside its token store |
| `MCHost` | `AgentLink` (with `Credentials`), `Workspace`, `Portal`, `UniqueUI`, `Installation` | the workstation beside its tasks |

The parts an MC module combines share no variable. Each behaviour moves one of
them, chosen by the variable `part` at the start, so that the states are the sum and
not the product of the parts' states: nothing is lost, since no action of one part
reads or writes another's state. Modules that do interact are composed properly:
`AgentLink` extends `Credentials` and steps through its operations, the Relay
included.

Several of the invariants the runs name are conjunctions of parts that are stated
one by one in the module (`FilesHold` is `NothingIsLost`, `DeniedIsGone` and the
types). Definitions called *variant* (or *mutant*) in a comment are not part of a
model: each is a definition changed the way a plausible bug would change it, kept to
show that a property notices.

## Runs

| Run | Checks | Bounds and why they are enough |
|---|---|---|
| `authorization` | `AuthzStore`: revocations are final, memory equals what a crash would restore, an emergency stop holds, refinement of `DurableAuthz`. `OAuthTokens`: `RecordsIntact`, `SingleHead`, `EndedStaysEnded`, `RotationEnds`, `DeviceKeepsOwner`, `DecidedOnce` | store: two tokens, one in question and one that changes the store around it; failures and crashes are unbounded. Tokens (`Within`): two accounts, two requests and two clients around one device, with one token pair per family; or one account with three pairs in a family (a rotated token older than the last one exists), a password change and the global switch |
| `broker` | slots and pending entries, no connection beside the current one, an open peer is kept, refinement of `RemoteCalls` (an answer is from the connection that was asked) | two connections, devices and calls; one slot and one connection, so that both limits are met |
| `tasks` | task limit, kill switch and session end leave nothing running | two Start calls on one slot, the file created and removed once, a restart after the first call at any point (`CrashAt`) |
| `live` | under fairness: revocation closes, a revoked caller ends, a closed peer leaves the map; the kill switch prevails, a killed task is settled, a finished task stays finished, in memory and on disk; EOF is reached and final, the log is a capped prefix, truncation is told | one device, two connections, one call. One task (each of these speaks of one task), a restart at any point; `TasksWithin`: the file is toggled three times, so that it is removed and comes back, or once around a restart. Four units of output, a cap of three, a terminal of two, reads of at most two, one reader: readers share nothing |
| `relay` | `Usage`: a code pays once, a payment survives, one metered request per account, checkpointed traffic is kept, counts never fall. `Accounts`: sessions are current, a logout is final, an administrator remains, an invite makes one account, names agree, a Relay in doubt only gives up authority. `DeviceProofs`: a challenge is used once, a retired device has no client, an approved client stays. `Limiter`: the burst is bounded, no more passwords are verified than there are slots | `UsageWithin`: two accounts are paid, or one has frames, or one has metered requests, since these touch different fields. `AccountsWithin`: set-up by `u1`, a second account and a third with the name of the second; the complications (two requests in flight, a torn save, an invite, a second password, open registration) are combined where they concern each other. `ProofsWithin`: two requests under way, or two clients; one challenge each for a registration, an authorization and a connection, or two of the first two kinds. Three keys on a table of two, four ticks |
| `host` | `Credentials`: no process makes the Relay revoke a family as replayed, what is stored is current, profiles are kept. `AgentLink`: work of a refused credential has ended, a refused credential never serves again. `Workspace`: nothing unexpected is destroyed, what a failed call wrote is gone unless it was in effect. `Portal`: no control after the session ends, no stray session, stuck keys are closed, a restore token is used once. `UniqueUI`: the element acted on is the only match where all could be read, and always the one found. `Installation`: what is replaced can be rolled back, the configured key fits | `AgentWithin`: two processes (one of them runs the loop), two resources and two families with two tokens each; the second resource and family come in where the connection does not; one refresh is handled late, of one family and before the connection is up; one credential has tasks or orphans. `FilesWithin`: two calls, two names and three contents; no call begins after an error that came late or a create that replaced a file. `PortalWithin`: two calls, and a third session once the first two are closed. Four elements, bounds `<<2, 4>>` and `<<3, 3>>`, so that each limit cuts. `CliWithin`: two commands, three releases, three identities, one of them revoked and one of them lost; binary and identity are not combined, and commands that overlap are not followed (the theorem covers them) |

The passing runs explore between 170 thousand (`live`) and 5.6 million (`tasks`)
states. The actors of these races are pairs (two connections, two calls, a
call and a StopAll, two processes), so two of each kind give every order of their
steps; further copies only repeat a pair. Every counter that would not end in the
code is a named bound in the guard of the environment action that would increase it
(`MaxCrash`, `CrashAt`, `MaxToggle`, `MaxPair`, `MaxRotation`, `MaxOut`, `MaxGen`, `MaxVer`,
`MaxSession`, `MaxHash`, `MaxTime`, `MaxTick`, `MaxRelease`, `MaxKey`). The `Within`
predicates of the MC modules cut combinations whose parts are covered separately;
they are conjoined to the next-state relation of those modules only.

`live`, `relay` and `host` do not check deadlock: a command that has ended, a Relay
that was closed or a call that has been answered leaves nothing more to do, and the
`Within` bounds end behaviours too. The others check it.

Six more runs each show a disagreement between the code and what the repository
says of it:

- `store_freeze`: when writing the dirty mark is the step that fails, the freeze
  is lost at the next start, although `docs/admin.md` says it survives restarts.
- `login`: a decision on an authorization request made with a browser session is
  committed although the password was changed after the session was looked up;
  `docs/account.md` says the change revokes all credentials.
- `tasks_disconnect`: detached tasks survive a disconnect, as `client.go` intends
  and `docs/agent.md` and `SECURITY.md` deny.
- `log_tail`: `waitTask` closes the PTY before it is drained, so the last output
  can be missing at EOF, which `TestLongTaskReturnsIDAndCanBeReadLater` asserts.
- `logout`: a logout with an access token the Relay has already dropped is answered
  with success and leaves the refresh token good; `docs/agent.md` and the command
  say the family is revoked.
- `invoke`: a walk that `max_nodes` or `max_depth` cuts among siblings or below is
  not marked as cut, so an element is acted on though a second one matches;
  `docs/computer-use.md` says incomplete searches fail.

## Narrow races without a run

The models have these, and the properties are worded around them:

- The connection limit is looked at before the handshake and not when the peer is
  entered, so Agents that connect at once exceed it (`Broker`).
- A kill-switch file that is removed and created again between two looks of the
  watcher leaves a command of a `Start` call running that passed its last check in
  between: `KillSwitchKills` speaks of a switch that was not lifted since it latched
  (`lifted`). No `StopAll` reaches a command that outlived its Agent.
- `processExists` asks whether any process has the recorded id. When the final state of
  a task could not be persisted and its id was given to another process, the next Agent
  shows the finished task as an orphan that runs: `FinishedStaysFinished` excepts it.
- The shutdown of the Relay waits neither for the Agents' connections nor, after ten
  seconds, for requests; what they use after the last checkpoint is lost (`Usage`).
- A password change goes on to hash the new password when it has given its slot back,
  and set-up, accounts made by an administrator and `rotate-password` take none, so the
  slots bound the passwords that are verified or registered (`Limiter`).
- A refresh is given up after five seconds and may be handled later. When it follows the
  one that was tried next, the Relay takes it for a replay and ends the family, although
  nothing was lost; when it is the first, the file keeps a token that is used
  (`Credentials`). A current refresh token is also dropped, with an error, when its
  client, resource or owner is no longer right, while access tokens go on.
- What the commands of an Agent that crashed were authorized by may be refused later:
  they run on, and no later process stops them (`AgentLink`).
- A refresh while a global switch is off destroys the refresh token, so the family
  ends with its access token (`OAuthTokens`).
- A write without a hash looks whether the name is free and then renames over what
  has appeared since: `NothingIsLost` excepts it. A change whose last sync or clean-up
  fails reports an error after it took effect, and an append undoes nothing:
  `DeniedIsGone` excepts what was in effect (`Workspace`).
- An element whose states, name or children cannot be read within 250 ms counts as one
  that does not match or has no children, and the answer does not say so. A walk may
  then take one of two matches for the only one: `SelectionIsExact` speaks of walks that
  could read everything (`UniqueUI`).
- A rotation that cannot sync its configuration removes the new key, while the new
  configuration is in place. When a set-up at that path (the interactive one uses the
  configured path) is then interrupted behind the key, the configuration names a file
  with another identity, which every later `connect` refuses. The same happens where a
  loss of power takes a key file, whose directory is not synced: `ConfiguredKeyFits`
  excepts identities whose key went either way (`Installation`).
- Two set-ups side by side may leave a configuration whose key is gone, and nothing
  keeps two updates apart: the properties of `Installation` speak of commands that
  did not overlap (`overlap`).
- A retired device whose refresh is refused is asked to register again, is told it is
  gone, and tries for ever: only the challenge's 410 ends the loop (`AgentLink`).

## Fairness

Only `MCLive` states fairness; the other runs check safety and use none.
`TaskFairness` assumes that goroutines that can run do run, that the watcher's
ticker ticks, that the system ends a process after SIGKILL, and that a read of a
closed PTY returns; nothing makes a command end by itself, a client call, or the
operator act. `LogFairness` assumes the copier and `waitTask` run and that a client
asks again until it is told EOF. `BrokerFairness` assumes goroutines and the 250 ms
tickers; nothing makes an Agent connect, answer or leave, and the two-minute limit is
relied on only by a call that waits for a slot. All of it is weak fairness of single
steps, each guarded by the part that runs.

## What is proved

`AuthzStoreProof` proves, for every set of tokens and with no other assumption
than that `NoToken` is not a token: `TypeCorrect`, `RevocationIsFinal`,
`ServingIsDurable`, `StopIsHeld`, `LostRevocationNeedsRelease`, and
`StoreKeepsItsPromise` (the refinement of `DurableAuthz`).

None of the properties is inductive: that a revoked token is not served says
nothing of the copies a later step may load. The invariant `IInv` adds what each
copy may hold. `PhaseInv` ties the step of the transaction to the disk (while
it replaces the file the guard is dirty; before it marks the guard clean the file
is `mem` and durable). `OpInv` says how the running operation changed memory from
its snapshot. `FinalInv` says that no surviving copy (memory, snapshot, any
version of the file) holds a token revoked for good. `StopInv` and `UnsavedInv`
say the same of the emergency stop and of revocations that were never saved.
`Initially` and `Inductive` show that `IInv` is an invariant, one step per
action; `AbortMemory` isolates what a failed transaction leaves, since each I/O
step fails into it. The refinement follows by `StepIsPromised`: an I/O step
stutters, a completed transaction is the promised operation (`FinishIsPromised`),
and failures and crashes are `Freeze`.

`TaskProof` proves `LogIsFaithful` (`LogHolds`: EOF is final, the log is a capped
prefix of what was read, truncation is told) and `ReadLogNeverGrows` (once told EOF, a
reader has all the log will ever hold) for any output, cap, terminal, read size and
readers, from the assumptions that the sizes are natural numbers and the terminal and a
read are not empty. What a reader may conclude from EOF hangs on an order: `LogInv` adds
that a settled task's copier has ended (`OrderInv`), that a reader who saw the task
finished saw it after that (`ReaderInv`), and the account of output between terminal,
buffer, writer and file (`CopyInv`, `CapInv`).

It also proves `LimitIsKept`, `KillSwitchIsComplete`, `SessionEndIsComplete`
and the action properties `OutcomeStaysOnDisk` and `FinishedIsFinal`, for any Start calls
(`NameAssumption`: named apart from the two callers of StopAll) and every
limit and number of restarts. Nobody holds a lock from the start of a command to its
registration, or from a look at the kill-switch file to StopAll. `KillInv` therefore
speaks of the commands no check of their Start call will look at again (`Loose`): once
the switch latched, each is still due in a StopAll. `SessionInv` says the same of the
end of a session, `StartInv`, `WaitInv` and `OutcomeInv` what the two goroutines of a
task may rely on in each place, `SlotsInv` counts the slots by their owners.

`BrokerProof` proves `BrokerKeepsItsPromise` (the refinement of `RemoteCalls`),
`AnswersAreGenuine` (`AnswerIsFromTarget`, which the run sees through the refinement),
`CallsLeaveNothing` (`NothingLeftBehind`), `OneConnectionServes` (`NoConnectionBeside`)
and `OpenPeerStays` (the action property `OpenPeerIsKept`) for any devices, connections, calls
and limits (`CapacityAssumption`), where `None` is none of them. A call and its
connection are tied together by three tables written under different locks and by a
response that is held outside all of them. `BrokerInv` says what each is worth at every
step: `MailInv` that a response readLoop matched is for a call to this very peer,
`PendingInv` and `SlotInv` that the tables hold exactly the calls at the steps between
taking and giving back (`slots` is the cardinality of the holders), `MapInv` and
`BesideInv` that an open connection is in the map or about to be closed by its successor.

The refinement maps the places of `Call` to four stages (`StageAt`), peers to connections
and `pending`, `inbox`, `handing` and `slots` to nothing. It needs two facts more
(`EarlyInv`): a connection has no device before it is accepted, so that `Connect` happens
once, and readLoop holds a response only for a call that went past its checks, so that
no answer comes before an admission. `LinkIsPromised` and `CallIsPromised` take each step
of a connection and of a call to its abstract one or to a stutter; the limit on calls
that are out is where the slot count enters (`OutIsLimited`: a call that is still to be
sent holds a slot, too). `RemoteCalls` does not promise that the connection is still
trusted when the request is sent, because `Call` does not look at it again after it
waited for a slot.

`OAuthTokensProof` proves `AuthorityIsIntact`, `FamiliesHaveOneHead`,
`RevocationIsFinal`, `PasswordEndsGrants`, `FirstOwnerStays` and the action property
`RequestIsDecidedOnce`, for any accounts, devices, clients, requests, rotations and
password changes, from `DeviceOfAssumption`, `SwitchAssumption`, `BoundAssumption` and
that `None` is no name. The difficulty is what `cleanupLocked` hides: the proof shows
that a record which rests on nothing is never there to be cleaned up. `TokensInv` is
the conjunction of the checked invariants, which need one another, and of `GrantInv`:
what waits has not been granted, and tokens were issued for what was.

`RelayProof` proves `UsageStaysExact` (`UsageIsExact`) and `TrafficOnlyGrows`
(`CountsAreKept`), where a code is no gift (`PaymentAssumption`), `ProofsStayGood`
(`ProofsHold`) and `BurstsStayBounded` (`BurstIsBounded`). What is counted and paid is in a book, a file, and what a power loss may
leave of it; a failed save rolls the book back and may leave the file ahead of it.
`CopyInv` and `PaidInv` are therefore stated of a copy and shown of each
(`CopiesInv`); `FileInv` relates them, `GateInv` the gates to the requests that wait.
Of the challenges, `IssueInv`, `UsedInv` and `AttemptInv` say what the requests that
validated one and the table of consumed ones know of each other, so that a full table
refuses rather than forgets while a challenge is valid. Of a rate window, `Tells` says
what it still knows of the requests that passed: one that was swept was over
(`LimitAssumption`: no window is longer than the hour it is kept), and one that is kept
counts what passed since it started. A span then meets two windows at most.

`AccountsProof` proves `SessionsStayCurrent` (`SessionsHold`), `AccountsStayWhole`
(`AccountsAgree`) and the action property `DoubtOnlyReduces` (`FrozenOnlyReduces`), where
every account has a name (`NameOfAssumption`) and `Nobody` is no id. A save may leave
either version for the next process, so `AccountsInv` says `Sound` of the state in memory
and of the one on disk, and every handler is shown to hand over sound versions only.

`AgentProof` proves `CredentialsStayUsable` (`CredentialsHold`) and
`RejectedWorkStaysEnded` (`LinkHolds`) of `LinkSpec`, which steps through both modules, for
any processes, resources, families and number of rotations, where there is a resource
(`ResourceAssumption`), `NoProc` and `NoCred` are no process and no credential
(`NobodyAssumption`) and every Agent has a device (`AgentAssumption`). From the
moment the Relay has rotated a family until the file is replaced, the token in the
file is one whose use would end the family, and only the process that is
about to replace it may know the new one. `Holding` says that a process past the
lock holds it and has read the file as it is, `Sound` what its credential is worth in
each place, `Apart` that the tokens of a login that are not stored yet are in
nobody else's hands, and `Filed` that a stored credential is of a family issued for its
resource. For the loop the proof shows that no step brings a dead access token back
(`Buries`), so that what was refused stays refused.

`HostProof` proves `ControlEnds` (`PortalHolds`), `ChangesAreSafe` (`FilesHold`),
`InterruptedIsRepairable` (`InstallHolds`) and `SelectionStaysExact` (`SelectionHolds`).
- `Portal`: `NoTool` is no call. `Hands` ties the mutex and the place of a call to the
  session it has and the keys it holds down; `OpenerAlone`, `Known` and `Recorded` say
  who may still present a restore token while a session is opened and the file lags
  behind; `Ended` that calls of a session that is over send nothing.
- `Workspace`: `NamesAssumption` keeps the names of callers and the private ones apart.
  That a call which was not disturbed destroys nothing needs what it may rely on in
  each stage: the temporary file is its own, also beside those who hold one open
  (`Private`), a swap can be undone, and what is removed or discarded is what was
  expected or brought (`Exchanged`). `Ids` says that a file is under one name only.
  `OthersKeep` is the lemma for all other calls: whoever changes a name disturbs those
  whose name it is. `SwapKeepsIds` is the one about the exchange itself.
- `Installation`: any state may be cut to what is on disk. `Progress` says what the
  files hold at each step of an update or a rollback, and `OneChanges` what commands that
  did not overlap leave each other. For the identity `KeysNamed` says that what a
  command brings is a key, and `OwnFiles` that commands which change the identity use
  key files of their own, each as its command left or found it.
- `UniqueUI`, for any tree and bounds (`MaxNodeAssumption`, `UiBoundsAssumption`): that an
  uncut walk has missed nothing is a fact about trees. `WalkInv`
  says that what was visited and what waits are apart and were reached from above, and
  `Covers` that every element whose parent was visited is one of the two.
  An element that is left out when nothing waits would be the least such (`LeastElement`), and its
  parent is less: `AllIsSeen`. The same argument gives the equation of the recursive
  function `Depth` (`DepthOf`), so that no child within the bounds is passed over.
  `ListedInOrder` shows that `InOrder` lists a set, each member once. `Honest` ties
  what was found to what matches, as long as nothing changed.

The models change several fields of a record by one update of the function that holds
it (`![c] = [@ EXCEPT !.at = ..., !.own = ...]`) and exchange two names by a
comprehension: two updates of one function in one EXCEPT, which may be at one place, are
not handed to the SMT solver in their order, and no proof here rests on such a step.

## Only model-checked

- Everything of `MCLive` that must happen: fairness and ENABLED are outside the provers'
  reach.

No module has a RECURSIVE operator.

## Abstractions

- The store's authority is a set of live tokens and the emergency stop; the other
  record kinds are saved and restored with them by the same code. `Accounts` and
  `Usage` keep their own copies, with the store's save reduced to its outcomes: done,
  rolled back, or in doubt with the latch set. `Usage` takes accounts as durable at
  once, since they live in the other file.
- One Relay process owns the state directory: `state_lease_unix.go` holds a lock.
- Tokens, codes, challenges and request ids are random and never collide, so they are
  ids used once. Hashing, PKCE, scopes, redirect URIs and signatures are reduced to
  whether they match (`bound`) and to the device a client proved (`DeviceOf`).
- In `OAuthTokens` a save succeeds; `AuthzStore` covers a save that fails. Expiry may
  happen to any record at any time.
- A credential or a caller that lost its authorization does not get it back in
  `Broker`: a new token is a new connection or call.
- `TaskManager` has no output, and `TaskLog` no slots: they share the order of
  `waitTask`'s steps.
- `Workspace` tells contents apart by version, as the code does by SHA-256, and a
  directory is a function from names to files. Other programs may change or remove
  any name at any moment.
- `Portal` has one user who consents or does not; the compositor may end a session at
  any time, and a canceled request may still have been carried out.
- `UniqueUI` fixes the shape of the tree, changes what matches in it, and lets any
  element keep its children or its match to itself.
- In `Installation` renames within one directory reach the disk in their order; a key
  file, whose directory nobody syncs, may be as at any time before. The download is one
  step that has checked its sum.

## Not modelled

Translation without state (MCP server, pages, engine dispatch, protocol types), and
what belongs to the kernel or a library: resolving a path beneath its root, Landlock,
file locks as such, signals to process ids after a restart, D-Bus, cryptography.
`install.sh`, screenshots, the X11 tools, rewarded advertising, directory
operations and checkpoints of files, and the 32 call slots of `serve` are left out.
`PROJECT.json` gives the reason per component.

## Plan

Done: the models of the store, the token families, the broker, the task manager, the log,
accounts, quotas, challenges, limits, credentials and the connection loop, file changes,
the portal, semantic calls, and the installation; and proofs about each of these: every
invariant a passing run names is a theorem, and so are both refinements. What is left:

1. Device registration inside `Credentials`, to state that a retired device's Agent
   comes to rotate its identity, and the rotation's liveness.
2. The call slots of `serve` and its late answers in `AgentLink`; checkpoints over
   `Workspace`.

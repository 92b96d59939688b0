# Graw, specified

TLA+ models of the Graw panel, its Go back end (`src/backend-go`) and the parts of
its Vue front end (`src/frontend/src`) that run concurrently with it and with each
other, the TLC runs that check them and the theorems TLAPS proves about them. Paths
below are relative to `src/backend-go/internal/graw/`, those of `.vue` and `.js`
files to `src/frontend/src/` (windows are in its `components/windows/`).

Graw is a web panel for servers. One Go process serves an HTTP API and some
WebSockets, keeps all its state in JSON files under `data/` and in process
memory, and acts on the machine it runs on or, through SSH or an agent (another
Graw), on other machines. Requests run concurrently, one goroutine each, next to a
handful of background loops. There is no database and no transaction: every
invariant of the data rests on a mutex per file, on an atomic rename
(`store.go`, `WriteJSONFile`), and on the order in which handlers do things.

The front end is one page with a desktop of windows. It has one thread, but every
`await`, timer and WebSocket event is a point where the user, the network and the
other windows get in between, and several hosts are managed from one page: where a
request goes is decided when it is sent, not when the window that sends it was opened.
That is what the models are about.

## 1. Inventory

"Hard" names what makes the component hard to test; "right" what it must keep.
`PROJECT.json` lists the same components with their source files and, under
`hazards`, each hard spot at its line.

### Modelled

| Component | State | Operations | Hard | Right |
|---|---|---|---|---|
| Accounts, sessions, tokens (`auth.go`, `sessions.go`, `handlers_auth.go`) | `users.json` under `usersMu`, `sessions.json` under `sessMu`, JWTs in the browsers | login, authenticate, logout, kick, kick all, change password, create / update / delete account, offline reset, prune, restart | every handler gives up one lock before it takes the other; a crash or a failing file falls in between | tokens die with the password the panel replaces, revoked sessions stay revoked, the last full administrator stays |
| Read caches (`loadUsersCached`, `loadSessionsCached`) | the parsed file with the mtime and size it was read at | read, fill, invalidate | a slow fill lands after a newer write; other programs write the file; a read fails | the cache is invisible, failed reads of `sessions.json` apart |
| Node table, SSH pool, agent tokens (`agent.go`) | `nodes.json`, its two-second cache, `sshPool`, `agentTokens` | upsert, delete, set current, meta; connect, reuse, drop | the table is read without a lock and saved under one; connecting happens outside the pool's lock | current names a node, no connection leaks, credentials take effect |
| Node scope (`hostops.go`, `httpx.go`) | `nodeScopeMu`, `nodeOverride`, the current node | enter for reading or writing, resolve the node, proxy to an agent | one process-wide variable says which machine every `Host*` call runs on | a request never acts on another request's machine; everybody gets in if nobody stays for ever |
| Recycle bin (`trash.go`, `handlers_files.go`) | the bin's files and its manifest on one node, `trashMu` | move, restore, delete, empty, purge | probe, move and save are separate commands that fail one by one; the file manager writes, renames and deletes inside the bin without the lock | every file moved into the bin can be found there, nothing is overwritten, nothing fresh is purged |
| Live feeds (`store/docker.js`, `store/systemMetrics.js`, `store/tamper.js`, `TerminalWindow.vue`) | the socket, retry, heartbeat and watchdog timers, what is on display, who waits for a refresh | start, stop, connect, forced reconnection, retry, watch, refresh, hide and show | the close event of a socket that was replaced, links that die without an event, a host switched under a live connection | one live connection, to the node it asked for, while it is wanted, nothing once it is not; silence is noticed |
| Desktop and request routing (`App.vue`, `store/nodes.js`, `store/requestNode.js`, `api.js`) | open windows, their order and binding, the active one, the current host, the host of requests | open, focus, minimise and close a window, switch the host, toggle the unified panel | one variable of the page says where every window's requests go | requests follow the focus |
| Task centre and file windows (`TaskCenterWindow.vue`, `FilesWindow.vue`) | list, selection, log; listing, selection, running loop | poll, select, remove; navigate, select, delete by key or menu, upload | polls overlap, a loop outlives the selection and the window it began with | the selection is on the screen, the list and the log catch up |

### Not modelled yet, or not at all

| Component | State | Hard | Right | Plan |
|---|---|---|---|---|
| Terminals (`handlers_terminal.go`, `ws.go`) | session registry, clients per session, bounded channels | attach races the death of the process; a slow client | every pump ends, output of a fast client is complete | module Terminal |
| Port forwards (`handlers_nodes.go`) | `portforwards.json`, running tunnels | list and tunnels are changed under different locks | a tunnel runs only if it is listed | module PortForward |
| Metrics store (`metrics_store.go`, `sysmon.go`) | pending rows (at most 1200), SQLite | a failed flush puts its batch back | nothing is written twice, the limit holds | module MetricsBuffer |
| Login throttle (`handlers_auth.go`, `handlers_core.go`) | failure counters per address and name | check and count are separate critical sections | a bound on attempts per window | module LoginThrottle |
| Monitors, tamper protection, update flag (`handlers_notify.go`, `handlers_protection_tamper_update.go`) | `uptime.json`, `svcmonitor.json`, `tamper.json` | probes run for seconds between read and write | no edit is undone | module Monitors |
| VPN and FRP (`handlers_network.go`) | process handle under `vpnMu` | the watchdog decides on a stale probe | a wanted tunnel comes back | with Monitors |
| Agent endpoint (`agent.go`, `/api/agent/issue`) | nonces seen in the time window | a replay at the window's edge | one nonce, one token | with LoginThrottle |
| OAuth, second factor | state and ticket tables; none | – | – | end in the same `CreateSession` / `CreateToken` that AuthSessions models |
| Audit and login log | append-only files | rotation | – | no other part decides on them |
| Firewall, containers, sites, certificates, databases, runtimes, app store, plugins, backups, host inspection | the host's | – | – | command lines and generated text: the state is outside the process |
| Other windows, cards, settings and layouts of the front end | what the server last answered | – | – | ask, show, post: no state that outlives a call |
| Translations (`locales/`) | – | – | – | data |
| Python back end (`src/backend`), release notes, example plugin | | | | superseded, build tool, examples |

### How the components interact

Every request passes `ServeHTTP` (node scope) and `Authenticate` (read caches,
then sessions) before its handler. Handlers call `Host*` primitives, each of which
asks the node scope which machine to act on, the node table for that machine's
record, and the pool for a connection. `PUT` and `DELETE` on nodes clear the pool and
the agent tokens. A password change, a kick and an account update write
`users.json`, then `sessions.json`. The background loops (metrics, docker) enter
the node scope like readers. The models cut along these lines: AuthSessions takes
from FileCache that a cached read is atomic or, of `sessions.json`, empty; NodeScope takes from Nodes that
"current" names a node, and leaves to it the overlap of saves.

The front end meets the back end at the request: `api.js` adds `X-Graw-Node`, which
NodeScope's `Arrive` then reads. The live feeds follow `nodes.currentId`, the
windows' requests follow `requestNode.js`; both are written by the desktop, and
Panel is the composition of the desktop with two windows in it. LiveFeed takes the
switches of the host as they come.

## 2. Plan

Done in this order: AuthSessions (most depends on it), FileCache with AtomicFile
(what AuthSessions assumes of reads), Nodes, NodeScope, Trash, LiveFeed, and the
Panel with Desktop, TaskCenter and FilesWindow. Further modules worth writing:

1. **Terminal** – attach, detach, `markDead`, `termSink.Write`. Liveness: every
   output pump ends once the shell has.
2. **MetricsBuffer** and **LoginThrottle** – counters at their limits; both small.
3. **PortForward**, then **Monitors** – read, work, write back.

Abstract specifications are stated for the three components that hide a mechanism
from their callers: AtomicFile (the caches), OwnNode (the global override) and
SignIns (two files and the versions in the tokens). Further ones worth stating: a bin
as a set of files with their origins, which Trash implements as long as no command
fails; one subscription with its latest snapshot, for LiveFeed. A composition: Trash
under NodeScope, where the hourly purge takes no scope and the current node moves
under a request. Further proofs: the invariants of Terminal and of the modules above.

## 3. Modules

| Module | Models | Checked by | Proved in |
|---|---|---|---|
| `SignIns` | abstract: one table of the sign-ins in force | (as the property of AuthSessions) | |
| `AuthSessions` | accounts, sessions, tokens, the handlers of `handlers_auth.go`, implementing `SignIns` | `MCAuthSessions` with `AuthSessions.cfg`, `LogoutIsLocal.cfg` | `AuthSessionsProofs` |
| `AtomicFile` | abstract: a file whose reads are atomic | (as the property of FileCache) | |
| `FileCache` | the read caches, implementing `AtomicFile` | `MCFileCache` with `FileCache.cfg` | `FileCacheProofs` |
| `Nodes` | node table, its cache, SSH pool, agent tokens | `MCNodes` with `Nodes.cfg`, `SavesKeepEachOther.cfg`, `PoolIsCurrent.cfg` | `NodesProofs` |
| `OwnNode` | abstract: every request has a node of its own | (as the property of NodeScope) | |
| `NodeScope` | which machine an operation runs on, implementing `OwnNode` | `MCNodeScope` with `NodeScope.cfg`, `FramesAreWhole.cfg` | `NodeScopeProofs` |
| `Trash` | the recycle bin of one node | `MCTrash` with `Trash.cfg`, `PurgeSparesTheFresh.cfg` | `TrashProofs` |
| `LiveFeed` | the four WebSocket clients of the browser | `MCLiveFeed` with `LiveFeed.cfg` | `LiveFeedProofs` |
| `Desktop` | window manager and request routing | (in Panel) | `PanelProofs` |
| `TaskCenter`, `FilesWindow` | the contents of two kinds of windows, over Desktop | (in Panel) | `PanelProofs` |
| `Panel` | their composition | `MCPanel` with `Panel.cfg` | `PanelProofs` |

Conventions. A *worker* is one goroutine with one request; its record `op[w]` says
where it is (`pc`) and what it has read. A step ends where the code gives up a
lock or finishes a file operation other goroutines can see; everything the code
does up to there is one action. `Absent` (or `None`) is the one value for "no
account", "no session", "no file". A definition whose comment starts with
"Mutant:" is not used by the model: it is a plausible bug, and replacing the
correct definition below it by the bug breaks one of the properties
(`PROJECT.json`, `mutants`).

### AuthSessions and SignIns

`users` is `users.json`: per name a password, a `token_version` (and `had`, below) and a level (full
administrator; administrator with a perms list; user). `sessions` maps each live sid
to its owner. `tokens` holds the claims signed for each sid: they live in
browsers, so nothing ever removes them. `expired` are the sids older than
`TokenTTL`.

* Login is `LoginVerify` (the account is read once; password and second factor are
  judged on that copy) and `IssueToken` (`CreateSession`, then `CreateToken` with
  the version of the *copy*). A login can therefore be overtaken by a password change
  – `PasswordBinding` says that the token it then gets is worthless.
* `Authenticate` is `AuthUser` (signature, expiry, version), `AuthSession`
  (sessions table) and `TouchSession` (its own critical section).
* `Serve` is any other handler; the list of devices prunes `sessions.json`.
* `Logout` decodes the token once more: if it has expired in the meantime, or the session is not
  found, `BumpTokenVersion` signs the account out everywhere.
* `Logout`, `KickLookup`/`KickRevoke`, `KickAll`, `BumpTokenVersion` (version under
  `usersMu`) followed by `RevokeUserSessions` (under `sessMu`), `ChangePassword`,
  `UpdateUserPassword`, `UpdateUserLevel`, `DeleteUser`, `CreateUser` are the
  handlers, cut where they change locks.
* `Restart` at any point forgets the requests and repairs the seed account as
  `SeedDefaultUsers` does; `Expire` is the passage of time.
* `OfflineReset` is `cmd/reset-password`, another process: it replaces a password and leaves
  `token_version`, so what was signed before stays good (`reset_password.go:77` says so).
* A read of `sessions.json` that fails counts as an empty table (`Loaded`) and a write that fails
  is logged and forgotten (`Saved`): either may happen at any such read or write. An error on
  `users.json` ends the request.

Four fields are history and influence nothing: the password a token was issued
for (`pw`), which account of that name it was issued to (`born`), whether the
request's token was acceptable when the request began (`live`), and the passwords an account has
had since the panel itself last set one (`had`: that one, and those of later offline resets).
PasswordBinding says that an acceptable token was issued for one of these. "The present one"
would be false: after an offline reset the tokens issued before it go on.

*What a fault does.* A kick or a logout whose write failed leaves the session in force; the source
gives up on it (`sessions.go:91`) and no property forbids it. A read that fails inside a
read-modify-write empties the table for everybody, who then have to sign in again. Neither lets a
revoked session come back (GoneStaysGone), nor a token outlive a password that the panel replaced.

*The offline reset's overlap.* The tool reads `users.json`, hashes for some hundred milliseconds and writes,
without a lock the panel knows of: of two overlapping changes one is lost, and a revocation of
all devices can be among them (its version goes back). The tool is meant for a panel
that is out of reach; the model makes its run one step and claims nothing about the overlap.

*Tokens of a former account.* A deleted account's sessions stay in
`sessions.json`, and an account created again under its name starts at
`token_version` 0. A token of the old account whose version was 0 is then one
that `Authenticate` accepts. `PasswordBinding` speaks of tokens issued to the
present account of the name only; the case is a hazard in `PROJECT.json`, and no
claim of the source speaks of it.

`SignIns` is what the rest of the panel takes for granted: one table `live` of the sign-ins in
force, looked at once when a request enters and changed at one stroke. A password change in the panel or a
deletion ends all of the account's sign-ins in the same step as it changes the account; the offline
reset (`Reset`) adds a password and ends none; a token is in force when it is issued, if it was issued for
one of the passwords the account has then, or never; only a request that is `inside`, and the tool, change accounts,
and none deletes its own. Sign-ins may end at any time (`End`, `EndAll`), which is what becomes of an
expired session, a kick and a table that could not be read. AuthSessions implements it
(`TableOfSignIns`) with `live` mapped to the acceptable tokens of present accounts (`InForce`) and
`inside` to the sid of a request that was let in. The mapping puts the admission at the
instant at which `AuthUser` compares the token with `users.json`, provided the session was there as
well: the second look, at `sessions.json`, then only decides whether the request leaves again at once.
`BumpTokenVersion` and `RevokeUserSessions`, two steps of the code, each end all sign-ins of the
account; the second finds those that were issued in between. Tokens of a former account (`Former`) may enter
at any time: SignIns says so openly instead of leaving them out.

Abstracted: the hash (a password stands for its hash), the session's device and
address, the idle limit for listing (`KickLookup` may end without effect for that
reason), and throttling.

### FileCache and AtomicFile

The same algorithm guards `users.json` and `sessions.json`; `table` says which of the two a behaviour
is about. A read is `Stat`, `Hit` or `Miss`, `Load`, `Fill`. The stamp that goes into the cache is the one seen
*before* the file was parsed; that order is what everything hangs on, and the
mutant of `CacheSound` turns it round. Writers are the panel (`Rename` then
`Invalidate` under the table's mutex, or after it in `BumpTokenVersion`: `Unlock`, `InvalidateLate`) and
other programs such as the offline password reset (`ExternalWrite`, no invalidation).

The two differ when the file is there and cannot be read or parsed. For `users.json` the caller gets the error and nothing is
cached (`LoadError`). For `sessions.json` the caller gets an empty table, on purpose (`sessions.go:55`), and
`loadSessionsCached` caches it under the file's stamp like any other (`LoadBlank`): one read that fails makes
the panel treat every device as signed out until the next write of that file, although the file is intact
and the comment has only the one read in mind. `blank` is the history of it.

`AtomicFile` says what callers get: an answer the file had at some instant between
the call and the return, an error for this one read (users), or, once the file as it was at
such an instant has failed to be read, the empty table (sessions). `FileCache` implements it with `answer` mapped to the value
held by a read that is about to return (`ReadsAreAtomic`).

Assumption: every write gives the file a new (mtime, size). Two writes within one tick
of the file system's clock that keep the size look like one; a write by the
panel invalidates the cache anyway, so only external writes can suffer. A hazard
without a property.

### Nodes

`file` is `nodes.json`, `cache`/`recent` its two-second copy, `storeMu` the holder
of `nodeStoreMu`. `clients`/`status` are the SSH clients ever made, `pool` and
`tokens` the two maps keyed by `nodeKey`. A handler that writes reads the table without
the lock (`Upsert`, `Delete`, `SetCurrent`), keeps its changed copy, and saves
it in `SaveFile`/`SaveCache`; an upsert then drops the pool entries of the old and the new
record and the agent tokens, each a step. A request that reaches a node loads the
table (`LoadCached`, or `LoadFresh` and `FillCache`), probes the pool, connects
outside the lock, inserts its client, and perhaps fetches an agent token.

A read of `nodes.json` that fails or finds no table gives the default one, with the panel's host alone
(`Loaded`). In a handler that then saves, that is the end of all other nodes: CurrentExists and PoolExact
hold all the same, and nothing in the code or the models claims that the table survives.

`Init` starts from any table an earlier run of the panel can have saved
(`SavedTables`). A `nodes.json` edited by hand so that `current` names no node is
outside it: the code tolerates it (`opsNode` falls back to the host) but does not
repair it. Deletion closes the pooled client before it removes the record, as the code
does.

### NodeScope and OwnNode

A request is an HTTP request, a round of a background loop ("frame"), or a
WebSocket that watches another node. `Arrive` is `ServeHTTP`'s decision; `Announce`
and `EnterWrite` are `withNodeScope`, `EnterRead` is `readNodeScope`, both over Go's
`sync.RWMutex`: a writer first announces itself, which stops new readers, then
waits for those inside; when it leaves, the readers that queued up behind it
enter before the next writer. `Dispatch` is `maybeAgentProxy`. `HostOp` is any
`Host*` primitive; it asks `opsNode` and records where it acted in `acted`, which is history.

`OwnNode` has neither lock nor override: a request runs *alone*, for the node that it named,
or *beside* others, for whatever node is current each time it asks, and an operation runs on that
node as if it had been passed along as an argument. NodeScope implements it (`NodeIsOwn`):
announcing, queueing and being let in by a writer that leaves are invisible, except that the last
lets several requests in at once (`HandOver`).

Here a primitive asks once; in the code some ask twice (is it remote, which node), and
`POST /api/nodes/current` and `DELETE` are one step each – their overlapping
saves are in Nodes. Goroutines that take no scope (the hourly purge of the recycle
bin, terminals) are not in the model, and nothing is claimed for them.

*Who never leaves.* `defer` gives the lock back when a handler ends, also by a panic, but nothing makes it
end: a command over SSH (`hostops.go:509`, `session.Run`), a copy (`:549`, `:553`) and the streamed answer of an
agent have no timeout. One that hangs as a reader, with a writer announced behind it, keeps every other request of the
panel waiting. EveryoneEnters therefore says only that nobody else does: if everyone who is inside leaves again,
everyone gets in.

A consequence worth knowing that NoCrosstalk and OwnNode spell out: a request or a
subscription whose node is deleted while it waits acts on the panel's own host
from then on, because `opsNode` falls back to it.

### Trash

One node, the panel's host or a bare SSH node (`remote`). `disk` gives the file at each
place: the users' paths, and the *slots* of the bin, the names `uniqueTrashDst` tries
one after the other. All paths have one base name, so every move competes for the
same slots. `manifest` is the set of entries in `.graw_trash.json`; an entry's
number stands for its random id, its time and its place in the list, and `aged` says up to
which number entries are past the retention period.

`LockMove`, `LockRestore`, `LockDelete`, `LockEmpty` and `LockPurge` take `trashMu`, do
the operation's checks and read the manifest; `Move`, `Restore`, `Delete` and `Sweep` touch the disk;
`Saved` and `SaveFails` end the request. In between, those without the lock move:
`Create` and `Rename` (the file manager's writes and renames, inside the bin too), `DeleteForGood` (its deletion with
the bin switched off, or of a path inside the bin) and `Crash`. The comment at `trash.go:60`, that the lock
covers neither the move nor the search for a free name, is out of date: the code and
the comments of `uniqueTrashDst` and `MoveToTrash` have it otherwise, and so does the model.

Faults. A manifest that cannot be read or parsed reads as empty, on the host as on a remote node
(`Reading`, `trash.go:162` and `:169`), and the request's save then writes that back. On the host a save may
fail and leave the old manifest (`atomicWrite`), a move may fail and leave behind the copy that stands in for a
rename, a removal may fail, and a file that `os.Stat` cannot look at (a symbolic link that leads nowhere, as a
relative one does once it is moved: `Unseen`) does not exist for `HostExists`. On a remote node each of these is
a command: a failed test reads as "no such file" (`MayBeAbsent`), a lost answer as failure of what was done
(`MoveFails`, `RemovalFails`), and an interrupted write leaves a truncated manifest (`SaveFails`).

`trashed` and `orphans` are history: the entry made for a file when it was last moved into the
bin (none once it was put there by hand), and the files that a fault has put at risk. Listed excuses those, and no
others: on either kind of node, files get lost from the manifest only by a read, a save or a
command that failed, or by a crash between the move and the save; overlapping requests and deletions that
fail lose none. MoveLosesNothing speaks of the host and of files that `os.Stat` can see, users' files and those that
were moved into the bin; what somebody puts into the bin by hand in the instant between the probe and the
move is overwritten.

Abstracted: the parent directory's existence and `forbiddenDataPath` in a restore
(refusals that change nothing), the thousandth name of a slot, clocks that
are set back, and node switches within an operation.

### LiveFeed

A behaviour is about one client: the Docker feed, the metrics feed, the tamper alerts or
a terminal. They follow one pattern with telling differences, and each of its handlers is an
action named after the client (`DockerClose`, `TamperClose`, ...). `sock` holds every socket
the browser has not forgotten, the one in use (`ws`) and those that were closed and still owe
their close event; `Die` makes a link half-open, after which the browser reports nothing of it.
Time is abstracted to `fresh`: the last sign of life is younger than the client's threshold, until
`Age`. A retry's delay grows in the code and is any delay here.

Which host a connection gets is decided twice. The page names a node or none (`Named`): Docker always the host it manages,
the metrics feed only if that host has an agent (`targetNodeId`), the alerts none, a terminal the node its window is bound
to, if it is bound (`termNode`). The server ties the connection to the node it named, or else to its own current
node at that instant (`Accepted`; `handlers_docker.go:1713`, `handlers_terminal.go:424`): to an agent by a bridge, to a
bare node by a loop of its own, and otherwise to the hub, one loop that reads whatever is current (`hub`, `Collect`).
`current` is moved by any page (`MoveCurrent`), `host` is what this page takes for current.

OnTarget claims that who asks for a node gets that node (or, a feed, the hub). The rest is not claimed because it is not so:

* a terminal that is not bound (outside the unified panel, opened from a file window, or into a container) connects to the server's
  current node each time it reconnects: a switch of the host in between lands its keystrokes on another machine,
  although `TerminalWindow.vue:101` says that connecting and reconnecting always use the window's own node;
* the metrics feed of a host without an agent that connects while the server's current node is another
  host, with an agent, is bridged to that one and stays so (`Astray`), under the former's name; the comment at
  `systemMetrics.js:148` has the panel's own loop in mind;
* a feed on the hub shows the node that is current at the server, until the page learns of it.

ShownFollowsHost is therefore claimed when the page's host is the server's current one too and the connection did not go astray.

What the differences amount to. The Docker and the metrics feed compare `ws` with their own socket
in every handler, the tamper alerts in none. Within one login that is enough, as alerts never reconnect by
force. Over two it is not: `store/tamper.js:66` says "全局仅此一条" (the only one globally), but when a logout's close event
arrives after the next login (start, stop, start, close), it clears the new connection, `scheduleRetry` makes another, and the
first stays open, also past the next logout. OneLive without its exception for the alerts fails on
exactly these five states; with it, it holds for the other three clients. NeverStranded and Reconnects show that
alerts keep coming in spite of it. A terminal's retry timer is not taken back when the user reconnects by hand, so
it may close a connection that works and open another (`TerminalRetry`); OneLive and
HeartbeatOnLive hold all the same. Switching persistence off and closing the window before the
answer comes leaves a connection behind that nobody uses (`TerminalToggled`): StoppedQuiet is claimed for the feeds only. The comment at `store/docker.js:169` announces that the
watchdog reconnects; the code only marks the feed stale, and so does `DockerWatch`. HalfOpenReplaced
is therefore claimed for terminals only, SilenceIsReported for the feeds.

The feeds' heartbeat is a timer that holds the socket it was armed for. `forceReconnect` replaces the socket and leaves
the timer, and the new socket's open handler does not arm another (`systemMetrics.js:191`, Docker the same): from the
first switch of the host on, or return to the foreground, the connection in use is not pinged, against
`systemMetrics.js:16`, until it closes and all is armed anew. The model has it so (`beat`); HeartbeatOnLive, which
would show it, is claimed for terminals only.

Abstracted: the contents of snapshots and frames (the host they are from), clocks of server and
browser that disagree (Docker's age is taken from the server's), a WebSocket constructor that throws.

### Desktop, TaskCenter, FilesWindow, Panel

`windows` maps the id of each open window to its key and the host it is bound to, `below` orders
them by z, `active` is `activeWindowId`, `minimized` whether that window is drawn, `request` the host of `store/requestNode.js`, `Target` where the
interceptor and the back end together send a request. An action is one handler with the watch on
`activeWindowId` that follows it. `OpenWindow` has the guards (rights, Star gate, local windows on a host without
an agent); `OpenForm` stands for the forms opened from inside a window, bound like windows, and
`OpenChild` for editors, terminals, logs and viewers, which are bound to no host.

Two consequences that the properties make exact, and that are not contradicted by any document: switching the
current host sends the requests of a bound window that keeps the focus to the new host until the next change
of focus (`FocusRoutes` names that case as the only one besides the toggle), and an editor opened from a window bound to one
host reads there and saves to the current host. Minimising hides the active window and changes nothing else (`MinimizeWindow`): it
keeps the focus and the requests, and the window one sees on top decides nothing until it is clicked. FocusOnTop
therefore says that no window is *above* the one that decides.

`TaskCenter` has the list with its selection, the log pane, the first load, the interval
and the calls in flight, each told apart by what its answer changes: a list call by its host, a log call by its
task. `RemoveAnswer` ends a removal, which acts on the task its dialog was opened for, selected or not. A task runs on one host (`HostOf`). `FilesWindow` has the listing, the selection and one loop (`batch`),
a deletion or an upload; an answer may list anything. The Delete key acts on the selection (`DeleteKey`), the context menu on
the item it was opened on, and on the selection only if that item is in it (`MenuDelete`): a listing that came since need not
have it, so SelectionListed says of the key, and not of the menu, that what is deleted is on the screen. The calls of a running loop go to
the host that requests go to by then. `Panel` mounts them in windows and unmounts them when the
window closes (or, for the task centre, when its tab is left).

Abstracted: positions and sizes, and which windows other than the active one are minimised; the panel layout
(`PanelLayout.vue`), which allows one window of each key and keeps the contents of closed tabs alive (`KeepAlive`,
`:162`), so that their intervals and key listeners go on; the text of lists and logs; the clipboard, previews; what a component does after it was unmounted (the task
centre's first load still sets its interval then, and a file window's its keyboard listener). The path of a
listing is left out, so what is uploaded where is not claimed.

## 4. Runs

All runs exhaust their state space; sizes are distinct states.

| Run | Bounds | States | Shows |
|---|---|---|---|
| `auth_sessions` | 2 accounts, 2 passwords, 2 requests, 2 sids, versions to 1, `ann` created twice, 1 offline reset, faults | 1.01 M | TypeOK, PasswordBinding, AdmittedWasLive, FullAdminRemains, GoneStaysGone, TableOfSignIns |
| `auth_logout` | the same, 1 password, versions to 2, no faults | violated | LogoutIsLocal |
| `file_cache` | 3 readers, 2 contents, 2 writes; users and sessions | 683 k | TypeOK, CacheSound, ReadsAreAtomic |
| `nodes` | 2 nodes, 1 key, 1 secret, 2 requests, 2 saves, 2 clients, faults | 1.49 M | TypeOK, CurrentExists, PoolExact, CacheHeals |
| `node_lost_update` | 3 nodes, no faults | violated | SavesKeepEachOther |
| `node_stale_pool` | 2 secrets, 1 save, no faults | violated | PoolIsCurrent |
| `node_scope` | 3 nodes (host, bare, agent), 2 requests, 1 loop | 53 k | TypeOK, NoCrosstalk, EveryoneEnters, NodeIsOwn |
| `frame_mixes_nodes` | the same | violated | FramesAreWhole |
| `trash` | 2 requests, 2 paths, 2 slots, 2 files, 2 entries; host and remote | 1.40 M | TypeOK, Listed, MoveLosesNothing |
| `trash_purge` | the same, nothing put into the bin by hand, no dangling links | violated | PurgeSparesTheFresh |
| `live_feed` | 4 clients, 2 sockets, 2 hosts, 1 caller | 143 k | TypeOK, OneLive, NeverStranded, OnTarget, StoppedQuiet, HeartbeatOnLive, Reconnects, RefreshSettles, LoadingEnds, SilenceIsReported, HalfOpenReplaced, ShownFollowsHost |
| `panel` | 2 windows, 2 hosts, 2 tasks, 2 files, 2 accounts | 91 k | TypeOK, RequestFollowsFocus, FocusOnTop, SelectionListed, ListCatchesUp, LogCatchesUp, BatchEnds, FocusRoutes |

Why the bounds are enough.

* *auth_sessions.* The races are between two requests: one that holds a value and one
  that changes it; with a crash or an expiry between them. Two accounts are what mutual
  demotion needs, two sids a login overtaken by a password change and a device
  next to the caller's. Versions up to 1 let each account's be passed once, which is
  what tells an old token from a new one; two births of a name let an account come back. One offline reset, of the seed account, is
  enough to put another password under a version. Requests that would exceed a bound wait.
* *file_cache.* One read fills late, one is about to hit, one has just begun; two
  contents, so that a content can come back; two writes, so that a fill can be one behind while
  another is two behind. Reads fail at any time.
* *nodes.* Two requests that save, or one that saves and one that connects; two clients
  so that one can replace the other. Secrets do not matter to these properties (one
  suffices) and are two where they do, in `node_stale_pool`; a third node gives
  two saves something to disagree on in `node_lost_update`.
* *node_scope.* Three goroutines are a writer inside, a writer that waits and a
  reader that queued up in between; the node kinds are all there.
* *trash.* Two requests are enough, as the lock lets one in at a time and what comes
  next is what matters: it finds what the first left. Two slots are one that is taken and the next
  free one; two entries are one that is kept and one that goes; two files are one in
  the bin and one that competes with it for the slot or is in the way of its restore. The first file made is one that
  `os.Stat` cannot see (`Unseen`), so both kinds meet.
* *live_feed.* Two sockets are the one in use and one that was replaced and still owes its
  close event; a third would be replaced in the same way. A host switches back as well as away. One caller of
  `refresh()` waits, is served and comes again; callers do not see each other. Either host may have an agent (the panel's own,
  h1, has none). A step that would need a socket while none is
  forgotten waits until a close event was delivered.
* *panel.* The desktop's questions are about the window that has the focus and one that has not, and
  about a window that opens over another: two windows, in the whole life of the page. One task on each of two hosts is what a late
  answer of the other host needs; two files are one that is deleted and one that is not. Task centre and file window share no
  state, so each account of this run may open one of the two (and forms and editors from it); the proofs have no such restriction. One
  host has an agent and one has not (`Barred`), so the task centre, a window of remoteCap 'local', is refused while the second is current.

Deadlock is checked in every run except `live_feed`, where a terminal that was closed has nothing left to do.
Workers are symmetric in the safety runs that use `SYMMETRY`; the liveness runs
use none.

### The five violations

Each contradicts a sentence of the source, quoted in `PROJECT.json` under
`findings`.

* **LogoutIsLocal.** Two logouts of one device overlap. The second finds its session
  gone, takes that for "expired or pruned" and bumps the account's
  `token_version`: all other devices are signed out.
* **SavesKeepEachOther.** `nodeStoreMu` is said to keep concurrent upserts from
  overwriting each other, but it covers only the save: two handlers that read the same
  table undo one another.
* **PoolIsCurrent.** A request that is connecting with the old credentials while an upsert
  changes them pools its client after the pool was cleared.
* **FramesAreWhole.** The read lock around a metrics frame keeps `withNodeScope` out,
  not `POST /api/nodes/current`, which runs under the same read lock: half of a frame
  comes from each machine.
* **PurgeSparesTheFresh.** An entry whose file is gone is said to be harmless, since the
  purge will not find its path. The next file of that name gets the path, and the
  purge of the old entry deletes it, however fresh. Such an entry remains when a
  restore's or a deletion's save fails (the run's trace), or when the file manager deletes or renames a file inside the bin.

## 5. Fairness

* AuthSessions, FileCache and Trash claim only safety and assume none.
* Nodes: every worker that is under way takes its next step (weak fairness on
  `Write` and `Reach`: goroutines are scheduled, saves return, `sshConnect` has a
  timeout), and the two seconds pass (weak fairness on `TtlPasses`). No request has to
  start, no link has to fail. CacheHeals needs exactly that: a stale fill wears off.
* NodeScope: weak fairness on entering and dispatching, none on leaving, as nothing ends a handler
  whose command hangs; EveryoneEnters has it as its premise instead. Strong fairness on `Announce`: writers compete for the mutex
  inside `sync.RWMutex`, and `sync.Mutex` goes into starvation mode and hands
  itself over to a writer that has waited for more than a millisecond. `Work` has no fairness: a handler
  need not do anything.
* LiveFeed: timers that are set fire, close events are delivered, awaited answers come, a half-open link
  grows old, the server's loop collects (weak fairness, each by itself). Strong fairness on a connection being accepted and on a frame getting through:
  a server that is tried again and again lets the client in some time – nothing is claimed of a server that
  stays down, except that the client keeps trying. Nothing is assumed of the user, of links breaking or of hosts
  being switched.
* Panel: the interval ticks; each call is answered or fails (axios gives up after 60 seconds, 120 and more for files); calls to one
  host, repeated for ever, do not fail for ever (strong fairness on `TasksListed` and on `LogAnswer`). The loop's next
  call is answered in either way. Nothing is assumed of the user.

## 6. Proofs

The theorems hold for every value of the constants that satisfies the module's
`ASSUME`, hence for any number of accounts, nodes, requests and steps. The assumptions
are that the constants have their kinds (bounds are naturals, the seed is a user,
`Local` a node) and that `Absent` is none of the values it stands beside.

**AuthSessionsProofs.** `TypeCorrect` from *Typed*: TypeOK and that a request that is
about to sign, revoke or touch has what it needs (`CarriesClaims`).

`PasswordBound`: PasswordBinding is not inductive, as it says nothing about a token
until it is accepted, nor of claims still on their way. The strengthening looks at all
claims in circulation, those signed and those a request will sign
(`Circulating`): each has a version no higher than its account's, if it belongs to the
account's present incarnation, and where the versions are equal its password is one the account has
had since the panel last set it (`Bound`, `AllBound`). A password change in the panel raises the version, so
claims with the old password can never be equal again; the offline reset leaves the version and only adds
to what the account has had (`AccountMoves`).

`AdmissionSound`: what is read in two halves must have been whole at one time. A
request that has the first half (`HalfWay`) was acceptable at its start if the
session is still in the table when it looks: sessions only disappear
(GoneStaysGone, and a sid is `Drawn` once). Conjoined: `Admission`.

`TableRefined`: the refinement of SignIns. To what the other theorems use (Typed, AllBound, Admission) it
adds *Owners*: a session is of the account its token names, and a request goes by the claims of the token it was
let in with; together they are `TableInv`. One lemma per handler shows the step of SignIns that it takes.
`AccountEnds` is the heart of those about accounts: after a higher version, a deletion or a new birth of the
name no token of the account is acceptable, because all of them carry a version no higher than the former one
(Bound), and no other account's tokens are touched. `IssueTokenTable` needs Bound again, of claims still on
their way. `AuthSessionTable` needs HalfWay: whoever was not acceptable at the first look cannot pass the second.
The offline reset is a step of SignIns in which nobody's sign-in ends. A read of `sessions.json` that fails turns a
request away, unless it is a login's: then the empty table is what the new session is entered in, and SignIns says so (`Issue` may
lose all others). A write that fails leaves the table as it was.

`FullAdminAlways`: inductive with Typed: each write of `users.json` is judged inside
its transaction. `GoneForGood`: every step, by cases.

**FileCacheProofs.** `Inv` is TypeOK with *Seeing* (the file as it is now has been
seen by every read in progress, and so has what a read holds, unless it holds the error of a failed read of the users),
*Statted* (a stamp that is still the file's belongs to a content that `Passes` for the file's: the file itself or, of the
sessions, the empty table once a read of them has failed), *Cached* (CacheSound plus: no stamp is from
the future), and *Probing*: an entry that a read in progress may yet
hit – in the cache, or in the hands of another read that will put it there – holds
content the file has had since that read began. Without Probing a late fill by a
second reader could answer the first with something older. From `Inv`, `CacheIsSound`
and `CachedReadsAreAtomic`: initial states map to initial states and each step to a
step of AtomicFile or a stutter.

**NodesProofs.** `TypeCorrect`, again with what each request is equipped with.
`CurrentAlwaysExists`: not only file and cache but every copy in a request's hands is
whole (`AllWhole`), for a copy may be saved at any time; each of the changes
a handler makes to its copy keeps that. `PoolIsExact`: that no client is lost is only half of what has to be
kept. `PoolInv` says as well that a client exists once it was made (*Fresh*), that the pool holds clients
that are up, each under the key of the node it was made for (*PoolKeyed*), that what a request is about to insert is up, was
made from the record it holds and is not in the pool yet (*Held*), and that no two requests hold
the same one (*HeldOnce*): without it one request could close the other's. Dropping an entry then closes
exactly the client that leaves the pool.

**NodeScopeProofs.** `Inv` ties `pc` to the lock (`LockMatches`: who announced, who reads,
a writer inside means no reader inside), the override to the one writer inside
(`OverrideMatches`), the current node to the table (`TableWhole`), what each request holds to its
`pc` (`AllPrepared`) and where it has acted to its scope (`AllKept`). `ScopesDoNotMix` follows: a reader
inside sees no override. `OverrideIsInvisible` is the refinement of OwnNode, one lemma per action. `HostOpRefines` is
the one that matters: the node that `opsNode` finds through the override and the table is the request's own, for a reader
because there is no override (`ReaderSeesCurrent`), for a writer because the override is the node it named and nobody else
is inside (`WriterSeesNamed`). `EnterWriteRefines` shows that whoever enters alone is alone.

**TrashProofs.** Listed is not inductive: a sweep writes back what it holds, so what it
holds must cover the bin. *Covered* says so: if the request could read the manifest, every file in
the bin that is not at risk has its entry among those the request keeps or has yet
to handle, and a file it has just moved itself has its entry among those it will save. With
*Exclusive* (who is not idle holds the lock), *OnePlace* (no file is at two places),
*Tagged* (a file's entry names the slot it is in: removing "all entries of this slot"
removes no other file's) and *OnFile* (what is not in the manifest is in the hand of a request
that is about to save) the invariant is inductive, and `AlwaysListed` follows. `MovesAreSafe`
adds *Unborn* (no file has an entry before it exists) and *Free*: on the host, the slot a move has chosen stays empty until
the file arrives, or holds only what nobody promised to keep (`Spare`: a file that `os.Stat` cannot see, or one
that was put into the bin by hand). Whatever else fills slots holds the lock.

**LiveFeedProofs.** The six invariants are inductive together once two facts are added. *Wanted*: a feed has
a socket only while it is subscribed. *OwnState*: what belongs to one kind of client (a retry of a feed, a
terminal's await, the waiting callers) is at rest in the others, so a handler meets only its own state. OneLive rests on every
handler that opens a socket closing or lacking the former one; NeverStranded on the close event being the only way in which
`ws` is emptied while the client is on; HeartbeatOnLive on the terminal's stale close events leaving `beat` alone.

**PanelProofs.** RequestFollowsFocus and FocusOnTop are inductive with DeskTypeOK. SelectionListed needs *Unmounted*: a file
manager that is not mounted has no listing, selection or call in flight, or a late answer could fill one that is not
there. FocusRoutes follows from the same invariant, step by step. The theorems hold for any number of windows, hosts,
tasks and files, and for any sets of rights.

**Only model-checked.** The liveness properties (CacheHeals, EveryoneEnters, the six of
LiveFeed and ListCatchesUp, LogCatchesUp and BatchEnds of Panel: liveness is out of the
prover's reach), and the five
violations, for which TLC's traces are the evidence. Every other property of a run is a theorem.

## 7. What the models leave out

The map covers about 1,200 of the front end's 96,000 lines and about 2,000 of the back end's. Most of the front end is not
something a model checker can say anything of: translations (`locales/`, more than half of its
lines), templates and styles, and windows that fetch a list, show it and post a form. What has state over several events
there, and several actors on it, is in LiveFeed and Panel. Left out for want of room rather than of interest:

* signing in and out of the page (a late 401 to a request with the former token ends the new session, `api.js:95`);
* the editor (`EditorWindow.vue:50`: what is typed during a save is marked clean by its answer);
* copy and paste of files (`FilesWindow.vue:419` reads the clipboard while it pastes) and several file windows at once;
* `store/nodes.js:46`: an old list answer puts the former current host back – in Desktop, `RefreshNodes` may set any host.

On the back end, besides the components listed as planned: the check and the count of the login throttle are two critical
sections (`handlers_auth.go:311`), and a success clears the counter of a name for all addresses (`:145`); a token
obtained with an old pairing secret is cached after `upsertNode` cleared it (`agent.go:698`); the hourly purge of the bin takes no node
scope (`trash.go:479`); output for a slow terminal client is dropped (`handlers_terminal.go:93`); a failed flush of the metrics puts its
batch back over the limit (`metrics_store.go:180`); the VPN watchdog stops what was woken up meanwhile (`handlers_network.go:970`);
writes within one tick of the file system's clock share a stamp (`auth.go:237`); the offline reset and a request of a running
panel can overlap in the middle of each other's read and write, as they are two processes with two locks (in AuthSessions the reset is one step).

# Verification of rci

rci is a continuous-integration daemon: services receive events (a pull request
on GitHub, a job an operator starts from a web page), every event has jobs, a
job gets a cluster of virtual machines from a provider, runs its scripts there
over SSH and gives the cluster back. The daemon is one asyncio loop. This
directory holds TLA+ models of it, the TLC configurations that check them on
small instances, and proofs that TLAPS checks for every value of the constants.

## Inventory

Each part of the system, with the state it keeps, what it does, what makes it
hard and what makes it correct.

| part | source | state | operations | what makes it correct |
|---|---|---|---|---|
| events | `rci/event.py` | status, `task_job_map` | `run`, `job_started_cb`, `job_finished_cb`, `update_status_cb` | every job is collected once, its cleanup started once and after its end; "finished" means all |
| jobs | `rci/job.py`, `rci/base.py` | status, cluster, the shared `env` | `run`, `_get_cluster`, `_update_status`, `cleanup` | a verdict is earned, and stable; the environment is the job's own; the cluster is given back |
| root | `rci/root.py` | maps of events, sets of coroutines and objects, `stop_event`, `reload_event` | `emit`, `_event_done_cb`, `start_coro`, `start_obj`, `run`, `stop`, `reload` | an event ends and is forgotten; a stop waits for cleanups; a reload takes effect |
| github service | `services/github/service.py` | token and session stores | webhook, events, status posts, OAuth | the last status posted is the verdict; a pull request starts its jobs |
| monitor service | `services/monitor/service.py` | connections, console listeners, user events, sessions | `ws_handler`, `startJob`, `endJob`, `connectJob`, broadcasts | a page follows the events; a closed connection leaves nothing behind |
| monitor page | `services/monitor/monitor.html` | one element per event | `taskUpdate` | an element per live event |
| openstack provider | `providers/openstack.py` | `_get_cluster_lock`, `_vms_semaphore`, clusters | `get_cluster`, `delete_cluster` | the quota holds, no slot is lost, no deadlock, clusters are whole |
| openstack client | `common/openstack.py` | token, headers | REST calls, polling with retries, login renewal | a deleted server is gone; the token is renewed |
| static provider | `providers/static.py` | none | `get_cluster`, `delete_cluster` | machines are handed to one job at a time (they are not) |
| ssh | `common/ssh.py` | `_connecting`, `_connected`, `closed`, `conn` | `_ensure_connected`, `wait`, `run` | one connection; a command runs on a live one |
| configuration | `rci/config.py` | `data`, `_project_jobs` | `load`, `get_jobs`, `is_project_configured` | each job of a matrix is found for each project |
| github client | `common/github.py` | requested OAuth states | `oauth`, REST calls | a state is used once |
| http, daemon, utils | `rci/http.py`, `rci/daemon.py`, `rci/utils.py` | none | start-up | - |
| virsh provider | `providers/virsh.py` | the hosts of the jobs, locks of images, bridges and machines of a host | `get_vm`, `build_image`, `_get_bridge`, `cleanup` | only what is built is cloned; bridges are private; nothing is left behind |
| lxc provider | `providers/lxc.py` | the hosts of the jobs, locks of images, containers of a host | `get_vm`, `_build_image`, `cleanup` | the same, without bridges |
| code no longer called | `services/gerrit.py`, `task.py`, `storage.py`, `common/periodictask.py` | | written for earlier interfaces of root and config | - |

How they interact. A service calls `Root.emit`, which makes a task of
`Event.run`; that makes one task per job and waits for them; a job awaits its
provider, then one SSH script after another; every change is announced through
`Root.notify_services` to the services, which broadcast to the browsers. When a
job's task ends, `Event.run` hands `job.cleanup()` to `Root.start_coro`, and
nobody waits for it. Everything runs on one loop, so two sections of code
interleave only at an `await`; what is hard is what happens between the awaits
of different tasks, and what is left when one of them raises. `PROJECT.json`
lists the hazards, each at its line.

## Modules

| module | models | kind |
|---|---|---|
| `JobEngine` | events, jobs, the registry of `Root`, the custom events of the monitor, the element on the page | detailed specification |
| `GithubReport` | the engine with the status posts of a pull request and what GitHub shows of them | extends `JobEngine` |
| `BuildContract` | what the daemon promises of an event: verdicts given once, leases returned once and after the verdict | abstract specification, implemented by `JobEngine` |
| `ClusterPool` | the openstack provider with the client calls it awaits | detailed specification |
| `PoolContract` | what a provider promises: a request is granted whole or refused, within the limit, one at a time | abstract specification, implemented by `ClusterPool` |
| `VmHosts` | the virsh and lxc providers: hosts, bridges, images, machines | detailed specification |
| `SshConnection` | the SSH objects of running scripts and of the jump host they share | detailed specification |
| `MonitorWs` | the WebSocket connections of the monitor, its broadcasts, the pages that reconnect | detailed specification |
| `ConsoleView` | the console of a job: the page's requests, the replies, the callbacks of the job | detailed specification |
| `OpenStackClient` | the login of the client with its renewal, and the calls that poll a server, in time | detailed specification |
| `ConfigMatrix` | `Config.load` with its matrix and validation, `get_jobs` | functions, and the actions that use them |
| `GithubSignIn` | the OAuth states, the requests that redeem them, the stored tokens | detailed specification |
| `GithubService` | the webhook, composed of `ConfigMatrix` and `GithubSignIn`, with restarts | composition |
| `RootLifecycle` | `Root.run`, `stop`, `reload`, the service objects with their cleanups, the start and stop of providers and HTTP server | detailed specification |
| `MC...` | one per specification or composition: its instances for TLC (`MCGithubReport` has those of the engine) | |
| `JobEngineProofs` | the engine and its reports: inductive invariants, safety theorems, the refinement of `BuildContract`; the watched engine is the engine | proofs |
| `ClusterPoolProofs` | inductive invariant, safety theorems, the refinement of `PoolContract` | proofs |
| `VmHostsProofs`, `MonitorWsProofs`, `ConsoleViewProofs`, `RootLifecycleProofs` | one module each: inductive invariant, safety theorems | proofs |
| `GithubServiceProofs` | the sign-in and the service as a whole, with what `FlattenSeq` computes | proofs |
| `CommonProofs` | the clients of `rci/common`: `SshConnection` and `OpenStackClient` | proofs |

A definition whose name ends in `_` and a suffix (`Collected_Pending`,
`Call_NoLock`) is a seeded fault: a plausible mistake in the code, used in the
place of the definition that follows it to see that a property fails. No
specification uses it.

The modules meet at their edges and do not import each other (but for the
detailed specifications their contracts, `GithubReport` the engine, and the
three of the github service each other): `ClusterReady` of
`JobEngine` stands for `get_cluster`, which `ClusterPool` takes apart, and
`CleanupEnd` for `delete_cluster`; `ScriptConnected` to `ScriptRaised` stand
for one script of `SshConnection`; `BuildRaises` and `StopServer` of
`ClusterPool` for what `OpenStackClient` takes apart; `JobEngine` has one page
that is always connected, `MonitorWs` many that are not. `RootLifecycle` says
that all of them are there before a request comes. Their composition is planned
(`CiSystem`).

### JobEngine and the code

An action is the code between two awaits of one task.

* `Emit` is `Root.emit`. `EventStart` is `Event.run` up to its first await,
  including all calls of `job_started_cb`; `EventStartRaises` is the same when
  `job_started_cb` of a github event raises because `core["logs-url"]` is not
  configured. Then one job task exists, and nobody ever waits for it. Whether
  it is configured is the variable `logsUrl`, which only `Init` chooses.
* `EventCollect` is what `Event.run` does when `asyncio.wait` returns: the done
  tasks are taken out of `task_job_map`, a task that raised gets the status
  "error", the cleanup of each is scheduled; with the last one the event is
  finished. `EventDone` is `Root._event_done_cb`, a callback of the event's
  task.
* `JobStart`, `JobBooted`, `BootFailed`, `ScriptConnected`, `ScriptOk`,
  `ScriptError`, `ScriptRaised` are `Job.run` between its awaits, `StopWake`
  the end of the monitor's `Job.run`. `_get_cluster` is a task of its own
  because of `asyncio.shield`: `ClusterReady` and `ClusterRefused`.
* `CleanupStart` and `CleanupEnd` are `Job.cleanup` in the wrapper `run_coro`,
  which swallows what it raises. A job that never got a cluster has no
  attribute `cluster`, so its cleanup ends at once.
* `Broadcast` is what the callbacks of the monitor and the page's
  `handleTaskUpdate` do together: an event the page does not show gets an
  element whatever the message says; one it shows loses it when the message
  says "finished".

Abstracted: which scripts a job runs (their number is kept), the text of a
status, titles and ids, the console output, and the contents of messages. The
configuration is one `Config.load` accepts, so every job names a known
provider, cluster, machine and script. The value of `env` is which job's
machine a variable names. The page is that of a browser connected all the time.

### GithubReport and the code

The module keeps the variables and the actions of `JobEngine` and adds what
they hand to `Root.start_coro`: `Start` and `Collect` are `EventStart` and
`EventCollect` with the callbacks of the github service, which make one post
per job. What a post says is fixed when its coroutine is made: "pending" in
`job_started_cb`, the status of the job in `job_finished_cb`, after the base
class has turned that of a task that raised into "error" (`Collect_Early` is
the other order). `Arrive` is GitHub taking a post; a post may never arrive,
since an exception of the request is logged by `run_coro` and a refusal is not
even noticed (`200 > resp.status > 300` in `common/github.py:108` is never
true). The variable `overtaken` is auxiliary. `ReportTruthful` says that no
post lies; `VerdictShown`, that the verdict is what GitHub shows in the end,
unless "pending" came last. `Followed` names the jobs whose posts are
followed: the posts of two jobs never meet, so one is enough.

### ClusterPool and the code

A request is one call of `get_cluster` and the `delete_cluster` that follows.
`Call` and `Grant` are the `async with` on `_get_cluster_lock`, first come
first served as `asyncio.Lock` is. `Choose`, `CreateNetwork`, `CreateSubnet`,
`AcquireSlot`, `CreateServer` are the first loop of `_get_cluster`, `Attach`
the second, `Return` its return; `BuildRaises` is an exception at any of its
awaits but the semaphore's. `Delete`, `StopServer`, `ReleaseSlot`,
`DeleteNetwork`, `Deleted`, `DeleteRaises` are `delete_cluster`. `ServerBoots`,
`ServerFails`, `ServerStops` and `ServerStays` are the cloud, modelled from the
way the client polls it. `Turn` is the order in which the build takes the vms
of a cluster; the order in which `delete_cluster` takes them from a dict is
left open.

Two details of `delete_server(wait=True)` are kept, since much depends on them.
It takes every answer but 200 for "gone" (`openstack.py:250`), so a poll that
the cloud answers with an error gives the slot back while the server is still
there (`MisreadPoll`): the server is then a "ghost" until it is removed, or
"undead" if it never is, and what is left in the cloud is excused only where
such a poll has been. And it does not look at the status of the DELETE
(`openstack.py:243`): when the cloud refuses it, or agrees and fails, the
server is "stuck", the poll is answered with 200 each time, and the deletion
with its slot never ends. A network whose deletion is refused is "kept" if a
server is in it, and "refused" otherwise.

Abstracted: flavors, images, ports and addresses; static networks; the number
of polls of `wait_server` (its timeout is one of the reasons of `BuildRaises`).

`ImplementsPoolContract` maps a request that waits or builds to "asked" and
the slots to what is held. The contract has no lock, no networks and no cloud;
what the code has them for is in its guard: a server is taken only while nobody
else holds a part of a cluster that is not granted. It promises nothing of what
a refused request has taken, as the code gives that back to nobody.

### VmHosts and the code

The two providers have an earlier interface, `get_vm(name, job)` per machine
and `cleanup(job)`; the job that calls them is no longer in the repository and
is modelled by that order alone (`Wants`, `Cleanup`: the machines one after the
other, then `cleanup`, also when a call has raised). What they do is the same
in both, so there is one module: `Backends` says which storages are meant, and
`backend` is the one that is configured.

`Call` is `get_vm` up to its first await, `Choose` and `ChooseRaises` are
`_get_host` under its lock. `ListBridges`, `AddBridge`, `BridgeRaises` are
`_get_bridge`; the numbers of the bridges are read in one command and used in
the next. `Enter` is `build_image` up to the answer of `exist`; for the image
of a parent it calls itself, and `path` is its stack. `Make`, `MakeEnds` and
`MakeRaises` are the commands that download, clone or create an image and the
scripts that finish it, or their exception. `Clone`, `Booted` and their
exceptions are the machine; it is noted (`_job_vms`, `job_vm`) only when it has
booted. `Cleanup` to `CleanupEnds` are `cleanup`.

A command whose connection is lost ends with the status `None`. `SSH.run`
raises for that when it checks the status, since `None` is not 0: the task
raises, and the host may have carried the command out all the same
(`MakeRaises` with `Remains`, `CloneRaises`, `BridgeRaises`, `DestroyRaises`).
`exist` is different, as its command runs unchecked. On zfs and lxc any status
but a failure means "there", so a lost connection finds an image that is not
(`Finds`), and a command that fails misses one that is; on btrfs the empty
output of either reads "not there" (`Misses`), and the next command deletes a
child image, which other jobs may be cloning. The auxiliary variable `misread`
has the images of which `exist` has said what was not so, host by host, and
`ClonesWhatIsBuilt` says nothing of them. The variable `lost` has the machines
whose clone, boot or destruction failed; `GivenBack` allows these to stay. The
bridge of a job stays on its host in any case.

A host is chosen in an endless loop under the lock of the provider. On virsh it
waits for free memory and load (`tight`, which `LoadChanges` sets as it will);
on lxc, for the number of containers, and there a failing `lxc-ls` counts as
none, as the status is that of `wc` (`lxc.py:45`).

Locks are no variables: all are taken and given back by `with`, so who holds
one follows from where the tasks stand (`Choosing`, `Adding`, `Holders`). What
a storage does with a name is kept: `zfs create` and `zfs clone` refuse one
that exists, btrfs deletes it first, and what `exist` asks for is the snapshot,
which is taken last, on zfs, and the name elsewhere (`There`).

Abstracted: how much memory and load a host has (it has room or not), MAC and
IP addresses, the XML of a domain, the contents of an image ("partial" or
"built"), and which of several networks a bridge is for. Every image has a
`url` or a `parent`, and every machine an `image`.

### SshConnection and the code

`VM.get_ssh` makes a new `SSH` object for each script, so an object's own lock
has one user; what is shared is the `SSH` object of the jump host, which
`Provider.start` has connected. A task is `SSHVM.run_script`: `wait()` and then
`run()`, both of which begin with `_ensure_connected` of the object, and that
with the one of its jump host. `Enter` and `Grant` take the lock of the jump
host, `Check` looks at its `_connected`. `Made` is the callback
`connection_made`, which sets the flag before `create_connection` has returned;
`Resume` is the task after it, which assigns `conn`; between the two the
connection may be lost. `Fails` is any exception of `create_connection`.
`Retry` and `GiveUp` are the loop of `wait()` and its timeout; `Open`, `Exit`
and `ExitLost` are the session. `Lost` is `connection_lost`, at any time.

The asyncssh library is modelled by what it does to these callbacks, and by one
fact of its documentation that `run` depends on: `get_exit_status` is `None`
when no status was received. Abstracted: keys, output, standard input, the
length of delays (`MaxTries` says how many of them fit into the timeout).

### MonitorWs and the code

A connection is one call of `ws_handler`. Its first part awaits the
organisations of the user; `Authorised` is the part from there to the loop over
the messages, which has no await. `Broadcast` is `_broadcast` with the loop
over `connections`: a `send_str` that raises ends it (`Cuts`), and
`notify_services` logs the exception. `Close` is a page that goes away,
`HandlerEnds` the end of the handler with the lines after its loop,
`HandlerRaises` an exception or a cancellation in it, which skips them.
`Connect` and `TaskUpdate` are `connectWS` and `handleTaskUpdate`. `Finish` and
`Forget` are apart because the done callback of an event's task runs after the
task has ended: a page that connects in between is told of a finished event,
shows it, and has to be told once more. `Raise` is the end of `Event.run` by an
exception, as `EventStartRaises` of `JobEngine`: the status of the event is
still "pending" when `Forget` announces it, so that announcement makes an
element or keeps it, and the jobs that outlive the event update it later
(`Update`). Such an event is "lost", and its element stays until the page
connects again.

The variable `missed` is auxiliary: it has the connections that an aborted
broadcast has not reached. Two pages and two visits each are the least for
which a broken connection comes before or after a good one in the list, and for
which a page has an old connection that is still being handled.

### ConsoleView and the code

The page asks for the console of a job with `connectJob` (`processHash`, on a
change of the hash and when a connection opens) and gives it up with
`disconnectJob` (`switchTab`, when `connectedTaskJob` is set). Requests and
replies are under way in order, and both may be lost with the connection.
`Handle` is one round of the handler's loop. `callbacks` has the members of
`console_callbacks` by the connection they send to; those are in
`_jobws_cb_map` as well, so discarding all of the map for a job and a
connection leaves none. `listeners` is `_ws_job_listeners`, which only grows.

`HearsWhatItShows` says that the page's idea of what it hears is right once the
replies have come. It does not say that the page hears what the user last asked
for, and that is not so: the reply `jobConnected` calls `switchTab`, and that
sends `disconnectJob` when another job was connected. As
`_disconnect_ws_console` drops all the callbacks of the connection, a user who
goes from one job straight to another, or whose page reconnects, ends with the
tab of a job open and no console. The page then knows it (`connectedTaskJob` is
null).

### OpenStackClient and the code

Time is counted in ticks: `due` is what is left until the next login, `left`
until the token expires, `sleep` until a caller polls; `Tick` passes only when
nothing is due. `LoggedIn`, `LoginFails` and `Renew` are `login` and its
`call_later`; `token_data` and the header are assigned apart, so a refused
login leaves the old token in the headers and no catalog. `PollWait` is one
round of `wait_server` with `get_server`, `PollDelete` one of `delete_server`.
The cloud refuses a request whose token has expired, and it may be unable to
answer any other. `get_server` raises for every status but 200; `wait_server`
then ends with an exception, and `delete_server` returns as if the server were
gone: `misread` (auxiliary) has the callers to whom that has happened.
`delete_server` does not look at how its DELETE was answered; a server whose
DELETE was refused, or whose deletion failed, is "kept" and polled for ever.
`ClientAssumption` has the assumption the code makes without saying so: the
delay of the renewal and the time it takes are less than the lifetime of a
token (3300 s of 3600 s). `ClientSpec` and the like have names of their own
because the proofs extend this module together with `SshConnection`.

What holds is stated up to the first failed login, and of a deletion only as
long as its polls are answered (`DeletedMeansGone`). After one, nothing
schedules another, and all calls fail from then on; a failed renewal takes the
catalog away at once if it was answered.

### ConfigMatrix, GithubSignIn, GithubService and the code

`Expanded` is what the loops over matrices, projects and types append to
`_project_jobs`, `Valid` the checks of a job's provider, cluster, machine and
script, `Load` both. A job names one machine and one script: `load` checks each
of several in the same loop.

In `GithubSignIn`, `SendOn` is `/login` or `/registraion` (the code's spelling)
with `generate_request_url`; `Redeem` is a request to `/oauth2` up to the await
in `OAuth.oauth`, `Unknown` the same when it raises `UnknownState`; `Exchanged`
and `Named` are the answers to its two awaits, `Raises` an exception at either.
`Named` ends with the exception that the missing `self.url` raises: the token
is stored by then, the session not yet. `ServiceRestarts` is a new `Service`
object: `_requested_scopes` and the requests in flight are gone, `users.db` is
opened again. `visits` and `exchanges` are what the browsers and GitHub know.

`GithubService` adds the webhook: `PullRequest` needs a loaded configuration
and a token of the owner, `Push` prints. Nothing stores the token of an
organisation; a store that has one is an input (`OrgsStored`).
`ChangeRequestServed` compares the jobs of an event with a reference that does
not append: the set of the places in the file that mention the job.

### RootLifecycle and the code

`main` is where `Root.run` stands. `Load` is all that comes before its first
await: the configuration and the creation of the services (a failure leaves any
part of them started). `StartProvider`, `Serve`, `ServeRaises` go on to the
wait for `stop_event`; `Interrupted`, `JoinRaises`, `CancelObjects`, `Drained`,
`Cleaned`, `StopProvider`, `CloseHttp` and `Exit` are the rest of it, await by
await. `Reload` and `ReloadEnds` are the task of `Root.reload`; `ObjectEnds` is
the end of `run_obj` with its done callback, `CleanupEnds` the end of
`run_cleanup`. `Sigint`, `Sighup` and `Edit` are the operator.

The order of the providers is that of a dict of the configuration: the constant
`Orders` has those that may come, and the variable `order` the one that does.
Three details of the code are kept. `stop_event` may be set while the providers
start: `wait` then returns at once, `reload()` is cancelled before its first
step, and `Root.run` raises (`JoinRaises`). `asyncio.wait` refuses an empty
set, so `Root.run` raises when no service is left (`CancelObjects`). The loop
over the providers stops `prov`, the last one that was started, each time, and
raises when that one has no method `stop`, as the static provider
(`StopProvider`). When `Root.run` returns or raises, or a signal comes after
`stop` has removed the handlers, nothing of the daemon runs any more.

Abstracted: the HTTP routes, what the providers do in `start` (they may raise),
and what a service does while it runs: those of the repository wait for ever,
and a service of another module may end. A configuration is its version.

## Runs

| run | instance | shows |
|---|---|---|
| `engine` | a pull request with two jobs (two scripts and one), an operator's event, with logs-url and without; clusters are refused, scripts raise, deletions fail, posts are overtaken or lost | `CleanupAfterJob`, `OrphansFromFailedStartOnly`, `FinishedMeansAll`, `VerdictEarned`, `PageFollowsEvents`, `ReportTruthful`, `VerdictShown`, `EnvironmentIsOwn`, `ImplementsContract`, `EventEnds`, `ClusterGivenBack` |
| `engine_env` | two jobs whose clusters have a machine of the same name | `EnvironmentIsOwn` is violated |
| `pool` | requests for one server, for two on a network and for three, two slots; builds and deletions fail, DELETEs are refused, polls misread | `QuotaRespected`, `ReturnedWhole`, `NetworksOutliveServers`, `DeletedLeavesNothing`, `ImplementsPoolContract`, `AnsweredOrLost` |
| `pool_leak` | two slots; builds fail | `Answered` is violated |
| `ssh` | two machines behind the jump host, one beside it; connections are lost | `FlagMeansLive`, `OneConnection`, `TunnelUsed`, `CommandOnOwn`, `ScriptEnds` |
| `ssh_status` | one machine whose connection is lost | `OkMeansExited` is violated |
| `ws` | two pages that reconnect, one event; handlers, sends and the run of the event fail | `Registered`, `PageCurrent`, `ElementsGo` |
| `console` | a page that reconnects, two jobs; handlers fail | `HearsWhatItShows`, `EndedHearsNothing` |
| `osclient` | two callers; a token is renewed after three of its five ticks; logins fail, DELETEs are refused, polls misread | `TokenAccepted`, `DeletedMeansGone`, `PollsEnd` |
| `github` | 1248 files of one or two matrices, right and wrong; two users, two sign-ins, two requests in flight, restarts | `ChangeRequestServed`, `JobsRunnable`, `ExchangedOnce` |
| `lifecycle` | two services, one with a cleanup; two providers in both orders, one without `stop`; everything may fail | `ExitIsOrderly`, `AbandonedOnStartOnly`, `StopCompletes` |
| `vmhosts` | zfs, btrfs and lxc; two hosts, an image and its child, a job with two machines of the child and one with a machine of each; everything may fail, and `exist` may be wrong | `ClonesWhatIsBuilt`, `BridgesPrivate`, `GivenBack`, `JobsEnd` |

Type invariants are not among the runs' properties: all are proved.
`SlotsAddUp`, `OneUnfinishedCluster`, `VerdictStable`, `ServesWhenReady` and
`TokensGenuine` are proved and not run: the contracts imply the second and the
third, and the first is what the refinement rests on.

The bounds. Two jobs in one event are the least for which one can end, be
collected and be cleaned up while the other runs, and for which `env` is
shared; two scripts the least for which a failure can have a successor; the
operator's event interleaves with the pull request. An event without jobs (a
project without a matrix, a closed pull request) is finished in its first step;
the proofs cover it. The posts of one job are followed. In the pool one cluster
needs as many slots as there are, so it waits for slots others hold, and the
third needs more than there are; the run `pool_leak` has three that fit. One
network with two servers in it is the least for which a deletion of the network
may come between those of its servers. For SSH, two scripts compete for the
jump host, and `MaxConn` = 3 connections are enough for it to be lost,
reconnected by one script and used as a tunnel; a script that would need one
more connection is told that nobody answers. `MaxVisits` = 2 in `MonitorWs` and
`ConsoleView` makes a page reconnect once; `MaxInbox` and `MaxMessages` keep
the user and the jobs from going on while messages are under way, and leave
room for requests that cross replies. In `OpenStackClient` the ticks keep the
order of the real delays (poll < renewal < lifetime), and several renewals
happen within one wait. Two sign-ins may be of one user or of two, with the
same or different scopes, and two requests in flight are the least that may
carry one state or cross each other; states and requests are symmetric. A
restart reads the same file again. For the hosts, one job may want the parent
while the other, with the lock of the child, builds or clones it, and both may
want the child; a job with two machines returns to its host, and
`MaxContainers` = 2 makes hosts full, also of leftovers. Both jobs have a
bridge. For the daemon, two services and two providers tell "one" from "all"
and "the last" from "each"; the file is edited `MaxVersion` times. Every event
is emitted and every request made at most once, so most models stop
(`CHECK_DEADLOCK FALSE`); `OpenStackClient` does not, and deadlock is checked.

What the three violated runs show:

* `engine_env`: all the jobs of a github event are given one `env` dict
  (`github/service.py:63`), and `_get_cluster` updates it (`job.py:32`). When
  two clusters have a machine of the same name, a job's script is told the
  address of the other job's machine. With distinct names (`engine`) it is
  right, for any jobs and clusters (`EnvironmentIsOwnWhenApart`).
* `pool_leak`: a slot is taken per server and only given back per deleted
  server of a returned cluster. A build that raises loses its slots
  (`openstack.py:72`), and later a caller waits for ever with the lock. It is
  one of four ways not to be answered that `AnsweredOrLost` allows. The others
  are a deletion that raised, a server the cloud does not remove, whose
  deletion polls for ever, and a cluster of more than `max_vms` servers, which
  waits for ever with the lock.
* `ssh_status`: when the connection is lost while a script runs, there is no
  exit status, and `None` counts as success (`ssh.py:193`, `base.py:50`).

Noticed in reading, and not worth a run:

* `delete_server` reads neither the status of its DELETE nor, as `get_server`
  raises for all of them, which status but 200 ended its polls
  (`openstack.py:241-252`): a refused DELETE is polled for ever, and a 503 is
  taken for "gone". No document says how long a deletion may take.
* `exist` of the VM hosts takes a lost connection for "there" on zfs and lxc
  (`virsh.py:68`, `lxc.py:72`) and for "not there" on btrfs (`virsh.py:126`),
  where a child image is then deleted and built again while others clone it
  (`virsh.py:115`). It is the `None` of the finding `ssh_status`, one caller
  on.
* The element of an event whose run raised stays on every page (`event.py:66`,
  `github/service.py:72`), since the done callback announces it as "pending".
* On btrfs and lxc what a failed build leaves is taken for the image by the
  next job (`virsh.py:123`, `lxc.py:71`); on zfs it is not, but `zfs create`
  then refuses its name, so it can never be built (`virsh.py:86`). A machine
  that fails to boot is on no list and stays (`virsh.py:304`, `lxc.py:114`), as
  is one whose clone was made by a command that raised (`virsh.py:263`), and
  bridges are never deleted (`virsh.py:312` only forgets them).
  `max_containers` is compared before a container is made (`lxc.py:161`), so
  two jobs that are given a host one after the other may exceed it.
* `reload()` calls `Config` with three arguments (`root.py:193`) where it takes
  one (`config.py:40`). The `TypeError` is logged, and the daemon keeps the
  configuration it started with.
* `README.rst:11` documents other event types than `config.py:75` expands (`cr`
  and `push`); the webhook asks for `cr` and `cr-closed`, and `_webhook_push`
  prints its data. `ChangeRequestServed` is stated for `cr`.
* A `Client` without a `cafile` has no attribute `session`
  (`common/openstack.py:111`), so its login raises.
* `_http_oauth2` and `_http_add_org_webhook` of the github service read
  `self.url`, which is never set. So no session ever has a token, `/settings`
  answers 401, and pull requests of an organisation's project raise for want of
  a token.
* A later sign-in replaces the stored token (`service.py:202`), also one of
  `/login`, which asks for fewer scopes than the statuses of pull requests
  need.

## Fairness

`JobEngine!Fairness` has one condition for each event and one for each job:
asyncio runs every ready task and callback, so the next section of each is
weakly fair; and it is assumed that a provider answers, a script ends and a
deletion ends. The code has no timeout for any of these three, so this is an
assumption on the environment, and the liveness results hold only with it. A
job never waits for the loop and for the environment at once, so one condition
says both. Nothing is assumed of the services and of operators, and none of the
posts to GitHub need arrive.
In `ClusterPool` the loop is fair, the cloud answers, and the owner of a
cluster eventually deletes it, which is what `JobEngine!ClusterGivenBack` says.
A server need not become ACTIVE, but the wait for one in ERROR raises; one that
is to be deleted is removed or found to stay, and then it stays. A request is
one task, so it has one condition (`TaskStep`). Weak
fairness of the acquisition suffices: only the holder of the lock waits for
slots, so nobody takes one from under it. A failure is never assumed to happen
or not to happen otherwise.

In `SshConnection` the loop runs what is ready, a connection attempt is
answered or fails (TCP has timeouts), and a command ends, which is the
assumption of `JobEngine` again. In `MonitorWs` messages arrive, GitHub answers
and the done callback of an event runs, also when its run raised; pages are not
assumed to come, go or come back. In `OpenStackClient` time passes, the loop
runs what is due, a login is answered or raises, and the cloud ends a deletion
it has agreed to, by removing the server or by keeping it. A server that never
leaves BUILD is allowed, and `wait_server` ends by its counter; a server that
is kept is allowed, and `delete_server` then need not end (`KeptForEver`).

In `VmHosts` a command, a download, a script or a boot ends, well or badly
(each is a command over SSH, or a loop with a timeout), a caller goes on, and
a host that keeps its room is found. That a host does not answer while one is
chosen (`ChooseRaises`), or that a full lxc host is taken for empty, is allowed
and not counted on. `JobsEnd` has the hypothesis that some host is from some
time on never full (`Full`): without it the choice may go on for ever, with the
lock held, on virsh as on lxc.

In `RootLifecycle` the loop runs what is ready, a cancelled service ends (its
`run` waits on an event) and a cleanup ends, which is an assumption on plugins.
No signal is assumed to come, and a service need not end by itself.

## Proofs

`JobEngineProofs`. `TypeCorrect` is direct. The safety invariants are not
inductive: that a cleaned-up job has ended says nothing of why `EventCollect`
only takes ended jobs. `IInv` adds, for each job, how the place of its task,
its status, its cluster and its cleanup go together, and for each event what
its task says of its jobs and of the page. `InvInit` and `InvStep` prove it
inductive, with one step per action; `CleanupAfterJobCorrect`,
`OrphansCorrect`, `VerdictEarnedCorrect`, `FinishedMeansAllCorrect` and
`PageFollowsEventsCorrect` follow from it, `VerdictStableCorrect` from it and a
step. The only assumption is `EngineAssumption`.

Its second part is the refinement: `RefinesStep` maps every step to a step of
`BuildContract` or a stutter, under `IInv`: `Emit` to `Accept`, `JobStart` to
`Take`, a verdict to `Decide`, `EventDone` to `Close`, the end of a cleanup to
`Return`. An event whose start raised is forgotten, but never closed in the
sense of the contract, so the refinement holds with logs-url and without it.

`EnvironmentIsOwnWhenApart` is the one theorem with a hypothesis of its own,
`NamesApart`: no two jobs of an event have machines of one name. The run
`engine_env` has the counterexample when they do. `EnvInv` is what makes it
inductive: while a job holds its cluster, the variables of its machines are its
own; only `_get_cluster` writes them (`EnvUntouched`).

In its third part every step of `ReportSpec` is a step of the engine
or a stutter (`EngineStep`), so `IInv` holds there too, and only the posts need
an invariant of their own: `PostInv` says what may be on its way and shown
before the event lets go of a job and after it. That it is preserved rests on
one fact of the engine, `CollectedStays`: the status of a collected job never
changes. The assumption is `ReportAssumption`.

`ClusterPoolProofs`. The invariant relates the lock to the one request in
"building", the slots to the states of the servers, and the networks to the
servers in them, and says of a network that was kept that a misread server is
in it (`KeptInv`). `SlotsStep` (the semaphore counts), `LockStep`, `ServerStep`
and `NetStep` are proved apart and put together in `InvStep`; the six safety
properties follow. `QuotaRespectedCorrect` uses the cardinality theorems of the
library. `RefinesStep` maps `Call` to `Ask`, `AcquireSlot` to `Take`, `Return`
to `Grant`, `BuildRaises` to `Refuse`, `ReleaseSlot` to `Free`, and so on; the
lock gives the contract's guard that nobody else is building, and `SlotsStep`
the one that a slot is left. The assumption is `PoolAssumption`; that the
servers are finitely many is used for the cardinalities only.

`RootLifecycleProofs`. None of the three properties is inductive: that no
service runs when `Root.run` returns says nothing of what it waited for.
`PlaceInv` relates the place of `Root.run` to the configuration, the providers,
the server and `reload()`; `ServiceInv` relates it to the tasks of one service.
`PlaceStep` and `ServiceStep` preserve them, action by action. The assumption
is `LifecycleAssumption`.

`VmHostsProofs`. Locks are no variables in the model, so the invariant says who
can be where: one task of a host adds a bridge (`AddsAlone`), one is past the
lock of an image (`LocksAlone`). `PathInv` says that the calls of `build_image`
on the stack go from an image to its parent each time; `ImageInv`, that what a
task is about to clone is built. That this is preserved is `BuiltStays`: what
is built on a host is not made again, whoever asks for it, because a task makes
an image only while it holds the locks of all it has looked for in vain
(`MissInv`), each once (`Distinct`). `ImageInv` and `MissInv` have the
exception `misread`, which only grows: an image of which `exist` has erred on a
host is excused there from then on, and no other image is. `MachineInv`
accounts for every machine of a job on every host: its clone, boot or
destruction has failed, it is noted where the job has its host, is about to
boot, or is about to be destroyed; `GoneInv`, that a job which keeps the number
of its bridge has lost a machine; `BridgeInv` says that the numbers a job has
are below the host's counter. `ClonesWhatIsBuilt`, `BridgesPrivate` and
`GivenBack` follow. The assumptions are those of `VmHosts` alone: any hosts,
any images with any parents, any jobs, each storage.

`MonitorWsProofs`. `Registered` is preserved with two facts about lists
(`ListAppended`, `ListRemoved`) and with the stages of the handlers.
`PageCurrent` says nothing of a page with messages under way, and is not
inductive. `PageInv` says where these messages lead: for each event, `Agrees`
relates its status to what the page shows and to the places of the messages
about it. While an event is live, the page shows it or will, and nothing under
way says otherwise (`Stays`). When a page has connected after the end of the
task and before its done callback, it is told once of a finished event it does
not show, and will show it (`Late`). After the done callback, nothing is under
way and nothing shown, or the last message about the event is its announcement
as finished, and what comes before it leads to one of the two states. Of an
event whose run raised nothing is claimed once its callback has run
(`AgreesLost`), since its jobs may announce it at any time; until then it stays
shown like a live one. A broadcast (`AgreesBroadcast`), a message the page
handles (`AgreesReceived`) and the announcement of all tasks
(`AgreesAnnounced`) each keep `Agrees`. The assumption is `WsAssumption`; the
bounds are any numbers.

`CommonProofs`, the SSH connections. What makes the flag tell the truth is who
may change it: `LockInv` says that a task is in `_ensure_connected` of the jump
host exactly while it holds the lock, and that one task does; `AttemptInv`,
what a task knows of the connection it deals with (it is the only open one of
its object, and the tunnel it carries belongs to the jump host); `HostInv`,
what holds of an object nobody is connecting; `TunnelInv`, that the tunnel of
an open connection is recorded. Their conjunction is inductive (`IInvStep`, one
lemma per group of actions), and `FlagMeansLive`, `OneConnection`, `TunnelUsed`
and `CommandOnOwn` follow. The assumption is `SshAssumption`; the bounds are
any numbers.

`ConsoleViewProofs`. `EndedHearsNothing` needs one fact more: a callback is
only in the set of a job that its connection has listened to (`Listened`), so
that the loop over `_ws_job_listeners` finds them all.

`HearsWhatItShows` needs to know how the replies under way will turn out.
`Coming` has the replies `jobConnected` that no `jobDisconnected` follows,
which are those that decide what the page will show; `Agreement` says that the
connection is in the set of a job's callbacks exactly if the page shows the job
and will go on showing it, or such a reply is coming, and that it is there more
than once only when the page will receive one while it has a job connected
(`Clash`). Then it asks to disconnect, so nothing is claimed while that request
is under way. `Unused` says that nothing has happened on a connection to come.
The assumption is `ConsoleAssumption`.

`GithubServiceProofs`. That a code is exchanged once follows from `Fresh`: a
state that still waits has not been exchanged. `Served` (a request in flight
has exchanged its state) makes `TokensGenuine` inductive: between the two
awaits any other request may run, and the token still belongs to the visit of
the state the request took. `SignsIn` carries this to the service: every step
of it is a step of signing in, a restart, or a stutter.

The other half is about the configuration. `JobsRunnable` follows from what
`load` refuses (`ExpandedRunnable`) and from the lists being used only when it
has not (`ConfigInv`). `ChangeRequestServed` counts, so it needs what
`FlattenSeq` computes for sequences of any length: `FlattensExists` shows by
induction that the function it chooses exists, `FlattenSeqCounts` that an
element has as many places in the result as in all the parts, `RepeatCounts`
and `ExpandedCounts` the same of the loops of `load`. The induction is over
numbers and about a set of them (`NatSetInduction`, from the least element of a
set by the library's `WFMin`), as the induction theorems that take an operator
cannot be used. The assumptions are `ConfigAssumption` and `SignInAssumption`;
the files are of any size.

`CommonProofs`, the client of the cloud. `TokenOutlasts` says by how much the
token outlives the timer: by more than the latency of a login while the timer
runs, and by what is left of that latency while the login is under way.
`TokenAccepted` follows, and with it `DeletionAgreed` is inductive: as long as
the token is accepted, the cloud has been asked to delete a server that is
polled for its deletion; a poll that ends the loop has then found it gone, or
is one the cloud could not answer. Here the assumption carries the result:
`ClientAssumption` has `RenewDelay + Latency < Lifetime`, which the code takes
for granted (`token_renew_delay`).

TLC has checked the inductive invariants of the engine, the pool, the daemon,
the hosts, the console and the connections of the monitor on instances before
they were proved. Every safety invariant of a passing run is a theorem.

Only model-checked: `EventEnds`, `ClusterGivenBack`, `AnsweredOrLost`,
`ScriptEnds`, `ElementsGo`, `PollsEnd`, `StopCompletes` and `JobsEnd`, since
liveness under fairness (and ENABLED) is out of the prover's reach. What the
modules compute with data is proved where a property counts on it; the order
of the jobs in an expanded list is not, as no property is about it.

## Plan

The modules above were planned in the order engine, pool, daemon, SSH, pages,
client, configuration, reports, contracts, hosts. What is left, the most
important first:

1. `CiSystem`: `JobEngine` with `PoolContract`, with the static provider and
   with the end of the daemon, so that what the engine and the pool assume of
   each other is checked, and it is said what a stop leaves in the cloud.
2. Contracts, with refinements, for the page (`MonitorWs` and `ConsoleView`
   each keep a promise to it) and for one SSH command.
3. The stream of `gerrit.py`: the lines of `gerrit stream-events` are put
   together from pieces, across reconnections.

No module that is proved about uses a RECURSIVE operator.

## Not modelled

HTTP, YAML, DBM and WebSocket encodings, logging, the HTML of the page, and
command-line parsing are I/O without protocol state. `gerrit.py`, `task.py`,
`storage.py` and `periodictask.py` belong to earlier interfaces and nothing of
them runs with this root. `virsh.py` and `lxc.py` are no longer called either
(`lxc.py` cannot even be imported, as `base.BaseProvider` is gone), but what
they do between their awaits is their own, so `VmHosts` has it with external
callers; the metadata server, the iptables rules and the keys of their images
are left out. The static provider keeps no state and waits for nothing; what it
means that its machines are shared is for `CiSystem`. The cloud, GitHub and the
SSH servers are modelled only as far as the code looks at their answers.

# dr.dsh in TLA+

A verification development of dr.dsh: a phone or browser (the PWA) reaches a DSH process
on somebody's machine through a relay that must not be trusted with anything. Three
programs take part.

```
  PWA / client  <== WebSocket ==>  relay  <== WebSocket ==>  daemon (drdshd)  -->  DSH
  tunnel.ts                        rooms.rs, ingress.rs      uplink.rs, transport.rs,
                                                             lifecycle.rs, supervisor.rs
```

Paths below are relative to the repository; `relay/x.rs` abbreviates
`crates/dr-dsh-relay/src/x.rs`, `daemon/x.rs` `crates/dr-dsh-daemon/src/x.rs`, `crypto/x.rs`
`crates/dr-dsh-crypto/src/x.rs`.

## 1. Inventory

| component | state it keeps | operations | what makes it correct |
|---|---|---|---|
| Room table, `relay/rooms.rs` | rooms by id, each with at most one daemon and up to 16 clients; the next connection id; one bounded queue per connection | `park`, `unpark`, `release_daemon`, `route`, under one mutex | the table is exactly who is there and within capacity; rooms are isolated; an old carrier cannot disturb its successor |
| Socket tasks, `relay/ingress.rs` | per WebSocket a reader (`run_socket`) and a writer task | hello, ready line, route each frame, unpark and release, abort the writer | every way out undoes the park; a released carrier is closed |
| Carrier transport, `daemon/transport.rs`, and sealed session, `crypto/session.rs` | keys and two counters per connection, whether the session is established, the bound device | park, salt, acknowledgement, device challenge, send, receive, ping, close | what an end accepts is what its partner sent, in order, without gaps; no counter is used twice under one key |
| Uplink, `daemon/uplink.rs` | attempt counter, fast re-registration counter, the current carrier, a bounded outbox per carrier | dial, establish, serve, back off, shut down | it comes back after every loss, but not at full speed for ever; what is established is recorded as released |
| Lifecycle driver, `daemon/lifecycle.rs` | controller (state, attempts, whether DSH is wanted), the owned process, a command channel of four, the published status | start, stop, restart, watch, back off, give up | one process, honest status, a stop sticks, a crash is healed, every command is answered |
| Supervisor, `daemon/dsh/supervisor.rs` | the child process | spawn and wait for readiness (90 s), stop (SIGTERM, grace, kill), wait for exit | a child never outlives its owner |
| Control channel, `daemon/control.rs` | none of its own | status, lifecycle command (a spawned task), crash report | an answer says what happened |
| `run_command`, `daemon/lib.rs` | the tasks above | start-up checks, spawn, select on signal or driver, shut down | shutdown ends and leaves nothing |
| Pairing, `daemon/pairing.rs`, `crypto/pairing.rs` | a code, the two halves of a SPAKE2 exchange, a rendezvous room | `drdshd pair`, `pair-as-device`: start, finish, confirm, accept or reject | a device is enrolled, and told the room key, only if it knew the code |
| Throttle, `crypto/throttle.rs` | failures in a row, last attempt, lockout, in a file | check, record, save | spacing and lockout hold although every attempt is a new process |
| Registry and policy, `crypto/{registry,device}.rs`, `daemon/{lib,transport}.rs` | the enrolled devices, in a file; the copy a running daemon holds; a nonce per session | enrol, revoke, load at start, challenge, verify, refuse | once paired, the room key alone opens nothing; revoking takes effect |
| Proxy, `daemon/proxy/*`, `daemon/dsh/client.rs` | per request a task; per WebSocket two tasks, a queue of 64 and an entry in a registry shared by all carriers; the carrier's outbox of 64 | request, head, chunks, end, failure; open, data, close | an answer is whole and in order, every request ends, no WebSocket hangs or changes hands |
| Audit and crash logs, room key, `daemon/{audit,crashlog,roomkey}.rs` | two append-only files of bounded length, one file created once | record and prune, read, clear; count and store; resolve | what was recorded is kept, what was answered is stored, the key never changes |
| Installers, `cli/*`, `relayctl/*` (crates `dr-dsh-cli`, `dr-dsh-relayctl`) | per component: lock file, programs, client, plugin, configuration, service file, autostart, service; one `drdsh` link shared by both | install, asset-only install, uninstall, unplug, start, stop, restart, enable, disable | a success is whole, a service that ran runs again, the shared command leads to a program |
| Deployment watch, `daemon/deployment.rs` | lifetimes of the last idle connections | observe | warns once, of a proxy that cuts idle connections |
| PWA: `tunnel.ts`, `proxy.ts`, `service-worker.ts`, `control.ts`, `panel.ts`, `identity.ts`, ... | counters, listeners, early payloads, a 250 ms grace timer, ids | connect, send, receive, subscribe | frames leave in counter order, payloads are seen in arrival order, a challenge is answered |
| The rest: wire types, assets, configuration, command lines, doctor, plugin | none or a file | encode, parse, serve, print | stateless or pure I/O |

How they interact: peers and the relay only by WebSocket messages; the relay's tasks by the
hub's mutex and by the queues; within the daemon the uplink hands a request to a handler with
a clone of the connection's outbox, the control handler spawns a task that sends a command to
the driver over a channel and waits for a oneshot answer, and `run_command` tears everything
down in order. The hard behaviours are therefore takeovers (an old connection's tasks run on
after a new one holds the room), losses (bounded queues drop frames silently), redials, steps
that fail half-way, process exits at any await, and commands that interrupt a wait; and, because
every `drdshd` and `drdsh` command is a process of its own, files that are read, changed and
replaced by processes that overlap or are killed. The list `hazards` in `PROJECT.json` gives each at its line.

## 2. Modules

| module | what it is |
|---|---|
| `RelayHub`, `RelayHubProofs` | the relay: room table, reader and writer tasks; its theorems |
| `Lifecycle`, `LifecycleProofs` | startup, lifecycle driver, process, commands and shutdown; its theorems |
| `SecureChannel` | abstract: what a session promises its two ends |
| `Carrier`, `CarrierProofs` | extends `RelayHub` with the endpoints' transport, session and redial; implements `SecureChannel`; its theorems |
| `Uplink`, `UplinkProofs` | the daemon's dial loop: retry counters, outbox, audit records, deployment watch; its theorems |
| `Enrolment`, `EnrolmentProofs` | pairing, throttle, registry, policy, device challenge; its theorems |
| `Proxy`, `ProxyProofs` | requests and WebSockets between a carrier and DSH; its theorems |
| `StateFiles`, `StateFilesProofs` | audit log, crash log and room key as files of concurrent processes; its theorems |
| `Install`, `InstallProofs` | the two installers and the services they manage; its theorems |
| `MC*` | the instances TLC checks |

An operator whose comment begins with "Mutant" is a deliberately wrong variant of the
definition that follows it. `PROJECT.json` (`mutants`) names the property each one breaks;
they are no part of a specification.

### RelayHub

A step is one critical section of the hub's mutex or one step of a writer task. `held`,
`daemon` and `clients` are `Hub::rooms`; `nextId` is `Hub::next_id`; `queue[c]` is the mpsc
channel whose only sender sits in the table, so `~InHub(c)` is also "the channel is closed to
new elements"; `down[c]` is what was written to the socket; `phase[c]` says where `run_socket`
is. A frame is its identity, because the relay never looks inside.

* `ParkDaemon`, `ParkClient`: `Hub::park`; a second daemon takes the room over. A refusal
  changes nothing and is no step.
* `ReadySent`, `ReadyFailed`: the ready line; its failure is an early return that unparks.
* `Route`, `RouteGone`: `Hub::route`. A full queue loses the frame, and the close that follows
  fits only if the writer, which is outside the mutex, took an element in between: that is
  the set `popped`. The writer's own take and write are otherwise one step. Between them an
  element is in neither the queue nor the socket; what this hides is one extra element of
  capacity.
* `Depart`: the end of the read loop, with unpark and, for a room's last client,
  `release_daemon` in the same critical section.
* `WriteFrame`, `WriteClose`, `WriterDrained`, `SinkFailed`, `AbortWriter`: the writer task. Its
  writes are `sink.send().await` without a timer, so they complete only if the peer reads.

### Lifecycle

A step of the driver is the code between two of its awaits and `pc` names the await:
`select`, `spawning`, `backoff`, `stopping`. `Crash` removes a process from `alive` at any
of them. Before the driver exists `pc` is one of `boot`, `booting`, `checking`: `run_command`
finds the port free and starts DSH (`BootSpawn`), has its readiness line, or a URL to attach
to (`BootCheck`), exchanges tokens and asks for the index, and hands the process over (`Adopt`);
`StartupFails` is every early return, the one after the driver was spawned included. `ctl` is
the `Controller`; `BeginStart`, `Started`, `StartFailed`, `Exited`,
`BeginStop`, `Stopped` are its methods as functions on it. `serving` is the command whose answer
the driver owes while it starts or stops. The `Driver::start` loop, entered from a command,
from a restart and from a healed crash, is `EnterStart` (spawn), `SpawnOk` / `SpawnFailed`
(readiness or not) and the backoff in between. A failed spawn and one whose child dies before
its line are one step. `Submit` is `Handle::command`: refused in attached mode, otherwise
it waits for room in the channel. The end of `run_command` is `ShutdownSignal` (tell the uplink,
and await its task), `StopDriver` (only when that task has ended: ask the driver to stop DSH)
and `AbortDriver`; dropping the aborted task kills its child (`kill_on_drop`). Of the uplink the
module has what the shutdown depends on: whether it is at one of its `select!`s, which have a
branch for the shutdown (`UplinkEnds`), or in a dial or a write, which have neither that nor a
timer. Two ghost
variables exist for the properties only: `intent` and `fails`.

### Carrier and SecureChannel

A connection of the relay is one carrier of one endpoint. Keys are symbolic: `NoConn` is the
provisional session every carrier starts with, and a salt drawn by client connection `c`
defines the session with key `c`. A frame opens exactly when key and counter are the ones
expected (`SessionCipher::open`). `OfferSalt`, `AcceptSalt`, `AcceptAck` are the two
halves of `establish_with` with the counters they carry across the derivation; `FailInput` is
every error that drops the carrier; `Redial` is the uplink, which dials only when its carrier
has ended. The device policy is `RoomKeyOnly`.

`SecureChannel` knows no relay, keys or counters: an end has at most one partner for ever, the
daemon end commits first and the client end confirms that very end, and each end receives a
gap-free, in-order copy of what its partner sent. `Carrier!Chan` maps a carrier's confirmed
session and the content it has read onto it; the salt and the acknowledgement are not content.

### Uplink

`pc` is the await of `uplink::run`; `conn` numbers its dials. `Park`, `EstablishFails`,
`Establish`, `InboundEnds`, `WriteFails`, `DialFails` and `DialRefused` are its ways on, each with
what it does to `attempt` and `fast_re_registrations`, to the deployment watch and to the audit
records; `Again` is the tail of the loop that chooses the delay. `Inbound` spawns a handler,
`Answer` is its answer into the outbox of the connection the message came on, `Write` the loop's
own take. The sealed session underneath is `Carrier`'s.

### Enrolment

Every command is a process with its own copy of the two files. `LoadRegistry`, `CheckGuard`,
`Redeem`, `Confirm` / `Reject`, `WriteRegistry`, `RenameRegistry`, `Accept`, `RecordOutcome`,
`RenameGuard` are `pair_command` and `run_daemon_side` in order; `ExchangeFails` is every error of
the exchange and `ClientGivesUp` the client's. `LoadForRevoke` to `RenameRevoked` are
`devices --revoke`. Saving is a write to a temporary file, whose name all commands share, and a
rename. `Kill` stops a command anywhere. A code is the command that printed it and a key is
who holds which code, so a confirmation verifies exactly when both used the same code.
`StartDaemon` reads the registry into `policy`; `Challenge`, `BindDevice`, `EndSession` are
`challenge_client` and `answer_challenge` with any identity claimed.

### Proxy

Every inbound message is a task (`Arrive`), so messages of one client overtake one another.
`Perform` and `Answer` are the arms of `ProxyService::handle`; `ReaderSends` to `ReaderCloses` and
`Writer` are the two pump tasks of a WebSocket; `Sends` waits for room in the outbox and fails
when the carrier is gone. The registry of WebSockets is one for all carriers, and a message may
name any id on any carrier: `Lookup` and `Deliver` check nothing but the registry, as the code does,
so a later carrier writes to the WebSockets an earlier one opened. DSH answers the head of a
request (`DshHead`) and then its body (`DshAnswers`), fails, or ends a WebSocket when it likes.
A body is its length. `got` and `told` are history.

### StateFiles

`dir` maps names to inodes, so that a process writes on to a file that was renamed away. The
line and its newline are two writes, as in the code; a prune is read, truncate of the
temporary file, write, rename. `Stop` is a kill or a full disk, at any operation. Crash reports
are stored by the uplink's one loop, inline, so stores follow each other; `drdshd crashes --clear`
may come at any of their steps.

### Install

A command is a sequence of file operations (`DrdshUpdate`, `RelayctlUpdate`, `DrdshRemoval`,
`RelayctlRemoval` list them in the code's order) between a stop and a start of the service;
each operation is a step, may fail (`WorkFails`), and the command may be killed. A failed
`promote` puts the old file back, cannot, or has only failed to delete it (`Promoted`). The start
afterwards has failures of its own (`StartFails`): the program is missing, the service does not
stay up, or the attempt breaks off before anything was started. A component has two commands
in the prefix, `bin/drdsh-<component>` and `bin/drdsh-<component>ctl`; the second name is the one
relayctl uses too. `lock` is the `.operation-lock` file of a component, and `shared` where
`<prefix>/bin/drdsh` points.

## 3. Runs

| run | shows |
|---|---|
| `relay_table` (pass) | `TableTight`, `EntriesLive`, `EvictedOnlyFor`, `NeverRoutedAgain`, `UsedAloneOnlyByDrop` with two rooms competing for one slot, two clients per room, four connections |
| `relay_queues` (pass) | `Isolated`, `InOrder`, `ReleasedIsClosed` with two rooms at once, queues of one and two frames per connection |
| `lifecycle` (pass) | `OneOwnedProcess`, `StatusHonest`, `GivesUp`, `NoUnwantedStart`, `CrashIsHealed`, `CommandsAnswered`, `BackoffResolves`, `NothingLeftBehind`, `ShutdownCompletes`, from the first start of DSH on |
| `lifecycle_recovering` (violation) | a stop in a backoff leaves the status at recovering |
| `carrier` (pass) | `CountersUnique`, `BothHoldTheKey`, `ImplementsChannel` (refinement) |
| `carrier_resume` (violation) | a redial does not resume clients that are still parked |
| `enrolment` (pass) | `OnlyRedeemed`, `RegistryExact`, `DoorStaysShut`, `LockoutHolds` |
| `enrolment_revoked` (violation) | a device revoked while the daemon runs is still served |
| `proxy` (pass) | `AnswerWellFormed`, `WritableByOpener`, `RequestsEnd`, `SocketsEnd` |
| `statefiles` (pass) | `LogsKeep` (`AuditKeeps`, `CrashLogKeeps`), `OneRoomKey` |
| `install` (pass) | `SuccessIsWhole`, `ServiceRestored`, `SharedCommandWorks` |
| `uplink` (pass) | `RedialsBounded`, `SessionsRecorded`, `AnswersStayHome` |

Each violation run checks one sentence of the repository that the code does not keep;
`findings` quotes it. Where a property holds only under a condition, its comment gives the
condition and the behaviour outside it is in the next list.

**What the code does and the properties leave out.** Met while modelling, each outside the
condition of a property or without a run of its own:

* A client that is parked but cannot be told ready is unparked without looking at unpark's
  answer (`relay/ingress.rs:345`), so a used daemon may stay registered, against
  `ingress.rs:442` ("the next client gets a daemon whose session begins where every session
  begins"). `UsedAloneOnlyByDrop` says that this is the only way.
* Every readiness line resets the attempt counter (`daemon/lifecycle.rs:261`): a DSH that announces
  itself and dies is restarted for ever, against `lifecycle.rs:804` ("does not become a spawn
  loop"). Giving up does not end the driver task, against `daemon/lib.rs:484` ("The driver task
  ending means it has given up").
* After a failed stop `wanted_running` stays false although the process runs on; a later crash
  is not healed (`CrashIsHealed` excludes it).
* A released carrier whose peer does not read is never closed: its writer is in a write without
  a timer (`ReleasedIsClosed` asks for a peer that reads). A shutdown during a session writes no
  `TunnelReleased` record (`daemon/uplink.rs:530`; `SessionsRecorded` excludes it).
* A signal does not stop DSH while the relay does not answer: `run_command` awaits the uplink's
  task first (`daemon/lib.rs:497`), which may be in a dial (`uplink.rs:359`) or a write
  (`uplink.rs:507`) that has neither a branch for the shutdown nor a timer, against
  `docs/operations/cli.md:181` (on SIGTERM or Ctrl-C the daemon always stops the DSH it manages).
  `ShutdownCompletes` assumes that these awaits return.
* `REQUEST_TIMEOUT` ends the wait for the head of DSH's answer; the body is collected without a
  timer (`daemon/dsh/client.rs:589`), against `client.rs:47` ("How long a single loopback request may
  take"). `RequestsEnd` assumes that DSH does not stall there.
* No jitter is applied to the backoff: the loop sleeps exactly `backoff.delay(attempt)`
  (`daemon/uplink.rs:574`), against `uplink.rs:10` ("Jittered exponential backoff"), `uplink.rs:101` ("before
  jitter is applied") and `docs/architecture.md:266`. `RedialsBounded` says what the code does.
* Attached without a token, the index check runs all the same, because `client` is always
  `Some` (`daemon/lib.rs:212`), and a DSH that asks for a cookie makes the startup fail; the
  comment at `lib.rs:257` says the check is skipped. The cookie is obtained once per daemon.
* Two commands that hold the registry at once: the later save undoes the earlier one
  (`RegistryExact` asks for `serial`); overlapping or killed pairing commands lose failures
  (`LockoutHolds` asks for `orderly`). `PendingCode` of `crypto/pairing.rs` has callers only in
  tests: that a code is used once and expires rests on the command's own life.
* The client is told that a WebSocket is open before it is registered, so data that follows at
  once may be refused. A message that opens the same id again, on whatever carrier, replaces the
  entry, and the first socket's end removes it, which leaves one nobody can write to
  (`WritableByOpener` asks for one opener and no close). A client of a later carrier that names
  the id writes to it, and `WsClose` closes the sockets of every carrier. The tasks of two `WsData`
  messages may deliver them in either order. Neither an upgrade nor a write to an open WebSocket
  of DSH has a timer that would end it.
* Two pruners write to one temporary file, and a record appended between a prune's read and its
  rename is lost (`AuditKeeps` asks for `alone`). An empty key file left by a kill is refused
  until somebody removes it.
* `drdsh relay install; drdsh-relayctl uninstall` leaves `bin/drdsh-relay`, which leads nowhere:
  relayctl removes the programs and its own `bin/drdsh-relayctl` only
  (`relayctl/install.rs:225`), so `SuccessIsWhole` promises the absence of a tool's own commands.
* `drdsh relay install client` over a relayctl installation removes the relay's programs
  (`cli/install.rs:303`) and brings none; relayctl's install removes the relay's `drdsh`, and the
  shared link dangles. A lock left by a killed command blocks the later ones. A first
  installation that failed before its configuration was saved is refused the second time as
  unmanaged (`cli/install.rs:114`). An installation that found its service just coming up does
  not stop it and, killed between the two moves of `promote`, leaves it running without a
  program; the next command stops it and cannot start it again. A start that fails at preparing
  the service file, at `systemctl` or, in relayctl, at reading the configuration again leaves the
  service stopped, and so does a `promote` that cannot put the old program back.
  `ServiceRestored` excludes these: a start that failed itself, and a missing program where both
  tools were used or a promote was cut short. `SharedCommandWorks` excludes the mixture of the
  tools and commands that overlap: between the look at the other component's program and the
  link to it that program can go.
* The deployment watch warns of drops "in a row" without clearing its list when a connection
  that carried a session comes in between (`daemon/deployment.rs:82`).

**Bounds.** `MaxConns` 4 lets a room see a daemon, its successor and two clients, or two
daemons with a client each: enough for an old carrier to leave after its successor came and
for a release to race a takeover. `MaxRooms` 1 with two room ids makes the capacity bite.
`QueueCap` is 1 where the code has `FRAME_QUEUE`: every order of full and not full queues
needs only the distinction. `MaxFrames` 2 is needed for order. `Lifecycle` uses three attempts
(code: a policy, five by default) so that there is a middle one, two process ids because a
restart needs a second one while the first is still listed, an inbox of two (code: four) so
that it can fill, and three commands besides the shutdown, so that one can interrupt another
and a third can wait. `Carrier` has one room (isolation is `RelayHub`'s), three
connections, one fault and two content frames: with three connections a daemon has two
clients, or redials with one. `Uplink` allows six dials with two fast redials (code: eight), so
that the budget runs out, and delays that reach the ceiling. `Enrolment` has two devices, two
commands, a lockout after two failures (code: five) and times of one and two seconds: two
commands are enough to overlap or to follow one another, and one kill and one start of the
daemon may fall anywhere among their steps. `Proxy` has a request and WebSocket messages of
total weight three, queues of one (code: 64), bodies of 0 and 3 with chunks of 2, and
two carriers, of which a redial counts as one message. `StateFiles` has two processes at a time and four jobs, logs of two lines and one
report, so that the fourth record prunes; ages of 0 and 1. `Install` has three commands,
one fault and one crash: one command to install, one to fail or be killed, one to come after.
Deadlock is not checked: every system here may come to rest, because connections,
commands and jobs are bounded.

**Fairness.** Peers, network and DSH owe nothing; where a property needs something of them it says
so itself, as the left side of an implication. `RelayHub`: weak fairness of `AbortWriter`, the only
step of a writer that waits for nothing; `ReleasedIsClosed` assumes of the carrier it speaks of that
its peer reads (`PeerReads`). `Lifecycle`: weak fairness of
the driver, since each of its awaits ends by a timer (readiness 90 s, the grace period of a
stop, the backoff delay) or by a child's exit; strong fairness of taking a command and of the
uplink's ending, because `select!` polls ready branches in random order, so what is ready
again and again is not passed over for ever, and of `StopDriver`, because the channel gives room to
those who wait in turn; weak fairness of the abort that follows the stop's answer.
Clients, signals, crashes and the startup are free; `ShutdownCompletes` assumes that the uplink's
untimed awaits return. `Carrier`: the relay's tasks, the endpoints'
readers and the uplink's redial; nothing obliges a client to send. `Proxy`: weak fairness of
the handlers and the pump tasks where they can go on by themselves, with the timer for the head
of an answer, but without what DSH does after the head, an upgrade, or a write to a WebSocket DSH
holds open; `RequestsEnd` and `SocketsEnd` assume a carrier that takes what is written to it or breaks
(`CarrierTakes`), and `RequestsEnd` that DSH does not stall in a body for ever. The other modules
state safety only.

## 4. Theorems

Proved by TLAPS for all values of the constants that satisfy the `ASSUME` of the module
(`RelayAssumption`, `LifecycleAssumption`, `UplinkAssumption`, `CarrierAssumption`,
`EnrolAssumption`, `StateFilesAssumption`, `ProxyAssumption`, `InstallAssumption`): capacities
and bounds are naturals; tasks are finitely many; a queue, a chunk and a retry policy are at
least one; the value that stands for "none" is no member of its set; process ids are positive;
an endpoint's data fits in the frames the relay counts; there is a WebSocket id; relayctl is
asked for the relay only, and unplugs nothing. The bounds on faults, kills, restarts and
messages are arbitrary naturals, so nothing depends on the ones TLC runs with. Each inductive
invariant was checked by TLC on the module's instance before it was proved.

**RelayHub.** `TableTight` and the rest are not inductive. `HubInv` is: types; ids in order
(`IdsInOrder`: a connection has a room exactly when its id was handed out); `Filed`, which
ties the table to the connections in both directions (the keys are the rooms somebody is in;
an entry is a connection that has not unparked, under the room and side it announced; a client
that has not unparked has an entry); the two capacity bounds; and `FramesOwed` (every queued
or written frame has a sender of the other side of the same room, and its number is one already
routed). Each part has its own step lemma. From it: `NoSlotLeaks`, `TableHoldsTheLiving`,
`RoomsAreIsolated`, and the action properties `OutIsOut` (`NeverRoutedAgain`) and
`OnlyThenEvicted` (`EvictedOnlyFor`), which also need that a new id exceeds every old one.
`InOrder` needs a second invariant on top, `OrderInv`, over what was written and what is
queued taken as one stream: no frame in a stream is newer than what was read from its sender
(`NumbersBounded`), so that the next one routed is newer than all of them (`StreamsOrdered`);
and `WritersEnd`, because "the close is last" depends on the writer: it starts once, and one
that finished leaves a queue nobody fills. From it: `FramesInOrder`. `OnlyADropLeavesItUsed`
(`UsedAloneOnlyByDrop`) follows from `HubInv` step by step: a room's last client leaves by
`Depart`, which releases the daemon in the same critical section, or unready.

**Lifecycle.** `IInv` is types, `OneOwnedProcess`, `AwaitsAgree` (for each await, what the
process handle, the controller's state, the published status and the owed command may be),
`WantedIsAsked` (the controller wants DSH only if the last command served asks for it) and
`FailuresCounted` (failed spawns in a row never exceed the controller's own count). From it:
`OneProcess`, `HonestStatus`, `RetriesBounded`, `CleanShutdown` (`NothingLeftBehind`) and the action property
`StopSticks` (`NoUnwantedStart`). `CrashesAreHealed` (`CrashIsHealed`) needs `HealInv`: a
process the driver watches is a wanted one unless a stop has failed (`WatchedIsWanted`). That is
kept only because a command is on its way at most once and unanswered (`OnTheirWay`):
otherwise an answer could turn a failed stop into one that never was. The startup is part of all of them: `AwaitsAgree` covers the
three awaits before the driver exists.

**Uplink.** `AnswersStayHome` needs that an outbox is empty unless a session is served and holds
only answers to what came on the present connection (`OutboxIsOfThisConnection`): with it the
only step that writes, `Write`, writes at home. `SessionsRecorded` needs `LastIsServed`: while a
session is served the last record names its connection, which is what the release that follows
is compared with. From these: `AnswersNeverStray` and `SessionsArePaired`. `RedialsBounded` counts
in the list of waits what the loop counts in two variables that it resets on its own terms;
`WaitsInv` says that both agree (`fast_re_registrations` is the number of short waits since the
last session, `attempt` the number of the others), and `Doubling` that every wait was the right
one when it was appended. From it: `LeftInPeace`.

**Carrier.** `CarrierInv` takes `HubInv` and `OrderInv` over from the relay (every step here is a
step of `RelayHub` or leaves it alone, `EveryStep`) and adds, for the endpoints: the relay has
read no more than was written; `EndpointsAgree` (the send counter is the number of frames
written, the receive counter the number read, and a session key is there from the first frame
written on); `WireNumbered` (the i-th frame carries counter i - 1 and the session key, except the
client's salt); `ReadExactly` (what an end has read is its partner's frames from the first,
without a gap). `SoleAddressee` is what makes it work: a client's frame reaches one
daemon carrier only, the one its room had when the relay read it. Without it two successive
daemon carriers could accept one salt and seal under one key. From it: `NoCounterTwice`
(`CountersUnique`) and `TheKeyIsShared` (`BothHoldTheKey`).
`CarriersImplementChannel` is the refinement: the initial states map to one, `AcceptSalt` maps
to `Commit`, `AcceptAck` to `Confirm`, `AcceptData` to `Deliver`, `SendData` to `Send`, and the
relay's steps, the offer and every ending map to stutters. It rests on two facts about the
mapping, in the state before and in the one after: partners are mutual and unique (`Bijective`),
and the content received is exactly a prefix of what the partner sent (`RcvdExactly`).

**Enrolment.** Four arguments over one typing lemma. `RedeemedInv` adds to `OnlyRedeemed` that a
command past the confirmation has a device that redeemed a code, and that nobody is served by a
daemon that is down (`NobodyWithoutACode`). `RegistryInv` says that, while commands do not overlap,
the one that holds the registry has what is on disk with exactly the change it is about to save,
and the temporary file is its own (`NothingLostOrBack`). `FileExists` gives `NeverOpenAgain`
(`DoorStaysShut`) even for overlapping commands: whatever is lost, the file stays. `GuardInv` follows
the throttle through the command that holds it, its memory and its temporary file
(`ThrottleOutlivesProcesses`, `LockoutHolds`).

**StateFiles.** `OneRoomKey` needs that the command whose `create_new` succeeded has the empty file
to itself (`OneWriter`) and that a key is held exactly when the file says it (`HeldIsStored`). The
removal of an empty file by hand would break the first if it could happen under a writer; it is
modelled, as the message asks for it, when no command is at it. From it: `TheRoomKeyIsOne`.
`CrashLogKeeps` needs `CrashInv`: no audit record, prune or temporary file ever gets the crash
log's inode (`Separate`, which rests on there being more inodes than are in use, so that a created
file is one nobody has open), a report whose line was written is there (`Reported`), and the
complete lines are at most `MaxReports`, and fewer while a store that was let in is under way, which
is one at a time (`CountedIn`). From it: `ReportsAreKept`.

**Proxy.** `WritableByOpener` needs to know what an entry can stand for: `WsInv` says that a task is
at a place that fits its message (`Placed`), that pump tasks belong to a message that opened
(`Pumping`), and that the registry and a task between lookup and send refer to a WebSocket opened
under that very id (`Referred`): so a remove by id can only take out another's entry if two messages
opened the id. `Reachable` is the property said of every task. From it: `OpenersCanWrite`.
`AnswerWellFormed` gives each message of an answer a place and the place
its length, so that no sum is needed. What a client has is only the beginning of what its
request sent, the rest is in the outbox among the messages of others: `AnswerInv` has a witness
`f` that gives each of them its place (`Counts`), says that every one is right there
(`OnlyAnswer`) or that all are failures, and ties the handler's own state to the number sent
(`Stage`: what is left of the body is the body less what that many chunks carry). From it:
`AnswersAreWhole`.

**Install.** A command's plan is a sequence put together from conditions, and what matters about it is
which operations it still holds and in which order. `Rank` numbers the operations of a job, and
the lemmas on plans show that each list of `Install` rises strictly in rank (`Within`) and holds
exactly the operations it should (`Consists`); so an operation that is done is not met again and the
one after it is known without unrolling the list. `InstallInv` is types; `Exclusive` (who is at
work holds the lock of its component); `Placed` (where a command can be, by its job, and what it may
take for granted there); `MovedIn` (a move out is followed by its move in); `Brings` and
`TakesAway` (everything a success promises is so or still in the plan); and `ScopeInv` (a
component that is not installed neither runs nor starts by itself, and after a success nobody is
at work on it). At the end of a plan nothing is left to do, so the promise holds: `SuccessHolds`
(`SuccessIsWhole`). `ServiceComesBack` (`ServiceRestored`) needs `RunsFrom` on top: in a component
only one tool has managed and where no command ended with the old file still aside (`Clean`),
whatever runs, and whatever a command means to bring back, has its program in place or, between
the two moves of `promote`, in the backup. A start that finds the program there brings the service up or has
failed itself, and faults are counted (`Counted`), so that this shows.
`SharedCommandLeadsOn` (`SharedCommandWorks`) needs `SharedInv`: the link is right except while one
command is between moving its program and linking (`Installing`) or between handing the link over
and deleting its program (`Leaving`), in which case the link has already gone to the other
component; and what a command saw of the link is still so when it sets it, which is where
commands that overlap break it.

**Only model-checked.** Liveness (`ReleasedIsClosed`, `CommandsAnswered`, `BackoffResolves`,
`ShutdownCompletes`, `RequestsEnd`, `SocketsEnd`), because fairness and `ENABLED` are beyond the
prover. Of the invariants and action properties, one half of one is left: `AuditKeeps` in `LogsKeep`,
which compares the lines of a file, folded out of its contents and filtered, with everything
ever recorded, and needs an induction over data.

## 5. Not modelled

Time itself, except where the throttle, the retention of records and the backoff count it
(other delays and timeouts are steps that may happen at any moment; so it is not shown
that a restart asked for during a backoff has to wait the delay out, although the comment on
`Driver::backoff` says it does not). Cryptography below "opens or does not". The content of
messages, logs and reasons. The hello's checks and frame validation, which have no state. The
PWA: its half of every protocol is present as the client that may send anything the protocol
allows at any time, but its own state (promises around an await, early payloads, the grace
timer, browser storage) is not. Of the installers, `update` (runs a script), `--start` and
`--enable` given to an installation, and what only reads. Wire types, assets, configuration,
command lines, doctor and plugin are stateless or pure I/O.

## 6. Plan

Done: the relay, the lifecycle driver and the carrier; the uplink, enrolment, the proxy, the
state files and the installers; and proofs of every invariant and action property but `AuditKeeps`. Next:

1. `Tunnel` (`pwa/tunnel.ts`): concurrent sends around the await of the encryption, early
   payloads and their replay order, the device step and its grace timer.
2. `AuditKeeps` with the file as a sequence of records in place of lines that are parsed, stated by
   position, and its proof.

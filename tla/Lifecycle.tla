------------------------------ MODULE Lifecycle ------------------------------
(***************************************************************************)
(* The daemon's lifecycle driver (dr-dsh-daemon/src/lifecycle.rs), the     *)
(* process it owns (dsh/supervisor.rs) and the commands remote clients and *)
(* the daemon's own shutdown send it (control.rs, run_command in lib.rs).  *)
(*                                                                         *)
(* The driver is one task: a step of it is the code between two of its     *)
(* awaits, and pc names the await it is parked at.  The process, the       *)
(* clients and the shutdown move at any of them.  Until the driver exists  *)
(* run_command itself holds the process: pc is then in Startup.            *)
(***************************************************************************)
EXTENDS Naturals, Sequences, FiniteSets

CONSTANTS
    MaxAttempts,  \* RestartPolicy::max_attempts
    InboxCap,     \* capacity of the command channel
    Pids,         \* process ids the system hands out
    MaxCmds       \* bound of the model: commands clients ever send

ASSUME LifecycleAssumption ==
    /\ MaxAttempts \in Nat \ {0}
    /\ InboxCap \in Nat \ {0}
    /\ MaxCmds \in Nat
    /\ Pids \subseteq Nat \ {0}

NoPid    == 0
Shutdown == 0                  \* the Stop run_command sends at the end
Cmd      == 0 .. MaxCmds
NoCmd    == MaxCmds + 1
Op       == {"start", "stop", "restart"}
Reply    == {"none", "ok", "failed", "refused"}

(* Lifecycle: what is published to status requests.  The reason strings    *)
(* and the delay of a recovery are left out.                               *)
LcState    == {"stopped", "starting", "running", "recovering", "failed"}
Status     == [st : LcState, pid : Pids \cup {NoPid}]
Controller == [lc : Status, attempts : Nat, wanted : BOOLEAN]
Lc(st)     == [st |-> st, pid |-> NoPid]
Running(p) == [st |-> "running", pid |-> p]

VARIABLES
    mode,       \* "managed" or "attached"
    ctl,        \* the Controller: lifecycle, attempts, wanted_running
    published,  \* the slot Handle::snapshot reads
    handle,     \* the process the driver owns, in running or in a local
    alive,      \* DSH processes this daemon started that have not exited
    pc,         \* the await the driver is at
    serving,    \* the command whose answer the driver owes
    inbox,      \* the command channel
    op,         \* the operation of each command, "none" before it is sent
    reply,      \* how each command was answered
    daemon,     \* the main task: "starting", "up", "leaving", "stopping", "down"
    uplink,     \* its uplink: "none", "selecting", "network", "ended"
    intent,     \* ghost: "run" or "down", as the last command served asks
    fails       \* ghost: failed spawns in a row since a start or a command

vars == <<mode, ctl, published, handle, alive, pc, serving, inbox, op, reply,
          daemon, uplink, intent, fails>>

(* The awaits of run_command before there is a driver: nothing started,    *)
(* the readiness of the first DSH, the requests that prove it usable.      *)
Startup == {"boot", "booting", "checking"}

(* Every variable holds a value of its type: in particular the status is   *)
(* one that the control protocol can carry, and so is every answer.        *)
TypeOK ==
    /\ mode \in {"managed", "attached"}
    /\ ctl \in Controller
    /\ published \in Status
    /\ handle \in Pids \cup {NoPid}
    /\ alive \subseteq Pids
    /\ pc \in Startup \cup {"select", "spawning", "backoff", "stopping", "aborted"}
    /\ serving \in Cmd \cup {NoCmd}
    /\ inbox \in Seq(Cmd)
    /\ op \in [Cmd -> Op \cup {"none"}]
    /\ reply \in [Cmd -> Reply]
    /\ daemon \in {"starting", "up", "leaving", "stopping", "down"}
    /\ uplink \in {"none", "selecting", "network", "ended"}
    /\ intent \in {"run", "down"}
    /\ fails \in 0 .. MaxAttempts + 1

(* Mutant: adopting a process does not say that it is wanted. *)
AdoptedUnwanted(p) == [lc |-> Running(p), attempts |-> 0, wanted |-> FALSE]

(* Driver::adopt: begin_start, then started. *)
Adopted(p) == [lc |-> Running(p), attempts |-> 0, wanted |-> TRUE]

(* Controller::new: stopped, or running if the DSH is somebody else's. *)
NewController(m) ==
    [lc |-> IF m = "managed" THEN Lc("stopped") ELSE Running(NoPid),
     attempts |-> 0, wanted |-> FALSE]

Init ==
    /\ mode \in {"managed", "attached"}
    /\ ctl = NewController(mode)
    /\ published = ctl.lc
    /\ handle = NoPid
    /\ alive = {}
    /\ pc = "boot"
    /\ serving = NoCmd
    /\ inbox = <<>>
    /\ op = [c \in Cmd |-> "none"]
    /\ reply = [c \in Cmd |-> "none"]
    /\ daemon = "starting"
    /\ uplink = "none"
    /\ intent = "run"
    /\ fails = 0

-----------------------------------------------------------------------------
(* run_command up to the driver.                                           *)

(* A managed daemon has found the port free and starts DSH. *)
BootSpawn ==
    /\ pc = "boot"
    /\ mode = "managed"
    /\ \E p \in Pids : handle' = p /\ alive' = {p}
    /\ pc' = "booting"
    /\ UNCHANGED <<mode, ctl, published, serving, inbox, op, reply, daemon, uplink, intent,
                   fails>>

(* The readiness line was read, or the DSH to attach to has a usable URL:  *)
(* next come the token exchange, the index request and the proxy's own     *)
(* token exchange, which no signal interrupts.                             *)
BootCheck ==
    /\ pc = IF mode = "managed" THEN "booting" ELSE "boot"
    /\ pc' = "checking"
    /\ UNCHANGED <<mode, ctl, published, handle, alive, serving, inbox, op, reply,
                   daemon, uplink, intent, fails>>

(* The driver gets the process, which may have died since, and the daemon  *)
(* serves.                                                                 *)
Adopt ==
    /\ pc = "checking"
    /\ ctl' = IF mode = "managed" THEN Adopted(handle) ELSE ctl
    /\ published' = ctl'.lc
    /\ pc' = "select"
    /\ daemon' = "up"
    /\ UNCHANGED <<mode, handle, alive, serving, inbox, op, reply, uplink, intent, fails>>

(* run_command returns, or aborts the driver: what holds the child is      *)
(* dropped, and the child is killed on drop.                               *)
GoesDown ==
    /\ daemon' = "down"
    /\ pc' = "aborted"
    /\ handle' = NoPid
    /\ alive' = alive \ {handle}
    /\ UNCHANGED <<mode, ctl, published, serving, inbox, op, reply, uplink, intent, fails>>

(* The startup fails: the port is taken, DSH does not announce itself or a *)
(* signal comes first, it refuses a token or its index, or, the driver     *)
(* already running, the device registry cannot be read.                    *)
StartupFails ==
    /\ daemon = "starting" \/ (daemon = "up" /\ uplink = "none")
    /\ GoesDown

-----------------------------------------------------------------------------
(* Controller.                                                             *)

(* Mutant: a stop is not remembered as intended. *)
BeginStopForgotten(k) == k

BeginStart(k)  == [k EXCEPT !.wanted = TRUE, !.lc = Lc("starting")]
Started(k, p)  == [k EXCEPT !.attempts = 0, !.lc = Running(p)]
BeginStop(k)   == [k EXCEPT !.wanted = FALSE]
Stopped(k)     == [k EXCEPT !.wanted = FALSE, !.attempts = 0, !.lc = Lc("stopped")]

(* Mutant: there is no last attempt. *)
StartFailedForever(k) ==
    IF ~k.wanted THEN [k EXCEPT !.lc = Lc("stopped")]
    ELSE [k EXCEPT !.attempts = @ + 1, !.lc = Lc("recovering")]

(* start_failed and exited decide alike: not wanted, stay down; the last   *)
(* attempt, give up; otherwise recover.                                    *)
StartFailed(k) ==
    IF ~k.wanted THEN [k EXCEPT !.lc = Lc("stopped")]
    ELSE [k EXCEPT !.attempts = @ + 1,
                   !.lc = IF k.attempts + 1 >= MaxAttempts THEN Lc("failed")
                                                           ELSE Lc("recovering")]
Exited(k) == StartFailed(k)

-----------------------------------------------------------------------------
(* Commands.  Handle::command refuses in attached mode; otherwise it waits *)
(* for room in the channel and then for the answer.                        *)

Submit(c, o) ==
    /\ op[c] = "none"
    /\ op' = [op EXCEPT ![c] = o]
    /\ IF mode = "attached"
         THEN reply' = [reply EXCEPT ![c] = "refused"] /\ UNCHANGED inbox
         ELSE /\ Len(inbox) < InboxCap
              /\ inbox' = Append(inbox, c)
              /\ UNCHANGED reply
    /\ UNCHANGED <<mode, ctl, published, handle, alive, pc, serving, uplink, intent,
                   fails>>

ClientCommand(c, o) ==
    /\ c # Shutdown
    /\ daemon \in {"up", "leaving", "stopping"}
    /\ uplink # "none"
    /\ c = 1 \/ op[c - 1] # "none"
    /\ Submit(c, o)
    /\ UNCHANGED daemon

-----------------------------------------------------------------------------
(* The uplink's task, as far as the shutdown depends on it: it is at one   *)
(* of its select!s, which have a branch for the shutdown, or in an await   *)
(* that has neither such a branch nor a timer - a dial, the sending of an  *)
(* answer, the closing of the carrier.  Uplink.tla has the task itself.    *)

UplinkMoves(from, to) ==
    /\ uplink = from
    /\ uplink' = to
    /\ UNCHANGED <<mode, ctl, published, handle, alive, pc, serving, inbox, op, reply,
                   daemon, intent, fails>>

(* A daemon that has a relay dials it as soon as it is up. *)
UplinkSpawned == daemon = "up" /\ UplinkMoves("none", "network")

UplinkCalls  == daemon \in {"up", "leaving"} /\ UplinkMoves("selecting", "network")
UplinkAnswer == UplinkMoves("network", "selecting")

(* The relay refused for good: the task returns its error. *)
UplinkRefused == UplinkMoves("network", "ended")

(* The shutdown wins a select!. *)
UplinkEnds == daemon = "leaving" /\ UplinkMoves("selecting", "ended")

UplinkStep == UplinkSpawned \/ UplinkCalls \/ UplinkAnswer \/ UplinkRefused \/ UplinkEnds

(* A signal: shutdown_tx.send(true), and the daemon awaits the uplink's    *)
(* task, if it has one.                                                    *)
ShutdownSignal ==
    /\ daemon = "up"
    /\ daemon' = "leaving"
    /\ UNCHANGED <<mode, ctl, published, handle, alive, pc, serving, inbox, op, reply,
                   uplink, intent, fails>>

(* Only then does it ask the driver to stop DSH. *)
StopDriver ==
    /\ daemon = "leaving"
    /\ uplink \in {"none", "ended"}
    /\ Submit(Shutdown, "stop")
    /\ daemon' = "stopping"

(* Mutant: the child outlives the task that owned it. *)
AbortDriverLeaks ==
    /\ daemon = "stopping"
    /\ reply[Shutdown] # "none"
    /\ daemon' = "down"
    /\ pc' = "aborted"
    /\ UNCHANGED <<mode, ctl, published, handle, alive, serving, inbox, op, reply,
                   uplink, intent, fails>>

(* Mutant: the daemon goes down only if the stop succeeded. *)
AbortDriverInsists ==
    /\ daemon = "stopping"
    /\ reply[Shutdown] = "ok"
    /\ GoesDown

(* Answered, run_command aborts the driver. *)
AbortDriver ==
    /\ daemon = "stopping"
    /\ reply[Shutdown] # "none"
    /\ GoesDown

(* Mutant: an answer the wire type does not have. *)
AnswerVague(c, ok) == [reply EXCEPT ![c] = "done"]

Answer(c, ok) == [reply EXCEPT ![c] = IF ok THEN "ok" ELSE "failed"]

(* The command the driver takes from its inbox. *)
Take(c) == inbox # <<>> /\ c = Head(inbox) /\ inbox' = Tail(inbox)

Serves(o) == /\ intent' = IF o = "stop" THEN "down" ELSE "run"
             /\ fails' = 0

-----------------------------------------------------------------------------
(* Starting.  The child exists from the spawn on (one that cannot be       *)
(* spawned is one that dies at once); the driver waits for its readiness   *)
(* line.                                                                   *)

EnterStart(k) ==
    /\ ctl' = BeginStart(k)
    /\ published' = ctl'.lc
    /\ pc' = "spawning"
    /\ \E p \in Pids \ alive : handle' = p /\ alive' = alive \cup {p}

(* Mutant: the command that asked for the start is not answered. *)
FinishStartSilent ==
    /\ pc' = "select"
    /\ serving' = NoCmd
    /\ UNCHANGED reply

(* The loop of Driver::start returns; serve answers the command it was     *)
(* started for, if there was one.                                          *)
FinishStart ==
    /\ pc' = "select"
    /\ serving' = NoCmd
    /\ reply' = IF serving = NoCmd THEN reply
                ELSE Answer(serving, ctl'.lc.st = "running")

(* The readiness line was read.  The child may be dead already: the line   *)
(* and the exit are two ready branches of wait_for_ready's select.         *)
SpawnOk ==
    /\ pc = "spawning"
    /\ ctl' = Started(ctl, handle)
    /\ published' = ctl'.lc
    /\ fails' = 0
    /\ FinishStart
    /\ UNCHANGED <<mode, handle, alive, inbox, op, daemon, uplink, intent>>

Bump(n) == IF n <= MaxAttempts THEN n + 1 ELSE n

(* It exited early, timed out, or announced something unusable: the child  *)
(* is dropped, hence killed.                                               *)
SpawnFailed ==
    /\ pc = "spawning"
    /\ alive' = alive \ {handle}
    /\ handle' = NoPid
    /\ ctl' = StartFailed(ctl)
    /\ published' = ctl'.lc
    /\ fails' = Bump(fails)
    /\ IF ctl'.lc.st = "recovering"
         THEN pc' = "backoff" /\ UNCHANGED <<serving, reply>>
         ELSE FinishStart
    /\ UNCHANGED <<mode, inbox, op, daemon, uplink, intent>>

-----------------------------------------------------------------------------
(* The select loop of Driver::run.                                         *)

(* Mutant: the exit is not published. *)
WatchExitUnpublished ==
    /\ pc = "select"
    /\ handle # NoPid
    /\ handle \notin alive
    /\ handle' = NoPid
    /\ ctl' = Exited(ctl)
    /\ pc' = IF ctl'.lc.st = "recovering" THEN "backoff" ELSE "select"
    /\ UNCHANGED <<mode, published, alive, serving, inbox, op, reply, daemon, uplink, intent,
                   fails>>

(* The watched process is gone. *)
WatchExit ==
    /\ pc = "select"
    /\ handle # NoPid
    /\ handle \notin alive
    /\ handle' = NoPid
    /\ ctl' = Exited(ctl)
    /\ published' = ctl'.lc
    /\ pc' = IF ctl'.lc.st = "recovering" THEN "backoff" ELSE "select"
    /\ UNCHANGED <<mode, alive, serving, inbox, op, reply, daemon, uplink, intent, fails>>

ServeStart(c) ==
    /\ pc = "select"
    /\ Take(c)
    /\ op[c] = "start"
    /\ Serves("start")
    /\ IF handle # NoPid
         THEN /\ reply' = Answer(c, TRUE)
              /\ UNCHANGED <<ctl, published, handle, alive, pc, serving>>
         ELSE /\ EnterStart(ctl)
              /\ serving' = c
              /\ UNCHANGED reply
    /\ UNCHANGED <<mode, op, daemon, uplink>>

(* Driver::stop without a process, alone or as the first half of Restart. *)
ServeStopIdle(c) ==
    /\ pc = "select"
    /\ handle = NoPid
    /\ Take(c)
    /\ op[c] \in {"stop", "restart"}
    /\ Serves(op[c])
    /\ IF op[c] = "stop"
         THEN /\ ctl' = Stopped(BeginStop(ctl))
              /\ published' = ctl'.lc
              /\ reply' = Answer(c, TRUE)
              /\ UNCHANGED <<handle, alive, pc, serving>>
         ELSE /\ EnterStart(Stopped(BeginStop(ctl)))
              /\ serving' = c
              /\ UNCHANGED reply
    /\ UNCHANGED <<mode, op, daemon, uplink>>

ServeStop(c) ==
    /\ pc = "select"
    /\ handle # NoPid
    /\ Take(c)
    /\ op[c] \in {"stop", "restart"}
    /\ Serves(op[c])
    /\ ctl' = BeginStop(ctl)
    /\ pc' = "stopping"
    /\ serving' = c
    /\ UNCHANGED <<mode, published, handle, alive, op, reply, daemon, uplink>>

(* Supervisor::stop: SIGTERM, the grace period, then a kill. *)
StopOk ==
    /\ pc = "stopping"
    /\ IF op[serving] = "stop"
         THEN /\ handle' = NoPid
              /\ alive' = alive \ {handle}
              /\ ctl' = Stopped(ctl)
              /\ published' = ctl'.lc
              /\ pc' = "select"
              /\ reply' = Answer(serving, TRUE)
              /\ serving' = NoCmd
         ELSE /\ ctl' = BeginStart(Stopped(ctl))
              /\ published' = ctl'.lc
              /\ pc' = "spawning"
              /\ \E p \in Pids \ alive :
                    handle' = p /\ alive' = (alive \ {handle}) \cup {p}
              /\ UNCHANGED <<serving, reply>>
    /\ UNCHANGED <<mode, inbox, op, daemon, uplink, intent, fails>>

(* Mutant: the process is not put back. *)
StopFailedForgets ==
    /\ pc = "stopping"
    /\ pc' = "select"
    /\ handle' = NoPid
    /\ reply' = Answer(serving, FALSE)
    /\ serving' = NoCmd
    /\ UNCHANGED <<mode, ctl, published, alive, inbox, op, daemon, uplink, intent, fails>>

(* The signal or the kill failed: the process is put back and watched. *)
StopFailed ==
    /\ pc = "stopping"
    /\ pc' = "select"
    /\ published' = ctl.lc
    /\ reply' = Answer(serving, FALSE)
    /\ serving' = NoCmd
    /\ UNCHANGED <<mode, ctl, handle, alive, inbox, op, daemon, uplink, intent, fails>>

-----------------------------------------------------------------------------
(* Driver::backoff, entered from an exit or from a failed start.           *)

(* Mutant: the wait answers the wrong way round. *)
BackoffElapsedInverted ==
    /\ pc = "backoff"
    /\ IF ~ctl.wanted
         THEN EnterStart(ctl) /\ UNCHANGED <<serving, reply>>
         ELSE UNCHANGED <<ctl, published, handle, alive>> /\ FinishStart
    /\ UNCHANGED <<mode, inbox, op, daemon, uplink, intent, fails>>

BackoffElapsed ==
    /\ pc = "backoff"
    /\ IF ctl.wanted
         THEN EnterStart(ctl) /\ UNCHANGED <<serving, reply>>
         ELSE UNCHANGED <<ctl, published, handle, alive>> /\ FinishStart
    /\ UNCHANGED <<mode, inbox, op, daemon, uplink, intent, fails>>

(* serve_command_only: a stop changes what is wanted and ends the backoff, *)
(* hence the start it is part of; a start or a restart is already coming.  *)
BackoffCommand(c) ==
    /\ pc = "backoff"
    /\ Take(c)
    /\ Serves(op[c])
    /\ ctl' = IF op[c] = "stop" THEN BeginStop(ctl) ELSE ctl
    /\ published' = ctl'.lc
    /\ IF ctl'.wanted
         THEN reply' = Answer(c, TRUE) /\ UNCHANGED <<pc, serving>>
         ELSE /\ pc' = "select"
              /\ serving' = NoCmd
              /\ reply' = [d \in Cmd |-> IF d = c THEN "ok"
                                         ELSE IF d = serving THEN "failed"
                                         ELSE reply[d]]
    /\ UNCHANGED <<mode, handle, alive, op, daemon, uplink>>

-----------------------------------------------------------------------------
(* DSH exits on its own. *)
Crash ==
    /\ \E p \in alive : alive' = alive \ {p}
    /\ UNCHANGED <<mode, ctl, published, handle, pc, serving, inbox, op, reply,
                   daemon, uplink, intent, fails>>

TakesCommand == \E c \in Cmd : ServeStart(c) \/ ServeStop(c) \/ ServeStopIdle(c)
                               \/ BackoffCommand(c)

DriverStep == SpawnOk \/ SpawnFailed \/ WatchExit \/ StopOk \/ StopFailed
                \/ BackoffElapsed \/ TakesCommand

Next == \/ BootSpawn \/ BootCheck \/ Adopt \/ StartupFails
        \/ DriverStep
        \/ Crash
        \/ \E c \in Cmd, o \in Op : ClientCommand(c, o)
        \/ UplinkStep
        \/ ShutdownSignal \/ StopDriver \/ AbortDriver

(* The driver is a spawned task: each await it is parked at resolves, the  *)
(* readiness wait by its 90 s timeout, the stop by its grace period, the   *)
(* backoff by its timer.  select! polls its ready branches in random       *)
(* order, so a waiting command is not passed over for ever, nor is the     *)
(* shutdown by an uplink that comes back to its select!s; and the command  *)
(* channel gives room to those who wait for it in turn.  Nothing obliges   *)
(* clients, signals, crashes or the network the uplink waits for, nor the  *)
(* startup: the wait for the body of the index has no timeout.             *)
Spec == Init /\ [][Next]_vars /\ WF_vars(DriverStep) /\ SF_vars(TakesCommand)
             /\ SF_vars(UplinkEnds) /\ SF_vars(StopDriver) /\ WF_vars(AbortDriver)

-----------------------------------------------------------------------------
(* Properties.                                                             *)

(* One owner, one process: at most one DSH this daemon started is alive,   *)
(* and it is the one the driver holds.  "Two would race, and the race      *)
(* would show up as a process nobody can account for" (lib.rs).            *)
OneOwnedProcess == alive \subseteq {handle} \ {NoPid}

(* A remote client is never told of a DSH that is not the daemon's: what   *)
(* status reports as running has the pid of the process held, and whenever *)
(* it reports stopped, recovering or failed nothing is left running.  So   *)
(* from the adoption on, a DSH that died during the checks included.       *)
StatusHonest ==
    mode = "managed" /\ pc \notin Startup \cup {"aborted"} =>
        /\ published.st = "running" <=> (handle # NoPid /\ pc # "spawning")
        /\ published.st = "running" => published.pid = handle
        /\ published.st \in {"stopped", "recovering", "failed"} => alive = {}

(* A stop sticks: the driver enters a start only while the last command it *)
(* served, if any, asked for DSH to run (an exit the operator asked for is *)
(* not healed, a stop during a backoff cancels the restart).               *)
NoUnwantedStart ==
    [][pc' = "spawning" /\ pc # "spawning" => intent' = "run"]_vars

(* A DSH that cannot start is not spawned for ever: between two commands   *)
(* the driver makes at most max_attempts failing starts in a row, however  *)
(* many crashes preceded them.                                             *)
GivesUp == fails <= MaxAttempts

(* Every command a client was not refused is answered, also one that is    *)
(* itself interrupted by a stop, unless the daemon goes away.              *)
CommandsAnswered ==
    \A c \in Cmd : (op[c] # "none") ~> (reply[c] # "none" \/ pc = "aborted")

(* Self-healing: a backoff ends in a running DSH, in giving up, or in a    *)
(* stop somebody asked for.                                                *)
BackoffResolves ==
    (pc = "backoff") ~> (ctl.lc.st \in {"running", "failed"} \/ ~ctl.wanted
                           \/ pc = "aborted")

(* When the daemon is down it leaves no DSH behind, also when the stop it  *)
(* asked for failed or was interrupted, or when it never got through its   *)
(* startup: a child dies with the task that holds it, wherever that was.   *)
NothingLeftBehind == daemon = "down" => alive = {}

(* The daemon does go down once it is signalled, whatever the driver is at *)
(* and whatever is queued before its stop, as long as the network does not *)
(* keep the uplink in one of its untimed awaits for ever; then it would    *)
(* not even ask the driver to stop DSH.                                    *)
ShutdownCompletes ==
    []<>(uplink # "network") => ((daemon = "leaving") ~> (daemon = "down"))

(* Lifecycle::Recovering: "It exited unexpectedly and will be restarted    *)
(* after this delay" (lifecycle.rs).  A status that says recovering does   *)
(* not say so for ever.                                                    *)
RecoveryEnds ==
    (published.st = "recovering") ~> (published.st # "recovering" \/ pc = "aborted")

(* "An exit the operator did not ask for is a crash, and a crash is        *)
(* restarted until the policy says otherwise" (Controller::exited).  This  *)
(* holds as long as no stop or restart has failed: a failed one leaves     *)
(* wanted_running false although the process is still there, and a later   *)
(* start, which finds it running, does not set it again.                   *)
CrashIsHealed ==
    [][(/\ pc = "select" /\ handle # NoPid /\ handle' = NoPid /\ daemon' # "down"
        /\ intent = "run" /\ ctl.attempts + 1 < MaxAttempts
        /\ \A c \in Cmd : op[c] \in {"stop", "restart"} => reply[c] # "failed")
         => ctl'.lc.st = "recovering"]_vars
=============================================================================

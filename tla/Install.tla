------------------------------- MODULE Install -------------------------------
(***************************************************************************)
(* Installing, updating and removing the two components of one prefix, and *)
(* driving their services: `drdsh relay|daemon <action>` (dr-dsh-cli) and  *)
(* `drdsh-relayctl <action>` (dr-dsh-relayctl), which manages the relay's  *)
(* files too.                                                              *)
(*                                                                         *)
(* A command holds its component's lock, checks and stages everything,     *)
(* stops the service if it runs, makes its changes one file operation at a *)
(* time, and starts the service again, also when a change failed.  Any     *)
(* operation may fail and any command be killed.  The `drdsh` command in   *)
(* the prefix is shared: commands of the two components race for it.       *)
(* A command's files carry its number as their version.                    *)
(***************************************************************************)
EXTENDS Integers, Sequences, FiniteSets

CONSTANTS
    Commands,   \* bound of the model: commands
    MaxFaults,  \* bound of the model: operations that fail, commands killed
    MaxCrashes, \* bound of the model: crashes of a service
    Job         \* what commands are given: a set of [tool, scope, action, plugin]

ASSUME InstallAssumption ==
    /\ Commands \in Nat /\ MaxFaults \in Nat /\ MaxCrashes \in Nat
    /\ Job \subseteq [tool : {"drdsh", "relayctl"}, scope : {"relay", "daemon"}, plugin : BOOLEAN,
                      action : {"install", "asset", "uninstall", "unplug",
                                "start", "stop", "restart", "enable", "disable"}]
    /\ \A j \in Job : j.tool = "relayctl" => j.scope = "relay" /\ j.action # "unplug"

Cmd    == 1 .. Commands
Scope  == {"relay", "daemon"}
Absent == 0
Nobody == 0

VARIABLES
    lock,    \* .operation-lock of a scope: the command that made it
    file,    \* the version of a scope's bin (drdsh), raw (the relayctl programs), client, plugin
             \* and of its two commands in the prefix: bin/drdsh-<scope> and bin/drdsh-<scope>ctl
    comps,   \* Config::components of a scope, with "saved" when the file exists
    unit,    \* which program a scope's service file runs: "bin", "raw" or "none"
    auto,    \* whether a scope's service is started at login
    shared,  \* where <prefix>/bin/drdsh points: a scope or "none"
    svc,     \* a scope's service: "stopped", "activating", "running"
    cmd,     \* where a command is, what is left to do, what it remembers
    faults, crashes,
    \* History, read by properties only.
    intact,  \* the last command of a scope that succeeded and was not followed by another
    apart    \* no two commands that change the shared link overlapped, failed or were killed

tree == <<file, comps, unit, auto, shared>>
vars == <<lock, tree, svc, cmd, faults, crashes, intact, apart>>

Nothing == [pc |-> "idle", job |-> [tool |-> "drdsh", scope |-> "relay", action |-> "start", plugin |-> FALSE],
            todo |-> <<>>, was |-> FALSE, backup |-> Absent, seen |-> "none"]

(* Nothing is installed yet: a first command does that.                    *)
Init ==
    /\ lock = [s \in Scope |-> Nobody]
    /\ file = [s \in Scope |-> [p \in {"bin", "raw", "client", "plugin", "command", "ctl"} |-> Absent]]
    /\ comps = [s \in Scope |-> {}] /\ unit = [s \in Scope |-> "none"]
    /\ auto = [s \in Scope |-> FALSE] /\ shared = "none"
    /\ svc = [s \in Scope |-> "stopped"]
    /\ cmd = [c \in Cmd |-> Nothing]
    /\ faults = 0 /\ crashes = 0
    /\ intact = [s \in Scope |-> Nobody] /\ apart = TRUE

-----------------------------------------------------------------------------
(* What a command will do, in order. *)
Replace(p) == <<<<"out", p>>, <<"in", p>>>>
Put(p)     == <<<<"put", p>>>>
Delete(p)  == <<<<"gone", p>>>>
If(b, ops) == IF b THEN ops ELSE <<>>
Do(op)     == <<<<op, "">>>>

(* The update closure of install in dr-dsh-cli.  A plugin that is already  *)
(* installed is updated along.                                             *)
DrdshUpdate(j, with) ==
    If(j.action = "install", Replace("bin")) \o If(j.scope = "relay", Replace("client"))
    \o If(with, Replace("plugin")) \o Put("command") \o Put("ctl") \o Do("sharedLook") \o Do("sharedLink")
    \o Do("config") \o If(with, Do("pluginAdd")) \o Do("unit") \o Delete("raw")

(* The one in dr-dsh-relayctl, whose one command is bin/drdsh-relayctl. *)
RelayctlUpdate(j) ==
    If(j.action = "install", Replace("raw") \o Put("ctl") \o Delete("bin"))
    \o Replace("client") \o Do("config") \o Do("unit")

(* uninstall of dr-dsh-cli: of the plugin alone, or of everything. *)
DrdshRemoval(j, plugged) ==
    If(plugged, Do("pluginRemove") \o Delete("plugin"))
    \o IF j.action = "unplug" THEN Do("configUnplugged")
       ELSE Do("autoOff") \o Do("unitGone") \o Do("awayLook") \o Do("awayLink")
            \o Delete("command") \o Delete("ctl") \o Delete("bin") \o Delete("client") \o Do("configEmpty")

(* uninstall of dr-dsh-relayctl: the program behind bin/drdsh-relay, which *)
(* a drdsh made, goes, and that command stays.                             *)
RelayctlRemoval(installed) ==
    If(installed, Do("autoOff")) \o Do("unitGone")
    \o Delete("ctl") \o Delete("client") \o Delete("raw") \o Delete("bin") \o Do("configEmpty")

Installs(j)  == j.action \in {"install", "asset"}
Removes(j)   == j.action \in {"uninstall", "unplug"}
Plugged(s)   == "plugin" \in comps[s]
HasConfig(s) == "saved" \in comps[s]
Installed(s) == s \in comps[s]

Work(j) == LET s == j.scope IN
    CASE Installs(j) /\ j.tool = "drdsh"    -> DrdshUpdate(j, s = "daemon" /\ (j.plugin \/ Plugged(s)))
      [] Installs(j) /\ j.tool = "relayctl" -> RelayctlUpdate(j)
      [] Removes(j) /\ j.tool = "drdsh"     -> DrdshRemoval(j, Plugged(s))
      [] Removes(j) /\ j.tool = "relayctl"  -> RelayctlRemoval(Installed(s))
      [] OTHER                              -> <<>>

(* The program a service file of this tool runs, and the tool's commands.  *)
Program(tool)    == IF tool = "drdsh" THEN "bin" ELSE "raw"
CommandsOf(tool) == IF tool = "drdsh" THEN {"command", "ctl"} ELSE {"ctl"}

At(c, pc)  == cmd[c].pc = pc
S(c)       == cmd[c].job.scope
Op(c)      == IF cmd[c].todo = <<>> THEN <<"none", "">> ELSE Head(cmd[c].todo)
Goes(c, pc) == cmd' = [cmd EXCEPT ![c].pc = pc]
Done(c)    == cmd' = [cmd EXCEPT ![c].todo = Tail(@)]

(* The guards of the lock and the staging directory are dropped.           *)
Leaves(c) == /\ lock' = [lock EXCEPT ![S(c)] = Nobody]
             /\ cmd' = [cmd EXCEPT ![c] = [@ EXCEPT !.pc = "ended", !.todo = <<>>]]

-----------------------------------------------------------------------------
(* run: the component's lock is a directory that must not exist yet.       *)
Begin(c, j) ==
    /\ At(c, "idle") /\ (c > 1 => ~At(c - 1, "idle"))
    /\ lock[j.scope] = Nobody
    /\ lock' = [lock EXCEPT ![j.scope] = c]
    /\ cmd' = [cmd EXCEPT ![c].pc = "checking", ![c].job = j]
    /\ UNCHANGED <<tree, svc, faults, crashes, intact, apart>>

(* The configuration, the package, the artefacts, the service manager: all *)
(* are checked, and copies staged, before anything is stopped.  A removal  *)
(* needs a configuration, everything but a first installation an installed *)
(* component, and a first installation must not find files of its own -    *)
(* which an earlier one that broke off does leave behind.                  *)
Allowed(j) == LET s == j.scope IN
    CASE Removes(j)                              -> HasConfig(s)
      [] j.action = "install" /\ HasConfig(s)    -> TRUE
      [] j.action = "install" /\ ~HasConfig(s)   ->
           \A p \in {Program(j.tool)} \cup CommandsOf(j.tool) : file[s][p] = Absent
      [] OTHER                                   -> Installed(s)

Check(c) ==
    /\ At(c, "checking")
    /\ Allowed(cmd[c].job)
    /\ cmd' = [cmd EXCEPT ![c].pc = "reading", ![c].todo = Work(cmd[c].job)]
    /\ intact' = [intact EXCEPT ![S(c)] = IF Installs(cmd[c].job) \/ Removes(cmd[c].job) THEN Nobody ELSE @]
    /\ UNCHANGED <<lock, tree, svc, faults, crashes, apart>>

Refuse(c) ==
    /\ At(c, "checking")
    /\ Leaves(c)
    /\ UNCHANGED <<tree, svc, faults, crashes, intact, apart>>

(* service::state: a service that is still coming up does not count as     *)
(* running.  What is stopped: by an installation, what runs; by a removal, *)
(* whatever there is.                                                      *)
ReadState(c) ==
    /\ At(c, "reading")
    /\ LET runs == Installed(S(c)) /\ svc[S(c)] = "running"
           j    == cmd[c].job
       IN  cmd' = [cmd EXCEPT ![c].was = runs /\ (Installs(j) \/ j.action = "unplug"),
                              ![c].pc = CASE Installs(j)              -> IF runs THEN "stopping" ELSE "working"
                                          [] Removes(j)               -> IF Installed(S(c)) THEN "stopping" ELSE "working"
                                          [] j.action = "start"       -> "starting"
                                          [] j.action \in {"stop", "restart"} -> "stopping"
                                          [] OTHER                    -> "switching"]
    /\ UNCHANGED <<lock, tree, svc, faults, crashes, intact, apart>>

(* service::stop: waits for the service to be down, ... *)
Stop(c) ==
    /\ At(c, "stopping")
    /\ svc' = [svc EXCEPT ![S(c)] = "stopped"]
    /\ IF cmd[c].job.action = "stop" THEN Leaves(c)
       ELSE Goes(c, IF cmd[c].job.action = "restart" THEN "starting" ELSE "working") /\ UNCHANGED lock
    /\ UNCHANGED <<tree, faults, crashes, intact, apart>>

(* ... or gives up after its deadline, and the command with it; the        *)
(* service may still go down.                                              *)
StopFails(c) ==
    /\ At(c, "stopping") /\ faults < MaxFaults
    /\ faults' = faults + 1
    /\ \/ svc' = [svc EXCEPT ![S(c)] = "stopped"]
       \/ UNCHANGED svc
    /\ Leaves(c)
    /\ UNCHANGED <<tree, crashes, intact, apart>>

-----------------------------------------------------------------------------
(* The operations. *)
Working(c, op) == At(c, "working") /\ Op(c)[1] = op
Rest == <<lock, svc, faults, crashes>>

(* Two commands of different components are at work on the shared link.    *)
Touches(c) == cmd[c].pc \in {"reading", "stopping", "working"} /\ (Installs(cmd[c].job) \/ Removes(cmd[c].job))
Overlaps   == \E c, d \in Cmd : c # d /\ Touches(c) /\ Touches(d)

(* files::promote: the old file is moved aside, ... *)
MoveOut(c) ==
    /\ Working(c, "out")
    /\ LET p == Op(c)[2] IN
       /\ file' = [file EXCEPT ![S(c)][p] = Absent]
       /\ cmd' = [cmd EXCEPT ![c].todo = Tail(@), ![c].backup = file[S(c)][p]]
    /\ apart' = (apart /\ ~Overlaps)
    /\ UNCHANGED <<Rest, comps, unit, auto, shared, intact>>

(* ... the staged one moved in and the old one deleted.  link and          *)
(* atomic_write replace in one step.                                       *)
MoveIn(c) ==
    /\ Working(c, "in") \/ Working(c, "put")
    /\ file' = [file EXCEPT ![S(c)][Op(c)[2]] = c]
    /\ cmd' = [cmd EXCEPT ![c].todo = Tail(@), ![c].backup = Absent]
    /\ apart' = (apart /\ ~Overlaps)
    /\ UNCHANGED <<Rest, comps, unit, auto, shared, intact>>

Gone(c) ==
    /\ Working(c, "gone")
    /\ file' = [file EXCEPT ![S(c)][Op(c)[2]] = Absent]
    /\ Done(c)
    /\ apart' = (apart /\ ~Overlaps)
    /\ UNCHANGED <<Rest, comps, unit, auto, shared, intact>>

Exists(s) == s \in Scope /\ file[s]["bin"] # Absent

(* install keeps the shared command's owner while it works.                *)
LookShared(c) ==
    /\ Working(c, "sharedLook")
    /\ cmd' = [cmd EXCEPT ![c].todo = Tail(@), ![c].seen = IF shared \in Scope /\ Exists(shared) THEN "keep" ELSE S(c)]
    /\ UNCHANGED <<Rest, tree, intact, apart>>

(* Mutant: the command is removed whoever else is installed. *)
AwaySharedAlways(c) ==
    /\ Working(c, "awayLook")
    /\ cmd' = [cmd EXCEPT ![c].todo = Tail(@), ![c].seen = IF shared # S(c) THEN "keep" ELSE "none"]
    /\ UNCHANGED <<Rest, tree, intact, apart>>

(* uninstall hands its own over to the other component, if that has one.   *)
AwayShared(c) ==
    /\ Working(c, "awayLook")
    /\ LET other == CHOOSE s \in Scope : s # S(c) IN
       cmd' = [cmd EXCEPT ![c].todo = Tail(@),
                          ![c].seen = IF shared # S(c) THEN "keep" ELSE IF Exists(other) THEN other ELSE "none"]
    /\ UNCHANGED <<Rest, tree, intact, apart>>

LinkShared(c) ==
    /\ Working(c, "sharedLink") \/ Working(c, "awayLink")
    /\ shared' = IF cmd[c].seen = "keep" THEN shared ELSE cmd[c].seen
    /\ cmd' = [cmd EXCEPT ![c].todo = Tail(@), ![c].seen = "none"]
    /\ apart' = (apart /\ ~Overlaps)
    /\ UNCHANGED <<Rest, file, comps, unit, auto, intact>>

(* Config::save, an atomic replacement. *)
SaveConfig(c) ==
    /\ \/ /\ Working(c, "config")
          /\ comps' = [comps EXCEPT ![S(c)] = {"saved", S(c)} \cup (@ \cap {"plugin"})]
       \/ /\ Working(c, "pluginAdd") \* after DSH registered the plugin
          /\ comps' = [comps EXCEPT ![S(c)] = @ \cup {"plugin"}]
       \/ /\ Working(c, "configUnplugged")
          /\ comps' = [comps EXCEPT ![S(c)] = @ \ {"plugin"}]
       \/ /\ Working(c, "configEmpty")
          /\ comps' = [comps EXCEPT ![S(c)] = {"saved"}]
    /\ Done(c)
    /\ UNCHANGED <<Rest, file, unit, auto, shared, intact, apart>>

(* service::prepare, service::autostart, and the removal of the service    *)
(* file, which prepare has just written again.                             *)
SetService(c) ==
    /\ \/ /\ Working(c, "unit")
          /\ unit' = [unit EXCEPT ![S(c)] = Program(cmd[c].job.tool)]
          /\ UNCHANGED auto
       \/ /\ Working(c, "autoOff")
          /\ auto' = [auto EXCEPT ![S(c)] = FALSE]
          /\ unit' = [unit EXCEPT ![S(c)] = Program(cmd[c].job.tool)]
       \/ /\ Working(c, "unitGone")
          /\ unit' = [unit EXCEPT ![S(c)] = "none"]
          /\ UNCHANGED auto
       \/ /\ Working(c, "pluginRemove") \* DSH forgets the plugin
          /\ UNCHANGED <<unit, auto>>
    /\ Done(c)
    /\ UNCHANGED <<Rest, file, comps, shared, intact, apart>>

(* Mutant: a failed update returns at once. *)
WorkFailsHard(c) ==
    /\ At(c, "working") /\ faults < MaxFaults /\ cmd[c].todo # <<>>
    /\ faults' = faults + 1
    /\ Leaves(c)
    /\ apart' = FALSE
    /\ UNCHANGED <<tree, svc, crashes, intact>>

(* Mutant: a failed operation is only logged. *)
WorkGoesOn(c) ==
    /\ At(c, "working") /\ faults < MaxFaults /\ cmd[c].todo # <<>>
    /\ faults' = faults + 1
    /\ Done(c)
    /\ apart' = FALSE
    /\ UNCHANGED <<lock, tree, svc, crashes, intact>>

(* What promote leaves when it fails: the file it had moved aside is put   *)
(* back, or that fails too and it stays in the .backup file, or the new    *)
(* one is in place and only the old one could not be deleted.              *)
Promoted(c) == LET old == cmd[c].backup IN
    {[now |-> old, aside |-> Absent], [now |-> Absent, aside |-> old]}
    \cup {[now |-> c, aside |-> Absent] : x \in {old} \ {Absent}}

(* An operation fails; the rest of the closure is skipped.  A removal of   *)
(* everything ends here.                                                   *)
WorkFails(c) ==
    /\ At(c, "working") /\ faults < MaxFaults /\ cmd[c].todo # <<>>
    /\ faults' = faults + 1
    /\ \E left \in Promoted(c) :
         /\ file' = IF Op(c)[1] = "in" THEN [file EXCEPT ![S(c)][Op(c)[2]] = left.now] ELSE file
         /\ cmd' = [cmd EXCEPT ![c] = [@ EXCEPT !.pc = IF cmd[c].was THEN "starting" ELSE "ended",
                                               !.todo = <<>>, !.backup = left.aside]]
    /\ lock' = IF cmd[c].was THEN lock ELSE [lock EXCEPT ![S(c)] = Nobody]
    /\ apart' = FALSE
    /\ UNCHANGED <<comps, unit, auto, shared, svc, crashes, intact>>

(* Everything was done. *)
Worked(c) ==
    /\ At(c, "working") /\ cmd[c].todo = <<>>
    /\ IF cmd[c].was THEN Goes(c, "starting") /\ UNCHANGED lock ELSE Leaves(c)
    /\ intact' = [intact EXCEPT ![S(c)] = c]
    /\ UNCHANGED <<tree, svc, faults, crashes, apart>>

(* service::start: writes the service file, leaves a running service       *)
(* alone, and looks a second later whether it stayed up.                   *)
Start(c) ==
    /\ At(c, "starting")
    /\ unit' = [unit EXCEPT ![S(c)] = Program(cmd[c].job.tool)]
    /\ svc[S(c)] # "running" => file[S(c)][unit'[S(c)]] # Absent
    /\ svc' = [svc EXCEPT ![S(c)] = "running"]
    /\ Leaves(c)
    /\ UNCHANGED <<file, comps, auto, shared, faults, crashes, intact, apart>>

(* It did not: the program is missing, or keeps failing and is restarted   *)
(* until the service manager's limit.  Or the attempt broke off before the *)
(* service was started: the configuration could not be read, the service   *)
(* file not be written, the state not be asked for, systemctl refused.     *)
StartFails(c) ==
    /\ At(c, "starting")
    /\ LET prepared == [unit EXCEPT ![S(c)] = Program(cmd[c].job.tool)] IN
       \/ /\ svc[S(c)] # "running" /\ unit' = prepared /\ file[S(c)][unit'[S(c)]] = Absent
          /\ UNCHANGED <<faults, svc>>
       \/ /\ svc[S(c)] # "running" /\ unit' = prepared
          /\ faults < MaxFaults /\ faults' = faults + 1
          /\ svc' = [svc EXCEPT ![S(c)] = "activating"]
       \/ /\ unit' \in {unit, prepared}
          /\ faults < MaxFaults /\ faults' = faults + 1
          /\ UNCHANGED svc
    /\ Leaves(c)
    /\ UNCHANGED <<file, comps, auto, shared, crashes, intact, apart>>

(* `enable` and `disable`. *)
Switch(c) ==
    /\ At(c, "switching")
    /\ unit' = [unit EXCEPT ![S(c)] = Program(cmd[c].job.tool)]
    /\ auto' = [auto EXCEPT ![S(c)] = (cmd[c].job.action = "enable")]
    /\ Leaves(c)
    /\ UNCHANGED <<file, comps, shared, svc, faults, crashes, intact, apart>>

-----------------------------------------------------------------------------
(* A command is killed: its lock stays.                                    *)
Kill(c) ==
    /\ faults < MaxFaults /\ cmd[c].pc \notin {"idle", "ended", "killed"}
    /\ faults' = faults + 1
    /\ cmd' = [cmd EXCEPT ![c].pc = "killed", ![c].todo = <<>>]
    /\ apart' = FALSE
    /\ UNCHANGED <<lock, tree, svc, crashes, intact>>

(* The operator removes it, as the message says, after looking.            *)
Unlock(s) ==
    /\ lock[s] # Nobody /\ At(lock[s], "killed")
    /\ lock' = [lock EXCEPT ![s] = Nobody]
    /\ UNCHANGED <<tree, svc, cmd, faults, crashes, intact, apart>>

(* Restart=on-failure: the service manager brings a crashed service back,  *)
(* if the program its service file names is there.                         *)
Crash(s) ==
    /\ svc[s] = "running" /\ crashes < MaxCrashes
    /\ crashes' = crashes + 1
    /\ svc' = [svc EXCEPT ![s] = "activating"]
    /\ UNCHANGED <<lock, tree, cmd, faults, intact, apart>>

Revive(s) ==
    /\ svc[s] = "activating"
    /\ svc' = [svc EXCEPT ![s] = IF unit[s] # "none" /\ file[s][unit[s]] # Absent THEN "running" ELSE "stopped"]
    /\ UNCHANGED <<lock, tree, cmd, faults, crashes, intact, apart>>

-----------------------------------------------------------------------------
Operation(c) == MoveOut(c) \/ MoveIn(c) \/ Gone(c) \/ LookShared(c) \/ AwayShared(c)
                \/ LinkShared(c) \/ SaveConfig(c) \/ SetService(c)

Next ==
    \/ \E c \in Cmd, j \in Job : Begin(c, j)
    \/ \E c \in Cmd : \/ Check(c) \/ Refuse(c) \/ ReadState(c) \/ Stop(c) \/ StopFails(c)
                      \/ Operation(c) \/ WorkFails(c) \/ Worked(c)
                      \/ Start(c) \/ StartFails(c) \/ Switch(c) \/ Kill(c)
    \/ \E s \in Scope : Unlock(s) \/ Crash(s) \/ Revive(s)

Spec == Init /\ [][Next]_vars

-----------------------------------------------------------------------------
(* What the command c with the job j is to achieve for s. *)
Whole(s, c, j) ==
    /\ Installs(j) => /\ s \in comps[s]
                      /\ s = "relay" => file[s]["client"] = c
                      /\ j.tool = "drdsh" => \A p \in CommandsOf(j.tool) : file[s][p] = c
                      /\ s = "daemon" /\ j.plugin => file[s]["plugin"] = c /\ "plugin" \in comps[s]
    /\ j.action = "install" => /\ file[s][Program(j.tool)] = c /\ file[s]["ctl"] = c
                               /\ \A p \in {"bin", "raw"} \ {Program(j.tool)} : file[s][p] = Absent
    /\ j.action = "uninstall" => /\ \A p \in {Program(j.tool), "client"} \cup CommandsOf(j.tool) : file[s][p] = Absent
                                 /\ ~Installed(s)
                                 /\ unit[s] = "none" /\ ~auto[s] /\ svc[s] = "stopped"

(* A command that says it succeeded did all of it, whatever earlier        *)
(* commands left behind when they failed or were killed: after an          *)
(* installation every file it brings is its own, the other tool's programs *)
(* are gone; after a removal there is no program and no command of this    *)
(* tool, no service file, no autostart, and nothing runs.  (A command that *)
(* the other tool made may stay and lead nowhere: drdsh-relayctl leaves    *)
(* bin/drdsh-relay and removes what it starts.)                            *)
SuccessIsWhole == \A s \in Scope : intact[s] \in Cmd => Whole(s, intact[s], cmd[intact[s]].job)

(* Not only this tool managed the scope of c, or a promote there was cut   *)
(* short, by a kill or because it could not put the old file back.         *)
Disturbed(c) == \E d \in Cmd : /\ cmd[d].pc # "idle" /\ S(d) = S(c)
                               /\ cmd[d].job.tool # cmd[c].job.tool \/ cmd[d].backup # Absent

(* "Restore the service after any attempted update": a command that found  *)
(* its service running and is not killed leaves it running, or at least    *)
(* coming up, when it ends, however much of its update failed - unless the *)
(* start itself failed, or the program is gone: both tools manage the      *)
(* relay (`drdsh relay install client` removes the relayctl programs and   *)
(* brings none of its own), or a promote was cut short with the old file   *)
(* aside.  And one that ends before it stopped anything leaves the service *)
(* as it was.                                                              *)
ServiceRestored ==
    [][\A c \in Cmd : cmd[c].pc # "ended" /\ cmd'[c].pc = "ended" =>
         /\ cmd[c].was /\ cmd[c].pc \in {"working", "starting"} =>
              \/ svc'[S(c)] # "stopped"
              \/ cmd[c].pc = "starting" /\ faults' > faults
              \/ file[S(c)][Program(cmd[c].job.tool)] = Absent /\ Disturbed(c)
         /\ cmd[c].pc \in {"checking", "reading"} => svc' = svc]_vars

(* Whoever comes and goes, `drdsh` works: as long as the commands that     *)
(* change it neither overlap nor fail, and the relay is not managed by the *)
(* other tool as well, the shared command exists when some component has a *)
(* program of its own, and leads to one.                                   *)
SharedCommandWorks ==
    apart /\ (\A c \in Cmd : ~Touches(c) /\ cmd[c].job.tool = "drdsh") =>
      /\ (\E s \in Scope : Exists(s)) => shared # "none"
      /\ shared # "none" => Exists(shared)
=============================================================================

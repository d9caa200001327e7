--------------------------- MODULE LifecycleProofs ---------------------------
(***************************************************************************)
(* Proofs about Lifecycle, for every retry limit, inbox capacity, set of   *)
(* process ids and number of commands.                                     *)
(***************************************************************************)
EXTENDS Lifecycle, TLAPS

(* Where the driver is, what it holds and what it publishes agree.  This   *)
(* is what OneOwnedProcess and StatusHonest need to be inductive: at each  *)
(* await, whether a process is held and what the Controller says of it.    *)
AwaitsAgree ==
    /\ published = ctl.lc
    /\ pc = "boot" => handle = NoPid
    /\ mode = "managed" /\ pc \in {"booting", "checking"} => handle # NoPid
    /\ pc \in Startup \cup {"select"} => ctl.lc.st # "starting"
    /\ pc = "spawning" => handle # NoPid /\ ctl.lc.st = "starting" /\ ctl.wanted
    /\ pc = "backoff" => handle = NoPid /\ ctl.lc.st = "recovering"
    /\ pc = "stopping" => handle # NoPid
    /\ mode = "managed" /\ pc \in {"select", "stopping"} =>
         /\ handle # NoPid <=> ctl.lc.st = "running"
         /\ handle # NoPid => ctl.lc.pid = handle
    /\ mode = "attached" => /\ pc \in {"boot", "checking", "select", "aborted"}
                            /\ handle = NoPid
                            /\ inbox = <<>>
    /\ pc = "aborted" => handle = NoPid
    /\ daemon = "down" <=> pc = "aborted"
    /\ daemon = "starting" <=> pc \in Startup

(* What is wanted is what was asked for last, and a restart being stopped  *)
(* for is still asking for DSH to run.                                     *)
WantedIsAsked ==
    /\ ctl.wanted \/ pc \in Startup => intent = "run"
    /\ pc = "stopping" => /\ serving \in Cmd
                          /\ op[serving] \in {"stop", "restart"}
                          /\ op[serving] = "restart" => intent = "run"

(* The failed starts in a row are among those the Controller counts, and   *)
(* while another one is coming the count has not reached the limit.        *)
FailuresCounted ==
    /\ pc \in Startup => fails = 0
    /\ fails <= ctl.attempts
    /\ fails <= MaxAttempts
    /\ pc = "spawning" => fails = 0 \/ ctl.attempts < MaxAttempts
    /\ pc = "backoff" => ctl.attempts < MaxAttempts
    /\ pc = "stopping" => fails = 0
    /\ pc = "select" /\ handle # NoPid => fails = 0

IInv == TypeOK /\ OneOwnedProcess /\ AwaitsAgree /\ WantedIsAsked /\ FailuresCounted
-----------------------------------------------------------------------------
(* What the Controller's methods return, whatever they are applied to.     *)

LEMMA StartedType == ASSUME NEW k \in Controller, NEW p \in Pids \cup {NoPid}
                     PROVE  Started(k, p) \in Controller
BY DEF Controller, Status, LcState, Started, Running

LEMMA BeginStartType == ASSUME NEW k \in Controller PROVE BeginStart(k) \in Controller
BY DEF Controller, Status, LcState, BeginStart, Lc

LEMMA BeginStopType == ASSUME NEW k \in Controller PROVE BeginStop(k) \in Controller
BY DEF Controller, BeginStop

LEMMA StoppedType == ASSUME NEW k \in Controller PROVE Stopped(k) \in Controller
BY DEF Controller, Status, LcState, Stopped, Lc

LEMMA StartFailedType == ASSUME NEW k \in Controller PROVE StartFailed(k) \in Controller
<1>1. Lc("stopped") \in Status /\ Lc("failed") \in Status /\ Lc("recovering") \in Status
  BY DEF Status, LcState, Lc
<1>2. CASE k.wanted
  <2> DEFINE l == IF k.attempts + 1 >= MaxAttempts THEN Lc("failed") ELSE Lc("recovering")
  <2>1. l \in Status /\ k.attempts + 1 \in Nat
    BY <1>1 DEF Controller
  <2>2. StartFailed(k) = [[k EXCEPT !.attempts = k.attempts + 1] EXCEPT !.lc = l]
    BY <1>2 DEF StartFailed
  <2> HIDE DEF l
  <2>q. QED BY <2>1, <2>2 DEF Controller
<1>3. CASE ~k.wanted
  BY <1>1, <1>3 DEF Controller, StartFailed
<1>q. QED BY <1>2, <1>3

LEMMA StatusType == ASSUME NEW k \in Controller PROVE k.lc \in Status
BY DEF Controller

LEMMA AdoptedType == ASSUME NEW p \in Pids \cup {NoPid} PROVE Adopted(p) \in Controller
BY DEF Controller, Status, LcState, Adopted, Running

LEMMA AnswerType == ASSUME TypeOK, NEW c, NEW ok
                    PROVE  Answer(c, ok) \in [Cmd -> Reply]
BY DEF TypeOK, Answer, Reply

LEMMA BumpType == ASSUME NEW n \in 0 .. MaxAttempts + 1
                  PROVE  Bump(n) \in 0 .. MaxAttempts + 1
BY LifecycleAssumption DEF Bump

-----------------------------------------------------------------------------
(* The values stay in their types: no step leaves the states the wire and  *)
(* the status know.                                                        *)
(* The uplink's steps and the signal itself touch neither the driver nor   *)
(* the commands.                                                           *)
LEMMA AsideEffect ==
  ASSUME UplinkStep \/ ShutdownSignal
  PROVE  /\ UNCHANGED <<mode, ctl, published, handle, alive, pc, serving, inbox, op, reply,
                        intent, fails>>
         /\ daemon' = daemon \/ (daemon = "up" /\ daemon' = "leaving")
         /\ uplink' = uplink \/ uplink' \in {"selecting", "network", "ended"}
BY DEF UplinkStep, UplinkSpawned, UplinkCalls, UplinkAnswer, UplinkRefused, UplinkEnds,
       UplinkMoves, ShutdownSignal

LEMMA TypeStep == ASSUME TypeOK, [Next]_vars PROVE TypeOK'
<1> USE DEF Startup
<1>z. 0 \in 0 .. MaxAttempts + 1
  BY LifecycleAssumption
<1>1. CASE SpawnOk
  <2>1. ctl' \in Controller
    BY <1>1, StartedType DEF TypeOK, SpawnOk
  <2>q. QED BY <1>z, <1>1, <2>1, StatusType, AnswerType DEF TypeOK, SpawnOk, FinishStart
<1>2. CASE SpawnFailed
  <2>1. ctl' \in Controller
    BY <1>2, StartFailedType DEF TypeOK, SpawnFailed
  <2>q. QED BY <1>2, <2>1, StatusType, AnswerType, BumpType DEF TypeOK, SpawnFailed, FinishStart
<1>3. CASE WatchExit
  <2>1. ctl' \in Controller
    BY <1>3, StartFailedType DEF TypeOK, WatchExit, Exited
  <2>q. QED BY <1>3, <2>1, StatusType, BumpType DEF TypeOK, WatchExit
<1>4. CASE StopOk
  <2>1. ctl' \in Controller
    BY <1>4, StoppedType, BeginStartType DEF TypeOK, StopOk
  <2>2. handle' \in Pids \cup {NoPid} /\ alive' \subseteq Pids
    BY <1>4 DEF TypeOK, StopOk
  <2>3. reply' \in [Cmd -> Reply]
    BY <1>4 DEF TypeOK, StopOk, Answer, Reply
  <2>q. QED BY <1>4, <2>1, <2>2, <2>3, StatusType DEF TypeOK, StopOk
<1>5. CASE StopFailed
  BY <1>5, StatusType, AnswerType DEF TypeOK, StopFailed
<1>6. CASE BackoffElapsed
  <2>1. ctl' \in Controller
    BY <1>6, BeginStartType DEF TypeOK, BackoffElapsed, EnterStart
  <2>2. handle' \in Pids \cup {NoPid} /\ alive' \subseteq Pids
    BY <1>6 DEF TypeOK, BackoffElapsed, EnterStart
  <2>q. QED BY <1>6, <2>1, <2>2, StatusType, AnswerType DEF TypeOK, BackoffElapsed, EnterStart, FinishStart
<1>7. ASSUME NEW c \in Cmd, ServeStart(c) PROVE TypeOK'
  <2>1. ctl' \in Controller
    BY <1>7, BeginStartType DEF TypeOK, ServeStart, EnterStart
  <2>2. handle' \in Pids \cup {NoPid} /\ alive' \subseteq Pids
    BY <1>7 DEF TypeOK, ServeStart, EnterStart
  <2>3. reply' \in [Cmd -> Reply]
    BY <1>7 DEF TypeOK, ServeStart, Answer, Reply
  <2>4. inbox' \in Seq(Cmd) /\ intent' \in {"run", "down"} /\ fails' = 0
    BY <1>7 DEF TypeOK, ServeStart, Take, Serves
  <2>5. published' \in Status /\ pc' \in {"select", "spawning", "backoff"}
          /\ serving' \in Cmd \cup {NoCmd}
    BY <1>7, <2>1, StatusType DEF TypeOK, ServeStart, EnterStart
  <2>q. QED BY <1>z, <1>7, <2>1, <2>2, <2>3, <2>4, <2>5 DEF TypeOK, ServeStart
<1>8. ASSUME NEW c \in Cmd, ServeStop(c) PROVE TypeOK'
  BY <1>z, <1>8, BeginStopType DEF TypeOK, ServeStop, Take, Serves
<1>9. ASSUME NEW c \in Cmd, ServeStopIdle(c) PROVE TypeOK'
  <2>1. ctl' \in Controller
    BY <1>9, BeginStartType, BeginStopType, StoppedType DEF TypeOK, ServeStopIdle, EnterStart
  <2>2. handle' \in Pids \cup {NoPid} /\ alive' \subseteq Pids
    BY <1>9 DEF TypeOK, ServeStopIdle, EnterStart
  <2>3. reply' \in [Cmd -> Reply]
    BY <1>9 DEF TypeOK, ServeStopIdle, Answer, Reply
  <2>4. inbox' \in Seq(Cmd) /\ intent' \in {"run", "down"} /\ fails' = 0
    BY <1>9 DEF TypeOK, ServeStopIdle, Take, Serves
  <2>5. published' \in Status /\ pc' \in {"select", "spawning", "backoff"}
          /\ serving' \in Cmd \cup {NoCmd}
    BY <1>9, <2>1, StatusType DEF TypeOK, ServeStopIdle, EnterStart
  <2>q. QED BY <1>z, <1>9, <2>1, <2>2, <2>3, <2>4, <2>5 DEF TypeOK, ServeStopIdle
<1>10. ASSUME NEW c \in Cmd, BackoffCommand(c) PROVE TypeOK'
  <2>1. ctl' \in Controller
    BY <1>10, BeginStopType DEF TypeOK, BackoffCommand
  <2>3. reply' \in [Cmd -> Reply]
    BY <1>10 DEF TypeOK, BackoffCommand, Answer, Reply
  <2>4. inbox' \in Seq(Cmd) /\ intent' \in {"run", "down"} /\ fails' = 0
    BY <1>10 DEF TypeOK, BackoffCommand, Take, Serves
  <2>5. published' \in Status /\ pc' \in {"select", "spawning", "backoff"}
          /\ serving' \in Cmd \cup {NoCmd}
    BY <1>10, <2>1, StatusType DEF TypeOK, BackoffCommand
  <2>q. QED BY <1>z, <1>10, <2>1, <2>3, <2>4, <2>5 DEF TypeOK, BackoffCommand
<1>11. CASE Crash
  BY <1>11 DEF TypeOK, Crash
<1>12. ASSUME NEW c \in Cmd, NEW o \in Op, ClientCommand(c, o) PROVE TypeOK'
  <2>1. op' \in [Cmd -> Op \cup {"none"}]
    BY <1>12 DEF TypeOK, ClientCommand, Submit
  <2>2. reply' \in [Cmd -> Reply]
    BY <1>12 DEF TypeOK, ClientCommand, Submit, Reply
  <2>3. inbox' \in Seq(Cmd)
    BY <1>12 DEF TypeOK, ClientCommand, Submit
  <2>q. QED BY <1>12, <2>1, <2>2, <2>3 DEF TypeOK, ClientCommand, Submit
<1>13. CASE StopDriver
  <2>1. Shutdown \in Cmd
    BY LifecycleAssumption DEF Shutdown, Cmd
  <2>2. op' \in [Cmd -> Op \cup {"none"}]
    BY <1>13, <2>1 DEF TypeOK, StopDriver, Submit, Op
  <2>3. reply' \in [Cmd -> Reply]
    BY <1>13, <2>1 DEF TypeOK, StopDriver, Submit, Reply
  <2>4. inbox' \in Seq(Cmd)
    <3>1. inbox' = inbox \/ inbox' = Append(inbox, Shutdown)
      BY <1>13 DEF StopDriver, Submit
    <3>q. QED BY <2>1, <3>1 DEF TypeOK
  <2>q. QED BY <1>13, <2>1, <2>2, <2>3, <2>4 DEF TypeOK, StopDriver, Submit
<1>14. CASE AbortDriver \/ StartupFails
  BY <1>14 DEF TypeOK, AbortDriver, StartupFails, GoesDown
<1>15. CASE UNCHANGED vars
  BY <1>15 DEF TypeOK, vars
<1>16. CASE BootSpawn \/ BootCheck
  BY <1>16 DEF TypeOK, BootSpawn, BootCheck
<1>17. CASE Adopt
  <2>1. ctl' \in Controller
    BY <1>17, AdoptedType DEF TypeOK, Adopt
  <2>q. QED BY <1>17, <2>1, StatusType DEF TypeOK, Adopt
<1>18. CASE UplinkStep \/ ShutdownSignal
  BY <1>18, AsideEffect DEF TypeOK
<1>q. QED
  BY <1>1, <1>2, <1>3, <1>4, <1>5, <1>6, <1>7, <1>8, <1>9, <1>10, <1>11, <1>12,
     <1>13, <1>14, <1>15, <1>16, <1>17, <1>18 DEF Next, DriverStep, TakesCommand

-----------------------------------------------------------------------------
(* What the Controller's methods do to each of its fields.                 *)

LEMMA StartedEffect ==
  ASSUME NEW k \in Controller, NEW p
  PROVE  /\ Started(k, p).lc.st = "running" /\ Started(k, p).lc.pid = p
         /\ Started(k, p).attempts = 0 /\ Started(k, p).wanted = k.wanted
BY DEF Controller, Started, Running

LEMMA AdoptedEffect ==
  ASSUME NEW p
  PROVE  /\ Adopted(p).lc.st = "running" /\ Adopted(p).lc.pid = p
         /\ Adopted(p).attempts = 0 /\ Adopted(p).wanted
BY DEF Adopted, Running

LEMMA BeginStartEffect ==
  ASSUME NEW k \in Controller
  PROVE  /\ BeginStart(k).lc.st = "starting"
         /\ BeginStart(k).attempts = k.attempts /\ BeginStart(k).wanted
BY DEF Controller, BeginStart, Lc

LEMMA BeginStopEffect ==
  ASSUME NEW k \in Controller
  PROVE  /\ BeginStop(k).lc = k.lc
         /\ BeginStop(k).attempts = k.attempts /\ ~BeginStop(k).wanted
BY DEF Controller, BeginStop

LEMMA StoppedEffect ==
  ASSUME NEW k \in Controller
  PROVE  /\ Stopped(k).lc.st = "stopped"
         /\ Stopped(k).attempts = 0 /\ ~Stopped(k).wanted
BY DEF Controller, Stopped, Lc

LEMMA StartFailedEffect ==
  ASSUME NEW k \in Controller
  PROVE  /\ StartFailed(k).lc.st \in {"stopped", "failed", "recovering"}
         /\ StartFailed(k).wanted = k.wanted
         /\ StartFailed(k).attempts = IF k.wanted THEN k.attempts + 1 ELSE k.attempts
         /\ StartFailed(k).lc.st = "recovering" =>
               k.wanted /\ k.attempts + 1 < MaxAttempts
         /\ StartFailed(k).lc.st # "recovering" /\ k.wanted => k.attempts + 1 >= MaxAttempts
<1>1. CASE k.wanted
  <2> DEFINE l == IF k.attempts + 1 >= MaxAttempts THEN Lc("failed") ELSE Lc("recovering")
  <2>1. StartFailed(k) = [[k EXCEPT !.attempts = k.attempts + 1] EXCEPT !.lc = l]
    BY <1>1 DEF StartFailed
  <2>2. l.st = IF k.attempts + 1 >= MaxAttempts THEN "failed" ELSE "recovering"
    BY DEF Lc
  <2> HIDE DEF l
  <2>3. /\ StartFailed(k).lc = l /\ StartFailed(k).wanted = k.wanted
        /\ StartFailed(k).attempts = k.attempts + 1 /\ k.attempts \in Nat
    BY <2>1 DEF Controller
  <2>q. QED BY <1>1, <2>2, <2>3, LifecycleAssumption
<1>2. CASE ~k.wanted
  BY <1>2 DEF StartFailed, Controller, Lc
<1>q. QED BY <1>1, <1>2

-----------------------------------------------------------------------------
(* Each step keeps the one process with its owner and the published state  *)
(* with the await the driver is at.                                        *)
LEMMA AwaitsStep ==
  ASSUME TypeOK, OneOwnedProcess, AwaitsAgree, [Next]_vars
  PROVE  OneOwnedProcess' /\ AwaitsAgree'
<1> USE DEF Startup
<1>0. NoPid \notin Pids
  BY LifecycleAssumption DEF NoPid
<1>c. ctl \in Controller
  BY DEF TypeOK
<1>1. CASE SpawnOk
  <2>1. ctl'.lc.st = "running" /\ ctl'.lc.pid = handle
    BY <1>c, <1>1, StartedEffect DEF SpawnOk
  <2>q. QED BY <1>0, <1>1, <2>1
            DEF TypeOK, OneOwnedProcess, AwaitsAgree, SpawnOk, FinishStart
<1>2. CASE SpawnFailed
  <2>1. ctl'.lc.st \in {"stopped", "failed", "recovering"}
    BY <1>c, <1>2, StartFailedEffect DEF SpawnFailed
  <2>2. pc' = IF ctl'.lc.st = "recovering" THEN "backoff" ELSE "select"
    BY <1>2 DEF SpawnFailed, FinishStart
  <2>q. QED BY <1>2, <2>1, <2>2 DEF OneOwnedProcess, AwaitsAgree, SpawnFailed
<1>3. CASE WatchExit
  <2>1. ctl'.lc.st \in {"stopped", "failed", "recovering"}
    BY <1>c, <1>3, StartFailedEffect DEF WatchExit, Exited
  <2>q. QED BY <1>3, <2>1 DEF OneOwnedProcess, AwaitsAgree, WatchExit
<1>4. CASE StopOk
  <2>1. CASE op[serving] = "stop"
    <3>1. ctl'.lc.st = "stopped"
      BY <1>c, <1>4, <2>1, StoppedEffect DEF StopOk
    <3>q. QED BY <1>4, <2>1, <3>1 DEF OneOwnedProcess, AwaitsAgree, StopOk
  <2>2. CASE op[serving] # "stop"
    <3>1. ctl'.lc.st = "starting" /\ ctl'.wanted
      BY <1>c, <1>4, <2>2, StoppedType, BeginStartEffect DEF StopOk
    <3>q. QED BY <1>0, <1>4, <2>2, <3>1 DEF OneOwnedProcess, AwaitsAgree, StopOk
  <2>q. QED BY <2>1, <2>2
<1>5. CASE StopFailed
  BY <1>5 DEF TypeOK, OneOwnedProcess, AwaitsAgree, StopFailed
<1>6. CASE BackoffElapsed
  <2>1. CASE ctl.wanted
    <3>1. ctl'.lc.st = "starting" /\ ctl'.wanted
      BY <1>c, <1>6, <2>1, BeginStartEffect DEF BackoffElapsed, EnterStart
    <3>q. QED BY <1>0, <1>6, <2>1, <3>1
              DEF OneOwnedProcess, AwaitsAgree, BackoffElapsed, EnterStart
  <2>2. CASE ~ctl.wanted
    BY <1>6, <2>2 DEF TypeOK, OneOwnedProcess, AwaitsAgree, BackoffElapsed, FinishStart
  <2>q. QED BY <2>1, <2>2
<1>7. ASSUME NEW c \in Cmd, ServeStart(c) PROVE OneOwnedProcess' /\ AwaitsAgree'
  <2>1. CASE handle = NoPid
    <3>1. ctl'.lc.st = "starting" /\ ctl'.wanted
      BY <1>c, <1>7, <2>1, BeginStartEffect DEF ServeStart, EnterStart
    <3>q. QED BY <1>0, <1>7, <2>1, <3>1
              DEF TypeOK, OneOwnedProcess, AwaitsAgree, ServeStart, EnterStart, Take
  <2>2. CASE handle # NoPid
    BY <1>7, <2>2 DEF TypeOK, OneOwnedProcess, AwaitsAgree, ServeStart, Take
  <2>q. QED BY <2>1, <2>2
<1>8. ASSUME NEW c \in Cmd, ServeStop(c) PROVE OneOwnedProcess' /\ AwaitsAgree'
  <2>1. ctl'.lc = ctl.lc
    BY <1>c, <1>8, BeginStopEffect DEF ServeStop
  <2>q. QED BY <1>8, <2>1 DEF TypeOK, OneOwnedProcess, AwaitsAgree, ServeStop, Take
<1>9. ASSUME NEW c \in Cmd, ServeStopIdle(c) PROVE OneOwnedProcess' /\ AwaitsAgree'
  <2>0. BeginStop(ctl) \in Controller /\ Stopped(BeginStop(ctl)) \in Controller
    BY <1>c, BeginStopType, StoppedType
  <2>1. CASE op[c] = "stop"
    <3>1. ctl'.lc.st = "stopped"
      BY <1>9, <2>0, <2>1, StoppedEffect DEF ServeStopIdle
    <3>q. QED BY <1>9, <2>1, <3>1 DEF TypeOK, OneOwnedProcess, AwaitsAgree, ServeStopIdle, Take
  <2>2. CASE op[c] # "stop"
    <3>1. ctl'.lc.st = "starting" /\ ctl'.wanted
      BY <1>9, <2>0, <2>2, BeginStartEffect DEF ServeStopIdle, EnterStart
    <3>q. QED BY <1>0, <1>9, <2>2, <3>1
              DEF TypeOK, OneOwnedProcess, AwaitsAgree, ServeStopIdle, EnterStart, Take
  <2>q. QED BY <2>1, <2>2
<1>10. ASSUME NEW c \in Cmd, BackoffCommand(c) PROVE OneOwnedProcess' /\ AwaitsAgree'
  <2>1. ctl'.lc = ctl.lc
    BY <1>c, <1>10, BeginStopEffect DEF BackoffCommand
  <2>2. pc' \in {"select", "backoff"}
    BY <1>10 DEF BackoffCommand
  <2>q. QED BY <1>10, <2>1, <2>2 DEF TypeOK, OneOwnedProcess, AwaitsAgree, BackoffCommand, Take
<1>11. CASE Crash
  BY <1>11 DEF OneOwnedProcess, AwaitsAgree, Crash
<1>12. ASSUME NEW c \in Cmd, NEW o \in Op, ClientCommand(c, o)
       PROVE  OneOwnedProcess' /\ AwaitsAgree'
  BY <1>12 DEF TypeOK, OneOwnedProcess, AwaitsAgree, ClientCommand, Submit
<1>13. CASE StopDriver
  BY <1>13 DEF TypeOK, OneOwnedProcess, AwaitsAgree, StopDriver, Submit
<1>14. CASE AbortDriver \/ StartupFails
  BY <1>14 DEF TypeOK, OneOwnedProcess, AwaitsAgree, AbortDriver, StartupFails, GoesDown
<1>15. CASE UNCHANGED vars
  BY <1>15 DEF OneOwnedProcess, AwaitsAgree, vars
<1>16. CASE BootSpawn \/ BootCheck
  BY <1>0, <1>16 DEF TypeOK, OneOwnedProcess, AwaitsAgree, BootSpawn, BootCheck
<1>17. CASE Adopt
  <2>1. CASE mode = "managed"
    <3>1. ctl'.lc.st = "running" /\ ctl'.lc.pid = handle
      BY <1>17, <2>1, AdoptedEffect DEF Adopt
    <3>q. QED BY <1>17, <2>1, <3>1 DEF TypeOK, OneOwnedProcess, AwaitsAgree, Adopt
  <2>2. CASE mode = "attached"
    BY <1>17, <2>2 DEF TypeOK, OneOwnedProcess, AwaitsAgree, Adopt
  <2>q. QED BY <2>1, <2>2 DEF TypeOK
<1>18. CASE UplinkStep \/ ShutdownSignal
  BY <1>18, AsideEffect DEF OneOwnedProcess, AwaitsAgree
<1>q. QED
  BY <1>1, <1>2, <1>3, <1>4, <1>5, <1>6, <1>7, <1>8, <1>9, <1>10, <1>11, <1>12,
     <1>13, <1>14, <1>15, <1>16, <1>17, <1>18 DEF Next, DriverStep, TakesCommand

-----------------------------------------------------------------------------
(* Only a served command changes what is wanted or asked for.              *)
LEMMA WantedStep ==
  ASSUME TypeOK, AwaitsAgree, WantedIsAsked, [Next]_vars
  PROVE  WantedIsAsked'
<1> USE DEF Startup
<1>c. ctl \in Controller
  BY DEF TypeOK
<1>1. CASE SpawnOk
  <2>1. ctl'.wanted = ctl.wanted
    BY <1>c, <1>1, StartedEffect DEF SpawnOk
  <2>q. QED BY <1>1, <2>1 DEF WantedIsAsked, SpawnOk, FinishStart
<1>2. CASE SpawnFailed
  <2>1. ctl'.wanted = ctl.wanted
    BY <1>c, <1>2, StartFailedEffect DEF SpawnFailed
  <2>2. pc' \in {"backoff", "select"}
    BY <1>2 DEF SpawnFailed, FinishStart
  <2>q. QED BY <1>2, <2>1, <2>2 DEF WantedIsAsked, SpawnFailed
<1>3. CASE WatchExit
  <2>1. ctl'.wanted = ctl.wanted
    BY <1>c, <1>3, StartFailedEffect DEF WatchExit, Exited
  <2>q. QED BY <1>3, <2>1 DEF WantedIsAsked, WatchExit
<1>4. CASE StopOk
  <2>1. CASE op[serving] = "stop"
    <3>1. ~ctl'.wanted
      BY <1>c, <1>4, <2>1, StoppedEffect DEF StopOk
    <3>q. QED BY <1>4, <2>1, <3>1 DEF WantedIsAsked, StopOk
  <2>2. CASE op[serving] # "stop"
    BY <1>4, <2>2 DEF WantedIsAsked, StopOk
  <2>q. QED BY <2>1, <2>2
<1>5. CASE StopFailed
  BY <1>5 DEF WantedIsAsked, StopFailed
<1>6. CASE BackoffElapsed
  <2>1. CASE ctl.wanted
    BY <1>6, <2>1 DEF WantedIsAsked, BackoffElapsed, EnterStart
  <2>2. CASE ~ctl.wanted
    BY <1>6, <2>2 DEF WantedIsAsked, BackoffElapsed, FinishStart
  <2>q. QED BY <2>1, <2>2
<1>7. ASSUME NEW c \in Cmd, ServeStart(c) PROVE WantedIsAsked'
  <2>1. intent' = "run" /\ pc' # "stopping"
    BY <1>7 DEF ServeStart, EnterStart, Serves
  <2>q. QED BY <2>1 DEF WantedIsAsked
<1>8. ASSUME NEW c \in Cmd, ServeStop(c) PROVE WantedIsAsked'
  <2>1. ~ctl'.wanted
    BY <1>c, <1>8, BeginStopEffect DEF ServeStop
  <2>q. QED BY <1>8, <2>1 DEF WantedIsAsked, ServeStop, Serves
<1>9. ASSUME NEW c \in Cmd, ServeStopIdle(c) PROVE WantedIsAsked'
  <2>0. BeginStop(ctl) \in Controller
    BY <1>c, BeginStopType
  <2>1. CASE op[c] = "stop"
    <3>1. ~ctl'.wanted
      BY <1>9, <2>0, <2>1, StoppedEffect DEF ServeStopIdle
    <3>q. QED BY <1>9, <2>1, <3>1 DEF WantedIsAsked, ServeStopIdle
  <2>2. CASE op[c] # "stop"
    BY <1>9, <2>2 DEF WantedIsAsked, ServeStopIdle, EnterStart, Serves
  <2>q. QED BY <2>1, <2>2
<1>10. ASSUME NEW c \in Cmd, BackoffCommand(c) PROVE WantedIsAsked'
  <2>1. op[c] = "stop" => ~ctl'.wanted
    BY <1>c, <1>10, BeginStopEffect DEF BackoffCommand
  <2>2. pc' \in {"backoff", "select"} /\ intent' = IF op[c] = "stop" THEN "down" ELSE "run"
    BY <1>10 DEF BackoffCommand, Serves
  <2>q. QED BY <2>1, <2>2 DEF WantedIsAsked
<1>11. CASE Crash
  BY <1>11 DEF WantedIsAsked, Crash
<1>12. ASSUME NEW c \in Cmd, NEW o \in Op, ClientCommand(c, o) PROVE WantedIsAsked'
  BY <1>12 DEF TypeOK, WantedIsAsked, ClientCommand, Submit
<1>13. CASE StopDriver
  BY <1>13 DEF TypeOK, WantedIsAsked, StopDriver, Submit
<1>14. CASE AbortDriver \/ StartupFails
  BY <1>14 DEF WantedIsAsked, AbortDriver, StartupFails, GoesDown
<1>15. CASE UNCHANGED vars
  BY <1>15 DEF WantedIsAsked, vars
<1>16. CASE BootSpawn \/ BootCheck
  BY <1>16 DEF WantedIsAsked, BootSpawn, BootCheck
<1>17. CASE Adopt
  BY <1>17 DEF WantedIsAsked, Adopt
<1>18. CASE UplinkStep \/ ShutdownSignal
  BY <1>18, AsideEffect DEF WantedIsAsked
<1>q. QED
  BY <1>1, <1>2, <1>3, <1>4, <1>5, <1>6, <1>7, <1>8, <1>9, <1>10, <1>11, <1>12,
     <1>13, <1>14, <1>15, <1>16, <1>17, <1>18 DEF Next, DriverStep, TakesCommand

(* Only a failing start counts, and the last one allowed ends the retries. *)
LEMMA FailuresStep ==
  ASSUME TypeOK, AwaitsAgree, FailuresCounted, [Next]_vars
  PROVE  FailuresCounted'
<1> USE DEF Startup
<1>c. /\ ctl \in Controller /\ ctl.attempts \in Nat
      /\ fails \in 0 .. MaxAttempts + 1 /\ MaxAttempts \in Nat \ {0}
  BY LifecycleAssumption DEF TypeOK, Controller
<1>1. CASE SpawnOk
  <2>1. ctl'.attempts = 0 /\ fails' = 0 /\ pc' = "select"
    BY <1>c, <1>1, StartedEffect DEF SpawnOk, FinishStart
  <2>q. QED BY <1>c, <2>1 DEF FailuresCounted
<1>2. CASE SpawnFailed
  <2>1. /\ ctl'.attempts = ctl.attempts + 1
        /\ ctl'.lc.st = "recovering" => ctl.attempts + 1 < MaxAttempts
    BY <1>c, <1>2, StartFailedEffect DEF SpawnFailed, AwaitsAgree
  <2>2. pc' = IF ctl'.lc.st = "recovering" THEN "backoff" ELSE "select"
    BY <1>2 DEF SpawnFailed, FinishStart
  <2>3. fails' = fails + 1 /\ handle' = NoPid /\ (fails = 0 \/ ctl.attempts < MaxAttempts)
    BY <1>c, <1>2 DEF SpawnFailed, Bump, FailuresCounted
  <2>q. QED BY <1>c, <2>1, <2>2, <2>3 DEF FailuresCounted
<1>3. CASE WatchExit
  <2>1. /\ ctl'.attempts \in Nat /\ ctl'.attempts >= ctl.attempts
        /\ ctl'.lc.st = "recovering" => ctl'.attempts < MaxAttempts
    BY <1>c, <1>3, StartFailedEffect DEF WatchExit, Exited
  <2>q. QED BY <1>c, <1>3, <2>1 DEF FailuresCounted, WatchExit
<1>4. CASE StopOk
  <2>1. ctl'.attempts = 0
    BY <1>c, <1>4, StoppedType, StoppedEffect, BeginStartEffect DEF StopOk
  <2>2. fails' = 0 /\ pc' \in {"select", "spawning"}
    BY <1>4 DEF StopOk, FailuresCounted
  <2>q. QED BY <1>c, <2>1, <2>2 DEF FailuresCounted
<1>5. CASE StopFailed
  BY <1>c, <1>5 DEF FailuresCounted, StopFailed
<1>6. CASE BackoffElapsed
  <2>1. CASE ctl.wanted
    <3>1. ctl'.attempts = ctl.attempts
      BY <1>c, <1>6, <2>1, BeginStartEffect DEF BackoffElapsed, EnterStart
    <3>q. QED BY <1>c, <1>6, <2>1, <3>1 DEF FailuresCounted, BackoffElapsed, EnterStart
  <2>2. CASE ~ctl.wanted
    BY <1>c, <1>6, <2>2 DEF AwaitsAgree, FailuresCounted, BackoffElapsed, FinishStart
  <2>q. QED BY <2>1, <2>2
<1>7. ASSUME NEW c \in Cmd, ServeStart(c) PROVE FailuresCounted'
  <2>1. ctl'.attempts = ctl.attempts /\ fails' = 0 /\ pc' # "backoff"
    BY <1>c, <1>7, BeginStartEffect DEF ServeStart, EnterStart, Serves
  <2>q. QED BY <1>c, <2>1 DEF FailuresCounted
<1>8. ASSUME NEW c \in Cmd, ServeStop(c) PROVE FailuresCounted'
  <2>1. ctl'.attempts = ctl.attempts /\ fails' = 0 /\ pc' # "backoff"
    BY <1>c, <1>8, BeginStopEffect DEF ServeStop, Serves
  <2>q. QED BY <1>c, <2>1 DEF FailuresCounted
<1>9. ASSUME NEW c \in Cmd, ServeStopIdle(c) PROVE FailuresCounted'
  <2>0. BeginStop(ctl) \in Controller /\ Stopped(BeginStop(ctl)) \in Controller
    BY <1>c, BeginStopType, StoppedType
  <2>1. ctl'.attempts = 0
    BY <1>9, <2>0, StoppedEffect, BeginStartEffect DEF ServeStopIdle, EnterStart
  <2>2. fails' = 0 /\ pc' # "backoff"
    BY <1>9 DEF ServeStopIdle, EnterStart, Serves
  <2>q. QED BY <1>c, <2>1, <2>2 DEF FailuresCounted
<1>10. ASSUME NEW c \in Cmd, BackoffCommand(c) PROVE FailuresCounted'
  <2>1. ctl'.attempts = ctl.attempts /\ fails' = 0
    BY <1>c, <1>10, BeginStopEffect DEF BackoffCommand, Serves
  <2>q. QED BY <1>c, <1>10, <2>1 DEF FailuresCounted, BackoffCommand
<1>11. CASE Crash
  BY <1>11 DEF FailuresCounted, Crash
<1>12. ASSUME NEW c \in Cmd, NEW o \in Op, ClientCommand(c, o) PROVE FailuresCounted'
  BY <1>12 DEF FailuresCounted, ClientCommand, Submit
<1>13. CASE StopDriver
  BY <1>13 DEF FailuresCounted, StopDriver, Submit
<1>14. CASE AbortDriver \/ StartupFails
  BY <1>14 DEF FailuresCounted, AbortDriver, StartupFails, GoesDown
<1>15. CASE UNCHANGED vars
  BY <1>15 DEF FailuresCounted, vars
<1>16. CASE BootSpawn \/ BootCheck
  BY <1>16 DEF FailuresCounted, BootSpawn, BootCheck
<1>17. CASE Adopt
  <2>1. ctl'.attempts \in Nat
    BY <1>c, <1>17, AdoptedEffect DEF Adopt
  <2>q. QED BY <1>c, <1>17, <2>1 DEF FailuresCounted, Adopt
<1>18. CASE UplinkStep \/ ShutdownSignal
  BY <1>18, AsideEffect DEF FailuresCounted
<1>q. QED
  BY <1>1, <1>2, <1>3, <1>4, <1>5, <1>6, <1>7, <1>8, <1>9, <1>10, <1>11, <1>12,
     <1>13, <1>14, <1>15, <1>16, <1>17, <1>18 DEF Next, DriverStep, TakesCommand

-----------------------------------------------------------------------------
(* The initial state: nothing started, and nothing counted. *)
LEMMA InitIInv == Init => IInv
<1> SUFFICES ASSUME Init PROVE IInv
  OBVIOUS
<1>1. MaxAttempts \in Nat /\ NoPid \notin Pids
  BY LifecycleAssumption DEF NoPid
<1>2. /\ ctl \in Controller /\ ctl.lc \in Status /\ ctl.lc.st # "starting"
      /\ ctl.attempts = 0 /\ ~ctl.wanted
  BY DEF Init, NewController, Lc, Running, Controller, Status, LcState
<1>q. QED BY <1>1, <1>2
          DEF Init, IInv, TypeOK, OneOwnedProcess, AwaitsAgree, WantedIsAsked,
              FailuresCounted, Reply, Startup

LEMMA NextIInv == IInv /\ [Next]_vars => IInv'
BY TypeStep, AwaitsStep, WantedStep, FailuresStep DEF IInv

(* The strengthened invariant holds in every behaviour. *)
THEOREM IInvHolds == Spec => []IInv
BY InitIInv, NextIInv, PTL DEF Spec

(* Every reachable state of driver, process and channel is well typed: in  *)
(* particular the published status is one the control protocol can carry.  *)
THEOREM TypeCorrect == Spec => []TypeOK
<1>1. IInv => TypeOK
  BY DEF IInv
<1>q. QED BY <1>1, IInvHolds, PTL

(* Whatever the order of exits, commands, failed starts, failed stops and  *)
(* shutdown, at most one DSH of this daemon is alive and the driver is     *)
(* holding it.                                                             *)
THEOREM OneProcess == Spec => []OneOwnedProcess
<1>1. IInv => OneOwnedProcess
  BY DEF IInv
<1>q. QED BY <1>1, IInvHolds, PTL

(* A status answer never claims a process the daemon does not hold, and    *)
(* never denies one that is still running.                                 *)
THEOREM HonestStatus == Spec => []StatusHonest
<1>1. IInv => StatusHonest
  BY DEF IInv, TypeOK, OneOwnedProcess, AwaitsAgree, StatusHonest, Startup
<1>q. QED BY <1>1, IInvHolds, PTL

(* max_attempts bounds the failing starts in a row, for every policy.      *)
THEOREM RetriesBounded == Spec => []GivesUp
<1>1. IInv => GivesUp
  BY DEF IInv, FailuresCounted, GivesUp
<1>q. QED BY <1>1, IInvHolds, PTL

(* A daemon that is down has left no DSH behind.                           *)
THEOREM CleanShutdown == Spec => []NothingLeftBehind
<1>1. IInv => NothingLeftBehind
  BY DEF IInv, OneOwnedProcess, AwaitsAgree, NothingLeftBehind
<1>q. QED BY <1>1, IInvHolds, PTL

(* A stop sticks: no start is entered after one until somebody asks for it. *)
THEOREM StopSticks == Spec => NoUnwantedStart
<1> DEFINE Sticks == pc' = "spawning" /\ pc # "spawning" => intent' = "run"
<1>1. ASSUME IInv, [Next]_vars PROVE [Sticks]_vars
  <2>1. CASE StopOk
    BY <1>1, <2>1 DEF IInv, WantedIsAsked, StopOk
  <2>2. CASE BackoffElapsed
    BY <1>1, <2>2 DEF IInv, WantedIsAsked, BackoffElapsed, FinishStart
  <2>3. ASSUME NEW c \in Cmd, ServeStart(c) PROVE Sticks
    BY <2>3 DEF ServeStart, Serves
  <2>4. ASSUME NEW c \in Cmd, ServeStopIdle(c) PROVE Sticks
    BY <2>4 DEF ServeStopIdle, Serves
  <2>5. CASE SpawnOk \/ SpawnFailed \/ WatchExit \/ StopFailed \/ Crash
               \/ StopDriver \/ AbortDriver \/ UNCHANGED vars
    BY <2>5 DEF SpawnOk, SpawnFailed, WatchExit, StopFailed, Crash, StopDriver,
                Submit, AbortDriver, GoesDown, FinishStart, vars
  <2>8. CASE BootSpawn \/ BootCheck \/ Adopt \/ StartupFails
    BY <2>8 DEF BootSpawn, BootCheck, Adopt, StartupFails, GoesDown
  <2>6. ASSUME NEW c \in Cmd, ServeStop(c) \/ BackoffCommand(c) PROVE Sticks
    BY <2>6 DEF ServeStop, BackoffCommand
  <2>7. ASSUME NEW c \in Cmd, NEW o \in Op, ClientCommand(c, o) PROVE Sticks
    BY <2>7 DEF ClientCommand, Submit
  <2>9. CASE UplinkStep \/ ShutdownSignal
    BY <2>9, AsideEffect
  <2>q. QED
    BY <1>1, <2>1, <2>2, <2>3, <2>4, <2>5, <2>6, <2>7, <2>8, <2>9 DEF Next, DriverStep, TakesCommand
<1>q. QED BY <1>1, IInvHolds, PTL DEF Spec, NoUnwantedStart

-----------------------------------------------------------------------------
(* Healing.                                                                *)

(* Each command is on its way at most once, and as long as it is, nobody   *)
(* has answered it: in the channel, or as the one the driver is serving.   *)
OnTheirWay ==
    /\ \A i \in 1 .. Len(inbox) : /\ inbox[i] # serving
                                  /\ op[inbox[i]] # "none" /\ reply[inbox[i]] = "none"
    /\ \A i, j \in 1 .. Len(inbox) : inbox[i] = inbox[j] => i = j
    /\ serving \in Cmd => op[serving] # "none" /\ reply[serving] = "none"
    /\ \A c \in Cmd : op[c] = "none" => reply[c] = "none"

NoStopFailed == \A c \in Cmd : op[c] \in {"stop", "restart"} => reply[c] # "failed"

(* A process the driver watches is a wanted one, unless a stop of it has   *)
(* failed.                                                                 *)
WatchedIsWanted == NoStopFailed /\ pc = "select" /\ handle # NoPid => ctl.wanted

HealInv == OnTheirWay /\ WatchedIsWanted

(* What a step may do to the commands: a new one joins the channel or is   *)
(* refused; or those taken and served so far leave and get their answers.  *)
Joins(c)  == /\ c \in Cmd /\ op[c] = "none" /\ op'[c] # "none" /\ serving' = serving
             /\ \A d \in Cmd : d # c => op'[d] = op[d] /\ reply'[d] = reply[d]
             /\ \/ inbox' = inbox
                \/ inbox' = Append(inbox, c) /\ reply'[c] = reply[c]
Settles   == /\ op' = op
             /\ inbox' = inbox \/ (inbox # <<>> /\ inbox' = Tail(inbox))
             /\ serving' \in {NoCmd, serving} \/ (inbox # <<>> /\ inbox' = Tail(inbox) /\ serving' = Head(inbox))
             /\ \A d \in Cmd : \/ reply'[d] = reply[d]
                               \/ d = serving /\ serving' = NoCmd
                               \/ d # serving' /\ inbox # <<>> /\ d = Head(inbox) /\ inbox' = Tail(inbox)
             /\ serving' \in Cmd => reply'[serving'] = reply[serving']

LEMMA CommandEffect ==
  ASSUME TypeOK, AwaitsAgree, OnTheirWay, [Next]_vars
  PROVE  Settles \/ \E c \in Cmd : Joins(c)
<1>n. NoCmd \notin Cmd
  BY LifecycleAssumption DEF NoCmd, Cmd
<1>t. /\ reply \in [Cmd -> Reply] /\ op \in [Cmd -> Op \cup {"none"}] /\ serving \in Cmd \cup {NoCmd}
      /\ inbox \in Seq(Cmd)
  BY DEF TypeOK
<1>h. inbox # <<>> => Head(inbox) \in Cmd /\ Head(inbox) # serving
  <2>1. inbox # <<>> => 1 \in 1 .. Len(inbox) /\ Head(inbox) = inbox[1]
    BY <1>t
  <2>q. QED BY <1>t, <2>1 DEF OnTheirWay
<1>1. CASE SpawnOk
  BY <1>n, <1>t, <1>1 DEF SpawnOk, FinishStart, Answer, Settles
<1>2. CASE SpawnFailed
  BY <1>n, <1>t, <1>2 DEF SpawnFailed, FinishStart, Answer, Settles
<1>3. CASE WatchExit
  BY <1>3 DEF WatchExit, Settles
<1>4. CASE StopOk
  BY <1>n, <1>t, <1>4 DEF StopOk, Answer, Settles
<1>5. CASE StopFailed
  BY <1>n, <1>t, <1>5 DEF StopFailed, Answer, Settles
<1>6. CASE BackoffElapsed
  BY <1>n, <1>t, <1>6 DEF BackoffElapsed, EnterStart, FinishStart, Answer, Settles
<1>7. ASSUME NEW c \in Cmd, ServeStart(c) PROVE Settles
  BY <1>n, <1>t, <1>h, <1>7 DEF ServeStart, EnterStart, Take, Answer, Settles
<1>8. ASSUME NEW c \in Cmd, ServeStop(c) PROVE Settles
  BY <1>n, <1>t, <1>h, <1>8 DEF ServeStop, Take, Settles
<1>9. ASSUME NEW c \in Cmd, ServeStopIdle(c) PROVE Settles
  BY <1>n, <1>t, <1>h, <1>9 DEF ServeStopIdle, EnterStart, Take, Answer, Settles
<1>10. ASSUME NEW c \in Cmd, BackoffCommand(c) PROVE Settles
  BY <1>n, <1>t, <1>h, <1>10 DEF BackoffCommand, Take, Answer, Settles
<1>11. CASE Crash \/ BootSpawn \/ BootCheck \/ Adopt \/ AbortDriver \/ StartupFails \/ UNCHANGED vars
  BY <1>11 DEF Crash, BootSpawn, BootCheck, Adopt, AbortDriver, StartupFails, GoesDown, vars, Settles
<1>12. ASSUME NEW c \in Cmd, NEW o \in Op, Submit(c, o) PROVE Joins(c)
  BY <1>t, <1>12 DEF Submit, Joins, Op
<1>13. CASE StopDriver
  <2>1. Shutdown \in Cmd /\ "stop" \in Op
    BY LifecycleAssumption DEF Shutdown, Cmd, Op
  <2>q. QED BY <1>12, <1>13, <2>1 DEF StopDriver
<1>14. ASSUME NEW c \in Cmd, NEW o \in Op, ClientCommand(c, o) PROVE Joins(c)
  BY <1>12, <1>14 DEF ClientCommand
<1>15. CASE UplinkStep \/ ShutdownSignal
  BY <1>15, AsideEffect DEF Settles
<1>q. QED
  BY <1>1, <1>2, <1>3, <1>4, <1>5, <1>6, <1>7, <1>8, <1>9, <1>10, <1>11, <1>13, <1>14, <1>15
     DEF Next, DriverStep, TakesCommand

LEMMA OnTheirWayStep ==
  ASSUME TypeOK, AwaitsAgree, OnTheirWay, [Next]_vars
  PROVE  OnTheirWay' /\ (NoStopFailed' => NoStopFailed)
<1>n. NoCmd \notin Cmd
  BY LifecycleAssumption DEF NoCmd, Cmd
<1>t. /\ inbox \in Seq(Cmd) /\ serving \in Cmd \cup {NoCmd} /\ Len(inbox) \in Nat
      /\ \A i \in 1 .. Len(inbox) : inbox[i] \in Cmd
  BY DEF TypeOK
<1>o. /\ \A i \in 1 .. Len(inbox) : /\ inbox[i] # serving
                                    /\ op[inbox[i]] # "none" /\ reply[inbox[i]] = "none"
      /\ \A i, j \in 1 .. Len(inbox) : inbox[i] = inbox[j] => i = j
      /\ serving \in Cmd => op[serving] # "none" /\ reply[serving] = "none"
      /\ \A c \in Cmd : op[c] = "none" => reply[c] = "none"
  BY DEF OnTheirWay
<1>1. CASE Settles
  <2> DEFINE Shifted(k) ==
            /\ Len(inbox') \in Nat /\ Len(inbox') = Len(inbox) - k
            /\ k = 0 => inbox' = inbox
            /\ k = 1 => inbox # <<>> /\ inbox' = Tail(inbox)
            /\ \A i \in 1 .. Len(inbox') : i + k \in 1 .. Len(inbox) /\ inbox'[i] = inbox[i + k]
  <2>0. Shifted(0) \/ Shifted(1)
    <3>1. CASE inbox' = inbox
      BY <1>t, <3>1
    <3>2. CASE inbox # <<>> /\ inbox' = Tail(inbox)
      BY <1>t, <3>2
    <3>q. QED BY <1>1, <3>1, <3>2 DEF Settles
  <2>1. PICK k \in {0, 1} : Shifted(k)
    BY <2>0
  <2>2. k = 1 => 1 \in 1 .. Len(inbox) /\ Head(inbox) = inbox[1]
    BY <1>t, <2>1
  <2>3. /\ op' = op
        /\ serving' \in {NoCmd, serving} \/ (k = 1 /\ serving' = inbox[1])
        /\ \A d \in Cmd : \/ reply'[d] = reply[d]
                          \/ d = serving /\ serving' = NoCmd
                          \/ d # serving' /\ k = 1 /\ d = inbox[1]
        /\ serving' \in Cmd => reply'[serving'] = reply[serving']
    <3>1. ASSUME inbox # <<>>, inbox' = Tail(inbox) PROVE k = 1 /\ Head(inbox) = inbox[1]
      <4>1. Len(Tail(inbox)) # Len(inbox)
        BY <1>t, <3>1
      <4>q. QED BY <1>t, <2>1, <3>1, <4>1
    <3>q. QED BY <1>1, <3>1 DEF Settles
  <2>4. ASSUME NEW i \in 1 .. Len(inbox')
        PROVE  /\ inbox'[i] # serving' /\ op'[inbox'[i]] # "none" /\ reply'[inbox'[i]] = "none"
               /\ inbox'[i] \in Cmd
    <3>1. i + k \in 1 .. Len(inbox) /\ inbox'[i] = inbox[i + k]
      BY <2>1
    <3>2. k = 1 => inbox[i + k] # inbox[1]
      BY <1>o, <2>2, <3>1
    <3>q. QED BY <1>n, <1>t, <1>o, <2>3, <3>1, <3>2
  <2>5. ASSUME NEW i \in 1 .. Len(inbox'), NEW j \in 1 .. Len(inbox'), inbox'[i] = inbox'[j]
        PROVE  i = j
    <3> DEFINE u == i + k
               v == j + k
    <3>1. u \in 1 .. Len(inbox) /\ v \in 1 .. Len(inbox) /\ inbox'[i] = inbox[u] /\ inbox'[j] = inbox[v]
      BY <2>1
    <3>2. u = v => i = j
      BY <2>1
    <3> HIDE DEF u, v
    <3>3. u = v
      BY <1>o, <2>5, <3>1
    <3>q. QED BY <3>2, <3>3
  <2>6. serving' \in Cmd => op'[serving'] # "none" /\ reply'[serving'] = "none"
    BY <1>n, <1>o, <2>2, <2>3
  <2>7. \A c \in Cmd : op'[c] = "none" => reply'[c] = "none"
    BY <1>o, <2>2, <2>3
  <2>8. ASSUME NoStopFailed', NEW c \in Cmd, op[c] \in {"stop", "restart"} PROVE reply[c] # "failed"
    <3>1. CASE reply'[c] = reply[c]
      BY <2>3, <2>8, <3>1 DEF NoStopFailed
    <3>2. CASE c = serving \/ (k = 1 /\ c = inbox[1])
      BY <1>o, <2>2, <3>2
    <3>q. QED BY <2>3, <3>1, <3>2
  <2>q. QED BY <2>4, <2>5, <2>6, <2>7, <2>8 DEF OnTheirWay, NoStopFailed
<1>2. ASSUME NEW c \in Cmd, Joins(c) PROVE OnTheirWay' /\ (NoStopFailed' => NoStopFailed)
  <2>1. /\ op[c] = "none" /\ op'[c] # "none" /\ serving' = serving /\ c # serving /\ reply[c] = "none"
        /\ \A d \in Cmd : d # c => op'[d] = op[d] /\ reply'[d] = reply[d]
        /\ \A i \in 1 .. Len(inbox) : inbox[i] # c
    BY <1>o, <1>2 DEF Joins
  <2>2. \A d \in Cmd : op'[d] = "none" => reply'[d] = "none"
    BY <1>o, <2>1
  <2>3. NoStopFailed' => NoStopFailed
    BY <2>1 DEF NoStopFailed
  <2>4. serving' \in Cmd => op'[serving'] # "none" /\ reply'[serving'] = "none"
    BY <1>o, <2>1
  <2>5. CASE inbox' = inbox
    BY <1>t, <1>o, <2>1, <2>2, <2>3, <2>4, <2>5 DEF OnTheirWay
  <2>6. CASE inbox' = Append(inbox, c) /\ reply'[c] = reply[c]
    <3>1. /\ Len(inbox') = Len(inbox) + 1 /\ inbox'[Len(inbox) + 1] = c
          /\ \A i \in 1 .. Len(inbox) : inbox'[i] = inbox[i]
      BY <1>t, <2>6
    <3>2. ASSUME NEW i \in 1 .. Len(inbox')
          PROVE  i \in 1 .. Len(inbox) \/ i = Len(inbox) + 1
      BY <1>t, <3>1
    <3>3. ASSUME NEW i \in 1 .. Len(inbox')
          PROVE  inbox'[i] # serving' /\ op'[inbox'[i]] # "none" /\ reply'[inbox'[i]] = "none"
      <4>1. CASE i \in 1 .. Len(inbox)
        BY <1>t, <1>o, <2>1, <3>1, <4>1
      <4>2. CASE i = Len(inbox) + 1
        BY <2>1, <2>6, <3>1, <4>2
      <4>q. QED BY <3>2, <4>1, <4>2
    <3>4. ASSUME NEW i \in 1 .. Len(inbox'), NEW j \in 1 .. Len(inbox'), inbox'[i] = inbox'[j]
          PROVE  i = j
      BY <1>o, <2>1, <3>1, <3>2, <3>4
    <3>q. QED BY <2>2, <2>3, <2>4, <3>3, <3>4 DEF OnTheirWay
  <2>q. QED BY <1>2, <2>5, <2>6 DEF Joins
<1>q. QED BY <1>1, <1>2, CommandEffect

LEMMA WatchedStep ==
  ASSUME IInv, HealInv, [Next]_vars
  PROVE  WatchedIsWanted'
<1>0. TypeOK /\ AwaitsAgree /\ WantedIsAsked /\ OnTheirWay /\ ctl \in Controller
  BY DEF IInv, HealInv, TypeOK
<1> SUFFICES ASSUME NoStopFailed', pc' = "select", handle' # NoPid PROVE ctl'.wanted
  BY DEF WatchedIsWanted
<1>s. NoStopFailed
  BY <1>0, OnTheirWayStep
<1>w. pc = "select" /\ handle # NoPid => ctl.wanted
  BY <1>s DEF HealInv, WatchedIsWanted
<1>1. CASE SpawnOk
  <2>1. ctl'.wanted = ctl.wanted
    BY <1>0, <1>1, StartedEffect DEF SpawnOk
  <2>q. QED BY <1>0, <1>1, <2>1 DEF SpawnOk, AwaitsAgree
<1>2. CASE SpawnFailed \/ WatchExit
  BY <1>2 DEF SpawnFailed, WatchExit
<1>3. CASE StopOk
  BY <1>3 DEF StopOk
<1>4. CASE StopFailed
  <2>1. serving \in Cmd /\ op[serving] \in {"stop", "restart"}
    BY <1>0, <1>4 DEF StopFailed, WantedIsAsked
  <2>2. op'[serving] \in {"stop", "restart"} /\ reply'[serving] = "failed"
    BY <1>0, <1>4, <2>1 DEF StopFailed, Answer, TypeOK
  <2>q. QED BY <2>1, <2>2 DEF NoStopFailed
<1>5. CASE BackoffElapsed
  BY <1>0, <1>5 DEF BackoffElapsed, EnterStart, FinishStart, AwaitsAgree
<1>6. ASSUME NEW c \in Cmd, ServeStart(c) PROVE ctl'.wanted
  BY <1>w, <1>6 DEF ServeStart, EnterStart
<1>7. ASSUME NEW c \in Cmd, ServeStop(c) PROVE ctl'.wanted
  BY <1>7 DEF ServeStop
<1>8. ASSUME NEW c \in Cmd, ServeStopIdle(c) PROVE ctl'.wanted
  BY <1>8 DEF ServeStopIdle, EnterStart
<1>9. ASSUME NEW c \in Cmd, BackoffCommand(c) PROVE ctl'.wanted
  BY <1>0, <1>9 DEF BackoffCommand, AwaitsAgree
<1>10. CASE Crash \/ StopDriver \/ UNCHANGED vars
  BY <1>w, <1>10 DEF Crash, StopDriver, Submit, vars
<1>11. ASSUME NEW c \in Cmd, NEW o \in Op, ClientCommand(c, o) PROVE ctl'.wanted
  BY <1>w, <1>11 DEF ClientCommand, Submit
<1>12. CASE BootSpawn \/ BootCheck \/ AbortDriver \/ StartupFails
  BY <1>12 DEF BootSpawn, BootCheck, AbortDriver, StartupFails, GoesDown
<1>13. CASE Adopt
  BY <1>0, <1>13, AdoptedEffect DEF Adopt, AwaitsAgree, TypeOK
<1>14. CASE UplinkStep \/ ShutdownSignal
  BY <1>w, <1>14, AsideEffect
<1>q. QED
  BY <1>1, <1>2, <1>3, <1>4, <1>5, <1>6, <1>7, <1>8, <1>9, <1>10, <1>11, <1>12, <1>13,
     <1>14
     DEF Next, DriverStep, TakesCommand

(* A command is served once, so a failed stop stays on record; and without *)
(* one, every exit the driver sees while DSH is asked for is healed as     *)
(* long as the policy allows another attempt.                              *)
THEOREM CrashesAreHealed == Spec => CrashIsHealed
<1> DEFINE Healed == (/\ pc = "select" /\ handle # NoPid /\ handle' = NoPid /\ daemon' # "down"
                      /\ intent = "run" /\ ctl.attempts + 1 < MaxAttempts
                      /\ \A c \in Cmd : op[c] \in {"stop", "restart"} => reply[c] # "failed")
                       => ctl'.lc.st = "recovering"
<1>1. Init => HealInv
  <2> SUFFICES ASSUME Init PROVE HealInv
    OBVIOUS
  <2>1. /\ inbox = <<>> /\ serving = NoCmd /\ handle = NoPid
        /\ \A c \in Cmd : reply[c] = "none" /\ op[c] = "none"
    BY DEF Init
  <2>2. NoCmd \notin Cmd
    BY LifecycleAssumption DEF NoCmd, Cmd
  <2>q. QED BY <2>1, <2>2 DEF HealInv, OnTheirWay, WatchedIsWanted
<1>2. IInv /\ HealInv /\ [Next]_vars => HealInv'
  BY OnTheirWayStep, WatchedStep DEF IInv, HealInv
<1>3. ASSUME IInv, HealInv, [Next]_vars PROVE Healed
  <2> SUFFICES ASSUME pc = "select", handle # NoPid, handle' = NoPid, daemon' # "down",
                      intent = "run", ctl.attempts + 1 < MaxAttempts, NoStopFailed
               PROVE  ctl'.lc.st = "recovering"
    BY DEF NoStopFailed
  <2>1. CASE WatchExit
    <3>1. ctl' = StartFailed(ctl) /\ ctl \in Controller /\ ctl.wanted /\ ctl.attempts \in Nat
      BY <1>3, <2>1 DEF WatchExit, Exited, IInv, TypeOK, HealInv, WatchedIsWanted, Controller
    <3>q. QED BY <3>1, StartFailedEffect, LifecycleAssumption
  <2>2. CASE SpawnOk \/ SpawnFailed \/ StopOk \/ StopFailed \/ BackoffElapsed \/ Crash
               \/ StopDriver \/ UNCHANGED vars
    BY <2>2 DEF SpawnOk, SpawnFailed, StopOk, StopFailed, BackoffElapsed, Crash,
                StopDriver, Submit, vars
  <2>3. CASE BootSpawn \/ BootCheck \/ Adopt \/ AbortDriver \/ StartupFails
    BY <2>3 DEF BootSpawn, BootCheck, Adopt, AbortDriver, StartupFails, GoesDown
  <2>4. ASSUME NEW c \in Cmd, ServeStart(c) \/ ServeStop(c) \/ ServeStopIdle(c) \/ BackoffCommand(c)
        PROVE  FALSE
    BY <2>4 DEF ServeStart, ServeStop, ServeStopIdle, BackoffCommand
  <2>5. ASSUME NEW c \in Cmd, NEW o \in Op, ClientCommand(c, o) PROVE FALSE
    BY <2>5 DEF ClientCommand, Submit
  <2>6. CASE UplinkStep \/ ShutdownSignal
    BY <2>6, AsideEffect
  <2>q. QED BY <1>3, <2>1, <2>2, <2>3, <2>4, <2>5, <2>6 DEF Next, DriverStep, TakesCommand
<1>q. QED BY <1>1, <1>2, <1>3, IInvHolds, PTL DEF Spec, CrashIsHealed

=============================================================================

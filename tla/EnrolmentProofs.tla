--------------------------- MODULE EnrolmentProofs ---------------------------
(***************************************************************************)
(* Proofs about Enrolment, for every set of devices and commands, every    *)
(* throttle policy and any number of kills and restarts.                   *)
(***************************************************************************)
EXTENDS Enrolment, TLAPS

CmdState == [pc : {"idle", "done"} \cup PairPc \cup RevPc, reg : SUBSET Device,
             guard : Guard, dev : Device \cup {NoDevice}, code : Cmd \cup {NoCmd}]

(* Where a command has a device in hand. *)
Named == {"confirming", "writing", "renaming", "accepting", "revWriting", "revRenaming"}

DeviceNamed == \A c \in Cmd : cmd[c].pc \in Named => cmd[c].dev \in Device

Typed == EnrolTypeOK /\ DeviceNamed

(* A device is enrolled only by a command that has its confirmation, and   *)
(* nobody is served by a daemon that is down.                              *)
DevicesProved ==
    \A c \in Cmd : cmd[c].pc \in {"writing", "renaming", "accepting"} => cmd[c].dev \in redeemed

SessionsOfDaemon == ~policy.up => sess.pc = "none"

RedeemedInv == OnlyRedeemed /\ DevicesProved /\ SessionsOfDaemon

(* A registry file exists once a device was enrolled. *)
FileExists == kept # {} \/ revoked # {} => regFile.exists

(* While no two commands hold the registry at once, the one that does has  *)
(* what is on disk, with the one change it is about to save.               *)
CopyExact(c) ==
    LET m == cmd[c] IN
    /\ m.pc \in {"loaded", "waiting", "confirming", "revoking"} => m.reg = regFile.devs
    /\ m.pc \in {"writing", "renaming"} => m.reg = regFile.devs \cup {m.dev}
    /\ m.pc \in {"revWriting", "revRenaming"} => m.reg = regFile.devs \ {m.dev}
    /\ m.pc \in {"renaming", "revRenaming"} => regTmp = [devs |-> m.reg]

RegistryInv ==
    serial => /\ regFile.devs = kept
              /\ \A c, o \in Cmd : cmd[c].pc \in HoldsRegistry /\ cmd[o].pc \in HoldsRegistry => c = o
              /\ \A c \in Cmd : CopyExact(c)

(* A guard knows of the failures there were: how many in a row, that the   *)
(* last was no later than it says, and the lockout if there is one.        *)
Knows(g) ==
    /\ g.failures = streak
    /\ lastFail # 0 => /\ g.last # 0 /\ g.last >= lastFail
                       /\ streak = 0 => g.until >= lastFail + Lockout

Exchange == {"waiting", "confirming", "writing", "renaming", "accepting"}

(* While commands come one after the other and none is killed with the     *)
(* guard in hand, the guard knows: the file, or the copy in the command    *)
(* that holds it, or what that command is about to save.                   *)
GuardInv ==
    orderly => /\ \A c, o \in Cmd : cmd[c].pc \in HoldsGuard /\ cmd[o].pc \in HoldsGuard => c = o
               /\ (\A c \in Cmd : cmd[c].pc \notin HoldsGuard) => Knows(guardFile)
               /\ \A c \in Cmd :
                    /\ cmd[c].pc \in Exchange => Knows(cmd[c].guard)
                    /\ cmd[c].pc = "failing" => /\ streak = (cmd[c].guard.failures + 1) % Attempts
                                                /\ lastFail \in 1 .. clock
                    /\ cmd[c].pc = "succeeded" => streak = 0 /\ lastFail = 0
                    /\ cmd[c].pc = "guardRenaming" => guardTmp # NoTmp /\ Knows(guardTmp)
-----------------------------------------------------------------------------
(* PairingGuard: recording an outcome gives a guard. *)
LEMMA GuardTypes ==
  /\ NewGuard \in Guard
  /\ \A g \in Guard, now \in Nat : Failed(g, now) \in Guard
BY EnrolAssumption DEF NewGuard, Guard, Failed

(* A process with nothing in memory is well typed. *)
LEMMA ProcessType == \A pc \in {"idle", "done"} : Process(pc) \in CmdState
BY GuardTypes DEF Process, CmdState

(* The count of failures stays below the lockout. *)
LEMMA StreakType ==
  ASSUME NEW s \in 0 .. Attempts - 1
  PROVE  /\ (s + 1) % Attempts \in 0 .. Attempts - 1
         /\ s + 1 < Attempts => (s + 1) % Attempts = s + 1
         /\ s + 1 >= Attempts => (s + 1) % Attempts = 0
BY EnrolAssumption

(* What the steps of a command put into its memory. *)
LEMMA RegistryRead ==
  ASSUME NEW m \in CmdState, NEW pc \in PairPc \cup RevPc, NEW reg \in SUBSET Device
  PROVE  [m EXCEPT !.pc = pc, !.reg = reg] \in CmdState
BY DEF CmdState

LEMMA DeviceTaken ==
  ASSUME NEW m \in CmdState, NEW pc \in PairPc \cup RevPc,
         NEW dev \in Device, NEW code \in Cmd \cup {NoCmd}
  PROVE  [m EXCEPT !.pc = pc, !.dev = dev, !.code = code] \in CmdState
BY DEF CmdState

(* One command's state is replaced. *)
LEMMA UpdateType ==
  ASSUME cmd \in [Cmd -> CmdState], DeviceNamed, NEW c \in Cmd, NEW v \in CmdState,
         cmd' = [cmd EXCEPT ![c] = v], v.pc \in Named => v.dev \in Device
  PROVE  cmd' \in [Cmd -> CmdState] /\ DeviceNamed'
BY DEF DeviceNamed

(* A client's state is replaced, if at all, by one that is well typed. *)
LEMMA ClientType ==
  ASSUME client \in [Device -> [pc : {"out", "asking", "paired"}, at : Cmd \cup {NoCmd}]],
         NEW d \in Device, NEW pc \in {"out", "asking", "paired"}, NEW at \in Cmd \cup {NoCmd},
         \/ client' = [client EXCEPT ![d] = [pc |-> pc, at |-> at]]
         \/ client' = client
  PROVE  client' \in [Device -> [pc : {"out", "asking", "paired"}, at : Cmd \cup {NoCmd}]]
OBVIOUS

(* Every step keeps the types, and a command that goes on with a device    *)
(* has one.                                                                *)
LEMMA TypedStep == ASSUME Typed, [Next]_vars PROVE Typed'
<1> USE EnrolAssumption DEF Typed, EnrolTypeOK
<1>0. cmd \in [Cmd -> CmdState]
  BY DEF CmdState
<1>1. ASSUME NEW c \in Cmd, LoadRegistry(c) PROVE Typed'
  <2>0. regFile.devs \in SUBSET Device
    OBVIOUS
  <2>1. [cmd[c] EXCEPT !.pc = "loaded", !.reg = regFile.devs] \in CmdState
    BY <1>0, <2>0, RegistryRead DEF PairPc, RevPc
  <2>2. cmd' = [cmd EXCEPT ![c] = [cmd[c] EXCEPT !.pc = "loaded", !.reg = regFile.devs]]
    BY <1>1 DEF LoadRegistry
  <2>3. [cmd[c] EXCEPT !.pc = "loaded", !.reg = regFile.devs].pc \in Named => [cmd[c] EXCEPT !.pc = "loaded", !.reg = regFile.devs].dev \in Device
    BY <1>0, <1>1 DEF LoadRegistry, DeviceNamed, CmdState, Named
  <2>4. cmd' \in [Cmd -> CmdState] /\ DeviceNamed'
    BY <1>0, <2>1, <2>2, <2>3, UpdateType
  <2>q. QED BY <1>1, <2>4 DEF LoadRegistry, files, CmdState
<1>2. ASSUME NEW c \in Cmd, CheckGuard(c) PROVE Typed'
  <2>1. cmd' \in [Cmd -> CmdState]
    <3>1. cmd[c] \in CmdState /\ Process("done") \in CmdState
      BY <1>0, ProcessType
    <3>2. [cmd[c] EXCEPT !.pc = "waiting", !.guard = guardFile] \in CmdState
      BY <3>1 DEF CmdState, PairPc
    <3>3. \/ cmd' = [cmd EXCEPT ![c] = [cmd[c] EXCEPT !.pc = "waiting", !.guard = guardFile]]
          \/ cmd' = [cmd EXCEPT ![c] = Process("done")]
      BY <1>2 DEF CheckGuard
    <3>q. QED BY <1>0, <3>1, <3>2, <3>3
  <2>2. DeviceNamed'
    BY <1>0, <1>2, ProcessType DEF CheckGuard, Process, CmdState, PairPc, DeviceNamed, Named
  <2>q. QED BY <2>1, <2>2, <1>2 DEF CheckGuard, files, CmdState
<1>3. ASSUME NEW c \in Cmd, NEW d \in Device, NEW code \in Codes(c), Redeem(c, d, code) PROVE Typed'
  <2>0. code \in Cmd \cup {NoCmd}
    BY DEF Codes
  <2>1. [cmd[c] EXCEPT !.pc = "confirming", !.dev = d, !.code = code] \in CmdState
    BY <1>0, <2>0, DeviceTaken DEF PairPc
  <2>2. cmd' = [cmd EXCEPT ![c] = [cmd[c] EXCEPT !.pc = "confirming", !.dev = d, !.code = code]]
    BY <1>3 DEF Redeem
  <2>3. [cmd[c] EXCEPT !.pc = "confirming", !.dev = d, !.code = code].pc \in Named => [cmd[c] EXCEPT !.pc = "confirming", !.dev = d, !.code = code].dev \in Device
    BY <1>0, <1>3 DEF Redeem, DeviceNamed, CmdState, Named
  <2>4. cmd' \in [Cmd -> CmdState] /\ DeviceNamed'
    BY <1>0, <2>1, <2>2, <2>3, UpdateType
  <2>q. QED BY <1>3, <2>4 DEF Redeem, files, past, CmdState
<1>4. ASSUME NEW c \in Cmd, Confirm(c) PROVE Typed'
  <2>0. cmd[c].dev \in Device
    BY <1>4 DEF Confirm, DeviceNamed, Named
  <2>1. [cmd[c] EXCEPT !.pc = "writing", !.reg = @ \cup {cmd[c].dev}] \in CmdState
    <3>1. cmd[c] \in CmdState
      BY <1>0
    <3>2. cmd[c].reg \cup {cmd[c].dev} \in SUBSET Device
      BY <2>0, <3>1 DEF CmdState
    <3>3. "writing" \in PairPc \cup RevPc
      BY DEF PairPc
    <3>q. QED BY <3>1, <3>2, <3>3 DEF CmdState
  <2>2. cmd' = [cmd EXCEPT ![c] = [cmd[c] EXCEPT !.pc = "writing", !.reg = @ \cup {cmd[c].dev}]]
    BY <1>4 DEF Confirm
  <2>3. [cmd[c] EXCEPT !.pc = "writing", !.reg = @ \cup {cmd[c].dev}].pc \in Named => [cmd[c] EXCEPT !.pc = "writing", !.reg = @ \cup {cmd[c].dev}].dev \in Device
    BY <1>0, <1>4 DEF Confirm, DeviceNamed, CmdState, Named
  <2>4. cmd' \in [Cmd -> CmdState] /\ DeviceNamed'
    BY <1>0, <2>1, <2>2, <2>3, UpdateType
  <2>q. QED BY <1>4, <2>0, <2>4 DEF Confirm, files, CmdState
<1>5. ASSUME NEW c \in Cmd, Reject(c) PROVE Typed'
  <2>1. [cmd[c] EXCEPT !.pc = "failing"] \in CmdState
    BY <1>0, <1>5 DEF CmdState, PairPc, RevPc
  <2>2. cmd' = [cmd EXCEPT ![c] = [cmd[c] EXCEPT !.pc = "failing"]]
    BY <1>5 DEF Reject, Fails, Moves
  <2>3. [cmd[c] EXCEPT !.pc = "failing"].pc \in Named => [cmd[c] EXCEPT !.pc = "failing"].dev \in Device
    BY <1>0, <1>5 DEF Reject, Fails, Moves, DeviceNamed, CmdState, Named
  <2>4. cmd' \in [Cmd -> CmdState] /\ DeviceNamed'
    BY <1>0, <2>1, <2>2, <2>3, UpdateType
  <2>q. QED 
    <3>1. cmd[c].dev \in Device
      BY <1>5 DEF Reject, DeviceNamed, Named
    <3>2. \/ client' = [client EXCEPT ![cmd[c].dev] = [pc |-> "out", at |-> NoCmd]]
          \/ client' = client
      BY <1>5, <3>1 DEF Reject
    <3>3. client' \in [Device -> [pc : {"out", "asking", "paired"}, at : Cmd \cup {NoCmd}]]
      BY <3>1, <3>2, ClientType
    <3>q. QED BY <1>5, <2>4, <3>3, StreakType DEF Reject, Fails, files, CmdState
<1>6. ASSUME NEW c \in Cmd, ExchangeFails(c) PROVE Typed'
  <2>1. cmd' \in [Cmd -> CmdState]
    BY <1>0, <1>6, StreakType DEF ExchangeFails, Fails, Moves, CmdState, PairPc
  <2>2. DeviceNamed'
    BY <1>0, <1>6, StreakType DEF ExchangeFails, Fails, Moves, CmdState, PairPc, DeviceNamed, Named
  <2>q. QED BY <2>1, <2>2, <1>6, StreakType DEF ExchangeFails, Fails, Moves, files, CmdState
<1>7. ASSUME NEW c \in Cmd, WriteRegistry(c) PROVE Typed'
  <2>1. cmd' \in [Cmd -> CmdState]
    BY <1>0, <1>7 DEF WriteRegistry, Moves, CmdState, PairPc, RevPc
  <2>2. DeviceNamed'
    BY <1>0, <1>7 DEF WriteRegistry, Moves, CmdState, PairPc, RevPc, DeviceNamed, Named
  <2>q. QED BY <2>1, <2>2, <1>7 DEF WriteRegistry, Moves, past, CmdState
<1>8. ASSUME NEW c \in Cmd, RenameRegistry(c) PROVE Typed'
  <2>0. cmd[c].dev \in Device
    BY <1>8 DEF RenameRegistry, DeviceNamed, Named
  <2>1. PICK pc \in {"accepting", "failing"} : Moves(c, pc)
    BY <1>8 DEF RenameRegistry, Fails
  <2>2. [cmd[c] EXCEPT !.pc = pc] \in CmdState /\ [cmd[c] EXCEPT !.pc = pc].dev \in Device
    BY <1>0, <2>0 DEF CmdState, PairPc
  <2>3. cmd' \in [Cmd -> CmdState] /\ DeviceNamed'
    BY <1>0, <2>1, <2>2, UpdateType DEF Moves
  <2>4. regTmp # NoTmp => regTmp.devs \in SUBSET Device
    OBVIOUS
  <2>5. kept' \in SUBSET Device /\ revoked' \in SUBSET Device
    BY <1>8, <2>0 DEF RenameRegistry
  <2>6. regFile' \in [exists : BOOLEAN, devs : SUBSET Device] /\ regTmp' \in {NoTmp} \cup [devs : SUBSET Device]
    <3>1. CASE regTmp # NoTmp
      <4>1. regFile' = [exists |-> TRUE, devs |-> regTmp.devs] /\ regTmp' = NoTmp
        BY <1>8, <3>1 DEF RenameRegistry
      <4>q. QED BY <2>4, <3>1, <4>1
    <3>2. CASE regTmp = NoTmp
      BY <1>8, <3>2 DEF RenameRegistry
    <3>q. QED BY <3>1, <3>2
  <2>7. streak' \in 0 .. Attempts - 1 /\ lastFail' \in 0 .. MaxClock + 1
    BY <1>8, StreakType DEF RenameRegistry, Fails
  <2>q. QED BY <1>8, <2>3, <2>5, <2>6, <2>7 DEF RenameRegistry, CmdState
<1>9. ASSUME NEW c \in Cmd, Accept(c) PROVE Typed'
  <2>1. [cmd[c] EXCEPT !.pc = "succeeded"] \in CmdState
    BY <1>0, <1>9 DEF CmdState, PairPc, RevPc
  <2>2. cmd' = [cmd EXCEPT ![c] = [cmd[c] EXCEPT !.pc = "succeeded"]]
    BY <1>9 DEF Accept, Moves
  <2>3. [cmd[c] EXCEPT !.pc = "succeeded"].pc \in Named => [cmd[c] EXCEPT !.pc = "succeeded"].dev \in Device
    BY <1>0, <1>9 DEF Accept, Moves, DeviceNamed, CmdState, Named
  <2>4. cmd' \in [Cmd -> CmdState] /\ DeviceNamed'
    BY <1>0, <2>1, <2>2, <2>3, UpdateType
  <2>q. QED 
    <3>1. cmd[c].dev \in Device
      BY <1>9 DEF Accept, DeviceNamed, Named
    <3>2. \/ client' = [client EXCEPT ![cmd[c].dev] = [pc |-> "paired", at |-> NoCmd]]
          \/ client' = client
      BY <1>9, <3>1 DEF Accept
    <3>3. client' \in [Device -> [pc : {"out", "asking", "paired"}, at : Cmd \cup {NoCmd}]]
      BY <3>1, <3>2, ClientType
    <3>q. QED BY <1>9, <2>4, <3>3 DEF Accept, files, CmdState
<1>10. ASSUME NEW c \in Cmd, RecordOutcome(c) PROVE Typed'
  <2>1. [cmd[c] EXCEPT !.pc = "guardRenaming"] \in CmdState
    BY <1>0, <1>10 DEF CmdState, PairPc, RevPc
  <2>2. cmd' = [cmd EXCEPT ![c] = [cmd[c] EXCEPT !.pc = "guardRenaming"]]
    BY <1>10 DEF RecordOutcome, Moves
  <2>3. [cmd[c] EXCEPT !.pc = "guardRenaming"].pc \in Named => [cmd[c] EXCEPT !.pc = "guardRenaming"].dev \in Device
    BY <1>0, <1>10 DEF RecordOutcome, Moves, DeviceNamed, CmdState, Named
  <2>4. cmd' \in [Cmd -> CmdState] /\ DeviceNamed'
    BY <1>0, <2>1, <2>2, <2>3, UpdateType
  <2>q. QED 
    <3>1. cmd[c].guard \in Guard /\ clock \in Nat
      BY <1>0 DEF CmdState
    <3>2. guardTmp' \in Guard
      BY <1>10, <3>1, GuardTypes DEF RecordOutcome, Succeeded
    <3>q. QED BY <1>10, <2>4, <3>2 DEF RecordOutcome, past, CmdState
<1>11. ASSUME NEW c \in Cmd, RenameGuard(c) PROVE Typed'
  <2>1. cmd' \in [Cmd -> CmdState]
    BY <1>0, <1>11, ProcessType DEF RenameGuard, Exits, Process, CmdState
  <2>2. DeviceNamed'
    BY <1>0, <1>11, ProcessType DEF RenameGuard, Exits, Process, CmdState, DeviceNamed, Named
  <2>q. QED BY <2>1, <2>2, <1>11 DEF RenameGuard, Exits, past, CmdState
<1>12. ASSUME NEW c \in Cmd, LoadForRevoke(c) PROVE Typed'
  <2>0. regFile.devs \in SUBSET Device
    OBVIOUS
  <2>1. [cmd[c] EXCEPT !.pc = "revoking", !.reg = regFile.devs] \in CmdState
    BY <1>0, <2>0, RegistryRead DEF PairPc, RevPc
  <2>2. cmd' = [cmd EXCEPT ![c] = [cmd[c] EXCEPT !.pc = "revoking", !.reg = regFile.devs]]
    BY <1>12 DEF LoadForRevoke
  <2>3. [cmd[c] EXCEPT !.pc = "revoking", !.reg = regFile.devs].pc \in Named => [cmd[c] EXCEPT !.pc = "revoking", !.reg = regFile.devs].dev \in Device
    BY <1>0, <1>12 DEF LoadForRevoke, DeviceNamed, CmdState, Named
  <2>4. cmd' \in [Cmd -> CmdState] /\ DeviceNamed'
    BY <1>0, <2>1, <2>2, <2>3, UpdateType
  <2>q. QED BY <1>12, <2>4 DEF LoadForRevoke, files, CmdState
<1>13. ASSUME NEW c \in Cmd, NEW d \in Device, Revoke(c, d) PROVE Typed'
  <2>1. cmd' \in [Cmd -> CmdState]
    BY <1>0, <1>13 DEF Revoke, CmdState, RevPc
  <2>2. DeviceNamed'
    BY <1>0, <1>13 DEF Revoke, CmdState, RevPc, DeviceNamed, Named
  <2>q. QED BY <2>1, <2>2, <1>13 DEF Revoke, files, past, CmdState
<1>14. ASSUME NEW c \in Cmd, RevokeNobody(c) PROVE Typed'
  <2>1. cmd' \in [Cmd -> CmdState]
    BY <1>0, <1>14, ProcessType DEF RevokeNobody, Exits, Process, CmdState
  <2>2. DeviceNamed'
    BY <1>0, <1>14, ProcessType DEF RevokeNobody, Exits, Process, CmdState, DeviceNamed, Named
  <2>q. QED BY <2>1, <2>2, <1>14 DEF RevokeNobody, Exits, files, past, CmdState
<1>15. ASSUME NEW c \in Cmd, RenameRevoked(c) PROVE Typed'
  <2>0. cmd[c].dev \in Device
    BY <1>15 DEF RenameRevoked, DeviceNamed, Named
  <2>3. cmd' \in [Cmd -> CmdState] /\ DeviceNamed'
    BY <1>0, <1>15, ProcessType, UpdateType DEF RenameRevoked, Exits, Process, Named
  <2>4. regTmp # NoTmp => regTmp.devs \in SUBSET Device
    OBVIOUS
  <2>5. kept' \in SUBSET Device /\ revoked' \in SUBSET Device
    BY <1>15, <2>0 DEF RenameRevoked
  <2>6. regFile' \in [exists : BOOLEAN, devs : SUBSET Device] /\ regTmp' \in {NoTmp} \cup [devs : SUBSET Device]
    <3>1. CASE regTmp # NoTmp
      <4>1. regFile' = [exists |-> TRUE, devs |-> regTmp.devs] /\ regTmp' = NoTmp
        BY <1>15, <3>1 DEF RenameRevoked
      <4>q. QED BY <2>4, <3>1, <4>1
    <3>2. CASE regTmp = NoTmp
      BY <1>15, <3>2 DEF RenameRevoked
    <3>q. QED BY <3>1, <3>2
  <2>q. QED BY <1>15, <2>3, <2>5, <2>6 DEF RenameRevoked, CmdState
<1>16. ASSUME NEW c \in Cmd, Kill(c) PROVE Typed'
  <2>1. cmd' \in [Cmd -> CmdState]
    BY <1>0, <1>16, ProcessType DEF Kill, Exits, Process, CmdState
  <2>2. DeviceNamed'
    BY <1>0, <1>16, ProcessType DEF Kill, Exits, Process, CmdState, DeviceNamed, Named
  <2>q. QED BY <2>1, <2>2, <1>16 DEF Kill, Exits, files, CmdState
<1>17. ASSUME NEW d \in Device, ClientGivesUp(d) PROVE Typed'
  BY <1>17 DEF ClientGivesUp, files, past, DeviceNamed
<1>18. CASE Tick
  BY <1>18 DEF Tick, files, past, DeviceNamed
<1>19. CASE StartDaemon
  BY <1>19 DEF StartDaemon, DevicePolicy, files, past, DeviceNamed
<1>20. CASE StopDaemon
  BY <1>20 DEF StopDaemon, files, past, DeviceNamed
<1>21. ASSUME NEW d \in Device \cup {NoDevice}, Challenge(d) PROVE Typed'
  BY <1>21 DEF Challenge, files, past, DeviceNamed
<1>22. ASSUME NEW d \in Device, BindDevice(d) PROVE Typed'
  BY <1>22 DEF BindDevice, files, past, DeviceNamed
<1>23. CASE EndSession
  BY <1>23 DEF EndSession, files, past, DeviceNamed
<1>24. CASE UNCHANGED vars
  BY <1>24 DEF vars, files, past, DeviceNamed
<1>q. QED
  BY <1>1, <1>2, <1>3, <1>4, <1>5, <1>6, <1>7, <1>8, <1>9, <1>10, <1>11, <1>12, <1>13, <1>14,
     <1>15, <1>16, <1>17, <1>18, <1>19, <1>20, <1>21, <1>22, <1>23, <1>24
     DEF Next, PairStep, RevokeStep
-----------------------------------------------------------------------------
(* What a step does to the command that takes it and to the others.        *)
Keeps(c) == \A o \in Cmd \ {c} : cmd'[o] = cmd[o]

LEMMA MovesEffect ==
  ASSUME EnrolTypeOK, NEW c \in Cmd, NEW pc, Moves(c, pc)
  PROVE  /\ Keeps(c) /\ cmd'[c].pc = pc /\ cmd'[c].reg = cmd[c].reg
         /\ cmd'[c].guard = cmd[c].guard /\ cmd'[c].dev = cmd[c].dev /\ cmd'[c].code = cmd[c].code
BY DEF EnrolTypeOK, Moves, Keeps

LEMMA ExitsEffect ==
  ASSUME EnrolTypeOK, NEW c \in Cmd, Exits(c)
  PROVE  Keeps(c) /\ cmd'[c].pc = "done" /\ cmd'[c].reg = {}
BY DEF EnrolTypeOK, Exits, Process, Keeps

LEMMA LoadEffect ==
  ASSUME EnrolTypeOK, NEW c \in Cmd, LoadRegistry(c) \/ LoadForRevoke(c)
  PROVE  /\ Keeps(c) /\ cmd'[c].reg = regFile.devs
         /\ LoadRegistry(c) => cmd'[c].pc = "loaded"
         /\ LoadForRevoke(c) => cmd'[c].pc = "revoking"
         /\ cmd'[c].pc \in {"loaded", "revoking"}
BY DEF EnrolTypeOK, LoadRegistry, LoadForRevoke, Keeps

LEMMA CheckEffect ==
  ASSUME EnrolTypeOK, NEW c \in Cmd, CheckGuard(c)
  PROVE  /\ Keeps(c)
         /\ \/ /\ Allowed(guardFile, clock)
               /\ cmd'[c].pc = "waiting" /\ cmd'[c].guard = guardFile /\ cmd'[c].reg = cmd[c].reg
            \/ cmd'[c].pc = "done" /\ cmd'[c].reg = {}
BY DEF EnrolTypeOK, CheckGuard, Process, Keeps

LEMMA RedeemEffect ==
  ASSUME EnrolTypeOK, NEW c \in Cmd, NEW d \in Device, NEW code, Redeem(c, d, code)
  PROVE  /\ Keeps(c) /\ cmd'[c].pc = "confirming" /\ cmd'[c].reg = cmd[c].reg
         /\ cmd'[c].guard = cmd[c].guard
BY DEF EnrolTypeOK, Redeem, Keeps

LEMMA ConfirmEffect ==
  ASSUME EnrolTypeOK, NEW c \in Cmd, Confirm(c)
  PROVE  /\ Keeps(c) /\ cmd'[c].pc = "writing" /\ cmd'[c].dev = cmd[c].dev
         /\ cmd'[c].reg = cmd[c].reg \cup {cmd[c].dev} /\ cmd'[c].guard = cmd[c].guard
BY DEF EnrolTypeOK, Confirm, Keeps

LEMMA RevokeEffect ==
  ASSUME EnrolTypeOK, NEW c \in Cmd, NEW d \in Device, Revoke(c, d)
  PROVE  /\ Keeps(c) /\ cmd'[c].pc = "revWriting" /\ cmd'[c].dev = d
         /\ cmd'[c].reg = cmd[c].reg \ {d}
BY DEF EnrolTypeOK, Revoke, Keeps

(* The daemon's confirmation and the client's agree only on the same code. *)
LEMMA ConfirmsCode == ASSUME NEW c \in Cmd, Confirms(c) PROVE cmd[c].code = c
BY DEF Confirms, Confirmation, ClientKey, DaemonKey

(* The file, the temporary file, the policy and the session are what they  *)
(* were, or come from one another.                                         *)
LEMMA RedeemedStep == ASSUME Typed, RedeemedInv, [Next]_vars PROVE RedeemedInv'
<1> USE DEF RedeemedInv, OnlyRedeemed, DevicesProved, SessionsOfDaemon, Keeps
<1>0. EnrolTypeOK
  BY DEF Typed
<1>1. ASSUME NEW c \in Cmd, LoadRegistry(c) \/ LoadForRevoke(c) PROVE RedeemedInv'
  BY <1>0, <1>1, LoadEffect DEF LoadRegistry, LoadForRevoke, files
<1>2. ASSUME NEW c \in Cmd, CheckGuard(c) PROVE RedeemedInv'
  <2>1. UNCHANGED <<files, client, policy, sess, redeemed>>
    BY <1>2 DEF CheckGuard
  <2>2. Keeps(c) /\ cmd'[c].pc \notin {"writing", "renaming", "accepting"} /\ cmd'[c].reg \subseteq cmd[c].reg
    BY <1>0, <1>2, CheckEffect
  <2>q. QED BY <2>1, <2>2 DEF files
<1>3. ASSUME NEW c \in Cmd, NEW d \in Device, NEW code \in Codes(c), Redeem(c, d, code) PROVE RedeemedInv'
  <2>1. \A e \in Device : client'[e].pc = "paired" => client[e].pc = "paired"
    BY <1>0, <1>3 DEF Redeem, EnrolTypeOK
  <2>2. UNCHANGED <<files, policy, sess, redeemed>>
    BY <1>3 DEF Redeem, past
  <2>3. Keeps(c) /\ cmd'[c].pc = "confirming" /\ cmd'[c].reg = cmd[c].reg
    BY <1>0, <1>3, RedeemEffect
  <2>q. QED BY <2>1, <2>2, <2>3 DEF files
<1>4. ASSUME NEW c \in Cmd, Confirm(c) PROVE RedeemedInv'
  <2>1. cmd[c].code = c
    BY <1>4, ConfirmsCode DEF Confirm
  <2>2. redeemed' = redeemed \cup {cmd[c].dev}
    BY <1>4, <2>1 DEF Confirm
  <2>3. UNCHANGED <<files, client, policy, sess>>
    BY <1>4 DEF Confirm
  <2>4. Keeps(c) /\ cmd'[c].dev = cmd[c].dev /\ cmd'[c].reg = cmd[c].reg \cup {cmd[c].dev}
    BY <1>0, <1>4, ConfirmEffect
  <2>5. DevicesProved'
    BY <2>2, <2>4
  <2>6. OnlyRedeemed'
    BY <2>2, <2>3, <2>4 DEF files
  <2>7. SessionsOfDaemon'
    BY <2>3
  <2>q. QED BY <2>5, <2>6, <2>7
<1>5. ASSUME NEW c \in Cmd, Reject(c) PROVE RedeemedInv'
  <2>1. \A e \in Device : client'[e].pc = "paired" => client[e].pc = "paired"
    BY <1>0, <1>5 DEF Reject, EnrolTypeOK
  <2>q. QED BY <1>0, <1>5, <2>1, MovesEffect DEF Reject, Fails, files
<1>6. ASSUME NEW c \in Cmd, ExchangeFails(c) PROVE RedeemedInv'
  BY <1>0, <1>6, MovesEffect DEF ExchangeFails, Fails, files
<1>7. ASSUME NEW c \in Cmd, WriteRegistry(c) PROVE RedeemedInv'
  BY <1>0, <1>7, MovesEffect DEF WriteRegistry, past
<1>8. ASSUME NEW c \in Cmd, RenameRegistry(c) PROVE RedeemedInv'
  <2>1. regFile'.devs \subseteq redeemed /\ (regTmp' # NoTmp => regTmp'.devs \subseteq redeemed)
    BY <1>8 DEF RenameRegistry
  <2>2. PICK pc \in {"accepting", "failing"} : Moves(c, pc)
    BY <1>8 DEF RenameRegistry, Fails
  <2>q. QED BY <1>0, <1>8, <2>1, <2>2, MovesEffect DEF RenameRegistry
<1>9. ASSUME NEW c \in Cmd, Accept(c) PROVE RedeemedInv'
  <2>1. cmd[c].dev \in redeemed
    BY <1>9 DEF Accept
  <2>2. \A e \in Device : client'[e].pc = "paired" => client[e].pc = "paired" \/ e = cmd[c].dev
    BY <1>0, <1>9 DEF Accept, EnrolTypeOK
  <2>q. QED BY <1>0, <1>9, <2>1, <2>2, MovesEffect DEF Accept, files
<1>10. ASSUME NEW c \in Cmd, RecordOutcome(c) PROVE RedeemedInv'
  BY <1>0, <1>10, MovesEffect DEF RecordOutcome, past
<1>11. ASSUME NEW c \in Cmd, RenameGuard(c) \/ RevokeNobody(c) \/ Kill(c) PROVE RedeemedInv'
  BY <1>0, <1>11, ExitsEffect DEF RenameGuard, RevokeNobody, Kill, files, past
<1>13. ASSUME NEW c \in Cmd, NEW d \in Device, Revoke(c, d) PROVE RedeemedInv'
  <2>1. UNCHANGED <<files, client, policy, sess, redeemed>>
    BY <1>13 DEF Revoke, past
  <2>2. Keeps(c) /\ cmd'[c].pc = "revWriting" /\ cmd'[c].reg \subseteq cmd[c].reg
    BY <1>0, <1>13, RevokeEffect
  <2>q. QED BY <2>1, <2>2 DEF files
<1>15. ASSUME NEW c \in Cmd, RenameRevoked(c) PROVE RedeemedInv'
  <2>1. regFile'.devs \subseteq redeemed /\ (regTmp' # NoTmp => regTmp'.devs \subseteq redeemed)
    BY <1>15 DEF RenameRevoked
  <2>q. QED BY <1>0, <1>15, <2>1, ExitsEffect DEF RenameRevoked
<1>17. ASSUME NEW d \in Device, ClientGivesUp(d) PROVE RedeemedInv'
  BY <1>0, <1>17 DEF ClientGivesUp, files, past, EnrolTypeOK
<1>18. CASE Tick
  BY <1>18 DEF Tick, files, past
<1>19. CASE StartDaemon
  BY <1>19 DEF StartDaemon, DevicePolicy, files, past
<1>20. CASE StopDaemon
  BY <1>20 DEF StopDaemon, files, past
<1>21. ASSUME NEW d \in Device \cup {NoDevice}, Challenge(d) PROVE RedeemedInv'
  BY <1>21 DEF Challenge, files, past
<1>22. ASSUME NEW d \in Device, BindDevice(d) PROVE RedeemedInv'
  BY <1>0, <1>22 DEF BindDevice, Verifies, Signature, files, past, EnrolTypeOK
<1>23. CASE EndSession
  BY <1>23 DEF EndSession, files, past
<1>24. CASE UNCHANGED vars
  BY <1>24 DEF vars, files, past
<1>q. QED
  BY <1>1, <1>2, <1>3, <1>4, <1>5, <1>6, <1>7, <1>8, <1>9, <1>10, <1>11, <1>13,
     <1>15, <1>17, <1>18, <1>19, <1>20, <1>21, <1>22, <1>23, <1>24
     DEF Next, PairStep, RevokeStep
-----------------------------------------------------------------------------
(* A step of a command that leaves the registry's files alone, and holds   *)
(* the registry only if it held it before.                                 *)
LEMMA RegistryUntouched ==
  ASSUME RegistryInv, NEW c \in Cmd, Keeps(c),
         UNCHANGED <<regFile, regTmp, kept>>, serial' => serial,
         cmd'[c].pc \in HoldsRegistry => cmd[c].pc \in HoldsRegistry, CopyExact(c) => CopyExact(c)'
  PROVE  RegistryInv'
<1> SUFFICES ASSUME serial' PROVE RegistryInv'
  BY DEF RegistryInv
<1>1. \A o \in Cmd \ {c} : CopyExact(o)'
  BY DEF RegistryInv, Keeps, CopyExact
<1>q. QED BY <1>1 DEF RegistryInv, Keeps

(* Every step keeps what the disk and the one copy of it say. *)
LEMMA RegistryStep == ASSUME Typed, RegistryInv, [Next]_vars PROVE RegistryInv'
<1>0. EnrolTypeOK
  BY DEF Typed
<1>1. ASSUME NEW c \in Cmd, LoadRegistry(c) \/ LoadForRevoke(c) PROVE RegistryInv'
  <2> SUFFICES ASSUME serial' PROVE RegistryInv'
    BY DEF RegistryInv
  <2>1. serial /\ ~Others(c, HoldsRegistry) /\ UNCHANGED <<regFile, regTmp, kept>>
    BY <1>1 DEF LoadRegistry, LoadForRevoke, files
  <2>2. Keeps(c) /\ cmd'[c].reg = regFile.devs /\ cmd'[c].pc \in {"loaded", "revoking"}
    BY <1>0, <1>1, LoadEffect
  <2>3. \A o \in Cmd \ {c} : cmd'[o].pc \notin HoldsRegistry
    BY <2>1, <2>2 DEF Others, Keeps
  <2>4. \A o \in Cmd \ {c} : CopyExact(o)'
    BY <2>3 DEF CopyExact, HoldsRegistry
  <2>5. CopyExact(c)'
    BY <2>1, <2>2 DEF CopyExact
  <2>q. QED BY <2>1, <2>3, <2>4, <2>5 DEF RegistryInv
<1>2. ASSUME NEW c \in Cmd, CheckGuard(c) PROVE RegistryInv'
  <2>1. UNCHANGED <<regFile, regTmp, kept, serial>> /\ cmd[c].pc = "loaded"
    BY <1>2 DEF CheckGuard, files
  <2>2. /\ Keeps(c)
        /\ (cmd'[c].pc = "waiting" /\ cmd'[c].reg = cmd[c].reg) \/ cmd'[c].pc = "done"
    BY <1>0, <1>2, CheckEffect
  <2>3. CopyExact(c) => CopyExact(c)'
    BY <2>1, <2>2 DEF CopyExact
  <2>q. QED BY <2>1, <2>2, <2>3, RegistryUntouched DEF HoldsRegistry
<1>3. ASSUME NEW c \in Cmd, NEW d \in Device, NEW code \in Codes(c), Redeem(c, d, code) PROVE RegistryInv'
  <2>1. UNCHANGED <<regFile, regTmp, kept, serial>> /\ cmd[c].pc = "waiting"
    BY <1>3 DEF Redeem, files, past
  <2>2. Keeps(c) /\ cmd'[c].pc = "confirming" /\ cmd'[c].reg = cmd[c].reg
    BY <1>0, <1>3, RedeemEffect
  <2>3. CopyExact(c) => CopyExact(c)'
    BY <2>1, <2>2 DEF CopyExact
  <2>q. QED BY <2>1, <2>2, <2>3, RegistryUntouched DEF HoldsRegistry
<1>4. ASSUME NEW c \in Cmd, Confirm(c) PROVE RegistryInv'
  <2>1. UNCHANGED <<regFile, regTmp, kept, serial>> /\ cmd[c].pc = "confirming"
    BY <1>4 DEF Confirm, files
  <2>2. /\ Keeps(c) /\ cmd'[c].pc = "writing" /\ cmd'[c].dev = cmd[c].dev
        /\ cmd'[c].reg = cmd[c].reg \cup {cmd[c].dev}
    BY <1>0, <1>4, ConfirmEffect
  <2>3. CopyExact(c) => CopyExact(c)'
    BY <2>1, <2>2 DEF CopyExact
  <2>q. QED BY <2>1, <2>2, <2>3, RegistryUntouched DEF HoldsRegistry
<1>5. ASSUME NEW c \in Cmd, Reject(c) \/ ExchangeFails(c) PROVE RegistryInv'
  <2>1. UNCHANGED <<regFile, regTmp, kept, serial>>
    BY <1>5 DEF Reject, ExchangeFails, files
  <2>2. Keeps(c) /\ cmd'[c].pc = "failing"
    BY <1>0, <1>5, MovesEffect DEF Reject, ExchangeFails, Fails
  <2>3. CopyExact(c) => CopyExact(c)'
    BY <2>2 DEF CopyExact
  <2>q. QED BY <2>1, <2>2, <2>3, RegistryUntouched DEF HoldsRegistry
<1>7. ASSUME NEW c \in Cmd, WriteRegistry(c) PROVE RegistryInv'
  <2> SUFFICES ASSUME serial' PROVE RegistryInv'
    BY DEF RegistryInv
  <2>1. /\ UNCHANGED <<regFile, kept, serial>> /\ regTmp' = [devs |-> cmd[c].reg]
        /\ cmd[c].pc \in {"writing", "revWriting"}
    BY <1>7 DEF WriteRegistry, past
  <2>2. /\ Keeps(c) /\ cmd'[c].dev = cmd[c].dev /\ cmd'[c].reg = cmd[c].reg
        /\ cmd'[c].pc = IF cmd[c].pc = "writing" THEN "renaming" ELSE "revRenaming"
    BY <1>0, <1>7, MovesEffect DEF WriteRegistry
  <2>3. \A o \in Cmd \ {c} : cmd'[o].pc \notin HoldsRegistry
    BY <2>1, <2>2 DEF RegistryInv, HoldsRegistry, Keeps
  <2>4. \A o \in Cmd \ {c} : CopyExact(o)'
    BY <2>3 DEF CopyExact, HoldsRegistry
  <2>5. CopyExact(c)'
    BY <2>1, <2>2 DEF CopyExact, RegistryInv
  <2>q. QED BY <2>1, <2>3, <2>4, <2>5 DEF RegistryInv
<1>8. ASSUME NEW c \in Cmd, RenameRegistry(c) PROVE RegistryInv'
  <2> SUFFICES ASSUME serial' PROVE RegistryInv'
    BY DEF RegistryInv
  <2>1. serial /\ cmd[c].pc = "renaming"
    BY <1>8 DEF RenameRegistry
  <2>2. regTmp = [devs |-> regFile.devs \cup {cmd[c].dev}] /\ regFile.devs = kept
    BY <2>1 DEF RegistryInv, CopyExact
  <2>3. regFile'.devs = kept'
    <3>1. \/ /\ regFile' = [exists |-> TRUE, devs |-> regTmp.devs]
             /\ kept' = kept \cup {cmd[c].dev}
          \/ regFile' = regFile /\ kept' = kept
      BY <1>8 DEF RenameRegistry
    <3>2. regTmp.devs = kept \cup {cmd[c].dev}
      BY <2>2
    <3>q. QED BY <2>2, <3>1, <3>2
  <2>4. Keeps(c) /\ cmd'[c].pc \in {"accepting", "failing"}
    BY <1>0, <1>8, MovesEffect DEF RenameRegistry, Fails
  <2>5. \A o \in Cmd : cmd'[o].pc \notin HoldsRegistry
    BY <2>1, <2>4 DEF RegistryInv, HoldsRegistry, Keeps
  <2>6. \A o \in Cmd : CopyExact(o)'
    BY <2>5 DEF CopyExact, HoldsRegistry
  <2>q. QED BY <2>3, <2>5, <2>6 DEF RegistryInv
<1>9. ASSUME NEW c \in Cmd, Accept(c) PROVE RegistryInv'
  <2>1. UNCHANGED <<regFile, regTmp, kept, serial>>
    BY <1>9 DEF Accept, files
  <2>2. Keeps(c) /\ cmd'[c].pc = "succeeded"
    BY <1>0, <1>9, MovesEffect DEF Accept
  <2>3. CopyExact(c) => CopyExact(c)'
    BY <2>2 DEF CopyExact
  <2>q. QED BY <2>1, <2>2, <2>3, RegistryUntouched DEF HoldsRegistry
<1>10. ASSUME NEW c \in Cmd, RecordOutcome(c) PROVE RegistryInv'
  <2>1. UNCHANGED <<regFile, regTmp, kept, serial>>
    BY <1>10 DEF RecordOutcome, past
  <2>2. Keeps(c) /\ cmd'[c].pc = "guardRenaming"
    BY <1>0, <1>10, MovesEffect DEF RecordOutcome
  <2>3. CopyExact(c) => CopyExact(c)'
    BY <2>2 DEF CopyExact
  <2>q. QED BY <2>1, <2>2, <2>3, RegistryUntouched DEF HoldsRegistry
<1>11. ASSUME NEW c \in Cmd, RenameGuard(c) \/ RevokeNobody(c) \/ Kill(c) PROVE RegistryInv'
  <2>1. UNCHANGED <<regFile, regTmp, kept, serial>>
    BY <1>11 DEF RenameGuard, RevokeNobody, Kill, files, past
  <2>2. Keeps(c) /\ cmd'[c].pc = "done"
    BY <1>0, <1>11, ExitsEffect DEF RenameGuard, RevokeNobody, Kill
  <2>3. CopyExact(c) => CopyExact(c)'
    BY <2>2 DEF CopyExact
  <2>q. QED BY <2>1, <2>2, <2>3, RegistryUntouched DEF HoldsRegistry
<1>13. ASSUME NEW c \in Cmd, NEW d \in Device, Revoke(c, d) PROVE RegistryInv'
  <2>1. UNCHANGED <<regFile, regTmp, kept, serial>> /\ cmd[c].pc = "revoking"
    BY <1>13 DEF Revoke, files, past
  <2>2. /\ Keeps(c) /\ cmd'[c].pc = "revWriting" /\ cmd'[c].dev = d
        /\ cmd'[c].reg = cmd[c].reg \ {d}
    BY <1>0, <1>13, RevokeEffect
  <2>3. CopyExact(c) => CopyExact(c)'
    BY <2>1, <2>2 DEF CopyExact
  <2>q. QED BY <2>1, <2>2, <2>3, RegistryUntouched DEF HoldsRegistry
<1>15. ASSUME NEW c \in Cmd, RenameRevoked(c) PROVE RegistryInv'
  <2> SUFFICES ASSUME serial' PROVE RegistryInv'
    BY DEF RegistryInv
  <2>1. serial /\ cmd[c].pc = "revRenaming"
    BY <1>15 DEF RenameRevoked
  <2>2. regTmp = [devs |-> regFile.devs \ {cmd[c].dev}] /\ regFile.devs = kept
    BY <2>1 DEF RegistryInv, CopyExact
  <2>3. regFile'.devs = kept'
    BY <1>15, <2>2 DEF RenameRevoked
  <2>4. Keeps(c) /\ cmd'[c].pc = "done"
    BY <1>0, <1>15, ExitsEffect DEF RenameRevoked
  <2>5. \A o \in Cmd : cmd'[o].pc \notin HoldsRegistry
    BY <2>1, <2>4 DEF RegistryInv, HoldsRegistry, Keeps
  <2>6. \A o \in Cmd : CopyExact(o)'
    BY <2>5 DEF CopyExact, HoldsRegistry
  <2>q. QED BY <2>3, <2>5, <2>6 DEF RegistryInv
<1>17. CASE UNCHANGED <<regFile, regTmp, kept, serial, cmd>>
  BY <1>17 DEF RegistryInv, CopyExact
<1>18. ASSUME NEW d \in Device, ClientGivesUp(d) \/ BindDevice(d) PROVE RegistryInv'
  BY <1>17, <1>18 DEF ClientGivesUp, BindDevice, files, past
<1>19. ASSUME NEW d \in Device \cup {NoDevice}, Challenge(d) PROVE RegistryInv'
  BY <1>17, <1>19 DEF Challenge, files, past
<1>20. CASE Tick \/ StartDaemon \/ StopDaemon \/ EndSession \/ UNCHANGED vars
  BY <1>17, <1>20 DEF Tick, StartDaemon, StopDaemon, EndSession, vars, files, past
<1>q. QED
  BY <1>1, <1>2, <1>3, <1>4, <1>5, <1>7, <1>8, <1>9, <1>10, <1>11, <1>13, <1>15,
     <1>18, <1>19, <1>20
     DEF Next, PairStep, RevokeStep
-----------------------------------------------------------------------------
(* Only a rename of the registry changes the file or who is enrolled.      *)
LEMMA RegistrySaved ==
  ASSUME [Next]_vars
  PROVE  \/ UNCHANGED <<regFile, kept, revoked>>
         \/ regFile'.exists = TRUE
<1>1. ASSUME NEW c \in Cmd, RenameRegistry(c) \/ RenameRevoked(c)
      PROVE  UNCHANGED <<regFile, kept, revoked>> \/ regFile'.exists = TRUE
  BY <1>1 DEF RenameRegistry, RenameRevoked
<1>2. ASSUME NEW c \in Cmd, PairStep(c), ~RenameRegistry(c) PROVE UNCHANGED <<regFile, kept, revoked>>
  BY <1>2 DEF PairStep, LoadRegistry, CheckGuard, Confirm, Reject, ExchangeFails, Redeem, WriteRegistry,
              Accept, RecordOutcome, RenameGuard, files, past
<1>3. ASSUME NEW c \in Cmd, RevokeStep(c), ~RenameRevoked(c) PROVE UNCHANGED <<regFile, kept, revoked>>
  BY <1>3 DEF RevokeStep, LoadForRevoke, RevokeNobody, Revoke, files, past
<1>4. CASE ~\E c \in Cmd : PairStep(c) \/ RevokeStep(c)
  BY <1>4 DEF Next, Kill, ClientGivesUp, Tick, StartDaemon, StopDaemon, Challenge, BindDevice,
              EndSession, vars, files, past
<1>q. QED BY <1>1, <1>2, <1>3, <1>4

(* The policy comes up only when a daemon starts and reads the file.       *)
LEMMA PolicyRead ==
  ASSUME [Next]_vars, ~policy.up, policy'.up
  PROVE  policy' = DevicePolicy(regFile)
<1>1. ASSUME NEW c \in Cmd, PairStep(c) \/ RevokeStep(c) \/ Kill(c) PROVE UNCHANGED policy
  BY <1>1 DEF PairStep, LoadRegistry, CheckGuard, Confirm, Reject, ExchangeFails, Redeem, WriteRegistry,
              RenameRegistry, Accept, RecordOutcome, RenameGuard, RevokeStep, LoadForRevoke,
              RevokeNobody, Revoke, RenameRevoked, Kill
<1>2. CASE StopDaemon
  BY <1>2 DEF StopDaemon
<1>3. CASE StartDaemon
  BY <1>3 DEF StartDaemon
<1>4. CASE /\ ~StartDaemon /\ ~StopDaemon
           /\ ~\E c \in Cmd : PairStep(c) \/ RevokeStep(c) \/ Kill(c)
  BY <1>4 DEF Next, ClientGivesUp, Tick, Challenge, BindDevice, EndSession, vars
<1>q. QED BY <1>1, <1>2, <1>3, <1>4
-----------------------------------------------------------------------------
(* Recording a failure: the new guard knows of it. *)
LEMMA FailureKnown ==
  ASSUME NEW g \in Guard, clock \in Nat, lastFail \in 1 .. clock,
         streak = (g.failures + 1) % Attempts
  PROVE  Knows(Failed(g, clock))
<1>1. g.failures \in 0 .. Attempts - 1
  BY DEF Guard
<1>2. CASE g.failures + 1 >= Attempts
  BY <1>1, <1>2, StreakType, EnrolAssumption DEF Knows, Failed
<1>3. CASE ~(g.failures + 1 >= Attempts)
  <2>1. streak = g.failures + 1 /\ streak # 0
    BY <1>1, <1>3, StreakType, EnrolAssumption
  <2>q. QED BY <1>3, <2>1 DEF Knows, Failed
<1>q. QED BY <1>2, <1>3

(* A guard is no missing file. *)
LEMMA GuardIsAFile == \A g \in Guard : g # NoTmp
<1>1. ASSUME NEW g \in Guard, g = NoTmp PROVE FALSE
  <2>1. DOMAIN g = {"failures", "last", "until"}
    BY DEF Guard
  <2>2. DOMAIN g = {"none"}
    BY <1>1 DEF NoTmp
  <2>q. QED BY <2>1, <2>2
<1>q. QED BY <1>1

(* A step of a command that neither takes the guard nor saves it, and      *)
(* leaves the count as it is.                                              *)
LEMMA GuardUntouched ==
  ASSUME GuardInv, NEW c \in Cmd, Keeps(c),
         UNCHANGED <<guardFile, guardTmp, clock, streak, lastFail>>, orderly' => orderly,
         \/ cmd[c].pc \notin HoldsGuard /\ cmd'[c].pc \notin HoldsGuard
         \/ cmd[c].pc \in Exchange /\ cmd'[c].pc \in Exchange /\ cmd'[c].guard = cmd[c].guard
  PROVE  GuardInv'
<1> SUFFICES ASSUME orderly' PROVE GuardInv'
  BY DEF GuardInv
<1>1. Exchange \subseteq HoldsGuard /\ {"failing", "succeeded", "guardRenaming"} \subseteq HoldsGuard
  BY DEF Exchange, HoldsGuard, PairPc
<1>2. \A o \in Cmd : cmd'[o].pc \in HoldsGuard <=> cmd[o].pc \in HoldsGuard
  BY <1>1 DEF Keeps
<1>4. Knows(guardFile)' <=> Knows(guardFile)
  BY DEF Knows
<1>5. Knows(guardTmp)' <=> Knows(guardTmp)
  BY DEF Knows
<1>6. \A o \in Cmd \ {c} : Knows(cmd[o].guard)' <=> Knows(cmd[o].guard)
  BY DEF Knows, Keeps
<1>7. cmd'[c].guard = cmd[c].guard => (Knows(cmd[c].guard)' <=> Knows(cmd[c].guard))
  BY DEF Knows
<1>8. ASSUME NEW o \in Cmd \ {c}
      PROVE  /\ cmd'[o].pc \in Exchange => Knows(cmd[o].guard)'
             /\ cmd'[o].pc = "failing" => /\ streak' = (cmd'[o].guard.failures + 1) % Attempts
                                          /\ lastFail' \in 1 .. clock'
             /\ cmd'[o].pc = "succeeded" => streak' = 0 /\ lastFail' = 0
             /\ cmd'[o].pc = "guardRenaming" => guardTmp' # NoTmp /\ Knows(guardTmp)'
  BY <1>5, <1>6 DEF GuardInv, Keeps
<1>9. /\ cmd'[c].pc \in Exchange => Knows(cmd[c].guard)'
      /\ cmd'[c].pc \notin {"failing", "succeeded", "guardRenaming"}
  BY <1>1, <1>7 DEF GuardInv, Exchange
<1>q. QED BY <1>2, <1>4, <1>8, <1>9 DEF GuardInv

(* A step of the one command that holds the guard. *)
LEMMA GuardOfOne ==
  ASSUME GuardInv, NEW c \in Cmd, Keeps(c), cmd[c].pc \in HoldsGuard, orderly' => orderly,
         orderly => /\ cmd'[c].pc \in HoldsGuard \/ Knows(guardFile)'
                    /\ cmd'[c].pc \in Exchange => Knows(cmd[c].guard)'
                    /\ cmd'[c].pc = "failing" => /\ streak' = (cmd'[c].guard.failures + 1) % Attempts
                                                 /\ lastFail' \in 1 .. clock'
                    /\ cmd'[c].pc = "succeeded" => streak' = 0 /\ lastFail' = 0
                    /\ cmd'[c].pc = "guardRenaming" => guardTmp' # NoTmp /\ Knows(guardTmp)'
  PROVE  GuardInv'
<1> SUFFICES ASSUME orderly' PROVE GuardInv'
  BY DEF GuardInv
<1>1. \A o \in Cmd \ {c} : cmd'[o].pc \notin HoldsGuard
  BY DEF GuardInv, Keeps
<1>2. \A o \in Cmd \ {c} : cmd'[o].pc \notin Exchange \cup {"failing", "succeeded", "guardRenaming"}
  BY <1>1 DEF Exchange, HoldsGuard, PairPc
<1>q. QED BY <1>1, <1>2 DEF GuardInv

(* Every step keeps the guard informed. *)
LEMMA GuardStep == ASSUME Typed, GuardInv, [Next]_vars PROVE GuardInv'
<1>0. EnrolTypeOK /\ clock \in Nat /\ clock >= 1 /\ \A c \in Cmd : cmd[c].guard \in Guard
  BY DEF Typed, EnrolTypeOK
<1>a. /\ HoldsGuard = {"waiting", "confirming", "writing", "renaming", "accepting",
                       "succeeded", "failing", "guardRenaming"}
      /\ Exchange \subseteq HoldsGuard
  BY DEF HoldsGuard, PairPc, Exchange
<1>f. ASSUME NEW c \in Cmd, Fails(c), cmd[c].pc \in Exchange, orderly' = orderly, clock' = clock
      PROVE  GuardInv'
  <2>1. Keeps(c) /\ cmd'[c].pc = "failing" /\ cmd'[c].guard = cmd[c].guard
    BY <1>0, <1>f, MovesEffect DEF Fails
  <2>2. orderly => streak = cmd[c].guard.failures
    BY <1>f DEF GuardInv, Knows
  <2>3. orderly => streak' = (cmd'[c].guard.failures + 1) % Attempts /\ lastFail' \in 1 .. clock'
    BY <1>0, <1>f, <2>1, <2>2 DEF Fails
  <2>q. QED BY <1>a, <1>f, <2>1, <2>3, GuardOfOne DEF Exchange
<1>1. ASSUME NEW c \in Cmd, LoadRegistry(c) \/ LoadForRevoke(c) PROVE GuardInv'
  <2>1. UNCHANGED <<guardFile, guardTmp, clock, streak, lastFail, orderly>> /\ cmd[c].pc = "idle"
    BY <1>1 DEF LoadRegistry, LoadForRevoke, files
  <2>2. Keeps(c) /\ cmd'[c].pc \in {"loaded", "revoking"}
    BY <1>0, <1>1, LoadEffect
  <2>q. QED BY <1>a, <2>1, <2>2, GuardUntouched
<1>2. ASSUME NEW c \in Cmd, CheckGuard(c) PROVE GuardInv'
  <2> SUFFICES ASSUME orderly' PROVE GuardInv'
    BY DEF GuardInv
  <2>1. /\ orderly /\ ~Others(c, HoldsGuard) /\ cmd[c].pc = "loaded"
        /\ UNCHANGED <<guardFile, guardTmp, clock, streak, lastFail>>
    BY <1>2 DEF CheckGuard, files
  <2>2. /\ Keeps(c)
        /\ (cmd'[c].pc = "waiting" /\ cmd'[c].guard = guardFile) \/ cmd'[c].pc = "done"
    BY <1>0, <1>2, CheckEffect
  <2>3. \A o \in Cmd \ {c} : cmd'[o].pc \notin HoldsGuard
    BY <2>1, <2>2 DEF Others, Keeps
  <2>4. Knows(guardFile)
    BY <1>a, <2>1 DEF GuardInv, Others
  <2>5. Knows(guardFile)' /\ (cmd'[c].pc = "waiting" => Knows(cmd[c].guard)')
    BY <2>1, <2>2, <2>4 DEF Knows
  <2>q. QED BY <1>a, <2>2, <2>3, <2>5 DEF GuardInv, Exchange
<1>3. ASSUME NEW c \in Cmd, NEW d \in Device, NEW code \in Codes(c), Redeem(c, d, code) PROVE GuardInv'
  <2>1. UNCHANGED <<guardFile, guardTmp, clock, streak, lastFail, orderly>> /\ cmd[c].pc = "waiting"
    BY <1>3 DEF Redeem, files, past
  <2>2. Keeps(c) /\ cmd'[c].pc = "confirming" /\ cmd'[c].guard = cmd[c].guard
    BY <1>0, <1>3, RedeemEffect
  <2>q. QED BY <2>1, <2>2, GuardUntouched DEF Exchange
<1>4. ASSUME NEW c \in Cmd, Confirm(c) PROVE GuardInv'
  <2>1. UNCHANGED <<guardFile, guardTmp, clock, streak, lastFail, orderly>> /\ cmd[c].pc = "confirming"
    BY <1>4 DEF Confirm, files
  <2>2. Keeps(c) /\ cmd'[c].pc = "writing" /\ cmd'[c].guard = cmd[c].guard
    BY <1>0, <1>4, ConfirmEffect
  <2>q. QED BY <2>1, <2>2, GuardUntouched DEF Exchange
<1>5. ASSUME NEW c \in Cmd, Reject(c) \/ ExchangeFails(c) PROVE GuardInv'
  BY <1>5, <1>f DEF Reject, ExchangeFails, Exchange
<1>7. ASSUME NEW c \in Cmd, WriteRegistry(c) PROVE GuardInv'
  <2>1. UNCHANGED <<guardFile, guardTmp, clock, streak, lastFail, orderly>>
    BY <1>7 DEF WriteRegistry, past
  <2>2. /\ Keeps(c) /\ cmd'[c].guard = cmd[c].guard
        /\ \/ cmd[c].pc = "writing" /\ cmd'[c].pc = "renaming"
           \/ cmd[c].pc = "revWriting" /\ cmd'[c].pc = "revRenaming"
    BY <1>0, <1>7, MovesEffect DEF WriteRegistry
  <2>q. QED BY <1>a, <2>1, <2>2, GuardUntouched DEF Exchange
<1>8. ASSUME NEW c \in Cmd, RenameRegistry(c) PROVE GuardInv'
  <2>1. UNCHANGED <<guardFile, guardTmp, clock, orderly>> /\ cmd[c].pc = "renaming"
    BY <1>8 DEF RenameRegistry
  <2>2. CASE regTmp = NoTmp
    BY <1>8, <1>f, <2>1, <2>2 DEF RenameRegistry, Exchange
  <2>3. CASE regTmp # NoTmp
    <3>1. UNCHANGED <<streak, lastFail>> /\ Moves(c, "accepting")
      BY <1>8, <2>3 DEF RenameRegistry
    <3>2. Keeps(c) /\ cmd'[c].pc = "accepting" /\ cmd'[c].guard = cmd[c].guard
      BY <1>0, <3>1, MovesEffect
    <3>q. QED BY <2>1, <3>1, <3>2, GuardUntouched DEF Exchange
  <2>q. QED BY <2>2, <2>3
<1>9. ASSUME NEW c \in Cmd, Accept(c) PROVE GuardInv'
  <2>1. streak' = 0 /\ lastFail' = 0 /\ orderly' = orderly /\ cmd[c].pc = "accepting"
    BY <1>9 DEF Accept
  <2>2. Keeps(c) /\ cmd'[c].pc = "succeeded"
    BY <1>0, <1>9, MovesEffect DEF Accept
  <2>q. QED BY <1>a, <2>1, <2>2, GuardOfOne DEF Exchange
<1>10. ASSUME NEW c \in Cmd, RecordOutcome(c) PROVE GuardInv'
  <2>1. UNCHANGED <<clock, streak, lastFail, orderly>> /\ cmd[c].pc \in {"succeeded", "failing"}
    BY <1>10 DEF RecordOutcome, past
  <2>2. Keeps(c) /\ cmd'[c].pc = "guardRenaming"
    BY <1>0, <1>10, MovesEffect DEF RecordOutcome
  <2>3. guardTmp' \in Guard
    BY <1>0, <1>10, GuardTypes DEF RecordOutcome, Succeeded
  <2>4. ASSUME orderly PROVE Knows(guardTmp)'
    <3>1. CASE cmd[c].pc = "succeeded"
      <4>1. streak' = 0 /\ lastFail' = 0 /\ guardTmp' = NewGuard
        BY <1>10, <2>1, <2>4, <3>1 DEF GuardInv, RecordOutcome, Succeeded
      <4>q. QED BY <4>1 DEF Knows, NewGuard
    <3>2. CASE cmd[c].pc = "failing"
      <4>1. streak = (cmd[c].guard.failures + 1) % Attempts /\ lastFail \in 1 .. clock
        BY <2>4, <3>2 DEF GuardInv
      <4>2. Knows(Failed(cmd[c].guard, clock))
        BY <1>0, <4>1, FailureKnown
      <4>3. guardTmp' = Failed(cmd[c].guard, clock)
        BY <1>10, <3>2 DEF RecordOutcome
      <4>q. QED BY <2>1, <4>2, <4>3 DEF Knows
    <3>q. QED BY <2>1, <3>1, <3>2
  <2>5. guardTmp' # NoTmp
    BY <2>3, GuardIsAFile
  <2>q. QED BY <1>a, <2>1, <2>2, <2>4, <2>5, GuardOfOne DEF Exchange
<1>11. ASSUME NEW c \in Cmd, RenameGuard(c) PROVE GuardInv'
  <2>1. UNCHANGED <<clock, streak, lastFail, orderly>> /\ cmd[c].pc = "guardRenaming"
    BY <1>11 DEF RenameGuard, past
  <2>2. Keeps(c) /\ cmd'[c].pc = "done"
    BY <1>0, <1>11, ExitsEffect DEF RenameGuard
  <2>3. ASSUME orderly PROVE Knows(guardFile)'
    <3>1. guardTmp # NoTmp /\ Knows(guardTmp)
      BY <2>1, <2>3 DEF GuardInv
    <3>2. guardFile' = guardTmp
      BY <1>11, <3>1 DEF RenameGuard
    <3>q. QED BY <2>1, <3>1, <3>2 DEF Knows
  <2>q. QED BY <1>a, <2>1, <2>2, <2>3, GuardOfOne DEF Exchange
<1>12. ASSUME NEW c \in Cmd, RevokeNobody(c) PROVE GuardInv'
  <2>1. UNCHANGED <<guardFile, guardTmp, clock, streak, lastFail, orderly>> /\ cmd[c].pc = "revoking"
    BY <1>12 DEF RevokeNobody, files, past
  <2>2. Keeps(c) /\ cmd'[c].pc = "done"
    BY <1>0, <1>12, ExitsEffect DEF RevokeNobody
  <2>q. QED BY <1>a, <2>1, <2>2, GuardUntouched
<1>13. ASSUME NEW c \in Cmd, NEW d \in Device, Revoke(c, d) PROVE GuardInv'
  <2>1. UNCHANGED <<guardFile, guardTmp, clock, streak, lastFail, orderly>> /\ cmd[c].pc = "revoking"
    BY <1>13 DEF Revoke, files, past
  <2>2. Keeps(c) /\ cmd'[c].pc = "revWriting"
    BY <1>0, <1>13, RevokeEffect
  <2>q. QED BY <1>a, <2>1, <2>2, GuardUntouched
<1>15. ASSUME NEW c \in Cmd, RenameRevoked(c) PROVE GuardInv'
  <2>1. UNCHANGED <<guardFile, guardTmp, clock, streak, lastFail, orderly>> /\ cmd[c].pc = "revRenaming"
    BY <1>15 DEF RenameRevoked
  <2>2. Keeps(c) /\ cmd'[c].pc = "done"
    BY <1>0, <1>15, ExitsEffect DEF RenameRevoked
  <2>q. QED BY <1>a, <2>1, <2>2, GuardUntouched
<1>16. ASSUME NEW c \in Cmd, Kill(c) PROVE GuardInv'
  <2>1. /\ UNCHANGED <<guardFile, guardTmp, clock, streak, lastFail>>
        /\ orderly' => orderly /\ cmd[c].pc \notin HoldsGuard
    BY <1>16 DEF Kill, files
  <2>2. Keeps(c) /\ cmd'[c].pc = "done"
    BY <1>0, <1>16, ExitsEffect DEF Kill
  <2>3. CASE cmd[c].pc \in HoldsGuard
    BY <2>1, <2>3 DEF GuardInv
  <2>q. QED BY <1>a, <2>1, <2>2, <2>3, GuardUntouched
<1>17. CASE UNCHANGED <<guardFile, guardTmp, streak, lastFail, orderly, cmd>> /\ clock' \in Nat /\ clock' >= clock
  BY <1>0, <1>17 DEF GuardInv, Knows
<1>18. ASSUME NEW d \in Device, ClientGivesUp(d) \/ BindDevice(d) PROVE GuardInv'
  BY <1>0, <1>17, <1>18 DEF ClientGivesUp, BindDevice, files, past
<1>19. ASSUME NEW d \in Device \cup {NoDevice}, Challenge(d) PROVE GuardInv'
  BY <1>0, <1>17, <1>19 DEF Challenge, files, past
<1>20. CASE Tick \/ StartDaemon \/ StopDaemon \/ EndSession \/ UNCHANGED vars
  BY <1>0, <1>17, <1>20 DEF Tick, StartDaemon, StopDaemon, EndSession, vars, files, past
<1>q. QED
  BY <1>1, <1>2, <1>3, <1>4, <1>5, <1>7, <1>8, <1>9, <1>10, <1>11, <1>12, <1>13, <1>15, <1>16,
     <1>18, <1>19, <1>20
     DEF Next, PairStep, RevokeStep

(* An exchange begins by a check of the guard and in no other way.         *)
LEMMA BeginsByCheck ==
  ASSUME Typed, [Next]_vars, NEW c \in Cmd, cmd[c].pc = "loaded", cmd'[c].pc = "waiting"
  PROVE  CheckGuard(c)
<1>0. EnrolTypeOK
  BY DEF Typed
<1>1. ASSUME NEW b \in Cmd, PairStep(b), ~CheckGuard(b) PROVE cmd'[b].pc # "waiting"
  <2>1. CASE \E d \in Device, code \in Codes(b) : Redeem(b, d, code)
    BY <1>0, <2>1, RedeemEffect
  <2>2. CASE RenameGuard(b)
    BY <1>0, <2>2, ExitsEffect DEF RenameGuard
  <2>3. CASE LoadRegistry(b)
    BY <1>0, <2>3, LoadEffect
  <2>4. CASE Confirm(b)
    BY <1>0, <2>4, ConfirmEffect
  <2>5. CASE Reject(b) \/ ExchangeFails(b) \/ WriteRegistry(b) \/ RenameRegistry(b) \/ Accept(b) \/ RecordOutcome(b)
    BY <1>0, <2>5, MovesEffect
       DEF Reject, ExchangeFails, Fails, WriteRegistry, RenameRegistry, Accept, RecordOutcome
  <2>q. QED BY <1>1, <2>1, <2>2, <2>3, <2>4, <2>5 DEF PairStep
<1>2. ASSUME NEW b \in Cmd, PairStep(b) PROVE Keeps(b)
  <2>1. CASE \E d \in Device, code \in Codes(b) : Redeem(b, d, code)
    BY <1>0, <2>1, RedeemEffect
  <2>2. CASE RenameGuard(b)
    BY <1>0, <2>2, ExitsEffect DEF RenameGuard
  <2>3. CASE LoadRegistry(b) \/ Confirm(b) \/ CheckGuard(b)
    BY <1>0, <2>3, LoadEffect, ConfirmEffect, CheckEffect
  <2>4. CASE Reject(b) \/ ExchangeFails(b) \/ WriteRegistry(b) \/ RenameRegistry(b) \/ Accept(b) \/ RecordOutcome(b)
    BY <1>0, <2>4, MovesEffect
       DEF Reject, ExchangeFails, Fails, WriteRegistry, RenameRegistry, Accept, RecordOutcome
  <2>q. QED BY <1>2, <2>1, <2>2, <2>3, <2>4 DEF PairStep
<1>3. ASSUME NEW b \in Cmd, RevokeStep(b) \/ Kill(b) PROVE Keeps(b) /\ cmd'[b].pc # "waiting"
  <2>1. CASE \E d \in Device : Revoke(b, d)
    BY <1>0, <2>1, RevokeEffect
  <2>2. CASE LoadForRevoke(b)
    BY <1>0, <2>2, LoadEffect
  <2>3. CASE RevokeNobody(b) \/ RenameRevoked(b) \/ Kill(b)
    BY <1>0, <2>3, ExitsEffect DEF RevokeNobody, RenameRevoked, Kill
  <2>q. QED BY <1>3, <2>1, <2>2, <2>3 DEF RevokeStep
<1>4. \E b \in Cmd : PairStep(b) \/ RevokeStep(b) \/ Kill(b)
  <2>1. cmd' # cmd
    OBVIOUS
  <2>q. QED BY <2>1 DEF Next, ClientGivesUp, Tick, StartDaemon, StopDaemon, Challenge, BindDevice,
                       EndSession, vars
<1>5. PICK b \in Cmd : PairStep(b) \/ RevokeStep(b) \/ Kill(b)
  BY <1>4
<1>6. b = c
  BY <1>2, <1>3, <1>5 DEF Keeps
<1>q. QED BY <1>1, <1>3, <1>5, <1>6
-----------------------------------------------------------------------------
LEMMA TypedInit == ASSUME Init PROVE Typed
<1> PICK old \in SUBSET Device, f \in 0 .. Attempts - 1 :
      /\ regFile = [exists |-> old # {}, devs |-> old]
      /\ client = [d \in Device |-> [pc |-> IF d \in old THEN "paired" ELSE "out", at |-> NoCmd]]
      /\ kept = old /\ redeemed = old /\ revoked = {}
      /\ guardFile = [failures |-> f, last |-> IF f = 0 THEN 0 ELSE 1, until |-> 0]
      /\ streak = f /\ lastFail = (IF f = 0 THEN 0 ELSE 1)
  BY DEF Init
<1>1. cmd \in [Cmd -> CmdState] /\ DeviceNamed
  BY ProcessType DEF Init, DeviceNamed, Named, Process
<1>2. guardFile \in Guard
  BY EnrolAssumption DEF Guard
<1>3. EnrolTypeOK
  BY <1>1, <1>2, EnrolAssumption DEF Init, EnrolTypeOK, CmdState
<1>q. QED BY <1>1, <1>3 DEF Typed

(* Every reachable state is well typed. *)
THEOREM EnrolTypes == Spec => []EnrolTypeOK
<1>1. Typed => EnrolTypeOK
  BY DEF Typed
<1>q. QED BY <1>1, TypedInit, TypedStep, PTL DEF Spec

LEMMA TypedHolds == Spec => []Typed
BY TypedInit, TypedStep, PTL DEF Spec

(* No device is enrolled, told the room key or served under a policy that  *)
(* asks for proof unless it proved that it knew a code, whatever commands  *)
(* overlap, fail or are killed and whatever identity a client claims.      *)
THEOREM NobodyWithoutACode == Spec => []OnlyRedeemed
<1>1. Init => RedeemedInv
  BY DEF Init, RedeemedInv, OnlyRedeemed, DevicesProved, SessionsOfDaemon, Process
<1>2. RedeemedInv => OnlyRedeemed
  BY DEF RedeemedInv
<1>q. QED BY <1>1, <1>2, RedeemedStep, TypedHolds, PTL DEF Spec

(* While no two commands hold the registry at once the disk has exactly    *)
(* what the completed pairings and revocations add up to.                  *)
THEOREM NothingLostOrBack == Spec => []RegistryExact
<1>1. Init => RegistryInv
  BY DEF Init, RegistryInv, CopyExact, HoldsRegistry, Process
<1>2. RegistryInv => RegistryExact
  BY DEF RegistryInv, RegistryExact
<1>q. QED BY <1>1, <1>2, RegistryStep, TypedHolds, PTL DEF Spec

(* Once a device was enrolled every daemon that starts asks for proof.     *)
THEOREM NeverOpenAgain == Spec => DoorStaysShut
<1>1. ASSUME Init PROVE FileExists
  <2>1. PICK old \in SUBSET Device :
          regFile = [exists |-> old # {}, devs |-> old] /\ kept = old /\ revoked = {}
    BY <1>1 DEF Init
  <2>2. regFile.exists = (old # {})
    BY <2>1
  <2>q. QED BY <2>1, <2>2 DEF FileExists
<1>2. FileExists /\ [Next]_vars => FileExists'
  BY RegistrySaved DEF FileExists
<1>3. FileExists /\ [Next]_vars =>
        [~policy.up /\ policy'.up /\ (kept # {} \/ revoked # {}) => policy'.proof]_vars
  BY PolicyRead DEF FileExists, DevicePolicy
<1>q. QED BY <1>1, <1>2, <1>3, PTL DEF Spec, DoorStaysShut

(* The throttle holds across processes: no exchange begins too early.      *)
THEOREM ThrottleOutlivesProcesses == Spec => LockoutHolds
<1>1. Init => GuardInv
  BY DEF Init, GuardInv, Knows, HoldsGuard, PairPc, Exchange, Process
<1>2. ASSUME Typed, GuardInv, [Next]_vars, NEW c \in Cmd,
             cmd[c].pc = "loaded", cmd'[c].pc = "waiting", orderly', lastFail # 0
      PROVE  clock - lastFail >= Spacing /\ (streak = 0 => clock - lastFail >= Lockout)
  <2>1. CheckGuard(c)
    BY <1>2, BeginsByCheck
  <2>2. Allowed(guardFile, clock)
    BY <1>2, <2>1, CheckEffect DEF Typed
  <2>3. Knows(guardFile)
    BY <1>2, <2>1 DEF CheckGuard, GuardInv, Others, HoldsGuard, PairPc
  <2>4. /\ guardFile \in Guard /\ clock \in Nat /\ lastFail \in Nat
    BY <1>2 DEF Typed, EnrolTypeOK
  <2>q. QED BY <1>2, <2>2, <2>3, <2>4, EnrolAssumption DEF Allowed, Knows, Guard
<1>3. Typed /\ GuardInv /\ [Next]_vars =>
        [\A c \in Cmd : cmd[c].pc = "loaded" /\ cmd'[c].pc = "waiting" /\ orderly' /\ lastFail # 0
           => /\ clock - lastFail >= Spacing
              /\ streak = 0 => clock - lastFail >= Lockout]_vars
  BY <1>2
<1>q. QED BY <1>1, <1>3, GuardStep, TypedHolds, PTL DEF Spec, LockoutHolds
=============================================================================

------------------------------ MODULE Enrolment ------------------------------
(***************************************************************************)
(* Who may connect: `drdshd pair`, `drdshd devices --revoke`, the pairing  *)
(* throttle, the device registry on disk, and the running daemon that      *)
(* challenges its clients (dr-dsh-daemon/src/{lib,pairing,transport}.rs,   *)
(* dr-dsh-crypto/src/{pairing,registry,device,throttle}.rs).               *)
(*                                                                         *)
(* Every command is a process of its own that reads the two state files,   *)
(* works for up to minutes, and writes them back by writing a temporary    *)
(* file, whose name all commands share, and renaming it.  Keys, codes and  *)
(* signatures are symbolic: a pairing command's code is the command        *)
(* itself, a device is its identity key.                                   *)
(***************************************************************************)
EXTENDS Integers, FiniteSets

CONSTANTS
    Device,     \* identity keys
    Cmd,        \* invocations of the two commands
    Attempts,   \* ATTEMPTS_BEFORE_LOCKOUT
    Lockout,    \* LOCKOUT_DURATION
    Spacing,    \* MIN_SECONDS_BETWEEN_ATTEMPTS
    MaxClock,   \* bound of the model: the clock stops here
    MaxKills,   \* bound of the model: commands killed
    MaxStarts,  \* bound of the model: starts of the daemon
    NoDevice,   \* a client that holds the room key and no identity
    NoCmd       \* no pairing command; as a code, one that no command printed

ASSUME EnrolAssumption ==
    /\ Attempts \in Nat \ {0} /\ Lockout \in Nat /\ Spacing \in Nat
    /\ MaxClock \in Nat /\ MaxKills \in Nat /\ MaxStarts \in Nat
    /\ NoDevice \notin Device /\ NoCmd \notin Cmd

VARIABLES
    regFile,    \* devices.json: whether it exists and whom it lists
    regTmp,     \* devices.json.tmp
    guardFile,  \* pairing-throttle.json
    guardTmp,   \* pairing-throttle.json.tmp
    clock,      \* SystemTime, in seconds
    cmd,        \* the commands: where each is and what it holds in memory
    client,     \* the devices: pairing state and the command they talk to
    policy,     \* the running daemon's DevicePolicy
    sess,       \* its carrier's device-authentication step
    \* History, read by properties only.
    kept,       \* the devices the completed commands should leave enrolled
    redeemed,   \* devices that proved knowledge of a code
    revoked,    \* devices revoked and not enrolled again since
    serial,     \* no two commands held the registry or the guard at once
    orderly,    \* serial, and no command killed, as far as the guard goes
    streak,     \* failed exchanges since the last success, modulo Attempts
    lastFail,   \* when the last exchange failed; 0 when none did
    kills, starts

files == <<regFile, regTmp, guardFile, guardTmp>>
past  == <<kept, redeemed, revoked, serial, orderly, streak, lastFail>>
vars  == <<files, clock, cmd, client, policy, sess, past, kills, starts>>

Guard  == [failures : 0 .. Attempts - 1, last : Nat, until : Nat]
NoTmp  == [none |-> TRUE]
PairPc == {"loaded", "waiting", "confirming", "writing", "renaming", "accepting",
           "succeeded", "failing", "guardRenaming"}
RevPc  == {"revoking", "revWriting", "revRenaming"}

(* Files, commands, clients and sessions hold values of their types; in    *)
(* particular a saved guard never counts as far as the lockout, because    *)
(* the failure that reaches it starts the count again (record_failure).    *)
EnrolTypeOK ==
    /\ regFile \in [exists : BOOLEAN, devs : SUBSET Device]
    /\ regTmp \in {NoTmp} \cup [devs : SUBSET Device]
    /\ guardFile \in Guard
    /\ guardTmp \in {NoTmp} \cup Guard
    /\ clock \in 1 .. MaxClock + 1
    /\ cmd \in [Cmd -> [pc : {"idle", "done"} \cup PairPc \cup RevPc, reg : SUBSET Device,
                        guard : Guard, dev : Device \cup {NoDevice}, code : Cmd \cup {NoCmd}]]
    /\ client \in [Device -> [pc : {"out", "asking", "paired"}, at : Cmd \cup {NoCmd}]]
    /\ policy \in [up : BOOLEAN, proof : BOOLEAN, devs : SUBSET Device]
    /\ sess \in [pc : {"none", "challenged", "served"}, by : Device \cup {NoDevice}]
    /\ kept \in SUBSET Device /\ redeemed \in SUBSET Device /\ revoked \in SUBSET Device
    /\ serial \in BOOLEAN /\ orderly \in BOOLEAN
    /\ streak \in 0 .. Attempts - 1 /\ lastFail \in 0 .. MaxClock + 1
    /\ kills \in 0 .. MaxKills /\ starts \in 0 .. MaxStarts

(* PairingGuard::new. *)
NewGuard == [failures |-> 0, last |-> 0, until |-> 0]

(* A command with nothing in memory. *)
Process(pc) == [pc |-> pc, reg |-> {}, guard |-> NewGuard, dev |-> NoDevice, code |-> NoCmd]

(* Earlier commands have run: some devices are enrolled, some attempts     *)
(* failed just now.                                                        *)
Init ==
    \E old \in SUBSET Device, f \in 0 .. Attempts - 1 :
      /\ regFile = [exists |-> old # {}, devs |-> old]
      /\ client = [d \in Device |-> [pc |-> IF d \in old THEN "paired" ELSE "out", at |-> NoCmd]]
      /\ kept = old /\ redeemed = old /\ revoked = {}
      /\ guardFile = [failures |-> f, last |-> IF f = 0 THEN 0 ELSE 1, until |-> 0]
      /\ streak = f /\ lastFail = (IF f = 0 THEN 0 ELSE 1)
      /\ regTmp = NoTmp /\ guardTmp = NoTmp /\ clock = 1
      /\ cmd = [c \in Cmd |-> Process("idle")]
      /\ policy = [up |-> FALSE, proof |-> FALSE, devs |-> {}]
      /\ sess = [pc |-> "none", by |-> NoDevice]
      /\ serial = TRUE /\ orderly = TRUE /\ kills = 0 /\ starts = 0

-----------------------------------------------------------------------------
(* The throttle.  A time of 0 is None: the clock starts at 1.              *)

(* PairingGuard::check. *)
Allowed(g, now) == now >= g.until /\ (g.last = 0 \/ now - g.last >= Spacing)

(* Mutant: a lockout leaves the counter where it was. *)
FailedNoReset(g, now) ==
    [failures |-> g.failures + 1, last |-> now,
     until |-> IF g.failures + 1 >= Attempts THEN now + Lockout ELSE g.until]

(* PairingGuard::record_failure. *)
Failed(g, now) ==
    IF g.failures + 1 >= Attempts
    THEN [failures |-> 0, last |-> now, until |-> now + Lockout]
    ELSE [failures |-> g.failures + 1, last |-> now, until |-> g.until]

(* PairingGuard::record_success. *)
Succeeded == NewGuard

-----------------------------------------------------------------------------
(* The exchange.  Both ends run SPAKE2 with the code they have and get the *)
(* same key exactly when it is the same code.                              *)
(* The room of an exchange is derived from c's code; a client that names   *)
(* the room itself may have another code, or a mistyped one.               *)
Codes(c) == {c, NoCmd}

DaemonKey(c, d)    == [code |-> c, peer |-> d]
ClientKey(code, d) == [code |-> code, peer |-> d]

(* enrolment_confirmation: a MAC under the exchanged key over the identity. *)
Confirmation(key, d) == [key |-> key, dev |-> d]

(* Mutant: a self-signed identity is enough. *)
ConfirmsIdentityOnly(c) == TRUE

(* DaemonPairing::finish compares the confirmation with its own. *)
Confirms(c) == LET d == cmd[c].dev IN
               Confirmation(ClientKey(cmd[c].code, d), d) = Confirmation(DaemonKey(c, d), d)

(* seal_room_key, and open_room_key at the client. *)
Receipt(c)          == [key |-> DaemonKey(c, cmd[c].dev), dev |-> cmd[c].dev]
OpensReceipt(c, d)  == Receipt(c) = [key |-> ClientKey(cmd[c].code, d), dev |-> d]

Moves(c, pc)   == cmd' = [cmd EXCEPT ![c].pc = pc]
Exits(c)       == cmd' = [cmd EXCEPT ![c] = Process("done")]
Others(c, pcs) == \E o \in Cmd \ {c} : cmd[o].pc \in pcs

(* A failed exchange, before it is recorded anywhere. *)
Fails(c) ==
    /\ Moves(c, "failing")
    /\ streak' = (streak + 1) % Attempts
    /\ lastFail' = clock

HoldsRegistry == {"loaded", "waiting", "confirming", "writing", "renaming",
                  "revoking", "revWriting", "revRenaming"}
HoldsGuard    == PairPc \ {"loaded"}

(* DeviceRegistry::load: a missing file is no devices. *)
LoadRegistry(c) ==
    /\ cmd[c].pc = "idle"
    /\ cmd' = [cmd EXCEPT ![c].pc = "loaded", ![c].reg = regFile.devs]
    /\ serial' = (serial /\ ~Others(c, HoldsRegistry))
    /\ UNCHANGED <<files, clock, client, policy, sess, kept, redeemed, revoked, orderly,
                   streak, lastFail, kills, starts>>

(* PairingGuard::load and check; only then is a code printed and the       *)
(* rendezvous room dialled.                                                *)
CheckGuard(c) ==
    /\ cmd[c].pc = "loaded"
    /\ cmd' = [cmd EXCEPT ![c] = IF Allowed(guardFile, clock)
                                 THEN [@ EXCEPT !.pc = "waiting", !.guard = guardFile]
                                 ELSE Process("done")]
    /\ orderly' = (orderly /\ ~Others(c, HoldsGuard))
    /\ UNCHANGED <<files, clock, client, policy, sess, kept, redeemed, revoked, serial,
                   streak, lastFail, kills, starts>>

(* A client reaches c's room with some code and both ends get as far as    *)
(* pair_finish: run_client_side_at up to its wait for pair_accept.         *)
Redeem(c, d, code) ==
    /\ cmd[c].pc = "waiting"
    /\ client[d].pc # "asking"
    /\ cmd' = [cmd EXCEPT ![c].pc = "confirming", ![c].dev = d, ![c].code = code]
    /\ client' = [client EXCEPT ![d] = [pc |-> "asking", at |-> c]]
    /\ UNCHANGED <<files, clock, policy, sess, past, kills, starts>>

(* The daemon's end of run_daemon_side: the identity is enrolled in the    *)
(* registry read before the exchange, ...                                  *)
Confirm(c) ==
    /\ cmd[c].pc = "confirming"
    /\ Confirms(c)
    /\ cmd' = [cmd EXCEPT ![c].pc = "writing", ![c].reg = @ \cup {cmd[c].dev}]
    /\ redeemed' = IF cmd[c].code = c THEN redeemed \cup {cmd[c].dev} ELSE redeemed
    /\ UNCHANGED <<files, clock, client, policy, sess, kept, revoked, serial, orderly,
                   streak, lastFail, kills, starts>>

(* ... or the client is told pair_reject and the exchange has failed.      *)
Reject(c) ==
    /\ cmd[c].pc = "confirming"
    /\ ~Confirms(c)
    /\ Fails(c)
    /\ client' = [client EXCEPT ![cmd[c].dev] = IF @ = [pc |-> "asking", at |-> c]
                                                THEN [pc |-> "out", at |-> NoCmd] ELSE @]
    /\ UNCHANGED <<files, clock, policy, sess, kept, redeemed, revoked, serial, orderly,
                   kills, starts>>

(* The relay cannot be reached, nobody redeems the code in time, a message *)
(* is malformed, the registry cannot be written, or pair_accept cannot be  *)
(* sent - which is after the registry was saved.                           *)
ExchangeFails(c) ==
    /\ cmd[c].pc \in {"waiting", "confirming", "writing", "accepting"}
    /\ Fails(c)
    /\ UNCHANGED <<files, clock, client, policy, sess, kept, redeemed, revoked, serial,
                   orderly, kills, starts>>

(* DeviceRegistry::save: the temporary file, ...                           *)
WriteRegistry(c) ==
    /\ cmd[c].pc \in {"writing", "revWriting"}
    /\ regTmp' = [devs |-> cmd[c].reg]
    /\ Moves(c, IF cmd[c].pc = "writing" THEN "renaming" ELSE "revRenaming")
    /\ UNCHANGED <<regFile, guardFile, guardTmp, clock, client, policy, sess, past, kills, starts>>

(* ... and the rename, which fails when another command renamed it away.   *)
RenameRegistry(c) ==
    /\ cmd[c].pc = "renaming"
    /\ IF regTmp # NoTmp
       THEN /\ regFile' = [exists |-> TRUE, devs |-> regTmp.devs]
            /\ regTmp' = NoTmp
            /\ kept' = kept \cup {cmd[c].dev}
            /\ revoked' = revoked \ {cmd[c].dev}
            /\ Moves(c, "accepting")
            /\ UNCHANGED <<streak, lastFail>>
       ELSE /\ Fails(c)
            /\ UNCHANGED <<regFile, regTmp, kept, revoked>>
    /\ UNCHANGED <<guardFile, guardTmp, clock, client, policy, sess, redeemed, serial,
                   orderly, kills, starts>>

(* pair_accept carries the sealed room key.  The client may have given up  *)
(* by then; the daemon cannot tell.                                        *)
Accept(c) ==
    /\ cmd[c].pc = "accepting"
    /\ Moves(c, "succeeded")
    /\ streak' = 0 /\ lastFail' = 0
    /\ client' = [client EXCEPT ![cmd[c].dev] =
                    IF @ = [pc |-> "asking", at |-> c] /\ OpensReceipt(c, cmd[c].dev)
                    THEN [pc |-> "paired", at |-> NoCmd] ELSE @]
    /\ UNCHANGED <<files, clock, policy, sess, kept, redeemed, revoked, serial, orderly,
                   kills, starts>>

(* The client's own deadline, or its carrier broke. *)
ClientGivesUp(d) ==
    /\ client[d].pc = "asking"
    /\ client' = [client EXCEPT ![d] = [pc |-> "out", at |-> NoCmd]]
    /\ UNCHANGED <<files, clock, cmd, policy, sess, past, kills, starts>>

(* The end of pair_command: the outcome goes into the guard that was read  *)
(* before the exchange, and PairingGuard::save starts.                     *)
RecordOutcome(c) ==
    /\ cmd[c].pc \in {"succeeded", "failing"}
    /\ guardTmp' = IF cmd[c].pc = "succeeded" THEN Succeeded ELSE Failed(cmd[c].guard, clock)
    /\ Moves(c, "guardRenaming")
    /\ UNCHANGED <<regFile, regTmp, guardFile, clock, client, policy, sess, past, kills, starts>>

(* Mutant: the throttle lives and dies with the process. *)
RenameGuardForgotten(c) ==
    /\ cmd[c].pc = "guardRenaming"
    /\ guardTmp' = NoTmp
    /\ Exits(c)
    /\ UNCHANGED <<guardFile, regFile, regTmp, clock, client, policy, sess, past, kills, starts>>

(* An error of this save is ignored.                                       *)
RenameGuard(c) ==
    /\ cmd[c].pc = "guardRenaming"
    /\ guardFile' = IF guardTmp # NoTmp THEN guardTmp ELSE guardFile
    /\ guardTmp' = NoTmp
    /\ Exits(c)
    /\ UNCHANGED <<regFile, regTmp, clock, client, policy, sess, past, kills, starts>>

(* Mutant: the identity is struck from a registry read again at the end,   *)
(* by forgetting everyone.                                                 *)
RevokeEveryone(c, d) ==
    /\ cmd[c].pc = "revoking"
    /\ d \in cmd[c].reg
    /\ cmd' = [cmd EXCEPT ![c].pc = "revWriting", ![c].dev = d, ![c].reg = {}]
    /\ UNCHANGED <<files, clock, client, policy, sess, past, kills, starts>>

(* devices_command: load, ... *)
LoadForRevoke(c) ==
    /\ cmd[c].pc = "idle"
    /\ cmd' = [cmd EXCEPT ![c].pc = "revoking", ![c].reg = regFile.devs]
    /\ serial' = (serial /\ ~Others(c, HoldsRegistry))
    /\ UNCHANGED <<files, clock, client, policy, sess, kept, redeemed, revoked, orderly,
                   streak, lastFail, kills, starts>>

(* ... DeviceRegistry::revoke; an id that is not enrolled changes nothing, *)
Revoke(c, d) ==
    /\ cmd[c].pc = "revoking"
    /\ d \in cmd[c].reg
    /\ cmd' = [cmd EXCEPT ![c].pc = "revWriting", ![c].dev = d, ![c].reg = @ \ {d}]
    /\ UNCHANGED <<files, clock, client, policy, sess, past, kills, starts>>

RevokeNobody(c) ==
    /\ cmd[c].pc = "revoking"
    /\ Exits(c)
    /\ UNCHANGED <<files, clock, client, policy, sess, past, kills, starts>>

(* ... and the rename of its save, after which "revoked" is printed.       *)
RenameRevoked(c) ==
    /\ cmd[c].pc = "revRenaming"
    /\ Exits(c)
    /\ IF regTmp # NoTmp
       THEN /\ regFile' = [exists |-> TRUE, devs |-> regTmp.devs]
            /\ regTmp' = NoTmp
            /\ kept' = kept \ {cmd[c].dev}
            /\ revoked' = revoked \cup {cmd[c].dev}
       ELSE UNCHANGED <<regFile, regTmp, kept, revoked>>
    /\ UNCHANGED <<guardFile, guardTmp, clock, client, policy, sess, redeemed, serial,
                   orderly, streak, lastFail, kills, starts>>

(* A command is interrupted or killed. *)
Kill(c) ==
    /\ kills < MaxKills
    /\ cmd[c].pc \notin {"idle", "done"}
    /\ Exits(c)
    /\ kills' = kills + 1
    /\ orderly' = (orderly /\ cmd[c].pc \notin HoldsGuard)
    /\ UNCHANGED <<files, clock, client, policy, sess, kept, redeemed, revoked, serial,
                   streak, lastFail, starts>>

Tick ==
    /\ clock <= MaxClock
    /\ clock' = clock + 1
    /\ UNCHANGED <<files, cmd, client, policy, sess, past, kills, starts>>

-----------------------------------------------------------------------------
(* Mutant: an empty registry counts as never paired. *)
PolicyByCount(reg) == [up |-> TRUE, proof |-> reg.devs # {}, devs |-> reg.devs]

(* device_policy: that the file exists decides. *)
DevicePolicy(reg) == [up |-> TRUE, proof |-> reg.exists, devs |-> reg.devs]

(* run_command reads the policy once; it lives as long as the daemon.      *)
StartDaemon ==
    /\ ~policy.up
    /\ starts < MaxStarts
    /\ starts' = starts + 1
    /\ policy' = DevicePolicy(regFile)
    /\ UNCHANGED <<files, clock, cmd, client, sess, past, kills>>

StopDaemon ==
    /\ policy.up
    /\ policy' = [up |-> FALSE, proof |-> FALSE, devs |-> {}]
    /\ sess' = [pc |-> "none", by |-> NoDevice]
    /\ UNCHANGED <<files, clock, cmd, client, past, kills, starts>>

(* A client with the room key has a sealed session; challenge_client asks  *)
(* for a proof, or serves at once.                                         *)
Challenge(d) ==
    /\ policy.up
    /\ sess.pc = "none"
    /\ d \in Device => client[d].pc = "paired"
    /\ sess' = [pc |-> IF policy.proof THEN "challenged" ELSE "served", by |-> d]
    /\ UNCHANGED <<files, clock, cmd, client, policy, past, kills, starts>>

(* DeviceSecretKey::sign over the connection's nonce and room, which       *)
(* travels inside the session: only who signed it is left to tell apart.   *)
Signature(d) == [by |-> d]

(* DevicePublicKey::verify with the key enrolled under id. *)
Verifies(id, signature) == signature.by = id

(* answer_challenge names a device and signs with the client's own key;    *)
(* challenge_client looks the id up in the registry it was started with    *)
(* and verifies.                                                           *)
BindDevice(id) ==
    /\ sess.pc = "challenged"
    /\ sess.by # NoDevice
    /\ id \in policy.devs
    /\ Verifies(id, Signature(sess.by))
    /\ sess' = [sess EXCEPT !.pc = "served"]
    /\ UNCHANGED <<files, clock, cmd, client, policy, past, kills, starts>>

(* refuse_after, which closes the carrier; a client without an identity    *)
(* that sends anything ends here too.  Or the carrier just breaks.         *)
EndSession ==
    /\ sess.pc # "none"
    /\ sess' = [pc |-> "none", by |-> NoDevice]
    /\ UNCHANGED <<files, clock, cmd, client, policy, past, kills, starts>>

-----------------------------------------------------------------------------
PairStep(c) ==
    \/ LoadRegistry(c) \/ CheckGuard(c) \/ Confirm(c) \/ Reject(c) \/ ExchangeFails(c)
    \/ \E d \in Device, code \in Codes(c) : Redeem(c, d, code)
    \/ WriteRegistry(c) \/ RenameRegistry(c) \/ Accept(c)
    \/ RecordOutcome(c) \/ RenameGuard(c)

RevokeStep(c) ==
    \/ LoadForRevoke(c) \/ RevokeNobody(c) \/ RenameRevoked(c)
    \/ \E d \in Device : Revoke(c, d)

Next ==
    \/ \E c \in Cmd : PairStep(c) \/ RevokeStep(c) \/ Kill(c)
    \/ \E d \in Device : ClientGivesUp(d)
    \/ Tick \/ StartDaemon \/ StopDaemon
    \/ \E d \in Device \cup {NoDevice} : Challenge(d)
    \/ \E d \in Device : BindDevice(d)
    \/ EndSession

Spec == Init /\ [][Next]_vars

-----------------------------------------------------------------------------
(* Nobody gets anywhere without a code: a device in the registry on disk,  *)
(* in its temporary file, in a command's copy or in a daemon's policy      *)
(* proved that it knew a code (DaemonPairing::finish); a device that was   *)
(* told the room key did too; and a session served under a policy that     *)
(* asks for proof is with an identity that policy lists, whatever name it  *)
(* gave (challenge_client).                                                *)
OnlyRedeemed ==
    /\ regFile.devs \cup policy.devs \subseteq redeemed
    /\ regTmp # NoTmp => regTmp.devs \subseteq redeemed
    /\ \A c \in Cmd : cmd[c].reg \subseteq redeemed
    /\ \A d \in Device : client[d].pc = "paired" => d \in redeemed
    /\ sess.pc = "served" /\ policy.proof => sess.by \in policy.devs

(* Once a device was enrolled the room key alone opens nothing: a daemon   *)
(* started after that asks for proof, also when every device has been      *)
(* revoked again and whatever commands were killed or overlapped.          *)
DoorStaysShut ==
    [][~policy.up /\ policy'.up /\ (kept # {} \/ revoked # {}) => policy'.proof]_vars

(* As long as commands run one after the other and none is killed between  *)
(* its check and its save, an exchange begins only Spacing after the last  *)
(* failed one and, after every Attempts failures in a row, only Lockout    *)
(* after it: the throttle survives that every attempt is a new process.    *)
LockoutHolds ==
    [][\A c \in Cmd : cmd[c].pc = "loaded" /\ cmd'[c].pc = "waiting" /\ orderly' /\ lastFail # 0
         => /\ clock - lastFail >= Spacing
            /\ streak = 0 => clock - lastFail >= Lockout]_vars

(* As long as no two commands hold the registry at once, what is on disk   *)
(* is what the completed pairings and revocations add up to: nothing is    *)
(* lost and nothing comes back, a killed or failing command included.      *)
RegistryExact == serial => regFile.devs = kept

(* What devices_command and the documentation say: a revoked device is     *)
(* refused at its next connection.                                         *)
RevokedIsRefused ==
    [][sess.pc # "served" /\ sess'.pc = "served" /\ policy.proof => sess'.by \notin revoked]_vars
=============================================================================

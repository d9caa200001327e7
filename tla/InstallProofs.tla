---------------------------- MODULE InstallProofs ----------------------------
(***************************************************************************)
(* Proofs about Install, for every number of commands, every set of jobs   *)
(* and every bound on faults and crashes.                                  *)
(***************************************************************************)
EXTENDS Install, TLAPS

Part == {"bin", "raw", "client", "plugin", "command", "ctl"}
Pc   == {"idle", "checking", "reading", "stopping", "working", "starting", "switching", "ended", "killed"}

JobType == [tool : {"drdsh", "relayctl"}, scope : Scope, plugin : BOOLEAN,
            action : {"install", "asset", "uninstall", "unplug",
                      "start", "stop", "restart", "enable", "disable"}]

OpType == ({"out", "in", "put", "gone"} \X Part)
          \cup ({"sharedLook", "sharedLink", "config", "pluginAdd", "unit", "pluginRemove",
                 "configUnplugged", "autoOff", "unitGone", "awayLook", "awayLink", "configEmpty"} \X {""})

Command == [pc : Pc, job : JobType, todo : Seq(OpType), was : BOOLEAN,
            backup : Cmd \cup {Absent}, seen : Scope \cup {"none", "keep"}]

(* Every variable holds a value of its type. *)
InstallTypeOK ==
    /\ lock \in [Scope -> Cmd \cup {Nobody}]
    /\ file \in [Scope -> [Part -> Cmd \cup {Absent}]]
    /\ comps \in [Scope -> SUBSET {"saved", "plugin", "relay", "daemon"}]
    /\ unit \in [Scope -> {"none", "bin", "raw"}]
    /\ auto \in [Scope -> BOOLEAN]
    /\ shared \in Scope \cup {"none"}
    /\ svc \in [Scope -> {"stopped", "activating", "running"}]
    /\ cmd \in [Cmd -> Command]
    /\ intact \in [Scope -> Cmd \cup {Nobody}]
    /\ apart \in BOOLEAN

-----------------------------------------------------------------------------
(* Plans.  The order in which the operations of a job come, as ranks; an   *)
(* operation of rank 0 is not part of it.                                  *)
UpdateRank(j, x) ==
    CASE x = <<"out", "bin">>       -> IF j.action = "install" THEN 1 ELSE 0
      [] x = <<"in", "bin">>        -> IF j.action = "install" THEN 2 ELSE 0
      [] x = <<"out", "client">>    -> 3
      [] x = <<"in", "client">>     -> 4
      [] x = <<"out", "plugin">>    -> 5
      [] x = <<"in", "plugin">>     -> 6
      [] x = <<"put", "command">>   -> 7
      [] x = <<"put", "ctl">>       -> 8
      [] x = <<"sharedLook", "">>   -> 9
      [] x = <<"sharedLink", "">>   -> 10
      [] x = <<"config", "">>       -> 11
      [] x = <<"pluginAdd", "">>    -> 12
      [] x = <<"unit", "">>         -> 13
      [] x = <<"gone", "raw">>      -> 14
      [] OTHER                      -> 0

RelayctlUpdateRank(j, x) ==
    CASE x = <<"out", "raw">>       -> IF j.action = "install" THEN 1 ELSE 0
      [] x = <<"in", "raw">>        -> IF j.action = "install" THEN 2 ELSE 0
      [] x = <<"put", "ctl">>       -> 3
      [] x = <<"gone", "bin">>      -> 4
      [] x = <<"out", "client">>    -> 5
      [] x = <<"in", "client">>     -> 6
      [] x = <<"config", "">>       -> 7
      [] x = <<"unit", "">>         -> 8
      [] OTHER                      -> 0

RemovalRank(j, x) ==
    CASE x = <<"pluginRemove", "">>    -> 1
      [] x = <<"gone", "plugin">>      -> 2
      [] x = <<"configUnplugged", "">> -> IF j.action = "unplug" THEN 3 ELSE 0
      [] x = <<"autoOff", "">>         -> IF j.action = "unplug" THEN 0 ELSE 4
      [] x = <<"unitGone", "">>        -> IF j.action = "unplug" THEN 0 ELSE 5
      [] x = <<"awayLook", "">>        -> IF j.action = "unplug" THEN 0 ELSE 6
      [] x = <<"awayLink", "">>        -> IF j.action = "unplug" THEN 0 ELSE 7
      [] x = <<"gone", "command">>     -> IF j.action = "unplug" THEN 0 ELSE 8
      [] x = <<"gone", "ctl">>         -> IF j.action = "unplug" THEN 0 ELSE 9
      [] x = <<"gone", "bin">>         -> IF j.action = "unplug" THEN 0 ELSE 10
      [] x = <<"gone", "client">>      -> IF j.action = "unplug" THEN 0 ELSE 11
      [] x = <<"configEmpty", "">>     -> IF j.action = "unplug" THEN 0 ELSE 12
      [] OTHER                         -> 0

RelayctlRemovalRank(x) ==
    CASE x = <<"autoOff", "">>         -> 1
      [] x = <<"unitGone", "">>        -> 2
      [] x = <<"gone", "ctl">>         -> 3
      [] x = <<"gone", "client">>      -> 4
      [] x = <<"gone", "raw">>         -> 5
      [] x = <<"gone", "bin">>         -> 6
      [] x = <<"configEmpty", "">>     -> 7
      [] OTHER                         -> 0

Rank(j, x) ==
    CASE Installs(j) /\ j.tool = "drdsh"    -> UpdateRank(j, x)
      [] Installs(j) /\ j.tool = "relayctl" -> RelayctlUpdateRank(j, x)
      [] Removes(j) /\ j.tool = "drdsh"     -> RemovalRank(j, x)
      [] Removes(j) /\ j.tool = "relayctl"  -> RelayctlRemovalRank(x)
      [] OTHER                              -> 0

Has(s, x) == \E i \in 1 .. Len(s) : s[i] = x

(* The ranks of a plan rise, from low to high. *)
Within(j, s, low, high) ==
    /\ \A i \in 1 .. Len(s) : Rank(j, s[i]) \in low .. high
    /\ \A i \in 1 .. Len(s) : \A k \in i + 1 .. Len(s) : Rank(j, s[i]) < Rank(j, s[k])

-----------------------------------------------------------------------------
(* The invariant behind SuccessIsWhole.                                    *)
Active(c)  == cmd[c].pc \notin {"idle", "ended", "killed"}
Changes(j) == Installs(j) \/ Removes(j)
Todo(c, x) == Has(cmd[c].todo, x)

(* Who is at work holds the lock of its component. *)
Exclusive == \A c \in Cmd : Active(c) => lock[S(c)] = c

(* Where a command can be, by its job; what it starts or switches is       *)
(* installed, and an uninstallation works on a service that is down.       *)
Placed(c) ==
    /\ cmd[c].job.tool = "relayctl" => cmd[c].job.scope = "relay" /\ cmd[c].job.action # "unplug"
    /\ cmd[c].pc = "idle" => cmd[c] = Nothing
    /\ cmd[c].pc = "working" => Changes(cmd[c].job)
    /\ cmd[c].pc = "stopping" => Changes(cmd[c].job) \/ cmd[c].job.action \in {"stop", "restart"}
    /\ cmd[c].pc \in {"checking", "reading"} => ~cmd[c].was
    /\ cmd[c].was => Installs(cmd[c].job) \/ cmd[c].job.action = "unplug"
    /\ cmd[c].pc \in {"reading", "stopping", "working", "starting", "switching"} =>
         (cmd[c].job.action \notin {"install", "uninstall", "unplug"} => Installed(S(c)))
    /\ Active(c) /\ (cmd[c].was \/ cmd[c].pc \in {"starting", "switching"}) => Installed(S(c))
    /\ cmd[c].pc = "working" /\ cmd[c].job.action = "uninstall" => svc[S(c)] = "stopped"
    /\ cmd[c].pc \in {"starting", "switching"} => cmd[c].job.action # "uninstall"

(* What is left of a plan. *)
Planned(c) ==
    /\ Within(cmd[c].job, cmd[c].todo, 1, 14)
    /\ ~Changes(cmd[c].job) => cmd[c].todo = <<>>

(* Everything an installation, or a removal, brings about is still to be   *)
(* done, or so.                                                            *)
Brings(c, s, j) ==
    /\ Installed(s) \/ Todo(c, <<"config", "">>)
    /\ s = "relay" => file[s]["client"] = c \/ Todo(c, <<"in", "client">>)
    /\ j.tool = "drdsh" => \A p \in CommandsOf(j.tool) : file[s][p] = c \/ Todo(c, <<"put", p>>)
    /\ s = "daemon" /\ j.plugin => /\ file[s]["plugin"] = c \/ Todo(c, <<"in", "plugin">>)
                                   /\ "plugin" \in comps[s] \/ Todo(c, <<"pluginAdd", "">>)
    /\ j.action = "install" =>
         /\ file[s][Program(j.tool)] = c \/ Todo(c, <<"in", Program(j.tool)>>)
         /\ file[s]["ctl"] = c \/ Todo(c, <<"put", "ctl">>)
         /\ \A p \in {"bin", "raw"} \ {Program(j.tool)} : file[s][p] = Absent \/ Todo(c, <<"gone", p>>)

TakesAway(c, s, j) ==
    /\ \A p \in {Program(j.tool), "client"} \cup CommandsOf(j.tool) : file[s][p] = Absent \/ Todo(c, <<"gone", p>>)
    /\ ~Installed(s) \/ Todo(c, <<"configEmpty", "">>)
    /\ unit[s] = "none" \/ Todo(c, <<"unitGone", "">>)
    /\ Todo(c, <<"autoOff", "">>) => Todo(c, <<"unitGone", "">>)
    /\ ~auto[s] \/ Todo(c, <<"autoOff", "">>)

(* A move out is followed by the move in, at once. *)
MovedIn(c) == \A p \in Part :
    /\ Todo(c, <<"out", p>>) => Todo(c, <<"in", p>>)
    /\ Todo(c, <<"in", p>>) => \/ Todo(c, <<"out", p>>)
                               \/ Op(c) = <<"in", p>> /\ file[S(c)][p] = Absent

Underway(c) == cmd[c].pc \in {"reading", "stopping", "working"}

Plans(c) == /\ Planned(c) /\ MovedIn(c)
            /\ Installs(cmd[c].job) => Brings(c, S(c), cmd[c].job)
            /\ cmd[c].job.action = "uninstall" => TakesAway(c, S(c), cmd[c].job)

CommandInv(c) == Placed(c) /\ (Underway(c) => Plans(c))

(* Nothing of a component that is not installed runs; after a success      *)
(* nobody is at work on the component.                                     *)
ScopeInv(s) ==
    /\ ~Installed(s) => svc[s] = "stopped" /\ ~auto[s]
    /\ intact[s] \in Cmd =>
         /\ S(intact[s]) = s /\ cmd[intact[s]].pc # "idle"
         /\ \A d \in Cmd : Underway(d) /\ S(d) = s => ~Changes(cmd[d].job)
         /\ Whole(s, intact[s], cmd[intact[s]].job)

InstallInv == /\ InstallTypeOK /\ Exclusive
              /\ \A c \in Cmd : CommandInv(c)
              /\ \A s \in Scope : ScopeInv(s)

-----------------------------------------------------------------------------
(* The invariant behind ServiceRestored: what runs has its program, or a   *)
(* copy of it that is put back - unless that was left aside, or the other  *)
(* tool was there too.                                                     *)
Lost(d) == cmd[d].pc \in {"killed", "starting", "ended"} /\ cmd[d].backup # Absent

Clean(s, tool) == \A d \in Cmd : cmd[d].pc # "idle" /\ S(d) = s => cmd[d].job.tool = tool /\ ~Lost(d)

There(s, tool) ==
    \/ file[s][Program(tool)] # Absent
    \/ \E c \in Cmd : /\ S(c) = s /\ cmd[c].pc = "working" /\ Op(c) = <<"in", Program(tool)>>
                      /\ cmd[c].backup # Absent

Backed(s, tool) ==
    /\ unit[s] \in {"none", Program(tool)}
    /\ svc[s] = "running" => There(s, tool)
    /\ \A c \in Cmd : Active(c) /\ S(c) = s /\ cmd[c].was => There(s, tool)

RunsFrom == \A s \in Scope, tool \in {"drdsh", "relayctl"} : Clean(s, tool) => Backed(s, tool)

-----------------------------------------------------------------------------
(* The invariant behind SharedCommandWorks.                                *)
Good == /\ (\E s \in Scope : Exists(s)) => shared # "none"
        /\ shared # "none" => Exists(shared)

(* A command that for now has the shared one lead nowhere: between moving  *)
(* the program out and linking, between handing over and deleting it.      *)
Installing(c) == /\ cmd[c].pc = "working" /\ cmd[c].job.action = "install"
                 /\ ~Todo(c, <<"out", "bin">>) /\ Todo(c, <<"sharedLink", "">>)
Leaving(c)    == /\ cmd[c].pc = "working" /\ cmd[c].job.action = "uninstall"
                 /\ ~Todo(c, <<"awayLink", "">>) /\ Todo(c, <<"gone", "bin">>)

HandedOver(s) == shared # s /\ \A o \in Scope \ {s} : shared = o <=> Exists(o)

(* An installed component that nobody installs or removes.                 *)
Settled(s) == /\ Installed(s)
              /\ \A c \in Cmd : cmd[c].pc = "working" /\ S(c) = s => cmd[c].job.action \notin {"install", "uninstall"}

SeesShared(c) == cmd[c].seen = IF shared \in Scope /\ Exists(shared) THEN "keep" ELSE S(c)
SeesAway(c)   == cmd[c].seen = IF shared # S(c) THEN "keep"
                               ELSE LET other == CHOOSE s \in Scope : s # S(c)
                                    IN  IF Exists(other) THEN other ELSE "none"

(* A program is moved before the link is set, and deleted after; what was  *)
(* seen of the link is so when it is set.                                  *)
Links(c) ==
    /\ cmd[c].pc # "working" => /\ cmd[c].job.action = "install" => Todo(c, <<"out", "bin">>)
                                /\ cmd[c].job.action = "uninstall" => Todo(c, <<"awayLink", "">>)
    /\ Todo(c, <<"out", "bin">>) => Todo(c, <<"sharedLink", "">>)
    /\ Todo(c, <<"in", "bin">>) => Todo(c, <<"sharedLink", "">>)
    /\ Todo(c, <<"awayLink", "">>) => Todo(c, <<"gone", "bin">>)
    /\ Todo(c, <<"sharedLink", "">>) => \/ Todo(c, <<"sharedLook", "">>)
                                        \/ Op(c) = <<"sharedLink", "">> /\ SeesShared(c)
    /\ Todo(c, <<"awayLink", "">>) => \/ Todo(c, <<"awayLook", "">>)
                                      \/ Op(c) = <<"awayLink", "">> /\ SeesAway(c)

Quiet == apart /\ \A c \in Cmd : cmd[c].job.tool = "drdsh"

SharedInv == Quiet =>
    /\ (\A c \in Cmd : ~Installing(c) /\ ~Leaving(c)) => Good
    /\ \A c \in Cmd : Leaving(c) => HandedOver(S(c))
    /\ \A s \in Scope : Settled(s) => Exists(s)
    /\ \A c \in Cmd : Underway(c) => Links(c)

-----------------------------------------------------------------------------
(* Sequences of operations. *)
Plan(j, s, low, high) == s \in Seq(OpType) /\ Within(j, s, low, high)

(* A plan that consists of these operations. *)
Consists(j, s, low, high, ops) == /\ Plan(j, s, low, high)
                                  /\ \A x \in OpType : Has(s, x) <=> x \in ops

LEMMA Concat ==
    ASSUME NEW j, NEW low \in Nat, NEW mid \in Nat, NEW high \in Nat, NEW next \in Nat,
           low <= mid, mid < next, next <= high, NEW X, NEW Y,
           NEW a, NEW b, Consists(j, a, low, mid, X), Consists(j, b, next, high, Y)
    PROVE  Consists(j, a \o b, low, high, X \cup Y)
<1> DEFINE r(x) == Rank(j, x)
           s == a \o b
<1>1. a \in Seq(OpType) /\ b \in Seq(OpType) BY DEF Consists, Plan
<1>2. s \in Seq(OpType) /\ Len(s) = Len(a) + Len(b)
      /\ \A i \in 1 .. Len(s) : s[i] = IF i <= Len(a) THEN a[i] ELSE b[i - Len(a)]
    BY <1>1
<1>3. Len(a) \in Nat /\ Len(b) \in Nat BY <1>1
<1>a. /\ \A i \in 1 .. Len(a) : r(a[i]) \in low .. mid
      /\ \A i \in 1 .. Len(a) : \A k \in i + 1 .. Len(a) : r(a[i]) < r(a[k])
    BY DEF Consists, Plan, Within
<1>b. /\ \A i \in 1 .. Len(b) : r(b[i]) \in next .. high
      /\ \A i \in 1 .. Len(b) : \A k \in i + 1 .. Len(b) : r(b[i]) < r(b[k])
    BY DEF Consists, Plan, Within
<1> HIDE DEF r, s
<1>4. ASSUME NEW i \in 1 .. Len(s) PROVE r(s[i]) \in low .. high
  <2>1. CASE i <= Len(a)
    <3>1. i \in 1 .. Len(a) /\ s[i] = a[i] BY <2>1, <1>2, <1>3
    <3>2. r(a[i]) \in low .. mid BY <3>1, <1>a
    <3> QED BY <3>1, <3>2
  <2>2. CASE i > Len(a)
    <3> DEFINE v == i - Len(a)
    <3>1. v \in 1 .. Len(b) /\ s[i] = b[v] BY <2>2, <1>2, <1>3
    <3> HIDE DEF v
    <3>2. r(b[v]) \in next .. high BY <3>1, <1>b
    <3> QED BY <3>1, <3>2
  <2> QED BY <2>1, <2>2, <1>3
<1>5. \A i \in 1 .. Len(s) : \A k \in i + 1 .. Len(s) : r(s[i]) < r(s[k])
  <2> SUFFICES ASSUME NEW i \in 1 .. Len(s), NEW k \in i + 1 .. Len(s) PROVE r(s[i]) < r(s[k])
      OBVIOUS
  <2>1. CASE k <= Len(a)
    <3>1. i \in 1 .. Len(a) /\ k \in i + 1 .. Len(a) BY <2>1, <1>2, <1>3
    <3>2. s[i] = a[i] /\ s[k] = a[k] BY <2>1, <3>1, <1>2, <1>3
    <3> QED BY <3>1, <3>2, <1>a
  <2>2. CASE i > Len(a)
    <3> DEFINE u == i - Len(a)
               v == k - Len(a)
    <3>1. u \in 1 .. Len(b) /\ v \in u + 1 .. Len(b) BY <2>2, <1>2, <1>3
    <3>2. s[i] = b[u] /\ s[k] = b[v] BY <2>2, <1>2, <1>3
    <3> HIDE DEF u, v
    <3> QED BY <3>1, <3>2, <1>b
  <2>3. CASE i <= Len(a) /\ k > Len(a)
    <3> DEFINE v == k - Len(a)
    <3>1. i \in 1 .. Len(a) /\ v \in 1 .. Len(b) BY <2>3, <1>2, <1>3
    <3>2. s[i] = a[i] /\ s[k] = b[v] BY <2>3, <1>2, <1>3
    <3> HIDE DEF v
    <3>3. r(a[i]) \in low .. mid /\ r(b[v]) \in next .. high BY <3>1, <1>a, <1>b
    <3> QED BY <3>2, <3>3
  <2> QED BY <2>1, <2>2, <2>3, <1>2, <1>3
<1>6. ASSUME NEW x PROVE Has(s, x) <=> Has(a, x) \/ Has(b, x)
  <2>1. ASSUME NEW i \in 1 .. Len(s), s[i] = x PROVE Has(a, x) \/ Has(b, x)
    <3>1. CASE i <= Len(a) BY <3>1, <2>1, <1>2, <1>3 DEF Has
    <3>2. CASE i > Len(a)
      <4> DEFINE k == i - Len(a)
      <4>1. k \in 1 .. Len(b) /\ s[i] = b[k] BY <3>2, <1>2, <1>3
      <4> HIDE DEF k
      <4> QED BY <2>1, <4>1 DEF Has
    <3> QED BY <3>1, <3>2, <1>3
  <2>2. ASSUME NEW i \in 1 .. Len(a), a[i] = x PROVE Has(s, x)
      BY <2>2, <1>2, <1>3 DEF Has
  <2>3. ASSUME NEW i \in 1 .. Len(b), b[i] = x PROVE Has(s, x)
    <3> DEFINE k == i + Len(a)
    <3>1. k \in 1 .. Len(s) /\ ~(k <= Len(a)) /\ k - Len(a) = i BY <1>2, <1>3
    <3> HIDE DEF k
    <3>2. s[k] = b[i] BY <3>1, <1>2
    <3> QED BY <2>3, <3>1, <3>2 DEF Has
  <2> QED BY <2>1, <2>2, <2>3 DEF Has
<1>7. Within(j, s, low, high) BY <1>4, <1>5 DEF Within, r
<1> QED BY <1>2, <1>6, <1>7 DEF Consists, Plan, s

(* The pieces. *)
LEMMA EmptyPlan == ASSUME NEW j, NEW low, NEW high
                   PROVE  Consists(j, <<>>, low, high, {})
<1>1. Len(<<>>) = 0 /\ <<>> \in Seq(OpType) OBVIOUS
<1> QED BY <1>1 DEF Consists, Plan, Within, Has

LEMMA OnlyIf == ASSUME NEW j, NEW low, NEW high, NEW s, NEW ops, NEW b \in BOOLEAN,
                       b => Consists(j, s, low, high, ops)
                PROVE  Consists(j, If(b, s), low, high, IF b THEN ops ELSE {})
BY EmptyPlan DEF If

LEMMA OneOp == ASSUME NEW j, NEW x \in OpType, NEW n \in Nat, Rank(j, x) = n
               PROVE  Consists(j, <<x>>, n, n, {x})
<1>1. <<x>> \in Seq(OpType) /\ Len(<<x>>) = 1 /\ <<x>>[1] = x OBVIOUS
<1> QED BY <1>1 DEF Consists, Plan, Within, Has

LEMMA PutOp == ASSUME NEW j, NEW p \in Part, NEW n \in Nat, Rank(j, <<"put", p>>) = n
               PROVE  Consists(j, Put(p), n, n, {<<"put", p>>})
<1> DEFINE x == <<"put", p>>
<1>1. x \in OpType BY DEF OpType
<1>2. Rank(j, x) = n OBVIOUS
<1>3. Put(p) = <<x>> BY DEF Put
<1> HIDE DEF x
<1> QED BY <1>1, <1>2, <1>3, OneOp DEF x

LEMMA DeleteOp == ASSUME NEW j, NEW p \in Part, NEW n \in Nat, Rank(j, <<"gone", p>>) = n
                  PROVE  Consists(j, Delete(p), n, n, {<<"gone", p>>})
<1> DEFINE x == <<"gone", p>>
<1>1. x \in OpType BY DEF OpType
<1>2. Rank(j, x) = n OBVIOUS
<1>3. Delete(p) = <<x>> BY DEF Delete
<1> HIDE DEF x
<1> QED BY <1>1, <1>2, <1>3, OneOp DEF x

LEMMA DoOp == ASSUME NEW j, NEW op, <<op, "">> \in OpType, NEW n \in Nat, Rank(j, <<op, "">>) = n
              PROVE  Consists(j, Do(op), n, n, {<<op, "">>})
<1> DEFINE x == <<op, "">>
<1>1. x \in OpType OBVIOUS
<1>2. Rank(j, x) = n OBVIOUS
<1>3. Do(op) = <<x>> BY DEF Do
<1> HIDE DEF x
<1> QED BY <1>1, <1>2, <1>3, OneOp DEF x

LEMMA ReplaceOps == ASSUME NEW j, NEW p \in Part, NEW n \in Nat, NEW m \in Nat, m = n + 1,
                           Rank(j, <<"out", p>>) = n, Rank(j, <<"in", p>>) = m
                    PROVE  Consists(j, Replace(p), n, m, {<<"out", p>>, <<"in", p>>})
<1> DEFINE x == <<"out", p>>
           z == <<"in", p>>
<1>1. x \in OpType /\ z \in OpType BY DEF OpType
<1>2. Rank(j, x) = n /\ Rank(j, z) = m OBVIOUS
<1>3. Replace(p) = <<x, z>> BY DEF Replace
<1> HIDE DEF x, z
<1>4. <<x, z>> \in Seq(OpType) /\ Len(<<x, z>>) = 2 /\ <<x, z>>[1] = x /\ <<x, z>>[2] = z BY <1>1
<1>5. Consists(j, <<x, z>>, n, m, {x, z}) BY <1>2, <1>4 DEF Consists, Plan, Within, Has
<1> QED BY <1>3, <1>5 DEF x, z

LEMMA Widen == ASSUME NEW j, NEW s, NEW low \in Nat, NEW high \in Nat, NEW lower \in Nat, NEW higher \in Nat,
                      NEW ops, lower <= low, high <= higher, Consists(j, s, low, high, ops)
               PROVE  Consists(j, s, lower, higher, ops)
<1>1. \A i \in 1 .. Len(s) : Rank(j, s[i]) \in lower .. higher BY DEF Consists, Plan, Within
<1> QED BY <1>1 DEF Consists, Plan, Within

(* What is left when the first operation was done. *)
Rests(j, s) == /\ Plan(j, Tail(s), 1, 14) /\ Head(s) \in OpType
               /\ Rank(j, Head(s)) \in 1 .. 14
               /\ \A x \in OpType : Has(s, x) <=> x = Head(s) \/ Has(Tail(s), x)
               /\ \A x \in OpType : Has(Tail(s), x) => Rank(j, Head(s)) < Rank(j, x) /\ Rank(j, x) \in 1 .. 14

LEMMA HeadAndTail == ASSUME NEW j, NEW s, Plan(j, s, 1, 14), s # <<>>
                     PROVE  Rests(j, s)
<1> DEFINE r(x) == Rank(j, x)
           t == Tail(s)
<1>1. s \in Seq(OpType) BY DEF Plan
<1>2. Len(s) \in Nat \ {0} /\ Head(s) = s[1] /\ Head(s) \in OpType BY <1>1
<1>3. t \in Seq(OpType) /\ Len(t) = Len(s) - 1 /\ \A i \in 1 .. Len(t) : t[i] = s[i + 1] BY <1>1
<1>4. /\ \A i \in 1 .. Len(s) : r(s[i]) \in 1 .. 14
      /\ \A i \in 1 .. Len(s) : \A k \in i + 1 .. Len(s) : r(s[i]) < r(s[k])
    BY DEF Plan, Within
<1> HIDE DEF r, t
<1>5. /\ \A i \in 1 .. Len(t) : r(t[i]) \in 1 .. 14
      /\ \A i \in 1 .. Len(t) : r(s[1]) < r(t[i])
      /\ \A i \in 1 .. Len(t) : \A k \in i + 1 .. Len(t) : r(t[i]) < r(t[k])
  <2>1. ASSUME NEW i \in 1 .. Len(t) PROVE i + 1 \in 1 + 1 .. Len(s) /\ i + 1 \in 1 .. Len(s) /\ t[i] = s[i + 1]
      BY <1>2, <1>3
  <2>2. ASSUME NEW i \in 1 .. Len(t), NEW k \in i + 1 .. Len(t)
        PROVE  k \in 1 .. Len(t) /\ k + 1 \in (i + 1) + 1 .. Len(s)
      BY <1>2, <1>3
  <2>3. 1 \in 1 .. Len(s) BY <1>2
  <2>4. ASSUME NEW i \in 1 .. Len(t), NEW k \in i + 1 .. Len(t) PROVE r(t[i]) < r(t[k])
    <3> DEFINE u == i + 1
               v == k + 1
    <3>1. u \in 1 .. Len(s) /\ v \in u + 1 .. Len(s) /\ t[i] = s[u] /\ t[k] = s[v] BY <2>1, <2>2
    <3> HIDE DEF u, v
    <3> QED BY <3>1, <1>4
  <2>5. ASSUME NEW i \in 1 .. Len(t) PROVE r(t[i]) \in 1 .. 14 /\ r(s[1]) < r(t[i])
    <3> DEFINE u == i + 1
    <3>1. u \in 1 .. Len(s) /\ u \in 1 + 1 .. Len(s) /\ t[i] = s[u] BY <2>1
    <3> HIDE DEF u
    <3> QED BY <3>1, <2>3, <1>4
  <2> QED BY <2>4, <2>5
<1>6. ASSUME NEW x PROVE Has(s, x) <=> x = Head(s) \/ Has(t, x)
  <2>1. ASSUME NEW i \in 1 .. Len(s), s[i] = x PROVE x = Head(s) \/ Has(t, x)
    <3>1. CASE i = 1 BY <3>1, <2>1, <1>2
    <3>2. CASE i # 1
      <4>1. i - 1 \in 1 .. Len(t) /\ t[i - 1] = x BY <3>2, <2>1, <1>2, <1>3
      <4> QED BY <4>1 DEF Has
    <3> QED BY <3>1, <3>2
  <2>2. ASSUME NEW i \in 1 .. Len(t), t[i] = x PROVE Has(s, x)
    <3>1. i + 1 \in 1 .. Len(s) /\ s[i + 1] = x BY <2>2, <1>2, <1>3
    <3> QED BY <3>1 DEF Has
  <2>3. Has(s, Head(s)) BY <1>2 DEF Has
  <2> QED BY <2>1, <2>2, <2>3 DEF Has
<1>7. \A x \in OpType : Has(t, x) => r(Head(s)) < r(x) /\ r(x) \in 1 .. 14
    BY <1>2, <1>5 DEF Has
<1>8. Plan(j, t, 1, 14) BY <1>3, <1>5 DEF Plan, Within, r
<1>9. r(Head(s)) \in 1 .. 14 BY <1>2, <1>4
<1> QED BY <1>2, <1>6, <1>7, <1>8, <1>9 DEF Rests, r, t

(* The four plans: what they consist of.                                   *)
UpdateOps(j, with) ==
    (IF j.action = "install" THEN {<<"out", "bin">>, <<"in", "bin">>} ELSE {})
    \cup (IF j.scope = "relay" THEN {<<"out", "client">>, <<"in", "client">>} ELSE {})
    \cup (IF with THEN {<<"out", "plugin">>, <<"in", "plugin">>, <<"pluginAdd", "">>} ELSE {})
    \cup {<<"put", "command">>, <<"put", "ctl">>, <<"sharedLook", "">>, <<"sharedLink", "">>, <<"config", "">>,
          <<"unit", "">>, <<"gone", "raw">>}

RelayctlUpdateOps(j) ==
    (IF j.action = "install" THEN {<<"out", "raw">>, <<"in", "raw">>, <<"put", "ctl">>, <<"gone", "bin">>} ELSE {})
    \cup {<<"out", "client">>, <<"in", "client">>, <<"config", "">>, <<"unit", "">>}

RemovalOps(j, plugged) ==
    (IF plugged THEN {<<"pluginRemove", "">>, <<"gone", "plugin">>} ELSE {})
    \cup IF j.action = "unplug" THEN {<<"configUnplugged", "">>}
         ELSE {<<"autoOff", "">>, <<"unitGone", "">>, <<"awayLook", "">>, <<"awayLink", "">>,
               <<"gone", "command">>, <<"gone", "ctl">>, <<"gone", "bin">>, <<"gone", "client">>, <<"configEmpty", "">>}

RelayctlRemovalOps(installed) ==
    (IF installed THEN {<<"autoOff", "">>} ELSE {})
    \cup {<<"unitGone", "">>, <<"gone", "ctl">>, <<"gone", "client">>, <<"gone", "raw">>, <<"gone", "bin">>,
          <<"configEmpty", "">>}

LEMMA UpdatePlan == ASSUME NEW j \in JobType, Installs(j), j.tool = "drdsh", NEW with \in BOOLEAN
                    PROVE  Consists(j, DrdshUpdate(j, with), 1, 14, UpdateOps(j, with))
<1> DEFINE a1 == If(j.action = "install", Replace("bin"))
           a2 == If(j.scope = "relay", Replace("client"))
           a3 == If(with, Replace("plugin"))
           a4 == Put("command")
           a5 == Put("ctl")
           a6 == Do("sharedLook")
           a7 == Do("sharedLink")
           a8 == Do("config")
           a9 == If(with, Do("pluginAdd"))
           a10 == Do("unit")
           a11 == Delete("raw")
           o1 == IF j.action = "install" THEN {<<"out", "bin">>, <<"in", "bin">>} ELSE {}
           o2 == IF j.scope = "relay" THEN {<<"out", "client">>, <<"in", "client">>} ELSE {}
           o3 == IF with THEN {<<"out", "plugin">>, <<"in", "plugin">>} ELSE {}
           o4 == {<<"put", "command">>}
           o5 == {<<"put", "ctl">>}
           o6 == {<<"sharedLook", "">>}
           o7 == {<<"sharedLink", "">>}
           o8 == {<<"config", "">>}
           o9 == IF with THEN {<<"pluginAdd", "">>} ELSE {}
           o10 == {<<"unit", "">>}
           o11 == {<<"gone", "raw">>}
           p2 == a1 \o a2
           q2 == o1 \cup o2
           p3 == p2 \o a3
           q3 == q2 \cup o3
           p4 == p3 \o a4
           q4 == q3 \cup o4
           p5 == p4 \o a5
           q5 == q4 \cup o5
           p6 == p5 \o a6
           q6 == q5 \cup o6
           p7 == p6 \o a7
           q7 == q6 \cup o7
           p8 == p7 \o a8
           q8 == q7 \cup o8
           p9 == p8 \o a9
           q9 == q8 \cup o9
           p10 == p9 \o a10
           q10 == q9 \cup o10
           p11 == p10 \o a11
           q11 == q10 \cup o11
<1>1. Consists(j, a1, 1, 2, o1)
  <2>1. j.action = "install" => Rank(j, <<"out", "bin">>) = 1 /\ Rank(j, <<"in", "bin">>) = 2 BY DEF Rank, UpdateRank, Installs, Removes
  <2>2. "bin" \in Part BY DEF Part
  <2>3. j.action = "install" => Consists(j, Replace("bin"), 1, 2, {<<"out", "bin">>, <<"in", "bin">>})
      BY <2>1, <2>2, ReplaceOps
  <2> QED BY <2>3, OnlyIf
<1>2. Consists(j, a2, 3, 4, o2)
  <2>1. Rank(j, <<"out", "client">>) = 3 /\ Rank(j, <<"in", "client">>) = 4 BY DEF Rank, UpdateRank, Installs, Removes
  <2>2. "client" \in Part BY DEF Part
  <2>3. j.scope = "relay" => Consists(j, Replace("client"), 3, 4, {<<"out", "client">>, <<"in", "client">>})
      BY <2>1, <2>2, ReplaceOps
  <2> QED BY <2>3, OnlyIf
<1>3. Consists(j, a3, 5, 6, o3)
  <2>1. Rank(j, <<"out", "plugin">>) = 5 /\ Rank(j, <<"in", "plugin">>) = 6 BY DEF Rank, UpdateRank, Installs, Removes
  <2>2. "plugin" \in Part BY DEF Part
  <2>3. with => Consists(j, Replace("plugin"), 5, 6, {<<"out", "plugin">>, <<"in", "plugin">>})
      BY <2>1, <2>2, ReplaceOps
  <2> QED BY <2>3, OnlyIf
<1>4. Consists(j, a4, 7, 7, o4)
  <2>1. Rank(j, <<"put", "command">>) = 7 BY DEF Rank, UpdateRank, Installs, Removes
  <2>2. "command" \in Part BY DEF Part
  <2> QED BY <2>1, <2>2, PutOp
<1>5. Consists(j, a5, 8, 8, o5)
  <2>1. Rank(j, <<"put", "ctl">>) = 8 BY DEF Rank, UpdateRank, Installs, Removes
  <2>2. "ctl" \in Part BY DEF Part
  <2> QED BY <2>1, <2>2, PutOp
<1>6. Consists(j, a6, 9, 9, o6)
  <2>1. Rank(j, <<"sharedLook", "">>) = 9 BY DEF Rank, UpdateRank, Installs, Removes
  <2>2. <<"sharedLook", "">> \in OpType BY DEF OpType
  <2> QED BY <2>1, <2>2, DoOp
<1>7. Consists(j, a7, 10, 10, o7)
  <2>1. Rank(j, <<"sharedLink", "">>) = 10 BY DEF Rank, UpdateRank, Installs, Removes
  <2>2. <<"sharedLink", "">> \in OpType BY DEF OpType
  <2> QED BY <2>1, <2>2, DoOp
<1>8. Consists(j, a8, 11, 11, o8)
  <2>1. Rank(j, <<"config", "">>) = 11 BY DEF Rank, UpdateRank, Installs, Removes
  <2>2. <<"config", "">> \in OpType BY DEF OpType
  <2> QED BY <2>1, <2>2, DoOp
<1>9. Consists(j, a9, 12, 12, o9)
  <2>1. Rank(j, <<"pluginAdd", "">>) = 12 BY DEF Rank, UpdateRank, Installs, Removes
  <2>2. <<"pluginAdd", "">> \in OpType BY DEF OpType
  <2>3. with => Consists(j, Do("pluginAdd"), 12, 12, {<<"pluginAdd", "">>})
      BY <2>1, <2>2, DoOp
  <2> QED BY <2>3, OnlyIf
<1>10. Consists(j, a10, 13, 13, o10)
  <2>1. Rank(j, <<"unit", "">>) = 13 BY DEF Rank, UpdateRank, Installs, Removes
  <2>2. <<"unit", "">> \in OpType BY DEF OpType
  <2> QED BY <2>1, <2>2, DoOp
<1>11. Consists(j, a11, 14, 14, o11)
  <2>1. Rank(j, <<"gone", "raw">>) = 14 BY DEF Rank, UpdateRank, Installs, Removes
  <2>2. "raw" \in Part BY DEF Part
  <2> QED BY <2>1, <2>2, DeleteOp
<1> HIDE DEF a1, o1, a2, o2, a3, o3, a4, o4, a5, o5, a6, o6, a7, o7, a8, o8, a9, o9, a10, o10, a11, o11
<1>p2. Consists(j, p2, 1, 4, q2) BY <1>1, <1>2, Concat
<1> HIDE DEF p2, q2
<1>p3. Consists(j, p3, 1, 6, q3) BY <1>p2, <1>3, Concat
<1> HIDE DEF p3, q3
<1>p4. Consists(j, p4, 1, 7, q4) BY <1>p3, <1>4, Concat
<1> HIDE DEF p4, q4
<1>p5. Consists(j, p5, 1, 8, q5) BY <1>p4, <1>5, Concat
<1> HIDE DEF p5, q5
<1>p6. Consists(j, p6, 1, 9, q6) BY <1>p5, <1>6, Concat
<1> HIDE DEF p6, q6
<1>p7. Consists(j, p7, 1, 10, q7) BY <1>p6, <1>7, Concat
<1> HIDE DEF p7, q7
<1>p8. Consists(j, p8, 1, 11, q8) BY <1>p7, <1>8, Concat
<1> HIDE DEF p8, q8
<1>p9. Consists(j, p9, 1, 12, q9) BY <1>p8, <1>9, Concat
<1> HIDE DEF p9, q9
<1>p10. Consists(j, p10, 1, 13, q10) BY <1>p9, <1>10, Concat
<1> HIDE DEF p10, q10
<1>p11. Consists(j, p11, 1, 14, q11) BY <1>p10, <1>11, Concat
<1> HIDE DEF p11, q11
<1>a. p11 = DrdshUpdate(j, with) BY DEF DrdshUpdate, a1, a2, a3, a4, a5, a6, a7, a8, a9, a10, a11, p2, p3, p4, p5, p6, p7, p8, p9, p10, p11
<1>b. q11 = UpdateOps(j, with) BY DEF UpdateOps, o1, o2, o3, o4, o5, o6, o7, o8, o9, o10, o11, q2, q3, q4, q5, q6, q7, q8, q9, q10, q11
<1> QED BY <1>a, <1>b, <1>p11

LEMMA RelayctlPrograms == ASSUME NEW j \in JobType, j.action = "install", j.tool = "relayctl"
                          PROVE  Consists(j, Replace("raw") \o Put("ctl") \o Delete("bin"), 1, 4,
                                          {<<"out", "raw">>, <<"in", "raw">>, <<"put", "ctl">>, <<"gone", "bin">>})
<1> DEFINE a1 == Replace("raw")
           a2 == Put("ctl")
           a3 == Delete("bin")
           o1 == {<<"out", "raw">>, <<"in", "raw">>}
           o2 == {<<"put", "ctl">>}
           o3 == {<<"gone", "bin">>}
           p2 == a1 \o a2
           q2 == o1 \cup o2
           p3 == p2 \o a3
           q3 == q2 \cup o3
<1>1. Consists(j, a1, 1, 2, o1)
  <2>1. Rank(j, <<"out", "raw">>) = 1 /\ Rank(j, <<"in", "raw">>) = 2 BY DEF Rank, RelayctlUpdateRank, Installs, Removes
  <2>2. "raw" \in Part BY DEF Part
  <2> QED BY <2>1, <2>2, ReplaceOps
<1>2. Consists(j, a2, 3, 3, o2)
  <2>1. Rank(j, <<"put", "ctl">>) = 3 BY DEF Rank, RelayctlUpdateRank, Installs, Removes
  <2>2. "ctl" \in Part BY DEF Part
  <2> QED BY <2>1, <2>2, PutOp
<1>3. Consists(j, a3, 4, 4, o3)
  <2>1. Rank(j, <<"gone", "bin">>) = 4 BY DEF Rank, RelayctlUpdateRank, Installs, Removes
  <2>2. "bin" \in Part BY DEF Part
  <2> QED BY <2>1, <2>2, DeleteOp
<1> HIDE DEF a1, o1, a2, o2, a3, o3
<1>p2. Consists(j, p2, 1, 3, q2) BY <1>1, <1>2, Concat
<1> HIDE DEF p2, q2
<1>p3. Consists(j, p3, 1, 4, q3) BY <1>p2, <1>3, Concat
<1> HIDE DEF p3, q3
<1>a. p3 = Replace("raw") \o Put("ctl") \o Delete("bin") BY DEF a1, a2, a3, p2, p3
<1>b. q3 = {<<"out", "raw">>, <<"in", "raw">>, <<"put", "ctl">>, <<"gone", "bin">>} BY DEF o1, o2, o3, q2, q3
<1> QED BY <1>a, <1>b, <1>p3

LEMMA RelayctlUpdatePlan == ASSUME NEW j \in JobType, Installs(j), j.tool = "relayctl"
                            PROVE  Consists(j, RelayctlUpdate(j), 1, 14, RelayctlUpdateOps(j))
<1> DEFINE a1 == If(j.action = "install", Replace("raw") \o Put("ctl") \o Delete("bin"))
           a2 == Replace("client")
           a3 == Do("config")
           a4 == Do("unit")
           o1 == IF j.action = "install" THEN {<<"out", "raw">>, <<"in", "raw">>, <<"put", "ctl">>, <<"gone", "bin">>} ELSE {}
           o2 == {<<"out", "client">>, <<"in", "client">>}
           o3 == {<<"config", "">>}
           o4 == {<<"unit", "">>}
           p2 == a1 \o a2
           q2 == o1 \cup o2
           p3 == p2 \o a3
           q3 == q2 \cup o3
           p4 == p3 \o a4
           q4 == q3 \cup o4
<1>1. Consists(j, a1, 1, 4, o1) BY RelayctlPrograms, OnlyIf
<1>2. Consists(j, a2, 5, 6, o2)
  <2>1. Rank(j, <<"out", "client">>) = 5 /\ Rank(j, <<"in", "client">>) = 6 BY DEF Rank, RelayctlUpdateRank, Installs, Removes
  <2>2. "client" \in Part BY DEF Part
  <2> QED BY <2>1, <2>2, ReplaceOps
<1>3. Consists(j, a3, 7, 7, o3)
  <2>1. Rank(j, <<"config", "">>) = 7 BY DEF Rank, RelayctlUpdateRank, Installs, Removes
  <2>2. <<"config", "">> \in OpType BY DEF OpType
  <2> QED BY <2>1, <2>2, DoOp
<1>4. Consists(j, a4, 8, 8, o4)
  <2>1. Rank(j, <<"unit", "">>) = 8 BY DEF Rank, RelayctlUpdateRank, Installs, Removes
  <2>2. <<"unit", "">> \in OpType BY DEF OpType
  <2> QED BY <2>1, <2>2, DoOp
<1> HIDE DEF a1, o1, a2, o2, a3, o3, a4, o4
<1>p2. Consists(j, p2, 1, 6, q2) BY <1>1, <1>2, Concat
<1> HIDE DEF p2, q2
<1>p3. Consists(j, p3, 1, 7, q3) BY <1>p2, <1>3, Concat
<1> HIDE DEF p3, q3
<1>p4. Consists(j, p4, 1, 8, q4) BY <1>p3, <1>4, Concat
<1> HIDE DEF p4, q4
<1>a. p4 = RelayctlUpdate(j) BY DEF RelayctlUpdate, a1, a2, a3, a4, p2, p3, p4
<1>b. q4 = RelayctlUpdateOps(j) BY DEF RelayctlUpdateOps, o1, o2, o3, o4, q2, q3, q4
<1> QED BY <1>a, <1>b, <1>p4, Widen

LEMMA PluginRemoval == ASSUME NEW j \in JobType, Removes(j), j.tool = "drdsh"
                       PROVE  Consists(j, Do("pluginRemove") \o Delete("plugin"), 1, 2, {<<"pluginRemove", "">>, <<"gone", "plugin">>})
<1> DEFINE a1 == Do("pluginRemove")
           a2 == Delete("plugin")
           o1 == {<<"pluginRemove", "">>}
           o2 == {<<"gone", "plugin">>}
           p2 == a1 \o a2
           q2 == o1 \cup o2
<1>1. Consists(j, a1, 1, 1, o1)
  <2>1. Rank(j, <<"pluginRemove", "">>) = 1 BY DEF Rank, RemovalRank, Installs, Removes
  <2>2. <<"pluginRemove", "">> \in OpType BY DEF OpType
  <2> QED BY <2>1, <2>2, DoOp
<1>2. Consists(j, a2, 2, 2, o2)
  <2>1. Rank(j, <<"gone", "plugin">>) = 2 BY DEF Rank, RemovalRank, Installs, Removes
  <2>2. "plugin" \in Part BY DEF Part
  <2> QED BY <2>1, <2>2, DeleteOp
<1> HIDE DEF a1, o1, a2, o2
<1>p2. Consists(j, p2, 1, 2, q2) BY <1>1, <1>2, Concat
<1> HIDE DEF p2, q2
<1>a. p2 = Do("pluginRemove") \o Delete("plugin") BY DEF a1, a2, p2
<1>b. q2 = {<<"pluginRemove", "">>, <<"gone", "plugin">>} BY DEF o1, o2, q2
<1> QED BY <1>a, <1>b, <1>p2

LEMMA RemovalOfAll ==
    ASSUME NEW j \in JobType, j.action = "uninstall", j.tool = "drdsh"
    PROVE  Consists(j, Do("autoOff") \o Do("unitGone") \o Do("awayLook") \o Do("awayLink")
                            \o Delete("command") \o Delete("ctl") \o Delete("bin") \o Delete("client") \o Do("configEmpty"), 4, 12,
                    {<<"autoOff", "">>, <<"unitGone", "">>, <<"awayLook", "">>, <<"awayLink", "">>,
                             <<"gone", "command">>, <<"gone", "ctl">>, <<"gone", "bin">>, <<"gone", "client">>, <<"configEmpty", "">>})
<1> DEFINE a1 == Do("autoOff")
           a2 == Do("unitGone")
           a3 == Do("awayLook")
           a4 == Do("awayLink")
           a5 == Delete("command")
           a6 == Delete("ctl")
           a7 == Delete("bin")
           a8 == Delete("client")
           a9 == Do("configEmpty")
           o1 == {<<"autoOff", "">>}
           o2 == {<<"unitGone", "">>}
           o3 == {<<"awayLook", "">>}
           o4 == {<<"awayLink", "">>}
           o5 == {<<"gone", "command">>}
           o6 == {<<"gone", "ctl">>}
           o7 == {<<"gone", "bin">>}
           o8 == {<<"gone", "client">>}
           o9 == {<<"configEmpty", "">>}
           p2 == a1 \o a2
           q2 == o1 \cup o2
           p3 == p2 \o a3
           q3 == q2 \cup o3
           p4 == p3 \o a4
           q4 == q3 \cup o4
           p5 == p4 \o a5
           q5 == q4 \cup o5
           p6 == p5 \o a6
           q6 == q5 \cup o6
           p7 == p6 \o a7
           q7 == q6 \cup o7
           p8 == p7 \o a8
           q8 == q7 \cup o8
           p9 == p8 \o a9
           q9 == q8 \cup o9
<1>1. Consists(j, a1, 4, 4, o1)
  <2>1. Rank(j, <<"autoOff", "">>) = 4 BY DEF Rank, RemovalRank, Installs, Removes
  <2>2. <<"autoOff", "">> \in OpType BY DEF OpType
  <2> QED BY <2>1, <2>2, DoOp
<1>2. Consists(j, a2, 5, 5, o2)
  <2>1. Rank(j, <<"unitGone", "">>) = 5 BY DEF Rank, RemovalRank, Installs, Removes
  <2>2. <<"unitGone", "">> \in OpType BY DEF OpType
  <2> QED BY <2>1, <2>2, DoOp
<1>3. Consists(j, a3, 6, 6, o3)
  <2>1. Rank(j, <<"awayLook", "">>) = 6 BY DEF Rank, RemovalRank, Installs, Removes
  <2>2. <<"awayLook", "">> \in OpType BY DEF OpType
  <2> QED BY <2>1, <2>2, DoOp
<1>4. Consists(j, a4, 7, 7, o4)
  <2>1. Rank(j, <<"awayLink", "">>) = 7 BY DEF Rank, RemovalRank, Installs, Removes
  <2>2. <<"awayLink", "">> \in OpType BY DEF OpType
  <2> QED BY <2>1, <2>2, DoOp
<1>5. Consists(j, a5, 8, 8, o5)
  <2>1. Rank(j, <<"gone", "command">>) = 8 BY DEF Rank, RemovalRank, Installs, Removes
  <2>2. "command" \in Part BY DEF Part
  <2> QED BY <2>1, <2>2, DeleteOp
<1>6. Consists(j, a6, 9, 9, o6)
  <2>1. Rank(j, <<"gone", "ctl">>) = 9 BY DEF Rank, RemovalRank, Installs, Removes
  <2>2. "ctl" \in Part BY DEF Part
  <2> QED BY <2>1, <2>2, DeleteOp
<1>7. Consists(j, a7, 10, 10, o7)
  <2>1. Rank(j, <<"gone", "bin">>) = 10 BY DEF Rank, RemovalRank, Installs, Removes
  <2>2. "bin" \in Part BY DEF Part
  <2> QED BY <2>1, <2>2, DeleteOp
<1>8. Consists(j, a8, 11, 11, o8)
  <2>1. Rank(j, <<"gone", "client">>) = 11 BY DEF Rank, RemovalRank, Installs, Removes
  <2>2. "client" \in Part BY DEF Part
  <2> QED BY <2>1, <2>2, DeleteOp
<1>9. Consists(j, a9, 12, 12, o9)
  <2>1. Rank(j, <<"configEmpty", "">>) = 12 BY DEF Rank, RemovalRank, Installs, Removes
  <2>2. <<"configEmpty", "">> \in OpType BY DEF OpType
  <2> QED BY <2>1, <2>2, DoOp
<1> HIDE DEF a1, o1, a2, o2, a3, o3, a4, o4, a5, o5, a6, o6, a7, o7, a8, o8, a9, o9
<1>p2. Consists(j, p2, 4, 5, q2) BY <1>1, <1>2, Concat
<1> HIDE DEF p2, q2
<1>p3. Consists(j, p3, 4, 6, q3) BY <1>p2, <1>3, Concat
<1> HIDE DEF p3, q3
<1>p4. Consists(j, p4, 4, 7, q4) BY <1>p3, <1>4, Concat
<1> HIDE DEF p4, q4
<1>p5. Consists(j, p5, 4, 8, q5) BY <1>p4, <1>5, Concat
<1> HIDE DEF p5, q5
<1>p6. Consists(j, p6, 4, 9, q6) BY <1>p5, <1>6, Concat
<1> HIDE DEF p6, q6
<1>p7. Consists(j, p7, 4, 10, q7) BY <1>p6, <1>7, Concat
<1> HIDE DEF p7, q7
<1>p8. Consists(j, p8, 4, 11, q8) BY <1>p7, <1>8, Concat
<1> HIDE DEF p8, q8
<1>p9. Consists(j, p9, 4, 12, q9) BY <1>p8, <1>9, Concat
<1> HIDE DEF p9, q9
<1>a. p9 = Do("autoOff") \o Do("unitGone") \o Do("awayLook") \o Do("awayLink") \o Delete("command") \o Delete("ctl") \o Delete("bin") \o Delete("client") \o Do("configEmpty") BY DEF a1, a2, a3, a4, a5, a6, a7, a8, a9, p2, p3, p4, p5, p6, p7, p8, p9
<1>b. q9 = {<<"autoOff", "">>, <<"unitGone", "">>, <<"awayLook", "">>, <<"awayLink", "">>, <<"gone", "command">>, <<"gone", "ctl">>, <<"gone", "bin">>, <<"gone", "client">>, <<"configEmpty", "">>} BY DEF o1, o2, o3, o4, o5, o6, o7, o8, o9, q2, q3, q4, q5, q6, q7, q8, q9
<1> QED BY <1>a, <1>b, <1>p9

LEMMA RemovalPlan == ASSUME NEW j \in JobType, Removes(j), j.tool = "drdsh", NEW plugged \in BOOLEAN
                     PROVE  Consists(j, DrdshRemoval(j, plugged), 1, 14, RemovalOps(j, plugged))
<1> DEFINE a == If(plugged, Do("pluginRemove") \o Delete("plugin"))
           o == IF plugged THEN {<<"pluginRemove", "">>, <<"gone", "plugin">>} ELSE {}
<1>1. Consists(j, a, 1, 2, o) BY PluginRemoval, OnlyIf
<1> HIDE DEF a, o
<1>2. CASE j.action = "unplug"
  <2>1. Rank(j, <<"configUnplugged", "">>) = 3 BY <1>2 DEF Rank, RemovalRank, Installs, Removes
  <2>2. <<"configUnplugged", "">> \in OpType BY DEF OpType
  <2> DEFINE b == Do("configUnplugged")
             r == {<<"configUnplugged", "">>}
  <2>3. Consists(j, b, 3, 3, r) BY <2>1, <2>2, DoOp
  <2>4. DrdshRemoval(j, plugged) = a \o b BY <1>2 DEF DrdshRemoval, a
  <2>5. RemovalOps(j, plugged) = o \cup r BY <1>2 DEF RemovalOps, o
  <2> HIDE DEF b, r
  <2>6. Consists(j, a \o b, 1, 3, o \cup r) BY <1>1, <2>3, Concat
  <2>7. Consists(j, a \o b, 1, 14, o \cup r) BY <2>6, Widen
  <2> QED BY <2>4, <2>5, <2>7
<1>3. CASE j.action # "unplug"
  <2> DEFINE b == Do("autoOff") \o Do("unitGone") \o Do("awayLook") \o Do("awayLink")
                 \o Delete("command") \o Delete("ctl") \o Delete("bin") \o Delete("client") \o Do("configEmpty")
             r == {<<"autoOff", "">>, <<"unitGone", "">>, <<"awayLook", "">>, <<"awayLink", "">>,
                  <<"gone", "command">>, <<"gone", "ctl">>, <<"gone", "bin">>, <<"gone", "client">>, <<"configEmpty", "">>}
  <2>1. j.action = "uninstall" BY <1>3 DEF Removes
  <2>2. Consists(j, b, 4, 12, r) BY <2>1, RemovalOfAll
  <2>3. DrdshRemoval(j, plugged) = a \o b BY <1>3 DEF DrdshRemoval, a
  <2>4. RemovalOps(j, plugged) = o \cup r BY <1>3 DEF RemovalOps, o
  <2> HIDE DEF b, r
  <2>5. Consists(j, a \o b, 1, 12, o \cup r) BY <1>1, <2>2, Concat
  <2>6. Consists(j, a \o b, 1, 14, o \cup r) BY <2>5, Widen
  <2> QED BY <2>3, <2>4, <2>6
<1> QED BY <1>2, <1>3

LEMMA RelayctlRemovalPlan ==
    ASSUME NEW j \in JobType, Removes(j), j.tool = "relayctl", NEW installed \in BOOLEAN
    PROVE  Consists(j, RelayctlRemoval(installed), 1, 14, RelayctlRemovalOps(installed))
<1> DEFINE a1 == If(installed, Do("autoOff"))
           a2 == Do("unitGone")
           a3 == Delete("ctl")
           a4 == Delete("client")
           a5 == Delete("raw")
           a6 == Delete("bin")
           a7 == Do("configEmpty")
           o1 == IF installed THEN {<<"autoOff", "">>} ELSE {}
           o2 == {<<"unitGone", "">>}
           o3 == {<<"gone", "ctl">>}
           o4 == {<<"gone", "client">>}
           o5 == {<<"gone", "raw">>}
           o6 == {<<"gone", "bin">>}
           o7 == {<<"configEmpty", "">>}
           p2 == a1 \o a2
           q2 == o1 \cup o2
           p3 == p2 \o a3
           q3 == q2 \cup o3
           p4 == p3 \o a4
           q4 == q3 \cup o4
           p5 == p4 \o a5
           q5 == q4 \cup o5
           p6 == p5 \o a6
           q6 == q5 \cup o6
           p7 == p6 \o a7
           q7 == q6 \cup o7
<1>1. Consists(j, a1, 1, 1, o1)
  <2>1. Rank(j, <<"autoOff", "">>) = 1 BY DEF Rank, RelayctlRemovalRank, Installs, Removes
  <2>2. <<"autoOff", "">> \in OpType BY DEF OpType
  <2>3. installed => Consists(j, Do("autoOff"), 1, 1, {<<"autoOff", "">>})
      BY <2>1, <2>2, DoOp
  <2> QED BY <2>3, OnlyIf
<1>2. Consists(j, a2, 2, 2, o2)
  <2>1. Rank(j, <<"unitGone", "">>) = 2 BY DEF Rank, RelayctlRemovalRank, Installs, Removes
  <2>2. <<"unitGone", "">> \in OpType BY DEF OpType
  <2> QED BY <2>1, <2>2, DoOp
<1>3. Consists(j, a3, 3, 3, o3)
  <2>1. Rank(j, <<"gone", "ctl">>) = 3 BY DEF Rank, RelayctlRemovalRank, Installs, Removes
  <2>2. "ctl" \in Part BY DEF Part
  <2> QED BY <2>1, <2>2, DeleteOp
<1>4. Consists(j, a4, 4, 4, o4)
  <2>1. Rank(j, <<"gone", "client">>) = 4 BY DEF Rank, RelayctlRemovalRank, Installs, Removes
  <2>2. "client" \in Part BY DEF Part
  <2> QED BY <2>1, <2>2, DeleteOp
<1>5. Consists(j, a5, 5, 5, o5)
  <2>1. Rank(j, <<"gone", "raw">>) = 5 BY DEF Rank, RelayctlRemovalRank, Installs, Removes
  <2>2. "raw" \in Part BY DEF Part
  <2> QED BY <2>1, <2>2, DeleteOp
<1>6. Consists(j, a6, 6, 6, o6)
  <2>1. Rank(j, <<"gone", "bin">>) = 6 BY DEF Rank, RelayctlRemovalRank, Installs, Removes
  <2>2. "bin" \in Part BY DEF Part
  <2> QED BY <2>1, <2>2, DeleteOp
<1>7. Consists(j, a7, 7, 7, o7)
  <2>1. Rank(j, <<"configEmpty", "">>) = 7 BY DEF Rank, RelayctlRemovalRank, Installs, Removes
  <2>2. <<"configEmpty", "">> \in OpType BY DEF OpType
  <2> QED BY <2>1, <2>2, DoOp
<1> HIDE DEF a1, o1, a2, o2, a3, o3, a4, o4, a5, o5, a6, o6, a7, o7
<1>p2. Consists(j, p2, 1, 2, q2) BY <1>1, <1>2, Concat
<1> HIDE DEF p2, q2
<1>p3. Consists(j, p3, 1, 3, q3) BY <1>p2, <1>3, Concat
<1> HIDE DEF p3, q3
<1>p4. Consists(j, p4, 1, 4, q4) BY <1>p3, <1>4, Concat
<1> HIDE DEF p4, q4
<1>p5. Consists(j, p5, 1, 5, q5) BY <1>p4, <1>5, Concat
<1> HIDE DEF p5, q5
<1>p6. Consists(j, p6, 1, 6, q6) BY <1>p5, <1>6, Concat
<1> HIDE DEF p6, q6
<1>p7. Consists(j, p7, 1, 7, q7) BY <1>p6, <1>7, Concat
<1> HIDE DEF p7, q7
<1>a. p7 = RelayctlRemoval(installed) BY DEF RelayctlRemoval, a1, a2, a3, a4, a5, a6, a7, p2, p3, p4, p5, p6, p7
<1>b. q7 = RelayctlRemovalOps(installed) BY DEF RelayctlRemovalOps, o1, o2, o3, o4, o5, o6, o7, q2, q3, q4, q5, q6, q7
<1> QED BY <1>a, <1>b, <1>p7, Widen

(* The plan of a job, where things are as they are.                        *)
WorkOps(j) == LET s == j.scope IN
    CASE Installs(j) /\ j.tool = "drdsh"    -> UpdateOps(j, s = "daemon" /\ (j.plugin \/ Plugged(s)))
      [] Installs(j) /\ j.tool = "relayctl" -> RelayctlUpdateOps(j)
      [] Removes(j) /\ j.tool = "drdsh"     -> RemovalOps(j, Plugged(s))
      [] Removes(j) /\ j.tool = "relayctl"  -> RelayctlRemovalOps(Installed(s))
      [] OTHER                              -> {}

LEMMA WorkPlan == ASSUME NEW j \in JobType PROVE Consists(j, Work(j), 1, 14, WorkOps(j))
<1>0. ~(Installs(j) /\ Removes(j)) /\ j.tool \in {"drdsh", "relayctl"} BY DEF JobType, Installs, Removes
<1> DEFINE with == j.scope = "daemon" /\ (j.plugin \/ Plugged(j.scope))
<1>1. CASE Installs(j) /\ j.tool = "drdsh"
  <2>1. Work(j) = DrdshUpdate(j, with) /\ WorkOps(j) = UpdateOps(j, with) BY <1>0, <1>1 DEF Work, WorkOps
  <2>2. with \in BOOLEAN BY DEF Plugged, JobType
  <2> HIDE DEF with
  <2> QED BY <1>1, <2>1, <2>2, UpdatePlan
<1>2. CASE Installs(j) /\ j.tool = "relayctl"
  <2>1. Work(j) = RelayctlUpdate(j) /\ WorkOps(j) = RelayctlUpdateOps(j) BY <1>0, <1>2 DEF Work, WorkOps
  <2> QED BY <1>2, <2>1, RelayctlUpdatePlan
<1>3. CASE Removes(j) /\ j.tool = "drdsh"
  <2>1. Work(j) = DrdshRemoval(j, Plugged(j.scope)) /\ WorkOps(j) = RemovalOps(j, Plugged(j.scope))
      BY <1>0, <1>3 DEF Work, WorkOps
  <2>2. Plugged(j.scope) \in BOOLEAN BY DEF Plugged
  <2> QED BY <1>3, <2>1, <2>2, RemovalPlan
<1>4. CASE Removes(j) /\ j.tool = "relayctl"
  <2>1. Work(j) = RelayctlRemoval(Installed(j.scope)) /\ WorkOps(j) = RelayctlRemovalOps(Installed(j.scope))
      BY <1>0, <1>4 DEF Work, WorkOps
  <2>2. Installed(j.scope) \in BOOLEAN BY DEF Installed
  <2> QED BY <1>4, <2>1, <2>2, RelayctlRemovalPlan
<1>5. CASE ~Installs(j) /\ ~Removes(j)
  <2>1. Work(j) = <<>> /\ WorkOps(j) = {} BY <1>5 DEF Work, WorkOps
  <2> QED BY <2>1, EmptyPlan
<1> QED BY <1>0, <1>1, <1>2, <1>3, <1>4, <1>5

(* The operations there are. *)
LEMMA Operations == ASSUME NEW x \in OpType
                    PROVE  /\ x = <<x[1], x[2]>>
                           /\ x[1] \in {"out", "in", "put", "gone"} => x[2] \in Part
                           /\ x[1] \notin {"out", "in", "put", "gone"} => x[2] = ""
                           /\ x[1] # "none"
<1> DEFINE A == {"out", "in", "put", "gone"}
           B == {"sharedLook", "sharedLink", "config", "pluginAdd", "unit", "pluginRemove",
                 "configUnplugged", "autoOff", "unitGone", "awayLook", "awayLink", "configEmpty"}
<1>1. x \in A \X Part \/ x \in B \X {""} BY Zenon DEF OpType
<1>2. \A a \in B : a \notin A /\ a # "none" OBVIOUS
<1>3. \A a \in A : a # "none" OBVIOUS
<1> HIDE DEF A, B
<1> DEFINE E == {""}
<1> HIDE DEF E
<1>4. ASSUME NEW X, NEW Y, x \in X \X Y PROVE x[1] \in X /\ x[2] \in Y BY <1>4
<1>5. ASSUME NEW X, NEW Y, x \in X \X Y PROVE x = <<x[1], x[2]>> BY <1>5
<1>6. x \in A \X Part \/ x \in B \X E BY <1>1 DEF E
<1>7. (x[1] \in A /\ x[2] \in Part) \/ (x[1] \in B /\ x[2] \in E) BY <1>4, <1>6, Zenon
<1>8. x = <<x[1], x[2]>> BY <1>5, <1>6, Zenon
<1>9. /\ x[1] \in {"out", "in", "put", "gone"} => x[2] \in Part
      /\ x[1] \notin {"out", "in", "put", "gone"} => x[2] = ""
      /\ x[1] # "none"
    BY <1>2, <1>3, <1>7, Zenon DEF A, E
<1> QED BY <1>8, <1>9

(* The orders that matter. *)
LEMMA Orders == ASSUME NEW j \in JobType
                PROVE  /\ \A p \in Part : Rank(j, <<"out", p>>) \in 1 .. 14 => Rank(j, <<"in", p>>) = Rank(j, <<"out", p>>) + 1
                       /\ Removes(j) => /\ ~(Rank(j, <<"configEmpty", "">>) < Rank(j, <<"autoOff", "">>))
                                        /\ ~(Rank(j, <<"unitGone", "">>) < Rank(j, <<"autoOff", "">>))
<1>0. ~(Installs(j) /\ Removes(j)) BY DEF Installs, Removes
<1>1. CASE Installs(j) /\ j.tool = "drdsh" BY <1>0, <1>1 DEF Rank, UpdateRank, Part
<1>2. CASE Installs(j) /\ j.tool = "relayctl" BY <1>0, <1>2 DEF Rank, RelayctlUpdateRank, Part
<1>3. CASE Removes(j) /\ j.tool = "drdsh" BY <1>0, <1>3 DEF Rank, RemovalRank, Part
<1>4. CASE Removes(j) /\ j.tool = "relayctl" BY <1>0, <1>4 DEF Rank, RelayctlRemovalRank, Part
<1>5. CASE ~Installs(j) /\ ~Removes(j) BY <1>5 DEF Rank
<1> QED BY <1>1, <1>2, <1>3, <1>4, <1>5 DEF JobType

-----------------------------------------------------------------------------
(* Types. *)
LEMMA Jobs == \A j \in Job : /\ j \in JobType
                             /\ j.tool = "relayctl" => j.scope = "relay" /\ j.action # "unplug"
BY InstallAssumption DEF InstallAssumption, JobType, Scope

LEMMA Scopes == ASSUME InstallTypeOK, NEW c \in Cmd
                PROVE  S(c) \in Scope /\ cmd[c].job \in JobType /\ cmd[c] \in Command
BY DEF InstallTypeOK, Command, JobType, S

(* The operation at hand is the first of what is left. *)
First(c, x) == cmd[c].todo # <<>> /\ x = Head(cmd[c].todo) /\ x = Op(c) /\ x \in OpType

LEMMA AtHand == ASSUME InstallTypeOK, NEW c \in Cmd, Op(c)[1] # "none"
                PROVE  First(c, Op(c))
<1>1. cmd[c].todo # <<>>
  <2>1. ASSUME cmd[c].todo = <<>> PROVE FALSE
    <3>1. Op(c) = <<"none", "">> BY <2>1, Zenon DEF Op
    <3> DEFINE x == <<"none", "">>
    <3>2. x[1] = "none" OBVIOUS
    <3> HIDE DEF x
    <3> QED BY <3>1, <3>2, Zenon DEF x
  <2> QED BY <2>1
<1>2. cmd[c].todo \in Seq(OpType) BY DEF InstallTypeOK, Command
<1>3. Op(c) = Head(cmd[c].todo) BY <1>1 DEF Op
<1>4. Head(cmd[c].todo) \in OpType BY <1>1, <1>2
<1> QED BY <1>1, <1>3, <1>4 DEF First

(* What an operation does to its own command, and leaves alone.            *)
Advances(c) ==
    /\ cmd[c].pc = "working" /\ First(c, Op(c))
    /\ cmd'[c].pc = "working" /\ cmd'[c].job = cmd[c].job /\ cmd'[c].was = cmd[c].was
    /\ cmd'[c].todo = Tail(cmd[c].todo)
    /\ \A d \in Cmd : d # c => cmd'[d] = cmd[d]
    /\ \A s \in Scope : s # S(c) => /\ file'[s] = file[s] /\ comps'[s] = comps[s]
                                    /\ unit'[s] = unit[s] /\ auto'[s] = auto[s]
    /\ lock' = lock /\ svc' = svc /\ intact' = intact

LEMMA OperationStep == ASSUME InstallTypeOK, NEW c \in Cmd, Operation(c)
                       PROVE  InstallTypeOK' /\ Advances(c)
<1>0. S(c) \in Scope /\ cmd[c] \in Command BY Scopes
<1>1. cmd[c].pc = "working" /\ Op(c)[1] # "none"
    BY DEF Operation, MoveOut, MoveIn, Gone, LookShared, AwayShared, LinkShared, SaveConfig, SetService,
           Working, At
<1>2. First(c, Op(c)) BY <1>1, AtHand
<1>3. Tail(cmd[c].todo) \in Seq(OpType) BY <1>0, <1>2 DEF First, Command
<1>4. /\ Op(c)[1] \in {"out", "in", "put", "gone"} => Op(c)[2] \in Part
    BY <1>2, Operations DEF First
<1> DEFINE Own == /\ cmd' \in [Cmd -> Command]
                  /\ cmd'[c].pc = "working" /\ cmd'[c].job = cmd[c].job /\ cmd'[c].was = cmd[c].was
                  /\ cmd'[c].todo = Tail(cmd[c].todo)
                  /\ \A d \in Cmd : d # c => cmd'[d] = cmd[d]
<1>d. ASSUME Done(c) PROVE Own
    BY <1>d, <1>0, <1>1, <1>3 DEF Done, Command, InstallTypeOK
<1>5. CASE MoveOut(c)
  <2>1. Op(c)[2] \in Part BY <1>5, <1>4 DEF MoveOut, Working
  <2>2. file[S(c)][Op(c)[2]] \in Cmd \cup {Absent} BY <2>1, <1>0 DEF InstallTypeOK
  <2>3. Own BY <1>5, <2>2, <1>0, <1>1, <1>3 DEF MoveOut, Command, InstallTypeOK
  <2>4. file' \in [Scope -> [Part -> Cmd \cup {Absent}]] /\ \A s \in Scope : s # S(c) => file'[s] = file[s]
      BY <1>5, <2>1, <1>0 DEF MoveOut, InstallTypeOK
  <2> QED BY <1>5, <1>1, <1>2, <2>3, <2>4 DEF MoveOut, Rest, InstallTypeOK, Advances
<1>6. CASE MoveIn(c)
  <2>1. Op(c)[2] \in Part BY <1>6, <1>4 DEF MoveIn, Working
  <2>3. Own BY <1>6, <1>0, <1>1, <1>3 DEF MoveIn, Command, InstallTypeOK
  <2>4. file' \in [Scope -> [Part -> Cmd \cup {Absent}]] /\ \A s \in Scope : s # S(c) => file'[s] = file[s]
      BY <1>6, <2>1, <1>0 DEF MoveIn, InstallTypeOK
  <2> QED BY <1>6, <1>1, <1>2, <2>3, <2>4 DEF MoveIn, Rest, InstallTypeOK, Advances
<1>7. CASE Gone(c)
  <2>1. Op(c)[2] \in Part BY <1>7, <1>4 DEF Gone, Working
  <2>3. Own BY <1>7, <1>d DEF Gone
  <2>4. file' \in [Scope -> [Part -> Cmd \cup {Absent}]] /\ \A s \in Scope : s # S(c) => file'[s] = file[s]
      BY <1>7, <2>1, <1>0 DEF Gone, InstallTypeOK
  <2> QED BY <1>7, <1>1, <1>2, <2>3, <2>4 DEF Gone, Rest, InstallTypeOK, Advances
<1>8. CASE LookShared(c)
  <2>3. Own BY <1>8, <1>0, <1>1, <1>3 DEF LookShared, Command, InstallTypeOK
  <2> QED BY <1>8, <1>1, <1>2, <2>3 DEF LookShared, Rest, tree, InstallTypeOK, Advances
<1>9. CASE AwayShared(c)
  <2> DEFINE other == CHOOSE s \in Scope : s # S(c)
  <2>1. other \in Scope BY <1>0 DEF Scope
  <2>3. Own BY <1>9, <2>1, <1>0, <1>1, <1>3 DEF AwayShared, Command, InstallTypeOK
  <2> QED BY <1>9, <1>1, <1>2, <2>3 DEF AwayShared, Rest, tree, InstallTypeOK, Advances
<1>10. CASE LinkShared(c)
  <2>3. Own BY <1>10, <1>0, <1>1, <1>3 DEF LinkShared, Command, InstallTypeOK
  <2>4. shared' \in Scope \cup {"none"} BY <1>10, <1>0 DEF LinkShared, InstallTypeOK, Command
  <2> QED BY <1>10, <1>1, <1>2, <2>3, <2>4 DEF LinkShared, Rest, InstallTypeOK, Advances
<1>11. CASE SaveConfig(c)
  <2>3. Own BY <1>11, <1>d DEF SaveConfig
  <2>4. comps' \in [Scope -> SUBSET {"saved", "plugin", "relay", "daemon"}] /\ \A s \in Scope : s # S(c) => comps'[s] = comps[s]
      BY <1>11, <1>0 DEF SaveConfig, InstallTypeOK, Scope
  <2> QED BY <1>11, <1>1, <1>2, <2>3, <2>4 DEF SaveConfig, Rest, InstallTypeOK, Advances
<1>12. CASE SetService(c)
  <2>3. Own BY <1>12, <1>d DEF SetService
  <2>4. /\ unit' \in [Scope -> {"none", "bin", "raw"}] /\ \A s \in Scope : s # S(c) => unit'[s] = unit[s]
        /\ auto' \in [Scope -> BOOLEAN] /\ \A s \in Scope : s # S(c) => auto'[s] = auto[s]
      BY <1>12, <1>0 DEF SetService, InstallTypeOK, Program
  <2> QED BY <1>12, <1>1, <1>2, <2>3, <2>4 DEF SetService, Rest, InstallTypeOK, Advances
<1> QED BY <1>5, <1>6, <1>7, <1>8, <1>9, <1>10, <1>11, <1>12 DEF Operation

-----------------------------------------------------------------------------
(* A step of the command c, in the scope s, leaves other commands and the  *)
(* other scope alone.                                                      *)
Only(c, s) ==
    /\ \A d \in Cmd : d # c => cmd'[d] = cmd[d]
    /\ \A r \in Scope : r # s => /\ file'[r] = file[r] /\ comps'[r] = comps[r]
                                 /\ unit'[r] = unit[r] /\ auto'[r] = auto[r]
                                 /\ svc'[r] = svc[r] /\ lock'[r] = lock[r] /\ intact'[r] = intact[r]

(* Nothing about an unplanned or finished command depends on the others;   *)
(* one at work is alone in its scope.                                      *)
LEMMA KeepsCommand ==
    ASSUME InstallTypeOK, NEW d \in Cmd, CommandInv(d), cmd'[d] = cmd[d],
           Active(d) => /\ file'[S(d)] = file[S(d)] /\ comps'[S(d)] = comps[S(d)]
                        /\ unit'[S(d)] = unit[S(d)] /\ auto'[S(d)] = auto[S(d)]
                        /\ svc[S(d)] = "stopped" => svc'[S(d)] = "stopped"
    PROVE  CommandInv(d)'
<1>1. S(d)' = S(d) /\ S(d) \in Scope BY Scopes DEF S
<1>2. Placed(d)' BY <1>1 DEF CommandInv, Placed, Active, Installed, Changes, Installs, Removes, S
<1>3. ASSUME Underway(d)' PROVE Plans(d)'
  <2>1. Underway(d) /\ Active(d) /\ Plans(d) BY <1>3 DEF CommandInv, Underway, Active
  <2>2. Planned(d)' BY <2>1 DEF Plans, Planned, Changes, Installs, Removes
  <2>5. MovedIn(d)' BY <1>1, <2>1 DEF Plans, MovedIn, Todo, Op
  <2>3. Installs(cmd[d].job) => Brings(d, S(d), cmd[d].job)'
      BY <1>1, <2>1 DEF Plans, Brings, Todo, Installed, Program, S
  <2>4. cmd[d].job.action = "uninstall" => TakesAway(d, S(d), cmd[d].job)'
      BY <1>1, <2>1 DEF Plans, TakesAway, Todo, Installed, Program, S
  <2> QED BY <1>1, <2>2, <2>3, <2>4, <2>5 DEF Plans, Installs
<1> QED BY <1>2, <1>3 DEF CommandInv

LEMMA KeepsScope ==
    ASSUME InstallInv, NEW c \in Cmd, NEW s \in Scope, Only(c, s), NEW r \in Scope, r # s,
           cmd'[c].job.scope = s, cmd[c].pc = "idle" \/ S(c) = s
    PROVE  ScopeInv(r)'
<1>1. ScopeInv(r) BY DEF InstallInv
<1>2. ASSUME intact[r] \in Cmd PROVE intact[r] # c
    BY <1>1, <1>2 DEF ScopeInv
<1>3. (~Installed(r) => svc[r] = "stopped" /\ ~auto[r])'
    BY <1>1 DEF ScopeInv, Installed, Only
<1>4. ASSUME intact'[r] \in Cmd
      PROVE  /\ cmd'[intact'[r]] = cmd[intact[r]] /\ intact'[r] = intact[r]
             /\ S(intact[r]) = r /\ cmd[intact[r]].pc # "idle"
    BY <1>1, <1>2, <1>4 DEF Only, ScopeInv
<1>5. ASSUME intact'[r] \in Cmd, NEW d \in Cmd, (Underway(d) /\ S(d) = r)' PROVE ~Changes(cmd'[d].job)
  <2>1. d # c BY <1>5 DEF S
  <2>2. Underway(d) /\ S(d) = r /\ cmd'[d] = cmd[d] BY <2>1, <1>5 DEF Only, Underway, S
  <2> QED BY <2>2, <1>1, <1>4, <1>5 DEF ScopeInv
<1>6. ASSUME intact'[r] \in Cmd PROVE Whole(r, intact[r], cmd[intact[r]].job)'
  <2>1. Whole(r, intact[r], cmd[intact[r]].job) BY <1>1, <1>4, <1>6 DEF ScopeInv
  <2> DEFINE e == intact[r]
             j == cmd[e].job
  <2>2. file'[r] = file[r] /\ comps'[r] = comps[r] /\ unit'[r] = unit[r] /\ auto'[r] = auto[r] /\ svc'[r] = svc[r]
      BY DEF Only
  <2>3. intact'[r] = e /\ cmd'[e].job = j BY <1>4, <1>6
  <2> QED BY <2>1, <2>2, <2>3 DEF Whole, Installed
<1> QED BY <1>3, <1>4, <1>5, <1>6 DEF ScopeInv, S

LEMMA Concludes ==
    ASSUME InstallInv, InstallTypeOK', NEW c \in Cmd, NEW s \in Scope, Only(c, s),
           cmd'[c].job.scope = s, cmd[c].pc = "idle" \/ S(c) = s,
           \A d \in Cmd : d # c /\ Active(d) => S(d) # s,
           Active(c)' => lock'[s] = c, CommandInv(c)', ScopeInv(s)'
    PROVE  InstallInv'
<1>1. ASSUME NEW d \in Cmd, d # c PROVE CommandInv(d)' /\ (Active(d)' => lock'[S(d)'] = d)
  <2>1. cmd'[d] = cmd[d] /\ InstallTypeOK /\ CommandInv(d) BY <1>1 DEF Only, InstallInv
  <2>2. S(d) \in Scope BY <2>1, Scopes
  <2>3. Active(d) => S(d) # s BY <1>1
  <2>4. CommandInv(d)' BY <2>1, <2>2, <2>3, KeepsCommand DEF Only
  <2>5. Active(d)' => lock'[S(d)'] = d BY <2>1, <2>2, <2>3 DEF Active, InstallInv, Exclusive, Only, S
  <2> QED BY <2>4, <2>5
<1>2. Exclusive' BY <1>1 DEF Exclusive, S
<1>3. \A d \in Cmd : CommandInv(d)' BY <1>1
<1>4. \A r \in Scope : ScopeInv(r)' BY KeepsScope
<1> QED BY <1>2, <1>3, <1>4 DEF InstallInv

LEMMA Alone == ASSUME InstallInv, NEW c \in Cmd, Active(c)
               PROVE  /\ lock[S(c)] = c /\ \A d \in Cmd : d # c /\ Active(d) => S(d) # S(c)
                      /\ S(c) \in Scope /\ cmd[c] \in Command /\ cmd[c].job \in JobType
                      /\ CommandInv(c) /\ ScopeInv(S(c)) /\ InstallTypeOK
BY Scopes DEF InstallInv, Exclusive

(* A step that brings no file and takes none.                              *)
LEMMA SameScope ==
    ASSUME InstallInv, NEW c \in Cmd, Active(c), Only(c, S(c)), intact' = intact,
           cmd'[c].job = cmd[c].job, cmd'[c].pc # "idle",
           file'[S(c)] = file[S(c)], comps'[S(c)] = comps[S(c)],
           \/ Installed(S(c))
           \/ /\ unit'[S(c)] = unit[S(c)] /\ auto'[S(c)] = auto[S(c)]
              /\ svc'[S(c)] \in {svc[S(c)], "stopped"},
           Underway(c)' => Underway(c) \/ ~Changes(cmd[c].job)
    PROVE  ScopeInv(S(c))'
<1> DEFINE s == S(c)
<1>0. s \in Scope /\ ScopeInv(s) BY Alone
<1>1. S(c)' = s BY DEF S
<1>2. (~Installed(s) => svc[s] = "stopped" /\ ~auto[s])'
    BY <1>0, <1>1 DEF ScopeInv, Installed
<1>3. ASSUME intact[s] \in Cmd
      PROVE  /\ cmd'[intact[s]].job = cmd[intact[s]].job /\ cmd'[intact[s]].pc # "idle" /\ S(intact[s]) = s
    BY <1>0, <1>3 DEF ScopeInv, Only
<1>4. ASSUME intact[s] \in Cmd, NEW d \in Cmd, (Underway(d))', cmd'[d].job.scope = s PROVE ~Changes(cmd'[d].job)
  <2>1. CASE d = c BY <2>1, <1>0, <1>4 DEF ScopeInv, S
  <2>2. CASE d # c
    <3>1. cmd'[d] = cmd[d] BY <2>2 DEF Only
    <3> QED BY <3>1, <1>0, <1>4 DEF ScopeInv, S, Underway
  <2> QED BY <2>1, <2>2
<1>5. ASSUME intact[s] \in Cmd PROVE Whole(s, intact[s], cmd[intact[s]].job)'
  <2> DEFINE e == intact[s]
             j == cmd[e].job
  <2>1. Whole(s, e, j) BY <1>0, <1>5 DEF ScopeInv
  <2>2. intact'[s] = e /\ cmd'[e].job = j BY <1>3, <1>5
  <2>3. Whole(s, e, j)' <=> Whole(s, intact[s], cmd[intact[s]].job)' BY <2>2 DEF Whole, Installed
  <2> HIDE DEF e, j
  <2> QED BY <2>1, <2>2, <1>0, <1>1 DEF Whole, Installed, ScopeInv
<1> QED BY <1>1, <1>2, <1>3, <1>4, <1>5 DEF ScopeInv, S

(* What is left of a plan is the same as before. *)
LEMMA SamePlan ==
    ASSUME InstallInv, NEW c \in Cmd, Underway(c), cmd'[c].job = cmd[c].job, cmd'[c].todo = cmd[c].todo,
           file' = file, comps' = comps, unit' = unit, auto' = auto
    PROVE  Plans(c)'
<1>1. Plans(c) BY DEF InstallInv, CommandInv
<1>2. S(c)' = S(c) BY DEF S
<1>3. Planned(c)' /\ MovedIn(c)' BY <1>1, <1>2 DEF Plans, Planned, MovedIn, Todo, Op
<1>4. Installs(cmd[c].job) => Brings(c, S(c), cmd[c].job)'
    BY <1>1, <1>2 DEF Plans, Brings, Todo, Installed, Program, S
<1>5. cmd[c].job.action = "uninstall" => TakesAway(c, S(c), cmd[c].job)'
    BY <1>1, <1>2 DEF Plans, TakesAway, Todo, Installed, Program, S
<1> QED BY <1>2, <1>3, <1>4, <1>5 DEF Plans

LEMMA BeginInv == ASSUME InstallInv, NEW c \in Cmd, NEW j \in Job, Begin(c, j) PROVE InstallInv'
<1> DEFINE s == j.scope
<1>0. j \in JobType /\ (j.tool = "relayctl" => j.scope = "relay" /\ j.action # "unplug") BY Jobs
<1>1. s \in Scope BY <1>0 DEF JobType
<1>2. InstallTypeOK /\ cmd[c] \in Command /\ cmd[c].pc = "idle" /\ cmd[c] = Nothing
    BY Scopes DEF InstallInv, Begin, At, CommandInv, Placed
<1>3. /\ cmd' \in [Cmd -> Command] /\ cmd'[c].pc = "checking" /\ cmd'[c].job = j /\ ~cmd'[c].was
      /\ \A d \in Cmd : d # c => cmd'[d] = cmd[d]
  <2>1. cmd' = [cmd EXCEPT ![c] = [cmd[c] EXCEPT !.pc = "checking", !.job = j]]
      BY <1>2 DEF Begin, InstallTypeOK
  <2>2. [cmd[c] EXCEPT !.pc = "checking", !.job = j] \in Command BY <1>0, <1>2 DEF Command, Pc
  <2>3. cmd \in [Cmd -> Command] /\ ~cmd[c].was BY <1>2 DEF InstallTypeOK, Nothing
  <2> QED BY <2>1, <2>2, <2>3, <1>2 DEF Command
<1>4. InstallTypeOK' BY <1>1, <1>2, <1>3 DEF Begin, InstallTypeOK, tree
<1>5. Only(c, s) BY <1>1, <1>2, <1>3 DEF Only, Begin, tree, InstallTypeOK
<1>6. \A d \in Cmd : d # c /\ Active(d) => S(d) # s BY <1>2 DEF InstallInv, Exclusive, Begin, Nobody, Cmd
<1>7. lock'[s] = c BY <1>1, <1>2 DEF Begin, InstallTypeOK
<1>8. CommandInv(c)' BY <1>0, <1>3 DEF CommandInv, Placed, Underway, Active
<1>9. ScopeInv(s)'
  <2>1. ScopeInv(s) BY <1>1 DEF InstallInv
  <2>2. UNCHANGED <<file, comps, unit, auto, svc, intact>> BY DEF Begin, tree
  <2>3. (~Installed(s) => svc[s] = "stopped" /\ ~auto[s])' BY <2>1, <2>2 DEF ScopeInv, Installed
  <2>4. ASSUME intact[s] \in Cmd
        PROVE  /\ cmd'[intact[s]] = cmd[intact[s]]
               /\ S(intact[s]) = s /\ cmd[intact[s]].pc # "idle"
      BY <2>1, <2>4, <1>2, <1>3 DEF ScopeInv
  <2>5. ASSUME intact[s] \in Cmd, NEW d \in Cmd, Underway(d)', cmd'[d].job.scope = s PROVE ~Changes(cmd'[d].job)
    <3>1. d # c BY <1>3, <2>5 DEF Underway
    <3>2. cmd'[d] = cmd[d] BY <3>1, <1>3
    <3> QED BY <3>2, <2>1, <2>5 DEF ScopeInv, S, Underway
  <2>6. ASSUME intact[s] \in Cmd PROVE Whole(s, intact[s], cmd[intact[s]].job)'
    <3>1. Whole(s, intact[s], cmd[intact[s]].job) BY <2>1, <2>6 DEF ScopeInv
    <3> QED BY <3>1, <2>2, <2>4, <2>6 DEF Whole, Installed
  <2> QED BY <2>2, <2>3, <2>4, <2>5, <2>6 DEF ScopeInv, S
<1> HIDE DEF s
<1> QED BY <1>1, <1>2, <1>3, <1>4, <1>5, <1>6, <1>7, <1>8, <1>9, Concludes DEF s

(* A command that ends: what is left is to be empty, and it does nothing.  *)
LEMMA LeavesOwn ==
    ASSUME InstallInv, NEW c \in Cmd, Active(c), Leaves(c)
    PROVE  /\ cmd' \in [Cmd -> Command] /\ lock' \in [Scope -> Cmd \cup {Nobody}]
           /\ cmd'[c].pc = "ended" /\ cmd'[c].job = cmd[c].job /\ cmd'[c].was = cmd[c].was
           /\ cmd'[c].backup = cmd[c].backup
           /\ \A d \in Cmd : d # c => cmd'[d] = cmd[d]
           /\ \A r \in Scope : r # S(c) => lock'[r] = lock[r]
<1>1. cmd \in [Cmd -> Command] /\ cmd[c] \in Command /\ lock \in [Scope -> Cmd \cup {Nobody}] /\ S(c) \in Scope
    BY Alone DEF InstallTypeOK
<1>2. <<>> \in Seq(OpType) OBVIOUS
<1>3. [cmd[c] EXCEPT !.pc = "ended", !.todo = <<>>] \in Command BY <1>1, <1>2 DEF Command, Pc
<1> QED BY <1>1, <1>3 DEF Leaves, Command

LEMMA LeavesCommand ==
    ASSUME InstallInv, NEW c \in Cmd, cmd'[c].pc \in {"ended", "killed"}, cmd'[c].job = cmd[c].job,
           cmd'[c].was = cmd[c].was
    PROVE  CommandInv(c)' /\ ~Active(c)' /\ ~Underway(c)'
<1>1. Placed(c) BY DEF InstallInv, CommandInv
<1> QED BY <1>1 DEF CommandInv, Placed, Underway, Active

(* Everything a job is to achieve is in its plan. *)
Complete(j, ops) ==
    /\ \A q \in Part : <<"out", q>> \in ops <=> <<"in", q>> \in ops
    /\ Installs(j) =>
         /\ <<"config", "">> \in ops
         /\ j.scope = "relay" => <<"in", "client">> \in ops
         /\ j.tool = "drdsh" => \A p \in CommandsOf(j.tool) : <<"put", p>> \in ops
         /\ j.scope = "daemon" /\ j.plugin => <<"in", "plugin">> \in ops /\ <<"pluginAdd", "">> \in ops
    /\ j.action = "install" =>
         /\ <<"in", Program(j.tool)>> \in ops /\ <<"put", "ctl">> \in ops
         /\ \A q \in {"bin", "raw"} \ {Program(j.tool)} : <<"gone", q>> \in ops
    /\ j.action = "uninstall" =>
         /\ \A q \in {Program(j.tool), "client"} \cup CommandsOf(j.tool) : <<"gone", q>> \in ops
         /\ <<"configEmpty", "">> \in ops /\ <<"unitGone", "">> \in ops
         /\ Installed(j.scope) => <<"autoOff", "">> \in ops

LEMMA WorkIsComplete == ASSUME NEW j \in JobType, j.tool = "relayctl" => j.scope = "relay" /\ j.action # "unplug"
                        PROVE  Complete(j, WorkOps(j))
<1>0. ~(Installs(j) /\ Removes(j)) /\ j.tool \in {"drdsh", "relayctl"} BY DEF JobType, Installs, Removes
<1> DEFINE with == j.scope = "daemon" /\ (j.plugin \/ Plugged(j.scope))
<1>1. CASE Installs(j) /\ j.tool = "drdsh"
  <2>1. WorkOps(j) = UpdateOps(j, with) BY <1>0, <1>1 DEF WorkOps
  <2>2. j.action # "uninstall" /\ (j.scope = "daemon" /\ j.plugin => with) BY <1>1 DEF Installs
  <2> HIDE DEF with
  <2> QED BY <1>1, <2>1, <2>2 DEF UpdateOps, Complete, Part, Program, CommandsOf
<1>2. CASE Installs(j) /\ j.tool = "relayctl"
  <2>1. WorkOps(j) = RelayctlUpdateOps(j) BY <1>0, <1>2 DEF WorkOps
  <2>2. j.action # "uninstall" /\ j.scope = "relay" BY <1>2 DEF Installs
  <2> QED BY <1>2, <2>1, <2>2 DEF RelayctlUpdateOps, Complete, Part, Program, CommandsOf
<1>3. CASE Removes(j) /\ j.tool = "drdsh"
  <2>1. WorkOps(j) = RemovalOps(j, Plugged(j.scope)) BY <1>0, <1>3 DEF WorkOps
  <2>2. j.action # "install" /\ ~Installs(j) BY <1>0, <1>3 DEF Removes
  <2> QED BY <1>3, <2>1, <2>2 DEF RemovalOps, Complete, Part, Program, CommandsOf
<1>4. CASE Removes(j) /\ j.tool = "relayctl"
  <2>1. WorkOps(j) = RelayctlRemovalOps(Installed(j.scope)) BY <1>0, <1>4 DEF WorkOps
  <2>2. j.action # "install" /\ ~Installs(j) BY <1>0, <1>4 DEF Removes
  <2> QED BY <1>4, <2>1, <2>2 DEF RelayctlRemovalOps, Complete, Part, Program, CommandsOf
<1>5. CASE ~Installs(j) /\ ~Removes(j)
  <2>1. WorkOps(j) = {} /\ j.action \notin {"install", "uninstall"} BY <1>5 DEF WorkOps, Installs, Removes
  <2> QED BY <1>5, <2>1 DEF Complete
<1> QED BY <1>0, <1>1, <1>2, <1>3, <1>4, <1>5

LEMMA CheckInv == ASSUME InstallInv, NEW c \in Cmd, Check(c) PROVE InstallInv'
<1> DEFINE s == S(c)
           j == cmd[c].job
<1>0. Active(c) /\ cmd[c].pc = "checking" BY DEF Check, At, Active
<1>1. /\ lock[s] = c /\ (\A d \in Cmd : d # c /\ Active(d) => S(d) # s)
      /\ s \in Scope /\ cmd[c] \in Command /\ j \in JobType /\ Placed(c) /\ ScopeInv(s) /\ InstallTypeOK
    BY <1>0, Alone DEF CommandInv
<1>2. Consists(j, Work(j), 1, 14, WorkOps(j)) BY <1>1, WorkPlan
<1>3. Work(j) \in Seq(OpType) BY <1>2 DEF Consists, Plan
<1>4. /\ cmd' \in [Cmd -> Command] /\ cmd'[c].pc = "reading" /\ cmd'[c].job = j /\ cmd'[c].was = cmd[c].was
      /\ cmd'[c].todo = Work(j) /\ \A d \in Cmd : d # c => cmd'[d] = cmd[d]
  <2>1. cmd' = [cmd EXCEPT ![c] = [cmd[c] EXCEPT !.pc = "reading", !.todo = Work(j)]]
      BY <1>1 DEF Check, InstallTypeOK
  <2>2. [cmd[c] EXCEPT !.pc = "reading", !.todo = Work(j)] \in Command BY <1>1, <1>3 DEF Command, Pc
  <2> HIDE DEF j
  <2> QED BY <2>1, <2>2, <1>1 DEF Command, InstallTypeOK, j
<1>5. UNCHANGED <<lock, file, comps, unit, auto, shared, svc, apart>> BY DEF Check, tree
<1>6. intact' = [intact EXCEPT ![s] = IF Changes(j) THEN Nobody ELSE @] BY DEF Check, Changes
<1>7. InstallTypeOK' BY <1>1, <1>4, <1>5, <1>6 DEF InstallTypeOK
<1>8. Only(c, s) BY <1>1, <1>4, <1>5, <1>6 DEF Only, InstallTypeOK
<1>9. Plans(c)'
  <2> DEFINE w == Work(j)
  <2>1. Planned(c)'
    <3>1. Within(j, w, 1, 14) BY <1>2 DEF Consists, Plan
    <3>2. ~Changes(j) => w = <<>> BY DEF Work, Changes
    <3> QED BY <3>1, <3>2, <1>4 DEF Planned
  <2>2. \A x \in OpType : Has(w, x) <=> x \in WorkOps(j) BY <1>2 DEF Consists
  <2>3. Complete(j, WorkOps(j)) BY <1>1, WorkIsComplete DEF Placed
  <2>o. /\ \A q \in Part, a \in {"out", "in", "put", "gone"} : <<a, q>> \in OpType
        /\ \A a \in {"config", "pluginAdd", "configEmpty", "unitGone", "autoOff"} : <<a, "">> \in OpType
      BY DEF OpType
  <2> DEFINE W == WorkOps(j)
  <2>c. Complete(j, W) /\ \A x \in OpType : Has(w, x) <=> x \in W BY <2>2, <2>3
  <2>d. cmd'[c].todo = w /\ cmd'[c].job = j /\ j.scope = s BY <1>4 DEF S
  <2> HIDE DEF w, W
  <2>e. PICK k, z : k = j /\ z = s /\ k.scope = z BY <2>d
  <2>f. Program(k.tool) \in Part BY DEF Program, Part
  <2>g. ~Installed(z) => ~auto[z] BY <1>1, <2>e DEF ScopeInv
  <2>i. CommandsOf(k.tool) \subseteq Part /\ {"client", "plugin", "ctl", "bin", "raw"} \subseteq Part
      BY DEF CommandsOf, Part
  <2>h. Complete(k, W) /\ cmd'[c].todo = w /\ comps' = comps /\ auto' = auto BY <2>c, <2>d, <2>e, <1>5
  <2> HIDE DEF s, j
  <2>j. \A x \in OpType : x \in W => Todo(c, x)' BY <2>c, <2>h DEF Todo
  <2>4. MovedIn(c)' BY <2>c, <2>h, <2>o DEF MovedIn, Todo, Complete
  <2>5. Installs(k) => Brings(c, z, k)'
    <3>1. ASSUME Installs(k)
          PROVE  /\ Todo(c, <<"config", "">>)'
                 /\ z = "relay" => Todo(c, <<"in", "client">>)'
                 /\ z = "daemon" /\ k.plugin => Todo(c, <<"in", "plugin">>)' /\ Todo(c, <<"pluginAdd", "">>)'
        BY <3>1, <2>e, <2>h, <2>i, <2>j, <2>o DEF Complete
    <3>2. Installs(k) /\ k.tool = "drdsh" => \A p \in CommandsOf(k.tool) : Todo(c, <<"put", p>>)'
        BY <2>h, <2>i, <2>j, <2>o DEF Complete
    <3>3. k.action = "install" => /\ Todo(c, <<"in", Program(k.tool)>>)' /\ Todo(c, <<"put", "ctl">>)'
                                  /\ \A p \in {"bin", "raw"} \ {Program(k.tool)} : Todo(c, <<"gone", p>>)'
        BY <2>f, <2>h, <2>i, <2>j, <2>o DEF Complete
    <3> QED BY <3>1, <3>2, <3>3 DEF Brings
  <2>6. k.action = "uninstall" => TakesAway(c, z, k)'
    <3> SUFFICES ASSUME k.action = "uninstall" PROVE TakesAway(c, z, k)' OBVIOUS
    <3>1. /\ \A p \in {Program(k.tool), "client"} \cup CommandsOf(k.tool) : Todo(c, <<"gone", p>>)'
          /\ Todo(c, <<"configEmpty", "">>)' /\ Todo(c, <<"unitGone", "">>)'
          /\ Installed(z) => Todo(c, <<"autoOff", "">>)'
        BY <2>e, <2>f, <2>h, <2>i, <2>j, <2>o DEF Complete
    <3>2. ~auto'[z] \/ Todo(c, <<"autoOff", "">>)' BY <3>1, <2>g, <2>h
    <3> QED BY <3>1, <3>2 DEF TakesAway
  <2>7. cmd'[c].job = k /\ S(c)' = z BY <2>d, <2>e DEF S
  <2> QED BY <2>1, <2>4, <2>5, <2>6, <2>7 DEF Plans
<1>10. CommandInv(c)'
  <2>1. j.action \notin {"install", "uninstall", "unplug"} => Installed(s)
      BY DEF Check, Allowed, Removes, S, Installs
  <2>2. Placed(c)' BY <2>1, <1>0, <1>1, <1>4, <1>5 DEF Placed, Active, Installed, S
  <2> QED BY <2>2, <1>9 DEF CommandInv
<1>11. ScopeInv(s)'
  <2>1. CASE Changes(j)
    <3>1. intact'[s] = Nobody BY <2>1, <1>1, <1>6 DEF InstallTypeOK
    <3>2. Nobody \notin Cmd BY DEF Nobody, Cmd
    <3> QED BY <3>1, <3>2, <1>1, <1>4, <1>5 DEF ScopeInv, Installed, S
  <2>2. CASE ~Changes(j)
    <3>1. intact' = intact BY <2>2, <1>1, <1>6 DEF InstallTypeOK
    <3> QED BY <3>1, <2>2, <1>0, <1>1, <1>4, <1>5, <1>8, SameScope
  <2> QED BY <2>1, <2>2
<1> QED BY <1>0, <1>1, <1>4, <1>5, <1>7, <1>8, <1>10, <1>11, Concludes DEF S

(* A command comes to its end, its files as they are.                      *)
LEMMA EndsInv ==
    ASSUME InstallInv, InstallTypeOK', NEW c \in Cmd, Active(c), Only(c, S(c)),
           cmd'[c].pc \in {"ended", "killed"}, cmd'[c].job = cmd[c].job, cmd'[c].was = cmd[c].was,
           UNCHANGED <<file, comps, intact>>,
           \/ Installed(S(c))
           \/ /\ unit'[S(c)] = unit[S(c)] /\ auto'[S(c)] = auto[S(c)]
              /\ svc'[S(c)] \in {svc[S(c)], "stopped"}
    PROVE  InstallInv'
<1>1. /\ (\A d \in Cmd : d # c /\ Active(d) => S(d) # S(c))
      /\ S(c) \in Scope
    BY Alone
<1>2. CommandInv(c)' /\ ~Active(c)' /\ ~Underway(c)' BY LeavesCommand
<1>3. ScopeInv(S(c))' BY <1>2, SameScope
<1>4. PICK s : s = S(c) OBVIOUS
<1>5. cmd'[c].job.scope = s /\ S(c)' = s BY <1>4 DEF S
<1>6. ScopeInv(s)' BY <1>3, <1>5 DEF S
<1> QED BY <1>1, <1>2, <1>4, <1>5, <1>6, Concludes

LEMMA RefuseInv == ASSUME InstallInv, NEW c \in Cmd, Refuse(c) PROVE InstallInv'
<1>0. Active(c) /\ Leaves(c) BY DEF Refuse, At, Active
<1>1. InstallTypeOK' BY <1>0, LeavesOwn DEF Refuse, tree, InstallTypeOK, InstallInv
<1>2. Only(c, S(c)) BY <1>0, LeavesOwn DEF Refuse, tree, Only
<1> QED BY <1>0, <1>1, <1>2, LeavesOwn, EndsInv DEF Refuse, tree

LEMMA StopFailsInv == ASSUME InstallInv, NEW c \in Cmd, StopFails(c) PROVE InstallInv'
<1>0. Active(c) /\ Leaves(c) BY DEF StopFails, At, Active
<1>a. S(c) \in Scope /\ InstallTypeOK BY <1>0, Alone
<1>1. InstallTypeOK' BY <1>0, <1>a, LeavesOwn DEF StopFails, tree, InstallTypeOK
<1>2. Only(c, S(c)) BY <1>0, <1>a, LeavesOwn DEF StopFails, tree, Only, InstallTypeOK
<1>3. svc'[S(c)] \in {svc[S(c)], "stopped"} BY <1>a DEF StopFails, InstallTypeOK
<1> QED BY <1>0, <1>1, <1>2, <1>3, LeavesOwn, EndsInv DEF StopFails, tree

LEMMA StartInv == ASSUME InstallInv, NEW c \in Cmd, Start(c) \/ StartFails(c) \/ Switch(c) PROVE InstallInv'
<1>0. Active(c) /\ Leaves(c) /\ cmd[c].pc \in {"starting", "switching"} BY DEF Start, StartFails, Switch, At, Active
<1>a. S(c) \in Scope /\ InstallTypeOK /\ Placed(c) BY <1>0, Alone DEF CommandInv
<1>b. Installed(S(c)) BY <1>0, <1>a DEF Placed
<1>c. /\ unit' \in [Scope -> {"none", "bin", "raw"}] /\ \A r \in Scope : r # S(c) => unit'[r] = unit[r]
      /\ auto' \in [Scope -> BOOLEAN] /\ \A r \in Scope : r # S(c) => auto'[r] = auto[r]
      /\ svc' \in [Scope -> {"stopped", "activating", "running"}] /\ \A r \in Scope : r # S(c) => svc'[r] = svc[r]
      /\ UNCHANGED <<file, comps, shared, intact, apart>>
  <2>1. Program(cmd[c].job.tool) \in {"bin", "raw"} BY DEF Program
  <2>2. CASE Start(c) BY <1>a, <2>1, <2>2 DEF Start, InstallTypeOK
  <2>3. CASE StartFails(c)
    <3>1. /\ unit' \in {unit, [unit EXCEPT ![S(c)] = Program(cmd[c].job.tool)]}
          /\ svc' \in {svc, [svc EXCEPT ![S(c)] = "activating"]} /\ UNCHANGED <<file, comps, auto, shared, intact, apart>>
        BY <2>3 DEF StartFails
    <3> QED BY <1>a, <2>1, <3>1 DEF InstallTypeOK
  <2>4. CASE Switch(c) BY <1>a, <2>1, <2>4 DEF Switch, InstallTypeOK
  <2> QED BY <2>2, <2>3, <2>4
<1>1. InstallTypeOK' BY <1>0, <1>a, <1>c, LeavesOwn DEF InstallTypeOK
<1>2. Only(c, S(c)) BY <1>0, <1>a, <1>c, LeavesOwn DEF Only
<1> QED BY <1>0, <1>1, <1>2, <1>b, <1>c, LeavesOwn, EndsInv

LEMMA KillOwn == ASSUME InstallInv, NEW c \in Cmd, Kill(c)
                 PROVE  /\ InstallTypeOK' /\ Active(c) /\ Only(c, S(c)) /\ cmd'[c].pc = "killed"
                        /\ cmd'[c].job = cmd[c].job /\ cmd'[c].was = cmd[c].was /\ cmd'[c].backup = cmd[c].backup
                        /\ UNCHANGED <<lock, file, comps, unit, auto, shared, svc, intact>> /\ ~apart'
<1>0. Active(c) BY DEF Kill, Active
<1>a. S(c) \in Scope /\ InstallTypeOK /\ cmd[c] \in Command BY <1>0, Alone
<1>1. cmd' = [cmd EXCEPT ![c] = [cmd[c] EXCEPT !.pc = "killed", !.todo = <<>>]] BY <1>a DEF Kill, InstallTypeOK
<1>2. <<>> \in Seq(OpType) OBVIOUS
<1>3. [cmd[c] EXCEPT !.pc = "killed", !.todo = <<>>] \in Command BY <1>a, <1>2 DEF Command, Pc
<1>4. /\ cmd' \in [Cmd -> Command] /\ cmd'[c].pc = "killed" /\ cmd'[c].job = cmd[c].job /\ cmd'[c].was = cmd[c].was
      /\ cmd'[c].backup = cmd[c].backup
      /\ \A d \in Cmd : d # c => cmd'[d] = cmd[d]
    BY <1>1, <1>3, <1>a DEF InstallTypeOK, Command
<1>5. UNCHANGED <<lock, file, comps, unit, auto, shared, svc, intact>> /\ ~apart' BY DEF Kill, tree
<1>6. InstallTypeOK' BY <1>4, <1>5, <1>a DEF InstallTypeOK, Kill
<1>7. Only(c, S(c)) BY <1>4, <1>5 DEF Only
<1> QED BY <1>0, <1>4, <1>5, <1>6, <1>7

LEMMA KillInv == ASSUME InstallInv, NEW c \in Cmd, Kill(c) PROVE InstallInv'
BY KillOwn, EndsInv

(* A command goes on, its files as they are.                               *)
LEMMA GoesOnInv ==
    ASSUME InstallInv, InstallTypeOK', NEW c \in Cmd, Active(c), Only(c, S(c)),
           cmd'[c].pc # "idle", cmd'[c].job = cmd[c].job, cmd'[c].todo = cmd[c].todo,
           UNCHANGED <<lock, file, comps, unit, auto, intact>>,
           svc'[S(c)] \in {svc[S(c)], "stopped"}, Underway(c)' => Underway(c), Placed(c)'
    PROVE  InstallInv'
<1>1. /\ lock[S(c)] = c /\ (\A d \in Cmd : d # c /\ Active(d) => S(d) # S(c))
      /\ S(c) \in Scope
    BY Alone
<1>2. Underway(c)' => Plans(c)' BY SamePlan
<1>3. CommandInv(c)' BY <1>2 DEF CommandInv
<1>4. ScopeInv(S(c))' BY SameScope
<1>5. PICK s : s = S(c) OBVIOUS
<1>6. cmd'[c].job.scope = s /\ S(c)' = s BY <1>5 DEF S
<1>7. ScopeInv(s)' BY <1>4, <1>6 DEF S
<1> QED BY <1>1, <1>3, <1>5, <1>6, <1>7, Concludes

LEMMA ReadStateInv == ASSUME InstallInv, NEW c \in Cmd, ReadState(c) PROVE InstallInv'
<1> DEFINE j == cmd[c].job
           s == S(c)
<1>0. Active(c) /\ cmd[c].pc = "reading" /\ Underway(c) BY DEF ReadState, At, Active, Underway
<1>1. s \in Scope /\ InstallTypeOK /\ cmd[c] \in Command /\ j \in JobType /\ Placed(c) /\ ScopeInv(s)
    BY <1>0, Alone DEF CommandInv
<1> DEFINE runs == Installed(s) /\ svc[s] = "running"
           w == runs /\ (Installs(j) \/ j.action = "unplug")
           pc == CASE Installs(j)              -> IF runs THEN "stopping" ELSE "working"
                   [] Removes(j)               -> IF Installed(s) THEN "stopping" ELSE "working"
                   [] j.action = "start"       -> "starting"
                   [] j.action \in {"stop", "restart"} -> "stopping"
                   [] OTHER                    -> "switching"
<1>2. cmd' = [cmd EXCEPT ![c] = [cmd[c] EXCEPT !.was = w, !.pc = pc]] /\ w \in BOOLEAN
  <2>1. cmd' = [cmd EXCEPT ![c].was = w, ![c].pc = pc] BY DEF ReadState
  <2>2. w \in BOOLEAN BY DEF Installed
  <2>3. cmd \in [Cmd -> Command] BY <1>1 DEF InstallTypeOK
  <2> HIDE DEF w, pc
  <2> QED BY <2>1, <2>2, <2>3
<1>3. /\ Installs(j) => pc = IF runs THEN "stopping" ELSE "working"
      /\ Removes(j) => pc = IF Installed(s) THEN "stopping" ELSE "working"
      /\ j.action = "start" => pc = "starting"
      /\ j.action \in {"stop", "restart"} => pc = "stopping"
      /\ j.action \in {"enable", "disable"} => pc = "switching"
    BY DEF Installs, Removes
<1>a. (w => runs /\ (Installs(j) \/ j.action = "unplug")) /\ (runs => Installed(s)) OBVIOUS
<1> HIDE DEF w, pc, runs
<1>4. j.action \in {"install", "asset", "uninstall", "unplug", "start", "stop", "restart", "enable", "disable"}
    BY <1>1 DEF JobType
<1>5. pc \in {"stopping", "working", "starting", "switching"} BY <1>3, <1>4 DEF Installs, Removes
<1>6. /\ cmd' \in [Cmd -> Command] /\ cmd'[c].pc = pc /\ cmd'[c].job = j /\ cmd'[c].was = w
      /\ cmd'[c].todo = cmd[c].todo /\ \A d \in Cmd : d # c => cmd'[d] = cmd[d]
  <2>1. [cmd[c] EXCEPT !.was = w, !.pc = pc] \in Command BY <1>1, <1>2, <1>5 DEF Command, Pc
  <2>2. cmd' = [cmd EXCEPT ![c] = [cmd[c] EXCEPT !.was = w, !.pc = pc]] BY <1>2
  <2>3. cmd \in [Cmd -> Command] BY <1>1 DEF InstallTypeOK
  <2> QED BY <2>1, <2>2, <2>3, <1>1 DEF Command
<1>7. UNCHANGED <<lock, file, comps, unit, auto, shared, svc, intact, apart>> BY DEF ReadState, tree
<1>8. InstallTypeOK' BY <1>1, <1>6, <1>7 DEF InstallTypeOK
<1>9. Only(c, s) BY <1>6, <1>7 DEF Only
<1>10. Placed(c)'
  <2>1. /\ cmd[c].pc = "reading" /\ (j.tool = "relayctl" => j.scope = "relay" /\ j.action # "unplug")
        /\ (j.action \notin {"install", "uninstall", "unplug"} => Installed(s))
      BY <1>0, <1>1 DEF Placed
  <2>2. pc = "working" /\ j.action = "uninstall" => svc[s] = "stopped"
      BY <1>1, <1>3 DEF ScopeInv, Removes
  <2>3. (w => Installed(s)) /\ (pc \in {"starting", "switching"} => Installed(s) /\ j.action # "uninstall")
      BY <1>a, <1>3, <1>4, <2>1 DEF Installs, Removes
  <2>4. (pc = "working" => Changes(j)) /\ (pc = "stopping" => Changes(j) \/ j.action \in {"stop", "restart"})
      BY <1>3, <1>4 DEF Changes, Installs, Removes
  <2>5. w => Installs(j) \/ j.action = "unplug" BY <1>a
  <2>6. S(c)' = s /\ (Installed(s) <=> Installed(S(c))') /\ svc'[S(c)'] = svc[s] BY <1>6, <1>7 DEF S, Installed
  <2> HIDE DEF j, s
  <2> QED BY <1>5, <1>6, <2>1, <2>2, <2>3, <2>4, <2>5, <2>6 DEF Placed, Active, j, s
<1>11. cmd'[c].pc # "idle" BY <1>5, <1>6
<1> QED BY <1>0, <1>6, <1>7, <1>8, <1>9, <1>10, <1>11, GoesOnInv

LEMMA StopInv == ASSUME InstallInv, NEW c \in Cmd, Stop(c) PROVE InstallInv'
<1> DEFINE j == cmd[c].job
           s == S(c)
<1>0. Active(c) /\ cmd[c].pc = "stopping" /\ Underway(c) BY DEF Stop, At, Active, Underway
<1>1. s \in Scope /\ InstallTypeOK /\ cmd[c] \in Command /\ j \in JobType /\ Placed(c) /\ ScopeInv(s)
    BY <1>0, Alone DEF CommandInv
<1>2. /\ svc' \in [Scope -> {"stopped", "activating", "running"}] /\ svc'[s] = "stopped"
      /\ \A r \in Scope : r # s => svc'[r] = svc[r]
    BY <1>1 DEF Stop, InstallTypeOK
<1>3. UNCHANGED <<file, comps, unit, auto, shared, intact, apart>> BY DEF Stop, tree
<1>4. CASE j.action = "stop"
  <2>1. Leaves(c) BY <1>4 DEF Stop
  <2>2. InstallTypeOK' BY <1>0, <1>1, <1>2, <1>3, <2>1, LeavesOwn DEF InstallTypeOK
  <2>3. Only(c, s) BY <1>0, <1>1, <1>2, <1>3, <2>1, LeavesOwn DEF Only
  <2> QED BY <1>0, <1>2, <1>3, <2>1, <2>2, <2>3, LeavesOwn, EndsInv
<1>5. CASE j.action # "stop"
  <2>1. PICK pc : /\ pc = IF j.action = "restart" THEN "starting" ELSE "working"
                  /\ cmd' = [cmd EXCEPT ![c] = [cmd[c] EXCEPT !.pc = pc]] /\ lock' = lock
      BY <1>5 DEF Stop, Goes
  <2>2. /\ cmd' \in [Cmd -> Command] /\ cmd'[c].pc = pc /\ cmd'[c].job = j /\ cmd'[c].was = cmd[c].was
        /\ cmd'[c].todo = cmd[c].todo /\ \A d \in Cmd : d # c => cmd'[d] = cmd[d]
    <3>1. [cmd[c] EXCEPT !.pc = pc] \in Command BY <1>1, <2>1 DEF Command, Pc
    <3>2. cmd \in [Cmd -> Command] BY <1>1 DEF InstallTypeOK
    <3> QED BY <2>1, <3>1, <3>2, <1>1 DEF Command
  <2>3. InstallTypeOK' BY <1>1, <1>2, <1>3, <2>1, <2>2 DEF InstallTypeOK
  <2>4. Only(c, s) BY <1>1, <1>2, <1>3, <2>1, <2>2 DEF Only
  <2>5. Placed(c)'
    <3>1. /\ j.tool = "relayctl" => j.scope = "relay" /\ j.action # "unplug"
          /\ j.action \notin {"install", "uninstall", "unplug"} => Installed(s)
          /\ Changes(j) \/ j.action = "restart"
          /\ cmd[c].was => Installed(s) /\ (Installs(j) \/ j.action = "unplug")
        BY <1>0, <1>1, <1>5 DEF Placed
    <3>2. S(c)' = s /\ (Installed(s) <=> Installed(S(c))') /\ svc'[S(c)'] = "stopped" BY <1>2, <1>3, <2>2 DEF S, Installed
    <3>3. (j.action = "restart" => pc = "starting") /\ (j.action # "restart" => pc = "working") BY <2>1
    <3> HIDE DEF j, s
    <3> QED BY <2>2, <3>1, <3>2, <3>3 DEF Placed, Active, j
  <2>6. cmd'[c].pc # "idle" BY <2>1, <2>2
  <2> QED BY <1>0, <1>2, <1>3, <2>1, <2>2, <2>3, <2>4, <2>5, <2>6, GoesOnInv
<1> QED BY <1>4, <1>5

-----------------------------------------------------------------------------
(* Operations.  What one changes in its own scope. *)
Effect(c, x, s) ==
    /\ \A q \in Part : file'[s][q] = IF x = <<"in", q>> \/ x = <<"put", q>> THEN c
                                    ELSE IF x = <<"out", q>> \/ x = <<"gone", q>> THEN Absent
                                    ELSE file[s][q]
    /\ x = <<"config", "">> => comps'[s] = {"saved", s} \cup (comps[s] \cap {"plugin"})
    /\ x = <<"pluginAdd", "">> => comps'[s] = comps[s] \cup {"plugin"}
    /\ x = <<"configUnplugged", "">> => comps'[s] = comps[s] \ {"plugin"}
    /\ x = <<"configEmpty", "">> => comps'[s] = {"saved"}
    /\ x \notin {<<"config", "">>, <<"pluginAdd", "">>, <<"configUnplugged", "">>, <<"configEmpty", "">>} =>
         comps'[s] = comps[s]
    /\ x \in {<<"unit", "">>, <<"autoOff", "">>} => unit'[s] = Program(cmd[c].job.tool)
    /\ x = <<"unitGone", "">> => unit'[s] = "none"
    /\ x \notin {<<"unit", "">>, <<"autoOff", "">>, <<"unitGone", "">>} => unit'[s] = unit[s]
    /\ x = <<"autoOff", "">> => ~auto'[s]
    /\ x # <<"autoOff", "">> => auto'[s] = auto[s]

(* Different operations. *)
LEMMA Distinct == /\ \A a, b, q, r : <<a, q>> = <<b, r>> <=> a = b /\ q = r
                  /\ \A a, q : <<a, q>>[1] = a /\ <<a, q>>[2] = q
OBVIOUS

LEMMA Effects == ASSUME InstallTypeOK, NEW c \in Cmd, Operation(c) PROVE Effect(c, Op(c), S(c))
<1> DEFINE s == S(c)
<1>0. s \in Scope BY Scopes
<1>1. PICK x : x = Op(c) OBVIOUS
<1>2. x \in OpType BY <1>1, OperationStep DEF Advances, First
<1>3. /\ x = <<x[1], x[2]>>
      /\ x[1] \in {"out", "in", "put", "gone"} => x[2] \in Part
      /\ x[1] \notin {"out", "in", "put", "gone"} => x[2] = ""
    BY <1>2, Operations
<1> DEFINE p == x[2]
           a == x[1]
<1>4. \A b, q : x = <<b, q>> <=> a = b /\ p = q
  <2>1. x = <<a, p>> BY <1>3
  <2> HIDE DEF p, a
  <2> QED BY <2>1, Distinct, Zenon
<1> HIDE DEF p, a
<1>5. ASSUME \A q \in Part : file'[s][q] = IF a \in {"in", "put"} /\ p = q THEN c
                                           ELSE IF a \in {"out", "gone"} /\ p = q THEN Absent
                                           ELSE file[s][q],
             a = "config" => comps'[s] = {"saved", s} \cup (comps[s] \cap {"plugin"}),
             a = "pluginAdd" => comps'[s] = comps[s] \cup {"plugin"},
             a = "configUnplugged" => comps'[s] = comps[s] \ {"plugin"},
             a = "configEmpty" => comps'[s] = {"saved"},
             a \notin {"config", "pluginAdd", "configUnplugged", "configEmpty"} => comps'[s] = comps[s],
             a \in {"unit", "autoOff"} => unit'[s] = Program(cmd[c].job.tool),
             a = "unitGone" => unit'[s] = "none",
             a \notin {"unit", "autoOff", "unitGone"} => unit'[s] = unit[s],
             a = "autoOff" => ~auto'[s],
             a # "autoOff" => auto'[s] = auto[s]
      PROVE  Effect(c, x, s)
  <2>1. a \notin {"out", "in", "put", "gone"} => p = "" BY <1>3 DEF a, p
  <2>2. \A b \in {"config", "pluginAdd", "configUnplugged", "configEmpty", "unit", "autoOff", "unitGone"} :
          x = <<b, "">> <=> a = b
      BY <2>1, <1>4
  <2>3. \A b \in {"in", "put", "out", "gone"}, q \in Part : x = <<b, q>> <=> a = b /\ p = q BY <1>4
  <2>4. \A q \in Part : file'[s][q] = IF x = <<"in", q>> \/ x = <<"put", q>> THEN c
                                      ELSE IF x = <<"out", q>> \/ x = <<"gone", q>> THEN Absent
                                      ELSE file[s][q]
      BY <2>3, <1>5
  <2> QED BY <2>2, <2>4, <1>5 DEF Effect
<1>6. a = Op(c)[1] /\ p = Op(c)[2] BY <1>1 DEF a, p
<1>7. a \in {"out", "in", "put", "gone"} => p \in Part BY <1>3 DEF a, p
<1>m. CASE MoveOut(c) \/ MoveIn(c) \/ Gone(c)
  <2>1. a \in {"out", "in", "put", "gone"} /\ p \in Part
      BY <1>m, <1>6, <1>7 DEF MoveOut, MoveIn, Gone, Working
  <2>2. /\ a \in {"out", "gone"} => file' = [file EXCEPT ![s][p] = Absent]
        /\ a \in {"in", "put"} => file' = [file EXCEPT ![s][p] = c]
      BY <1>m, <1>6 DEF MoveOut, MoveIn, Gone, Working
  <2>3. UNCHANGED <<comps, unit, auto>> BY <1>m DEF MoveOut, MoveIn, Gone
  <2>4. \A q \in Part : file'[s][q] = IF a \in {"in", "put"} /\ p = q THEN c
                                      ELSE IF a \in {"out", "gone"} /\ p = q THEN Absent
                                      ELSE file[s][q]
      BY <1>0, <2>1, <2>2 DEF InstallTypeOK
  <2> QED BY <1>1, <1>5, <2>1, <2>3, <2>4
<1>8. CASE LookShared(c) \/ AwayShared(c) \/ LinkShared(c)
  <2>1. a \in {"sharedLook", "awayLook", "sharedLink", "awayLink"}
      BY <1>8, <1>6 DEF LookShared, AwayShared, LinkShared, Working
  <2>2. UNCHANGED <<file, comps, unit, auto>> BY <1>8 DEF LookShared, AwayShared, LinkShared, tree
  <2> QED BY <1>1, <1>5, <2>1, <2>2
<1>9. CASE SaveConfig(c)
  <2>1. a \in {"config", "pluginAdd", "configUnplugged", "configEmpty"}
      BY <1>9, <1>6 DEF SaveConfig, Working
  <2>2. UNCHANGED <<file, unit, auto>> BY <1>9 DEF SaveConfig
  <2>3. /\ a = "config" => comps'[s] = {"saved", s} \cup (comps[s] \cap {"plugin"})
        /\ a = "pluginAdd" => comps'[s] = comps[s] \cup {"plugin"}
        /\ a = "configUnplugged" => comps'[s] = comps[s] \ {"plugin"}
        /\ a = "configEmpty" => comps'[s] = {"saved"}
      BY <1>9, <1>0, <1>6 DEF SaveConfig, Working, InstallTypeOK
  <2> QED BY <1>1, <1>5, <2>1, <2>2, <2>3
<1>10. CASE SetService(c)
  <2>1. a \in {"unit", "autoOff", "unitGone", "pluginRemove"} BY <1>10, <1>6 DEF SetService, Working
  <2>2. UNCHANGED <<file, comps>> BY <1>10 DEF SetService
  <2>3. /\ a \in {"unit", "autoOff"} => unit'[s] = Program(cmd[c].job.tool)
        /\ a = "unitGone" => unit'[s] = "none"
        /\ a = "pluginRemove" => unit'[s] = unit[s]
        /\ a = "autoOff" => ~auto'[s]
        /\ a # "autoOff" => auto'[s] = auto[s]
      BY <1>10, <1>0, <1>6, <2>1 DEF SetService, Working, InstallTypeOK
  <2> QED BY <1>1, <1>5, <2>1, <2>2, <2>3
<1> QED BY <1>m, <1>8, <1>9, <1>10 DEF Operation

(* Operations that would undo what a job is for are none of its own. *)
Never(j, x) ==
    /\ Installs(j) => x \notin {<<"gone", "client">>, <<"gone", "command">>, <<"gone", "ctl">>, <<"gone", "plugin">>,
                                <<"out", "command">>, <<"out", "ctl">>,
                                <<"configUnplugged", "">>, <<"configEmpty", "">>}
    /\ j.action = "install" => /\ x # <<"gone", Program(j.tool)>>
                               /\ \A q \in {"bin", "raw"} \ {Program(j.tool)} : x \notin {<<"in", q>>, <<"put", q>>}
    /\ j.action = "uninstall" => /\ \A q \in Part : x \notin {<<"in", q>>, <<"put", q>>}
                                 /\ x \notin {<<"config", "">>, <<"unit", "">>}
    /\ x = <<"configEmpty", "">> => j.action = "uninstall"
    /\ x = <<"gone", Program(j.tool)>> => j.action = "uninstall"
    /\ x = <<"in", Program(j.tool)>> => j.action = "install"

LEMMA NeverUndoes == ASSUME NEW j \in JobType, Changes(j), NEW x \in OpType, Rank(j, x) \in 1 .. 14,
                            j.tool = "relayctl" => j.scope = "relay" /\ j.action # "unplug"
                     PROVE  Never(j, x)
<1>0. \A y : Rank(j, y) = 0 => x # y OBVIOUS
<1>a. j.tool \in {"drdsh", "relayctl"} BY DEF JobType
<1>1. CASE Installs(j) /\ j.tool = "drdsh"
  <2>1. j.action \notin {"uninstall", "unplug"} /\ Program(j.tool) = "bin" /\ ~Removes(j) BY <1>1 DEF Installs, Removes, Program
  <2>2. /\ Rank(j, <<"gone", "client">>) = 0
        /\ Rank(j, <<"gone", "command">>) = 0
        /\ Rank(j, <<"gone", "ctl">>) = 0
        /\ Rank(j, <<"gone", "plugin">>) = 0
        /\ Rank(j, <<"out", "command">>) = 0
        /\ Rank(j, <<"out", "ctl">>) = 0
        /\ Rank(j, <<"configUnplugged", "">>) = 0
        /\ Rank(j, <<"configEmpty", "">>) = 0
        /\ Rank(j, <<"gone", "bin">>) = 0
        /\ Rank(j, <<"in", "raw">>) = 0
        /\ Rank(j, <<"put", "raw">>) = 0
      BY <1>1, <2>1 DEF Rank, UpdateRank
  <2>3. \A q \in {"bin", "raw"} \ {"bin"} : q = "raw" OBVIOUS
  <2>4. j.action # "install" => Rank(j, <<"in", "bin">>) = 0 BY <1>1, <2>1 DEF Rank, UpdateRank
  <2> QED BY <1>0, <2>1, <2>2, <2>3, <2>4 DEF Never
<1>2. CASE Installs(j) /\ j.tool = "relayctl"
  <2>1. j.action \notin {"uninstall", "unplug"} /\ Program(j.tool) = "raw" /\ ~Removes(j) BY <1>2 DEF Installs, Removes, Program
  <2>2. /\ Rank(j, <<"gone", "client">>) = 0
        /\ Rank(j, <<"gone", "command">>) = 0
        /\ Rank(j, <<"gone", "ctl">>) = 0
        /\ Rank(j, <<"gone", "plugin">>) = 0
        /\ Rank(j, <<"out", "command">>) = 0
        /\ Rank(j, <<"out", "ctl">>) = 0
        /\ Rank(j, <<"configUnplugged", "">>) = 0
        /\ Rank(j, <<"configEmpty", "">>) = 0
        /\ Rank(j, <<"gone", "raw">>) = 0
        /\ Rank(j, <<"in", "bin">>) = 0
        /\ Rank(j, <<"put", "bin">>) = 0
      BY <1>2, <2>1 DEF Rank, RelayctlUpdateRank
  <2>3. \A q \in {"bin", "raw"} \ {"raw"} : q = "bin" OBVIOUS
  <2>4. j.action # "install" => Rank(j, <<"in", "raw">>) = 0 BY <1>2, <2>1 DEF Rank, RelayctlUpdateRank
  <2> QED BY <1>0, <2>1, <2>2, <2>3, <2>4 DEF Never
<1>3. CASE Removes(j)
  <2>1. ~Installs(j) /\ j.action # "install" BY <1>3 DEF Installs, Removes
  <2>2. /\ Rank(j, <<"in", "bin">>) = 0
        /\ Rank(j, <<"in", "raw">>) = 0
        /\ Rank(j, <<"in", "client">>) = 0
        /\ Rank(j, <<"in", "plugin">>) = 0
        /\ Rank(j, <<"in", "command">>) = 0
        /\ Rank(j, <<"in", "ctl">>) = 0
        /\ Rank(j, <<"put", "bin">>) = 0
        /\ Rank(j, <<"put", "raw">>) = 0
        /\ Rank(j, <<"put", "client">>) = 0
        /\ Rank(j, <<"put", "plugin">>) = 0
        /\ Rank(j, <<"put", "command">>) = 0
        /\ Rank(j, <<"put", "ctl">>) = 0
        /\ Rank(j, <<"config", "">>) = 0
        /\ Rank(j, <<"unit", "">>) = 0
    <3>1. CASE j.tool = "drdsh" BY <1>3, <2>1, <3>1 DEF Rank, RemovalRank
    <3>2. CASE j.tool = "relayctl" BY <1>3, <2>1, <3>2 DEF Rank, RelayctlRemovalRank
    <3> QED BY <3>1, <3>2, <1>a
  <2>3. x = <<"configEmpty", "">> => j.action = "uninstall"
    <3>1. CASE j.action = "uninstall" BY <3>1
    <3>2. CASE j.action = "unplug"
      <4>1. Rank(j, <<"configEmpty", "">>) = 0 BY <1>a, <1>3, <2>1, <3>2 DEF Rank, RemovalRank
      <4> QED BY <4>1, <1>0
    <3> QED BY <3>1, <3>2, <1>3 DEF Removes
  <2>4. x = <<"gone", Program(j.tool)>> => j.action = "uninstall"
    <3>1. CASE j.action = "uninstall" BY <3>1
    <3>2. CASE j.action = "unplug"
      <4>1. j.tool = "drdsh" /\ Program(j.tool) = "bin" BY <1>a, <3>2 DEF Program
      <4>2. Rank(j, <<"gone", "bin">>) = 0 BY <1>3, <2>1, <3>2, <4>1 DEF Rank, RemovalRank
      <4> QED BY <4>1, <4>2, <1>0
    <3> QED BY <3>1, <3>2, <1>3 DEF Removes
  <2>5. x # <<"in", Program(j.tool)>> BY <1>0, <2>2 DEF Program
  <2> QED BY <1>0, <2>1, <2>2, <2>3, <2>4, <2>5 DEF Never, Part
<1> QED BY <1>a, <1>1, <1>2, <1>3 DEF Changes

(* What the command c has left after the operation x. *)
Shorter(c, x) ==
    /\ \A y \in OpType : Todo(c, y) <=> y = x \/ Todo(c, y)'
    /\ \A y \in OpType : Todo(c, y)' => Rank(cmd[c].job, x) < Rank(cmd[c].job, y) /\ Rank(cmd[c].job, y) \in 1 .. 14

LEMMA Shortens == ASSUME InstallInv, NEW c \in Cmd, Operation(c)
                  PROVE  /\ Shorter(c, Op(c)) /\ Planned(c)' /\ Rank(cmd[c].job, Op(c)) \in 1 .. 14 /\ Op(c) \in OpType
                         /\ Advances(c) /\ Active(c) /\ Underway(c) /\ Changes(cmd[c].job) /\ InstallTypeOK'
                         /\ Only(c, S(c))
<1> DEFINE j == cmd[c].job
           w == cmd[c].todo
<1>1. Advances(c) /\ InstallTypeOK' BY OperationStep DEF InstallInv
<1>2. Active(c) /\ Underway(c) /\ cmd[c].pc = "working" BY <1>1 DEF Advances, Active, Underway
<1>3. Plans(c) /\ Placed(c) /\ cmd[c] \in Command BY <1>2, Alone DEF CommandInv
<1>4. Changes(j) BY <1>2, <1>3 DEF Placed
<1>5. Plan(j, w, 1, 14) BY <1>3 DEF Plans, Planned, Plan, Command
<1>6. w # <<>> /\ Op(c) = Head(w) /\ cmd'[c].todo = Tail(w) /\ cmd'[c].job = j BY <1>1 DEF Advances, First
<1>7. Rests(j, w) BY <1>5, <1>6, HeadAndTail
<1>8. Shorter(c, Op(c)) BY <1>6, <1>7 DEF Rests, Shorter, Todo
<1>9. Planned(c)' BY <1>4, <1>6, <1>7 DEF Rests, Plan, Planned
<1>10. Rank(j, Op(c)) \in 1 .. 14 /\ Op(c) \in OpType BY <1>6, <1>7 DEF Rests
<1>11. Only(c, S(c)) BY <1>1 DEF Advances, Only
<1> QED BY <1>1, <1>2, <1>4, <1>8, <1>9, <1>10, <1>11

(* What has the next rank comes next. *)
LEMMA NextUp ==
    ASSUME InstallInv, NEW c \in Cmd, Operation(c), NEW z \in OpType, Todo(c, z)',
           Rank(cmd[c].job, z) = Rank(cmd[c].job, Op(c)) + 1
    PROVE  Op(c)' = z
<1> DEFINE j == cmd[c].job
           w == cmd'[c].todo
           r(i) == Rank(j, w[i])
<1>1. /\ Shorter(c, Op(c)) /\ Within(j, w, 1, 14) /\ InstallTypeOK' /\ Rank(j, Op(c)) \in 1 .. 14
    BY Shortens DEF Planned, Advances
<1>3. w \in Seq(OpType) BY <1>1 DEF InstallTypeOK, Command
<1>4. PICK i \in 1 .. Len(w) : w[i] = z BY DEF Todo, Has
<1>5. w # <<>> /\ w[1] \in OpType /\ Head(w) = w[1] /\ 1 \in 1 .. Len(w) BY <1>3, <1>4
<1>6. PICK y \in OpType : y = w[1] BY <1>5
<1>a. Todo(c, y)' BY <1>5, <1>6 DEF Todo, Has
<1>7. Rank(j, Op(c)) < r(1) /\ r(1) \in 1 .. 14 BY <1>1, <1>6, <1>a DEF Shorter
<1>8. i # 1 => r(1) < Rank(j, z)
  <2>1. ASSUME i # 1 PROVE r(1) < r(i)
    <3>1. i \in 1 + 1 .. Len(w) BY <2>1, <1>3
    <3> QED BY <3>1, <1>1, <1>5 DEF Within
  <2> QED BY <2>1, <1>4
<1> HIDE DEF r
<1>11. i = 1 BY <1>1, <1>7, <1>8
<1>12. Op(c)' = Head(w) BY <1>5 DEF Op
<1> QED BY <1>4, <1>5, <1>11, <1>12

(* A move in comes right after the move out. *)
LEMMA MoveInNext ==
    ASSUME InstallInv, NEW c \in Cmd, Operation(c), NEW q \in Part, Op(c) = <<"out", q>>, Todo(c, <<"in", q>>)'
    PROVE  Op(c)' = <<"in", q>>
<1>1. <<"in", q>> \in OpType BY DEF OpType
<1>2. cmd[c].job \in JobType /\ Rank(cmd[c].job, <<"out", q>>) \in 1 .. 14 BY Scopes, Shortens DEF InstallInv
<1>3. Rank(cmd[c].job, <<"in", q>>) = Rank(cmd[c].job, Op(c)) + 1 BY <1>2, Orders
<1> QED BY <1>1, <1>3, NextUp

LEMMA OperationInv == ASSUME InstallInv, NEW c \in Cmd, Operation(c) PROVE InstallInv'
<1>1. PICK x, s, j : x = Op(c) /\ s = S(c) /\ j = cmd[c].job OBVIOUS
<1>2. /\ Shorter(c, x) /\ Planned(c)' /\ Rank(j, x) \in 1 .. 14 /\ x \in OpType
      /\ Advances(c) /\ Active(c) /\ Underway(c) /\ Changes(j) /\ InstallTypeOK' /\ Only(c, s)
    BY <1>1, Shortens
<1>3. /\ (\A d \in Cmd : d # c /\ Active(d) => S(d) # s) /\ lock[s] = c
      /\ s \in Scope /\ j \in JobType /\ Placed(c) /\ Plans(c) /\ ScopeInv(s) /\ InstallTypeOK /\ j.scope = s
    BY <1>1, <1>2, Alone DEF CommandInv, S
<1>4. /\ cmd[c].pc = "working" /\ cmd'[c].pc = "working" /\ cmd'[c].job = j /\ cmd'[c].was = cmd[c].was
      /\ S(c)' = s /\ lock' = lock /\ svc' = svc /\ intact' = intact
    BY <1>1, <1>2, <1>3 DEF Advances, S
<1>5. Effect(c, x, s) BY <1>1, <1>3, Effects
<1>6. Never(j, x) BY <1>1, <1>2, <1>3, NeverUndoes DEF Placed
<1>o. /\ \A q \in Part, a \in {"out", "in", "put", "gone"} : <<a, q>> \in OpType
      /\ \A a \in {"config", "pluginAdd", "configEmpty", "unitGone", "autoOff"} : <<a, "">> \in OpType
    BY DEF OpType
<1>7. \A y \in OpType : Todo(c, y) <=> y = x \/ Todo(c, y)' BY <1>2 DEF Shorter
<1>m. ASSUME NEW q \in Part, Todo(c, <<"out", q>>)' PROVE Todo(c, <<"in", q>>)'
  <2>1. Todo(c, <<"in", q>>) BY <1>m, <1>3, <1>7, <1>o DEF Plans, MovedIn
  <2>2. x # <<"in", q>>
    <3>1. Rank(j, x) < Rank(j, <<"out", q>>) /\ Rank(j, <<"out", q>>) \in 1 .. 14
        BY <1>m, <1>1, <1>2, <1>o DEF Shorter
    <3>2. Rank(j, <<"in", q>>) = Rank(j, <<"out", q>>) + 1 BY <3>1, <1>3, Orders
    <3>3. Rank(j, x) # Rank(j, <<"in", q>>) BY <3>1, <3>2, <1>2
    <3> QED BY <3>3
  <2> QED BY <2>1, <2>2, <1>7, <1>o
<1>n. ASSUME NEW q \in Part, Todo(c, <<"in", q>>)', ~Todo(c, <<"out", q>>)'
      PROVE  Op(c)' = <<"in", q>> /\ file'[s][q] = Absent
  <2>1. Todo(c, <<"in", q>>) BY <1>n, <1>7, <1>o
  <2>2. x # <<"in", q>>
    <3>1. Rank(j, x) < Rank(j, <<"in", q>>) BY <1>n, <1>1, <1>2, <1>o DEF Shorter
    <3>2. Rank(j, x) # Rank(j, <<"in", q>>) BY <3>1, <1>2
    <3> QED BY <3>2
  <2>3. Todo(c, <<"out", q>>) BY <2>1, <2>2, <1>1, <1>3 DEF Plans, MovedIn
  <2>4. x = <<"out", q>> BY <2>3, <1>n, <1>7, <1>o
  <2>5. Op(c)' = <<"in", q>> BY <2>4, <1>1, <1>2, <1>n, MoveInNext DEF Shorter
  <2> QED BY <2>4, <2>5, <1>5 DEF Effect
<1>8. MovedIn(c)' BY <1>4, <1>m, <1>n DEF MovedIn
<1>9. ASSUME NEW q \in Part, file[s][q] = c \/ Todo(c, <<"in", q>>), x # <<"gone", q>>
      PROVE  file'[s][q] = c \/ Todo(c, <<"in", q>>)'
  <2>1. CASE x = <<"in", q>> BY <2>1, <1>5 DEF Effect
  <2>2. CASE x = <<"out", q>>
    <3>1. Todo(c, <<"in", q>>) BY <2>2, <1>3, <1>7, <1>o DEF Plans, MovedIn
    <3>2. x # <<"in", q>> BY <2>2
    <3> QED BY <3>1, <3>2, <1>7, <1>o
  <2>3. CASE x # <<"in", q>> /\ x # <<"out", q>> BY <2>3, <1>5, <1>7, <1>9, <1>o DEF Effect
  <2> QED BY <2>1, <2>2, <2>3
<1>10. ASSUME NEW q \in Part, file[s][q] = Absent \/ Todo(c, <<"gone", q>>), x \notin {<<"in", q>>, <<"put", q>>}
       PROVE  file'[s][q] = Absent \/ Todo(c, <<"gone", q>>)'
  <2>1. CASE x = <<"gone", q>> BY <2>1, <1>5, <1>10 DEF Effect
  <2>2. CASE x # <<"gone", q>> BY <2>2, <1>5, <1>7, <1>10, <1>o DEF Effect
  <2> QED BY <2>1, <2>2
<1>11. /\ x # <<"configEmpty", "">> => (Installed(s) => Installed(s)')
       /\ x \notin {<<"configEmpty", "">>, <<"configUnplugged", "">>} => ("plugin" \in comps[s] => "plugin" \in comps'[s])
  <2>1. s # "plugin" BY <1>3 DEF Scope
  <2>2. CASE x = <<"config", "">> BY <2>2, <1>5 DEF Effect, Installed
  <2>3. CASE x = <<"pluginAdd", "">> BY <2>3, <1>5 DEF Effect, Installed
  <2>4. CASE x = <<"configUnplugged", "">> BY <2>1, <2>4, <1>5 DEF Effect, Installed
  <2>5. CASE x \notin {<<"config", "">>, <<"pluginAdd", "">>, <<"configUnplugged", "">>, <<"configEmpty", "">>}
      BY <2>5, <1>5 DEF Effect, Installed
  <2> QED BY <2>2, <2>3, <2>4, <2>5 DEF Installed
<1>12. ASSUME Installs(j) PROVE Brings(c, s, j)'
  <2>1. Brings(c, s, j) BY <1>1, <1>3, <1>12 DEF Plans
  <2>2. Program(j.tool) \in Part /\ {"client", "command", "ctl", "plugin", "bin", "raw"} \subseteq Part BY DEF Program, Part
  <2>3. Installed(s)' \/ Todo(c, <<"config", "">>)'
    <3>1. CASE x = <<"config", "">> BY <3>1, <1>5 DEF Effect, Installed
    <3>2. CASE x # <<"config", "">> BY <3>2, <2>1, <1>6, <1>7, <1>11, <1>12, <1>o DEF Brings, Never
    <3> QED BY <3>1, <3>2
  <2>4. s = "relay" => file'[s]["client"] = c \/ Todo(c, <<"in", "client">>)'
      BY <2>1, <2>2, <1>6, <1>9, <1>12 DEF Brings, Never
  <2>a. ASSUME NEW p \in {"command", "ctl"}, file[s][p] = c \/ Todo(c, <<"put", p>>)
        PROVE  file'[s][p] = c \/ Todo(c, <<"put", p>>)'
    <3>0. p \in Part /\ x # <<"gone", p>> /\ x # <<"out", p>> BY <2>2, <1>6, <1>12 DEF Never
    <3>1. CASE x = <<"put", p>> BY <3>0, <3>1, <1>5 DEF Effect
    <3>2. CASE x # <<"put", p>>
      <4>1. file'[s][p] \in {c, file[s][p]} BY <3>0, <3>2, <1>5 DEF Effect
      <4>2. Todo(c, <<"put", p>>) => Todo(c, <<"put", p>>)' BY <3>0, <3>2, <1>7, <1>o
      <4> QED BY <4>1, <4>2, <2>a
    <3> QED BY <3>1, <3>2
  <2>5. j.tool = "drdsh" => \A p \in CommandsOf(j.tool) : file'[s][p] = c \/ Todo(c, <<"put", p>>)'
    <3>1. CommandsOf(j.tool) \subseteq {"command", "ctl"} BY DEF CommandsOf
    <3> QED BY <3>1, <2>1, <2>a DEF Brings
  <2>b. j.action = "install" => file'[s]["ctl"] = c \/ Todo(c, <<"put", "ctl">>)' BY <2>1, <2>a DEF Brings
  <2>6. s = "daemon" /\ j.plugin => file'[s]["plugin"] = c \/ Todo(c, <<"in", "plugin">>)'
      BY <2>1, <2>2, <1>6, <1>9, <1>12 DEF Brings, Never
  <2>7. s = "daemon" /\ j.plugin => "plugin" \in comps'[s] \/ Todo(c, <<"pluginAdd", "">>)'
    <3>1. CASE x = <<"pluginAdd", "">> BY <3>1, <1>5 DEF Effect
    <3>2. CASE x # <<"pluginAdd", "">> BY <3>2, <2>1, <1>6, <1>7, <1>11, <1>12, <1>o DEF Brings, Never
    <3> QED BY <3>1, <3>2
  <2>8. j.action = "install" => file'[s][Program(j.tool)] = c \/ Todo(c, <<"in", Program(j.tool)>>)'
      BY <2>1, <2>2, <1>6, <1>9 DEF Brings, Never
  <2>9. j.action = "install" => \A p \in {"bin", "raw"} \ {Program(j.tool)} :
                                   file'[s][p] = Absent \/ Todo(c, <<"gone", p>>)'
      BY <2>1, <2>2, <1>6, <1>10 DEF Brings, Never
  <2> QED BY <2>3, <2>4, <2>5, <2>6, <2>7, <2>8, <2>9, <2>b DEF Brings
<1>13. ASSUME j.action = "uninstall" PROVE TakesAway(c, s, j)' /\ (x = <<"configEmpty", "">> => ~auto'[s])
  <2>0. Removes(j) BY <1>13 DEF Removes
  <2>1. TakesAway(c, s, j) BY <1>1, <1>3, <1>13 DEF Plans
  <2>2. {Program(j.tool), "client"} \cup CommandsOf(j.tool) \subseteq Part BY DEF Program, Part, CommandsOf
  <2>3. \A p \in {Program(j.tool), "client"} \cup CommandsOf(j.tool) : file'[s][p] = Absent \/ Todo(c, <<"gone", p>>)'
      BY <2>1, <2>2, <1>6, <1>10, <1>13 DEF TakesAway, Never
  <2>4. ~Installed(s)' \/ Todo(c, <<"configEmpty", "">>)'
    <3>1. CASE x = <<"configEmpty", "">> BY <3>1, <1>3, <1>5 DEF Effect, Installed, Scope
    <3>2. CASE x # <<"configEmpty", "">>
      <4>1. Installed(s)' => Installed(s)
        <5>1. s # "plugin" /\ x # <<"config", "">> BY <1>3, <1>6, <1>13 DEF Scope, Never
        <5> QED BY <5>1, <3>2, <1>5 DEF Effect, Installed
      <4> QED BY <4>1, <3>2, <2>1, <1>7, <1>o DEF TakesAway
    <3> QED BY <3>1, <3>2
  <2>5. Todo(c, <<"autoOff", "">>)' => x # <<"unitGone", "">> /\ x # <<"configEmpty", "">>
      BY <2>0, <1>1, <1>2, <1>3, <1>o, Orders DEF Shorter
  <2>6. Todo(c, <<"autoOff", "">>)' => Todo(c, <<"unitGone", "">>)'
      BY <2>1, <2>5, <1>7, <1>o DEF TakesAway
  <2>7. unit'[s] = "none" \/ Todo(c, <<"unitGone", "">>)'
    <3>1. CASE x = <<"unitGone", "">> BY <3>1, <1>5 DEF Effect
    <3>2. CASE x = <<"autoOff", "">>
      <4>1. Todo(c, <<"unitGone", "">>) /\ x # <<"unitGone", "">> BY <3>2, <2>1, <1>7, <1>o DEF TakesAway
      <4> QED BY <4>1, <1>7, <1>o
    <3>3. CASE x \notin {<<"unitGone", "">>, <<"autoOff", "">>}
      <4>1. unit'[s] = unit[s] BY <3>3, <1>5, <1>6, <1>13 DEF Effect, Never
      <4> QED BY <4>1, <3>3, <2>1, <1>7, <1>o DEF TakesAway
    <3> QED BY <3>1, <3>2, <3>3
  <2>8. ~auto'[s] \/ Todo(c, <<"autoOff", "">>)'
    <3>1. CASE x = <<"autoOff", "">> BY <3>1, <1>5 DEF Effect
    <3>2. CASE x # <<"autoOff", "">> BY <3>2, <2>1, <1>5, <1>7, <1>o DEF Effect, TakesAway
    <3> QED BY <3>1, <3>2
  <2> QED BY <2>3, <2>4, <2>5, <2>6, <2>7, <2>8 DEF TakesAway
<1>14. Plans(c)' BY <1>2, <1>4, <1>8, <1>12, <1>13 DEF Plans
<1>15. Placed(c)'
  <2>1. cmd[c].was \/ j.action \notin {"install", "uninstall", "unplug"} => Installed(s)' /\ j.action # "uninstall"
      BY <1>1, <1>2, <1>3, <1>4, <1>6, <1>11 DEF Placed, Never, Installs
  <2> QED BY <1>1, <1>2, <1>3, <1>4, <2>1 DEF Placed, Active
<1>16. ScopeInv(s)'
  <2>1. intact'[s] \notin Cmd BY <1>1, <1>2, <1>3, <1>4 DEF ScopeInv
  <2>2. CASE x = <<"configEmpty", "">>
    <3>1. j.action = "uninstall" BY <2>2, <1>6 DEF Never
    <3>2. ~auto'[s] /\ svc'[s] = "stopped" BY <3>1, <2>2, <1>1, <1>3, <1>4, <1>13 DEF Placed
    <3> QED BY <2>1, <3>2 DEF ScopeInv
  <2>3. CASE x # <<"configEmpty", "">>
    <3>1. auto'[s] => auto[s] BY <1>5 DEF Effect
    <3> QED BY <2>1, <2>3, <3>1, <1>3, <1>4, <1>11 DEF ScopeInv
  <2> QED BY <2>2, <2>3
<1>17. CommandInv(c)' BY <1>14, <1>15 DEF CommandInv
<1> QED BY <1>1, <1>2, <1>3, <1>4, <1>16, <1>17, Concludes

-----------------------------------------------------------------------------
(* The other steps.  A command that is through with its work starts the    *)
(* service again or leaves.                                                *)
Resumes(c) ==
    /\ cmd' \in [Cmd -> Command] /\ lock' \in [Scope -> Cmd \cup {Nobody}]
    /\ cmd'[c].pc = IF cmd[c].was THEN "starting" ELSE "ended"
    /\ cmd'[c].job = cmd[c].job /\ cmd'[c].was = cmd[c].was
    /\ \A d \in Cmd : d # c => cmd'[d] = cmd[d]
    /\ \A r \in Scope : r # S(c) => lock'[r] = lock[r]
    /\ cmd[c].was => lock' = lock

LEMMA Resuming ==
    ASSUME InstallInv, NEW c \in Cmd, cmd[c].pc = "working", comps' = comps, Resumes(c)
    PROVE  CommandInv(c)' /\ ~Underway(c)' /\ (Active(c)' => lock'[S(c)] = c)
<1>1. Active(c) BY DEF Active
<1>2. Placed(c) /\ lock[S(c)] = c BY <1>1, Alone DEF CommandInv
<1>3. ~Underway(c)' BY DEF Resumes, Underway
<1>4. S(c)' = S(c) /\ (Installed(S(c)) <=> Installed(S(c))') BY DEF S, Installed, Resumes
<1>5. Placed(c)'
  <2>1. CASE cmd[c].was
    <3>1. Installed(S(c)) /\ (Installs(cmd[c].job) \/ cmd[c].job.action = "unplug") BY <2>1, <1>1, <1>2 DEF Placed
    <3>2. cmd[c].job.action # "uninstall" BY <3>1 DEF Installs
    <3>3. cmd'[c].pc = "starting" BY <2>1 DEF Resumes
    <3> QED BY <3>1, <3>2, <3>3, <1>2, <1>4 DEF Placed, Resumes
  <2>2. CASE ~cmd[c].was
    <3>1. cmd'[c].pc = "ended" BY <2>2 DEF Resumes
    <3> QED BY <2>2, <3>1, <1>2 DEF Placed, Resumes, Active
  <2> QED BY <2>1, <2>2
<1> QED BY <1>2, <1>3, <1>5 DEF CommandInv, Resumes, Active

LEMMA WorkFailsOwn ==
    ASSUME InstallInv, NEW c \in Cmd, WorkFails(c)
    PROVE  /\ cmd[c].pc = "working" /\ Resumes(c) /\ InstallTypeOK' /\ Only(c, S(c)) /\ First(c, Op(c))
           /\ UNCHANGED <<comps, unit, auto, shared, svc, intact>> /\ ~apart'
           /\ \E left \in Promoted(c) :
                /\ cmd'[c].backup = left.aside
                /\ \A q \in Part : file'[S(c)][q] = IF Op(c)[1] = "in" /\ Op(c)[2] = q THEN left.now ELSE file[S(c)][q]
<1>0. Active(c) /\ cmd[c].pc = "working" /\ cmd[c].todo # <<>> BY DEF WorkFails, At, Active
<1>1. S(c) \in Scope /\ cmd[c] \in Command /\ InstallTypeOK BY <1>0, Alone
<1>2. First(c, Op(c))
  <2>1. Op(c) = Head(cmd[c].todo) /\ Head(cmd[c].todo) \in OpType BY <1>0, <1>1 DEF Op, Command
  <2> QED BY <2>1, <1>0 DEF First
<1>3. Op(c)[1] = "in" => Op(c)[2] \in Part BY <1>2, Operations DEF First
<1>4. PICK left \in Promoted(c) :
        /\ file' = IF Op(c)[1] = "in" THEN [file EXCEPT ![S(c)][Op(c)[2]] = left.now] ELSE file
        /\ cmd' = [cmd EXCEPT ![c] = [@ EXCEPT !.pc = IF cmd[c].was THEN "starting" ELSE "ended",
                                              !.todo = <<>>, !.backup = left.aside]]
    BY DEF WorkFails
<1>b. left.now \in Cmd \cup {Absent} /\ left.aside \in Cmd \cup {Absent}
    BY <1>1 DEF Promoted, Command
<1>5. /\ file' \in [Scope -> [Part -> Cmd \cup {Absent}]] /\ \A r \in Scope : r # S(c) => file'[r] = file[r]
      /\ \A q \in Part : file'[S(c)][q] = IF Op(c)[1] = "in" /\ Op(c)[2] = q THEN left.now ELSE file[S(c)][q]
  <2>1. PICK p, b, s : p = Op(c)[2] /\ b = left.now /\ s = S(c) OBVIOUS
  <2>2. CASE Op(c)[1] = "in"
    <3>1. file' = [file EXCEPT ![s][p] = b] BY <2>1, <2>2, <1>4
    <3> QED BY <3>1, <2>1, <2>2, <1>1, <1>3, <1>b DEF InstallTypeOK
  <2>3. CASE Op(c)[1] # "in"
    <3>1. file' = file BY <2>3, <1>4
    <3> QED BY <3>1, <2>3, <1>1 DEF InstallTypeOK
  <2> QED BY <2>2, <2>3
<1>6. Resumes(c) /\ cmd'[c].backup = left.aside
  <2> DEFINE new == [cmd[c] EXCEPT !.pc = IF cmd[c].was THEN "starting" ELSE "ended",
                                   !.todo = <<>>, !.backup = left.aside]
  <2>1. cmd' = [cmd EXCEPT ![c] = new] BY <1>1, <1>4 DEF InstallTypeOK
  <2>2. <<>> \in Seq(OpType) OBVIOUS
  <2>3. new \in Command /\ new.job = cmd[c].job /\ new.was = cmd[c].was /\ new.backup = left.aside
        /\ new.pc = IF cmd[c].was THEN "starting" ELSE "ended"
      BY <2>2, <1>1, <1>b DEF Command, Pc
  <2>4. lock' = IF cmd[c].was THEN lock ELSE [lock EXCEPT ![S(c)] = Nobody] BY DEF WorkFails
  <2> HIDE DEF new
  <2>5. lock' \in [Scope -> Cmd \cup {Nobody}] /\ \A r \in Scope : r # S(c) => lock'[r] = lock[r]
      BY <2>4, <1>1 DEF InstallTypeOK
  <2>6. /\ cmd' \in [Cmd -> Command] /\ cmd'[c] = new /\ \A d \in Cmd : d # c => cmd'[d] = cmd[d]
      BY <2>1, <2>3, <1>1 DEF InstallTypeOK
  <2> QED BY <2>3, <2>4, <2>5, <2>6 DEF Resumes
<1>7. UNCHANGED <<comps, unit, auto, shared, svc, intact>> /\ ~apart' BY DEF WorkFails
<1>a. apart' \in BOOLEAN BY DEF WorkFails
<1>8. InstallTypeOK' BY <1>1, <1>5, <1>6, <1>7, <1>a DEF InstallTypeOK, Resumes
<1>9. Only(c, S(c)) BY <1>5, <1>6, <1>7 DEF Only, Resumes
<1> QED BY <1>0, <1>2, <1>5, <1>6, <1>7, <1>8, <1>9

LEMMA WorkFailsInv == ASSUME InstallInv, NEW c \in Cmd, WorkFails(c) PROVE InstallInv'
<1>1. PICK s : s = S(c) OBVIOUS
<1>2. /\ cmd[c].pc = "working" /\ Resumes(c) /\ InstallTypeOK' /\ Only(c, s)
      /\ UNCHANGED <<comps, auto, svc, intact>>
    BY <1>1, WorkFailsOwn
<1>3. Active(c) /\ Underway(c) BY <1>2 DEF Active, Underway
<1>4. /\ (\A d \in Cmd : d # c /\ Active(d) => S(d) # s) /\ s \in Scope /\ Placed(c) /\ ScopeInv(s)
    BY <1>1, <1>3, Alone DEF CommandInv
<1>5. CommandInv(c)' /\ (Active(c)' => lock'[s] = c) BY <1>1, <1>2, Resuming
<1>6. ScopeInv(s)'
  <2>1. intact'[s] \notin Cmd BY <1>1, <1>2, <1>3, <1>4 DEF ScopeInv, Placed
  <2> QED BY <2>1, <1>2, <1>4 DEF ScopeInv, Installed
<1>7. cmd'[c].job.scope = s BY <1>1, <1>2 DEF Resumes, S
<1> QED BY <1>1, <1>2, <1>4, <1>5, <1>6, <1>7, Concludes

LEMMA WorkedOwn ==
    ASSUME InstallInv, NEW c \in Cmd, Worked(c)
    PROVE  /\ cmd[c].pc = "working" /\ cmd[c].todo = <<>> /\ Resumes(c) /\ InstallTypeOK' /\ Only(c, S(c))
           /\ UNCHANGED <<file, comps, unit, auto, shared, svc, apart>>
           /\ intact'[S(c)] = c
<1>0. Active(c) /\ cmd[c].pc = "working" /\ cmd[c].todo = <<>> BY DEF Worked, At, Active
<1>1. S(c) \in Scope /\ cmd[c] \in Command /\ InstallTypeOK BY <1>0, Alone
<1>2. Resumes(c)
  <2>1. CASE cmd[c].was
    <3>1. cmd' = [cmd EXCEPT ![c] = [cmd[c] EXCEPT !.pc = "starting"]] /\ lock' = lock
        BY <2>1 DEF Worked, Goes
    <3>3. [cmd[c] EXCEPT !.pc = "starting"] \in Command BY <1>1 DEF Command, Pc
    <3> QED BY <2>1, <3>1, <3>3, <1>1 DEF Resumes, InstallTypeOK, Command
  <2>2. CASE ~cmd[c].was
    <3>1. Leaves(c) BY <2>2 DEF Worked
    <3> QED BY <2>2, <3>1, <1>0, LeavesOwn DEF Resumes
  <2> QED BY <2>1, <2>2
<1>3. UNCHANGED <<file, comps, unit, auto, shared, svc, apart>> BY DEF Worked, tree
<1>4. /\ intact' \in [Scope -> Cmd \cup {Nobody}] /\ intact'[S(c)] = c
      /\ \A r \in Scope : r # S(c) => intact'[r] = intact[r]
    BY <1>1 DEF Worked, InstallTypeOK
<1>5. InstallTypeOK' BY <1>1, <1>2, <1>3, <1>4 DEF InstallTypeOK, Resumes
<1>6. Only(c, S(c)) BY <1>2, <1>3, <1>4 DEF Only, Resumes
<1> QED BY <1>0, <1>2, <1>3, <1>4, <1>5, <1>6

LEMMA WorkedInv == ASSUME InstallInv, NEW c \in Cmd, Worked(c) PROVE InstallInv'
<1>1. PICK s, j : s = S(c) /\ j = cmd[c].job OBVIOUS
<1>2. /\ cmd[c].pc = "working" /\ cmd[c].todo = <<>> /\ Resumes(c) /\ InstallTypeOK' /\ Only(c, s)
      /\ UNCHANGED <<file, comps, unit, auto, svc>> /\ intact'[s] = c
    BY <1>1, WorkedOwn
<1>3. Active(c) /\ Underway(c) BY <1>2 DEF Active, Underway
<1>4. /\ (\A d \in Cmd : d # c /\ Active(d) => S(d) # s) /\ s \in Scope /\ Placed(c) /\ ScopeInv(s) /\ Plans(c)
    BY <1>1, <1>3, Alone DEF CommandInv
<1>5. CommandInv(c)' /\ ~Underway(c)' /\ (Active(c)' => lock'[s] = c) BY <1>1, <1>2, Resuming
<1>6. cmd'[c].job = j /\ S(c)' = s /\ cmd'[c].pc # "idle" BY <1>1, <1>2 DEF Resumes, S
<1>7. Whole(s, c, j)
  <2>1. \A x : ~Todo(c, x)
    <3>1. Len(cmd[c].todo) = 0 BY <1>2
    <3> QED BY <3>1 DEF Todo, Has
  <2>2. j.action = "install" => Installs(j) BY DEF Installs
  <2>3. Installs(j) => Brings(c, s, j) BY <1>1, <1>4 DEF Plans
  <2>4. j.action = "uninstall" => TakesAway(c, s, j) BY <1>1, <1>4 DEF Plans
  <2>5. j.action = "uninstall" => svc[s] = "stopped" BY <1>1, <1>2, <1>4 DEF Placed
  <2> QED BY <2>1, <2>2, <2>3, <2>4, <2>5 DEF Whole, Brings, TakesAway, Installed
<1>8. Whole(s, c, j)' BY <1>2, <1>7 DEF Whole, Installed
<1>9. ASSUME NEW d \in Cmd, Underway(d)', S(d)' = s PROVE FALSE
  <2>1. d # c BY <1>5, <1>9
  <2>2. cmd'[d] = cmd[d] BY <2>1, <1>2 DEF Resumes
  <2>3. Active(d) /\ S(d) = s BY <2>2, <1>9 DEF Active, Underway, S
  <2> QED BY <2>1, <2>3, <1>4
<1>10. ScopeInv(s)'
  <2>1. Whole(s, intact[s], cmd[intact[s]].job)' BY <1>2, <1>6, <1>8 DEF Whole, Installed
  <2> QED BY <2>1, <1>2, <1>4, <1>6, <1>9 DEF ScopeInv, Installed, S
<1> QED BY <1>1, <1>2, <1>4, <1>5, <1>6, <1>10, Concludes DEF S

LEMMA UnlockInv == ASSUME InstallInv, NEW s \in Scope, Unlock(s) PROVE InstallInv'
<1>0. UNCHANGED <<file, comps, unit, auto, shared, svc, cmd, intact, apart>> BY DEF Unlock, tree
<1>1. InstallTypeOK' BY <1>0 DEF InstallInv, InstallTypeOK, Unlock
<1>2. Exclusive'
  <2> SUFFICES ASSUME NEW c \in Cmd, Active(c) PROVE lock'[S(c)] = c BY <1>0 DEF Exclusive, Active, S
  <2>1. lock[S(c)] = c /\ S(c) \in Scope BY Alone
  <2>2. S(c) # s BY <2>1 DEF Unlock, At, Active
  <2> QED BY <2>1, <2>2 DEF Unlock, InstallInv, InstallTypeOK
<1>3. ASSUME NEW c \in Cmd PROVE CommandInv(c)' BY <1>0, KeepsCommand DEF InstallInv
<1>4. ASSUME NEW r \in Scope PROVE ScopeInv(r)'
  <2>1. ScopeInv(r) BY DEF InstallInv
  <2> QED BY <2>1, <1>0 DEF ScopeInv, Installed, S, Underway, Whole
<1> QED BY <1>1, <1>2, <1>3, <1>4 DEF InstallInv

LEMMA ServiceInv == ASSUME InstallInv, NEW s \in Scope, Crash(s) \/ Revive(s) PROVE InstallInv'
<1>0. UNCHANGED <<lock, file, comps, unit, auto, shared, cmd, intact, apart>> BY DEF Crash, Revive, tree
<1>a. svc \in [Scope -> {"stopped", "activating", "running"}] BY DEF InstallInv, InstallTypeOK
<1>b. /\ svc' \in [Scope -> {"stopped", "activating", "running"}]
      /\ \A r \in Scope : svc[r] = "stopped" => svc'[r] = "stopped"
    BY <1>a DEF Crash, Revive
<1>1. InstallTypeOK' BY <1>0, <1>b DEF InstallInv, InstallTypeOK
<1>2. Exclusive' BY <1>0 DEF InstallInv, Exclusive, Active, S
<1>3. ASSUME NEW c \in Cmd PROVE CommandInv(c)'
  <2>1. S(c) \in Scope BY Scopes DEF InstallInv
  <2> QED BY <2>1, <1>0, <1>b, KeepsCommand DEF InstallInv
<1>4. ASSUME NEW r \in Scope PROVE ScopeInv(r)'
  <2>1. ScopeInv(r) BY DEF InstallInv
  <2> QED BY <2>1, <1>0, <1>b DEF ScopeInv, Installed, S, Underway, Whole
<1> QED BY <1>1, <1>2, <1>3, <1>4 DEF InstallInv

LEMMA InstallInit == Init => InstallInv
<1> SUFFICES ASSUME Init PROVE InstallInv OBVIOUS
<1>1. Nothing \in Command
  <2>1. <<>> \in Seq(OpType) OBVIOUS
  <2> QED BY <2>1 DEF Nothing, Command, Pc, JobType, Scope
<1>2. InstallTypeOK BY <1>1 DEF Init, InstallTypeOK, Part
<1>3. \A c \in Cmd : cmd[c] = Nothing BY DEF Init
<1>4. Exclusive BY <1>3 DEF Exclusive, Active, Nothing
<1>5. ASSUME NEW c \in Cmd PROVE CommandInv(c)
  <2>1. cmd[c] = Nothing BY <1>3
  <2>2. cmd[c].pc = "idle" /\ cmd[c].job.tool = "drdsh" /\ ~cmd[c].was BY <2>1 DEF Nothing
  <2> QED BY <2>1, <2>2 DEF CommandInv, Placed, Active, Underway
<1>6. ASSUME NEW s \in Scope PROVE ScopeInv(s) BY DEF Init, ScopeInv, Nobody, Cmd
<1> QED BY <1>2, <1>4, <1>5, <1>6 DEF InstallInv

LEMMA InstallStep == InstallInv /\ [Next]_vars => InstallInv'
<1> SUFFICES ASSUME InstallInv, [Next]_vars PROVE InstallInv' OBVIOUS
<1>1. CASE UNCHANGED vars
  <2>0. UNCHANGED <<lock, file, comps, unit, auto, shared, svc, cmd, intact, apart>> BY <1>1 DEF vars, tree
  <2>1. InstallTypeOK' BY <2>0 DEF InstallInv, InstallTypeOK
  <2>2. Exclusive' BY <2>0 DEF InstallInv, Exclusive, Active, S
  <2>3. ASSUME NEW c \in Cmd PROVE CommandInv(c)' BY <2>0, KeepsCommand DEF InstallInv
  <2>4. ASSUME NEW r \in Scope PROVE ScopeInv(r)'
    <3>1. ScopeInv(r) BY DEF InstallInv
    <3> QED BY <3>1, <2>0 DEF ScopeInv, Installed, S, Underway, Whole
  <2> QED BY <2>1, <2>2, <2>3, <2>4 DEF InstallInv
<1>2. ASSUME NEW c \in Cmd, NEW j \in Job, Begin(c, j) PROVE InstallInv' BY <1>2, BeginInv
<1>3. ASSUME NEW c \in Cmd, Check(c) PROVE InstallInv' BY <1>3, CheckInv
<1>4. ASSUME NEW c \in Cmd, Refuse(c) PROVE InstallInv' BY <1>4, RefuseInv
<1>5. ASSUME NEW c \in Cmd, ReadState(c) PROVE InstallInv' BY <1>5, ReadStateInv
<1>6. ASSUME NEW c \in Cmd, Stop(c) PROVE InstallInv' BY <1>6, StopInv
<1>7. ASSUME NEW c \in Cmd, StopFails(c) PROVE InstallInv' BY <1>7, StopFailsInv
<1>8. ASSUME NEW c \in Cmd, Operation(c) PROVE InstallInv' BY <1>8, OperationInv
<1>9. ASSUME NEW c \in Cmd, WorkFails(c) PROVE InstallInv' BY <1>9, WorkFailsInv
<1>10. ASSUME NEW c \in Cmd, Worked(c) PROVE InstallInv' BY <1>10, WorkedInv
<1>11. ASSUME NEW c \in Cmd, Start(c) \/ StartFails(c) \/ Switch(c) PROVE InstallInv' BY <1>11, StartInv
<1>12. ASSUME NEW c \in Cmd, Kill(c) PROVE InstallInv' BY <1>12, KillInv
<1>13. ASSUME NEW s \in Scope, Unlock(s) PROVE InstallInv' BY <1>13, UnlockInv
<1>14. ASSUME NEW s \in Scope, Crash(s) \/ Revive(s) PROVE InstallInv' BY <1>14, ServiceInv
<1> QED BY <1>1, <1>2, <1>3, <1>4, <1>5, <1>6, <1>7, <1>8, <1>9, <1>10, <1>11, <1>12, <1>13, <1>14 DEF Next

(* Whatever failed, was killed or is going on in the other component: a    *)
(* command that ended in success achieved all that it is for, and the      *)
(* component stays so until the next one changes it.                       *)
THEOREM SuccessHolds == Spec => []SuccessIsWhole
<1>1. InstallInv => SuccessIsWhole BY DEF InstallInv, ScopeInv, SuccessIsWhole
<1> QED BY <1>1, InstallInit, InstallStep, PTL DEF Spec
-----------------------------------------------------------------------------
(* What runs has its program.  A command that does not stand between the   *)
(* two moves of the program finds it in its place.                         *)
LEMMA InPlace ==
    ASSUME InstallInv, NEW c \in Cmd, Active(c), NEW tool, There(S(c), tool),
           ~(cmd[c].pc = "working" /\ Op(c) = <<"in", Program(tool)>>)
    PROVE  file[S(c)][Program(tool)] # Absent
<1>1. \A d \in Cmd : d # c /\ Active(d) => S(d) # S(c) BY Alone
<1>2. \A d \in Cmd : cmd[d].pc = "working" => Active(d) BY DEF Active
<1> QED BY <1>1, <1>2 DEF There

(* What was left aside stays there.                                        *)
Keeps(c) == cmd[c].pc = "starting" => cmd'[c].pc \in {"ended", "killed"} /\ cmd'[c].backup = cmd[c].backup

LEMMA StillClean ==
    ASSUME NEW c \in Cmd, NEW s, Only(c, s), NEW r, NEW tool, Clean(r, tool)', cmd'[c].pc # "idle", Keeps(c),
           cmd[c].pc = "idle" \/ (Active(c) /\ cmd'[c].job = cmd[c].job)
    PROVE  Clean(r, tool)
<1>1. Lost(c) /\ Active(c) => Lost(c)' BY DEF Lost, Active, Keeps
<1>2. cmd[c].pc = "idle" => ~Lost(c) BY DEF Lost
<1>3. \A d \in Cmd : d # c => cmd'[d] = cmd[d] BY DEF Only
<1> QED BY <1>1, <1>2, <1>3 DEF Clean, S, Lost

LEMMA Backs ==
    ASSUME InstallInv, RunsFrom, NEW c \in Cmd, NEW s \in Scope, Only(c, s), Keeps(c),
           cmd'[c].job.scope = s, cmd'[c].pc # "idle",
           cmd[c].pc = "idle" \/ (Active(c) /\ S(c) = s /\ cmd'[c].job = cmd[c].job),
           \A tool \in {"drdsh", "relayctl"} :
             Clean(s, tool) /\ Clean(s, tool)' /\ Backed(s, tool) => Backed(s, tool)'
    PROVE  RunsFrom'
<1> SUFFICES ASSUME NEW r \in Scope, NEW tool \in {"drdsh", "relayctl"}, Clean(r, tool)'
             PROVE  Backed(r, tool)'
    BY DEF RunsFrom
<1>1. Clean(r, tool) BY StillClean
<1>2. Backed(r, tool) BY <1>1 DEF RunsFrom
<1>3. CASE r = s BY <1>1, <1>2, <1>3
<1>4. CASE r # s
  <2>1. file'[r] = file[r] /\ unit'[r] = unit[r] /\ svc'[r] = svc[r] BY <1>4 DEF Only
  <2>2. \A d \in Cmd : (S(d) = r)' => d # c /\ cmd'[d] = cmd[d] BY <1>4 DEF Only, S
  <2>3. \A d \in Cmd : S(d) = r /\ cmd[d].pc = "working" => d # c /\ cmd'[d] = cmd[d] BY <1>4 DEF Only, S
  <2>4. There(r, tool) => There(r, tool)' BY <2>1, <2>3 DEF There, S, Op
  <2>5. \A d \in Cmd : (Active(d) /\ S(d) = r /\ cmd[d].was)' => Active(d) /\ S(d) = r /\ cmd[d].was
      BY <2>2 DEF Active, S
  <2> QED BY <1>2, <2>1, <2>4, <2>5 DEF Backed
<1> QED BY <1>3, <1>4

(* A step that leaves the program where it is. *)
LEMMA BacksOwn ==
    ASSUME InstallInv, NEW c \in Cmd, Active(c), Only(c, S(c)), cmd'[c].job = cmd[c].job,
           NEW tool \in {"drdsh", "relayctl"}, Backed(S(c), tool),
           There(S(c), tool) => file[S(c)][Program(tool)] # Absent,
           file'[S(c)] = file[S(c)], unit'[S(c)] \in {unit[S(c)], "none", Program(tool)},
           svc'[S(c)] = "running" => svc[S(c)] = "running" \/ file[S(c)][Program(tool)] # Absent,
           cmd'[c].was => cmd[c].was \/ svc[S(c)] = "running"
    PROVE  Backed(S(c), tool)'
<1>1. PICK s : s = S(c) OBVIOUS
<1>2. S(c)' = s BY <1>1 DEF S
<1>3. There(s, tool) => file[s][Program(tool)] # Absent BY <1>1
<1>4. file[s][Program(tool)] # Absent => There(s, tool)' BY <1>1 DEF There
<1>5. \A d \in Cmd : (Active(d) /\ S(d) = s /\ cmd[d].was)' =>
        (Active(d) /\ S(d) = s /\ cmd[d].was) \/ svc[s] = "running"
    BY <1>1 DEF Only, Active, S
<1>6. Backed(s, tool)' BY <1>1, <1>3, <1>4, <1>5 DEF Backed
<1> QED BY <1>1, <1>2, <1>6 DEF Backed, There, S

(* Such a step, of a command of the tool that manages the component. *)
LEMMA PlainStep ==
    ASSUME InstallInv, RunsFrom, NEW c \in Cmd, Active(c), Only(c, S(c)), cmd'[c].job = cmd[c].job,
           cmd'[c].pc # "idle", Keeps(c), file'[S(c)] = file[S(c)],
           unit'[S(c)] \in {unit[S(c)], "none", Program(cmd[c].job.tool)},
           svc'[S(c)] = "running" => svc[S(c)] = "running" \/ file[S(c)][Program(cmd[c].job.tool)] # Absent,
           cmd'[c].was => cmd[c].was \/ svc[S(c)] = "running",
           cmd[c].pc = "working" /\ Op(c) = <<"in", Program(cmd[c].job.tool)>> =>
             cmd'[c].pc = "killed" /\ cmd'[c].backup = cmd[c].backup
    PROVE  RunsFrom'
<1>1. PICK s : s = S(c) OBVIOUS
<1>2. s \in Scope /\ cmd'[c].job.scope = s /\ S(c)' = s BY <1>1, Alone DEF S
<1>3. ASSUME NEW tool \in {"drdsh", "relayctl"}, Clean(s, tool), Clean(s, tool)', Backed(s, tool)
      PROVE  Backed(s, tool)'
  <2>1. cmd[c].job.tool = tool BY <1>1, <1>3 DEF Clean, Active
  <2>2. There(s, tool) => file[s][Program(tool)] # Absent
    <3>1. CASE cmd[c].pc = "working" /\ Op(c) = <<"in", Program(tool)>>
      <4>1. cmd[c].backup = Absent
        <5>1. cmd'[c].pc = "killed" /\ cmd'[c].backup = cmd[c].backup BY <2>1, <3>1
        <5>2. ~Lost(c)' BY <5>1, <1>2, <1>3 DEF Clean
        <5> QED BY <5>1, <5>2 DEF Lost
      <4>2. \A d \in Cmd : S(d) = s /\ cmd[d].pc = "working" => d = c BY <1>1, Alone DEF Active
      <4> QED BY <4>1, <4>2 DEF There
    <3>2. CASE ~(cmd[c].pc = "working" /\ Op(c) = <<"in", Program(tool)>>) BY <3>2, <1>1, InPlace
    <3> QED BY <3>1, <3>2
  <2>3. Backed(S(c), tool)' BY <2>1, <2>2, <1>1, <1>3, BacksOwn
  <2> QED BY <2>3, <1>2 DEF Backed, There, S
<1> QED BY <1>1, <1>2, <1>3, Backs

LEMMA BeginRuns == ASSUME InstallInv, RunsFrom, NEW c \in Cmd, NEW j \in Job, Begin(c, j) PROVE RunsFrom'
<1>1. PICK s : s = j.scope OBVIOUS
<1>2. s \in Scope /\ InstallTypeOK /\ cmd[c] \in Command /\ cmd[c].pc = "idle" /\ ~cmd[c].was
  <2>1. InstallTypeOK /\ cmd[c].pc = "idle" /\ cmd[c] = Nothing BY DEF InstallInv, Begin, At, CommandInv, Placed
  <2> QED BY <2>1, <1>1, Jobs, Scopes DEF Nothing, JobType
<1>3. /\ cmd'[c].pc = "checking" /\ cmd'[c].job = j /\ ~cmd'[c].was
      /\ \A d \in Cmd : d # c => cmd'[d] = cmd[d]
  <2>1. cmd' = [cmd EXCEPT ![c] = [cmd[c] EXCEPT !.pc = "checking", !.job = j]]
      BY <1>2 DEF Begin, InstallTypeOK
  <2> QED BY <2>1, <1>2 DEF Command, InstallTypeOK
<1>4. UNCHANGED <<file, comps, unit, auto, svc, intact>> BY DEF Begin, tree
<1>5. Only(c, s) BY <1>1, <1>2, <1>3, <1>4 DEF Only, Begin, InstallTypeOK
<1>6. ASSUME NEW tool \in {"drdsh", "relayctl"}, Backed(s, tool) PROVE Backed(s, tool)'
  <2>1. There(s, tool) => There(s, tool)' BY <1>2, <1>3, <1>4 DEF There, S, Op
  <2>2. \A d \in Cmd : (Active(d) /\ S(d) = s /\ cmd[d].was)' => Active(d) /\ S(d) = s /\ cmd[d].was
      BY <1>3 DEF Active, S
  <2> QED BY <2>1, <2>2, <1>4, <1>6 DEF Backed
<1>7. Keeps(c) BY <1>2 DEF Keeps
<1> QED BY <1>1, <1>2, <1>3, <1>5, <1>6, <1>7, Backs

LEMMA CheckOwn == ASSUME InstallInv, NEW c \in Cmd, Check(c)
                  PROVE  /\ Active(c) /\ cmd[c].pc = "checking" /\ Only(c, S(c))
                         /\ cmd'[c].pc = "reading" /\ cmd'[c].job = cmd[c].job /\ cmd'[c].was = cmd[c].was
                         /\ cmd'[c].todo = Work(cmd[c].job)
                         /\ UNCHANGED <<lock, file, comps, unit, auto, shared, svc, apart>>
<1>0. Active(c) /\ cmd[c].pc = "checking" BY DEF Check, At, Active
<1>1. S(c) \in Scope /\ InstallTypeOK /\ cmd[c] \in Command BY <1>0, Alone
<1>2. cmd' = [cmd EXCEPT ![c] = [cmd[c] EXCEPT !.pc = "reading", !.todo = Work(cmd[c].job)]]
    BY <1>1 DEF Check, InstallTypeOK
<1>3. UNCHANGED <<lock, file, comps, unit, auto, shared, svc, apart>> BY DEF Check, tree
<1>4. /\ cmd'[c].pc = "reading" /\ cmd'[c].job = cmd[c].job /\ cmd'[c].was = cmd[c].was
      /\ cmd'[c].todo = Work(cmd[c].job) /\ \A d \in Cmd : d # c => cmd'[d] = cmd[d]
  <2>1. PICK w : w = Work(cmd[c].job) OBVIOUS
  <2> QED BY <2>1, <1>1, <1>2 DEF Command, InstallTypeOK
<1>5. \A r \in Scope : r # S(c) => intact'[r] = intact[r] BY <1>1 DEF Check, InstallTypeOK
<1>6. Only(c, S(c)) BY <1>3, <1>4, <1>5 DEF Only
<1> QED BY <1>0, <1>3, <1>4, <1>6

LEMMA ReadStateOwn == ASSUME InstallInv, NEW c \in Cmd, ReadState(c)
                      PROVE  /\ Active(c) /\ cmd[c].pc = "reading" /\ Only(c, S(c))
                             /\ cmd'[c].pc \notin {"idle", "ended"} /\ cmd'[c].job = cmd[c].job
                             /\ cmd'[c].todo = cmd[c].todo /\ cmd'[c].seen = cmd[c].seen
                             /\ cmd'[c].was => svc[S(c)] = "running"
                             /\ UNCHANGED <<lock, file, comps, unit, auto, shared, svc, intact, apart>>
<1>0. Active(c) /\ cmd[c].pc = "reading" BY DEF ReadState, At, Active
<1>1. S(c) \in Scope /\ InstallTypeOK /\ cmd[c] \in Command BY <1>0, Alone
<1>2. PICK w, pc : /\ cmd' = [cmd EXCEPT ![c].was = w, ![c].pc = pc] /\ (w => svc[S(c)] = "running")
                   /\ pc \notin {"idle", "ended"}
  <2> DEFINE j == cmd[c].job
             runs == Installed(S(c)) /\ svc[S(c)] = "running"
             w == runs /\ (Installs(j) \/ j.action = "unplug")
             pc == CASE Installs(j)              -> IF runs THEN "stopping" ELSE "working"
                     [] Removes(j)               -> IF Installed(S(c)) THEN "stopping" ELSE "working"
                     [] j.action = "start"       -> "starting"
                     [] j.action \in {"stop", "restart"} -> "stopping"
                     [] OTHER                    -> "switching"
  <2>1. cmd' = [cmd EXCEPT ![c].was = w, ![c].pc = pc] BY DEF ReadState
  <2>2. pc \notin {"idle", "ended"} OBVIOUS
  <2>3. w => svc[S(c)] = "running" OBVIOUS
  <2> HIDE DEF w, pc
  <2> QED BY <2>1, <2>2, <2>3
<1>3. cmd' = [cmd EXCEPT ![c] = [cmd[c] EXCEPT !.was = w, !.pc = pc]] BY <1>1, <1>2 DEF InstallTypeOK
<1>4. /\ cmd'[c].pc = pc /\ cmd'[c].job = cmd[c].job /\ cmd'[c].was = w /\ cmd'[c].todo = cmd[c].todo
      /\ cmd'[c].seen = cmd[c].seen /\ \A d \in Cmd : d # c => cmd'[d] = cmd[d]
    BY <1>1, <1>3 DEF Command, InstallTypeOK
<1>5. UNCHANGED <<lock, file, comps, unit, auto, shared, svc, intact, apart>> BY DEF ReadState, tree
<1>6. Only(c, S(c)) BY <1>4, <1>5 DEF Only
<1> QED BY <1>0, <1>2, <1>4, <1>5, <1>6

LEMMA StopOwn == ASSUME InstallInv, NEW c \in Cmd, Stop(c) \/ StopFails(c)
                 PROVE  /\ Active(c) /\ cmd[c].pc = "stopping" /\ Only(c, S(c))
                        /\ cmd'[c].pc # "idle" /\ cmd'[c].job = cmd[c].job /\ cmd'[c].was = cmd[c].was
                        /\ cmd'[c].pc # "ended" => cmd'[c].todo = cmd[c].todo /\ cmd'[c].seen = cmd[c].seen
                        /\ UNCHANGED <<file, comps, unit, auto, shared, intact, apart>>
                        /\ svc'[S(c)] \in {svc[S(c)], "stopped"}
<1>0. Active(c) /\ cmd[c].pc = "stopping" BY DEF Stop, StopFails, At, Active
<1>1. S(c) \in Scope /\ InstallTypeOK /\ cmd[c] \in Command BY <1>0, Alone
<1>2. UNCHANGED <<file, comps, unit, auto, shared, intact, apart>> BY DEF Stop, StopFails, tree
<1>3. svc'[S(c)] \in {svc[S(c)], "stopped"} /\ \A r \in Scope : r # S(c) => svc'[r] = svc[r]
    BY <1>1 DEF Stop, StopFails, InstallTypeOK
<1>4. CASE Leaves(c)
  <2>1. Only(c, S(c)) BY <1>0, <1>2, <1>3, <1>4, LeavesOwn DEF Only
  <2> QED BY <1>0, <1>2, <1>3, <1>4, <2>1, LeavesOwn
<1>5. CASE ~Leaves(c)
  <2>1. PICK pc : pc \in {"starting", "working"} /\ cmd' = [cmd EXCEPT ![c] = [cmd[c] EXCEPT !.pc = pc]] /\ lock' = lock
      BY <1>5 DEF Stop, StopFails, Goes
  <2>2. /\ cmd'[c].pc = pc /\ cmd'[c].job = cmd[c].job /\ cmd'[c].was = cmd[c].was
        /\ cmd'[c].todo = cmd[c].todo /\ cmd'[c].seen = cmd[c].seen /\ \A d \in Cmd : d # c => cmd'[d] = cmd[d]
      BY <1>1, <2>1 DEF Command, InstallTypeOK
  <2>3. Only(c, S(c)) BY <1>2, <1>3, <2>1, <2>2 DEF Only
  <2> QED BY <1>0, <1>2, <1>3, <2>1, <2>2, <2>3
<1> QED BY <1>4, <1>5

LEMMA RefuseOwn == ASSUME InstallInv, NEW c \in Cmd, Refuse(c)
                   PROVE  /\ Active(c) /\ cmd[c].pc = "checking" /\ Only(c, S(c))
                          /\ cmd'[c].pc = "ended" /\ cmd'[c].job = cmd[c].job /\ cmd'[c].was = cmd[c].was
                          /\ UNCHANGED <<file, comps, unit, auto, shared, svc, intact, apart>>
<1>0. Active(c) /\ cmd[c].pc = "checking" /\ Leaves(c) BY DEF Refuse, At, Active
<1>1. UNCHANGED <<file, comps, unit, auto, shared, svc, intact, apart>> BY DEF Refuse, tree
<1>2. Only(c, S(c)) BY <1>0, <1>1, LeavesOwn DEF Only
<1> QED BY <1>0, <1>1, <1>2, LeavesOwn

LEMMA StartOwn == ASSUME InstallInv, NEW c \in Cmd, Start(c) \/ StartFails(c) \/ Switch(c)
                  PROVE  /\ Active(c) /\ cmd[c].pc \in {"starting", "switching"} /\ Only(c, S(c))
                         /\ cmd'[c].pc = "ended" /\ cmd'[c].job = cmd[c].job /\ cmd'[c].was = cmd[c].was
                         /\ cmd'[c].backup = cmd[c].backup
                         /\ UNCHANGED <<file, comps, shared, intact, apart>>
                         /\ unit'[S(c)] \in {unit[S(c)], Program(cmd[c].job.tool)}
                         /\ \/ cmd[c].pc = "switching" /\ svc' = svc
                            \/ /\ cmd[c].pc = "starting" /\ svc'[S(c)] = "running"
                               /\ svc[S(c)] = "running" \/ file[S(c)][Program(cmd[c].job.tool)] # Absent
                            \/ cmd[c].pc = "starting" /\ svc'[S(c)] = "activating"
                            \/ /\ cmd[c].pc = "starting" /\ svc' = svc
                               /\ file[S(c)][Program(cmd[c].job.tool)] = Absent \/ faults' = faults + 1
<1>0. Active(c) /\ Leaves(c) /\ cmd[c].pc \in {"starting", "switching"} BY DEF Start, StartFails, Switch, At, Active
<1>1. S(c) \in Scope /\ InstallTypeOK BY <1>0, Alone
<1>2. PICK P, prepared : P = Program(cmd[c].job.tool) /\ prepared = [unit EXCEPT ![S(c)] = P] OBVIOUS
<1>3. prepared[S(c)] = P /\ \A r \in Scope : r # S(c) => prepared[r] = unit[r] BY <1>1, <1>2 DEF InstallTypeOK
<1>4. ASSUME unit' \in {unit, prepared},
             \A r \in Scope : r # S(c) => auto'[r] = auto[r] /\ svc'[r] = svc[r],
             UNCHANGED <<file, comps, shared, intact, apart>>
      PROVE  Only(c, S(c)) /\ unit'[S(c)] \in {unit[S(c)], P}
    BY <1>0, <1>3, <1>4, LeavesOwn DEF Only
<1>5. CASE Start(c)
  <2>1. /\ cmd[c].pc = "starting" /\ unit' = prepared /\ UNCHANGED <<file, comps, auto, shared, intact, apart>>
        /\ svc' = [svc EXCEPT ![S(c)] = "running"]
        /\ svc[S(c)] # "running" => file[S(c)][unit'[S(c)]] # Absent
      BY <1>2, <1>5 DEF Start, At
  <2>2. svc'[S(c)] = "running" /\ \A r \in Scope : r # S(c) => svc'[r] = svc[r] BY <2>1, <1>1 DEF InstallTypeOK
  <2> QED BY <2>1, <2>2, <1>0, <1>2, <1>3, <1>4, LeavesOwn
<1>6. CASE StartFails(c)
  <2>1. /\ cmd[c].pc = "starting" /\ unit' \in {unit, prepared} /\ UNCHANGED <<file, comps, auto, shared, intact, apart>>
        /\ \/ svc' = svc /\ file[S(c)][P] = Absent
           \/ svc' = [svc EXCEPT ![S(c)] = "activating"]
           \/ svc' = svc /\ faults' = faults + 1
      BY <1>2, <1>3, <1>6 DEF StartFails, At
  <2>2. /\ \A r \in Scope : r # S(c) => svc'[r] = svc[r]
        /\ svc'[S(c)] = "activating" \/ (svc' = svc /\ (file[S(c)][P] = Absent \/ faults' = faults + 1))
      BY <2>1, <1>1 DEF InstallTypeOK
  <2> QED BY <2>1, <2>2, <1>0, <1>2, <1>4, LeavesOwn
<1>7. CASE Switch(c)
  <2>1. /\ cmd[c].pc = "switching" /\ unit' = prepared /\ svc' = svc /\ UNCHANGED <<file, comps, shared, intact, apart>>
        /\ \A r \in Scope : r # S(c) => auto'[r] = auto[r]
      BY <1>1, <1>2, <1>7 DEF Switch, At, InstallTypeOK
  <2> QED BY <2>1, <1>0, <1>2, <1>4, LeavesOwn
<1> QED BY <1>5, <1>6, <1>7

(* Between the two moves of a program there is none. *)
LEMMA BetweenMoves == ASSUME InstallInv, NEW c \in Cmd, cmd[c].pc = "working", NEW q \in Part, Op(c) = <<"in", q>>
                      PROVE  file[S(c)][q] = Absent
<1>1. Active(c) /\ Underway(c) BY DEF Active, Underway
<1>2. Plans(c) /\ cmd[c] \in Command /\ cmd[c].job \in JobType /\ InstallTypeOK BY <1>1, Alone DEF CommandInv
<1>3. PICK x, w, j : x = Op(c) /\ w = cmd[c].todo /\ j = cmd[c].job OBVIOUS
<1>4. x[1] # "none" BY <1>3, Distinct
<1>5. w # <<>> /\ x = Head(w) BY <1>2, <1>3, <1>4, AtHand DEF First
<1>6. Plan(j, w, 1, 14) BY <1>2, <1>3 DEF Plans, Planned, Plan, Command
<1>7. Rests(j, w) BY <1>5, <1>6, HeadAndTail
<1>8. <<"in", q>> \in OpType /\ <<"out", q>> \in OpType BY DEF OpType
<1>9. Todo(c, <<"in", q>>) BY <1>3, <1>5, <1>7, <1>8 DEF Rests, Todo
<1>10. ~Todo(c, <<"out", q>>)
  <2> SUFFICES ASSUME Todo(c, <<"out", q>>) PROVE FALSE OBVIOUS
  <2>1. <<"out", q>> # x BY <1>3, Distinct
  <2>2. Has(Tail(w), <<"out", q>>) BY <2>1, <1>3, <1>5, <1>7, <1>8 DEF Rests, Todo
  <2>3. Rank(j, x) < Rank(j, <<"out", q>>) /\ Rank(j, <<"out", q>>) \in 1 .. 14 BY <2>2, <1>5, <1>7, <1>8 DEF Rests
  <2>4. Rank(j, x) = Rank(j, <<"out", q>>) + 1 BY <2>3, <1>2, <1>3, Orders
  <2> QED BY <2>3, <2>4
<1> QED BY <1>2, <1>9, <1>10 DEF Plans, MovedIn

LEMMA OperationRuns == ASSUME InstallInv, RunsFrom, NEW c \in Cmd, Operation(c) PROVE RunsFrom'
<1>1. PICK x, s, j : x = Op(c) /\ s = S(c) /\ j = cmd[c].job OBVIOUS
<1>2. /\ Shorter(c, x) /\ Rank(j, x) \in 1 .. 14 /\ x \in OpType /\ Advances(c) /\ Active(c) /\ Changes(j) /\ Only(c, s)
    BY <1>1, Shortens
<1>3. s \in Scope /\ j \in JobType /\ Placed(c) /\ CommandInv(c) /\ InstallTypeOK /\ j.scope = s /\ cmd[c] \in Command
    BY <1>1, <1>2, Alone DEF CommandInv, S
<1>4. /\ cmd[c].pc = "working" /\ cmd'[c].pc = "working" /\ cmd'[c].job = j /\ cmd'[c].was = cmd[c].was /\ svc' = svc
    BY <1>1, <1>2 DEF Advances
<1>5. Effect(c, x, s) BY <1>1, <1>3, Effects
<1>6. Never(j, x) BY <1>2, <1>3, <1>1, NeverUndoes DEF Placed
<1>7. ASSUME NEW tool \in {"drdsh", "relayctl"}, Clean(s, tool), Backed(s, tool) PROVE Backed(s, tool)'
  <2>1. j.tool = tool BY <1>1, <1>3, <1>4, <1>7 DEF Clean, S
  <2>2. PICK P \in Part : P = Program(tool) BY DEF Program, Part
  <2>3. unit'[s] \in {"none", Program(tool)} BY <2>1, <1>1, <1>5, <1>7 DEF Effect, Backed
  <2>4. x # <<"in", P>> /\ There(s, tool) => file[s][P] # Absent BY <2>2, <1>1, <1>2, InPlace
  <2>5. CASE x = <<"gone", P>>
    <3>1. j.action = "uninstall" BY <2>1, <2>2, <2>5, <1>6 DEF Never
    <3>2. svc[s] = "stopped" /\ ~cmd[c].was BY <3>1, <1>1, <1>3, <1>4 DEF Placed, Installs
    <3>3. \A d \in Cmd : d # c /\ Active(d) => S(d) # s BY <1>1, <1>2, Alone
    <3>4. \A d \in Cmd : ~(Active(d) /\ S(d) = s /\ cmd[d].was)' BY <3>2, <3>3, <1>2, <1>4 DEF Only, Active, S
    <3> QED BY <2>3, <3>2, <3>4, <1>4 DEF Backed
  <2>6. CASE x # <<"gone", P>>
    <3>1. There(s, tool) => There(s, tool)'
      <4>1. CASE x = <<"out", P>>
        <5>1. Todo(c, <<"in", P>>)'
          <6>1. <<"in", P>> \in OpType /\ <<"out", P>> \in OpType /\ x # <<"in", P>> BY <4>1, Distinct DEF OpType
          <6>2. Todo(c, x) BY <1>2 DEF Shorter
          <6>3. Todo(c, <<"in", P>>) BY <6>2, <4>1, <1>3, <1>4 DEF CommandInv, Underway, Plans, MovedIn
          <6> QED BY <6>1, <6>3, <1>2 DEF Shorter
        <5>2. Op(c)' = <<"in", P>> BY <4>1, <5>1, <1>1, MoveInNext
        <5>3. Op(c)[1] = "out" /\ Op(c)[2] = P BY <4>1, <1>1, Distinct
        <5>4. MoveOut(c) BY <5>3 DEF Operation, MoveIn, Gone, LookShared, AwayShared, LinkShared, SaveConfig, SetService, Working
        <5>5. cmd'[c].backup = file[s][P]
          <6>1. cmd' = [cmd EXCEPT ![c].todo = Tail(@), ![c].backup = file[S(c)][Op(c)[2]]] BY <5>4 DEF MoveOut
          <6> QED BY <6>1, <5>3, <1>1, <1>3 DEF InstallTypeOK, Command
        <5>6. There(s, tool) => file[s][P] # Absent BY <4>1, <2>4, Distinct
        <5> QED BY <5>2, <5>5, <5>6, <2>2, <1>3, <1>4 DEF There, S
      <4>2. CASE x # <<"out", P>>
        <5>1. There(s, tool) => file'[s][P] # Absent
          <6>1. c # Absent BY DEF Cmd, Absent
          <6>2. CASE x = <<"in", P>> \/ x = <<"put", P>> BY <6>1, <6>2, <1>5 DEF Effect
          <6>3. CASE ~(x = <<"in", P>> \/ x = <<"put", P>>) BY <6>3, <4>2, <2>4, <2>6, <1>5 DEF Effect
          <6> QED BY <6>2, <6>3
        <5> QED BY <5>1, <2>2 DEF There
      <4> QED BY <4>1, <4>2
    <3>2. \A d \in Cmd : (Active(d) /\ S(d) = s /\ cmd[d].was)' => Active(d) /\ S(d) = s /\ cmd[d].was
        BY <1>1, <1>2, <1>4 DEF Only, Active, S
    <3> QED BY <2>3, <3>1, <3>2, <1>4, <1>7 DEF Backed
  <2> QED BY <2>5, <2>6
<1>8. Keeps(c) BY <1>4 DEF Keeps
<1> QED BY <1>1, <1>2, <1>3, <1>4, <1>7, <1>8, Backs

LEMMA WorkFailsRuns == ASSUME InstallInv, RunsFrom, NEW c \in Cmd, WorkFails(c) PROVE RunsFrom'
<1>1. PICK x, s, j : x = Op(c) /\ s = S(c) /\ j = cmd[c].job OBVIOUS
<1>2. /\ cmd[c].pc = "working" /\ Resumes(c) /\ Only(c, s) /\ x \in OpType /\ unit' = unit /\ svc' = svc
    BY <1>1, WorkFailsOwn DEF First
<1>l. PICK left \in Promoted(c) :
        /\ cmd'[c].backup = left.aside
        /\ \A q \in Part : file'[s][q] = IF x[1] = "in" /\ x[2] = q THEN left.now ELSE file[s][q]
    BY <1>1, WorkFailsOwn
<1>3. Active(c) BY <1>2 DEF Active
<1>4. s \in Scope /\ \A d \in Cmd : d # c /\ Active(d) => S(d) # s BY <1>1, <1>3, Alone
<1>5. cmd'[c].job = j /\ j.scope = s /\ cmd'[c].pc # "idle" /\ cmd'[c].was = cmd[c].was BY <1>1, <1>2 DEF Resumes, S
<1>6. ASSUME NEW tool \in {"drdsh", "relayctl"}, Clean(s, tool)', Backed(s, tool) PROVE Backed(s, tool)'
  <2>1. PICK P \in Part : P = Program(tool) BY DEF Program, Part
  <2>2. There(s, tool) => file'[s][P] # Absent
    <3>1. CASE x = <<"in", P>>
      <4>1. file[s][P] = Absent BY <3>1, <1>1, <1>2, BetweenMoves
      <4>2. There(s, tool) => cmd[c].backup # Absent
        <5>1. \A d \in Cmd : cmd[d].pc = "working" => Active(d) BY DEF Active
        <5> QED BY <4>1, <5>1, <2>1, <1>4 DEF There
      <4>3. file'[s][P] = left.now BY <3>1, <1>l, Distinct
      <4>4. ~Lost(c)' BY <1>5, <1>6 DEF Clean, S
      <4>5. left.aside = Absent BY <4>4, <1>l, <1>2 DEF Lost, Resumes
      <4>6. c # Absent BY DEF Cmd, Absent
      <4>7. left.now = Absent => cmd[c].backup = Absent BY <4>5, <4>6 DEF Promoted
      <4> QED BY <4>2, <4>3, <4>7
    <3>2. CASE x # <<"in", P>>
      <4>1. There(s, tool) => file[s][P] # Absent BY <3>2, <2>1, <1>1, <1>3, InPlace
      <4>2. ~(x[1] = "in" /\ x[2] = P)
        <5>1. x = <<x[1], x[2]>> BY <1>2, Operations
        <5> QED BY <5>1, <3>2
      <4> QED BY <4>1, <4>2, <1>l
    <3> QED BY <3>1, <3>2
  <2>3. There(s, tool) => There(s, tool)' BY <2>1, <2>2 DEF There
  <2>4. \A d \in Cmd : (Active(d) /\ S(d) = s /\ cmd[d].was)' => Active(d) /\ S(d) = s /\ cmd[d].was
      BY <1>1, <1>2, <1>3, <1>5 DEF Only, Active, S
  <2> QED BY <2>3, <2>4, <1>2, <1>6 DEF Backed
<1>7. Keeps(c) BY <1>2 DEF Keeps
<1> QED BY <1>1, <1>2, <1>3, <1>4, <1>5, <1>6, <1>7, Backs

LEMMA ServiceRuns == ASSUME InstallInv, RunsFrom, NEW s \in Scope, Crash(s) \/ Revive(s) PROVE RunsFrom'
<1>1. UNCHANGED <<file, unit, cmd>> BY DEF Crash, Revive, tree
<1>2. svc \in [Scope -> {"stopped", "activating", "running"}] BY DEF InstallInv, InstallTypeOK
<1>3. \A r \in Scope : svc'[r] = "running" => svc[r] = "running" \/ (unit[r] # "none" /\ file[r][unit[r]] # Absent)
    BY <1>2 DEF Crash, Revive
<1>4. ASSUME NEW r \in Scope, NEW tool \in {"drdsh", "relayctl"}, Clean(r, tool)' PROVE Backed(r, tool)'
  <2>1. Backed(r, tool) BY <1>1, <1>4 DEF RunsFrom, Clean, Lost, S
  <2>2. There(r, tool) <=> There(r, tool)' BY <1>1 DEF There, S, Op
  <2>3. \A d \in Cmd : (Active(d) /\ S(d) = r /\ cmd[d].was)' => Active(d) /\ S(d) = r /\ cmd[d].was
      BY <1>1 DEF Active, S
  <2>4. unit[r] # "none" /\ file[r][unit[r]] # Absent => There(r, tool) BY <2>1 DEF Backed, There
  <2> QED BY <2>1, <2>2, <2>3, <2>4, <1>1, <1>3 DEF Backed
<1> QED BY <1>4 DEF RunsFrom

LEMMA SameRuns == ASSUME RunsFrom, UNCHANGED <<file, unit, svc, cmd>> PROVE RunsFrom'
<1> SUFFICES ASSUME NEW s \in Scope, NEW tool \in {"drdsh", "relayctl"}, Clean(s, tool)' PROVE Backed(s, tool)'
    BY DEF RunsFrom
<1>1. Backed(s, tool) BY DEF RunsFrom, Clean, Lost, S
<1>2. There(s, tool) <=> There(s, tool)' BY DEF There, S, Op
<1>3. \A c \in Cmd : (Active(c) /\ S(c) = s /\ cmd[c].was)' => Active(c) /\ S(c) = s /\ cmd[c].was
    BY DEF Active, S
<1> QED BY <1>1, <1>2, <1>3 DEF Backed

LEMMA RunsInit == Init => RunsFrom
<1> SUFFICES ASSUME Init, NEW s \in Scope, NEW tool \in {"drdsh", "relayctl"} PROVE Backed(s, tool) BY DEF RunsFrom
<1>1. \A c \in Cmd : ~Active(c) BY DEF Init, Active, Nothing
<1> QED BY <1>1 DEF Init, Backed

LEMMA RunsStep == InstallInv /\ RunsFrom /\ [Next]_vars => RunsFrom'
<1> SUFFICES ASSUME InstallInv, RunsFrom, [Next]_vars PROVE RunsFrom' OBVIOUS
<1>1. CASE UNCHANGED vars BY <1>1, SameRuns DEF vars, tree
<1>2. ASSUME NEW c \in Cmd, NEW j \in Job, Begin(c, j) PROVE RunsFrom' BY <1>2, BeginRuns
<1>3. ASSUME NEW c \in Cmd, Check(c) PROVE RunsFrom' BY <1>3, CheckOwn, PlainStep DEF Keeps
<1>4. ASSUME NEW c \in Cmd, Refuse(c) PROVE RunsFrom' BY <1>4, RefuseOwn, PlainStep DEF Keeps
<1>5. ASSUME NEW c \in Cmd, ReadState(c) PROVE RunsFrom' BY <1>5, ReadStateOwn, PlainStep DEF Keeps
<1>6. ASSUME NEW c \in Cmd, Stop(c) \/ StopFails(c) PROVE RunsFrom' BY <1>6, StopOwn, PlainStep DEF Keeps
<1>7. ASSUME NEW c \in Cmd, Operation(c) PROVE RunsFrom' BY <1>7, OperationRuns
<1>8. ASSUME NEW c \in Cmd, WorkFails(c) PROVE RunsFrom' BY <1>8, WorkFailsRuns
<1>9. ASSUME NEW c \in Cmd, Worked(c) PROVE RunsFrom'
  <2>1. /\ cmd[c].pc = "working" /\ cmd[c].todo = <<>> /\ Resumes(c) /\ Only(c, S(c))
        /\ UNCHANGED <<file, unit, svc>>
      BY <1>9, WorkedOwn
  <2>2. Op(c) # <<"in", Program(cmd[c].job.tool)>>
    <3>1. ASSUME Op(c) = <<"in", Program(cmd[c].job.tool)>> PROVE Op(c)[1] = "in" BY <3>1, Distinct
    <3>2. Op(c)[1] = "none" \/ cmd[c].todo # <<>> BY AtHand DEF First, InstallInv
    <3> QED BY <3>1, <3>2, <2>1
  <2>3. Active(c) /\ cmd'[c].pc # "idle" BY <2>1 DEF Active, Resumes
  <2>4. Keeps(c) BY <2>1 DEF Keeps
  <2> QED BY <2>1, <2>2, <2>3, <2>4, PlainStep DEF Resumes
<1>10. ASSUME NEW c \in Cmd, Start(c) \/ StartFails(c) \/ Switch(c) PROVE RunsFrom' BY <1>10, StartOwn, PlainStep DEF Keeps
<1>11. ASSUME NEW c \in Cmd, Kill(c) PROVE RunsFrom' BY <1>11, KillOwn, PlainStep DEF Keeps
<1>12. ASSUME NEW s \in Scope, Unlock(s) PROVE RunsFrom' BY <1>12, SameRuns DEF Unlock, tree
<1>13. ASSUME NEW s \in Scope, Crash(s) \/ Revive(s) PROVE RunsFrom' BY <1>13, ServiceRuns
<1> QED BY <1>1, <1>2, <1>3, <1>4, <1>5, <1>6, <1>7, <1>8, <1>9, <1>10, <1>11, <1>12, <1>13 DEF Next

(* The same steps, seen from a command that comes to its end.              *)
Restored(c) == cmd[c].pc # "ended" /\ cmd'[c].pc = "ended" =>
    /\ cmd[c].was /\ cmd[c].pc \in {"working", "starting"} =>
         \/ svc'[S(c)] # "stopped"
         \/ cmd[c].pc = "starting" /\ faults' = faults + 1
         \/ file[S(c)][Program(cmd[c].job.tool)] = Absent /\ Disturbed(c)
    /\ cmd[c].pc \in {"checking", "reading"} => svc' = svc

LEMMA Restores == ASSUME InstallInv, RunsFrom, [Next]_vars, NEW c \in Cmd PROVE Restored(c)
<1> SUFFICES ASSUME cmd[c].pc # "ended", cmd'[c].pc = "ended" PROVE Restored(c) BY DEF Restored
<1>1. CASE UNCHANGED vars BY <1>1 DEF vars
<1>2. ASSUME NEW d \in Cmd, NEW j \in Job, Begin(d, j) PROVE FALSE
  <2>1. cmd' = [cmd EXCEPT ![d].pc = "checking", ![d].job = j] BY <1>2 DEF Begin
  <2>2. cmd \in [Cmd -> Command] BY DEF InstallInv, InstallTypeOK
  <2> QED BY <2>1, <2>2 DEF Command
<1>3. ASSUME NEW d \in Cmd, Check(d) PROVE FALSE
  <2>1. (\A e \in Cmd : e # d => cmd'[e] = cmd[e]) /\ cmd'[d].pc = "reading" BY <1>3, CheckOwn DEF Only
  <2> QED BY <2>1
<1>4. ASSUME NEW d \in Cmd, Refuse(d) PROVE Restored(c)
  <2>1. (\A e \in Cmd : e # d => cmd'[e] = cmd[e]) /\ cmd[d].pc = "checking" /\ svc' = svc BY <1>4, RefuseOwn DEF Only
  <2> QED BY <2>1 DEF Restored
<1>5. ASSUME NEW d \in Cmd, ReadState(d) PROVE FALSE
  <2>1. (\A e \in Cmd : e # d => cmd'[e] = cmd[e]) /\ cmd'[d].pc # "ended" BY <1>5, ReadStateOwn DEF Only
  <2> QED BY <2>1
<1>6. ASSUME NEW d \in Cmd, Stop(d) \/ StopFails(d) PROVE Restored(c)
  <2>1. (\A e \in Cmd : e # d => cmd'[e] = cmd[e]) /\ cmd[d].pc = "stopping" BY <1>6, StopOwn DEF Only
  <2> QED BY <2>1 DEF Restored
<1>7. ASSUME NEW d \in Cmd, Operation(d) PROVE FALSE
  <2>1. (\A e \in Cmd : e # d => cmd'[e] = cmd[e]) /\ cmd'[d].pc = "working" BY <1>7, Shortens DEF Advances
  <2> QED BY <2>1
<1>8. ASSUME NEW d \in Cmd, WorkFails(d) \/ Worked(d) PROVE Restored(c)
  <2>1. cmd[d].pc = "working" /\ Resumes(d) BY <1>8, WorkFailsOwn, WorkedOwn
  <2>2. c = d BY <2>1 DEF Resumes
  <2> QED BY <2>1, <2>2 DEF Restored, Resumes
<1>9. ASSUME NEW d \in Cmd, Start(d) \/ StartFails(d) \/ Switch(d) PROVE Restored(c)
  <2>1. c = d
    <3>1. \A e \in Cmd : e # d => cmd'[e] = cmd[e] BY <1>9, StartOwn DEF Only
    <3> QED BY <3>1
  <2>2. PICK s, tool : s = S(c) /\ tool = cmd[c].job.tool OBVIOUS
  <2>3. /\ Active(c) /\ cmd[c].pc \in {"starting", "switching"}
        /\ \/ cmd[c].pc = "switching"
           \/ svc'[s] \in {"running", "activating"}
           \/ faults' = faults + 1
           \/ file[s][Program(tool)] = Absent
    BY <2>1, <2>2, <1>9, StartOwn
  <2>4. s \in Scope /\ tool \in {"drdsh", "relayctl"} BY <2>2, <2>3, Alone DEF JobType
  <2>5. ASSUME cmd[c].was, ~Disturbed(c) PROVE file[s][Program(tool)] # Absent
    <3>1. Clean(s, tool) BY <2>2, <2>5 DEF Disturbed, Clean, Lost
    <3>2. There(s, tool) BY <3>1, <2>2, <2>3, <2>4, <2>5 DEF RunsFrom, Backed
    <3> QED BY <3>2, <2>2, <2>3, InPlace
  <2> QED BY <2>2, <2>3, <2>5 DEF Restored
<1>10. ASSUME NEW d \in Cmd, Kill(d) PROVE FALSE
  <2>1. (\A e \in Cmd : e # d => cmd'[e] = cmd[e]) /\ cmd'[d].pc = "killed" BY <1>10, KillOwn DEF Only
  <2> QED BY <2>1
<1>11. ASSUME NEW s \in Scope, Unlock(s) \/ Crash(s) \/ Revive(s) PROVE FALSE BY <1>11 DEF Unlock, Crash, Revive
<1> QED BY <1>1, <1>2, <1>3, <1>4, <1>5, <1>6, <1>7, <1>8, <1>9, <1>10, <1>11 DEF Next

(* Faults are counted. *)
Counted == faults \in Nat

LEMMA Counts == Counted /\ [Next]_vars => Counted'
<1> SUFFICES ASSUME Counted, [Next]_vars PROVE faults' \in {faults, faults + 1} BY DEF Counted
<1>1. CASE UNCHANGED vars BY <1>1 DEF vars
<1>2. CASE Next
  <2>1. ASSUME NEW c \in Cmd, Operation(c) PROVE faults' = faults
      BY <2>1 DEF Operation, MoveOut, MoveIn, Gone, LookShared, AwayShared, LinkShared, SaveConfig, SetService, Rest
  <2> QED BY <1>2, <2>1 DEF Next, Begin, Check, Refuse, ReadState, Stop, StopFails, WorkFails, Worked,
                              Start, StartFails, Switch, Kill, Unlock, Crash, Revive
<1> QED BY <1>1, <1>2

(* A command that found its service running leaves it running or coming    *)
(* up, also when one of its operations failed, because what it moved aside *)
(* was put back or replaced - unless the start failed of its own, or the   *)
(* program is gone because a promote was cut short or the other tool took  *)
(* it; and one that is refused touches no service.                         *)
THEOREM ServiceComesBack == Spec => ServiceRestored
<1>1. InstallInv /\ RunsFrom /\ [Next]_vars => [\A c \in Cmd : Restored(c)]_vars BY Restores
<1>2. Counted /\ [\A c \in Cmd : Restored(c)]_vars =>
        [\A c \in Cmd : cmd[c].pc # "ended" /\ cmd'[c].pc = "ended" =>
           /\ cmd[c].was /\ cmd[c].pc \in {"working", "starting"} =>
                \/ svc'[S(c)] # "stopped"
                \/ cmd[c].pc = "starting" /\ faults' > faults
                \/ file[S(c)][Program(cmd[c].job.tool)] = Absent /\ Disturbed(c)
           /\ cmd[c].pc \in {"checking", "reading"} => svc' = svc]_vars
  <2>1. Counted => (faults' = faults + 1 => faults' > faults) BY DEF Counted
  <2> QED BY <2>1 DEF Restored
<1>3. Init => Counted BY DEF Init, Counted
<1> QED BY <1>1, <1>2, <1>3, Counts, InstallInit, InstallStep, RunsInit, RunsStep, PTL DEF Spec, ServiceRestored

-----------------------------------------------------------------------------
(* The shared command.  The ranks of what concerns it. *)
LinkRanks(j) ==
    /\ Installs(j) => /\ Rank(j, <<"out", "bin">>) = (IF j.action = "install" THEN 1 ELSE 0)
                      /\ Rank(j, <<"in", "bin">>) = (IF j.action = "install" THEN 2 ELSE 0)
                      /\ Rank(j, <<"sharedLook", "">>) = 9 /\ Rank(j, <<"sharedLink", "">>) = 10
                      /\ Rank(j, <<"awayLook", "">>) = 0 /\ Rank(j, <<"awayLink", "">>) = 0
                      /\ Rank(j, <<"gone", "bin">>) = 0
    /\ Removes(j) => /\ Rank(j, <<"out", "bin">>) = 0 /\ Rank(j, <<"in", "bin">>) = 0
                     /\ Rank(j, <<"sharedLook", "">>) = 0 /\ Rank(j, <<"sharedLink", "">>) = 0
                     /\ Rank(j, <<"awayLook", "">>) = (IF j.action = "unplug" THEN 0 ELSE 6)
                     /\ Rank(j, <<"awayLink", "">>) = (IF j.action = "unplug" THEN 0 ELSE 7)
                     /\ Rank(j, <<"gone", "bin">>) = (IF j.action = "unplug" THEN 0 ELSE 10)
                     /\ Rank(j, <<"config", "">>) = 0
    /\ Rank(j, <<"put", "bin">>) = 0

LEMMA RanksOfLinks == ASSUME NEW j \in JobType, j.tool = "drdsh", Changes(j) PROVE LinkRanks(j)
<1>1. CASE Installs(j)
  <2>1. ~Removes(j) BY <1>1 DEF Installs, Removes
  <2>2. \A x : Rank(j, x) = UpdateRank(j, x) BY <1>1, <2>1 DEF Rank
  <2>3. /\ UpdateRank(j, <<"out", "bin">>) = IF j.action = "install" THEN 1 ELSE 0
        /\ UpdateRank(j, <<"in", "bin">>) = IF j.action = "install" THEN 2 ELSE 0
      BY DEF UpdateRank
  <2>4. UpdateRank(j, <<"sharedLook", "">>) = 9 /\ UpdateRank(j, <<"sharedLink", "">>) = 10 BY DEF UpdateRank
  <2>5. UpdateRank(j, <<"awayLook", "">>) = 0 /\ UpdateRank(j, <<"awayLink", "">>) = 0 BY DEF UpdateRank
  <2>6. UpdateRank(j, <<"gone", "bin">>) = 0 /\ UpdateRank(j, <<"put", "bin">>) = 0 BY DEF UpdateRank
  <2> QED BY <2>1, <2>2, <2>3, <2>4, <2>5, <2>6 DEF LinkRanks
<1>2. CASE Removes(j)
  <2>1. ~Installs(j) BY <1>2 DEF Installs, Removes
  <2>2. \A x : Rank(j, x) = RemovalRank(j, x) BY <1>2, <2>1 DEF Rank
  <2> QED BY <1>2, <2>1, <2>2 DEF LinkRanks, RemovalRank
<1> QED BY <1>1, <1>2 DEF Changes

(* A plan has the whole of it. *)
Linked(j, ops) ==
    /\ j.tool = "drdsh" /\ j.action = "install" => <<"out", "bin">> \in ops
    /\ j.tool = "drdsh" /\ j.action = "uninstall" => <<"awayLink", "">> \in ops
    /\ <<"out", "bin">> \in ops => <<"sharedLink", "">> \in ops
    /\ <<"in", "bin">> \in ops => <<"sharedLink", "">> \in ops
    /\ <<"awayLink", "">> \in ops => <<"gone", "bin">> \in ops /\ <<"awayLook", "">> \in ops
    /\ <<"sharedLink", "">> \in ops => <<"sharedLook", "">> \in ops

LEMMA WorkIsLinked == ASSUME NEW j \in JobType, j.tool = "drdsh" PROVE Linked(j, WorkOps(j))
<1>0. ~(Installs(j) /\ Removes(j)) BY DEF Installs, Removes
<1> DEFINE with == j.scope = "daemon" /\ (j.plugin \/ Plugged(j.scope))
<1>1. CASE Installs(j)
  <2>1. WorkOps(j) = UpdateOps(j, with) BY <1>0, <1>1 DEF WorkOps
  <2>2. j.action # "uninstall" BY <1>1 DEF Installs
  <2> HIDE DEF with
  <2> QED BY <1>1, <2>1, <2>2 DEF UpdateOps, Linked
<1>3. CASE Removes(j)
  <2>1. WorkOps(j) = RemovalOps(j, Plugged(j.scope)) BY <1>0, <1>3 DEF WorkOps
  <2>2. j.action # "install" BY <1>3 DEF Removes
  <2> QED BY <1>3, <2>1, <2>2 DEF RemovalOps, Linked
<1>5. CASE ~Installs(j) /\ ~Removes(j)
  <2>1. WorkOps(j) = {} /\ j.action \notin {"install", "uninstall"} BY <1>5 DEF WorkOps, Installs, Removes
  <2> QED BY <1>5, <2>1 DEF Linked
<1> QED BY <1>1, <1>3, <1>5

(* Steps other than an operation or the end of the work. *)
LEMMA LinksStay ==
    ASSUME NEW d \in Cmd, Links(d), cmd'[d] = cmd[d], shared' = shared,
           \A s \in Scope : file'[s]["bin"] = file[s]["bin"], S(d) \in Scope
    PROVE  Links(d)'
<1>1. S(d)' = S(d) /\ Op(d)' = Op(d) /\ \A x : Todo(d, x)' <=> Todo(d, x) BY DEF S, Op, Todo
<1>2. \A s : Exists(s)' <=> Exists(s) BY DEF Exists
<1>3. SeesShared(d)' <=> SeesShared(d) BY <1>1, <1>2 DEF SeesShared
<1>4. SeesAway(d)' <=> SeesAway(d) BY <1>1, <1>2 DEF SeesAway
<1> QED BY <1>1, <1>3, <1>4 DEF Links

LEMMA SharedPlain ==
    ASSUME InstallInv, SharedInv, Quiet, NEW c \in Cmd, \A d \in Cmd : d # c => cmd'[d] = cmd[d],
           UNCHANGED <<file, comps, shared>>, cmd[c].pc # "working",
           cmd'[c].pc = "working" => Underway(c) /\ cmd'[c].job = cmd[c].job /\ cmd'[c].todo = cmd[c].todo,
           Underway(c)' => Links(c)'
    PROVE  SharedInv'
<1>1. \A d \in Cmd : d # c => (Installing(d)' <=> Installing(d)) /\ (Leaving(d)' <=> Leaving(d)) /\ S(d)' = S(d)
    BY DEF Installing, Leaving, Todo, S
<1>2. ~Installing(c) /\ ~Leaving(c) BY DEF Installing, Leaving
<1>3. \A s : Exists(s)' <=> Exists(s) BY DEF Exists
<1>4. (Good' <=> Good) /\ \A s : HandedOver(s)' <=> HandedOver(s) BY <1>3 DEF Good, HandedOver
<1>5. ~Leaving(c)'
  <2>1. SUFFICES ASSUME cmd'[c].pc = "working", cmd[c].job.action = "uninstall" PROVE Todo(c, <<"awayLink", "">>)'
      BY DEF Leaving
  <2>2. Todo(c, <<"awayLink", "">>) BY <2>1 DEF SharedInv, Links
  <2> QED BY <2>1, <2>2 DEF Todo
<1>6. ASSUME NEW s \in Scope, Settled(s)' PROVE Exists(s)'
  <2>1. Settled(s) BY <1>6 DEF Settled, S, Installed
  <2> QED BY <2>1, <1>3 DEF SharedInv
<1>7. ASSUME NEW d \in Cmd, d # c, Underway(d)' PROVE Links(d)'
  <2>1. Links(d) /\ cmd'[d] = cmd[d] /\ S(d) \in Scope BY <1>7, Scopes DEF SharedInv, Underway, InstallInv
  <2> QED BY <2>1, LinksStay
<1>8. (\A d \in Cmd : ~Installing(d) /\ ~Leaving(d))' => Good' BY <1>1, <1>2, <1>4 DEF SharedInv
<1>9. ASSUME NEW d \in Cmd, Leaving(d)' PROVE HandedOver(S(d))'
  <2>1. d # c /\ S(d)' = S(d) /\ Leaving(d) BY <1>1, <1>5, <1>9
  <2>2. HandedOver(S(d)) BY <2>1 DEF SharedInv
  <2> QED BY <2>1, <2>2, <1>4 DEF HandedOver
<1> QED BY <1>6, <1>7, <1>8, <1>9 DEF SharedInv

LEMMA QuietBefore ==
    ASSUME NEW c \in Cmd, \A d \in Cmd : d # c => cmd'[d] = cmd[d],
           cmd'[c].job = cmd[c].job \/ cmd[c].job.tool = "drdsh", apart' => apart, Quiet'
    PROVE  Quiet
BY DEF Quiet

LEMMA LinksGoOn ==
    ASSUME NEW c \in Cmd, Links(c), cmd[c].pc # "working", cmd'[c].job = cmd[c].job, cmd'[c].todo = cmd[c].todo,
           cmd'[c].seen = cmd[c].seen, UNCHANGED <<file, shared>>
    PROVE  Links(c)'
<1>1. S(c)' = S(c) /\ Op(c)' = Op(c) /\ \A x : Todo(c, x)' <=> Todo(c, x) BY DEF S, Op, Todo
<1>2. \A s : Exists(s)' <=> Exists(s) BY DEF Exists
<1>3. SeesShared(c)' <=> SeesShared(c) BY <1>1, <1>2 DEF SeesShared
<1>4. SeesAway(c)' <=> SeesAway(c) BY <1>1, <1>2 DEF SeesAway
<1> QED BY <1>1, <1>3, <1>4 DEF Links

LEMMA BeginShared == ASSUME InstallInv, SharedInv, NEW c \in Cmd, NEW j \in Job, Begin(c, j) PROVE SharedInv'
<1> SUFFICES ASSUME Quiet' PROVE SharedInv' BY DEF SharedInv
<1>1. cmd[c].pc = "idle" /\ cmd[c] = Nothing /\ cmd \in [Cmd -> Command]
    BY DEF InstallInv, InstallTypeOK, Begin, At, CommandInv, Placed
<1>2. cmd[c].job.tool = "drdsh" BY <1>1 DEF Nothing
<1>3. cmd'[c].pc = "checking" /\ \A d \in Cmd : d # c => cmd'[d] = cmd[d] BY <1>1 DEF Begin, Command
<1>4. UNCHANGED <<file, comps, shared, apart>> BY DEF Begin, tree
<1>5. Quiet BY <1>2, <1>3, <1>4, QuietBefore
<1>6. ~Underway(c)' /\ cmd'[c].pc # "working" BY <1>3 DEF Underway
<1> QED BY <1>1, <1>3, <1>4, <1>5, <1>6, SharedPlain

LEMMA CheckShared == ASSUME InstallInv, SharedInv, NEW c \in Cmd, Check(c) PROVE SharedInv'
<1> SUFFICES ASSUME Quiet' PROVE SharedInv' BY DEF SharedInv
<1>1. /\ Active(c) /\ cmd[c].pc = "checking" /\ cmd'[c].pc = "reading" /\ cmd'[c].job = cmd[c].job
      /\ cmd'[c].todo = Work(cmd[c].job) /\ UNCHANGED <<file, comps, shared, apart>>
      /\ \A d \in Cmd : d # c => cmd'[d] = cmd[d]
    BY CheckOwn DEF Only
<1>2. Quiet BY <1>1, QuietBefore
<1>3. PICK j, w, W : j = cmd[c].job /\ w = Work(j) /\ W = WorkOps(j) OBVIOUS
<1>4. j \in JobType /\ j.tool = "drdsh" /\ InstallTypeOK BY <1>1, <1>2, <1>3, Alone DEF Quiet
<1>5. \A x \in OpType : Has(w, x) <=> x \in W BY <1>3, <1>4, WorkPlan DEF Consists
<1>6. Linked(j, W) BY <1>3, <1>4, WorkIsLinked
<1>o. /\ \A a \in {"out", "in", "gone"} : <<a, "bin">> \in OpType
      /\ \A a \in {"sharedLook", "sharedLink", "awayLook", "awayLink"} : <<a, "">> \in OpType
    BY DEF OpType, Part
<1>7. cmd'[c].todo = w /\ cmd'[c].job = j BY <1>1, <1>3
<1>8. Links(c)' BY <1>4, <1>5, <1>6, <1>7, <1>o DEF Links, Linked, Todo
<1> QED BY <1>1, <1>2, <1>8, SharedPlain

LEMMA GoesOnShared == ASSUME InstallInv, SharedInv, NEW c \in Cmd, ReadState(c) \/ Stop(c) \/ StopFails(c) PROVE SharedInv'
<1> SUFFICES ASSUME Quiet' PROVE SharedInv' BY DEF SharedInv
<1>1. /\ Active(c) /\ cmd[c].pc \in {"reading", "stopping"} /\ cmd'[c].job = cmd[c].job
      /\ UNCHANGED <<file, comps, shared, apart>> /\ (\A d \in Cmd : d # c => cmd'[d] = cmd[d])
      /\ cmd'[c].pc # "ended" => cmd'[c].todo = cmd[c].todo /\ cmd'[c].seen = cmd[c].seen
    BY ReadStateOwn, StopOwn DEF Only
<1>2. Quiet BY <1>1, QuietBefore
<1>3. Underway(c) /\ Links(c) BY <1>1, <1>2 DEF Underway, SharedInv
<1>4. Underway(c)' => Links(c)'
  <2>1. ASSUME Underway(c)' PROVE Links(c)'
    <3>1. cmd'[c].pc # "ended" BY <2>1 DEF Underway
    <3>2. cmd[c].pc # "working" BY <1>1
    <3> QED BY <3>1, <3>2, <1>1, <1>3, LinksGoOn
  <2> QED BY <2>1
<1>5. cmd'[c].pc = "working" => cmd'[c].pc # "ended" OBVIOUS
<1> QED BY <1>1, <1>2, <1>3, <1>4, <1>5, SharedPlain

LEMMA EndsShared == ASSUME InstallInv, SharedInv, NEW c \in Cmd, Refuse(c) \/ Start(c) \/ StartFails(c) \/ Switch(c) PROVE SharedInv'
<1> SUFFICES ASSUME Quiet' PROVE SharedInv' BY DEF SharedInv
<1>1. /\ cmd[c].pc # "working" /\ cmd'[c].pc = "ended" /\ cmd'[c].job = cmd[c].job
      /\ UNCHANGED <<file, comps, shared, apart>> /\ (\A d \in Cmd : d # c => cmd'[d] = cmd[d])
    BY RefuseOwn, StartOwn DEF Only
<1>2. Quiet BY <1>1, QuietBefore
<1>3. ~Underway(c)' /\ cmd'[c].pc # "working" BY <1>1 DEF Underway
<1> QED BY <1>1, <1>2, <1>3, SharedPlain

LEMMA WorkedShared == ASSUME InstallInv, SharedInv, NEW c \in Cmd, Worked(c) PROVE SharedInv'
<1> SUFFICES ASSUME Quiet' PROVE SharedInv' BY DEF SharedInv
<1>1. PICK s, j : s = S(c) /\ j = cmd[c].job OBVIOUS
<1>2. /\ cmd[c].pc = "working" /\ cmd[c].todo = <<>> /\ Resumes(c) /\ UNCHANGED <<file, comps, shared, apart>>
    BY WorkedOwn
<1>3. (\A d \in Cmd : d # c => cmd'[d] = cmd[d]) /\ cmd'[c].job = j /\ cmd'[c].pc # "working" /\ ~Underway(c)'
    BY <1>1, <1>2 DEF Resumes, Underway
<1>4. Quiet /\ j.tool = "drdsh" BY <1>1, <1>2, <1>3, QuietBefore DEF Quiet
<1>5. Active(c) /\ Underway(c) BY <1>2 DEF Active, Underway
<1>6. s \in Scope /\ Plans(c) /\ \A d \in Cmd : d # c /\ Active(d) => S(d) # s BY <1>1, <1>5, Alone DEF CommandInv
<1>7. \A x : ~Todo(c, x)
  <2>1. Len(cmd[c].todo) = 0 BY <1>2
  <2> QED BY <2>1 DEF Todo, Has
<1>8. \A r : Exists(r)' <=> Exists(r) BY <1>2 DEF Exists
<1>9. (Good' <=> Good) /\ \A r : HandedOver(r)' <=> HandedOver(r) BY <1>2, <1>8 DEF Good, HandedOver
<1>10. /\ \A d \in Cmd : d # c => (Installing(d)' <=> Installing(d)) /\ (Leaving(d)' <=> Leaving(d)) /\ S(d)' = S(d)
       /\ ~Installing(c) /\ ~Leaving(c) /\ ~Leaving(c)'
    BY <1>3, <1>7 DEF Installing, Leaving, Todo, S
<1>11. (\A d \in Cmd : ~Installing(d) /\ ~Leaving(d))' => Good' BY <1>4, <1>9, <1>10 DEF SharedInv
<1>12. ASSUME NEW d \in Cmd, Leaving(d)' PROVE HandedOver(S(d))'
  <2>1. d # c /\ S(d)' = S(d) /\ Leaving(d) BY <1>10, <1>12
  <2>2. HandedOver(S(d)) BY <2>1, <1>4 DEF SharedInv
  <2> QED BY <2>1, <2>2, <1>9 DEF HandedOver
<1>13. ASSUME NEW d \in Cmd, Underway(d)' PROVE Links(d)'
  <2>1. d # c BY <1>3, <1>13
  <2>2. Links(d) /\ cmd'[d] = cmd[d] /\ S(d) \in Scope BY <2>1, <1>3, <1>4, <1>13, Scopes DEF SharedInv, Underway, InstallInv
  <2> QED BY <2>2, <1>2, LinksStay
<1>14. ASSUME NEW r \in Scope, Settled(r)' PROVE Exists(r)'
  <2>0. Installed(r) BY <1>2, <1>14 DEF Settled, Installed
  <2>1. CASE r = s /\ j.action = "install"
    <3>1. Brings(c, s, j) BY <2>1, <1>1, <1>6 DEF Plans, Installs
    <3>2. file[s]["bin"] = c BY <3>1, <2>1, <1>4, <1>7 DEF Brings, Program
    <3>3. c # Absent BY DEF Cmd, Absent
    <3> QED BY <3>2, <3>3, <2>1, <1>8 DEF Exists
  <2>2. CASE r = s /\ j.action = "uninstall"
    <3>1. TakesAway(c, s, j) BY <2>2, <1>1, <1>6 DEF Plans
    <3> QED BY <3>1, <2>0, <2>2, <1>7 DEF TakesAway
  <2>3. CASE r # s \/ j.action \notin {"install", "uninstall"}
    <3>1. \A d \in Cmd : cmd[d].pc = "working" /\ S(d) = r => cmd[d].job.action \notin {"install", "uninstall"}
        BY <2>3, <1>1, <1>3, <1>14 DEF Settled, S
    <3>2. Settled(r) BY <2>0, <3>1 DEF Settled
    <3> QED BY <3>2, <1>4, <1>8 DEF SharedInv
  <2> QED BY <2>1, <2>2, <2>3
<1> QED BY <1>11, <1>12, <1>13, <1>14 DEF SharedInv

(* What an operation does to the shared command, and what it sees of it.   *)
LEMMA LinkEffect ==
    ASSUME InstallInv, NEW c \in Cmd, Operation(c)
    PROVE  /\ apart' => apart
           /\ Op(c)[1] \notin {"sharedLink", "awayLink"} => shared' = shared
           /\ Op(c)[1] \in {"sharedLink", "awayLink"} => shared' = IF cmd[c].seen = "keep" THEN shared ELSE cmd[c].seen
           /\ Op(c)[1] \in {"out", "in", "put", "gone", "sharedLink", "awayLink"} /\ apart' => ~Overlaps
           /\ Op(c)[1] = "sharedLook" => cmd'[c].seen = IF shared \in Scope /\ Exists(shared) THEN "keep" ELSE S(c)
           /\ Op(c)[1] = "awayLook" =>
                cmd'[c].seen = IF shared # S(c) THEN "keep"
                               ELSE LET other == CHOOSE s \in Scope : s # S(c)
                                    IN  IF Exists(other) THEN other ELSE "none"
<1>1. cmd \in [Cmd -> Command] /\ cmd[c] \in Command BY Scopes DEF InstallInv, InstallTypeOK
<1>2. CASE MoveOut(c) BY <1>2 DEF MoveOut, Working
<1>3. CASE MoveIn(c) BY <1>3 DEF MoveIn, Working
<1>4. CASE Gone(c) BY <1>4 DEF Gone, Working
<1>5. CASE LookShared(c)
  <2>1. PICK v : v = IF shared \in Scope /\ Exists(shared) THEN "keep" ELSE S(c) OBVIOUS
  <2>2. cmd' = [cmd EXCEPT ![c].todo = Tail(@), ![c].seen = v] BY <2>1, <1>5 DEF LookShared
  <2>3. cmd'[c].seen = v BY <2>2, <1>1 DEF Command
  <2> QED BY <2>1, <2>3, <1>5 DEF LookShared, Working, tree
<1>6. CASE AwayShared(c)
  <2> DEFINE v == IF shared # S(c) THEN "keep" ELSE LET other == CHOOSE s \in Scope : s # S(c)
                                                   IN  IF Exists(other) THEN other ELSE "none"
  <2>2. cmd' = [cmd EXCEPT ![c].todo = Tail(@), ![c].seen = v] BY <1>6 DEF AwayShared
  <2> HIDE DEF v
  <2>3. cmd'[c].seen = v BY <2>2, <1>1 DEF Command
  <2> USE DEF v
  <2> QED BY <2>3, <1>6 DEF AwayShared, Working, tree
<1>7. CASE LinkShared(c) BY <1>7 DEF LinkShared, Working
<1>8. CASE SaveConfig(c) BY <1>8 DEF SaveConfig, Working
<1>9. CASE SetService(c) BY <1>9 DEF SetService, Working
<1> QED BY <1>2, <1>3, <1>4, <1>5, <1>6, <1>7, <1>8, <1>9 DEF Operation

LEMMA StillFollows ==
    ASSUME NEW c \in Cmd, NEW x, Shorter(c, x), NEW a \in OpType, NEW b \in OpType, Todo(c, a) => Todo(c, b), Todo(c, a)',
           Rank(cmd[c].job, b) \in 0 .. 14, Rank(cmd[c].job, a) < Rank(cmd[c].job, b)
    PROVE  Todo(c, b)'
<1>1. Todo(c, b) BY DEF Shorter
<1>2. Rank(cmd[c].job, x) < Rank(cmd[c].job, a) /\ Rank(cmd[c].job, a) \in 1 .. 14 BY DEF Shorter
<1>3. b # x
  <2>1. ASSUME b = x PROVE FALSE
    <3>1. Rank(cmd[c].job, b) < Rank(cmd[c].job, a) BY <2>1, <1>2
    <3> QED BY <3>1, <1>2
  <2> QED BY <2>1
<1> QED BY <1>1, <1>3 DEF Shorter

(* The programs stay where they are. *)
LEMMA SameBins ==
    ASSUME InstallInv, NEW c \in Cmd, Operation(c),
           \A a \in {"out", "in", "put", "gone"} : Op(c) # <<a, "bin">>
    PROVE  \A r \in Scope : file'[r]["bin"] = file[r]["bin"]
<1>1. Advances(c) BY Shortens
<1>2. Effect(c, Op(c), S(c)) BY Effects DEF InstallInv
<1>3. "bin" \in Part BY DEF Part
<1>4. file'[S(c)]["bin"] = file[S(c)]["bin"]
  <2>1. PICK x, s : x = Op(c) /\ s = S(c) OBVIOUS
  <2>2. /\ Effect(c, x, s) /\ x # <<"out", "bin">> /\ x # <<"in", "bin">> /\ x # <<"put", "bin">> /\ x # <<"gone", "bin">>
      BY <2>1, <1>2
  <2> QED BY <2>1, <2>2, <1>3 DEF Effect
<1> QED BY <1>1, <1>4 DEF Advances

LEMMA LinksOwn ==
    ASSUME InstallInv, NEW c \in Cmd, Operation(c), cmd[c].job.tool = "drdsh", Links(c)
    PROVE  Links(c)'
<1>1. PICK x, j : x = Op(c) /\ j = cmd[c].job OBVIOUS
<1>2. /\ Shorter(c, x) /\ Rank(j, x) \in 1 .. 14 /\ x \in OpType /\ Advances(c) /\ Active(c) /\ Changes(j)
    BY <1>1, Shortens
<1>3. j \in JobType /\ LinkRanks(j) BY <1>1, <1>2, Alone, RanksOfLinks
<1>4. cmd'[c].pc = "working" /\ S(c)' = S(c) BY <1>2 DEF Advances, S
<1>5. PICK ob, ib, gb, sk, sl, ak, al :
        /\ ob = <<"out", "bin">> /\ ib = <<"in", "bin">> /\ gb = <<"gone", "bin">>
        /\ sk = <<"sharedLook", "">> /\ sl = <<"sharedLink", "">> /\ ak = <<"awayLook", "">> /\ al = <<"awayLink", "">>
    OBVIOUS
<1>p. /\ \A a \in {"out", "in", "gone"} : <<a, "bin">> \in OpType
      /\ \A a \in {"sharedLook", "sharedLink", "awayLook", "awayLink"} : <<a, "">> \in OpType
    BY DEF OpType, Part
<1>o. {ob, ib, gb, sk, sl, ak, al} \subseteq OpType BY <1>5, <1>p
<1>q. sk[1] = "sharedLook" /\ ak[1] = "awayLook"
  <2>1. \A y, a, q : y = <<a, q>> => y[1] = a OBVIOUS
  <2> QED BY <2>1, <1>5, Zenon
<1>6. /\ Installs(j) => /\ Rank(j, ob) = (IF j.action = "install" THEN 1 ELSE 0)
                        /\ Rank(j, ib) = (IF j.action = "install" THEN 2 ELSE 0)
                        /\ Rank(j, sk) = 9 /\ Rank(j, sl) = 10 /\ Rank(j, al) = 0
      /\ Removes(j) => /\ Rank(j, ob) = 0 /\ Rank(j, ib) = 0 /\ Rank(j, sl) = 0
                       /\ Rank(j, ak) = (IF j.action = "unplug" THEN 0 ELSE 6)
                       /\ Rank(j, al) = (IF j.action = "unplug" THEN 0 ELSE 7)
                       /\ Rank(j, gb) = (IF j.action = "unplug" THEN 0 ELSE 10)
    BY <1>3, <1>5 DEF LinkRanks
<1>7. \A y \in OpType : Todo(c, y)' => Rank(j, x) < Rank(j, y) /\ Rank(j, y) \in 1 .. 14 BY <1>1, <1>2 DEF Shorter
<1>8. \A y \in OpType : Todo(c, y) <=> y = x \/ Todo(c, y)' BY <1>2 DEF Shorter
<1>9. /\ Todo(c, ob) => Todo(c, sl)
      /\ Todo(c, ib) => Todo(c, sl)
      /\ Todo(c, al) => Todo(c, gb)
      /\ Todo(c, sl) => Todo(c, sk) \/ x = sl
      /\ Todo(c, al) => Todo(c, ak) \/ x = al
    BY <1>1, <1>5 DEF Links
<1>10. Todo(c, ob)' => Todo(c, sl)'
  <2>1. ASSUME Todo(c, ob)' PROVE Rank(j, ob) < Rank(j, sl) /\ Rank(j, sl) \in 0 .. 14
      BY <2>1, <1>2, <1>6, <1>7, <1>o DEF Changes
  <2> QED BY <2>1, <1>1, <1>2, <1>9, <1>o, StillFollows
<1>11. Todo(c, ib)' => Todo(c, sl)'
  <2>1. ASSUME Todo(c, ib)' PROVE Rank(j, ib) < Rank(j, sl) /\ Rank(j, sl) \in 0 .. 14
      BY <2>1, <1>2, <1>6, <1>7, <1>o DEF Changes
  <2> QED BY <2>1, <1>1, <1>2, <1>9, <1>o, StillFollows
<1>12. Todo(c, al)' => Todo(c, gb)'
  <2>1. ASSUME Todo(c, al)' PROVE Rank(j, al) < Rank(j, gb) /\ Rank(j, gb) \in 0 .. 14
      BY <2>1, <1>2, <1>6, <1>7, <1>o DEF Changes
  <2> QED BY <2>1, <1>1, <1>2, <1>9, <1>o, StillFollows
<1>e. ASSUME x = sk \/ x = ak PROVE (\A r : Exists(r)' <=> Exists(r)) /\ shared' = shared
  <2>1. \A a \in {"out", "in", "put", "gone"} : x # <<a, "bin">> BY <1>e, <1>q
  <2>2. x[1] \notin {"sharedLink", "awayLink"} BY <1>e, <1>q
  <2>3. \A r \in Scope : file'[r]["bin"] = file[r]["bin"] BY <2>1, <1>1, SameBins
  <2>4. shared' = shared BY <2>2, <1>1, LinkEffect
  <2> QED BY <2>3, <2>4 DEF Exists
<1>13. ASSUME Todo(c, sl)', ~Todo(c, sk)' PROVE Op(c)' = sl /\ SeesShared(c)'
  <2>1. x # sl
    <3>1. ASSUME x = sl PROVE FALSE
      <4>1. Rank(j, x) < Rank(j, x) BY <3>1, <1>7, <1>13, <1>o
      <4> QED BY <4>1, <1>2
    <3> QED BY <3>1
  <2>2. Todo(c, sl) BY <1>8, <1>13, <1>o
  <2>3. x = sk BY <2>1, <2>2, <1>8, <1>9, <1>13, <1>o
  <2>4. Rank(j, sl) = Rank(j, x) + 1 BY <2>3, <1>2, <1>6, <1>7, <1>13, <1>o DEF Changes
  <2>5. Op(c)' = sl BY <2>4, <1>1, <1>13, <1>o, NextUp
  <2>6. Op(c)[1] = "sharedLook" BY <2>3, <1>1, <1>q
  <2>7. cmd'[c].seen = IF shared \in Scope /\ Exists(shared) THEN "keep" ELSE S(c) BY <2>6, LinkEffect
  <2>8. SeesShared(c)' BY <2>3, <2>7, <1>4, <1>e DEF SeesShared
  <2> QED BY <2>5, <2>8
<1>14. ASSUME Todo(c, al)', ~Todo(c, ak)' PROVE Op(c)' = al /\ SeesAway(c)'
  <2>1. x # al
    <3>1. ASSUME x = al PROVE FALSE
      <4>1. Rank(j, x) < Rank(j, x) BY <3>1, <1>7, <1>14, <1>o
      <4> QED BY <4>1, <1>2
    <3> QED BY <3>1
  <2>2. Todo(c, al) BY <1>8, <1>14, <1>o
  <2>3. x = ak BY <2>1, <2>2, <1>8, <1>9, <1>14, <1>o
  <2>4. Rank(j, al) = Rank(j, x) + 1 BY <2>3, <1>2, <1>6, <1>7, <1>14, <1>o DEF Changes
  <2>5. Op(c)' = al BY <2>4, <1>1, <1>14, <1>o, NextUp
  <2>6. Op(c)[1] = "awayLook" BY <2>3, <1>1, <1>q
  <2>7. cmd'[c].seen = IF shared # S(c) THEN "keep"
                       ELSE LET other == CHOOSE s \in Scope : s # S(c)
                            IN  IF Exists(other) THEN other ELSE "none"
      BY <2>6, LinkEffect
  <2>8. SeesAway(c)' BY <2>3, <2>7, <1>4, <1>e DEF SeesAway
  <2> QED BY <2>5, <2>8
<1> QED BY <1>4, <1>5, <1>10, <1>11, <1>12, <1>13, <1>14 DEF Links

(* Operations on the programs and the link are of this command alone.      *)
LEMMA OthersApart ==
    ASSUME InstallInv, NEW c \in Cmd, Touches(c), ~Overlaps, NEW d \in Cmd, d # c, cmd'[d] = cmd[d]
    PROVE  /\ ~Installing(d) /\ ~Leaving(d) /\ ~Installing(d)' /\ ~Leaving(d)'
           /\ Underway(d)' => Links(d)'
<1>1. ~Touches(d) BY DEF Overlaps
<1>2. ~Installing(d) /\ ~Leaving(d) BY <1>1 DEF Touches, Installing, Leaving, Installs, Removes
<1>3. ~Installing(d)' /\ ~Leaving(d)' BY <1>1 DEF Touches, Installing, Leaving, Installs, Removes
<1>4. ASSUME Underway(d)' PROVE Links(d)'
  <2>1. Underway(d) /\ ~Changes(cmd[d].job) BY <1>1, <1>4 DEF Underway, Touches, Changes
  <2>2. cmd'[d].todo = <<>> BY <2>1 DEF InstallInv, CommandInv, Plans, Planned
  <2>3. \A x : ~Todo(d, x)'
    <3>1. Len(cmd'[d].todo) = 0 BY <2>2
    <3> QED BY <3>1 DEF Todo, Has
  <2>4. cmd'[d].job.action \notin {"install", "uninstall"} BY <2>1 DEF Changes, Installs, Removes
  <2> QED BY <2>3, <2>4 DEF Links
<1> QED BY <1>2, <1>3, <1>4

(* Whose operation it is. *)
LEMMA LinkJobs ==
    ASSUME NEW j \in JobType, j.tool = "drdsh", Changes(j), NEW x, Rank(j, x) \in 1 .. 14
    PROVE  /\ x = <<"out", "bin">> \/ x = <<"in", "bin">> => j.action = "install"
           /\ x = <<"gone", "bin">> \/ x = <<"awayLink", "">> => j.action = "uninstall"
           /\ x = <<"sharedLink", "">> \/ x = <<"config", "">> => Installs(j)
           /\ x # <<"put", "bin">>
<1>1. LinkRanks(j) BY RanksOfLinks
<1>2. \A y : Rank(j, y) = 0 => x # y OBVIOUS
<1>3. CASE Installs(j)
  <2>1. j.action # "install" => Rank(j, <<"out", "bin">>) = 0 /\ Rank(j, <<"in", "bin">>) = 0 BY <1>1, <1>3 DEF LinkRanks
  <2>2. Rank(j, <<"gone", "bin">>) = 0 /\ Rank(j, <<"awayLink", "">>) = 0 /\ Rank(j, <<"put", "bin">>) = 0
      BY <1>1, <1>3 DEF LinkRanks
  <2> QED BY <1>2, <1>3, <2>1, <2>2
<1>4. CASE Removes(j)
  <2>1. j.action # "uninstall" => Rank(j, <<"gone", "bin">>) = 0 /\ Rank(j, <<"awayLink", "">>) = 0
      BY <1>1, <1>4 DEF LinkRanks, Removes
  <2>2. /\ Rank(j, <<"out", "bin">>) = 0 /\ Rank(j, <<"in", "bin">>) = 0 /\ Rank(j, <<"put", "bin">>) = 0
        /\ Rank(j, <<"sharedLink", "">>) = 0 /\ Rank(j, <<"config", "">>) = 0
      BY <1>1, <1>4 DEF LinkRanks
  <2> QED BY <1>2, <2>1, <2>2
<1> QED BY <1>3, <1>4 DEF Changes

LEMMA SettledStay ==
    ASSUME InstallInv, SharedInv, Quiet, NEW c \in Cmd, Operation(c), NEW r \in Scope, Settled(r)'
    PROVE  Exists(r)'
<1>1. PICK x, s, j : x = Op(c) /\ s = S(c) /\ j = cmd[c].job OBVIOUS
<1>2. /\ Rank(j, x) \in 1 .. 14 /\ Advances(c) /\ Active(c) /\ Changes(j) /\ Only(c, s) BY <1>1, Shortens
<1>3. s \in Scope /\ j \in JobType /\ Placed(c) /\ InstallTypeOK BY <1>1, <1>2, Alone DEF CommandInv
<1>4. cmd[c].pc = "working" /\ cmd'[c].pc = "working" /\ cmd'[c].job = j /\ S(c)' = s BY <1>1, <1>2 DEF Advances, S
<1>5. CASE r # s
  <2>1. file'[r] = file[r] /\ Installed(r) BY <1>2, <1>5 DEF Only, Settled, Installed
  <2>2. Settled(r)
    <3>1. \A d \in Cmd : S(d) = r => d # c /\ cmd'[d] = cmd[d] BY <1>1, <1>2, <1>5 DEF Only
    <3> QED BY <2>1, <3>1 DEF Settled, S
  <2> QED BY <2>1, <2>2 DEF SharedInv, Exists
<1>6. CASE r = s
  <2>1. j.action \notin {"install", "uninstall"} BY <1>4, <1>6 DEF Settled
  <2>2. /\ x # <<"out", "bin">> /\ x # <<"in", "bin">> /\ x # <<"gone", "bin">> /\ x # <<"put", "bin">>
        /\ x = <<"config", "">> => Installs(j)
      BY <2>1, <1>1, <1>2, <1>3, LinkJobs DEF Quiet
  <2>3. file'[s]["bin"] = file[s]["bin"] BY <2>2, <1>1, <1>3, SameBins
  <2>4. Installed(s)
    <3>1. CASE Installs(j) BY <3>1, <2>1, <1>1, <1>3, <1>4 DEF Placed, Installs
    <3>2. CASE ~Installs(j)
      <4>1. Effect(c, x, s) BY <1>1, <1>3, Effects
      <4>2. x # <<"config", "">> /\ s # "plugin" /\ s # "saved" BY <3>2, <2>2, <1>3 DEF Scope
      <4>3. Installed(s)' BY <1>6 DEF Settled
      <4> QED BY <4>1, <4>2, <4>3 DEF Effect, Installed
    <3> QED BY <3>1, <3>2
  <2>5. \A d \in Cmd : cmd[d].pc = "working" /\ S(d) = s => d = c
    <3>1. \A d \in Cmd : d # c /\ Active(d) => S(d) # s BY <1>1, <1>2, Alone
    <3> QED BY <3>1 DEF Active
  <2>6. Settled(s) BY <2>1, <2>4, <2>5, <1>1 DEF Settled
  <2> QED BY <2>3, <2>6, <1>3, <1>6 DEF SharedInv, Exists
<1> QED BY <1>5, <1>6

(* What remains after one of these operations: the command is between its  *)
(* operations on the shared command, or that leads somewhere.              *)
Outcome(c, s) ==
    /\ ~Installing(c)' /\ ~Leaving(c)' => Good'
    /\ Leaving(c)' => HandedOver(s)'

LEMMA ProgramMoves ==
    ASSUME InstallInv, SharedInv, Quiet, NEW c \in Cmd, Operation(c), NEW s, s = S(c),
           Op(c) = <<"out", "bin">> \/ Op(c) = <<"in", "bin">>
    PROVE  Outcome(c, s)
<1>1. PICK x, j : x = Op(c) /\ j = cmd[c].job OBVIOUS
<1>2. /\ Shorter(c, x) /\ Rank(j, x) \in 1 .. 14 /\ x \in OpType /\ Advances(c) /\ Active(c) /\ Changes(j) /\ Underway(c)
    BY <1>1, Shortens
<1>3. j \in JobType /\ j.tool = "drdsh" BY <1>1, <1>2, Alone DEF Quiet
<1>4. j.action = "install" /\ LinkRanks(j) BY <1>1, <1>2, <1>3, LinkJobs, RanksOfLinks
<1>5. cmd'[c].pc = "working" /\ cmd'[c].job = j BY <1>1, <1>2 DEF Advances
<1>6. Links(c) BY <1>2 DEF SharedInv
<1>7. PICK ob, ib, sl : ob = <<"out", "bin">> /\ ib = <<"in", "bin">> /\ sl = <<"sharedLink", "">> OBVIOUS
<1>p. <<"out", "bin">> \in OpType /\ <<"in", "bin">> \in OpType /\ <<"sharedLink", "">> \in OpType BY DEF OpType, Part
<1>8. /\ ob \in OpType /\ ib \in OpType /\ sl \in OpType /\ Rank(j, ob) = 1 /\ Rank(j, ib) = 2 /\ Rank(j, sl) = 10
      /\ (Todo(c, ob) => Todo(c, sl)) /\ (Todo(c, ib) => Todo(c, sl)) /\ (x = ob \/ x = ib)
    BY <1>1, <1>4, <1>6, <1>7, <1>p DEF LinkRanks, Links, Installs
<1>9. \A y \in OpType : Todo(c, y)' => Rank(j, x) < Rank(j, y) BY <1>1, <1>2 DEF Shorter
<1>10. \A y \in OpType : Todo(c, y) <=> y = x \/ Todo(c, y)' BY <1>2 DEF Shorter
<1>11. sl # x
  <2>1. Rank(j, sl) # Rank(j, x) BY <1>8
  <2> QED BY <2>1
<1>12. Todo(c, sl)' BY <1>8, <1>10, <1>11
<1>13. ~Todo(c, ob)'
  <2>1. ~(Rank(j, x) < Rank(j, ob)) BY <1>8
  <2> QED BY <2>1, <1>8, <1>9
<1>14. Installing(c)' BY <1>4, <1>5, <1>7, <1>12, <1>13 DEF Installing
<1>15. ~Leaving(c)' BY <1>4, <1>5 DEF Leaving
<1> QED BY <1>14, <1>15 DEF Outcome

LEMMA ProgramGoes ==
    ASSUME InstallInv, SharedInv, Quiet, NEW c \in Cmd, Operation(c), NEW s, s = S(c), Op(c) = <<"gone", "bin">>
    PROVE  Outcome(c, s)
<1>1. PICK x, j : x = Op(c) /\ j = cmd[c].job OBVIOUS
<1>2. /\ Shorter(c, x) /\ Rank(j, x) \in 1 .. 14 /\ x \in OpType /\ Advances(c) /\ Active(c) /\ Changes(j) /\ Underway(c)
      /\ Only(c, s)
    BY <1>1, Shortens
<1>3. j \in JobType /\ j.tool = "drdsh" /\ s \in Scope /\ InstallTypeOK BY <1>1, <1>2, Alone DEF Quiet
<1>4. j.action = "uninstall" /\ LinkRanks(j) BY <1>1, <1>2, <1>3, LinkJobs, RanksOfLinks
<1>5. cmd[c].pc = "working" BY <1>2 DEF Advances
<1>7. PICK gb, al : gb = <<"gone", "bin">> /\ al = <<"awayLink", "">> OBVIOUS
<1>p. <<"gone", "bin">> \in OpType /\ <<"awayLink", "">> \in OpType BY DEF OpType, Part
<1>8. gb \in OpType /\ al \in OpType /\ Rank(j, gb) = 10 /\ Rank(j, al) = 7 /\ x = gb
    BY <1>1, <1>4, <1>7, <1>p DEF LinkRanks, Removes
<1>9. \A y \in OpType : Todo(c, y)' => Rank(j, x) < Rank(j, y) BY <1>1, <1>2 DEF Shorter
<1>10. \A y \in OpType : Todo(c, y) <=> y = x \/ Todo(c, y)' BY <1>2 DEF Shorter
<1>11. ~Todo(c, al) /\ Todo(c, gb) /\ ~Todo(c, gb)'
  <2>1. ~(Rank(j, x) < Rank(j, al)) /\ ~(Rank(j, x) < Rank(j, gb)) /\ Rank(j, x) # Rank(j, al) BY <1>8
  <2>2. al # x BY <2>1
  <2> QED BY <2>1, <2>2, <1>8, <1>9, <1>10
<1>12. Leaving(c) BY <1>1, <1>4, <1>5, <1>7, <1>11 DEF Leaving
<1>13. HandedOver(s) BY <1>1, <1>12 DEF SharedInv
<1>14. Op(c)[1] = "gone" BY Distinct
<1>15. shared' = shared BY <1>14, LinkEffect
<1>16. file'[s]["bin"] = Absent
  <2>1. Effect(c, x, s) /\ "bin" \in Part BY <1>1, <1>3, Effects DEF Part
  <2>2. x # <<"in", "bin">> /\ x # <<"put", "bin">> BY <1>1, Distinct
  <2> QED BY <2>1, <2>2, <1>1 DEF Effect
<1>17. \A r \in Scope : r # s => file'[r]["bin"] = file[r]["bin"] BY <1>2 DEF Only
<1>18. Good'
  <2>1. ~Exists(s)' /\ \A o \in Scope : o # s => (Exists(o)' <=> Exists(o)) BY <1>16, <1>17 DEF Exists
  <2>2. shared # s /\ \A o \in Scope : o # s => (shared = o <=> Exists(o)) BY <1>13 DEF HandedOver
  <2>3. shared \in Scope \cup {"none"} BY <1>3 DEF InstallTypeOK
  <2>4. "none" \notin Scope BY DEF Scope
  <2> QED BY <2>1, <2>2, <2>3, <2>4, <1>15 DEF Good
<1>19. ~Leaving(c)' BY <1>7, <1>11 DEF Leaving
<1> QED BY <1>18, <1>19 DEF Outcome

LEMMA LinkSet ==
    ASSUME InstallInv, SharedInv, Quiet, NEW c \in Cmd, Operation(c), NEW s, s = S(c), Op(c)[1] = "sharedLink"
    PROVE  Outcome(c, s)
<1>1. PICK x, j : x = Op(c) /\ j = cmd[c].job OBVIOUS
<1>2. /\ Shorter(c, x) /\ Rank(j, x) \in 1 .. 14 /\ x \in OpType /\ Advances(c) /\ Active(c) /\ Changes(j) /\ Underway(c)
    BY <1>1, Shortens
<1>3. /\ j \in JobType /\ j.tool = "drdsh" /\ s \in Scope /\ InstallTypeOK /\ Placed(c) /\ Plans(c)
      /\ \A d \in Cmd : d # c /\ Active(d) => S(d) # s
    BY <1>1, <1>2, Alone DEF Quiet, CommandInv
<1>a. x = <<"sharedLink", "">>
  <2>1. x = <<x[1], x[2]>> /\ x[1] = "sharedLink" /\ x[2] = "" BY <1>1, <1>2, Operations
  <2> QED BY <2>1, Zenon
<1>4. Installs(j) /\ LinkRanks(j) BY <1>a, <1>2, <1>3, LinkJobs, RanksOfLinks
<1>5. cmd[c].pc = "working" /\ cmd'[c].job = j BY <1>1, <1>2 DEF Advances
<1>6. Links(c) BY <1>2 DEF SharedInv
<1>7. PICK ib, sk, sl : ib = <<"in", "bin">> /\ sk = <<"sharedLook", "">> /\ sl = <<"sharedLink", "">> OBVIOUS
<1>p. <<"in", "bin">> \in OpType /\ <<"sharedLook", "">> \in OpType /\ <<"sharedLink", "">> \in OpType BY DEF OpType, Part
<1>8. /\ ib \in OpType /\ sk \in OpType /\ sl \in OpType /\ x = sl
      /\ Rank(j, ib) \in {0, 2} /\ Rank(j, sk) = 9 /\ Rank(j, sl) = 10
      /\ Todo(c, sl) => Todo(c, sk) \/ SeesShared(c)
    BY <1>a, <1>4, <1>6, <1>7, <1>p DEF LinkRanks, Links
<1>9. \A y \in OpType : Todo(c, y)' => Rank(j, x) < Rank(j, y) BY <1>1, <1>2 DEF Shorter
<1>10. \A y \in OpType : Todo(c, y) <=> y = x \/ Todo(c, y)' BY <1>2 DEF Shorter
<1>11. ~Todo(c, ib) /\ ~Todo(c, sk)
  <2>1. /\ ~(Rank(j, x) < Rank(j, ib)) /\ ~(Rank(j, x) < Rank(j, sk))
        /\ Rank(j, x) # Rank(j, ib) /\ Rank(j, x) # Rank(j, sk)
      BY <1>8
  <2>2. ib # x /\ sk # x BY <2>1
  <2> QED BY <2>1, <2>2, <1>8, <1>9, <1>10
<1>12. SeesShared(c) BY <1>8, <1>10, <1>11
<1>q. x[1] = "sharedLink" BY <1>1
<1>13. shared' = IF cmd[c].seen = "keep" THEN shared ELSE cmd[c].seen BY <1>q, <1>1, LinkEffect
<1>14. \A r : Exists(r)' <=> Exists(r)
  <2>1. \A a \in {"out", "in", "put", "gone"} : x # <<a, "bin">> BY <1>q
  <2>2. \A r \in Scope : file'[r]["bin"] = file[r]["bin"] BY <2>1, <1>1, SameBins
  <2> QED BY <2>2 DEF Exists
<1>15. Exists(s)
  <2>1. CASE j.action = "install"
    <3>1. Brings(c, s, j) BY <1>1, <1>3, <1>4 DEF Plans
    <3>2. file[s]["bin"] = c BY <3>1, <2>1, <1>3, <1>7, <1>11 DEF Brings, Program
    <3>3. c # Absent BY DEF Cmd, Absent
    <3> QED BY <3>2, <3>3, <1>3 DEF Exists
  <2>2. CASE j.action = "asset"
    <3>1. Installed(s) BY <2>2, <1>1, <1>3, <1>5 DEF Placed
    <3>2. Settled(s) BY <2>2, <3>1, <1>1, <1>3 DEF Settled, Active
    <3> QED BY <3>2, <1>3 DEF SharedInv
  <2> QED BY <2>1, <2>2, <1>4 DEF Installs
<1>16. s # "keep" /\ s # "none" /\ "none" \notin Scope BY <1>3 DEF Scope
<1>17. Good'
  <2>1. CASE shared \in Scope /\ Exists(shared)
    <3>1. shared' = shared BY <2>1, <1>12, <1>13 DEF SeesShared
    <3> QED BY <2>1, <3>1, <1>14, <1>16 DEF Good
  <2>2. CASE ~(shared \in Scope /\ Exists(shared))
    <3>1. shared' = s BY <2>2, <1>1, <1>12, <1>13, <1>16 DEF SeesShared
    <3> QED BY <3>1, <1>14, <1>15, <1>16 DEF Good
  <2> QED BY <2>1, <2>2
<1>18. ~Leaving(c)' BY <1>4, <1>5 DEF Leaving, Installs
<1> QED BY <1>17, <1>18 DEF Outcome

LEMMA LinkHandedOver ==
    ASSUME InstallInv, SharedInv, Quiet, NEW c \in Cmd, Operation(c), NEW s, s = S(c), Op(c)[1] = "awayLink",
           \A d \in Cmd : d # c => ~Installing(d) /\ ~Leaving(d)
    PROVE  Outcome(c, s)
<1>1. PICK x, j : x = Op(c) /\ j = cmd[c].job OBVIOUS
<1>2. /\ Shorter(c, x) /\ Rank(j, x) \in 1 .. 14 /\ x \in OpType /\ Advances(c) /\ Active(c) /\ Changes(j) /\ Underway(c)
    BY <1>1, Shortens
<1>3. j \in JobType /\ j.tool = "drdsh" /\ s \in Scope /\ InstallTypeOK BY <1>1, <1>2, Alone DEF Quiet
<1>a. x = <<"awayLink", "">>
  <2>1. x = <<x[1], x[2]>> /\ x[1] = "awayLink" /\ x[2] = "" BY <1>1, <1>2, Operations
  <2> QED BY <2>1, Zenon
<1>4. j.action = "uninstall" /\ LinkRanks(j) BY <1>a, <1>2, <1>3, LinkJobs, RanksOfLinks
<1>5. cmd'[c].pc = "working" /\ cmd'[c].job = j BY <1>1, <1>2 DEF Advances
<1>6. Links(c) BY <1>2 DEF SharedInv
<1>7. PICK gb, ak, al : gb = <<"gone", "bin">> /\ ak = <<"awayLook", "">> /\ al = <<"awayLink", "">> OBVIOUS
<1>p. <<"gone", "bin">> \in OpType /\ <<"awayLook", "">> \in OpType /\ <<"awayLink", "">> \in OpType BY DEF OpType, Part
<1>8. /\ gb \in OpType /\ ak \in OpType /\ al \in OpType /\ x = al
      /\ Rank(j, gb) = 10 /\ Rank(j, ak) = 6 /\ Rank(j, al) = 7
      /\ (Todo(c, al) => Todo(c, gb)) /\ (Todo(c, al) => Todo(c, ak) \/ SeesAway(c))
    BY <1>a, <1>4, <1>6, <1>7, <1>p DEF LinkRanks, Links, Removes
<1>9. \A y \in OpType : Todo(c, y)' => Rank(j, x) < Rank(j, y) BY <1>1, <1>2 DEF Shorter
<1>10. \A y \in OpType : Todo(c, y) <=> y = x \/ Todo(c, y)' BY <1>2 DEF Shorter
<1>11. ~Todo(c, ak) /\ Todo(c, al) /\ Todo(c, gb)' /\ ~Todo(c, al)'
  <2>1. /\ ~(Rank(j, x) < Rank(j, ak)) /\ ~(Rank(j, x) < Rank(j, al))
        /\ Rank(j, x) # Rank(j, gb) /\ Rank(j, x) # Rank(j, ak)
      BY <1>8
  <2>2. gb # x /\ ak # x BY <2>1
  <2> QED BY <2>1, <2>2, <1>8, <1>9, <1>10
<1>12. SeesAway(c) BY <1>8, <1>11
<1>13. Leaving(c)' BY <1>4, <1>5, <1>7, <1>11 DEF Leaving
<1>14. Good
  <2>1. ~Leaving(c) BY <1>7, <1>11 DEF Leaving
  <2>2. ~Installing(c) BY <1>1, <1>4 DEF Installing
  <2> QED BY <2>1, <2>2 DEF SharedInv
<1>15. shared' = IF cmd[c].seen = "keep" THEN shared ELSE cmd[c].seen BY LinkEffect
<1>16. \A r : Exists(r)' <=> Exists(r)
  <2>1. \A a \in {"out", "in", "put", "gone"} : x # <<a, "bin">> BY <1>1
  <2>2. \A r \in Scope : file'[r]["bin"] = file[r]["bin"] BY <2>1, <1>1, SameBins
  <2> QED BY <2>2 DEF Exists
<1>17. PICK o : o = CHOOSE r \in Scope : r # s OBVIOUS
<1>18. o \in Scope /\ o # s /\ (\A r \in Scope : r # s => r = o) /\ o # "keep" /\ o # "none" /\ s # "none"
    BY <1>3, <1>17 DEF Scope
<1>19. shared \in Scope \cup {"none"} BY <1>3 DEF InstallTypeOK
<1>20. shared' # s /\ (shared' = o <=> Exists(o))
  <2>1. CASE shared # s
    <3>1. shared' = shared BY <2>1, <1>1, <1>12, <1>15 DEF SeesAway
    <3>2. shared = o <=> Exists(o) BY <2>1, <1>14, <1>18, <1>19 DEF Good
    <3> QED BY <2>1, <3>1, <3>2
  <2>2. CASE shared = s
    <3>1. cmd[c].seen = IF Exists(o) THEN o ELSE "none" BY <2>2, <1>1, <1>12, <1>17 DEF SeesAway
    <3>2. shared' = IF Exists(o) THEN o ELSE "none" BY <3>1, <1>15, <1>18
    <3> QED BY <3>2, <1>18
  <2> QED BY <2>1, <2>2
<1>21. HandedOver(s)' BY <1>16, <1>18, <1>20 DEF HandedOver
<1> QED BY <1>1, <1>13, <1>21 DEF Outcome

LEMMA OperationShared == ASSUME InstallInv, SharedInv, NEW c \in Cmd, Operation(c) PROVE SharedInv'
<1> SUFFICES ASSUME Quiet' PROVE SharedInv' BY DEF SharedInv
<1>1. PICK x, s, j : x = Op(c) /\ s = S(c) /\ j = cmd[c].job OBVIOUS
<1>2. /\ Shorter(c, x) /\ Rank(j, x) \in 1 .. 14 /\ x \in OpType /\ Advances(c) /\ Active(c) /\ Changes(j) /\ Underway(c)
    BY <1>1, Shortens
<1>3. /\ \A d \in Cmd : d # c => cmd'[d] = cmd[d]
      /\ cmd'[c].job = j /\ S(c)' = s /\ cmd[c].pc = "working" /\ cmd'[c].pc = "working" /\ apart'
    BY <1>1, <1>2 DEF Advances, S, Quiet
<1>4. Quiet /\ j.tool = "drdsh" BY <1>1, <1>3, QuietBefore, LinkEffect DEF Quiet
<1>5. Touches(c) BY <1>1, <1>2, <1>3 DEF Touches, Changes
<1>6. Links(c)' BY <1>1, <1>2, <1>4, LinksOwn DEF SharedInv
<1>7. \A r \in Scope : Settled(r)' => Exists(r)' BY <1>4, SettledStay
<1>8. /\ x = <<x[1], x[2]>> /\ (x[1] \notin {"out", "in", "put", "gone"} => x[2] = "") BY <1>2, Operations
<1>9. j \in JobType /\ s \in Scope BY <1>1, <1>2, Alone
<1>a. x = <<"out", "bin">> \/ x = <<"in", "bin">> \/ x = <<"gone", "bin">> => x[1] \in {"out", "in", "gone"}
    BY Distinct
<1>10. ASSUME \/ x = <<"out", "bin">> \/ x = <<"in", "bin">> \/ x = <<"gone", "bin">>
              \/ x[1] \in {"sharedLink", "awayLink"}
       PROVE  SharedInv'
  <2>1. ~Overlaps BY <1>10, <1>a, <1>1, <1>3, LinkEffect
  <2>2. \A d \in Cmd : d # c => /\ ~Installing(d) /\ ~Leaving(d) /\ ~Installing(d)' /\ ~Leaving(d)'
                                /\ Underway(d)' => Links(d)'
      BY <2>1, <1>3, <1>5, OthersApart
  <2>3. Outcome(c, s)
    <3>1. CASE x = <<"out", "bin">> \/ x = <<"in", "bin">> BY <3>1, <1>1, <1>4, ProgramMoves
    <3>2. CASE x = <<"gone", "bin">> BY <3>2, <1>1, <1>4, ProgramGoes
    <3>3. CASE x[1] = "sharedLink" BY <3>3, <1>1, <1>4, LinkSet
    <3>4. CASE x[1] = "awayLink" BY <3>4, <2>2, <1>1, <1>4, LinkHandedOver
    <3> QED BY <3>1, <3>2, <3>3, <3>4, <1>10
  <2>4. (\A d \in Cmd : ~Installing(d) /\ ~Leaving(d))' => Good' BY <2>3 DEF Outcome
  <2>5. ASSUME NEW d \in Cmd, Leaving(d)' PROVE HandedOver(S(d))'
    <3>1. d = c BY <2>2, <2>5
    <3>2. HandedOver(s)' BY <2>3, <2>5, <3>1 DEF Outcome
    <3> QED BY <3>1, <3>2, <1>3 DEF HandedOver
  <2> QED BY <2>2, <2>4, <2>5, <1>6, <1>7 DEF SharedInv
<1>11. ASSUME x # <<"out", "bin">>, x # <<"in", "bin">>, x # <<"gone", "bin">>, x[1] \notin {"sharedLink", "awayLink"}
       PROVE  SharedInv'
  <2>1. x # <<"put", "bin">> BY <1>2, <1>4, <1>9, LinkJobs
  <2>2. \A r \in Scope : file'[r]["bin"] = file[r]["bin"] BY <2>1, <1>1, <1>11, SameBins
  <2>3. shared' = shared BY <1>1, <1>11, LinkEffect
  <2>4. \A r : Exists(r)' <=> Exists(r) BY <2>2 DEF Exists
  <2>5. (Good' <=> Good) /\ \A r : HandedOver(r)' <=> HandedOver(r) BY <2>3, <2>4 DEF Good, HandedOver
  <2>6. \A d \in Cmd : d # c => (Installing(d)' <=> Installing(d)) /\ (Leaving(d)' <=> Leaving(d)) /\ S(d)' = S(d)
      BY <1>3 DEF Installing, Leaving, Todo, S
  <2>7. (Installing(c)' <=> Installing(c)) /\ (Leaving(c)' <=> Leaving(c))
    <3>1. PICK ob, gb, sl, al : ob = <<"out", "bin">> /\ gb = <<"gone", "bin">> /\ sl = <<"sharedLink", "">> /\ al = <<"awayLink", "">>
        OBVIOUS
    <3>2. /\ <<"out", "bin">> \in OpType /\ <<"gone", "bin">> \in OpType
          /\ <<"sharedLink", "">> \in OpType /\ <<"awayLink", "">> \in OpType
        BY DEF OpType, Part
    <3>3. {ob, gb, sl, al} \subseteq OpType /\ x # ob /\ x # gb BY <3>1, <3>2, <1>11
    <3>4. x # sl /\ x # al
      <4>1. sl[1] = "sharedLink" /\ al[1] = "awayLink"
        <5>1. \A y, a, q : y = <<a, q>> => y[1] = a OBVIOUS
        <5> QED BY <5>1, <3>1, Zenon
      <4> QED BY <4>1, <1>11
    <3>5. \A y \in {ob, gb, sl, al} : Todo(c, y)' <=> Todo(c, y) BY <3>3, <3>4, <1>2 DEF Shorter
    <3> QED BY <3>1, <3>5, <1>1, <1>3 DEF Installing, Leaving
  <2>8. (\A d \in Cmd : ~Installing(d) /\ ~Leaving(d))' => Good' BY <2>5, <2>6, <2>7, <1>4 DEF SharedInv
  <2>9. ASSUME NEW d \in Cmd, Leaving(d)' PROVE HandedOver(S(d))'
    <3>1. S(d)' = S(d) /\ Leaving(d) BY <2>6, <2>7, <2>9, <1>1, <1>3
    <3>2. HandedOver(S(d)) BY <3>1, <1>4 DEF SharedInv
    <3> QED BY <3>1, <3>2, <2>5 DEF HandedOver
  <2>10. ASSUME NEW d \in Cmd, d # c, Underway(d)' PROVE Links(d)'
    <3>1. Links(d) /\ cmd'[d] = cmd[d] /\ S(d) \in Scope BY <2>10, <1>3, <1>4, Scopes DEF SharedInv, Underway, InstallInv
    <3> QED BY <3>1, <2>2, <2>3, LinksStay
  <2> QED BY <2>8, <2>9, <2>10, <1>6, <1>7 DEF SharedInv
<1> QED BY <1>10, <1>11

LEMMA SharedInit == Init => SharedInv
<1> SUFFICES ASSUME Init PROVE SharedInv OBVIOUS
<1>1. \A c \in Cmd : cmd[c].pc = "idle" BY DEF Init, Nothing
<1>2. \A s : ~Exists(s) BY DEF Init, Exists
<1>3. shared = "none" BY DEF Init
<1>4. \A s \in Scope : ~Settled(s) BY DEF Init, Settled, Installed
<1> QED BY <1>1, <1>2, <1>3, <1>4 DEF SharedInv, Good, Leaving, Underway

LEMMA SameShared == ASSUME InstallInv, SharedInv, UNCHANGED <<file, comps, shared, cmd, apart>> PROVE SharedInv'
<1> SUFFICES ASSUME Quiet' PROVE SharedInv' BY DEF SharedInv
<1>1. Quiet BY DEF Quiet
<1>2. \A r : Exists(r)' <=> Exists(r) BY DEF Exists
<1>3. (Good' <=> Good) /\ \A r : HandedOver(r)' <=> HandedOver(r) BY <1>2 DEF Good, HandedOver
<1>4. \A d \in Cmd : (Installing(d)' <=> Installing(d)) /\ (Leaving(d)' <=> Leaving(d)) /\ S(d)' = S(d)
    BY DEF Installing, Leaving, Todo, S
<1>5. (\A d \in Cmd : ~Installing(d) /\ ~Leaving(d))' => Good' BY <1>1, <1>3, <1>4 DEF SharedInv
<1>6. ASSUME NEW d \in Cmd, Leaving(d)' PROVE HandedOver(S(d))'
  <2>1. S(d)' = S(d) /\ HandedOver(S(d)) BY <1>1, <1>4, <1>6 DEF SharedInv
  <2> QED BY <2>1, <1>3 DEF HandedOver
<1>7. \A r \in Scope : Settled(r)' => Exists(r)' BY <1>1, <1>2 DEF SharedInv, Settled, Installed, S
<1>8. ASSUME NEW d \in Cmd, Underway(d)' PROVE Links(d)'
  <2>1. Links(d) /\ S(d) \in Scope BY <1>1, <1>8, Scopes DEF SharedInv, Underway, InstallInv
  <2> QED BY <2>1, LinksStay
<1> QED BY <1>5, <1>6, <1>7, <1>8 DEF SharedInv

LEMMA SharedStep == InstallInv /\ SharedInv /\ [Next]_vars => SharedInv'
<1> SUFFICES ASSUME InstallInv, SharedInv, [Next]_vars PROVE SharedInv' OBVIOUS
<1>1. CASE UNCHANGED vars BY <1>1, SameShared DEF vars, tree
<1>2. ASSUME NEW c \in Cmd, NEW j \in Job, Begin(c, j) PROVE SharedInv' BY <1>2, BeginShared
<1>3. ASSUME NEW c \in Cmd, Check(c) PROVE SharedInv' BY <1>3, CheckShared
<1>4. ASSUME NEW c \in Cmd, ReadState(c) \/ Stop(c) \/ StopFails(c) PROVE SharedInv' BY <1>4, GoesOnShared
<1>5. ASSUME NEW c \in Cmd, Refuse(c) \/ Start(c) \/ StartFails(c) \/ Switch(c) PROVE SharedInv' BY <1>5, EndsShared
<1>6. ASSUME NEW c \in Cmd, Operation(c) PROVE SharedInv' BY <1>6, OperationShared
<1>7. ASSUME NEW c \in Cmd, WorkFails(c) \/ Kill(c) PROVE SharedInv'
  <2>1. ~apart' BY <1>7 DEF WorkFails, Kill
  <2> QED BY <2>1 DEF SharedInv, Quiet
<1>8. ASSUME NEW c \in Cmd, Worked(c) PROVE SharedInv' BY <1>8, WorkedShared
<1>9. ASSUME NEW s \in Scope, Unlock(s) \/ Crash(s) \/ Revive(s) PROVE SharedInv'
    BY <1>9, SameShared DEF Unlock, Crash, Revive, tree
<1> QED BY <1>1, <1>2, <1>3, <1>4, <1>5, <1>6, <1>7, <1>8, <1>9 DEF Next

(* Whoever installs and removes what, in whatever order: as long as those  *)
(* commands neither overlap nor fail, `drdsh` in the prefix leads to a     *)
(* program whenever there is one, and never to one that is gone.           *)
THEOREM SharedCommandLeadsOn == Spec => []SharedCommandWorks
<1>1. SharedInv => SharedCommandWorks
  <2> SUFFICES ASSUME SharedInv, apart, \A c \in Cmd : ~Touches(c) /\ cmd[c].job.tool = "drdsh" PROVE Good
      BY DEF SharedCommandWorks, Good
  <2>1. \A c \in Cmd : ~Installing(c) /\ ~Leaving(c) BY DEF Touches, Installing, Leaving, Installs, Removes
  <2> QED BY <2>1 DEF SharedInv, Quiet
<1> QED BY <1>1, InstallInit, InstallStep, SharedInit, SharedStep, PTL DEF Spec
=============================================================================

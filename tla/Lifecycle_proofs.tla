-------------------------- MODULE Lifecycle_proofs --------------------------
(***************************************************************************)
(* Proofs about the processes on one data directory, for any number of     *)
(* gateways, commands and ports, and whatever earlier runs left behind.    *)
(***************************************************************************)
EXTENDS Lifecycle, TLAPS

USE ProcessesAssumption, PortsAssumption DEF Processes

(***************************************************************************)
(* Types.                                                                  *)
(***************************************************************************)

\* A transaction that begins.
LEMMA NewTransaction ==
  ASSUME NEW want \in BOOLEAN, NEW is \in Seeable, NEW flag \in BOOLEAN
  PROVE  /\ NoTx \in Transactions
         /\ [NoTx EXCEPT !.step = "status", !.want = want,
                         !.began = [is |-> is, flag |-> flag]] \in Transactions
BY DEF NoTx, Transactions, TxSteps, Seeable

LEMMA StatusIsSeeable == Status \in Seeable
BY DEF Status, Seeable

\* What a transaction is, whoever carries it on.
TxTyped == tx \in [Processes -> Transactions]

LEMMA TxStep ==
  ASSUME NEW p \in Processes, TxTyped,
         \/ \E step \in TxSteps : Proceed(p, step)
         \/ \E answer \in {"ok", "error", "partial"} : Answer(p, answer)
         \/ FailStep(p) \/ FinishStep(p)
  PROVE  TxTyped'
<1>1. tx[p] \in Transactions
  BY DEF TxTyped
<1>2. \A enable : FirstOf(enable) \in TxSteps
  BY DEF FirstOf, TxSteps
<1>3. {"over", "verify"} \subseteq TxSteps
  BY DEF TxSteps
<1>4. ASSUME NEW answer \in {"ok", "error", "partial"}, Answer(p, answer) PROVE TxTyped'
  <2>1. [tx[p] EXCEPT !.step = "over", !.answer = answer] \in Transactions
    BY <1>1, <1>3 DEF Transactions
  <2>2. tx' = [tx EXCEPT ![p] = [tx[p] EXCEPT !.step = "over", !.answer = answer]]
    BY <1>4, <1>1 DEF Answer, TxTyped, Transactions
  <2> QED
    BY <2>1, <2>2 DEF TxTyped
<1>5. ASSUME NEW step \in TxSteps, Proceed(p, step) PROVE TxTyped'
  <2>1. [tx[p] EXCEPT !.step = step] \in Transactions
    BY <1>1 DEF Transactions
  <2>2. tx' = [tx EXCEPT ![p] = [tx[p] EXCEPT !.step = step]]
    BY <1>5, <1>1 DEF Proceed, TxTyped, Transactions
  <2> QED
    BY <2>1, <2>2 DEF TxTyped
<1>6. ASSUME FailStep(p) PROVE TxTyped'
  <2>1. CASE tx[p].rollback
    BY <1>4, <1>6, <2>1 DEF FailStep
  <2>2. CASE ~tx[p].rollback
    <3>1. PICK step \in TxSteps :
            tx' = [tx EXCEPT ![p].step = step, ![p].rollback = TRUE]
      BY <1>2, <1>6, <2>2 DEF FailStep
    <3>2. [tx[p] EXCEPT !.step = step, !.rollback = TRUE] \in Transactions
      BY <1>1 DEF Transactions
    <3>3. tx' = [tx EXCEPT ![p] = [tx[p] EXCEPT !.step = step, !.rollback = TRUE]]
      BY <3>1, <1>1 DEF TxTyped, Transactions
    <3> QED
      BY <3>2, <3>3 DEF TxTyped
  <2> QED
    BY <2>1, <2>2
<1>7. ASSUME FinishStep(p) PROVE TxTyped'
  <2>1. CASE tx[p].rollback
    BY <1>4, <1>7, <2>1 DEF FinishStep
  <2>2. CASE ~tx[p].rollback
    BY <1>3, <1>5, <1>7, <2>2 DEF FinishStep
  <2> QED
    BY <2>1, <2>2
<1> QED
  BY <1>4, <1>5, <1>6, <1>7

LEMMA BeginApplyTyped ==
  ASSUME NEW p \in Processes, NEW want \in BOOLEAN, TxTyped, BeginApply(p, want)
  PROVE  TxTyped'
<1>1. PICK t \in Transactions : tx' = [tx EXCEPT ![p] = t]
  BY NewTransaction, StatusIsSeeable DEF BeginApply
<1> QED
  BY <1>1 DEF TxTyped

\* Everything but the transactions.
OthersTyped ==
  /\ config \in BOOLEAN \cup {Missing}
  /\ lock \in Processes \cup {Nobody}
  /\ pidFile \in [owner : Gateways, port : Ports] \cup {Missing}
  /\ unit \in Units
  /\ enabled \in BOOLEAN
  /\ pc \in [Processes -> GatewaySteps \cup CommandSteps]
  /\ \A g \in Gateways : pc[g] \in GatewaySteps
  /\ \A c \in Commands : pc[c] \in CommandSteps
  /\ memory \in [Processes -> BOOLEAN]
  /\ port \in [Processes -> Ports \cup {NoPort}]
  /\ asked \subseteq Gateways
  /\ disturbed \subseteq Processes
  /\ starts \in 0..MaxStarts /\ commands \in 0..MaxCommands
  /\ changes \in 0..MaxChanges /\ faults \in 0..MaxFaults

\* The pid file can hold the port of a gateway, since one that runs has one.
HavePorts == \A g \in Gateways : pc[g] # "off" => port[g] \in Ports

TypeInv == TxTyped /\ OthersTyped /\ HavePorts

LEMMA TypeParts == TypeInv => TypeOK
BY DEF TypeInv, TypeOK, TxTyped, OthersTyped

LEMMA InitType == Init => TypeInv
<1> SUFFICES ASSUME Init PROVE TypeInv
  OBVIOUS
<1>1. TxTyped
  BY NewTransaction DEF Init, TxTyped, NoTx, Transactions, TxSteps, Seeable
<1>2. PICK left \in LeftBehind : config = left.config /\ unit = left.unit /\ enabled = left.enabled
  BY DEF Init
<1>3. config \in BOOLEAN \cup {Missing} /\ unit \in Units /\ enabled \in BOOLEAN
  BY <1>2, LeftBehindAssumption
<1>4. OthersTyped
  BY <1>3, BoundsAssumption DEF Init, OthersTyped, GatewaySteps, CommandSteps
<1> QED
  BY <1>1, <1>4 DEF TypeInv, HavePorts, Init

LEMMA EndType ==
  ASSUME NEW p \in Processes, TypeInv, End(p), faults' \in 0..MaxFaults
  PROVE  TypeInv'
<1>1. TxTyped'
  BY NewTransaction DEF TypeInv, TxTyped, End, NoTx, Transactions, TxSteps, Seeable
<1>2. OthersTyped'
  BY DEF TypeInv, OthersTyped, End, GoTo, registration, bounds, GatewaySteps, CommandSteps
<1>3. HavePorts'
  BY DEF TypeInv, OthersTyped, HavePorts, End, GoTo
<1> QED
  BY <1>1, <1>2, <1>3 DEF TypeInv

LEMMA FaultType == ASSUME TypeInv, Fault PROVE faults' \in 0..MaxFaults
BY BoundsAssumption DEF TypeInv, OthersTyped, Fault

LEMMA SeeType ==
  ASSUME TypeInv, NEW seen, SeeStatus(seen)
  PROVE  faults' \in 0..MaxFaults
BY BoundsAssumption DEF TypeInv, OthersTyped, SeeStatus, Seen

\* The autostart transaction.
LEMMA ApplyType == ASSUME NEW p \in Processes, TypeInv, ApplyNext(p) PROVE TypeInv'
<1> USE DEF TypeInv, HavePorts, txOnly, processState, bounds, registration, StepFault
<1>1. TxTyped
  BY DEF TypeInv
<1>2. ASSUME ReadStatus(p) PROVE TypeInv'
  <2>1. faults' \in 0..MaxFaults
    BY <1>2, FaultType, SeeType DEF ReadStatus
  <2>2. CASE Answer(p, "error")
    BY <1>1, <1>2, <2>1, <2>2, TxStep DEF ReadStatus, OthersTyped
  <2>3. ASSUME NEW seen \in Seeable,
               tx' = [tx EXCEPT ![p].before = seen,
                                ![p].step = IF seen = Goal(tx[p].want)
                                              THEN "verify" ELSE FirstOf(tx[p].want)]
        PROVE  TypeInv'
    <3>1. PICK step \in TxSteps : tx' = [tx EXCEPT ![p].before = seen, ![p].step = step]
      BY <2>3 DEF FirstOf, TxSteps
    <3>2. [tx[p] EXCEPT !.before = seen, !.step = step] \in Transactions
      BY <1>1 DEF TxTyped, Transactions
    <3>3. tx' = [tx EXCEPT ![p] = [tx[p] EXCEPT !.before = seen, !.step = step]]
      BY <1>1, <3>1 DEF TxTyped, Transactions
    <3> QED
      BY <1>1, <1>2, <2>1, <3>2, <3>3 DEF ReadStatus, OthersTyped, TxTyped
  <2> QED
    BY <1>2, <2>2, <2>3 DEF ReadStatus
<1>3. ASSUME Enable(p) \/ Disable(p) PROVE TypeInv'
  <2>1. FinishStep(p) \/ FailStep(p)
    BY <1>3 DEF Enable, Disable
  <2>2. faults' \in 0..MaxFaults
    BY <1>3, FaultType DEF Enable, Disable, OthersTyped
  <2>3. unit' \in Units /\ enabled' \in BOOLEAN
    BY <1>3 DEF Enable, Disable, OthersTyped, Units
  <2>4. disturbed' \subseteq Processes
    BY <1>3 DEF Enable, Disable, Disturb, OthersTyped
  <2> QED
    BY <1>1, <1>3, <2>1, <2>2, <2>3, <2>4, TxStep DEF Enable, Disable, OthersTyped
<1>4. ASSUME Verify(p) PROVE TypeInv'
  <2>1. Proceed(p, "config") \/ FailStep(p)
    BY <1>4 DEF Verify
  <2>2. faults' \in 0..MaxFaults
    BY <1>4, FaultType, SeeType DEF Verify, OthersTyped
  <2> QED
    BY <1>1, <1>4, <2>1, <2>2, TxStep DEF Verify, OthersTyped, TxSteps
<1>5. ASSUME WriteConfig(p) PROVE TypeInv'
  <2>1. Answer(p, "ok") \/ FailStep(p)
    BY <1>5 DEF WriteConfig
  <2>2. faults' \in 0..MaxFaults
    BY <1>5, FaultType DEF WriteConfig, OthersTyped
  <2>3. tx[p].want \in BOOLEAN
    BY <1>1 DEF TxTyped, Transactions
  <2>4. /\ config' \in BOOLEAN \cup {Missing}
        /\ memory' \in [Processes -> BOOLEAN]
        /\ disturbed' \subseteq Processes
    BY <1>5, <2>3 DEF WriteConfig, Write, Disturb, OthersTyped
  <2> QED
    BY <1>1, <1>5, <2>1, <2>2, <2>4, TxStep DEF WriteConfig, OthersTyped
<1>6. ASSUME EndApply(p) PROVE TypeInv'
  <2>1. TxTyped'
    BY <1>1, <1>6, NewTransaction DEF TxTyped, EndApply, NoTx, Transactions, TxSteps, Seeable
  <2>2. OthersTyped'
    BY <1>6 DEF EndApply, CommandEnds, GoTo, OthersTyped, GatewaySteps, CommandSteps
  <2>3. HavePorts'
    BY <1>6 DEF EndApply, CommandEnds, GoTo, OthersTyped
  <2> QED
    BY <2>1, <2>2, <2>3
<1> QED
  BY <1>2, <1>3, <1>4, <1>5, <1>6 DEF ApplyNext

LEMMA StepType == TypeInv /\ [Next]_vars => TypeInv'
<1> SUFFICES ASSUME TypeInv, [Next]_vars PROVE TypeInv'
  OBVIOUS
<1> USE BoundsAssumption
    DEF TypeInv, HavePorts, OthersTyped, GoTo, Load, Write, Disturb, Change, CommandEnds, GatewaySteps,
        CommandSteps, processState, bounds, registration
<1>1. ASSUME NEW g \in Gateways, NEW p \in Ports, BeginServe(g, p) PROVE TypeInv'
  BY <1>1 DEF BeginServe, TxTyped
<1>2. ASSUME NEW p \in Processes, CreateConfig(p) PROVE TypeInv'
  BY <1>2 DEF CreateConfig, TxTyped
<1>3. ASSUME NEW g \in Gateways, AcquireLock(g) PROVE TypeInv'
  BY <1>3, EndType DEF AcquireLock, TxTyped
<1>4. ASSUME NEW g \in Gateways, Fail(g) PROVE TypeInv'
  BY <1>4, FaultType DEF Fail, TxTyped
<1>5. ASSUME NEW g \in Gateways, Serve(g) PROVE TypeInv'
  <2>1. port[g] \in Ports
    BY <1>5 DEF Serve
  <2> QED
    BY <1>5, <2>1 DEF Serve, TxTyped
<1>6. ASSUME NEW g \in Gateways, BeginShutdown(g) PROVE TypeInv'
  BY <1>6 DEF BeginShutdown, TxTyped
<1>7. ASSUME NEW g \in Gateways, RemovePID(g) PROVE TypeInv'
  BY <1>7, FaultType DEF RemovePID, TxTyped
<1>8. ASSUME NEW g \in Gateways, ReleaseLock(g) PROVE TypeInv'
  BY <1>8, EndType DEF ReleaseLock
<1>9. ASSUME NEW g \in Gateways, Save(g) PROVE TypeInv'
  BY <1>9 DEF Save, TxTyped
<1>10. ASSUME NEW g \in Gateways, NEW want \in BOOLEAN, HandleAutostart(g, want) PROVE TypeInv'
  BY <1>10, BeginApplyTyped DEF HandleAutostart
<1>11. ASSUME NEW c \in Commands, NEW kind \in {"stop", "status", "autostart"},
              BeginCommand(c, kind)
       PROVE  TypeInv'
  <2>1. ResolvedPort \in Ports
    BY DEF ResolvedPort
  <2> QED
    BY <1>11, <2>1 DEF BeginCommand, TxTyped
<1>12. ASSUME NEW c \in Commands, Stop(c) PROVE TypeInv'
  BY <1>12 DEF Stop, TxTyped
<1>13. ASSUME NEW c \in Commands, CallStatus(c) PROVE TypeInv'
  BY <1>13 DEF CallStatus, TxTyped
<1>14. ASSUME NEW c \in Commands, ProbeLock(c) PROVE TypeInv'
  BY <1>14 DEF ProbeLock, TxTyped
<1>15. ASSUME NEW c \in Commands, EndProbe(c) PROVE TypeInv'
  BY <1>15 DEF EndProbe, TxTyped
<1>16. ASSUME NEW c \in Commands, CallHealthz(c) PROVE TypeInv'
  BY <1>16 DEF CallHealthz, TxTyped
<1>17. ASSUME NEW c \in Commands, SetAutostart(c) PROVE TypeInv'
  <2>1. TxTyped'
    BY <1>17, BeginApplyTyped DEF SetAutostart, TxTyped
  <2> QED
    BY <1>17, <2>1 DEF SetAutostart
<1>18. ASSUME NEW c \in Commands, LoadConfig(c) PROVE TypeInv'
  BY <1>18 DEF LoadConfig, TxTyped
<1>19. ASSUME NEW c \in Commands, NEW want \in BOOLEAN, ApplyLocally(c, want) PROVE TypeInv'
  BY <1>19, BeginApplyTyped DEF ApplyLocally
<1>20. ASSUME NEW p \in Processes, Die(p) PROVE TypeInv'
  BY <1>20, EndType, FaultType DEF Die
<1>21. ASSUME UNCHANGED vars PROVE TypeInv'
  BY <1>21 DEF vars, TxTyped
<1> QED
  BY <1>1, <1>2, <1>3, <1>4, <1>5, <1>6, <1>7, <1>8, <1>9, <1>10, <1>11, <1>12, <1>13,
     <1>14, <1>15, <1>16, <1>17, <1>18, <1>19, <1>20, <1>21, ApplyType
     DEF Next, ServeNext, CommandNext

\* Gateways and commands, their transactions and what they leave on disk stay well
\* formed; a gateway that runs knows its port.
THEOREM LifecycleTypeCorrect == Spec => []TypeOK
BY InitType, StepType, TypeParts, PTL DEF Spec

(***************************************************************************)
(* The pid file and the lock.                                              *)
(***************************************************************************)

\* From taking the lock to giving it back: a gateway that was let through, a command
\* that probes.
Holding(p) ==
  \/ p \in Gateways /\ pc[p] \in {"locked", "serving", "leaving", "unlocking"}
  \/ p \in Commands /\ pc[p] = "probing"

\* PidNamesServer is not inductive alone: who removes the pid file must hold the lock,
\* for the file not to be that of another gateway which serves.
HolderHasLock == \A p \in Processes : Holding(p) => lock = p

LockInv == HolderHasLock /\ PidNamesServer

Places ==
  /\ pc \in [Processes -> GatewaySteps \cup CommandSteps]
  /\ port \in [Processes -> Ports \cup {NoPort}]

LEMMA PlacesTyped == TypeInv => Places
BY DEF TypeInv, OthersTyped, Places

LEMMA InitLock == Init => LockInv
BY DEF Init, LockInv, HolderHasLock, Holding, PidNamesServer

\* A step that keeps lock, pid file and the ports of gateways that serve, and takes
\* no process to where it holds the lock or serves, keeps the invariant.
LEMMA Harmless ==
  ASSUME LockInv, UNCHANGED <<lock, pidFile>>,
         \A g \in Gateways : pc'[g] = "serving" => pc[g] = "serving" /\ port'[g] = port[g],
         \A p \in Processes : Holding(p)' => Holding(p)
  PROVE  LockInv'
BY DEF LockInv, HolderHasLock, PidNamesServer

\* The end of a process takes nothing from another one.
LEMMA EndLock == ASSUME NEW p \in Processes, Places, LockInv, End(p) PROVE LockInv'
<1>1. /\ pc' = [pc EXCEPT ![p] = "off"]
      /\ port' = [port EXCEPT ![p] = NoPort]
      /\ lock' = IF lock = p THEN Nobody ELSE lock
      /\ pidFile' = pidFile
  BY DEF End, GoTo
<1>2. HolderHasLock'
  BY <1>1 DEF Places, LockInv, HolderHasLock, Holding
<1>3. PidNamesServer'
  BY <1>1 DEF Places, LockInv, HolderHasLock, Holding, PidNamesServer
<1> QED
  BY <1>2, <1>3 DEF LockInv

\* The autostart transaction touches neither lock nor pid file, and only the end of a
\* command moves anybody.
LEMMA ApplyLock == ASSUME NEW p \in Processes, Places, LockInv, ApplyNext(p) PROVE LockInv'
<1> USE DEF Places, Holding
<1>1. UNCHANGED <<lock, pidFile>>
  BY DEF ApplyNext, ReadStatus, Enable, Disable, Verify, WriteConfig, EndApply, txOnly
<1>2. CASE UNCHANGED <<pc, port>>
  BY <1>1, <1>2, Harmless
<1>3. CASE p \in Commands /\ CommandEnds(p)
  BY <1>1, <1>3, Harmless DEF CommandEnds, GoTo
<1> QED
  BY <1>2, <1>3
     DEF ApplyNext, ReadStatus, Enable, Disable, Verify, WriteConfig, EndApply, txOnly, processState

LEMMA StepLock == Places /\ LockInv /\ [Next]_vars => LockInv'
<1> SUFFICES ASSUME Places, LockInv, [Next]_vars PROVE LockInv'
  OBVIOUS
<1> USE DEF Places, GoTo, CommandEnds, Holding, processState, GatewaySteps, CommandSteps
<1>1. ASSUME NEW g \in Gateways, NEW p \in Ports, BeginServe(g, p) PROVE LockInv'
  BY <1>1, Harmless DEF BeginServe, Load
<1>2. ASSUME NEW p \in Processes, CreateConfig(p) PROVE LockInv'
  BY <1>2, Harmless DEF CreateConfig
<1>3. ASSUME NEW g \in Gateways, AcquireLock(g) PROVE LockInv'
  <2>1. CASE lock = Nobody
    BY <1>3, <2>1 DEF AcquireLock, LockInv, HolderHasLock, PidNamesServer
  <2>2. CASE lock # Nobody
    BY <1>3, <2>2, EndLock DEF AcquireLock
  <2> QED
    BY <2>1, <2>2
<1>4. ASSUME NEW g \in Gateways, Fail(g) PROVE LockInv'
  BY <1>4, Harmless DEF Fail
<1>5. ASSUME NEW g \in Gateways, Serve(g) PROVE LockInv'
  <2>1. lock = g
    BY <1>5 DEF Serve, LockInv, HolderHasLock
  <2> QED
    BY <1>5, <2>1 DEF Serve, LockInv, HolderHasLock, PidNamesServer
<1>6. ASSUME NEW g \in Gateways, BeginShutdown(g) PROVE LockInv'
  BY <1>6, Harmless DEF BeginShutdown
<1>7. ASSUME NEW g \in Gateways, RemovePID(g) PROVE LockInv'
  <2>1. lock = g
    BY <1>7 DEF RemovePID, LockInv, HolderHasLock
  <2>2. \A h \in Gateways : pc'[h] # "serving"
    BY <1>7, <2>1 DEF RemovePID, LockInv, HolderHasLock
  <2> QED
    BY <1>7, <2>2 DEF RemovePID, LockInv, HolderHasLock, PidNamesServer
<1>8. ASSUME NEW g \in Gateways, ReleaseLock(g) PROVE LockInv'
  BY <1>8, EndLock DEF ReleaseLock
<1>9. ASSUME NEW g \in Gateways, Save(g) PROVE LockInv'
  BY <1>9, Harmless DEF Save
<1>10. ASSUME NEW g \in Gateways, NEW want \in BOOLEAN, HandleAutostart(g, want) PROVE LockInv'
  BY <1>10, Harmless DEF HandleAutostart
<1>11. ASSUME NEW c \in Commands, NEW kind \in {"stop", "status", "autostart"},
              BeginCommand(c, kind)
       PROVE  LockInv'
  BY <1>11, Harmless DEF BeginCommand
<1>12. ASSUME NEW c \in Commands, Stop(c) PROVE LockInv'
  BY <1>12, Harmless DEF Stop
<1>13. ASSUME NEW c \in Commands, CallStatus(c) PROVE LockInv'
  BY <1>13, Harmless DEF CallStatus
<1>14. ASSUME NEW c \in Commands, ProbeLock(c) PROVE LockInv'
  <2>1. CASE lock = Nobody
    BY <1>14, <2>1 DEF ProbeLock, LockInv, HolderHasLock, PidNamesServer
  <2>2. CASE lock # Nobody
    BY <1>14, <2>2, Harmless DEF ProbeLock
  <2> QED
    BY <2>1, <2>2
<1>15. ASSUME NEW c \in Commands, EndProbe(c) PROVE LockInv'
  <2>1. lock = c
    BY <1>15 DEF EndProbe, LockInv, HolderHasLock
  <2> QED
    BY <1>15, <2>1 DEF EndProbe, LockInv, HolderHasLock, PidNamesServer
<1>16. ASSUME NEW c \in Commands, CallHealthz(c) PROVE LockInv'
  BY <1>16, Harmless DEF CallHealthz
<1>17. ASSUME NEW c \in Commands, SetAutostart(c) PROVE LockInv'
  BY <1>17, Harmless DEF SetAutostart
<1>18. ASSUME NEW c \in Commands, LoadConfig(c) PROVE LockInv'
  BY <1>18, Harmless DEF LoadConfig, Load
<1>19. ASSUME NEW c \in Commands, NEW want \in BOOLEAN, ApplyLocally(c, want) PROVE LockInv'
  BY <1>19, Harmless DEF ApplyLocally
<1>20. ASSUME NEW p \in Processes, Die(p) PROVE LockInv'
  BY <1>20, EndLock DEF Die
<1>21. ASSUME UNCHANGED vars PROVE LockInv'
  BY <1>21, Harmless DEF vars
<1> QED
  BY <1>1, <1>2, <1>3, <1>4, <1>5, <1>6, <1>7, <1>8, <1>9, <1>10, <1>11, <1>12, <1>13,
     <1>14, <1>15, <1>16, <1>17, <1>18, <1>19, <1>20, <1>21, ApplyLock
     DEF Next, ServeNext, CommandNext

\* However gateways and commands start, fail and die beside each other, a gateway that
\* serves holds gateway.lock and gateway.pid.json leads to it.
THEOREM PidFileNamesServer == Spec => []PidNamesServer
<1>1. LockInv => PidNamesServer
  BY DEF LockInv
<1> QED
  BY <1>1, InitType, StepType, PlacesTyped, InitLock, StepLock, PTL DEF Spec
(***************************************************************************)
(* The login registration and the flag in config.yaml.                     *)
(***************************************************************************)

\* A transaction lives in a gateway that answers, or in a command that applies.
InTransaction ==
  \A p \in Processes : tx[p].step # "none" =>
    \/ p \in Gateways /\ pc[p] \in Answering
    \/ p \in Commands /\ pc[p] = "apply"

\* Who got that far has seen config.yaml, and nobody removes it.
ConfigIsThere ==
  \A p \in Processes : pc[p] \in Answering \cup {"loaded", "locked", "apply"} => config # Missing

\* A transaction nobody interferes with: the flag is what it was when it began, what it
\* saw of the registration is what was there or a failure to see it, it goes where it
\* wants or back to what it saw, and once it verifies it has what it wants.
Course(p) ==
  /\ config = tx[p].began.flag
  /\ tx[p].step = "status" => Status = tx[p].began.is
  /\ tx[p].step # "status" => tx[p].before \in {tx[p].began.is, "bad"}
  /\ tx[p].step \in {"enable", "disable"} =>
       tx[p].step = FirstOf(IF tx[p].rollback THEN tx[p].before = "good" ELSE tx[p].want)
  /\ tx[p].step \in {"verify", "config"} => Status = Goal(tx[p].want)
  /\ tx[p].step \in {"status", "verify", "config"} => ~tx[p].rollback

OnCourse ==
  \A p \in Processes \ disturbed : tx[p].step \notin {"none", "over"} => Course(p)

CourseInv == InTransaction /\ ConfigIsThere /\ OnCourse

LEMMA InitCourse == Init => CourseInv
<1> SUFFICES ASSUME Init PROVE CourseInv
  OBVIOUS
<1>1. \A p \in Processes : tx[p].step = "none" /\ pc[p] = "off"
  BY DEF Init, NoTx
<1> QED
  BY <1>1 DEF CourseInv, InTransaction, ConfigIsThere, OnCourse, Answering

\* The transactions of everybody else stay as they are, and what they work on does
\* too, or the step is noted as a disturbance.
LEMMA OthersStayOnCourse ==
  ASSUME OnCourse, NEW p \in Processes,
         \A q \in Processes \ {p} : tx'[q] = tx[q],
         disturbed \ {p} \subseteq disturbed',
         UNCHANGED <<config, registration>> \/ Disturb(p),
         p \notin disturbed' /\ tx'[p].step \notin {"none", "over"} => Course(p)'
  PROVE  OnCourse'
<1>1. ASSUME NEW q \in Processes \ {p}, q \notin disturbed', tx[q].step \notin {"none", "over"}
      PROVE  Course(q)'
  <2>1. Course(q)
    BY <1>1 DEF OnCourse
  <2>2. UNCHANGED <<config, unit, enabled>> /\ tx'[q] = tx[q]
    BY <1>1 DEF Disturb, registration
  <2> QED
    BY <2>1, <2>2 DEF Course, Status
<1> QED
  BY <1>1 DEF OnCourse

\* A step of no transaction.
LEMMA OutsideCourse ==
  ASSUME OnCourse, UNCHANGED <<config, registration, tx, disturbed>>
  PROVE  OnCourse'
BY DEF OnCourse, Course, Status, registration

\* What a step of a transaction does to it.
LEMMA TxMoves ==
  ASSUME NEW p \in Processes, TxTyped
  PROVE  /\ \A step : Proceed(p, step) =>
              /\ tx' = [tx EXCEPT ![p] = tx'[p]]
              /\ tx'[p] = [tx[p] EXCEPT !.step = step]
         /\ \A answer : Answer(p, answer) =>
              /\ tx' = [tx EXCEPT ![p] = tx'[p]]
              /\ tx'[p] = [tx[p] EXCEPT !.step = "over", !.answer = answer]
         /\ FailStep(p) /\ ~tx[p].rollback =>
              /\ tx' = [tx EXCEPT ![p] = tx'[p]]
              /\ tx'[p] = [tx[p] EXCEPT !.step = FirstOf(tx[p].before = "good"), !.rollback = TRUE]
BY DEF TxTyped, Transactions, Proceed, Answer, FailStep

\* What autostart answers for p is so.
SoAnswered(p) ==
  tx'[p].answer # tx[p].answer /\ tx'[p].step = "over" =>
    /\ tx'[p].answer \in {"ok", "error", "partial"}
    /\ p \notin disturbed =>
         /\ tx'[p].answer = "ok" => Status' = Goal(tx[p].want) /\ config' = tx[p].want
         /\ tx'[p].answer = "error" => Status' = tx[p].began.is
         /\ tx'[p].answer \in {"error", "partial"} => config' = tx[p].began.flag

\* The first failure turns a transaction round, the second ends it.
LEMMA FailCourse ==
  ASSUME NEW p \in Processes, TxTyped, FailStep(p), UNCHANGED config,
         tx[p].step \in {"enable", "disable", "verify", "config"},
         p \notin disturbed => Course(p)
  PROVE  /\ \A q \in Processes \ {p} : tx'[q] = tx[q]
         /\ p \notin disturbed /\ tx'[p].step \notin {"none", "over"} => Course(p)'
         /\ SoAnswered(p)
<1>1. tx[p] \in Transactions
  BY DEF TxTyped
<1>2. CASE tx[p].rollback
  <2>1. Answer(p, "partial")
    BY <1>2 DEF FailStep
  <2>2. /\ tx' = [tx EXCEPT ![p] = tx'[p]]
        /\ tx'[p] = [tx[p] EXCEPT !.step = "over", !.answer = "partial"]
    BY <2>1, TxMoves
  <2>3. tx'[p].step = "over" /\ tx'[p].answer = "partial"
    BY <1>1, <2>2 DEF Transactions
  <2>4. SoAnswered(p)
    BY <2>3 DEF SoAnswered, Course
  <2> QED
    BY <2>2, <2>3, <2>4 DEF TxTyped
<1>3. CASE ~tx[p].rollback
  <2>1. /\ tx' = [tx EXCEPT ![p] = tx'[p]]
        /\ tx'[p] = [tx[p] EXCEPT !.step = FirstOf(tx[p].before = "good"), !.rollback = TRUE]
    BY <1>3, TxMoves
  <2>2. /\ tx'[p].step = FirstOf(tx[p].before = "good")
        /\ tx'[p].rollback = TRUE
        /\ tx'[p].before = tx[p].before /\ tx'[p].began = tx[p].began
    BY <1>1, <2>1 DEF Transactions
  <2>3. tx'[p].step \in {"enable", "disable"}
    BY <2>2 DEF FirstOf
  <2>4. p \notin disturbed => Course(p)'
    BY <2>2, <2>3 DEF Course
  <2> QED
    BY <2>1, <2>3, <2>4 DEF SoAnswered, TxTyped
<1> QED
  BY <1>2, <1>3

\* A call of the registrar that succeeds: the registration is what was wanted, or what
\* was seen before, and that was there.
LEMMA FinishCourse ==
  ASSUME NEW p \in Processes, TxTyped, FinishStep(p), UNCHANGED config,
         tx[p].step \in {"enable", "disable"},
         Status' = Goal(tx[p].step = "enable"),
         p \notin disturbed => Course(p)
  PROVE  /\ \A q \in Processes \ {p} : tx'[q] = tx[q]
         /\ p \notin disturbed /\ tx'[p].step \notin {"none", "over"} => Course(p)'
         /\ SoAnswered(p)
<1>1. tx[p] \in Transactions
  BY DEF TxTyped
<1>2. CASE tx[p].rollback
  <2>1. PICK answer \in {"partial", "error"} :
          Answer(p, answer) /\ (answer = "error" => tx[p].before # "bad")
    BY <1>2 DEF FinishStep
  <2>2. /\ tx' = [tx EXCEPT ![p] = tx'[p]]
        /\ tx'[p] = [tx[p] EXCEPT !.step = "over", !.answer = answer]
    BY <2>1, TxMoves
  <2>3. tx'[p].step = "over" /\ tx'[p].answer = answer
    BY <1>1, <2>2 DEF Transactions
  <2>4. ASSUME p \notin disturbed, answer = "error"
        PROVE  Status' = tx[p].began.is
    <3>1. tx[p].before = tx[p].began.is /\ tx[p].step = FirstOf(tx[p].before = "good")
      BY <1>2, <2>1, <2>4 DEF Course
    <3>2. tx[p].before \in {"good", "absent"}
      BY <1>1, <2>1, <2>4 DEF Transactions, Seeable
    <3> QED
      BY <3>1, <3>2 DEF FirstOf, Goal
  <2>5. SoAnswered(p)
    BY <2>3, <2>4 DEF SoAnswered, Course
  <2> QED
    BY <2>2, <2>3, <2>5 DEF TxTyped
<1>3. CASE ~tx[p].rollback
  <2>1. Proceed(p, "verify")
    BY <1>3 DEF FinishStep
  <2>2. tx' = [tx EXCEPT ![p] = tx'[p]] /\ tx'[p] = [tx[p] EXCEPT !.step = "verify"]
    BY <2>1, TxMoves
  <2>3. /\ tx'[p].step = "verify" /\ tx'[p].want = tx[p].want
        /\ tx'[p].rollback = tx[p].rollback
        /\ tx'[p].before = tx[p].before /\ tx'[p].began = tx[p].began
    BY <1>1, <2>2 DEF Transactions
  <2>4. ASSUME p \notin disturbed PROVE Course(p)'
    <3>1. tx[p].step = FirstOf(tx[p].want)
      BY <1>3, <2>4 DEF Course
    <3>2. Status' = Goal(tx[p].want)
      BY <1>1, <3>1 DEF FirstOf, Goal, Transactions
    <3> QED
      BY <1>3, <2>3, <2>4, <3>2 DEF Course
  <2> QED
    BY <2>2, <2>3, <2>4 DEF SoAnswered, TxTyped
<1> QED
  BY <1>2, <1>3

LEMMA NobodyElse ==
  ASSUME NEW p \in Processes, \A q \in Processes \ {p} : tx'[q] = tx[q], SoAnswered(p)
  PROVE  AnswerIsSo
<1>1. ASSUME NEW q \in Processes, tx'[q].answer # tx[q].answer, tx'[q].step = "over",
             q \notin disturbed
      PROVE  CASE tx'[q].answer = "ok" -> Status' = Goal(tx[q].want) /\ config' = tx[q].want
               [] tx'[q].answer = "error" ->
                    Status' = tx[q].began.is /\ config' = tx[q].began.flag
               [] tx'[q].answer = "partial" -> config' = tx[q].began.flag
  <2>1. q = p
    BY <1>1
  <2>2. CASE tx'[q].answer = "ok"
    BY <1>1, <2>1, <2>2 DEF SoAnswered
  <2>3. CASE tx'[q].answer = "error"
    BY <1>1, <2>1, <2>3 DEF SoAnswered
  <2>4. CASE tx'[q].answer = "partial"
    BY <1>1, <2>1, <2>4 DEF SoAnswered
  <2> QED
    BY <1>1, <2>1, <2>2, <2>3, <2>4 DEF SoAnswered
<1> QED
  BY <1>1 DEF AnswerIsSo

\* Where the registration stands after a call of the registrar.
LEMMA Registered ==
  /\ unit' = "ours" /\ enabled' = TRUE => Status' = "good"
  /\ unit' = "none" => Status' = "absent"
BY DEF Status

\* The autostart transaction.
LEMMA ApplyCourse ==
  ASSUME NEW p \in Processes, TxTyped, InTransaction, OnCourse, ApplyNext(p)
  PROVE  OnCourse' /\ AnswerIsSo
<1> DEFINE Outcome ==
      /\ \A q \in Processes \ {p} : tx'[q] = tx[q]
      /\ p \notin disturbed /\ tx'[p].step \notin {"none", "over"} => Course(p)'
      /\ SoAnswered(p)
<1>1. tx[p] \in Transactions
  BY DEF TxTyped
<1>2. ASSUME Outcome, disturbed \ {p} \subseteq disturbed', p \in disturbed => p \in disturbed',
             UNCHANGED <<config, registration>> \/ Disturb(p)
      PROVE  OnCourse' /\ AnswerIsSo
  BY <1>2, OthersStayOnCourse, NobodyElse
<1>3. CASE ReadStatus(p)
  <2>1. tx[p].step = "status" /\ UNCHANGED <<config, registration, disturbed>>
    BY <1>3 DEF ReadStatus, At, txOnly
  <2>2. Status' = Status
    BY <2>1 DEF Status, registration
  <2>3. p \notin disturbed => Course(p)
    BY <2>1 DEF OnCourse
  <2>4. CASE Answer(p, "error")
    <3>1. /\ tx' = [tx EXCEPT ![p] = tx'[p]]
          /\ tx'[p] = [tx[p] EXCEPT !.step = "over", !.answer = "error"]
      BY <2>4, TxMoves
    <3>2. tx'[p].step = "over" /\ tx'[p].answer = "error"
      BY <1>1, <3>1 DEF Transactions
    <3>3. SoAnswered(p)
      BY <2>1, <2>2, <2>3, <3>2 DEF SoAnswered, Course
    <3>4. \A q \in Processes \ {p} : tx'[q] = tx[q]
      BY <3>1 DEF TxTyped
    <3> QED
      BY <1>2, <2>1, <3>2, <3>3, <3>4
  <2>5. ASSUME NEW seen \in Seeable, SeeStatus(seen),
               tx' = [tx EXCEPT ![p].before = seen,
                                ![p].step = IF seen = Goal(tx[p].want)
                                              THEN "verify" ELSE FirstOf(tx[p].want)]
        PROVE  OnCourse' /\ AnswerIsSo
    <3>1. PICK step \in TxSteps :
            step = IF seen = Goal(tx[p].want) THEN "verify" ELSE FirstOf(tx[p].want)
      BY DEF FirstOf, TxSteps
    <3>2. tx' = [tx EXCEPT ![p].before = seen, ![p].step = step]
      BY <2>5, <3>1
    <3>3. tx' = [tx EXCEPT ![p] = [tx[p] EXCEPT !.before = seen, !.step = step]]
      BY <1>1, <3>2 DEF TxTyped, Transactions
    <3>4. /\ tx'[p].before = seen /\ tx'[p].step = step
          /\ tx'[p].want = tx[p].want /\ tx'[p].began = tx[p].began
          /\ tx'[p].rollback = tx[p].rollback /\ tx'[p].answer = tx[p].answer
      BY <1>1, <3>3 DEF TxTyped, Transactions
    <3>5. seen \in {Status, "bad"}
      BY <2>5 DEF SeeStatus, Seen
    <3>6. step \in {"verify", "enable", "disable"} /\ (step # "verify" => step = FirstOf(tx[p].want))
      BY <3>1 DEF FirstOf
    <3>7. step = "verify" => Status = Goal(tx[p].want)
      BY <3>1, <3>5 DEF FirstOf, Goal
    <3>8. p \notin disturbed => Course(p)'
      BY <2>1, <2>2, <2>3, <3>4, <3>5, <3>6, <3>7 DEF Course
    <3>9. (\A q \in Processes \ {p} : tx'[q] = tx[q]) /\ SoAnswered(p)
      BY <3>3, <3>4 DEF TxTyped, SoAnswered
    <3> QED
      BY <1>2, <2>1, <3>8, <3>9
  <2> QED
    BY <1>3, <2>4, <2>5 DEF ReadStatus
<1>4. CASE Enable(p) \/ Disable(p)
  <2>1. tx[p].step \in {"enable", "disable"} /\ UNCHANGED config /\ Disturb(p)
    BY <1>4 DEF Enable, Disable, At, txOnly
  <2>2. p \notin disturbed => Course(p)
    BY <2>1 DEF OnCourse
  <2>3. CASE FailStep(p)
    <3>1. Outcome
      BY <2>1, <2>2, <2>3, FailCourse
    <3> QED
      BY <1>2, <2>1, <3>1 DEF Disturb
  <2>4. CASE FinishStep(p) /\ Status' = Goal(tx[p].step = "enable")
    <3>1. Outcome
      BY <2>1, <2>2, <2>4, FinishCourse
    <3> QED
      BY <1>2, <2>1, <3>1 DEF Disturb
  <2>5. CASE Enable(p)
    BY <2>3, <2>4, <2>5, Registered DEF Enable, At, Goal
  <2>6. CASE Disable(p)
    BY <2>3, <2>4, <2>6, Registered DEF Disable, At, Goal
  <2> QED
    BY <1>4, <2>5, <2>6
<1>5. CASE Verify(p)
  <2>1. tx[p].step = "verify" /\ UNCHANGED <<config, registration, disturbed>>
    BY <1>5 DEF Verify, At, txOnly
  <2>2. p \notin disturbed => Course(p)
    BY <2>1 DEF OnCourse
  <2>3. Status' = Status
    BY <2>1 DEF Status, registration
  <2>4. CASE FailStep(p)
    <3>1. Outcome
      BY <2>1, <2>2, <2>4, FailCourse
    <3> QED
      BY <1>2, <2>1, <3>1
  <2>5. CASE Proceed(p, "config")
    <3>1. tx' = [tx EXCEPT ![p] = tx'[p]] /\ tx'[p] = [tx[p] EXCEPT !.step = "config"]
      BY <2>5, TxMoves
    <3>2. /\ tx'[p].step = "config" /\ tx'[p].answer = tx[p].answer
          /\ tx'[p].want = tx[p].want /\ tx'[p].rollback = tx[p].rollback
          /\ tx'[p].before = tx[p].before /\ tx'[p].began = tx[p].began
      BY <1>1, <3>1 DEF Transactions
    <3>3. p \notin disturbed => Course(p)'
      BY <2>1, <2>2, <2>3, <3>2 DEF Course
    <3>4. (\A q \in Processes \ {p} : tx'[q] = tx[q]) /\ SoAnswered(p)
      BY <3>1, <3>2 DEF TxTyped, SoAnswered
    <3> QED
      BY <1>2, <2>1, <3>3, <3>4
  <2> QED
    BY <1>5, <2>4, <2>5 DEF Verify
<1>6. CASE WriteConfig(p)
  <2>1. tx[p].step = "config" /\ UNCHANGED registration
    BY <1>6 DEF WriteConfig, At
  <2>2. p \notin disturbed => Course(p)
    BY <2>1 DEF OnCourse
  <2>3. CASE FailStep(p) /\ UNCHANGED <<config, disturbed>>
    <3>1. Outcome
      BY <2>1, <2>2, <2>3, FailCourse
    <3> QED
      BY <1>2, <2>1, <2>3, <3>1
  <2>4. CASE Write(p, tx[p].want) /\ Answer(p, "ok")
    <3>1. /\ tx' = [tx EXCEPT ![p] = tx'[p]]
          /\ tx'[p] = [tx[p] EXCEPT !.step = "over", !.answer = "ok"]
      BY <2>4, TxMoves
    <3>2. tx'[p].step = "over" /\ tx'[p].answer = "ok"
      BY <1>1, <3>1 DEF Transactions
    <3>3. config' = tx[p].want /\ Disturb(p)
      BY <2>4 DEF Write
    <3>4. Status' = Status
      BY <2>1 DEF Status, registration
    <3>5. SoAnswered(p)
      BY <2>1, <2>2, <3>2, <3>3, <3>4 DEF SoAnswered, Course
    <3>6. \A q \in Processes \ {p} : tx'[q] = tx[q]
      BY <3>1 DEF TxTyped
    <3> QED
      BY <1>2, <3>2, <3>3, <3>5, <3>6 DEF Disturb
  <2> QED
    BY <1>6, <2>3, <2>4 DEF WriteConfig
<1>7. CASE EndApply(p)
  <2>1. /\ tx' = [tx EXCEPT ![p] = NoTx]
        /\ disturbed' = disturbed \ {p}
        /\ UNCHANGED <<config, registration>>
    BY <1>7 DEF EndApply
  <2>2. (\A q \in Processes \ {p} : tx'[q] = tx[q]) /\ tx'[p].step = "none"
    BY <2>1 DEF TxTyped, NoTx
  <2>3. OnCourse'
    BY <2>1, <2>2, OthersStayOnCourse
  <2>4. SoAnswered(p)
    BY <2>2 DEF SoAnswered
  <2> QED
    BY <2>2, <2>3, <2>4, NobodyElse
<1> QED
  BY <1>3, <1>4, <1>5, <1>6, <1>7 DEF ApplyNext

\* A transaction begins: what it finds is what it notes.
LEMMA BeginCourse ==
  ASSUME NEW p \in Processes, NEW want \in BOOLEAN, TypeInv, OnCourse, config # Missing,
         BeginApply(p, want), UNCHANGED <<config, registration, disturbed>>
  PROVE  OnCourse' /\ AnswerIsSo
<1>1. PICK is \in Seeable, flag \in BOOLEAN :
        /\ is = Status /\ flag = (config = TRUE)
        /\ tx' = [tx EXCEPT ![p] = [NoTx EXCEPT !.step = "status", !.want = want,
                                                !.began = [is |-> is, flag |-> flag]]]
  BY StatusIsSeeable DEF BeginApply
<1>2. config = flag
  BY <1>1 DEF TypeInv, OthersTyped
<1>3. /\ tx'[p].step = "status" /\ tx'[p].rollback = FALSE
      /\ tx'[p].began.is = is /\ tx'[p].began.flag = flag
      /\ \A q \in Processes \ {p} : tx'[q] = tx[q]
  BY <1>1 DEF TypeInv, TxTyped, NoTx
<1>4. Status' = Status
  BY DEF Status, registration
<1>5. Course(p)'
  BY <1>1, <1>2, <1>3, <1>4 DEF Course
<1>6. SoAnswered(p)
  BY <1>3 DEF SoAnswered
<1> QED
  BY <1>3, <1>5, <1>6, OthersStayOnCourse, NobodyElse

\* A process ends, and its transaction with it.
LEMMA EndCourse ==
  ASSUME NEW p \in Processes, TypeInv, CourseInv, End(p)
  PROVE  CourseInv' /\ AnswerIsSo
<1> USE DEF TypeInv, OthersTyped, CourseInv
<1>1. /\ \A q \in Processes \ {p} : tx'[q] = tx[q] /\ pc'[q] = pc[q]
      /\ tx'[p].step = "none" /\ pc'[p] = "off"
      /\ disturbed' = disturbed \ {p} /\ UNCHANGED <<config, registration>>
  BY DEF End, GoTo, TxTyped, NoTx
<1>2. InTransaction' /\ ConfigIsThere'
  BY <1>1 DEF InTransaction, ConfigIsThere, Answering
<1>3. OnCourse'
  BY <1>1, OthersStayOnCourse
<1>4. AnswerIsSo
  BY <1>1, NobodyElse DEF SoAnswered
<1> QED
  BY <1>2, <1>3, <1>4

\* A process goes on outside the transactions.
LEMMA OutsideInv ==
  ASSUME NEW p \in Processes, TypeInv, CourseInv,
         UNCHANGED <<config, registration, tx, disturbed>>,
         \A q \in Processes \ {p} : pc'[q] = pc[q],
         tx[p].step # "none" /\ p \in Gateways => pc'[p] \in Answering,
         tx[p].step # "none" /\ p \in Commands => pc'[p] = "apply",
         pc'[p] \in Answering \cup {"loaded", "locked", "apply"} => config # Missing
  PROVE  CourseInv' /\ AnswerIsSo
<1>1. InTransaction' /\ ConfigIsThere'
  BY DEF CourseInv, InTransaction, ConfigIsThere
<1>2. OnCourse'
  BY OutsideCourse DEF CourseInv
<1>3. AnswerIsSo
  BY NobodyElse DEF SoAnswered
<1> QED
  BY <1>1, <1>2, <1>3 DEF CourseInv

\* A process that is in no transaction writes config.yaml.
LEMMA WriteCourse ==
  ASSUME NEW p \in Processes, NEW flag \in BOOLEAN, TypeInv, CourseInv,
         tx[p].step = "none", Write(p, flag), UNCHANGED <<registration, tx>>,
         \A q \in Processes \ {p} : pc'[q] = pc[q]
  PROVE  CourseInv' /\ AnswerIsSo
<1>1. config' # Missing
  BY MissingAssumption DEF Write
<1>2. InTransaction' /\ ConfigIsThere'
  BY <1>1 DEF CourseInv, InTransaction, ConfigIsThere
<1>3. Disturb(p) /\ disturbed \subseteq disturbed'
  BY DEF Write, Disturb
<1>4. OnCourse'
  BY <1>3, OthersStayOnCourse DEF CourseInv
<1>5. AnswerIsSo
  BY NobodyElse DEF SoAnswered
<1> QED
  BY <1>2, <1>4, <1>5 DEF CourseInv

LEMMA ApplyInv ==
  ASSUME NEW p \in Processes, TypeInv, CourseInv, ApplyNext(p)
  PROVE  CourseInv' /\ AnswerIsSo
<1> USE DEF TypeInv, OthersTyped, CourseInv
<1>1. OnCourse' /\ AnswerIsSo
  BY ApplyCourse
<1>2. InTransaction' /\ ConfigIsThere'
  <2>1. CASE EndApply(p)
    <3>1. /\ \A q \in Processes \ {p} : tx'[q] = tx[q] /\ pc'[q] = pc[q]
          /\ tx'[p].step = "none" /\ config' = config
          /\ p \in Commands => pc'[p] = "off"
          /\ p \in Gateways => pc'[p] = pc[p]
      BY <2>1 DEF EndApply, CommandEnds, GoTo, TxTyped, NoTx
    <3> QED
      BY <3>1 DEF InTransaction, ConfigIsThere, Answering
  <2>2. CASE ~EndApply(p)
    <3>1. pc' = pc /\ tx[p].step # "none"
      BY <2>2 DEF ApplyNext, ReadStatus, Enable, Disable, Verify, WriteConfig, At, txOnly, processState
    <3>2. \A q \in Processes \ {p} : tx'[q] = tx[q]
      BY <2>2 DEF TxTyped, ApplyNext, ReadStatus, Enable, Disable, Verify, WriteConfig, FinishStep,
                  FailStep, Proceed, Answer
    <3>3. config' = config \/ config' \in BOOLEAN
      <4>1. tx[p].want \in BOOLEAN
        BY DEF TxTyped, Transactions
      <4> QED
        BY <2>2, <4>1 DEF ApplyNext, ReadStatus, Enable, Disable, Verify, WriteConfig, Write, txOnly
    <3> QED
      BY <3>1, <3>2, <3>3, MissingAssumption DEF InTransaction, ConfigIsThere
  <2> QED
    BY <2>1, <2>2
<1> QED
  BY <1>1, <1>2

LEMMA StepCourse ==
  TypeInv /\ CourseInv /\ [Next]_vars => CourseInv' /\ [AnswerIsSo]_vars
<1> SUFFICES ASSUME TypeInv, CourseInv, [Next]_vars PROVE CourseInv' /\ (AnswerIsSo \/ UNCHANGED vars)
  OBVIOUS
<1> USE DEF TypeInv, OthersTyped, GoTo, Load, CommandEnds, processState, bounds
<1>0. /\ \A g \in Gateways : tx[g].step # "none" => pc[g] \in Answering
      /\ \A c \in Commands : tx[c].step # "none" => pc[c] = "apply"
      /\ \A p \in Processes :
           pc[p] \in Answering \cup {"loaded", "locked", "apply"} => config # Missing
  BY DEF CourseInv, InTransaction, ConfigIsThere
<1>1. ASSUME NEW g \in Gateways, NEW p \in Ports, BeginServe(g, p)
      PROVE  CourseInv' /\ AnswerIsSo
  BY <1>0, <1>1, OutsideInv DEF BeginServe, Answering
<1>2. ASSUME NEW p \in Processes, CreateConfig(p) PROVE CourseInv' /\ AnswerIsSo
  BY <1>0, <1>2, WriteCourse DEF CreateConfig, Answering
<1>3. ASSUME NEW g \in Gateways, AcquireLock(g) PROVE CourseInv' /\ AnswerIsSo
  BY <1>0, <1>3, EndCourse, OutsideInv DEF AcquireLock, Answering
<1>4. ASSUME NEW g \in Gateways, Fail(g) \/ Serve(g) \/ BeginShutdown(g) \/ RemovePID(g)
      PROVE  CourseInv' /\ AnswerIsSo
  BY <1>0, <1>4, OutsideInv DEF Fail, Serve, BeginShutdown, RemovePID, Answering
<1>5. ASSUME NEW g \in Gateways, ReleaseLock(g) PROVE CourseInv' /\ AnswerIsSo
  BY <1>5, EndCourse DEF ReleaseLock
<1>6. ASSUME NEW g \in Gateways, Save(g) PROVE CourseInv' /\ AnswerIsSo
  BY <1>6, WriteCourse DEF Save
<1>7. ASSUME NEW g \in Gateways, NEW want \in BOOLEAN, HandleAutostart(g, want)
      PROVE  CourseInv' /\ AnswerIsSo
  <2>1. OnCourse' /\ AnswerIsSo
    BY <1>0, <1>7, BeginCourse DEF HandleAutostart, CourseInv
  <2>2. InTransaction' /\ ConfigIsThere'
    BY <1>0, <1>7 DEF HandleAutostart, BeginApply, InTransaction, ConfigIsThere, TxTyped
  <2> QED
    BY <2>1, <2>2 DEF CourseInv
<1>8. ASSUME NEW c \in Commands, NEW kind \in {"stop", "status", "autostart"},
             BeginCommand(c, kind)
      PROVE  CourseInv' /\ AnswerIsSo
  BY <1>0, <1>8, OutsideInv DEF BeginCommand, Answering
<1>9. ASSUME NEW c \in Commands, Stop(c) \/ CallStatus(c) \/ CallHealthz(c)
      PROVE  CourseInv' /\ AnswerIsSo
  BY <1>0, <1>9, OutsideInv DEF Stop, CallStatus, CallHealthz, Answering
<1>10. ASSUME NEW c \in Commands, ProbeLock(c) \/ EndProbe(c)
       PROVE  CourseInv' /\ AnswerIsSo
  BY <1>0, <1>10, OutsideInv DEF ProbeLock, EndProbe, Answering
<1>11. ASSUME NEW c \in Commands, SetAutostart(c) PROVE CourseInv' /\ AnswerIsSo
  <2>1. /\ pc' = [pc EXCEPT ![c] = "off"] /\ tx[c].step = "none"
        /\ UNCHANGED <<config, registration, disturbed>>
    BY <1>0, <1>11 DEF SetAutostart
  <2>2. CASE UNCHANGED tx
    BY <2>1, <2>2, OutsideInv DEF Answering
  <2>3. ASSUME NEW g \in Gateways, NEW want \in BOOLEAN, Reached(c, g), BeginApply(g, want)
        PROVE  CourseInv' /\ AnswerIsSo
    <3>1. pc[g] = "serving"
      BY <2>3 DEF Reached
    <3>2. OnCourse' /\ AnswerIsSo
      BY <1>0, <2>1, <2>3, <3>1, BeginCourse DEF CourseInv, Answering
    <3>3. \A q \in Processes \ {g} : tx'[q] = tx[q]
      BY <2>3 DEF BeginApply, TxTyped
    <3>4. InTransaction' /\ ConfigIsThere'
      BY <1>0, <2>1, <3>1, <3>3 DEF InTransaction, ConfigIsThere, Answering
    <3> QED
      BY <3>2, <3>4 DEF CourseInv
  <2> QED
    BY <1>11, <2>2, <2>3 DEF SetAutostart
<1>12. ASSUME NEW c \in Commands, LoadConfig(c) PROVE CourseInv' /\ AnswerIsSo
  BY <1>0, <1>12, OutsideInv DEF LoadConfig, Answering
<1>13. ASSUME NEW c \in Commands, NEW want \in BOOLEAN, ApplyLocally(c, want)
       PROVE  CourseInv' /\ AnswerIsSo
  <2>1. OnCourse' /\ AnswerIsSo
    BY <1>0, <1>13, BeginCourse DEF ApplyLocally, CourseInv
  <2>2. InTransaction' /\ ConfigIsThere'
    BY <1>0, <1>13 DEF ApplyLocally, BeginApply, InTransaction, ConfigIsThere, TxTyped
  <2> QED
    BY <2>1, <2>2 DEF CourseInv
<1>14. ASSUME NEW p \in Processes, Die(p) PROVE CourseInv' /\ AnswerIsSo
  BY <1>14, EndCourse DEF Die
<1>15. ASSUME UNCHANGED vars PROVE CourseInv'
  BY <1>15, OutsideCourse DEF vars, CourseInv, InTransaction, ConfigIsThere
<1> QED
  BY <1>1, <1>2, <1>3, <1>4, <1>5, <1>6, <1>7, <1>8, <1>9, <1>10, <1>11, <1>12, <1>13,
     <1>14, <1>15, ApplyInv
     DEF Next, ServeNext, CommandNext

\* What autostart on or off answers is so, a success, an error and a partial failure
\* alike, for any number of processes that come and go meanwhile.
THEOREM AutostartAgrees == Spec => RegistrationAgrees
BY InitType, StepType, InitCourse, StepCourse, PTL DEF Spec, RegistrationAgrees
=============================================================================

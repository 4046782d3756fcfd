----------------------------- MODULE Lifecycle -----------------------------
(***************************************************************************)
(* The processes that share one data directory (internal/app,              *)
(* internal/process, internal/autostart, server/autostart.go): gateways    *)
(* that start, serve and stop, and the commands stop, status and autostart *)
(* beside them.  They share the lock, the pid file, config.yaml and the    *)
(* login registration, here the systemd unit of Linux.                     *)
(*                                                                         *)
(* Of config.yaml only autostart.enabled is kept: every write stores the   *)
(* whole configuration the writer has in memory, this flag included.       *)
(***************************************************************************)
EXTENDS Naturals, FiniteSets

CONSTANTS
  Gateways,       \* processes that run serve
  Commands,       \* processes that run a command
  Ports,
  ConfiguredPort, \* listen.port of config.yaml
  LeftBehind,     \* configuration and unit that earlier runs may have left
  MaxStarts,      \* bound on starts of a gateway
  MaxCommands,    \* bound on commands run
  MaxChanges,     \* bound on changes that the management API serves
  MaxFaults,      \* bound on kills and on system calls that fail by themselves
  Nobody, Missing, NoPort

ASSUME ProcessesAssumption == Gateways \cap Commands = {} /\ Nobody \notin Gateways \cup Commands
ASSUME PortsAssumption == ConfiguredPort \in Ports /\ NoPort \notin Ports
ASSUME BoundsAssumption == {MaxStarts, MaxCommands, MaxChanges, MaxFaults} \subseteq Nat
ASSUME MissingAssumption == Missing \notin BOOLEAN \cup [owner : Gateways, port : Ports]

Units == {"none", "ours", "other"}

ASSUME LeftBehindAssumption ==
  LeftBehind \subseteq [config : BOOLEAN \cup {Missing}, unit : Units, enabled : BOOLEAN]

Processes == Gateways \cup Commands

VARIABLES
  config,    \* autostart.enabled of config.yaml, or Missing
  lock,      \* who holds gateway.lock
  pidFile,   \* gateway.pid.json, or Missing
  unit,      \* ai-gateway.service: "none", "ours", or one for an "other" program
  enabled,   \* systemd has the unit enabled
  pc,        \* where each process is
  memory,    \* autostart.enabled as each process has it loaded
  port,      \* the port a gateway is to listen on, or a command calls
  asked,     \* gateways a stop command was promised the end of
  tx,        \* the autostart transaction of each process
  disturbed, \* processes whose transaction another one interfered with
  starts, commands, changes, faults

registration == <<unit, enabled>>
bounds == <<starts, commands, changes>>
processState == <<pc, port, asked>>
vars == <<config, lock, pidFile, registration, processState, memory, tx, disturbed,
          bounds, faults>>

GatewaySteps == {"off", "creating", "loaded", "locked", "serving", "leaving", "unlocking"}
CommandSteps == {"off", "stop", "status", "probe", "probing", "autostart", "set",
                 "load", "creating", "apply"}
TxSteps == {"none", "status", "enable", "disable", "verify", "config", "over"}

NoTx == [step |-> "none", want |-> FALSE, before |-> "absent", rollback |-> FALSE,
         answer |-> "none", began |-> [is |-> "absent", flag |-> FALSE]]

Seeable == {"absent", "bad", "good"}

Transactions ==
  [step : TxSteps, want : BOOLEAN, before : Seeable, rollback : BOOLEAN,
   answer : {"none", "ok", "error", "partial"}, began : [is : Seeable, flag : BOOLEAN]]

TypeOK ==
  /\ config \in BOOLEAN \cup {Missing}
  /\ lock \in Processes \cup {Nobody}
  /\ pidFile \in [owner : Gateways, port : Ports] \cup {Missing}
  /\ unit \in Units
  /\ enabled \in BOOLEAN
  /\ pc \in [Processes -> GatewaySteps \cup CommandSteps]
  /\ \A g \in Gateways : pc[g] \in GatewaySteps
  /\ \A c \in Commands : pc[c] \in CommandSteps
  /\ memory \in [Processes -> BOOLEAN]
  /\ port \in [Processes -> Ports \cup {NoPort}]
  /\ asked \subseteq Gateways
  /\ tx \in [Processes -> Transactions]
  /\ disturbed \subseteq Processes
  /\ starts \in 0..MaxStarts /\ commands \in 0..MaxCommands
  /\ changes \in 0..MaxChanges /\ faults \in 0..MaxFaults

Init ==
  /\ \E left \in LeftBehind :
       config = left.config /\ unit = left.unit /\ enabled = left.enabled
  /\ lock = Nobody
  /\ pidFile = Missing
  /\ pc = [p \in Processes |-> "off"]
  /\ memory = [p \in Processes |-> FALSE]
  /\ port = [p \in Processes |-> NoPort]
  /\ asked = {}
  /\ tx = [p \in Processes |-> NoTx]
  /\ disturbed = {}
  /\ starts = 0 /\ commands = 0 /\ changes = 0 /\ faults = 0

GoTo(p, step) == pc' = [pc EXCEPT ![p] = step]

Fault == faults < MaxFaults /\ faults' = faults + 1

\* History: who is in a transaction while p changes what transactions work on.
Disturb(p) ==
  disturbed' = disturbed \cup {q \in Processes \ {p} : tx[q].step \notin {"none", "over"}}

(***************************************************************************)
(* config.yaml.                                                            *)
(***************************************************************************)

\* Mutant: a missing file is not created.
LoadOnly(p, next) ==
  /\ GoTo(p, next)
  /\ memory' = [memory EXCEPT ![p] = config]
  /\ UNCHANGED <<config, disturbed>>

\* LoadOrCreate: a file that is missing is created later on.
Load(p, next) ==
  /\ IF config = Missing
       THEN GoTo(p, "creating") /\ UNCHANGED memory
       ELSE GoTo(p, next) /\ memory' = [memory EXCEPT ![p] = config]
  /\ UNCHANGED <<config, disturbed>>

Write(p, flag) ==
  /\ config' = flag
  /\ memory' = [memory EXCEPT ![p] = flag]
  /\ Disturb(p)

\* The file was missing when p looked; it may be there by now.
CreateConfig(p) ==
  /\ pc[p] = "creating"
  /\ Write(p, FALSE)
  /\ GoTo(p, IF p \in Gateways THEN "loaded" ELSE "apply")
  /\ UNCHANGED <<lock, pidFile, registration, port, asked, tx, bounds, faults>>

(***************************************************************************)
(* A gateway: load, lock, bind, announce, serve, and the way back.         *)
(***************************************************************************)

BeginServe(g, p) ==
  /\ pc[g] = "off" /\ starts < MaxStarts
  /\ starts' = starts + 1
  /\ port' = [port EXCEPT ![g] = p]
  /\ Load(g, "loaded")
  /\ UNCHANGED <<lock, pidFile, registration, asked, tx, commands, changes,
                 faults>>

\* What ends with the process: its locks, its listener, its transaction.
End(p) ==
  /\ GoTo(p, "off")
  /\ lock' = IF lock = p THEN Nobody ELSE lock
  /\ port' = [port EXCEPT ![p] = NoPort]
  /\ asked' = asked \ {p}
  /\ tx' = [tx EXCEPT ![p] = NoTx]
  /\ disturbed' = disturbed \ {p}
  /\ memory' = [memory EXCEPT ![p] = FALSE]
  /\ UNCHANGED <<config, pidFile, registration, bounds>>

\* Mutant: the pid file is cleaned up on every way out, a refused lock included.
AcquireLockAfterDefer(g) ==
  /\ pc[g] = "loaded"
  /\ lock' = IF lock = Nobody THEN g ELSE lock
  /\ GoTo(g, IF lock = Nobody THEN "locked" ELSE "leaving")
  /\ UNCHANGED <<config, pidFile, registration, port, asked, memory, tx, disturbed, bounds,
                 faults>>

\* gateway.lock is taken without waiting; who does not get it exits.
AcquireLock(g) ==
  /\ pc[g] = "loaded"
  /\ IF lock = Nobody
       THEN /\ lock' = g
            /\ GoTo(g, "locked")
            /\ UNCHANGED <<config, pidFile, registration, port, asked, memory, tx,
                           disturbed, bounds>>
       ELSE End(g)
  /\ UNCHANGED faults

\* A secret is missing, retention fails, the port is taken, the pid file cannot
\* be written, or the listener breaks.
Fail(g) ==
  /\ pc[g] \in {"locked", "serving"}
  /\ Fault
  /\ GoTo(g, "leaving")
  /\ UNCHANGED <<config, lock, pidFile, registration, port, asked, memory, tx,
                 disturbed, bounds>>

\* The port is bound before the file says so; no request is served before.
Serve(g) ==
  /\ pc[g] = "locked"
  /\ pidFile' = [owner |-> g, port |-> port[g]]
  /\ GoTo(g, "serving")
  /\ UNCHANGED <<config, lock, registration, port, asked, memory, tx, disturbed,
                 bounds, faults>>

\* Handlers that run do so until the process exits.
Answering == {"serving", "leaving", "unlocking"}

Change == changes < MaxChanges /\ changes' = changes + 1

\* Any other management write: it stores the configuration as it is in memory.
Save(g) ==
  /\ pc[g] \in Answering
  /\ tx[g].step = "none"
  /\ Change
  /\ Write(g, memory[g])
  /\ UNCHANGED <<lock, pidFile, registration, processState, tx, starts, commands, faults>>

\* A signal, or a stop command: no new requests from here on.
BeginShutdown(g) ==
  /\ pc[g] = "serving"
  /\ GoTo(g, "leaving")
  /\ UNCHANGED <<config, lock, pidFile, registration, port, asked, memory, tx, disturbed,
                 bounds, faults>>

\* Mutant: the cleanup waits until no handler runs.
RemovePIDWhenIdle(g) ==
  /\ pc[g] = "leaving" /\ tx[g].step = "none"
  /\ pidFile' = Missing
  /\ GoTo(g, "unlocking")
  /\ UNCHANGED <<config, lock, registration, port, asked, memory, tx, disturbed, bounds,
                 faults>>

\* Handlers are waited for as long as the grace period lasts, not until they end.
RemovePID(g) ==
  /\ pc[g] = "leaving"
  /\ \/ pidFile' = Missing /\ UNCHANGED faults
     \/ Fault /\ UNCHANGED pidFile
  /\ GoTo(g, "unlocking")
  /\ UNCHANGED <<config, lock, registration, port, asked, memory, tx, disturbed,
                 bounds>>

\* The last step of runServe: what follows is the end of the process.
ReleaseLock(g) ==
  /\ pc[g] = "unlocking"
  /\ End(g)
  /\ UNCHANGED faults

\* Any process can be killed anywhere, or give up on a config.yaml that it
\* cannot read or create.
Die(p) ==
  /\ pc[p] # "off"
  /\ Fault
  /\ End(p)

(***************************************************************************)
(* Commands.  A command finds its gateway through the pid file, and falls  *)
(* back on the configured port.                                            *)
(***************************************************************************)

ResolvedPort == IF pidFile = Missing THEN ConfiguredPort ELSE pidFile.port

BeginCommand(c, kind) ==
  /\ pc[c] = "off" /\ commands < MaxCommands
  /\ commands' = commands + 1
  /\ port' = [port EXCEPT ![c] = ResolvedPort]
  /\ GoTo(c, kind)
  /\ UNCHANGED <<config, lock, pidFile, registration, asked, memory, tx,
                 disturbed, starts, changes, faults>>

Reached(c, g) == pc[g] = "serving" /\ port[g] = port[c]

CommandEnds(c) ==
  /\ GoTo(c, "off")
  /\ port' = [port EXCEPT ![c] = NoPort]

Stop(c) ==
  /\ pc[c] = "stop"
  /\ asked' = asked \cup {g \in Gateways : Reached(c, g)}
  /\ CommandEnds(c)
  /\ UNCHANGED <<config, lock, pidFile, registration, memory, tx, disturbed,
                 bounds, faults>>

\* Nobody answers: the lock tells whether a gateway runs.
CallStatus(c) ==
  /\ pc[c] = "status"
  /\ IF \E g \in Gateways : Reached(c, g)
       THEN CommandEnds(c)
       ELSE GoTo(c, "probe") /\ UNCHANGED port
  /\ UNCHANGED <<config, lock, pidFile, registration, asked, memory, tx,
                 disturbed, bounds, faults>>

\* A probe of a free lock holds it until it has unlocked it again.
ProbeLock(c) ==
  /\ pc[c] = "probe"
  /\ IF lock = Nobody
       THEN lock' = c /\ GoTo(c, "probing") /\ UNCHANGED port
       ELSE CommandEnds(c) /\ UNCHANGED lock
  /\ UNCHANGED <<config, pidFile, registration, asked, memory, tx, disturbed,
                 bounds, faults>>

EndProbe(c) ==
  /\ pc[c] = "probing"
  /\ lock' = Nobody
  /\ CommandEnds(c)
  /\ UNCHANGED <<config, pidFile, registration, asked, memory, tx, disturbed,
                 bounds, faults>>

CallHealthz(c) ==
  /\ pc[c] = "autostart"
  /\ GoTo(c, IF \E g \in Gateways : Reached(c, g) THEN "set" ELSE "load")
  /\ UNCHANGED <<config, lock, pidFile, registration, port, asked, memory, tx,
                 disturbed, bounds, faults>>

LoadConfig(c) ==
  /\ pc[c] = "load"
  /\ Load(c, "apply")
  /\ UNCHANGED <<lock, pidFile, registration, port, asked, tx, bounds, faults>>

(***************************************************************************)
(* autostart.Apply, by the command itself or by a gateway that holds txMu. *)
(***************************************************************************)

Status == CASE unit = "none" -> "absent"
            [] unit = "ours" /\ enabled -> "good"
            [] OTHER -> "bad"

\* systemctl is-enabled may fail on an enabled unit.
Seen == {Status} \cup (IF Status = "good" /\ faults < MaxFaults THEN {"bad"} ELSE {})

SeeStatus(seen) ==
  /\ seen \in Seen
  /\ faults' = IF seen = Status THEN faults ELSE faults + 1

BeginApply(p, want) ==
  /\ tx[p].step = "none"
  /\ tx' = [tx EXCEPT ![p] = [NoTx EXCEPT !.step = "status", !.want = want,
                                         !.began = [is |-> Status, flag |-> config = TRUE]]]

\* The desktop application, the management page, or a command that got through.
HandleAutostart(g, want) ==
  /\ pc[g] \in Answering
  /\ Change
  /\ BeginApply(g, want)
  /\ UNCHANGED <<config, lock, pidFile, registration, processState, memory, disturbed,
                 starts, commands, faults>>

SetAutostart(c) ==
  /\ pc[c] = "set"
  /\ \/ \E g \in Gateways, want \in BOOLEAN : Reached(c, g) /\ BeginApply(g, want)
     \/ UNCHANGED tx /\ \A g \in Gateways : ~Reached(c, g)
  /\ CommandEnds(c)
  /\ UNCHANGED <<config, lock, pidFile, registration, asked, memory, disturbed,
                 bounds, faults>>

ApplyLocally(c, want) ==
  /\ pc[c] = "apply"
  /\ BeginApply(c, want)
  /\ UNCHANGED <<config, lock, pidFile, registration, processState, memory, disturbed,
                 bounds, faults>>

At(p, step) == tx[p].step = step

\* What made a step fail may make the way back fail too; that is one fault.
StepFault(p) == Fault \/ (tx[p].rollback /\ UNCHANGED faults)

Proceed(p, step) == tx' = [tx EXCEPT ![p].step = step]

Answer(p, answer) == tx' = [tx EXCEPT ![p].step = "over", ![p].answer = answer]

Goal(want) == IF want THEN "good" ELSE "absent"

FirstOf(enable) == IF enable THEN "enable" ELSE "disable"

\* The first failure turns back to what the registration was seen to be, a
\* failure on the way back leaves it to the user.
FailStep(p) ==
  IF tx[p].rollback
    THEN Answer(p, "partial")
    ELSE tx' = [tx EXCEPT ![p].step = FirstOf(tx[p].before = "good"), ![p].rollback = TRUE]

\* Mutant: that the old registration is lost goes unnoticed.
FinishStepQuietly(p) ==
  IF tx[p].rollback THEN Answer(p, "error") ELSE Proceed(p, "verify")

\* A registration that was bad has been removed instead of restored.
FinishStep(p) ==
  IF tx[p].rollback
    THEN Answer(p, IF tx[p].before = "bad" THEN "partial" ELSE "error")
    ELSE Proceed(p, "verify")

txOnly == <<config, lock, pidFile, processState, memory, bounds>>

ReadStatus(p) ==
  /\ At(p, "status")
  /\ \/ \E seen \in Seeable :
          /\ SeeStatus(seen)
          /\ tx' = [tx EXCEPT ![p].before = seen,
                              ![p].step = IF seen = Goal(tx[p].want)
                                            THEN "verify" ELSE FirstOf(tx[p].want)]
     \/ Fault /\ Answer(p, "error")
  /\ UNCHANGED <<txOnly, registration, disturbed>>

\* Write the unit, reload and enable it, verify: a call of the registrar is one
\* step that fails after any of these.
Enable(p) ==
  /\ At(p, "enable")
  /\ \/ unit' = "ours" /\ enabled' = TRUE /\ FinishStep(p) /\ UNCHANGED faults
     \/ /\ StepFault(p) /\ FailStep(p)
        /\ \/ UNCHANGED registration
           \/ unit' = "ours" /\ enabled' \in {enabled, TRUE}
  /\ Disturb(p)
  /\ UNCHANGED txOnly

\* Disable the unit, remove it, reload.
Disable(p) ==
  /\ At(p, "disable")
  /\ \/ unit' = "none" /\ enabled' = FALSE /\ FinishStep(p) /\ UNCHANGED faults
     \/ /\ StepFault(p) /\ FailStep(p)
        /\ \/ UNCHANGED registration
           \/ enabled' = FALSE /\ unit' \in {unit, "none"}
  /\ Disturb(p)
  /\ UNCHANGED txOnly

Verify(p) ==
  /\ At(p, "verify")
  /\ \/ \E seen \in Seeable :
          /\ SeeStatus(seen)
          /\ IF seen = Goal(tx[p].want)
               THEN Proceed(p, "config")
               ELSE FailStep(p)
     \/ StepFault(p) /\ FailStep(p)
  /\ UNCHANGED <<txOnly, registration, disturbed>>

WriteConfig(p) ==
  /\ At(p, "config")
  /\ \/ Write(p, tx[p].want) /\ Answer(p, "ok") /\ UNCHANGED faults
     \/ StepFault(p) /\ FailStep(p) /\ UNCHANGED <<config, memory, disturbed>>
  /\ UNCHANGED <<lock, pidFile, registration, processState, bounds>>

\* The gateway answers and unlocks txMu; a command prints and exits.
EndApply(p) ==
  /\ At(p, "over")
  /\ tx' = [tx EXCEPT ![p] = NoTx]
  /\ disturbed' = disturbed \ {p}
  /\ IF p \in Commands THEN CommandEnds(p) ELSE UNCHANGED <<pc, port>>
  /\ UNCHANGED <<config, lock, pidFile, registration, asked, memory, bounds, faults>>

ApplyNext(p) ==
  \/ ReadStatus(p) \/ Enable(p) \/ Disable(p) \/ Verify(p) \/ WriteConfig(p) \/ EndApply(p)

\* What the main goroutine of a gateway does without being asked for.
ServeNext(g) ==
  \/ CreateConfig(g) \/ AcquireLock(g) \/ Serve(g)
  \/ RemovePID(g) \/ ReleaseLock(g)

CommandNext(c) ==
  \/ Stop(c) \/ CallStatus(c) \/ ProbeLock(c) \/ EndProbe(c)
  \/ CallHealthz(c) \/ SetAutostart(c) \/ LoadConfig(c) \/ CreateConfig(c)

Next ==
  \/ \E g \in Gateways :
       \/ \E p \in Ports : BeginServe(g, p)
       \/ ServeNext(g) \/ Fail(g) \/ BeginShutdown(g) \/ Save(g)
       \/ \E want \in BOOLEAN : HandleAutostart(g, want)
  \/ \E c \in Commands :
       \/ \E kind \in {"stop", "status", "autostart"} : BeginCommand(c, kind)
       \/ CommandNext(c)
       \/ \E want \in BOOLEAN : ApplyLocally(c, want)
  \/ \E p \in Processes : ApplyNext(p) \/ Die(p)

\* A gateway that was asked to stop hears of it; systemctl may hang for ever.
Fairness == \A g \in Gateways :
  /\ WF_vars(ServeNext(g))
  /\ WF_vars(g \in asked /\ BeginShutdown(g))

Spec == Init /\ [][Next]_vars /\ Fairness

(***************************************************************************)
(* Properties.                                                             *)
(***************************************************************************)

\* While a gateway serves, it holds the lock and the pid file leads to it,
\* whoever else starts, fails to start, stops, dies or is probed for in the
\* meantime: stop, status and autostart find the gateway that runs.
PidNamesServer == \A g \in Gateways : pc[g] = "serving" =>
  lock = g /\ pidFile = [owner |-> g, port |-> port[g]]

\* autostart on or off answers what is so: after a success the registration and
\* the flag in config.yaml are as wanted; after an ordinary error both are what
\* they were; and a partial failure has left config.yaml alone.  Failing system
\* calls, on the way back too, do not change that.  It is promised of a change
\* that no other process interferes with.
AnswerIsSo ==
  \A p \in Processes :
    LET began == tx[p].began
        answer == tx'[p].answer
    IN  answer # tx[p].answer /\ tx'[p].step = "over" /\ p \notin disturbed =>
          CASE answer = "ok" -> Status' = Goal(tx[p].want) /\ config' = tx[p].want
            [] answer = "error" -> Status' = began.is /\ config' = began.flag
            [] answer = "partial" -> config' = began.flag

RegistrationAgrees == [][AnswerIsSo]_vars

\* A gateway that accepted a stop command goes away, even when a handler hangs
\* in a command of the operating system.
StopEnds == \A g \in Gateways : g \in asked ~> pc[g] = "off"
=============================================================================

---------------------------- MODULE ModuleRuntime ----------------------------
(* One third-party module of a tenant in one API process: its registry row,  *)
(* its files, its database home and its sandboxed worker.  Admins install,    *)
(* enable, disable and uninstall it with nothing that serialises them, the    *)
(* worker crashes, hangs or subscribes to events, and a watchdog pings it.    *)
(* What runs between two awaits of the code is one step.                      *)
EXTENDS Naturals, FiniteSets

CONSTANTS Admins,       \* concurrent requests of the admin API
          MaxWorkers,   \* bound: forks of the worker
          MaxInstalls,  \* bound: installs that claim the row
          MaxFaults,    \* bound: failed calls to Postgres, the disk or fork
          MaxRestarts   \* bound: crashes of the API process

ASSUME BoundsAssumption == {MaxWorkers, MaxInstalls, MaxFaults, MaxRestarts} \subseteq Nat

VARIABLES row,       \* which install the registry row is of, 0 when there is none
          enabled,   \* the row's flag
          files,     \* which install the directory of the module holds, 0 when absent
          home,      \* the module's role and schema exist
          pool,      \* the executor has a client open for the module
          host,      \* the worker in WorkerHost's map, 0 when there is none
          bus,       \* the worker whose peer the event bus delivers to, 0 when none
          child,     \* what became of each forked process
          born,      \* how many were forked
          op,        \* what each admin request is about to do
          watch,     \* the watchdog's run, and the worker it pinged
          installs, faults, restarts,  \* how much of the bounds is used
          torn       \* a step touched the files of another install, or stopped half-way

opVars == <<row, enabled, files, home, installs, torn>>
liveVars == <<pool, host, bus, child, born, watch>>
vars == <<row, enabled, files, home, pool, host, bus, child, born, op, watch,
          installs, faults, restarts, torn>>

Workers == 1..MaxWorkers
Installs == 1..MaxInstalls
Alive == {"running", "hung"}
Placing == {"clear", "place", "unclaim"}
Enabling == {"provision", "rotate", "start"}

Idle == [pc |-> "idle", of |-> 0]
NoPing == [pc |-> "idle", ping |-> 0]

TypeOK ==
  /\ row \in Installs \cup {0} /\ files \in Installs \cup {0} /\ installs \in 0..MaxInstalls
  /\ enabled \in BOOLEAN /\ home \in BOOLEAN /\ pool \in BOOLEAN /\ torn \in BOOLEAN
  /\ host \in Workers \cup {0} /\ bus \in Workers \cup {0} /\ born \in 0..MaxWorkers
  /\ child \in [Workers -> Alive \cup {"unborn", "doomed", "adrift", "gone"}]
  /\ op \in [Admins -> [pc : {"idle", "flagOn", "flagOff", "stop", "unflag", "delete", "remove", "drop"}
                               \cup Placing \cup Enabling, of : Installs \cup {0}]]
  /\ watch \in [pc : {"idle", "pinging", "off"}, ping : Workers \cup {0}]
  /\ faults \in 0..MaxFaults /\ restarts \in 0..MaxRestarts

Init ==
  /\ row = 0 /\ enabled = FALSE /\ files = 0 /\ home = FALSE /\ pool = FALSE
  /\ host = 0 /\ bus = 0 /\ child = [g \in Workers |-> "unborn"] /\ born = 0
  /\ op = [a \in Admins |-> Idle] /\ watch = NoPing
  /\ installs = 0 /\ faults = 0 /\ restarts = 0 /\ torn = FALSE

-----------------------------------------------------------------------------
(* The program counter of an admin request. *)
At(a, pc) == op[a].pc = pc
Goto(a, pc) == op' = [op EXCEPT ![a].pc = pc]
Done(a) == op' = [op EXCEPT ![a] = Idle]

(* A call that fails: the request answers with an error where it stands. *)
Fault == faults < MaxFaults /\ faults' = faults + 1
NoFault == UNCHANGED faults

-----------------------------------------------------------------------------
(* WorkerHost.  The teardown disposes the peer, so its pending ping rejects   *)
(* and the watchdog goes on to disable() in the same turn; it drops the       *)
(* handle and unsubscribes the worker.                                        *)
(* Mutant: dispose leaves the pending requests. *)
PendingKept == watch

PingRejected == IF watch.pc = "pinging" THEN [watch EXCEPT !.pc = "off"] ELSE watch

Teardown(fate) ==
  /\ host' = 0
  /\ bus' = 0
  /\ child' = [child EXCEPT ![host] = fate]
  /\ watch' = PingRejected

(* disable() up to its first await: the worker gets SIGTERM and the executor  *)
(* forgets its client, whose connections end later.                           *)
StopWorker ==
  /\ IF host = 0 THEN UNCHANGED <<host, bus, child, watch>> ELSE Teardown("doomed")
  /\ pool' = FALSE
  /\ UNCHANGED born

(* A disposed peer no longer listens to its channel. *)
Heard(g) == host = g

(* Mutant: its close listener is still the host's, which prunes by name. *)
ExitPrunesByName(g) == host' = 0 /\ bus' = 0 /\ watch' = PingRejected

(* The exit of a stopped child: its close listeners were removed with the     *)
(* handle, so nobody hears of it.                                             *)
CloseHeard(g) == UNCHANGED <<host, bus, watch>>

-----------------------------------------------------------------------------
(* ModulesService.install: the row is the claim on the name (an installed     *)
(* module is a 409), the files follow, and a failed placement gives the row   *)
(* back.  The row says enabled at once.                                       *)
Insert(a) ==
  /\ At(a, "idle") /\ row = 0 /\ installs < MaxInstalls
  /\ installs' = installs + 1
  /\ row' = installs + 1 /\ enabled' = TRUE
  /\ op' = [op EXCEPT ![a] = [pc |-> "clear", of |-> installs + 1]]
  /\ UNCHANGED <<files, home, torn, faults, restarts>> /\ UNCHANGED liveVars

(* rm swallows its own errors: the directory may still be there. *)
ClearDir(a) ==
  /\ At(a, "clear") /\ Goto(a, "place")
  /\ \/ files' = 0 /\ torn' = (torn \/ row # op[a].of) /\ NoFault
     \/ Fault /\ UNCHANGED <<files, torn>>
  /\ UNCHANGED <<row, enabled, home, installs, restarts>> /\ UNCHANGED liveVars

(* A rename onto a directory with files in it fails. *)
PlaceDir(a) ==
  /\ At(a, "place")
  /\ \/ /\ files = 0 /\ files' = op[a].of /\ torn' = (torn \/ row # op[a].of)
        /\ NoFault /\ Done(a)
     \/ files # 0 /\ NoFault /\ Goto(a, "unclaim") /\ UNCHANGED <<files, torn>>
     \/ files = 0 /\ Fault /\ Goto(a, "unclaim") /\ UNCHANGED <<files, torn>>
  /\ UNCHANGED <<row, enabled, home, installs, restarts>> /\ UNCHANGED liveVars

(* Mutant: no roll-back. *)
ClaimStays(a) ==
  /\ At(a, "unclaim") /\ Done(a)
  /\ UNCHANGED <<faults, restarts>> /\ UNCHANGED opVars /\ UNCHANGED liveVars

(* The roll-back deletes the row by name; its own failure is swallowed. *)
Unclaim(a) ==
  /\ At(a, "unclaim") /\ Done(a)
  /\ \/ row' = 0 /\ enabled' = FALSE /\ NoFault /\ UNCHANGED torn
     \/ Fault /\ torn' = TRUE /\ UNCHANGED <<row, enabled>>
  /\ UNCHANGED <<files, home, installs, restarts>> /\ UNCHANGED liveVars

-----------------------------------------------------------------------------
(* ModuleRuntimeService.enable: find the row, provision the role and schema,  *)
(* rotate the password, open the client and start the worker, flag the row.   *)
FindToEnable(a) ==
  /\ At(a, "idle") /\ row # 0 /\ Goto(a, "provision")
  /\ born + Cardinality({x \in Admins : op[x].pc \in Enabling}) < MaxWorkers
  /\ UNCHANGED <<faults, restarts>> /\ UNCHANGED opVars /\ UNCHANGED liveVars

Provision(a) ==
  /\ At(a, "provision")
  /\ \/ home' = TRUE /\ NoFault /\ Goto(a, "rotate")
     \/ Fault /\ Done(a) /\ UNCHANGED home
  /\ UNCHANGED <<row, enabled, files, installs, torn, restarts>> /\ UNCHANGED liveVars

(* ALTER ROLE fails when an uninstall dropped the role meanwhile. *)
RotateCredential(a) ==
  /\ At(a, "rotate") /\ IF home THEN Goto(a, "start") ELSE Done(a)
  /\ UNCHANGED <<faults, restarts>> /\ UNCHANGED opVars /\ UNCHANGED liveVars

(* open() replaces the client of the module, start() throws when a worker     *)
(* runs, and the catch closes the module's client, whoever opened it.         *)
Start(a) ==
  /\ At(a, "start")
  /\ \/ /\ host = 0 /\ born < MaxWorkers
        /\ pool' = TRUE
        /\ host' = born + 1 /\ born' = born + 1
        /\ child' = [child EXCEPT ![born + 1] = "running"]
        /\ NoFault /\ Goto(a, "flagOn") /\ UNCHANGED <<bus, watch>>
     \/ /\ host # 0 /\ pool' = FALSE /\ NoFault /\ Done(a)
        /\ UNCHANGED <<host, bus, child, born, watch>>
     \/ /\ host = 0 /\ Fault /\ pool' = FALSE /\ Done(a)
        /\ UNCHANGED <<host, bus, child, born, watch>>
  /\ UNCHANGED restarts /\ UNCHANGED opVars

(* setEnabled: an update of no row when the module is gone. *)
SetEnabled(flag) ==
  \/ /\ enabled' = (row # 0 /\ flag) /\ NoFault
     /\ UNCHANGED <<row, files, home, installs, torn>>
  \/ Fault /\ UNCHANGED opVars

FlagOn(a) ==
  /\ At(a, "flagOn") /\ Done(a)
  /\ SetEnabled(TRUE)
  /\ UNCHANGED restarts /\ UNCHANGED liveVars

-----------------------------------------------------------------------------
(* ModuleRuntimeService.disable, which an admin calls whatever the state. *)
StopToDisable(a) ==
  /\ At(a, "idle") /\ Goto(a, "flagOff") /\ StopWorker
  /\ UNCHANGED <<faults, restarts>> /\ UNCHANGED opVars

(* Mutant: the client is closed when the flag is written, by name. *)
ClientClosedLate(a) ==
  /\ At(a, "flagOff") /\ Done(a) /\ SetEnabled(FALSE)
  /\ pool' = FALSE
  /\ UNCHANGED <<host, bus, child, born, watch, restarts>>

(* The flag follows when the client's connections have ended; a failure to    *)
(* write it is swallowed.                                                     *)
FlagOff(a) ==
  /\ At(a, "flagOff") /\ Done(a)
  /\ SetEnabled(FALSE)
  /\ UNCHANGED restarts /\ UNCHANGED liveVars

-----------------------------------------------------------------------------
(* ModulesService.uninstall: find, disable, delete the row, remove the files, *)
(* and drop the database home when the admin asked for it.                    *)
FindToUninstall(a) ==
  /\ At(a, "idle") /\ row # 0 /\ Goto(a, "stop")
  /\ UNCHANGED <<faults, restarts>> /\ UNCHANGED opVars /\ UNCHANGED liveVars

StopToUninstall(a) ==
  /\ At(a, "stop") /\ Goto(a, "unflag") /\ StopWorker
  /\ UNCHANGED <<faults, restarts>> /\ UNCHANGED opVars

Unflag(a) ==
  /\ At(a, "unflag") /\ Goto(a, "delete")
  /\ SetEnabled(FALSE)
  /\ UNCHANGED restarts /\ UNCHANGED liveVars

DeleteRow(a) ==
  /\ At(a, "delete")
  /\ \/ row' = 0 /\ enabled' = FALSE /\ NoFault /\ Goto(a, "remove")
     \/ Fault /\ Done(a) /\ UNCHANGED <<row, enabled>>
  /\ UNCHANGED <<files, home, installs, torn, restarts>> /\ UNCHANGED liveVars

RemoveDir(a) ==
  /\ At(a, "remove") /\ (Goto(a, "drop") \/ Done(a))
  /\ \/ files' = 0 /\ torn' = (torn \/ row # 0) /\ NoFault
     \/ Fault /\ UNCHANGED <<files, torn>>
  /\ UNCHANGED <<row, enabled, home, installs, restarts>> /\ UNCHANGED liveVars

Deprovision(a) ==
  /\ At(a, "drop") /\ Done(a)
  /\ \/ home' = FALSE /\ NoFault
     \/ Fault /\ UNCHANGED home
  /\ UNCHANGED <<row, enabled, files, installs, torn, restarts>> /\ UNCHANGED liveVars

-----------------------------------------------------------------------------
(* The watchdog: one run at a time pings the worker in the map.  An answer    *)
(* ends the run; five seconds without one are followed by disable() of the    *)
(* module, by name.                                                           *)
Ping ==
  /\ watch.pc = "idle" /\ host # 0
  /\ watch' = [pc |-> "pinging", ping |-> host]
  /\ UNCHANGED <<pool, host, bus, child, born, op, faults, restarts>> /\ UNCHANGED opVars

Answered ==
  /\ watch.pc = "pinging" /\ child[watch.ping] = "running"
  /\ watch' = NoPing
  /\ UNCHANGED <<pool, host, bus, child, born, op, faults, restarts>> /\ UNCHANGED opVars

PingTimeout ==
  /\ watch.pc = "pinging"
  /\ pool' = FALSE
  /\ watch' = [watch EXCEPT !.pc = "off"]
  /\ IF host = 0 THEN UNCHANGED <<host, bus, child>>
     ELSE host' = 0 /\ bus' = 0 /\ child' = [child EXCEPT ![host] = "doomed"]
  /\ UNCHANGED <<born, op, faults, restarts>> /\ UNCHANGED opVars

(* Mutant: the guard stays set. *)
RunHangs == UNCHANGED watch

(* The finally of checkLiveness lets the next run start. *)
RunEnds == watch' = NoPing

WatchdogFlagsOff ==
  /\ watch.pc = "off" /\ RunEnds
  /\ SetEnabled(FALSE)
  /\ UNCHANGED <<pool, host, bus, child, born, op, restarts>>

-----------------------------------------------------------------------------
(* The worker: it subscribes (again), hangs (or disconnects), or dies.  A     *)
(* death of the worker in the map prunes it and rejects a pending ping, whose *)
(* disable() closes the client; without one the client stays open.            *)
Subscribe(g) ==
  /\ child[g] \in {"running", "doomed"} /\ Heard(g)
  /\ bus' = g
  /\ UNCHANGED <<pool, host, child, born, op, watch, faults, restarts>> /\ UNCHANGED opVars

Hang(g) ==
  /\ child[g] = "running"
  /\ child' = [child EXCEPT ![g] = "hung"]
  /\ UNCHANGED <<pool, host, bus, born, op, watch, faults, restarts>> /\ UNCHANGED opVars

Crash(g) ==
  /\ host = g /\ child[g] \in Alive
  /\ Teardown("gone")
  /\ pool' = (pool /\ watch.pc # "pinging")
  /\ UNCHANGED <<born, op, faults, restarts>> /\ UNCHANGED opVars

(* SIGTERM, or SIGKILL two seconds later. *)
Exit(g) ==
  /\ child[g] = "doomed"
  /\ child' = [child EXCEPT ![g] = "gone"]
  /\ CloseHeard(g)
  /\ UNCHANGED <<pool, born, op, faults, restarts>> /\ UNCHANGED opVars

(* A child whose parent died only notices when its event loop runs empty. *)
Leave(g) ==
  /\ child[g] = "adrift"
  /\ child' = [child EXCEPT ![g] = "gone"]
  /\ UNCHANGED <<pool, host, bus, born, op, watch, faults, restarts>> /\ UNCHANGED opVars

(* The API process dies and starts again: what it held in memory is lost and  *)
(* no worker is started for the rows that say enabled.                        *)
Restart ==
  /\ restarts < MaxRestarts /\ restarts' = restarts + 1
  /\ pool' = FALSE /\ host' = 0 /\ bus' = 0 /\ watch' = NoPing
  /\ child' = [g \in Workers |-> IF child[g] \in Alive \cup {"doomed"} THEN "adrift" ELSE child[g]]
  /\ op' = [a \in Admins |-> Idle]
  /\ torn' = (torn \/ \E a \in Admins : op[a].pc \in Placing)
  /\ UNCHANGED <<row, enabled, files, home, born, installs, faults>>

-----------------------------------------------------------------------------
AdminStep(a) ==
  \/ Insert(a) \/ ClearDir(a) \/ PlaceDir(a) \/ Unclaim(a)
  \/ FindToEnable(a) \/ Provision(a) \/ RotateCredential(a) \/ Start(a) \/ FlagOn(a)
  \/ StopToDisable(a) \/ FlagOff(a)
  \/ FindToUninstall(a) \/ StopToUninstall(a) \/ Unflag(a) \/ DeleteRow(a) \/ RemoveDir(a)
  \/ Deprovision(a)

Watchdog == Ping \/ Answered \/ PingTimeout \/ WatchdogFlagsOff

WorkerStep(g) == Subscribe(g) \/ Hang(g) \/ Crash(g) \/ Exit(g) \/ Leave(g)

Next ==
  \/ \E a \in Admins : AdminStep(a)
  \/ Watchdog
  \/ \E g \in Workers : WorkerStep(g)
  \/ Restart

Spec == Init /\ [][Next]_vars

(* The watchdog's interval fires, its timers expire, its update returns, and  *)
(* SIGKILL ends a process.                                                    *)
Fairness ==
  /\ WF_vars(Ping) /\ WF_vars(PingTimeout) /\ WF_vars(WatchdogFlagsOff)
  /\ \A g \in Workers : WF_vars(Exit(g))

FairSpec == Spec /\ Fairness

-----------------------------------------------------------------------------
(* Crash isolation and "no duplicate workers": a child that was not told to   *)
(* die is the worker in the map, the worker in the map is alive, and events   *)
(* go to no other peer: the late exit or the last message of a stopped child  *)
(* touches nothing of its successor.                                          *)
OneLiveWorker ==
  /\ \A g \in Workers : child[g] \in Alive => host = g
  /\ host # 0 => child[host] \in Alive
  /\ bus \in {0, host}

(* The watchdog disables by name what it pinged by handle: while it waits for *)
(* an answer, the worker of that name is still the one it pinged.             *)
PingedIsHost == watch.pc = "pinging" => watch.ping = host

(* The map of running workers, the operating system, the event bus and the    *)
(* watchdog speak of one and the same worker of the module, if there is one,  *)
(* through starts, stops, crashes, hangs and overlapping admin calls.         *)
WorkersAgree == OneLiveWorker /\ PingedIsHost

(* A running worker keeps its database client: no slow disable, uninstall or  *)
(* watchdog run closes it behind the next enable; only an enable that finds   *)
(* the worker running does.                                                   *)
ClientKept ==
  [][host # 0 /\ host' = host /\ pool /\ ~pool'
       => \E a \in Admins : At(a, "start") /\ op'[a].pc = "idle"]_vars

(* What the registry says is installed is what lies on disk, failed           *)
(* placements and failed clean-ups included, once its install is over; the    *)
(* exceptions (torn) are the steps of an install or uninstall that overlaps   *)
(* another, a failed roll-back, and a crash in between.                       *)
FilesMatchRow ==
  ~torn /\ row # 0 /\ (\A a \in Admins : op[a].pc \in Placing => op[a].of # row) => files = row

(* A worker that hangs is stopped, and one that is told to stop ends. *)
HungWorkersEnd ==
  \A g \in Workers : child[g] \in {"hung", "doomed"} ~> child[g] \in {"gone", "adrift"}

=============================================================================

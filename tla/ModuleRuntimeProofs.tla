------------------------- MODULE ModuleRuntimeProofs -------------------------
(***************************************************************************)
(* ModuleRuntime.tla for every number of admins, forks, installs, faults    *)
(* and restarts: one live worker, the watchdog stops what it pinged, the    *)
(* registry and the disk agree, a running worker keeps its client.          *)
(*                                                                          *)
(* Three groups of variables are disturbed by different steps: the program  *)
(* counters (op), what is stored (opVars) and what the process holds in     *)
(* memory (liveVars).  OneLiveWorker and what the watchdog knows are        *)
(* inductive together; FilesMatchRow is inductive by itself, because who    *)
(* is about to place files owns the row it would be judged by.              *)
(***************************************************************************)
EXTENDS ModuleRuntime, TLAPS

OpPcs == {"idle", "flagOn", "flagOff", "stop", "unflag", "delete", "remove", "drop"}
           \cup Placing \cup Enabling
Op    == [pc : OpPcs, of : Installs \cup {0}]

StoredTyped ==
  /\ row \in Installs \cup {0} /\ files \in Installs \cup {0} /\ installs \in 0..MaxInstalls
  /\ enabled \in BOOLEAN /\ home \in BOOLEAN /\ torn \in BOOLEAN

LiveTyped ==
  /\ pool \in BOOLEAN
  /\ host \in Workers \cup {0} /\ bus \in Workers \cup {0} /\ born \in 0..MaxWorkers
  /\ child \in [Workers -> Alive \cup {"unborn", "doomed", "adrift", "gone"}]
  /\ watch \in [pc : {"idle", "pinging", "off"}, ping : Workers \cup {0}]

OpTyped    == op \in [Admins -> Op]
SpentTyped == faults \in 0..MaxFaults /\ restarts \in 0..MaxRestarts

LEMMA TypeParts == TypeOK <=> StoredTyped /\ LiveTyped /\ OpTyped /\ SpentTyped
BY DEF TypeOK, StoredTyped, LiveTyped, OpTyped, SpentTyped, Op, OpPcs

LEMMA TypePartsNext == TypeOK' <=> StoredTyped' /\ LiveTyped' /\ OpTyped' /\ SpentTyped'
BY DEF TypeOK, StoredTyped, LiveTyped, OpTyped, SpentTyped, Op, OpPcs

(* The worker in the map, who else lives, and whom the watchdog waits for. *)
HostInv ==
  /\ OneLiveWorker
  /\ watch.pc = "pinging" => watch.ping = host /\ host # 0

IInv == TypeOK /\ HostInv /\ FilesMatchRow

-----------------------------------------------------------------------------
LEMMA InitIInv == Init => IInv
<1> SUFFICES ASSUME Init PROVE IInv
  OBVIOUS
<1>1. 0 \in 0..MaxInstalls /\ 0 \in 0..MaxWorkers /\ 0 \in 0..MaxFaults /\ 0 \in 0..MaxRestarts
  BY BoundsAssumption DEF BoundsAssumption
<1>2. StoredTyped /\ SpentTyped
  BY <1>1 DEF Init, StoredTyped, SpentTyped
<1>3. LiveTyped /\ OpTyped
  BY <1>1 DEF Init, LiveTyped, OpTyped, Op, OpPcs, Idle, NoPing
<1>4. HostInv /\ FilesMatchRow
  BY DEF Init, HostInv, OneLiveWorker, Alive, NoPing, FilesMatchRow
<1>5. QED
  BY <1>2, <1>3, <1>4, TypeParts DEF IInv

(* What is stored, and the program counters, after the step of an admin. *)
LEMMA FaultTyped ==
  ASSUME SpentTyped, Fault \/ NoFault, UNCHANGED restarts PROVE SpentTyped'
BY BoundsAssumption DEF BoundsAssumption, SpentTyped, Fault, NoFault

LEMMA OpMoves ==
  ASSUME OpTyped, NEW a \in Admins, NEW v \in Op, op' = [op EXCEPT ![a] = v]
  PROVE  OpTyped' /\ op'[a] = v /\ \A x \in Admins \ {a} : op'[x] = op[x]
BY DEF OpTyped

LEMMA GotoMoves ==
  ASSUME OpTyped, NEW a \in Admins, NEW pc \in OpPcs, Goto(a, pc)
  PROVE  OpTyped' /\ op'[a].pc = pc /\ op'[a].of = op[a].of /\ \A x \in Admins \ {a} : op'[x] = op[x]
BY DEF OpTyped, Op, Goto

LEMMA DoneMoves ==
  ASSUME OpTyped, NEW a \in Admins, Done(a)
  PROVE  OpTyped' /\ op'[a] = Idle /\ \A x \in Admins \ {a} : op'[x] = op[x]
BY DEF OpTyped, Op, OpPcs, Idle, Done

(* Which step an admin takes next. *)
LEMMA AdminMoves ==
  ASSUME TypeOK, NEW a \in Admins, AdminStep(a) PROVE OpTyped'
<1>1. OpTyped /\ StoredTyped
  BY TypeParts
<1>2. CASE Insert(a)
  <2>1. installs + 1 \in Installs
    BY <1>1, <1>2, BoundsAssumption DEF Insert, StoredTyped, Installs, BoundsAssumption
  <2>2. [pc |-> "clear", of |-> installs + 1] \in Op
    BY <2>1 DEF Op, OpPcs, Placing
  <2>3. QED
    BY <1>1, <1>2, <2>2, OpMoves DEF Insert
<1>3. \/ Done(a)
      \/ \E pc \in OpPcs : Goto(a, pc)
      \/ Insert(a)
  BY DEF AdminStep, OpPcs, Placing, Enabling, ClearDir, PlaceDir, Unclaim, FindToEnable, Provision,
     RotateCredential, Start, FlagOn, StopToDisable, FlagOff, FindToUninstall, StopToUninstall,
     Unflag, DeleteRow, RemoveDir, Deprovision
<1>4. QED
  BY <1>1, <1>2, <1>3, GotoMoves, DoneMoves

LEMMA AdminSpends ==
  ASSUME TypeOK, NEW a \in Admins, AdminStep(a) PROVE SpentTyped'
<1>1. SpentTyped
  BY TypeParts
<1>2. (Fault \/ NoFault) /\ UNCHANGED restarts
  BY DEF AdminStep, Insert, ClearDir, PlaceDir, Unclaim, FindToEnable, Provision, RotateCredential,
     Start, FlagOn, StopToDisable, FlagOff, FindToUninstall, StopToUninstall, Unflag, DeleteRow,
     RemoveDir, Deprovision, SetEnabled, NoFault
<1>3. QED
  BY <1>1, <1>2, FaultTyped

LEMMA AdminStored ==
  ASSUME TypeOK, NEW a \in Admins, AdminStep(a) PROVE StoredTyped'
<1>1. StoredTyped /\ op[a].of \in Installs \cup {0}
  BY TypeParts DEF OpTyped, Op
<1>2. CASE Insert(a)
  <2>1. installs + 1 \in Installs /\ installs + 1 \in 0..MaxInstalls
    BY <1>1, <1>2, BoundsAssumption DEF Insert, StoredTyped, Installs, BoundsAssumption
  <2>2. QED
    BY <1>1, <1>2, <2>1 DEF Insert, StoredTyped
<1>3. CASE ClearDir(a) \/ RemoveDir(a)
  BY <1>1, <1>3 DEF ClearDir, RemoveDir, StoredTyped
<1>4. CASE PlaceDir(a)
  BY <1>1, <1>4 DEF PlaceDir, StoredTyped
<1>5. CASE Unclaim(a) \/ DeleteRow(a)
  BY <1>1, <1>5 DEF Unclaim, DeleteRow, StoredTyped
<1>6. CASE Provision(a) \/ Deprovision(a)
  BY <1>1, <1>6 DEF Provision, Deprovision, StoredTyped
<1>7. CASE FlagOn(a) \/ FlagOff(a) \/ Unflag(a)
  BY <1>1, <1>7 DEF FlagOn, FlagOff, Unflag, SetEnabled, opVars, StoredTyped
<1>8. CASE UNCHANGED opVars
  BY <1>1, <1>8 DEF opVars, StoredTyped
<1>9. QED
  BY <1>2, <1>3, <1>4, <1>5, <1>6, <1>7, <1>8
     DEF AdminStep, FindToEnable, RotateCredential, Start, StopToDisable, FindToUninstall, StopToUninstall

-----------------------------------------------------------------------------
(* The worker in the map goes, and with it its subscription and its ping. *)
LEMMA TeardownOK ==
  ASSUME LiveTyped, HostInv, host # 0, NEW fate \in {"doomed", "gone"}, Teardown(fate),
         pool' \in BOOLEAN, UNCHANGED born
  PROVE  LiveTyped' /\ HostInv'
<1>1. LiveTyped'
  BY DEF LiveTyped, Teardown, PingRejected
<1>2. \A g \in Workers : child'[g] = IF g = host THEN fate ELSE child[g]
  BY DEF LiveTyped, Teardown
<1>3. OneLiveWorker'
  BY <1>2 DEF HostInv, OneLiveWorker, Teardown, Alive
<1>4. watch'.pc # "pinging"
  BY DEF Teardown, PingRejected, LiveTyped
<1>5. QED
  BY <1>1, <1>3, <1>4 DEF HostInv

LEMMA StopWorkerOK ==
  ASSUME LiveTyped, HostInv, StopWorker PROVE LiveTyped' /\ HostInv'
<1>1. CASE host = 0
  BY <1>1 DEF StopWorker, LiveTyped, HostInv, OneLiveWorker
<1>2. CASE host # 0
  BY <1>2, TeardownOK DEF StopWorker
<1>3. QED
  BY <1>1, <1>2

LEMMA StartOK ==
  ASSUME LiveTyped, HostInv, NEW a \in Admins, Start(a) PROVE LiveTyped' /\ HostInv'
<1>1. CASE host = 0 /\ born < MaxWorkers /\ host' = born + 1
  <2>1. born + 1 \in Workers /\ born + 1 \in 0..MaxWorkers
    BY <1>1, BoundsAssumption DEF LiveTyped, Workers, BoundsAssumption
  <2>2. /\ born' = born + 1 /\ child' = [child EXCEPT ![born + 1] = "running"]
        /\ pool' = TRUE /\ UNCHANGED <<bus, watch>>
    BY <1>1, <2>1 DEF Start, Workers
  <2>3. LiveTyped'
    BY <1>1, <2>1, <2>2 DEF LiveTyped, Alive
  <2>4. \A g \in Workers : child'[g] \in Alive => g = born + 1
    BY <1>1, <2>1, <2>2 DEF LiveTyped, HostInv, OneLiveWorker, Workers
  <2>5. child'[born + 1] \in Alive
    BY <2>1, <2>2 DEF LiveTyped, Alive
  <2>6. OneLiveWorker'
    BY <1>1, <2>2, <2>4, <2>5 DEF HostInv, OneLiveWorker
  <2>7. QED
    BY <1>1, <2>2, <2>3, <2>6 DEF HostInv
<1>2. CASE pool' = FALSE /\ UNCHANGED <<host, bus, child, born, watch>>
  BY <1>2 DEF LiveTyped, HostInv, OneLiveWorker
<1>3. QED
  BY <1>1, <1>2 DEF Start

LEMMA LiveQuiet ==
  ASSUME LiveTyped, HostInv, UNCHANGED liveVars PROVE LiveTyped' /\ HostInv'
BY DEF LiveTyped, HostInv, OneLiveWorker, liveVars

LEMMA AdminLive ==
  ASSUME TypeOK, HostInv, NEW a \in Admins, AdminStep(a) PROVE LiveTyped' /\ HostInv'
<1>1. LiveTyped
  BY TypeParts
<1>2. UNCHANGED liveVars \/ StopWorker \/ Start(a)
  BY DEF AdminStep, Insert, ClearDir, PlaceDir, Unclaim, FindToEnable, Provision, RotateCredential,
     FlagOn, StopToDisable, FlagOff, FindToUninstall, StopToUninstall, Unflag, DeleteRow, RemoveDir,
     Deprovision
<1>3. QED
  BY <1>1, <1>2, StopWorkerOK, StartOK, LiveQuiet

LEMMA WatchdogLive ==
  ASSUME TypeOK, HostInv, Watchdog PROVE LiveTyped' /\ HostInv'
<1>1. LiveTyped
  BY TypeParts
<1>2. CASE Ping
  BY <1>1, <1>2 DEF Ping, LiveTyped, HostInv, OneLiveWorker
<1>3. CASE Answered
  BY <1>1, <1>3 DEF Answered, NoPing, LiveTyped, HostInv, OneLiveWorker
<1>4. CASE PingTimeout
  <2>1. host # 0 /\ Teardown("doomed") /\ pool' = FALSE /\ UNCHANGED born
    BY <1>4 DEF PingTimeout, HostInv, Teardown, PingRejected
  <2>2. QED
    BY <1>1, <2>1, TeardownOK
<1>5. CASE WatchdogFlagsOff
  BY <1>1, <1>5 DEF WatchdogFlagsOff, RunEnds, NoPing, LiveTyped, HostInv, OneLiveWorker
<1>6. QED
  BY <1>2, <1>3, <1>4, <1>5 DEF Watchdog

LEMMA WorkerLive ==
  ASSUME TypeOK, HostInv, NEW g \in Workers, WorkerStep(g) PROVE LiveTyped' /\ HostInv'
<1>1. LiveTyped /\ 0 \notin Workers
  BY TypeParts DEF Workers
<1>2. CASE Subscribe(g)
  BY <1>1, <1>2 DEF Subscribe, Heard, LiveTyped, HostInv, OneLiveWorker
<1>3. CASE Hang(g)
  BY <1>1, <1>3 DEF Hang, LiveTyped, HostInv, OneLiveWorker, Alive
<1>4. CASE Crash(g)
  <2>1. host # 0 /\ Teardown("gone") /\ pool' \in BOOLEAN /\ UNCHANGED born
    BY <1>1, <1>4 DEF Crash, LiveTyped
  <2>2. QED
    BY <1>1, <2>1, TeardownOK
<1>5. CASE Exit(g) \/ Leave(g)
  <2>1. /\ child[g] \notin Alive /\ child' = [child EXCEPT ![g] = "gone"]
        /\ UNCHANGED <<pool, host, bus, born, watch>>
    BY <1>5 DEF Exit, Leave, CloseHeard, Alive
  <2>2. QED
    BY <1>1, <2>1 DEF LiveTyped, HostInv, OneLiveWorker, Alive
<1>6. QED
  BY <1>2, <1>3, <1>4, <1>5 DEF WorkerStep

LEMMA RestartOK ==
  ASSUME TypeOK, HostInv, Restart PROVE TypeOK' /\ HostInv'
<1>1. LiveTyped /\ StoredTyped /\ SpentTyped
  BY TypeParts
<1>2. child' \in [Workers -> {"unborn", "adrift", "gone"}]
  BY <1>1 DEF Restart, LiveTyped
<1>3. LiveTyped' /\ HostInv'
  BY <1>1, <1>2 DEF Restart, NoPing, LiveTyped, HostInv, OneLiveWorker, Alive
<1>4. StoredTyped'
  BY <1>1 DEF Restart, StoredTyped
<1>5. SpentTyped'
  BY <1>1, BoundsAssumption DEF Restart, SpentTyped, BoundsAssumption
<1>6. OpTyped'
  BY DEF Restart, OpTyped, Op, OpPcs, Idle
<1>7. QED
  BY <1>3, <1>4, <1>5, <1>6, TypePartsNext

-----------------------------------------------------------------------------
(* The row and the disk.  A step that stores nothing and keeps who is         *)
(* placing files keeps their agreement.                                       *)
LEMMA FilesQuiet ==
  ASSUME FilesMatchRow, UNCHANGED <<row, files, torn>>,
         \A a \in Admins : op[a].pc \in Placing => op'[a].pc \in Placing /\ op'[a].of = op[a].of
  PROVE  FilesMatchRow'
BY DEF FilesMatchRow

LEMMA AdminFiles ==
  ASSUME TypeOK, FilesMatchRow, NEW a \in Admins, AdminStep(a) PROVE FilesMatchRow'
<1>1. StoredTyped /\ OpTyped /\ op[a] \in Op
  BY TypeParts DEF OpTyped
<1>2. CASE Insert(a)
  <2>1. op'[a].pc \in Placing /\ op'[a].of = row'
    BY <1>1, <1>2 DEF Insert, OpTyped, Placing
  <2>2. QED
    BY <2>1 DEF FilesMatchRow
<1>3. CASE ClearDir(a)
  <2>1. op'[a].pc \in Placing /\ op'[a].of = op[a].of /\ \A x \in Admins \ {a} : op'[x] = op[x]
    BY <1>1, <1>3, GotoMoves DEF ClearDir, OpPcs, Placing
  <2>2. CASE UNCHANGED <<files, torn>>
    BY <1>3, <2>1, <2>2, FilesQuiet DEF ClearDir
  <2>3. CASE torn' = (torn \/ row # op[a].of)
    BY <1>3, <2>1, <2>3 DEF ClearDir, FilesMatchRow
  <2>4. QED
    BY <1>3, <2>2, <2>3 DEF ClearDir
<1>4. CASE PlaceDir(a)
  <2>1. CASE files' = op[a].of /\ torn' = (torn \/ row # op[a].of)
    BY <1>4, <2>1 DEF PlaceDir, FilesMatchRow
  <2>2. CASE Goto(a, "unclaim") /\ UNCHANGED <<files, torn>>
    <3>1. op'[a].pc \in Placing /\ op'[a].of = op[a].of /\ \A x \in Admins \ {a} : op'[x] = op[x]
      BY <1>1, <2>2, GotoMoves DEF OpPcs, Placing
    <3>2. QED
      BY <1>4, <2>2, <3>1, FilesQuiet DEF PlaceDir
  <2>3. QED
    BY <1>4, <2>1, <2>2 DEF PlaceDir
<1>5. CASE Unclaim(a) \/ DeleteRow(a)
  <2>1. row' = 0 \/ torn' = TRUE \/ (DeleteRow(a) /\ Done(a) /\ UNCHANGED <<row, files, torn>>)
    BY <1>5 DEF Unclaim, DeleteRow
  <2>2. CASE DeleteRow(a) /\ Done(a) /\ UNCHANGED <<row, files, torn>>
    <3>1. op[a].pc \notin Placing /\ \A x \in Admins \ {a} : op'[x] = op[x]
      BY <1>1, <2>2, DoneMoves DEF DeleteRow, At, Placing
    <3>2. QED
      BY <2>2, <3>1, FilesQuiet
  <2>3. QED
    BY <2>1, <2>2 DEF FilesMatchRow
<1>6. CASE RemoveDir(a)
  <2>1. row' = row /\ op[a].pc \notin Placing /\ \A x \in Admins \ {a} : op'[x] = op[x]
    BY <1>1, <1>6, GotoMoves, DoneMoves DEF RemoveDir, At, Placing, OpPcs
  <2>2. CASE UNCHANGED <<files, torn>>
    BY <2>1, <2>2, FilesQuiet
  <2>3. CASE torn' = (torn \/ row # 0)
    BY <2>1, <2>3 DEF FilesMatchRow
  <2>4. QED
    BY <1>6, <2>2, <2>3 DEF RemoveDir
<1>7. ASSUME UNCHANGED <<row, files, torn>>, op[a].pc \notin Placing,
             Done(a) \/ \E pc \in OpPcs : Goto(a, pc)
      PROVE  FilesMatchRow'
  <2>1. \A x \in Admins \ {a} : op'[x] = op[x]
    BY <1>1, <1>7, GotoMoves, DoneMoves
  <2>2. QED
    BY <1>7, <2>1, FilesQuiet
<1>8. CASE FlagOn(a) \/ FlagOff(a) \/ Unflag(a)
  BY <1>7, <1>8 DEF FlagOn, FlagOff, Unflag, SetEnabled, opVars, At, Placing, OpPcs
<1>9. CASE Provision(a) \/ Deprovision(a)
  BY <1>7, <1>9 DEF Provision, Deprovision, At, Placing, Enabling, OpPcs
<1>10. CASE FindToEnable(a) \/ RotateCredential(a) \/ Start(a)
  BY <1>7, <1>10 DEF FindToEnable, RotateCredential, Start, opVars, At, Placing, Enabling, OpPcs
<1>11. CASE StopToDisable(a) \/ FindToUninstall(a) \/ StopToUninstall(a)
  BY <1>7, <1>11 DEF StopToDisable, FindToUninstall, StopToUninstall, opVars, At, Placing, OpPcs
<1>12. QED
  BY <1>2, <1>3, <1>4, <1>5, <1>6, <1>8, <1>9, <1>10, <1>11 DEF AdminStep

LEMMA RestartFiles ==
  ASSUME FilesMatchRow, Restart PROVE FilesMatchRow'
<1>1. CASE \E a \in Admins : op[a].pc \in Placing
  BY <1>1 DEF Restart, FilesMatchRow
<1>2. CASE \A a \in Admins : op[a].pc \notin Placing
  BY <1>2 DEF Restart, FilesMatchRow
<1>3. QED
  BY <1>1, <1>2

-----------------------------------------------------------------------------
LEMMA NextIInv == IInv /\ [Next]_vars => IInv'
<1> SUFFICES ASSUME IInv, [Next]_vars PROVE IInv'
  OBVIOUS
<1>1. TypeOK /\ HostInv /\ FilesMatchRow /\ StoredTyped /\ LiveTyped /\ OpTyped /\ SpentTyped
  BY TypeParts DEF IInv
<1>2. ASSUME NEW a \in Admins, AdminStep(a) PROVE IInv'
  BY <1>1, <1>2, AdminMoves, AdminSpends, AdminStored, AdminLive, AdminFiles, TypePartsNext DEF IInv
<1>3. ASSUME LiveTyped', HostInv', UNCHANGED <<op, restarts>>, Fault \/ NoFault,
             UNCHANGED <<row, files, home, installs, torn>>, enabled' \in BOOLEAN
      PROVE  IInv'
  <2>1. StoredTyped' /\ OpTyped' /\ SpentTyped'
    BY <1>1, <1>3, FaultTyped DEF StoredTyped, OpTyped
  <2>2. FilesMatchRow'
    BY <1>1, <1>3, FilesQuiet
  <2>3. QED
    BY <1>3, <2>1, <2>2, TypePartsNext DEF IInv
<1>4. CASE Watchdog
  <2>1. /\ UNCHANGED <<op, restarts>> /\ (Fault \/ NoFault)
        /\ UNCHANGED <<row, files, home, installs, torn>> /\ enabled' \in BOOLEAN
    BY <1>1, <1>4 DEF Watchdog, Ping, Answered, PingTimeout, WatchdogFlagsOff, SetEnabled, NoFault,
       opVars, StoredTyped
  <2>2. QED
    BY <1>1, <1>3, <1>4, <2>1, WatchdogLive
<1>5. ASSUME NEW g \in Workers, WorkerStep(g) PROVE IInv'
  <2>1. UNCHANGED <<op, faults, restarts>> /\ UNCHANGED opVars
    BY <1>5 DEF WorkerStep, Subscribe, Hang, Crash, Exit, Leave
  <2>2. QED
    BY <1>1, <1>3, <1>5, <2>1, WorkerLive DEF opVars, NoFault, StoredTyped
<1>6. CASE Restart
  BY <1>1, <1>6, RestartOK, RestartFiles DEF IInv
<1>7. CASE UNCHANGED vars
  <2>1. UNCHANGED <<op, faults, restarts>> /\ UNCHANGED opVars /\ UNCHANGED liveVars
    BY <1>7 DEF vars, opVars, liveVars
  <2>2. QED
    BY <1>1, <1>3, <2>1, LiveQuiet DEF opVars, NoFault, StoredTyped
<1>8. QED
  BY <1>2, <1>4, <1>5, <1>6, <1>7 DEF Next

(* The inductive invariant: what runs between two awaits leaves the map, the  *)
(* bus, the watchdog and the processes consistent, whatever the interleaving. *)
THEOREM TurnsAreAtomic == Spec => []IInv
<1>1. QED
  BY InitIInv, NextIInv, PTL DEF Spec

(* Every variable keeps its type. *)
THEOREM RuntimeTyped == Spec => []TypeOK
<1>1. IInv => TypeOK
  BY DEF IInv
<1>2. QED
  BY <1>1, TurnsAreAtomic, PTL

(* No stray worker, no dead worker in the map, no events to another one; and  *)
(* the watchdog's disable() by name stops the worker that did not answer,     *)
(* never its successor.                                                       *)
THEOREM NoStrayWorker == Spec => []WorkersAgree
<1>1. IInv => WorkersAgree
  BY DEF IInv, HostInv, WorkersAgree, PingedIsHost
<1>2. QED
  BY <1>1, TurnsAreAtomic, PTL

(* What is registered is on disk, but for overlaps and a failed roll-back. *)
THEOREM RegistryMatchesDisk == Spec => []FilesMatchRow
<1>1. IInv => FilesMatchRow
  BY DEF IInv
<1>2. QED
  BY <1>1, TurnsAreAtomic, PTL

(* Only an enable that finds the worker running closes a running worker's client. *)
THEOREM WorkerKeepsItsClient == Spec => ClientKept
<1>1. IInv /\ [Next]_vars => [host # 0 /\ host' = host /\ pool /\ ~pool'
                               => \E a \in Admins : At(a, "start") /\ op'[a].pc = "idle"]_vars
  <2> SUFFICES ASSUME IInv, Next, host # 0, host' = host, pool, ~pool'
               PROVE  \E a \in Admins : At(a, "start") /\ op'[a].pc = "idle"
    BY DEF vars
  <2>1. OpTyped
    BY TypeParts DEF IInv
  <2>2. ASSUME NEW a \in Admins, AdminStep(a) PROVE At(a, "start") /\ op'[a].pc = "idle"
    <3>1. UNCHANGED liveVars \/ StopWorker \/ Start(a)
      BY <2>2 DEF AdminStep, Insert, ClearDir, PlaceDir, Unclaim, FindToEnable, Provision,
         RotateCredential, FlagOn, StopToDisable, FlagOff, FindToUninstall, StopToUninstall, Unflag,
         DeleteRow, RemoveDir, Deprovision
    <3>2. Start(a)
      BY <3>1 DEF liveVars, StopWorker, Teardown
    <3>3. Done(a)
      BY <3>2 DEF Start
    <3>4. QED
      BY <2>1, <3>2, <3>3, DoneMoves DEF Start, Idle
  <2>3. ~Watchdog
    BY DEF Watchdog, Ping, Answered, PingTimeout, WatchdogFlagsOff
  <2>4. ASSUME NEW g \in Workers, WorkerStep(g) PROVE FALSE
    BY <2>4 DEF WorkerStep, Subscribe, Hang, Crash, Exit, Leave, Teardown
  <2>5. ~Restart
    BY DEF Restart
  <2>6. QED
    BY <2>2, <2>3, <2>4, <2>5 DEF Next
<1>2. QED
  BY <1>1, TurnsAreAtomic, PTL DEF Spec, ClientKept

=============================================================================

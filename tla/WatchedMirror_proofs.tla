----------------------- MODULE WatchedMirror_proofs -----------------------
(***************************************************************************)
(* The mirror with its watchers is a mirror, and no watcher outlives the   *)
(* child it was started for.                                               *)
(***************************************************************************)
EXTENDS WatchedMirror, ChildMirror_proofs

LEMMA WatchedStep == WatchTypeOK /\ [WNext]_wvars => [Next]_vars
<1> SUFFICES ASSUME WatchTypeOK, [WNext]_wvars PROVE [Next]_vars
  OBVIOUS
<1>1. ASSUME NEW o \in Obj,
             UserCreate(o) \/ UserDelete(o) \/ Operator(o) \/ Resync(o)
      PROVE  Next
  BY <1>1 DEF Operator, Resync, ApplyAndWatch, DeleteAndStop, Next, CallHost
<1>2. ASSUME NEW h \in Name, HostOperator(h) PROVE Next
  BY <1>2 DEF HostOperator, Next, HostStep
<1>3. ASSUME NEW n \in Key, WatcherListed(n) PROVE UNCHANGED vars
  BY <1>3 DEF WatcherListed, vars
<1>4. ASSUME NEW n \in Key, Deliver(n) PROVE Next
  <2>1. PICK o \in watch[n].for : Enqueue(o)
    BY <1>4 DEF Deliver
  <2>2. o \in Obj
    BY DEF WatchTypeOK, Watcher
  <2> QED
    BY <2>1, <2>2 DEF Next
<1>5. CASE RestartWatchers \/ StopWatchers \/ UNCHANGED wvars
  BY <1>5 DEF RestartWatchers, StopWatchers, wvars, vars
<1>6. CASE CrashWatchers
  BY <1>6 DEF CrashWatchers, Next
<1>7. ASSUME NEW s \in {"AVAILABLE", "LOCKED", "OTHER"}, FederationStatus(s)
      PROVE  Next
  BY <1>7 DEF Next
<1>8. CASE FederationRemoved
  BY <1>8 DEF Next
<1> QED
  BY <1>1, <1>2, <1>3, <1>4, <1>5, <1>6, <1>7, <1>8 DEF WNext

\* A watcher that delivers events, or will.
Active(n) == watch[n].st \in {"starting", "live"}

\* An active watcher was active before, or the copy of a child of its name
\* was just applied.
Starting(n) ==
  \E o \in Obj : ApplyCopy(o) /\ LocalName[o] = n /\ watch'[n].for = {o}

LEMMA WatcherSteps ==
  ASSUME WatchTypeOK, [WNext]_wvars
  PROVE  /\ watch' \in [Key -> Watcher] /\ mark' \in {"not-stopped", "stopped"}
         /\ \A n \in Key : Active(n)' =>
              (Active(n) /\ watch'[n].for = watch[n].for) \/ Starting(n)
<1> DEFINE Goal == /\ watch' \in [Key -> Watcher]
                   /\ mark' \in {"not-stopped", "stopped"}
                   /\ \A n \in Key : Active(n)' =>
                        (Active(n) /\ watch'[n].for = watch[n].for) \/ Starting(n)
<1>1. /\ watch \in [Key -> Watcher] /\ mark \in {"not-stopped", "stopped"}
      /\ NoWatcher \in Watcher /\ DeadWatcher \in Watcher
      /\ NoWatcher.st = "none" /\ DeadWatcher.st = "dead"
  BY DEF WatchTypeOK, Watcher, NoWatcher, DeadWatcher
<1>2. CASE UNCHANGED <<watch, mark>>
  BY <1>1, <1>2 DEF Active
<1>3. ASSUME NEW w \in [Key -> Watcher], watch' = w, UNCHANGED mark,
             \A n \in Key : w[n].st \in {"starting", "live"} =>
               (Active(n) /\ w[n].for = watch[n].for) \/ Starting(n)
      PROVE  Goal
  BY <1>1, <1>3 DEF Active
<1>4. ASSUME NEW o \in Obj, Operator(o) PROVE Goal
  <2>1. CASE Quiet
    BY <1>2, <2>1 DEF Quiet
  <2>2. CASE ApplyAndWatch(o)
    <3>1. LocalName[o] \in Key
      BY NamesAssumption
    <3> DEFINE new == [st |-> "starting", for |-> {o}, event |-> FALSE]
    <3>2. new \in Watcher /\ new.for = {o}
      BY DEF Watcher
    <3>3. CASE watch' = watch
      BY <1>2, <2>2, <3>3 DEF ApplyAndWatch
    <3>4. CASE watch' = [watch EXCEPT ![LocalName[o]] = new]
      <4>1. ApplyCopy(o) /\ UNCHANGED mark
        BY <2>2 DEF ApplyAndWatch
      <4> HIDE DEF new
      <4> QED
        BY <1>1, <3>1, <3>2, <3>4, <4>1 DEF Active, Starting
    <3> QED
      BY <2>2, <3>3, <3>4 DEF ApplyAndWatch, Started
  <2>3. CASE DeleteAndStop(o)
    BY <1>1, <2>3 DEF DeleteAndStop, Active
  <2> QED
    BY <1>4, <2>1, <2>2, <2>3 DEF Operator
<1>5. ASSUME NEW h \in Name, HostOperator(h) PROVE Goal
  <2>1. CASE Quiet
    BY <1>2, <2>1 DEF Quiet
  <2>2. CASE Notify(h)
    <3>1. \A n \in Key : /\ [watch[n] EXCEPT !.event = TRUE] \in Watcher
                         /\ [watch[n] EXCEPT !.event = TRUE].st = watch[n].st
                         /\ [watch[n] EXCEPT !.event = TRUE].for = watch[n].for
      BY <1>1 DEF Watcher
    <3> QED
      BY <1>1, <2>2, <3>1 DEF Notify, Active
  <2> QED
    BY <1>5, <2>1, <2>2 DEF HostOperator
<1>6. ASSUME NEW n \in Key, WatcherListed(n) \/ Deliver(n) PROVE Goal
  <2>1. /\ [watch[n] EXCEPT !.st = "live"] \in Watcher
        /\ [watch[n] EXCEPT !.st = "live"].for = watch[n].for
        /\ [watch[n] EXCEPT !.event = FALSE] \in Watcher
        /\ [watch[n] EXCEPT !.event = FALSE].st = watch[n].st
        /\ [watch[n] EXCEPT !.event = FALSE].for = watch[n].for
    BY <1>1 DEF Watcher
  <2> QED
    BY <1>1, <1>6, <2>1 DEF WatcherListed, Deliver, Active
<1>7. CASE RestartWatchers \/ StopWatchers \/ CrashWatchers
  BY <1>1, <1>7 DEF RestartWatchers, StopWatchers, CrashWatchers, Active
<1>8. CASE UNCHANGED wvars
  BY <1>2, <1>8 DEF wvars
<1> QED
  BY <1>2, <1>4, <1>5, <1>6, <1>7, <1>8 DEF WNext, Resync, Quiet

\* A keeper ceases to be one only when its reconcile has deleted the copy.
GivesUp(o) == run[o].pc = "delete" /\ run'[o].pc = "patch" /\ ~run'[o].fin

\* A call changes the run of one child, which keeps what it saw; unless it
\* deletes the copy, the run keeps the finalizer too.
LEMMA CallStep ==
  ASSUME TypeOK, NEW o \in Obj, CallHost(o) \/ RemoteFails(o)
  PROVE  /\ UNCHANGED <<guest, cache>> /\ run[o].pc \in Remote
         /\ \A p \in Obj : p # o => run'[p] = run[p]
         /\ run'[o].seen = run[o].seen
         /\ run'[o].fin = run[o].fin
              \/ (DeleteCopy(o) /\ ~RemoteFails(o) /\ GivesUp(o))
<1>1. run \in [Obj -> Run] /\ run[o] \in Run
  BY DEF TypeOK
<1>2. ASSUME NEW r, Step(o, r), r.seen = run[o].seen, r.fin = run[o].fin
      PROVE  /\ \A p \in Obj : p # o => run'[p] = run[p]
             /\ run'[o].seen = run[o].seen /\ run'[o].fin = run[o].fin
  BY <1>1, <1>2 DEF Step
<1>3. UNCHANGED <<guest, cache>> /\ run[o].pc \in Remote
  BY DEF CallHost, RemoteFails, LookupCopy, ApplyCopy, CopyStatus, CopyNotFound,
     DeleteCopy, Remote
<1>4. CASE LookupCopy(o)
  BY <1>1, <1>2, <1>3, <1>4 DEF LookupCopy, Run
<1>5. CASE ApplyCopy(o)
  BY <1>1, <1>2, <1>3, <1>5 DEF ApplyCopy, Run
<1>6. CASE CopyStatus(o)
  BY <1>1, <1>2, <1>3, <1>6 DEF CopyStatus, Run
<1>7. CASE CopyNotFound(o)
  BY <1>1, <1>2, <1>3, <1>7 DEF CopyNotFound, Run
<1>8. CASE RemoteFails(o)
  <2>1. PICK s : Step(o, [run[o] EXCEPT !.pc = "patch", !.again = TRUE, !.state = s])
    BY <1>8 DEF RemoteFails
  <2> QED
    BY <1>1, <1>2, <1>3, <2>1 DEF Run
<1>9. CASE DeleteCopy(o) /\ ~RemoteFails(o)
  <2>1. run'[o] = [run[o] EXCEPT !.pc = "patch", !.fin = FALSE]
        /\ \A p \in Obj : p # o => run'[p] = run[p]
    BY <1>1, <1>9 DEF DeleteCopy, Step
  <2> QED
    BY <1>1, <1>3, <1>9, <2>1 DEF DeleteCopy, GivesUp, Run
<1> QED
  BY <1>4, <1>5, <1>6, <1>7, <1>8, <1>9 DEF CallHost

LEMMA KeeperStep ==
  ASSUME MirrorInv, [Next]_vars, NEW o \in Obj, Keeper(o), ~GivesUp(o)
  PROVE  Keeper(o)'
<1>1. TypeOK /\ ChildInv(o) /\ run[o] \in Run /\ guest[o] \in CR /\ cache[o] \in CR
  BY DEF MirrorInv, TypeOK
<1>2. CASE guest'[o] = guest[o] /\ cache'[o] = cache[o] /\ run'[o] = run[o]
  BY <1>2 DEF Keeper, Held, CacheHeld, Releasing
<1>3. CASE UserCreate(o) \/ UserDelete(o)
  BY <1>1, <1>3, DeletedCR DEF UserCreate, UserDelete, TypeOK, Keeper, Held,
     CacheHeld, Releasing, Live
<1>4. CASE CacheSync(o)
  BY <1>1, <1>4 DEF CacheSync, TypeOK, Keeper, Held, CacheHeld, Releasing
<1>5. CASE ReconcileAny(o)
  <2>1. UNCHANGED <<guest, cache>>
    BY <1>1, <1>5, Planned
  <2>2. ASSUME NEW r \in Run, Plan(o, r), run' = [run EXCEPT ![o] = r]
        PROVE  Keeper(o)'
    <3>1. run'[o] = r
      BY <1>1, <2>2 DEF TypeOK
    <3> QED
      BY <2>1, <2>2, <3>1 DEF Plan, Keeper, Held, CacheHeld, Releasing
  <2> QED
    BY <1>1, <1>2, <1>5, <2>1, <2>2, Planned
<1>6. CASE CallHost(o) \/ RemoteFails(o)
  <2>1. /\ UNCHANGED <<guest, cache>> /\ run[o].pc \in Remote
        /\ run'[o].seen = run[o].seen /\ run'[o].fin = run[o].fin
    BY <1>1, <1>6, CallStep
  <2>2. run[o].fin
    BY <1>1, <2>1 DEF ChildInv, Phases, SeenLive, Remote
  <2> QED
    BY <2>1, <2>2 DEF Keeper, Held, CacheHeld, Releasing
<1>7. CASE Patch(o) \/ PatchFails(o)
  <2>1. /\ cache' = cache /\ run[o].pc = "patch" /\ run'[o] = Idle
        /\ guest'[o] = guest[o] \/ guest'[o] = Patched(o)
    BY <1>1, <1>7 DEF Patch, PatchFails, TypeOK
  <2>2. Idle.pc = "idle"
    BY DEF Idle
  <2>3. Held(o)'
    BY <1>1, <2>1, PatchedFields DEF Keeper, Held, Releasing
  <2> QED
    BY <2>1, <2>2, <2>3 DEF Keeper, CacheHeld, Releasing
<1>8. CASE Crash
  <2>1. Idle.pc = "idle"
    BY DEF Idle
  <2> QED
    BY <1>8, <2>1 DEF Crash, Keeper, Held, CacheHeld, Releasing
<1>9. ASSUME NEW p \in Obj, p # o,
             \/ UserCreate(p) \/ UserDelete(p) \/ CacheSync(p) \/ Enqueue(p)
             \/ ReconcileAny(p) \/ CallHost(p) \/ RemoteFails(p)
             \/ Patch(p) \/ PatchFails(p)
      PROVE  Keeper(o)'
  <2>1. guest'[o] = guest[o] /\ cache'[o] = cache[o] /\ run'[o] = run[o]
    BY <1>1, <1>9, Planned, CallStep DEF UserCreate, UserDelete, CacheSync,
       Enqueue, Patch, PatchFails, TypeOK
  <2> QED
    BY <1>2, <2>1
<1>10. ASSUME NEW h \in Name, HostStep(h) \/ OrchestratorDecides(h) PROVE Keeper(o)'
  BY <1>1, <1>2, <1>10, HostChanges DEF HostChange
<1>11. ASSUME NEW s \in {"AVAILABLE", "LOCKED", "OTHER"}, FederationStatus(s)
       PROVE  Keeper(o)'
  BY <1>2, <1>11 DEF FederationStatus
<1>12. CASE Enqueue(o) \/ FederationRemoved \/ UNCHANGED vars
  BY <1>2, <1>12 DEF Enqueue, FederationRemoved, vars
<1> QED
  BY <1>3, <1>4, <1>5, <1>6, <1>7, <1>8, <1>9, <1>10, <1>11, <1>12 DEF Next

\* Deleting the copy stops the watcher that has the child's name.
LEMMA GivingUpStops ==
  ASSUME MirrorInv, WatchTypeOK, [WNext]_wvars, NEW o \in Obj, GivesUp(o)
  PROVE  watch'[LocalName[o]].st = "none"
<1>1. TypeOK /\ ChildInv(o) /\ run[o] \in Run /\ LocalName[o] \in Key
  BY NamesAssumption DEF MirrorInv, TypeOK
<1>2. run[o].fin /\ run' # run /\ run'[o].pc # "idle"
  BY <1>1 DEF GivesUp, ChildInv, Phases
<1>3. Idle.pc = "idle" /\ NoWatcher.st = "none"
  BY DEF Idle, NoWatcher
<1>4. CASE DeleteAndStop(o)
  BY <1>1, <1>3, <1>4 DEF DeleteAndStop, WatchTypeOK
<1>5. ASSUME NEW p \in Obj, Operator(p) PROVE DeleteAndStop(o)
  <2>1. CASE ReconcileAny(p)
    <3>1. run[p].pc = "idle" /\ \A q \in Obj : q # p => run'[q] = run[q]
      BY <1>1, <2>1, Planned DEF ReconcileAny, ReconcileImage, ReconcileArtefact,
         ReconcileApplicationOnboarding, ReconcileApplicationDeployment,
         ReconcileAvailabilityZone, ReconcileConsumptionMonitoring, Reconcile,
         Begin, Ignore, NoFederation, StartDelete, AddFinalizer,
         AwaitPrerequisites, StartCreate, StartUpdateStatus, TypeOK
    <3> QED
      BY <3>1 DEF GivesUp
  <2>2. CASE LookupCopy(p) \/ ApplyCopy(p) \/ CopyStatus(p) \/ CopyNotFound(p)
             \/ RemoteFails(p)
    <3>1. CallHost(p) \/ RemoteFails(p)
      BY <2>2 DEF CallHost
    <3>2. ~DeleteCopy(p) \/ RemoteFails(p)
      BY <2>2 DEF LookupCopy, ApplyCopy, CopyStatus, CopyNotFound, DeleteCopy
    <3>3. \A q \in Obj : run'[q].fin = run[q].fin
      BY <1>1, <3>1, <3>2, CallStep
    <3> QED
      BY <1>2, <3>3 DEF GivesUp
  <2>3. CASE Patch(p) \/ PatchFails(p)
    BY <1>1, <1>2, <1>3, <2>3 DEF Patch, PatchFails, TypeOK, GivesUp
  <2>4. CASE CacheSync(p)
    BY <1>2, <2>4 DEF CacheSync
  <2>5. CASE DeleteAndStop(p)
    BY <1>1, <2>5 DEF DeleteAndStop, DeleteCopy, Step, TypeOK, GivesUp
  <2> QED
    BY <1>5, <2>1, <2>2, <2>3, <2>4, <2>5 DEF Operator, ApplyAndWatch
<1>6. ASSUME NEW p \in Obj, UserCreate(p) \/ UserDelete(p) \/ Resync(p) PROVE FALSE
  BY <1>2, <1>6 DEF UserCreate, UserDelete, Resync, Enqueue
<1>7. ASSUME NEW h \in Name, HostOperator(h) PROVE FALSE
  BY <1>2, <1>7 DEF HostOperator, HostAddFinalizer, HostSetPending,
     HostRemoveFinalizer, OrchestratorDecides, SetHostState
<1>8. ASSUME NEW n \in Key, WatcherListed(n) \/ Deliver(n) PROVE FALSE
  BY <1>2, <1>8 DEF WatcherListed, Deliver, Enqueue
<1>9. ~CrashWatchers
  BY <1>1, <1>2, <1>3 DEF CrashWatchers, Crash
<1> QED
  BY <1>2, <1>4, <1>5, <1>6, <1>7, <1>8, <1>9 DEF WNext, FederationStatus,
     FederationRemoved, RestartWatchers, StopWatchers, wvars

\* The keeper behind every active watcher.
Kept ==
  \A n \in Key : Active(n) =>
    \E o \in watch[n].for : o \in Obj /\ LocalName[o] = n /\ Keeper(o)

WatchInv == WatchTypeOK /\ MirrorInv /\ Kept

LEMMA WatchNext == WatchInv /\ [WNext]_wvars => WatchInv'
<1> SUFFICES ASSUME WatchInv, [WNext]_wvars PROVE WatchInv'
  OBVIOUS
<1>1. WatchTypeOK /\ MirrorInv /\ [Next]_vars
  BY WatchedStep DEF WatchInv
<1>2. MirrorInv'
  BY <1>1, MirrorNext
<1>3. WatchTypeOK'
  BY <1>1, <1>2, WatcherSteps DEF WatchTypeOK, MirrorInv
<1>4. ASSUME NEW n \in Key, Active(n)'
      PROVE  \E o \in watch'[n].for : o \in Obj /\ LocalName[o] = n /\ Keeper(o)'
  <2>1. CASE Active(n) /\ watch'[n].for = watch[n].for
    <3>1. PICK o \in watch[n].for : o \in Obj /\ LocalName[o] = n /\ Keeper(o)
      BY <2>1 DEF WatchInv, Kept
    <3>2. ~GivesUp(o)
      BY <1>1, <1>4, <3>1, GivingUpStops DEF Active
    <3> QED
      BY <1>1, <2>1, <3>1, <3>2, KeeperStep
  <2>2. CASE Starting(n)
    <3>1. PICK o \in Obj : ApplyCopy(o) /\ LocalName[o] = n /\ watch'[n].for = {o}
      BY <2>2 DEF Starting
    <3>2. Keeper(o) /\ ~GivesUp(o)
      BY <1>1, <3>1 DEF ApplyCopy, MirrorInv, ChildInv, Phases, SeenLive, Keeper,
         Releasing, GivesUp
    <3> QED
      BY <1>1, <3>1, <3>2, KeeperStep
  <2> QED
    BY <1>1, <1>4, <2>1, <2>2, WatcherSteps
<1> QED
  BY <1>2, <1>3, <1>4 DEF WatchInv, Kept

LEMMA WatchStart == WInit => WatchInv
<1>1. NoWatcher \in Watcher /\ NoWatcher.st = "none"
  BY DEF Watcher, NoWatcher
<1> QED
  BY <1>1, MirrorInit, TypeInit DEF WInit, WatchInv, WatchTypeOK, Kept, Active

\* The mirror with its watchers is one of ChildMirror's: a watcher's event is
\* an Enqueue, and every other step is one of ChildMirror's or changes only
\* the watchers.
THEOREM WatchedImplements == WSpec => Spec
  BY WatchStart, WatchNext, WatchedStep, PTL DEF WSpec, WInit, WatchInv, Spec

\* An active watcher belongs to a child of its name that is still held, even
\* when children of several kinds share the name.
THEOREM WatchersOwned == WSpec => []WatcherOwned
<1>1. WatchInv => WatcherOwned
  BY DEF WatchInv, Kept, WatcherOwned, Active, Keeper
<1> QED
  BY <1>1, WatchStart, WatchNext, PTL DEF WSpec

\* The watchers are of the declared types.
THEOREM WatchTyped == WSpec => []WatchTypeOK
<1>1. WatchInv => WatchTypeOK
  BY DEF WatchInv
<1> QED
  BY <1>1, WatchStart, WatchNext, PTL DEF WSpec

\* What makes a live watcher other than live: its copy is deleted, the
\* federation is LOCKED, or the operator restarts.
LEMMA LiveEnds ==
  ASSUME WatchInv, [WNext]_wvars, NEW n \in Key,
         watch[n].st = "live", watch'[n].st # "live"
  PROVE  \/ \E o \in Obj : LocalName[o] = n /\ DeleteCopy(o)
         \/ fed = "LOCKED" \/ CrashWatchers
<1>1. watch \in [Key -> Watcher] /\ watch[n].st # "none"
  BY DEF WatchInv, WatchTypeOK
<1>2. ASSUME NEW o \in Obj, Operator(o)
      PROVE  LocalName[o] = n /\ DeleteCopy(o)
  <2>1. CASE Quiet
    BY <2>1 DEF Quiet
  <2>2. CASE ApplyAndWatch(o)
    BY <1>1, <2>2, NamesAssumption DEF ApplyAndWatch, Started
  <2>3. CASE DeleteAndStop(o)
    BY <1>1, <2>3, NamesAssumption DEF DeleteAndStop
  <2> QED
    BY <1>2, <2>1, <2>2, <2>3 DEF Operator
<1>3. ASSUME NEW h \in Name, HostOperator(h) PROVE FALSE
  BY <1>1, <1>3 DEF HostOperator, Quiet, Notify, Watcher
<1>4. ASSUME NEW m \in Key, WatcherListed(m) \/ Deliver(m) PROVE FALSE
  BY <1>1, <1>4 DEF WatcherListed, Deliver, Watcher
<1>5. ~RestartWatchers
  BY <1>1 DEF RestartWatchers
<1>6. CASE StopWatchers
  BY <1>6 DEF StopWatchers
<1> QED
  BY <1>2, <1>3, <1>4, <1>5, <1>6 DEF WNext, Resync, Quiet, wvars

\* Where no name is shared, only the child's own deletion, a LOCKED federation
\* or a restart stops its live watcher, and the deletion does so only when it
\* takes the copy away with it.
THEOREM WatchersLast == WSpec => WatcherLasts
<1> DEFINE Stops(o) == \/ guest[o].deleting /\ ~Live(host'[HostName[o]])
                       \/ fed = "LOCKED" \/ CrashWatchers
<1>1. ASSUME WatchInv, [WNext]_wvars, OwnNames, NEW o \in Obj,
             watch[LocalName[o]].st = "live", watch'[LocalName[o]].st # "live"
      PROVE  Stops(o)
  <2>1. LocalName[o] \in Key /\ HostName[o] \in Name /\ TypeOK /\ ChildInv(o)
    BY <1>1, NamesAssumption, ConstantsAssumption DEF WatchInv, MirrorInv
  <2>2. CASE DeleteCopy(o)
    <3>1. Held(o)
      BY <1>1, <2>1 DEF WatchInv, Kept, Active, Keeper, OwnNames
    <3>2. run[o].pc = "delete" /\ run[o].seen.deleting
      BY <2>1, <2>2 DEF DeleteCopy, ChildInv, Phases
    <3>3. guest[o].deleting
      BY <2>1, <3>1, <3>2 DEF ChildInv, SeenDeleting, Held, Live
    <3>4. host' = Removed(o) /\ host \in [Name -> CR]
      BY <2>1, <2>2 DEF DeleteCopy, TypeOK
    <3>5. ~Live(host'[HostName[o]])
      BY <2>1, <3>4, DeletedCR DEF Removed, Live
    <3> QED
      BY <3>3, <3>5
  <2> QED
    BY <1>1, <2>1, <2>2, LiveEnds DEF OwnNames
<1>2. WatchInv /\ [WNext]_wvars =>
        [OwnNames => \A o \in Obj :
           watch[LocalName[o]].st = "live" /\ watch'[LocalName[o]].st # "live"
             => Stops(o)]_wvars
  BY <1>1
<1> QED
  BY <1>2, WatchStart, WatchNext, PTL DEF WSpec, WatcherLasts
=============================================================================

--------------------------- MODULE WatchedMirror ---------------------------
(***************************************************************************)
(* ChildMirror together with the watchers on the host cluster that tell    *)
(* the guest operator when a copy's status changes (internal/k8s).         *)
(*                                                                         *)
(* A watcher is an informer on every CR of one kind in the host namespace, *)
(* started when a copy is created and registered, in memory only, under    *)
(* the name of the child it was started for.  It reacts to updates alone:  *)
(* what changed before its first list, and what is added or removed, is no *)
(* event.  Every event of the kind queues the child of the watcher.        *)
(*                                                                         *)
(* Two children of different kinds may have the same name, which is all    *)
(* that the registry tells them apart by.                                  *)
(***************************************************************************)
EXTENDS ChildMirror

CONSTANTS
  Key,        \* the names under which watchers are registered
  LocalName   \* LocalName[o]: the name of the child o itself

ASSUME NamesAssumption == LocalName \in [Obj -> Key]

VARIABLES
  watch,   \* watch[n]: the watcher registered under the name n
  mark     \* the FederationWatcherAnnotation of the guest's Federation CR

wvars == <<guest, cache, queue, run, host, fed, watch, mark>>

(***************************************************************************)
(* A watcher: "starting" until its informer has listed the copies, then    *)
(* "live"; "dead" when the resource it names does not exist.  "for" is the *)
(* child that its events queue, "event" whether one is on its way.         *)
(***************************************************************************)
Watcher == [st : {"none", "starting", "live", "dead"}, for : SUBSET Obj,
            event : BOOLEAN]
NoWatcher == [st |-> "none", for |-> {}, event |-> FALSE]
DeadWatcher == [NoWatcher EXCEPT !.st = "dead"]

WatchTypeOK ==
  /\ TypeOK
  /\ watch \in [Key -> Watcher]
  /\ mark \in {"not-stopped", "stopped"}

WInit ==
  /\ Init
  /\ watch = [n \in Key |-> NoWatcher]
  /\ mark = "not-stopped"
----------------------------------------------------------------------------
Quiet == UNCHANGED <<watch, mark>>

\* StartRemoteResourceWatcher: a name that has a watcher keeps it.
Started(o) ==
  IF watch[LocalName[o]].st = "none"
  THEN [watch EXCEPT ![LocalName[o]] =
          [st |-> "starting", for |-> {o}, event |-> FALSE]]
  ELSE watch

\* A copy that the lookup did not find is watched once it is applied.
ApplyAndWatch(o) ==
  /\ ApplyCopy(o)
  /\ watch' = IF run[o].isNew THEN Started(o) ELSE watch
  /\ UNCHANGED mark

\* A variant that leaves the watcher running.
DeleteOnly(o) == DeleteCopy(o) /\ UNCHANGED <<watch, mark>>

\* Deleting the copy stops the watcher that has the child's name.
DeleteAndStop(o) ==
  /\ DeleteCopy(o)
  /\ watch' = [watch EXCEPT ![LocalName[o]] = NoWatcher]
  /\ UNCHANGED mark

\* The watcher's informer has listed the copies.
WatcherListed(n) ==
  /\ watch[n].st = "starting"
  /\ watch' = [watch EXCEPT ![n].st = "live"]
  /\ UNCHANGED <<guest, cache, queue, run, host, fed, mark>>

\* The status of the copy h changes: an event for every live watcher on
\* the kind of h.
Watches(n, h) ==
  /\ watch[n].st = "live"
  /\ \E o \in watch[n].for, p \in Obj : HostName[p] = h /\ Kind[p] = Kind[o]

Notify(h) ==
  /\ watch' = [n \in Key |->
       IF Watches(n, h) THEN [watch[n] EXCEPT !.event = TRUE] ELSE watch[n]]
  /\ UNCHANGED mark

\* A variant that loses the event.
Drop(n) ==
  /\ watch[n].event
  /\ watch' = [watch EXCEPT ![n].event = FALSE]
  /\ UNCHANGED <<guest, cache, queue, run, host, fed, mark>>

\* The event goes through the controller's channel into its queue.
Deliver(n) ==
  /\ watch[n].event
  /\ \E o \in watch[n].for : Enqueue(o)
  /\ watch' = [watch EXCEPT ![n].event = FALSE]
  /\ UNCHANGED mark

\* The names of the cached children.
CachedNames == {LocalName[o] : o \in {p \in Obj : cache[p].here}}

\* A variant that replaces the watchers that run.
ReplaceWatchers ==
  /\ fed = "AVAILABLE"
  /\ watch' = [n \in Key |-> IF n \in CachedNames THEN DeadWatcher ELSE watch[n]]
  /\ mark' = "stopped"
  /\ UNCHANGED <<guest, cache, queue, run, host, fed>>

\* Reconciling an AVAILABLE federation registers a watcher for every cached
\* child whose name has none.  The resource it is given is the child's kind,
\* not the plural: it never delivers an event.
RestartWatchers ==
  /\ fed = "AVAILABLE"
  /\ watch' = [n \in Key |-> IF n \in CachedNames /\ watch[n].st = "none"
                             THEN DeadWatcher ELSE watch[n]]
  /\ mark' = "stopped"
  /\ UNCHANGED <<guest, cache, queue, run, host, fed>>

\* A variant that writes an annotation nobody reads.
StopUnmarked ==
  /\ fed = "LOCKED" /\ mark = "not-stopped"
  /\ watch' = [n \in Key |-> IF n \in CachedNames THEN NoWatcher ELSE watch[n]]
  /\ mark' = ""
  /\ UNCHANGED <<guest, cache, queue, run, host, fed>>

\* Reconciling a LOCKED one stops the watchers, unless so annotated already.
StopWatchers ==
  /\ fed = "LOCKED" /\ mark = "not-stopped"
  /\ watch' = [n \in Key |-> IF n \in CachedNames THEN NoWatcher ELSE watch[n]]
  /\ mark' = "stopped"
  /\ UNCHANGED <<guest, cache, queue, run, host, fed>>

\* The registry is lost with the process.
CrashWatchers ==
  /\ Crash
  /\ watch' = [n \in Key |-> NoWatcher]
  /\ UNCHANGED mark

\* The manager's periodic resync queues every cached child.
Resync(o) == cache[o].here /\ Enqueue(o) /\ Quiet
----------------------------------------------------------------------------
\* What the operator does for the child o, apart from the resync.
Operator(o) ==
  \/ (ReconcileAny(o) \/ CacheSync(o)) /\ Quiet
  \/ (LookupCopy(o) \/ CopyStatus(o) \/ CopyNotFound(o)) /\ Quiet
  \/ (RemoteFails(o) \/ Patch(o) \/ PatchFails(o)) /\ Quiet
  \/ ApplyAndWatch(o) \/ DeleteAndStop(o)

HostOperator(h) ==
  \/ (HostAddFinalizer(h) \/ HostRemoveFinalizer(h)) /\ Quiet
  \/ (HostSetPending(h) \/ OrchestratorDecides(h)) /\ Notify(h)

WNext ==
  \/ \E o \in Obj :
       \/ (UserCreate(o) \/ UserDelete(o)) /\ Quiet
       \/ Operator(o)
       \/ Resync(o)
  \/ \E h \in Name : HostOperator(h)
  \/ \E n \in Key : WatcherListed(n) \/ Deliver(n)
  \/ (\E s \in {"AVAILABLE", "LOCKED", "OTHER"} : FederationStatus(s)) /\ Quiet
  \/ FederationRemoved /\ Quiet
  \/ RestartWatchers \/ StopWatchers
  \/ CrashWatchers

WSpec == WInit /\ [][WNext]_wvars

(***************************************************************************)
(* Fairness without the resync, so that only the watchers tell the guest   *)
(* of a change on the host; the federation's reconciler, which restarts    *)
(* and stops watchers, is fair while the federation stays in one state.    *)
(* The operator may crash any number of times, but not for ever.           *)
(***************************************************************************)
WatchFairSpec ==
  /\ WSpec
  /\ \A o \in Obj : /\ WF_wvars(CacheSync(o) /\ Quiet)
                    /\ WF_wvars(ReconcileAny(o) /\ Quiet)
                    /\ SF_wvars(LookupCopy(o) /\ Quiet)
                    /\ SF_wvars(ApplyAndWatch(o))
                    /\ SF_wvars(DeleteAndStop(o))
                    /\ SF_wvars((CopyStatus(o) \/ CopyNotFound(o)) /\ Quiet)
                    /\ SF_wvars(Patch(o) /\ Quiet)
  /\ \A n \in Key : WF_wvars(WatcherListed(n)) /\ WF_wvars(Deliver(n))
  /\ WF_wvars(StopWatchers)
  /\ <>[][~CrashWatchers]_wvars
----------------------------------------------------------------------------
\* A watcher that delivers events delivers them to a child of its name that
\* is still held: no deletion, of whichever child of that name, leaves the
\* watcher of a released child behind.
WatcherOwned ==
  \A n \in Key : watch[n].st \in {"starting", "live"} =>
    \E o \in watch[n].for : LocalName[o] = n /\ Held(o)

\* Where no name is shared and no watcher has been restarted, the watcher of
\* a child that was given a fresh copy lasts as long as the copy: only the
\* child's own deletion, a LOCKED federation or a crash stops it.
OwnNames == \A o, p \in Obj : LocalName[o] = LocalName[p] => o = p

WatcherLasts ==
  [][OwnNames => \A o \in Obj :
       watch[LocalName[o]].st = "live" /\ watch'[LocalName[o]].st # "live"
         => \/ guest[o].deleting /\ ~Live(host'[HostName[o]])
            \/ fed = "LOCKED" \/ CrashWatchers]_wvars

\* The host's answer, once a live watcher saw it, comes back to the child
\* without a resync, whatever the guest's cache showed when the event came:
\* while the child stays and its copy keeps the state s, it gets to s.
SeenAnswerComesBack ==
  \A o \in Obj : \A s \in {"PENDING", "READY", "FAILED"} :
    LET settled == /\ fed = "AVAILABLE" /\ Live(guest[o])
                   /\ host[HostName[o]].here /\ host[HostName[o]].state = s
        n == LocalName[o]
    IN  watch[n].event /\ o \in watch[n].for /\ settled
          ~> guest[o].state = s \/ ~settled
=============================================================================

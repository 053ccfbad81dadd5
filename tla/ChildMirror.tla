---------------------------- MODULE ChildMirror ----------------------------
(***************************************************************************)
(* How a guest operator mirrors its child resources on a host cluster when *)
(* the federation's technology is K8S.  A child is a custom resource (CR)  *)
(* of one of six kinds.  A user creates and deletes children in the guest  *)
(* namespace; the guest operator's reconcilers (internal/controller) keep  *)
(* one copy of each on the host cluster through the clients of             *)
(* internal/k8s, and bring the state the host gives the copy back into the *)
(* guest's child.                                                          *)
(*                                                                         *)
(* A reconcile is not atomic.  It reads the child from the informer cache, *)
(* which lags behind the API server, calls the host cluster one or two     *)
(* times, and patches the child at the end.  Between any two of these      *)
(* steps the user, the host, another reconciler or a crash may act.        *)
(*                                                                         *)
(* Two children of one kind may share the name of their host copy, which   *)
(* is computed from the identifiers in the spec.                           *)
(*                                                                         *)
(* How the guest learns that a copy has changed is left open here (the     *)
(* action Enqueue); module WatchedMirror adds the watchers that do it.     *)
(***************************************************************************)
EXTENDS FiniteSets

CONSTANTS
  Obj,        \* the children a user may create in the guest namespace
  Name,       \* names of the copies on the host cluster
  Kind,       \* Kind[o]: the kind of child o
  Refs,       \* Refs[o]: the children that o's spec refers to
  HostName,   \* HostName[o]: the name of o's copy on the host cluster
  Answers,    \* the states that the orchestrator may give to a copy
  Faults,     \* which of the environment's disturbances may happen
  Failing,    \* the children whose calls to the host may fail
  AtOnce      \* bound: the sets of children that may be present together

Kinds == {"Image", "Artefact", "ApplicationOnboarding",
          "ApplicationDeployment", "AvailabilityZone", "ConsumptionMonitoring"}

\* The kinds that the spec of a CR of kind k names by identifier, and that
\* its reconcile looks up before it creates the copy.
RefKinds(k) ==
  CASE k = "Artefact" -> {"Image"}
    [] k = "ApplicationOnboarding" -> {"Artefact"}
    [] k = "ApplicationDeployment" -> {"AvailabilityZone", "ApplicationOnboarding"}
    [] OTHER -> {}

ASSUME ConstantsAssumption ==
  /\ Kind \in [Obj -> Kinds]
  /\ Refs \in [Obj -> SUBSET Obj]
  /\ \A o \in Obj : \A p \in Refs[o] : Kind[p] \in RefKinds(Kind[o])
  /\ HostName \in [Obj -> Name]
  /\ \A o, p \in Obj : HostName[o] = HostName[p] => Kind[o] = Kind[p]
  /\ Answers \subseteq {"READY", "FAILED"}
  /\ Faults \subseteq {"crash", "patch", "federation", "recreate"}
  /\ Failing \subseteq Obj
  /\ AtOnce \subseteq SUBSET Obj

VARIABLES
  guest,   \* guest[o]: the child o in the guest's API server
  cache,   \* cache[o]: the child o as the operator's informer last saw it
  queue,   \* the children waiting to be reconciled
  run,     \* run[o]: the reconcile of o in progress
  host,    \* host[h]: the CR named h on the host cluster
  fed      \* the state of the guest's Federation CR

vars == <<guest, cache, queue, run, host, fed>>

(***************************************************************************)
(* The states of a child, by role: READY stands for READY, ONBOARDED and   *)
(* AVAILABLE, PENDING for PENDING and (of a zone) NOT_AVAILABLE, FAILED    *)
(* for FAILED and ERROR; "" is the state of a CR whose status is empty.    *)
(***************************************************************************)
State == {"", "PENDING", "READY", "FAILED"}

\* A CR.  The API server keeps one that is being deleted while it holds a
\* finalizer, and no longer.
CR == {cr \in [here : BOOLEAN, deleting : BOOLEAN, fin : BOOLEAN, state : State] :
         /\ cr.deleting => cr.fin
         /\ cr.fin \/ cr.state # "" => cr.here}
NoCR == [here |-> FALSE, deleting |-> FALSE, fin |-> FALSE, state |-> ""]
NewCR == [here |-> TRUE, deleting |-> FALSE, fin |-> FALSE, state |-> ""]

\* A CR that exists and that nobody has asked to delete.
Live(cr) == cr.here /\ ~cr.deleting

(***************************************************************************)
(* A reconcile in progress: its next step, the child as it read it, and    *)
(* what it has changed in its own copy of it (state, finalizer), whether   *)
(* the host lacked the copy at the lookup, and whether it will ask to be   *)
(* queued again.                                                           *)
(***************************************************************************)
Remote == {"lookup", "apply", "get", "delete"}
Run == [pc : {"idle", "patch"} \cup Remote, seen : CR, state : State,
        fin : BOOLEAN, isNew : BOOLEAN, again : BOOLEAN]
Idle == [pc |-> "idle", seen |-> NoCR, state |-> "", fin |-> FALSE,
         isNew |-> FALSE, again |-> FALSE]

FedState == {"AVAILABLE", "LOCKED", "OTHER", "MISSING"}

TypeOK ==
  /\ guest \in [Obj -> CR]
  /\ cache \in [Obj -> CR]
  /\ queue \subseteq Obj
  /\ run \in [Obj -> Run]
  /\ host \in [Name -> CR]
  /\ fed \in FedState

Init ==
  /\ guest = [o \in Obj |-> NoCR]
  /\ cache = [o \in Obj |-> NoCR]
  /\ queue = {}
  /\ run = [o \in Obj |-> Idle]
  /\ host = [h \in Name |-> NoCR]
  /\ fed = "OTHER"
----------------------------------------------------------------------------
(***************************************************************************)
(* The guest's API server and the operator's informers.                    *)
(***************************************************************************)

\* Bound: a child is created or queued only while the children that are
\* present, on the guest, on the host or in the operator, are in its company.
Present(o) ==
  \/ guest[o].here \/ cache[o].here \/ host[HostName[o]].here
  \/ o \in queue \/ run[o].pc # "idle"

InCompany(o) == \E S \in AtOnce : o \in S /\ \A c \in Obj \ S : ~Present(c)

\* A hasty user re-creates a child whose old copy is still on the host.
UserCreate(o) ==
  /\ ~guest[o].here /\ InCompany(o)
  /\ host[HostName[o]].deleting => "recreate" \in Faults
  /\ guest' = [guest EXCEPT ![o] = NewCR]
  /\ UNCHANGED <<cache, queue, run, host, fed>>

\* Deleting a CR that holds a finalizer only marks it.
Deleted(cr) == IF cr.fin THEN [cr EXCEPT !.deleting = TRUE] ELSE NoCR

UserDelete(o) ==
  /\ Live(guest[o])
  /\ guest' = [guest EXCEPT ![o] = Deleted(guest[o])]
  /\ UNCHANGED <<cache, queue, run, host, fed>>

\* The informer catches up with the API server and queues the child.
CacheSync(o) ==
  /\ cache[o] # guest[o]
  /\ cache' = [cache EXCEPT ![o] = guest[o]]
  /\ queue' = queue \cup {o}
  /\ UNCHANGED <<guest, run, host, fed>>

\* Something else than a change of the child queues it: the manager's
\* periodic resync (every 10 hours by default) or an event from the host.
Enqueue(o) ==
  /\ InCompany(o)
  /\ queue' = queue \cup {o}
  /\ UNCHANGED <<guest, cache, run, host, fed>>
----------------------------------------------------------------------------
(***************************************************************************)
(* Beginning a reconcile: what each kind's Reconcile does before its first *)
(* call to the host.                                                       *)
(***************************************************************************)

Begin(o) ==
  /\ o \in queue
  /\ run[o].pc = "idle"
  /\ queue' = queue \ {o}
  /\ UNCHANGED <<guest, cache, host, fed>>

Entered(o, pc, state, fin, again) ==
  [pc |-> pc, seen |-> cache[o], state |-> state, fin |-> fin,
   isNew |-> FALSE, again |-> again]

Enter(o, pc, state, fin, again) ==
  run' = [run EXCEPT ![o] = Entered(o, pc, state, fin, again)]

\* The child is gone, or its federation is in a state that suspends it:
\* the reconcile returns, and nothing queues the child again.
Ignore(o) ==
  /\ Begin(o)
  /\ ~cache[o].here \/ fed \in {"LOCKED", "OTHER"}
  /\ UNCHANGED run

\* No federation with the child's context id: an error, retried.
NoFederation(o) ==
  /\ Begin(o)
  /\ cache[o].here /\ fed = "MISSING"
  /\ Enter(o, "patch", "FAILED", cache[o].fin, TRUE)

\* Variants of StartDelete: one that gives the finalizer up before the copy is
\* deleted, one that does not wait for children being deleted, and one that
\* forgets to queue a blocked child again.
ReleaseFirst(o, users) ==
  /\ Begin(o)
  /\ cache[o].deleting /\ fed = "AVAILABLE"
  /\ \A u \in users : ~cache[u].here
  /\ Enter(o, "delete", cache[o].state, FALSE, FALSE)

IgnoreLeavingUsers(o, users) ==
  /\ Begin(o)
  /\ cache[o].deleting /\ fed = "AVAILABLE"
  /\ \A u \in users : ~Live(cache[u])
  /\ Enter(o, "delete", cache[o].state, cache[o].fin, FALSE)

ForgetBlocked(o, users) ==
  /\ Begin(o)
  /\ cache[o].deleting /\ fed = "AVAILABLE"
  /\ IF \E u \in users : cache[u].here THEN UNCHANGED run
     ELSE Enter(o, "delete", cache[o].state, cache[o].fin, FALSE)

\* While a cached child depends on it, a deletion stays queued (RequeueAfter).
StartDelete(o, users) ==
  /\ Begin(o)
  /\ cache[o].here /\ fed = "AVAILABLE"
  /\ cache[o].deleting
  /\ \A u \in users : ~cache[u].here
  /\ Enter(o, "delete", cache[o].state, cache[o].fin, FALSE)

\* A variant that reports READY before there is a copy.
ReadyAtOnce(o) ==
  /\ Begin(o)
  /\ Live(cache[o]) /\ fed = "AVAILABLE"
  /\ ~cache[o].fin
  /\ Enter(o, "patch", "READY", TRUE, FALSE)

AddFinalizer(o) ==
  /\ Begin(o)
  /\ Live(cache[o]) /\ fed = "AVAILABLE"
  /\ ~cache[o].fin
  /\ Enter(o, "patch", cache[o].state, TRUE, FALSE)

\* A variant that does not wait for the finalizer.
NewUnheld(o) == Live(cache[o]) /\ cache[o].state = ""

\* A child is new as long as its status carries no state.
IsNew(o) == Live(cache[o]) /\ cache[o].fin /\ cache[o].state = ""

\* PENDING is set before the prerequisites are looked at, and the final
\* patch writes it whatever the reconcile returns.  A missing image or
\* artefact makes the lookup panic, which ends in the same patch.
AwaitPrerequisites(o, needs) ==
  /\ Begin(o)
  /\ fed = "AVAILABLE" /\ IsNew(o)
  /\ \E p \in needs : ~cache[p].here \/ cache[p].state # "READY"
  /\ Enter(o, "patch", "PENDING", TRUE, TRUE)

StartCreate(o, needs) ==
  /\ Begin(o)
  /\ fed = "AVAILABLE" /\ IsNew(o)
  /\ \A p \in needs : cache[p].here /\ cache[p].state = "READY"
  /\ Enter(o, "lookup", "PENDING", TRUE, FALSE)

StartUpdateStatus(o) ==
  /\ Begin(o)
  /\ Live(cache[o]) /\ fed = "AVAILABLE"
  /\ cache[o].fin /\ cache[o].state # ""
  /\ Enter(o, "get", cache[o].state, TRUE, FALSE)

Reconcile(o, needs, users) ==
  \/ Ignore(o)
  \/ NoFederation(o)
  \/ StartDelete(o, users)
  \/ AddFinalizer(o)
  \/ AwaitPrerequisites(o, needs)
  \/ StartCreate(o, needs)
  \/ StartUpdateStatus(o)

\* The children of kind k that o refers to, and those that refer to o.
Needs(o, k) == {p \in Refs[o] : Kind[p] = k}
Users(o, k) == {u \in Obj : Kind[u] = k /\ o \in Refs[u]}

ReconcileImage(o) ==
  Kind[o] = "Image" /\ Reconcile(o, {}, Users(o, "Artefact"))

ReconcileArtefact(o) ==
  /\ Kind[o] = "Artefact"
  /\ Reconcile(o, Needs(o, "Image"), Users(o, "ApplicationOnboarding"))

ReconcileApplicationOnboarding(o) ==
  /\ Kind[o] = "ApplicationOnboarding"
  /\ Reconcile(o, Needs(o, "Artefact"), Users(o, "ApplicationDeployment"))

ReconcileApplicationDeployment(o) ==
  /\ Kind[o] = "ApplicationDeployment"
  /\ Reconcile(o, Needs(o, "AvailabilityZone") \cup
                  Needs(o, "ApplicationOnboarding"), {})

ReconcileAvailabilityZone(o) ==
  /\ Kind[o] = "AvailabilityZone"
  /\ Reconcile(o, {}, Users(o, "ApplicationDeployment"))

ReconcileConsumptionMonitoring(o) ==
  Kind[o] = "ConsumptionMonitoring" /\ Reconcile(o, {}, {})
----------------------------------------------------------------------------
(***************************************************************************)
(* Calls to the host cluster, and the patch that ends every reconcile.     *)
(***************************************************************************)

Step(o, r) == run' = [run EXCEPT ![o] = r]

\* ApplyRemoteResource looks the copy up ...
LookupCopy(o) ==
  /\ run[o].pc = "lookup"
  /\ Step(o, [run[o] EXCEPT !.pc = "apply", !.isNew = ~host[HostName[o]].here])
  /\ UNCHANGED <<guest, cache, queue, host, fed>>

\* ... then applies it.  Applying leaves the status of a copy that exists alone.
Applied(o) == [host EXCEPT ![HostName[o]] = IF @.here THEN @ ELSE NewCR]

ApplyCopy(o) ==
  /\ run[o].pc = "apply"
  /\ host' = Applied(o)
  /\ Step(o, [run[o] EXCEPT !.pc = "patch", !.isNew = FALSE])
  /\ UNCHANGED <<guest, cache, queue, fed>>

\* The copy's status replaces the child's, an empty one too (unless the
\* child is a ConsumptionMonitoring).
Copied(o) ==
  IF Kind[o] = "ConsumptionMonitoring" /\ host[HostName[o]].state = ""
  THEN run[o].state ELSE host[HostName[o]].state

CopyStatus(o) ==
  /\ run[o].pc = "get"
  /\ host[HostName[o]].here
  /\ Step(o, [run[o] EXCEPT !.pc = "patch", !.state = Copied(o)])
  /\ UNCHANGED <<guest, cache, queue, host, fed>>

\* A child whose copy is not found fails, and is retried.
CopyNotFound(o) ==
  /\ run[o].pc = "get"
  /\ ~host[HostName[o]].here
  /\ Step(o, [run[o] EXCEPT !.pc = "patch", !.state = "FAILED", !.again = TRUE])
  /\ UNCHANGED <<guest, cache, queue, host, fed>>

\* DeleteRemoteResource; that the copy is already gone is no error.
Removed(o) == [host EXCEPT ![HostName[o]] = IF @.here THEN Deleted(@) ELSE @]

DeleteCopy(o) ==
  /\ run[o].pc = "delete"
  /\ host' = Removed(o)
  /\ Step(o, [run[o] EXCEPT !.pc = "patch", !.fin = FALSE])
  /\ UNCHANGED <<guest, cache, queue, fed>>

\* A variant that does not queue the child again.
FailsForGood(o) ==
  /\ o \in Failing
  /\ run[o].pc \in Remote
  /\ Step(o, [run[o] EXCEPT !.pc = "patch", !.state = "FAILED"])
  /\ UNCHANGED <<guest, cache, queue, host, fed>>

\* A call to the host fails, before or (its answer lost) after it took
\* effect.  An error that isTransientError recognises leaves the state as the
\* reconcile has set it so far, any other makes it FAILED; the reconcile of a
\* ConsumptionMonitoring does not tell them apart.
RemoteFails(o) ==
  /\ o \in Failing
  /\ run[o].pc \in Remote
  /\ \E transient \in BOOLEAN :
       Step(o, [run[o] EXCEPT
         !.pc = "patch", !.again = TRUE,
         !.state = IF transient /\ Kind[o] # "ConsumptionMonitoring"
                   THEN @ ELSE "FAILED"])
  /\ \/ host' = host
     \/ run[o].pc = "apply" /\ host' = Applied(o)
     \/ run[o].pc = "delete" /\ host' = Removed(o)
  /\ UNCHANGED <<guest, cache, queue, fed>>

\* A variant that writes a status over a child that is gone.
PatchedBlindly(o) ==
  LET r == run[o]
  IN  [guest[o] EXCEPT !.fin = IF r.fin # r.seen.fin THEN r.fin ELSE @,
                       !.state = IF r.state = r.seen.state THEN @ ELSE r.state]

\* The deferred merge patches: only what the reconcile changed is written,
\* over whatever the child is by now, and no status is written once the
\* child was seen deleting.  A child that is gone is an error: retried.
Patched(o) ==
  LET cr == guest[o]
      r == run[o]
      fin == IF r.fin # r.seen.fin THEN r.fin ELSE cr.fin
  IN  IF ~cr.here \/ (cr.deleting /\ ~fin) THEN NoCR
      ELSE [cr EXCEPT !.fin = fin,
                      !.state = IF r.state = r.seen.state \/ r.seen.deleting
                                THEN @ ELSE r.state]

Patch(o) ==
  /\ run[o].pc = "patch"
  /\ guest' = [guest EXCEPT ![o] = Patched(o)]
  /\ queue' = IF run[o].again \/ ~guest[o].here THEN queue \cup {o} ELSE queue
  /\ run' = [run EXCEPT ![o] = Idle]
  /\ UNCHANGED <<cache, host, fed>>

\* The API server refuses the patch, which is an error: retried.
PatchFails(o) ==
  /\ "patch" \in Faults
  /\ run[o].pc = "patch"
  /\ queue' = queue \cup {o}
  /\ run' = [run EXCEPT ![o] = Idle]
  /\ UNCHANGED <<guest, cache, host, fed>>
----------------------------------------------------------------------------
(***************************************************************************)
(* The host cluster.                                                       *)
(***************************************************************************)

SetHostState(h, s) ==
  /\ host' = [host EXCEPT ![h].state = s]
  /\ UNCHANGED <<guest, cache, queue, run, fed>>

\* The host's reconciler adds the finalizer, ...
HostAddFinalizer(h) ==
  /\ Live(host[h]) /\ ~host[h].fin
  /\ host' = [host EXCEPT ![h].fin = TRUE]
  /\ UNCHANGED <<guest, cache, queue, run, fed>>

\* ... marks the copy PENDING, ...
HostSetPending(h) ==
  Live(host[h]) /\ host[h].fin /\ host[h].state = "" /\ SetHostState(h, "PENDING")

\* ... and lets a deleted copy go.
HostRemoveFinalizer(h) ==
  /\ host[h].here /\ host[h].deleting
  /\ host' = [host EXCEPT ![h] = NoCR]
  /\ UNCHANGED <<guest, cache, queue, run, fed>>

\* The orchestrator behind the host decides the request.
OrchestratorDecides(h) ==
  \E s \in Answers \ {host[h].state} :
    Live(host[h]) /\ host[h].state # "" /\ SetHostState(h, s)

----------------------------------------------------------------------------
(***************************************************************************)
(* The guest's federation, as far as the children depend on it.            *)
(***************************************************************************)

\* Its status is replaced by the host's, or it fails; LOCKED is final.
FederationStatus(s) ==
  /\ fed \in {"AVAILABLE", "OTHER"} /\ s # fed
  /\ s = "AVAILABLE" \/ "federation" \in Faults
  /\ fed' = s
  /\ UNCHANGED <<guest, cache, queue, run, host>>

\* A federation is released only when no cached child refers to it, the
\* children of kind ConsumptionMonitoring not being counted.
FederationRemoved ==
  /\ "federation" \in Faults
  /\ fed # "MISSING"
  /\ \A o \in Obj : cache[o].here => Kind[o] = "ConsumptionMonitoring"
  /\ fed' = "MISSING"
  /\ UNCHANGED <<guest, cache, queue, run, host>>

\* The operator restarts: what it kept in memory is gone, its caches are
\* filled again and every child is queued.
Crash ==
  /\ "crash" \in Faults
  /\ cache' = guest
  /\ queue' = {o \in Obj : guest[o].here}
  /\ run' = [o \in Obj |-> Idle]
  /\ UNCHANGED <<guest, host, fed>>
----------------------------------------------------------------------------
ReconcileAny(o) ==
  \/ ReconcileImage(o)
  \/ ReconcileArtefact(o)
  \/ ReconcileApplicationOnboarding(o)
  \/ ReconcileApplicationDeployment(o)
  \/ ReconcileAvailabilityZone(o)
  \/ ReconcileConsumptionMonitoring(o)

CallHost(o) ==
  LookupCopy(o) \/ ApplyCopy(o) \/ CopyStatus(o) \/ CopyNotFound(o) \/ DeleteCopy(o)

HostStep(h) ==
  HostAddFinalizer(h) \/ HostSetPending(h) \/ HostRemoveFinalizer(h)

Next ==
  \/ \E o \in Obj :
       \/ UserCreate(o) \/ UserDelete(o)
       \/ CacheSync(o) \/ Enqueue(o)
       \/ ReconcileAny(o)
       \/ CallHost(o) \/ RemoteFails(o)
       \/ Patch(o) \/ PatchFails(o)
  \/ \E h \in Name : HostStep(h) \/ OrchestratorDecides(h)
  \/ \E s \in {"AVAILABLE", "LOCKED", "OTHER"} : FederationStatus(s)
  \/ FederationRemoved
  \/ Crash

Spec == Init /\ [][Next]_vars

(***************************************************************************)
(* Fairness.  The informers deliver, the workers take what is queued, and  *)
(* the host's reconciler runs.  A call to the host and the final patch may *)
(* fail any number of times, but not for ever: a failed one is queued      *)
(* again, so it is tried again.  RetrySpec relies on what the reconcilers  *)
(* queue themselves; FairSpec adds the resync.  Nothing obliges users, the *)
(* orchestrator, the federation or a fault to act.                         *)
(***************************************************************************)
Informers == \A o \in Obj : WF_vars(CacheSync(o))
Workers == \A o \in Obj : /\ WF_vars(ReconcileAny(o))
                          /\ SF_vars(CallHost(o))
                          /\ SF_vars(Patch(o))
Hosts == \A h \in Name : WF_vars(HostStep(h))
Resyncs == \A o \in Obj : WF_vars(Enqueue(o))

RetrySpec == Spec /\ Informers /\ Workers /\ Hosts
FairSpec == RetrySpec /\ Resyncs
----------------------------------------------------------------------------
(***************************************************************************)
(* Safety.                                                                 *)
(***************************************************************************)

\* A child that the guest's API server will not forget before its finalizer
\* is removed.
Held(o) == guest[o].here /\ guest[o].fin

\* Every copy nobody has asked the host to delete belongs to a child that
\* still holds its finalizer: whatever is interrupted, someone remains who
\* will delete it.
NoOrphanCopy ==
  \A h \in Name : Live(host[h]) => \E o \in Obj : HostName[o] = h /\ Held(o)

\* No two children share a copy.
OwnCopies == \A o, p \in Obj : HostName[o] = HostName[p] => o = p

\* A child reported READY has a copy on the host that nobody is deleting,
\* where children do not share copies and users are not hasty.
Ready(o) == Live(guest[o]) /\ guest[o].state = "READY"

ReadyHasCopy ==
  OwnCopies /\ "recreate" \notin Faults =>
    \A o \in Obj : Ready(o) => Live(host[HostName[o]])

Dependents(o) == {u \in Obj : o \in Refs[u]}

\* When the deletion of a copy begins, the host holds no copy of a child
\* that refers to it, although the check reads the guest's cache.
DeleteStartsClean ==
  [][OwnCopies => \A o \in Obj :
       run[o].pc = "idle" /\ run'[o].pc = "delete" =>
         \A u \in Dependents(o) : ~Live(host[HostName[u]])]_vars

\* All in all, the mirroring keeps the promise of module MirrorPromise (where
\* children do not share copies and users are not hasty).
Promised == INSTANCE MirrorPromise WITH
  registered <- {o \in Obj : Held(o)},
  mirrored <- {h \in Name : Live(host[h])},
  ready <- {o \in Obj : Ready(o)}

KeepsPromise == Promised!Promise
----------------------------------------------------------------------------
(***************************************************************************)
(* Liveness.                                                               *)
(***************************************************************************)

\* Under RetrySpec: a deletion completes without waiting for a resync, when
\* the federation is AVAILABLE whenever the operator sees the child, and in
\* the end nothing that refers to the child remains.
DeletionCompletes ==
  \A o \in Obj :
    /\ [](guest[o].here \/ cache[o].here => fed = "AVAILABLE")
    /\ <>[](\A u \in Dependents(o) : ~guest[u].here)
    => []<>~guest[o].deleting

----------------------------------------------------------------------------
(***************************************************************************)
(* What the repository says of itself and the code does not do.            *)
(***************************************************************************)

\* "for each specific CR created in the guest, a new one is mirrored in the
\* host": a child that stays, its federation AVAILABLE and everything it
\* refers to READY for good, has a copy sooner or later.
EveryChildMirrored ==
  \A o \in Obj :
    <>[](/\ fed = "AVAILABLE" /\ Live(guest[o])
         /\ \A p \in Refs[o] : Live(guest[p]) /\ guest[p].state = "READY")
      => <>host[HostName[o]].here
=============================================================================

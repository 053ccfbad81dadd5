# A verification development for the Katalis federation manager

The repository is a Kubernetes operator (Go, controller-runtime) with which two
operator platforms federate: a **guest** asks for resources, a **host** provides
them. Everything is a custom resource (CR) of group `opg.ewbi.katalis.com`. A
`Federation` CR says who the partner is and how it is reached (technology `K8S`:
through the host cluster's API server; `REST`: through the East/West Bound
Interface, EWBI); the other six kinds - `Image`, `Artefact`,
`ApplicationOnboarding`, `ApplicationDeployment`, `AvailabilityZone`,
`ConsumptionMonitoring` - are the **children** of a federation. For each child
of the guest the host gets a copy, and the state that the host's orchestrator
gives to the copy comes back to the guest's child.

This directory holds TLA+ models of that system, the TLC configurations that
check them, and theorems that TLAPS proves. Paths below are relative to the
repository's root.

## 1. Inventory

| Component | State it keeps | Operations | How it interacts |
|---|---|---|---|
| Child reconcilers (`internal/controller/*_controller.go`, `util.go`) | each child CR: finalizer, deletion mark, status state | one `Reconcile` per kind: finalizer, creation of the copy, status copy, blocked deletion, deferred patch | reads an informer cache, calls a client of the host (K8S or REST), writes the guest's API server |
| Host cluster clients (`internal/k8s/*_k8s.go`) | none | apply, patch, get, annotate, delete one CR on the host | called by the reconcilers; apply and delete start and stop watchers |
| Remote watchers (`internal/k8s/watcher_k8s.go`) | an in-memory registry by namespace and name | start, stop, restart all, stop all, event | informers on the host cluster; events go through Go channels into the queues of the reconcilers |
| Federation reconciler (`federation_controller.go`, `federation_k8s.go`) | the Federation CR on both sides: context id, state, expiry and renewal dates, annotations | establish, set the policy, examine the dates, copy the status, pass on renewals and requests, delete | its update events are filtered by a predicate; its state decides whether children are reconciled at all |
| Admission policy (`internal/k8s/policy`) | one cluster-wide `ValidatingAdmissionPolicy` per role | add and remove a context id | called by the federation reconciler, recomputed from a cached list |
| REST clients (`internal/rest`) | none | the EWBI calls for every kind, host callbacks | called by the reconcilers instead of the K8S clients |
| OPG client cache (`internal/opg`) | API clients by federation id | get or create a client | used by the REST clients |
| EWBI handlers and metastore (`pkg/handler`, `pkg/metastore`, `cmd/api`) | none; the CRs of the host namespace are the store | one handler per EWBI operation, callbacks | called over HTTP by the REST clients of the partner, create, read and delete CRs |
| Rest (`cmd/main.go`, `internal/config`, `internal/options`, `internal/indexer`, `internal/multipart`, `pkg/deployment`, `pkg/echo`, `pkg/uuid`, `api/`, charts) | none | wiring, encodings, types, generated code | - |

Which behaviours are hard:

* **Stale reads.** A reconcile works on a cached CR; its patches are merge
  patches without a resource version. Users, other reconcilers, the host and the
  API server act between its steps.
* **Two clusters, no transaction.** The copy and the child are written one after
  the other. A call may fail, fail after it took effect, or be followed by a
  crash or a refused patch.
* **Order across children.** A copy may be deleted only when no copy refers to
  it; the check reads the cache, the deletion is a later call.
* **Names.** Two children with the same identifiers share a copy; two children
  with one CR name share a watcher.
* **Events.** Watchers see updates only, from their first list on, and live in
  memory. The federation reconciler drops update events that its predicate does
  not know, its own included, and the dates are examined again only if every
  examination asks for the next one.
* **Requests and callbacks.** Over REST a child's creation, the answer to it and
  the host's callbacks are messages that may be refused, lost, or executed after
  their sender has given up; both sides write the same status.
* **Shared objects.** The admission policy is one list for a cluster, written as
  a whole from a stale cache; HTTP clients are shared by federations that have no
  context id yet.
* **Time.** Renewal and expiry are compared with the clock by an operator that
  may be late, restarted, or working on a stale CR.

What makes each component correct: no copy that nobody will delete; nothing
reported READY or AVAILABLE without a counterpart; deletions in dependency
order, that complete; a watcher for who needs it and for nobody else; a
federation that is established, locked in time and for good.

## 2. Modules

| Module | What it models |
|---|---|
| `ChildMirror` | the guest's reconcilers of all six kinds (technology K8S), the calls to the host cluster, the steps of the host's reconcilers that a copy goes through, the state of the federation as the children see it |
| `ChildMirrorInv` | the inductive invariants `MirrorInv` and `ReadyInv` |
| `MirrorPromise` | the abstract specification of mirroring: registered, mirrored, ready |
| `WatchedMirror` | `ChildMirror` composed with the watchers, their registry and the annotation that guards it |
| `RestMirror` | `ChildMirror` with the REST clients, the EWBI handlers and the metastore of the host in the place of the host cluster's clients, and the host's callbacks |
| `Federation` | the Federation CRs of guest and host (K8S), both reconcilers, the caches and the predicate, the timer, the clock, the watcher of the federation |
| `RestFederation` | the guest's Federation CR over REST, its reconcile step by step, the partners' handlers, the cache of HTTP clients |
| `AdmissionPolicy` | the cluster-wide list of context ids, the operators that write it, the children that it admits |
| `FederationInv`, `RestFederationInv`, `RestMirrorInv` | the inductive invariants `FedInv`, `RestFedInv` and `RestInv` |
| `ChildMirror_proofs`, `MirrorPromise_proofs`, `WatchedMirror_proofs`, `RestMirror_proofs`, `Federation_proofs`, `RestFederation_proofs`, `AdmissionPolicy_proofs` | theorems and proofs |
| `MCMirror`, `MCWatched`, `MCRest`, `MCFederation`, `MCRestFed`, `MCPolicy` | instances for TLC |

`WatchedMirror` and `RestMirror` extend `ChildMirror`: its actions are theirs,
each with what the watchers or the network add.

### ChildMirror

`guest`, `cache`, `host` map children and copies to CRs (exists, being deleted,
has its finalizer, state); `queue` is the work queue; `run[o]` the reconcile in
progress: its next step `pc`, the CR as it was `seen`, and what it has changed
in its own copy. States are the roles that the six kinds share: READY stands for
READY, ONBOARDED and AVAILABLE, PENDING for PENDING and a zone's NOT_AVAILABLE,
FAILED for FAILED and ERROR, `""` for an empty status, by which the code tells
that a child is new.

A reconcile is split where another actor can act: it begins (cache read and all
decisions up to the first remote call: `Ignore`, `NoFederation`, `StartDelete`,
`AddFinalizer`, `AwaitPrerequisites`, `StartCreate`, `StartUpdateStatus`), does
its calls (`LookupCopy` then `ApplyCopy`, `CopyStatus` or `CopyNotFound`,
`DeleteCopy`, or `RemoteFails`, which includes a call that took effect and whose
answer was lost), and ends in the deferred patch (`Patch`, `PatchFails`). The
six reconcilers differ in which children they wait for (`Needs`) and which block
their deletion (`Users`). `Crash` loses queue and reconciles in progress.
`Enqueue` lets any child be queued at any time: it stands for informer events,
the resync and the watchers; `WatchedMirror` restricts it to the watchers'
events and the resync.

### WatchedMirror

Every action of `ChildMirror` is kept; applying a fresh copy starts a watcher
under the child's *local name*, deleting the copy stops whatever is registered
under that name, a change of a copy's status is an event for every live watcher
of its kind, and the reconciles of an AVAILABLE or a LOCKED federation restart
and stop watchers. A watcher registered by the restart is `dead`: the code hands
the informer a Kind instead of the plural resource name.

### RestMirror

A request of a reconcile is *sent* (the reconcile is at `lookup` or `delete` and
`answer` is "none"), *executed* by the handler (`PostArrives`, `DeleteArrives`)
or `Refused`, and its answer is taken in `CreateAnswered` and `DeleteAnswered`,
where `Created` and `CreateError` are the clients' tables from status codes to
states and errors. `RequestLost` is the error that is retried. The clients of
applications and deployments write the status themselves, with the version they
read (`WritesStatus`, `Conflict`, `PatchWritten`). Each host reconcile of a copy
that is not new sends a callback (`SendCallback` ... `CallbackReturns`), whose
answer may change the copy's state (`Updated`). `late` holds the requests whose
sender gave up, `strays` (history) the copies that a refused deletion or a late
creation has left. Codes that every caller treats alike are one value.

### Federation

`cr[s]`, `cache[s]`, `log[s]` and `queue[s]` are the CR, its cached version, the
updates on their way, and the queue, of side `s`. `Passes` is the predicate of
the controller. The host's reconcile calls nobody and is one step
(`HostAddsFinalizer`, `HostNew`, `HostAddsPolicy`, `HostExamines`,
`HostDeletes`, `HostIgnores`, `HostPolicyFails`); the guest's reads and calls in
one step and patches in the next (`GuestPatches`). `Examined` is
`federationExpiry`, clause by clause, and `Wake` its RequeueAfter, kept by the
delayed queue together with an earlier one that is still set. The zero time is
the date 0, before every reading of the clock; a reading lies inside a unit of
time, so it is never equal to a date. Nothing reads the guest's copy of the
dates, so it is left out. A federation's metadata and status patches are one
step.

### RestFederation

Here the reconcile is split further: the decision (`Ignores`, `Blocked`,
`Deletes`, `AddsFinalizer`, `AddsPolicy`, `Creates`, `Renews`, `Asks`), the call
(`Respond`, `Refused`, `Lost`), the metadata patch and the status patch
(`PatchMeta`, `PatchStatus`), because a cache that lacks one or both of the
patches makes the next reconcile send the creation again. `first` is the client
that the cache of HTTP clients holds under the empty context id, which every
federation uses for its creation; `host[p]` is the CR under the guest's name at
its own partner and at that of the operator's other federation. The partner's
reconciler writes the context id (`HostSetsId`) that its handler needs to find
the CR. `trouble` is a history variable: something has failed, or the other
federation has been at work.

### AdmissionPolicy

`list` is the policy; `Ids` is the computation of the list from the operator's
cache, `Applies` the server-side apply that replaces it, `Patches` the patch of
the annotation or the finalizer. Children (`child`) are created, deleted and let
go only while the list has their federation (`Admitted`). `writer` (history) is
the operator that wrote last.

## 3. Runs

All runs are exhaustive. `CHECK_DEADLOCK FALSE` only where the system may stop:
in `Federation`, whose clock stops at `Horizon`, and in `RestFederation` and
`AdmissionPolicy`, where nothing is left to do once users and events are done;
in the other models a child can always be queued.

| Run | What it asks | What it shows |
|---|---|---|
| `Mirror_pair` | AvailabilityZone and ApplicationDeployment, and one at a time an ApplicationOnboarding and a ConsumptionMonitoring whose calls may fail; crashes and refused patches: `TypeOK`, `NoOrphanCopy`, `ReadyHasCopy`, the inductive invariants, `DeleteStartsClean`, and `MirrorPromise` as a property (`KeepsPromise`) | what is interrupted leaves someone who will delete the copy; READY means there is one; a stale cache never lets a deletion begin under a dependent's copy |
| `Mirror_retry` | Image and Artefact, a federation that changes and goes, no resync: `DeletionCompletes` | a blocked deletion is taken up again by the reconciler itself |
| `Watched_one` | a ConsumptionMonitoring and its watcher, calls that fail or lose their answer, restarts, hasty users, federation changes, no resync: `WatcherOwned`, `NoOrphanCopy`, `WatcherLasts`, `SeenAnswerComesBack`, `DeletionCompletes` | watchers belong to held children and last; what they saw reaches the guest |
| `Rest_one` | an Image over REST, everything the network may do, restarts, refused patches, a federation that changes and goes: `RestTypeOK`, `KeptOrStray`, `ReadyOverRest`, and the inductive invariant `RestInv` | the only copies without a holder are those of refused deletions and late creations |
| `Rest_fair` | an ApplicationOnboarding over REST, requests and callbacks refused or lost: `AnswerReaches`, `RestDeletionCompletes` | the state a copy keeps reaches the child in the end, deletions complete |
| `Fed_safe` | renewals, deletion, restarts, failing calls and policy updates, a late host: `GuestBacked`, `StaysArmed`, `LockedInTime`, `LockedForGood`, and the inductive invariant `FedInv` | AVAILABLE on the guest is backed by a host side; a host that has once looked at the dates goes on until it locks |
| `Fed_fair` | failing calls, lost events: `ArmedGetsLocked`, `Established` | a created federation is established, an examined one is locked |
| `RestFed` | everything that may happen to a REST federation next to another one: `Backed`, `NeverBack`, the inductive invariant `RestFedInv`, `Established`, `RemovalCompletes` | AVAILABLE is backed by a partner; a renewal, a failed request for data or a repeated creation ends it for good; removal completes |
| `Policy` | two federations of one operator, a child, failing updates and patches: `SetIsListed`, `GetsAdmitted`, `DeletedChildGoes` | the annotation "set" can be trusted, a federation that stays comes to admit its children |
| `Mirror_v_prereq` | *violation*, README.md:197 "for each specific CR created in the guest, a new one is mirrored in the host" | a child reconciled before what it refers to is READY becomes PENDING, no longer counts as new, and never gets a copy |
| `Rest_v_delete` | *violation*, README.md:200 "If you delete guest ones, mirrored host resources will get deleted." | the copy of an application deleted over REST stays although nothing fails: the handler looks for another name, and the guest takes any answer |
| `Fed_v_expiry` | *violation*, federation_controller.go:287 "If the current date matches the expiry date ... we set the state to LOCKED" | the reconcile that sets the policy is the last one: no timer is set, its update is filtered |

Each property has a mutant of the code (the operators commented "A variant
that ...") under which its run finds it violated.

### Bounds

* One or two children and as many copies. The properties relate one child, its
  copy and at most one dependent, and the reconciles of different children share
  only the cache, the federation and, with one name, a watcher. Copies shared by
  several children and watchers shared by several kinds are left to the theorems
  `NoOrphans` and `WatchersOwned`, which hold for any number of either.
* The kinds differ in `Needs`, `Users` and, over REST, in the tables of codes:
  between them the runs use all six. `AtOnce` names the sets of children that
  may be present together, and is a guard of creation and of the queue: in
  `Mirror_pair` the two children that are not of the pair are each alone. Calls
  fail for the children in `Failing`: those two, and the child of `Watched_one`.
  The theorems hold for any `AtOnce` and any `Failing`.
* Two answers of the orchestrator (READY, FAILED) where the answer matters.
* `Faults`, `Network` and `Events` name what the environment may do in a run;
  each run uses those its properties are about. In the liveness runs of the
  children failing calls and failing patches are not combined: a scheduler that
  fails every other patch of a child and every other call satisfies each
  fairness condition alone and starves the child, which says nothing about the
  code. Restarts are in `Watched_one` and `RestFed`.
* `RestMirror`: at most one given-up request is on its way (`MaxLate`). In
  `Rest_one` users create a child again only when the old copy and its
  callbacks are gone, and deletions do not come late: with either, READY without
  a copy is reachable.
* `RestFederation`: one federation, one other that shares the client, one update
  on its way to the cache (`MaxLag`): enough for a reconcile that has not seen
  the last patch. One wish of the users at a time.
* `AdmissionPolicy`: two federations, so that each list written is about one and
  from the cache about the other. A federation is created again only when its
  operator has seen the old one go.
* `Federation`: one federation; renewal one unit, expiry two units after the
  initial date, so a renewed one expires at 4 and `Horizon` 5 lies past it. What
  the properties distinguish is the order of dates, timer and clock, and with
  these values all orders occur, both dates met at once included. At most one
  update of a CR is on its way to a cache (`MaxLag`). The users of the guest
  ask for a renewal until the host has been told of one: the host keeps the
  annotation, so passing it on again writes what is there. The host comes to
  offer zones once.

### Fairness

Informers deliver, workers take what is queued, the host's reconcilers run and
live watchers list and deliver: weak fairness, as controller-runtime keeps
retrying all of them. Calls to the host and the final patch are strongly fair:
each failure queues the child again, with backoff, so that a call which is tried
again and again succeeds in the end; it may fail any finite number of times.
`RetrySpec` and `WatchFairSpec` have no fairness for the resync (10 hours by
default), so their properties rest on what reconcilers and watchers queue
themselves; `FairSpec` adds it. `WatchFairSpec` also says that the operator
restarts any number of times, but not for ever. In `Federation` and in
`RestFederation` the resync is fair because it is what completes a federation
whose event was lost; the clock is strongly fair, since work that comes up only
delays it. In `RestMirror` requests and callbacks are strongly fair, like calls,
and the host's reconcilers send their callbacks again, at the latest with the
resync; the guest's writes that carry a version are strongly fair to succeed,
because each conflict needs a callback in between. In `AdmissionPolicy` each
federation's turn comes, and what fails is tried until it succeeds. Users,
orchestrators and faults are never fair.

## 4. Proofs

Every safety property that a passing run checks, invariant or action property,
is also a theorem, for every value of the constants that the named assumptions
of the modules allow. An invariant that is only true because of what is on its
way, cached or half done is proved from an inductive one, which a run checks
too: a step of TLC that would break it is a step the proof would fail at.

### Children, over K8S

`ChildMirror_proofs`, for any children, copies, references, answers and faults
(assuming only `ConstantsAssumption`: `Refs` follows `RefKinds`, and children
that share a copy are of one kind):

* `TypeCorrect`: `Spec => []TypeOK`.
* `MirrorInvariant`: `Spec => []MirrorInv`. `NoOrphanCopy` is not inductive: a
  reconcile that has deleted a copy and is about to remove the finalizer, or one
  that still sees a child which was released and created again, could leave a
  live copy without a holder. `MirrorInv` adds, for each child, that a cached
  finalizer is a real one (`CacheBehind`), that a deletion once cached is not
  undone (`CacheDeleting`), what a reconcile in progress may be wrong about
  (`SeenDeleting`, `SeenLive`), which decisions lead to which step (`Phases`),
  and strengthens the property itself: each live copy has a *keeper*, held in
  the API server and in the cache and not about to be released (`CopyAnswered`).
* `NoOrphans` follows from it, for shared copies as well.
* `CleanDeletes` (`DeleteStartsClean`): a keeper is in the cache, so a check of
  the cache that finds no dependents has seen that no live copy has one.
* `ReadyMirrored` (`ReadyHasCopy`), with the second invariant `ReadyInv`
  (`ReadyInvariant`):
  a copy being deleted belongs to no live child (`CopyLeaving`), and a reconcile
  about to report READY has a live copy (`Reporting`). It assumes that copies
  are not shared and that users do not create a child again before its old copy
  is gone.

`MirrorPromise_proofs`: `PromiseKept`, every step of `ChildMirror` is a step of
`MirrorPromise` or a stutter under the mapping of `Promised`, with the same two
assumptions. `WatchedMirror_proofs`: `WatchedImplements` (`WSpec => Spec`, so
that every theorem above holds with watchers), `WatchTyped` (`WatchTypeOK`),
`WatchersOwned` (`WatcherOwned`: a watcher that delivers has a held child of its
name, inductive together with `MirrorInv`), and `WatchersLast` (`WatcherLasts`):
only the deletion of the copy by a reconcile of the watcher's own child, a
LOCKED federation or a crash stops it, where names are not shared.

### Children, over REST

`RestMirror_proofs`, for any children, kinds, shared copies, faults and number
of late requests (assuming `ConstantsAssumption` and `RestAssumption`: the kinds
are the four that REST mirrors). `RestInvariant` (`RestInv`) reuses what
`ChildMirror_proofs` proves of one child's reconcile: its lemmas are stated for a
child and do not ask which client makes the call, so the part `ChildInv` is the
same over both technologies. Added are

* `Addresses`: what is on its way concerns a name that some child has, and only
  requests that the network may deliver late are late;
* `AnswerTaken`: an answer is there only while its reconcile waits for it. Without
  it an answer of an earlier reconcile could be taken for one of a later;
* `RestAnswered`, the strengthening of `KeptOrStray`: a live copy that is no
  stray has a keeper whose deletion the host has not confirmed. A confirmed
  deletion is about to remove the finalizer, and a creation executed late is
  what makes a stray;
* `RestReady`, for `ReadyOverRest`: a child without finalizer starts with nothing
  of an earlier life on the host or on its way (`Fresh`), no reconcile reports
  READY by itself (`Silent`), and a callback on its way to a live child is about
  a live copy (`Backed`). It is conditional, like the property, on children
  that do not share copies, users that are not hasty and no deletion that comes
  late; `Rest_one` is such an instance.

`RestTyped`, `KeptOrStrayAlways` and `ReadyOverRestAlways` follow from it.

### Federation, over K8S

`Federation_proofs`, for any dates, lag and events (assuming only
`FederationAssumption`). Each side works on a cache that lags any number of
versions, and each writes what the other reads. `FedInvariant` (`FedInv`) has

* `Chains`: of any two versions of a CR between the cached and the current one
  the newer is the older grown (`Grows`: deletion marks stay; of the host's CR also
  finalizer, context id, policy, LOCKED and a renewal that was done), and a CR
  that goes does not come back while the cache still has it. This is what
  allows a conclusion from a stale version to the current one;
* `HostInv`: each version of the host's CR by itself (`HostSound`: an id comes
  with dates, and they are those of the creation or of one renewal), and
  `Lags`: the host's operator is at most one stage ahead of its cache. Without
  it, a reconcile on an old version could set the dates a second time;
* `EndInv`, `GuestSound`, `RunInv`: the host's CR is deleted only after the
  guest's, in every version, and no patch in progress revives it;
* `TimerInv`: the timer is due by the current expiry date, and while it is set
  the host's cache has the CR, unless the guest's is deleted;
* `ClaimInv`: the guest is, or is about to call itself, AVAILABLE only when the
  host knows the id.

From it: `Typed`, `Backed` (`GuestBacked`), `InTime` (`LockedInTime`), `ForGood`
(`LockedForGood`) and `ArmedOn` (`StaysArmed`).

### Federation, over REST

`RestFederation_proofs`, for any lag and events (assuming only
`RestFederationAssumption`). The two patches of a reconcile are separate updates,
and users may delete and create the CR while the cache still has the old one, so
that versions do not simply grow. `RestFedInvariant` (`RestFedInv`) has

* `Story`: the versions since the cached one tell one of two stories. Either the
  CR gets its finalizer and its deletion mark (`Growing`), or it loses them and
  at most comes back without (`Leaving`). A metadata patch may turn one story
  into the other, when all versions so far tell the new one as well;
* `VersionsSound`, and `NoSecond`: where the id is known, any version that would
  ask for another creation meets, at the partner that it would ask, a name that
  is taken by ours, so the creation is refused;
* `RunInv`: a reconcile about to write AVAILABLE has a creation that the partner
  accepted and holds, and the id is not known yet (`Accepting`).

From it: `RestFedTyped`, `BackedAlways` (`Backed`), `NeverBackAgain`
(`NeverBack`). The run has `MaxLag` 1; the invariant was also model-checked with 2
and 3, and the theorem is for any.

### Admission policy

`AdmissionPolicy_proofs`, for any operators, federations, namespaces and faults
(assuming only `PolicyAssumption`): `PolicyTyped`, and `SetListed`
(`SetIsListed`). The latter is about an annotation that is written after the
list, from a cache that may lack the other federations' ids. What makes it true
is that the cache of an operator never lacks an id whose annotation *it* has
patched. The strengthening `PolicyInv` says of each federation what its cached
CR allows to conclude of the real one (`CacheInv`), and what a reconcile in
progress has computed (`RunInv`): its list has every federation of the operator
whose annotation is set, and once applied it is the policy if the operator wrote
last. It holds
although an operator's list drops the federations of all others; what is proved
is therefore about the operator that wrote last.

### Only model-checked

Every liveness property: `DeletionCompletes`, `SeenAnswerComesBack`,
`AnswerReaches`, `RestDeletionCompletes`, `ArmedGetsLocked`, both `Established`,
`RemovalCompletes`, `GetsAdmitted` and `DeletedChildGoes`. They rest on fairness,
hence on `ENABLED`, which the prover does not support. The three properties that
the code violates are refuted by their runs.

## 5. Behaviours of the code worth knowing that no run isolates

* A failed call logs "will retry without changing state"
  (artefact_controller.go:100), but PENDING was set before it and is patched.
* A child deleted after its K8S federation was LOCKED is never released: the
  reconcilers return before the deletion branch (util.go:117), and a guest's
  federation does not leave LOCKED.
* After a restart the watchers are registered again with the Kind in the place
  of the plural resource name (watcher_k8s.go:183): they watch nothing.
* A child created before its federation is AVAILABLE is dropped without being
  queued again; only the resync takes it up.
* A dependent created between the check of dependents and the delete call is
  mirrored while the copy it refers to goes.
* A child deleted and created again while the host still deletes its old copy
  takes over the old copy's READY.
* The first reconcile of an AVAILABLE federation overwrites the annotation
  "not-stopped", without which a LOCKED one leaves its watchers running.
* A guest federation that is AVAILABLE and has the host's zones skips the copy
  of the host's status (federation_k8s.go:225-229), so it never learns that the
  host's is LOCKED, although federation_controller.go:514 counts on it.
* An answer given before a watcher's first list is no event.
* A guest federation whose first creation call fails keeps a state other than
  `""` and never tries the creation again; after a restart of the guest's operator
  nothing watches the host's federation.
* A host that is late by more than the time from renewal to expiry locks the
  federation although the same reconcile extends its expiry date.
* REST: a creation that is sent again because the cache lacks the first one's
  patches is answered 409, and the AVAILABLE federation turns FAILED.
* REST: a first creation whose answer is lost leaves the federation
  NOT_AVAILABLE for good, and a federation without owner at the partner; so does
  a deletion before the partner's reconciler has written the context id.
* REST: all creations of an operator go to the partner of its first one, until
  the operator restarts: the HTTP client is kept under the empty context id
  (opg.go:62).
* REST: a renewal ends NOT_AVAILABLE whatever the answer
  (federation_controller.go:426), and the requests for data end FAILED, because
  the partner implements none of them: neither becomes AVAILABLE again.
* REST: a callback that is refused turns the host's copy FAILED or PENDING, over
  what its orchestrator decided.
* Policy: operators of several namespaces overwrite each other's lists; a
  federation deleted while the cache still has it comes back on the list with
  the next update; a federation is removed from the list although
  ConsumptionMonitorings refer to it (federation_controller.go:377-383), which
  then cannot even lose their finalizers.
* Metastore: `AddAvailabilityZones` (federation.go:242-246) writes to copies of
  the zones, so nothing is stored, and `mapServiceEndpointToK8s` (326-329)
  indexes an empty slice.

## 6. Not modelled, and the plan

In the order of the plan:

1. Proofs: what the liveness properties rest on and the prover can state, such
   as that a step which takes a child out of the queue leaves somebody who will
   take it up again; abstract specifications of the federation (none, offered,
   available, ended) that `Federation` and `RestFederation` implement.
2. `Federation`: the annotations that request health, capabilities, service APIs
   and data updates over K8S; its composition with `ChildMirror` (whose
   `FederationStatus` lets the federation's state change at will, a superset of
   what `Federation` does).
3. REST: partner details and zone callbacks (`PartnerDetailsCallback`,
   `PartnerStatusLink`, `ZoneSubscribe`), which write the zones of a federation;
   the host's examination of the dates with REST.

Most of the repository's lines are the generated client, server, models and deep
copies of the EWBI API (some 38,000 of 50,000), which no module stands for.

Left out for good: generated code and CRD types other than the states, wiring
and flags, encodings (multipart forms, name hashes), the chart and deployment
helpers - they keep no state; what a spec contains beyond references between
children, because no decision depends on it.

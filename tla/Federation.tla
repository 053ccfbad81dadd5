----------------------------- MODULE Federation -----------------------------
(***************************************************************************)
(* The Federation CR of the guest and the one that the guest operator      *)
(* creates from it on the host cluster (technology K8S): how a federation  *)
(* is established, kept in step, renewed, locked and removed.              *)
(*                                                                         *)
(* Both operators run the same reconciler (internal/controller,            *)
(* federation_controller.go).  It reads the CR from an informer cache; of  *)
(* the updates that the cache delivers it is queued only for those that    *)
(* its predicate lets pass.                                                *)
(*                                                                         *)
(* The host's reconcile calls nobody and is one step; the guest's reads    *)
(* its CR and calls the host in one step and patches its CR in another.    *)
(*                                                                         *)
(* One unit of time is the second that the reconciler adds to a delay.  A  *)
(* reading of the clock lies inside a unit: it carries a fraction, and the *)
(* dates are whole seconds, so that a reading is before or after a date    *)
(* and never equal to it.                                                  *)
(***************************************************************************)
EXTENDS Integers, Sequences

CONSTANTS
  InitialDate,  \* the date in the federation's spec
  Lead,         \* from it to the renewal date (23 hours)
  Term,         \* from it to the expiry date (24 hours)
  Horizon,      \* where the clock of the model stops
  Zones,        \* the choices of zones that a host may come to offer
  Extensions,   \* the expiry dates that the host's orchestrator may write
  MaxLag,       \* how many updates of a CR may be on their way to a cache
  Events        \* what the environment may do

ASSUME FederationAssumption ==
  /\ InitialDate \in Nat \ {0} /\ Lead \in Nat \ {0} /\ Term \in Nat
  /\ Horizon \in Nat \ {0} /\ MaxLag \in Nat \ {0}
  /\ Lead < Term
  /\ Zones \subseteq Nat \ {0} /\ Extensions \subseteq Nat \ {0}
  /\ Events \subseteq {"renew", "delete", "restart", "remote", "policy", "late"}

VARIABLES
  now,     \* the clock
  cr,      \* cr[s]: the Federation CR in the API server of side s
  cache,   \* cache[s]: the same as the operator of side s last saw it
  log,     \* log[s]: the updates on their way to that cache
  queue,   \* queue[s]: whether the operator of side s is to reconcile it
  timer,   \* when the host's operator queues it by itself, 0 for never
  run,     \* the guest's reconcile, between its call and its patch
  watch,   \* the guest's watcher of the host's CR
  granted  \* history: the latest expiry date that the host's CR has had

vars == <<now, cr, cache, log, queue, timer, run, watch, granted>>

Side == {"guest", "host"}
State == {"", "AVAILABLE", "NOT_AVAILABLE", "LOCKED", "FAILED"}
\* The zero time, the dates that the reconciler sets, those it is given.
Date == (0 .. InitialDate + Lead + Term) \cup Extensions

(***************************************************************************)
(* A Federation CR.  Its status are the fields state, id (whether it has   *)
(* its context id), zones, expiry and renewal; the others stand for its    *)
(* metadata: policy, renew and mark for annotations (renew when a renewal  *)
(* is "required", mark for "not-stopped").  Its zones are 0 for none.      *)
(***************************************************************************)
Fed == [here : BOOLEAN, deleting : BOOLEAN, fin : BOOLEAN,
        policy : {"", "not-set", "set"}, renew : BOOLEAN, mark : BOOLEAN,
        state : State, id : BOOLEAN, zones : Zones \cup {0}, expiry : Date, renewal : Date]
Status == {"state", "id", "zones", "expiry", "renewal"}
NoFed == [here |-> FALSE, deleting |-> FALSE, fin |-> FALSE,
          policy |-> "", renew |-> FALSE, mark |-> FALSE,
          state |-> "", id |-> FALSE, zones |-> 0, expiry |-> 0, renewal |-> 0]
NewFed == [NoFed EXCEPT !.here = TRUE]

Live(f) == f.here /\ ~f.deleting

NoRun == [busy |-> FALSE, seen |-> NoFed, new |-> NoFed]
NoWatch == [st |-> "none", event |-> FALSE]

TypeOK ==
  /\ now \in 1 .. Horizon
  /\ cr \in [Side -> Fed] /\ cache \in [Side -> Fed]
  /\ log \in [Side -> Seq(Fed)]
  /\ \A s \in Side : Len(log[s]) <= MaxLag
  /\ queue \in [Side -> BOOLEAN]
  /\ timer \in Nat
  /\ run \in [busy : BOOLEAN, seen : Fed, new : Fed]
  /\ watch \in [st : {"none", "starting", "live"}, event : BOOLEAN]
  /\ granted \in Date

\* A user of the guest has created a federation, the only one of the model.
Init ==
  /\ now = 1
  /\ cr = [guest |-> NewFed, host |-> NoFed] /\ cache = [s \in Side |-> NoFed]
  /\ log = [guest |-> <<NewFed>>, host |-> <<>>]
  /\ queue = [s \in Side |-> FALSE]
  /\ timer = 0 /\ run = NoRun /\ watch = NoWatch /\ granted = 0
----------------------------------------------------------------------------
(***************************************************************************)
(* The API servers and the caches.                                         *)
(***************************************************************************)

\* A CR being deleted goes when it holds no finalizer.
Kept(f) == IF f.deleting /\ ~f.fin THEN NoFed ELSE f

\* What is written to side s is on its way to the cache of s; the watcher,
\* once live, sees what changes in the host's status.
Write(s, f) ==
  /\ cr' = [cr EXCEPT ![s] = f]
  /\ f # cr[s] => Len(log[s]) < MaxLag
  /\ log' = IF f = cr[s] THEN log ELSE [log EXCEPT ![s] = Append(@, f)]
  /\ granted' = IF s = "host" /\ f.expiry > granted THEN f.expiry ELSE granted

Seen(f) ==
  IF watch.st = "live" /\ f.here /\ \E x \in Status : f[x] # cr["host"][x]
  THEN [watch EXCEPT !.event = TRUE] ELSE watch

\* A variant that writes the whole CR, as the reconcile has it.
WrittenWhole(f, seen, new) == IF f.here THEN Kept(new) ELSE f

\* A merge patch: what a reconcile has changed, over what the CR is by now.
Merged(f, seen, new) ==
  IF f.here
  THEN Kept([x \in DOMAIN f |-> IF new[x] # seen[x] THEN new[x] ELSE f[x]])
  ELSE f

\* A variant that does not look at the policy.
PassesUnset(s, old, new) ==
  \/ old.here # new.here \/ old.fin # new.fin \/ old.deleting # new.deleting
  \/ new.renew
  \/ s = "host" /\ old.state # new.state

\* The predicate of the controller.  (A deletion changes the generation.)
Passes(s, old, new) ==
  \/ old.here # new.here
  \/ old.fin # new.fin
  \/ old.deleting # new.deleting
  \/ new.policy = "not-set" \/ new.renew
  \/ s = "host" /\ old.state # new.state

Deliver(s) ==
  /\ log[s] # <<>>
  /\ cache' = [cache EXCEPT ![s] = Head(log[s])]
  /\ log' = [log EXCEPT ![s] = Tail(@)]
  /\ queue' = [queue EXCEPT ![s] = @ \/ Passes(s, cache[s], Head(log[s]))]
  /\ UNCHANGED <<now, cr, timer, run, watch, granted>>

\* The manager's resync is an update that changes nothing.
Resync(s) ==
  /\ cache[s].here /\ Passes(s, cache[s], cache[s])
  /\ queue' = [queue EXCEPT ![s] = TRUE]
  /\ UNCHANGED <<now, cr, cache, log, timer, run, watch, granted>>

\* The users of the guest renew the federation and delete it.
UserRenews ==
  /\ "renew" \in Events
  /\ Live(cr["guest"]) /\ cr["guest"].id /\ ~cr["guest"].renew
  /\ ~cr["host"].renew   \* bound: nobody renews again what the host knows of
  /\ Write("guest", [cr["guest"] EXCEPT !.renew = TRUE])
  /\ UNCHANGED <<now, cache, queue, timer, run, watch>>

UserDeletes ==
  /\ "delete" \in Events
  /\ Live(cr["guest"])
  /\ Write("guest", Kept([cr["guest"] EXCEPT !.deleting = TRUE]))
  /\ UNCHANGED <<now, cache, queue, timer, run, watch>>

\* The host's orchestrator offers other zones.  (It writes over the version
\* that it has read: one that has changed since is a conflict.)
OrchestratorOffers(z) ==
  /\ Live(cr["host"]) /\ cr["host"].id /\ cr["host"].zones # z
  /\ LET f == [cr["host"] EXCEPT !.zones = z]
     IN  Write("host", f) /\ watch' = Seen(f)
  /\ UNCHANGED <<now, cache, queue, timer, run>>

After(d) == now >= d

\* It gives a federation another expiry date, and calls it AVAILABLE.
OrchestratorExtends(d) ==
  /\ Live(cr["host"]) /\ cr["host"].id
  /\ ~After(d)
  /\ LET f == [cr["host"] EXCEPT !.expiry = d, !.state = "AVAILABLE"]
     IN  Write("host", f) /\ watch' = Seen(f)
  /\ UNCHANGED <<now, cache, queue, timer, run>>
----------------------------------------------------------------------------
(***************************************************************************)
(* The host's reconciler.                                                  *)
(***************************************************************************)
H == cache["host"]

\* The reconcile's result is new; what it was computed from is H.  (A bound
\* variable, unlike a LET, is computed by TLC once.)
HostReconciles(new) ==
  /\ queue["host"]
  /\ queue' = [queue EXCEPT !["host"] = FALSE]
  /\ \E f \in {Merged(cr["host"], H, new)} : Write("host", f) /\ watch' = Seen(f)
  /\ UNCHANGED <<now, cache, run>>

HostIgnores == ~H.here /\ HostReconciles(H) /\ UNCHANGED timer

HostDeletes ==
  H.deleting /\ HostReconciles([H EXCEPT !.fin = FALSE]) /\ UNCHANGED timer

HostAddsFinalizer ==
  /\ Live(H) /\ ~H.fin
  /\ HostReconciles([H EXCEPT !.fin = TRUE, !.policy = "not-set"])
  /\ UNCHANGED timer

\* The admission policy is to let the context id pass.
PolicyDue(f) == f.id /\ f.policy = "not-set"

HostAddsPolicy ==
  /\ Live(H) /\ H.fin /\ PolicyDue(H)
  /\ HostReconciles([H EXCEPT !.policy = "set"])
  /\ UNCHANGED timer

HostNew ==
  /\ Live(H) /\ H.fin /\ ~PolicyDue(H) /\ H.state = ""
  /\ HostReconciles([H EXCEPT !.id = TRUE, !.state = "AVAILABLE",
                       !.expiry = IF @ = 0 THEN InitialDate + Term ELSE @,
                       !.renewal = IF @ = 0 THEN InitialDate + Lead ELSE @])
  /\ UNCHANGED timer

(***************************************************************************)
(* federationExpiry.  The zero time is long past.                          *)
(***************************************************************************)
\* A variant that sets the next renewal date.
RenewedAgain(f) ==
  IF f.renewal # 0 /\ After(f.renewal)
  THEN [f EXCEPT !.expiry = f.renewal + Term, !.renewal = f.renewal + Lead] ELSE f

\* A renewal that is due replaces the expiry date, once.
Renewed(f) ==
  IF f.renewal # 0 /\ After(f.renewal)
  THEN [f EXCEPT !.expiry = f.renewal + Term, !.renewal = 0] ELSE f

Expired(f) == f.expiry # 0 /\ After(f.expiry)

\* A variant that takes a federation that is not expired for AVAILABLE.
ExaminedAfresh(f) ==
  LET r == Renewed(f)
  IN  IF r.renewal = 0 /\ After(r.expiry)
      THEN [r EXCEPT !.state = "LOCKED", !.expiry = 0]
      ELSE [r EXCEPT !.state = IF Expired(f) THEN "LOCKED" ELSE "AVAILABLE"]

Examined(f) ==
  LET r == Renewed(f)
  IN  IF r.renewal = 0 /\ After(r.expiry)
      THEN [r EXCEPT !.state = "LOCKED", !.expiry = 0]
      ELSE IF Expired(f) THEN [r EXCEPT !.state = "LOCKED"] ELSE r

\* A variant that looks forward to the renewal only.
RenewalAhead(f) == {d \in {f.renewal} : d # 0 /\ ~After(d)}

\* The dates of f that are still to come; the reconciler wakes a second
\* after the first of them, unless it has locked the federation.
Ahead(f) == {d \in {f.expiry, f.renewal} : d # 0 /\ ~After(d)}

Locks(f) == Expired(f) \/ (Renewed(f).renewal = 0 /\ After(Renewed(f).expiry))

\* A variant that wakes later.
WakeLater(f) ==
  {d + 2 : d \in IF Locks(f) THEN {} ELSE Ahead(f)} \cup ({timer} \ {0})

\* An earlier timer that is still set is not put off.
Wake(f) ==
  {d + 1 : d \in IF Locks(f) THEN {} ELSE Ahead(f)} \cup ({timer} \ {0})

HostExamines ==
  /\ Live(H) /\ H.fin /\ ~PolicyDue(H) /\ H.state # ""
  /\ HostReconciles(Examined(H))
  /\ timer' = IF Wake(H) = {} THEN 0
              ELSE CHOOSE t \in Wake(H) : \A u \in Wake(H) : t <= u

\* Updating the admission policy fails: an error, retried, that makes the
\* federation FAILED when it is not a transient one.
PolicyError(f) ==
  {[f EXCEPT !.state = x] : x \in IF f.deleting THEN {f.state} ELSE {f.state, "FAILED"}}

HostPolicyFails ==
  /\ "policy" \in Events
  /\ queue["host"]
  /\ H.deleting \/ (Live(H) /\ H.fin /\ PolicyDue(H))
  /\ \E new \in PolicyError(H) :
       LET f == Merged(cr["host"], H, new)
       IN  Write("host", f) /\ watch' = Seen(f)
  /\ UNCHANGED <<now, cache, queue, timer, run>>

HostReconcile ==
  \/ HostIgnores \/ HostDeletes \/ HostAddsFinalizer
  \/ HostAddsPolicy \/ HostNew \/ HostExamines

TimerFires ==
  /\ timer # 0 /\ timer <= now
  /\ queue' = [queue EXCEPT !["host"] = TRUE]
  /\ timer' = 0
  /\ UNCHANGED <<now, cr, cache, log, run, watch, granted>>
----------------------------------------------------------------------------
(***************************************************************************)
(* The guest's reconciler: one step reads the CR from the cache and makes  *)
(* the reconcile's calls to the host, the next one patches the CR.         *)
(***************************************************************************)
G == cache["guest"]

GuestBegins ==
  /\ queue["guest"] /\ ~run.busy
  /\ UNCHANGED <<now, cache, timer>>

\* The reconcile ends with the patch that makes new of G; again: it failed,
\* or asks to be queued again.
GuestResult(new, again) ==
  /\ run' = [busy |-> TRUE, seen |-> G, new |-> new]
  /\ queue' = [queue EXCEPT !["guest"] = again]

GuestPatches ==
  /\ run.busy
  /\ \E f \in {Merged(cr["guest"], run.seen, run.new)} : Write("guest", f)
  /\ run' = NoRun
  /\ UNCHANGED <<now, cache, queue, timer, watch>>

NoCall == UNCHANGED <<cr, log, watch, granted>>

\* Gone, or LOCKED: nothing but the annotation of the watchers.
GuestIgnores ==
  /\ GuestBegins
  /\ ~G.here \/ (Live(G) /\ G.fin /\ ~PolicyDue(G) /\ G.state = "LOCKED")
  /\ GuestResult([G EXCEPT !.mark = FALSE], FALSE)
  /\ NoCall

\* A deletion waits for the children that refer to the federation.
GuestBlocked ==
  /\ GuestBegins
  /\ G.deleting /\ G.id
  /\ GuestResult(G, TRUE)
  /\ NoCall

\* Deleting the host's CR stops the watcher.
GuestDeletes ==
  /\ GuestBegins
  /\ G.deleting
  /\ Write("host", IF cr["host"].here THEN Kept([cr["host"] EXCEPT !.deleting = TRUE])
                   ELSE cr["host"])
  /\ watch' = NoWatch
  /\ \/ GuestResult([G EXCEPT !.fin = FALSE], FALSE)
     \/ "policy" \in Events /\ GuestResult(G, TRUE)

GuestAddsFinalizer ==
  /\ GuestBegins
  /\ Live(G) /\ ~G.fin
  /\ GuestResult([G EXCEPT !.fin = TRUE, !.policy = "not-set", !.mark = TRUE], FALSE)
  /\ NoCall

GuestAddsPolicy ==
  /\ GuestBegins
  /\ Live(G) /\ G.fin /\ PolicyDue(G)
  /\ \/ GuestResult([G EXCEPT !.policy = "set"], FALSE)
     \/ "policy" \in Events /\ \E f \in PolicyError(G) : GuestResult(f, TRUE)
  /\ NoCall

\* Past the finalizer and the policy.
GuestSettled == Live(G) /\ G.fin /\ ~PolicyDue(G)

\* A variant that takes the host's side for ready.
GuestCreatesReady ==
  /\ GuestBegins
  /\ GuestSettled /\ G.state = ""
  /\ Write("host", IF cr["host"].here THEN cr["host"] ELSE NewFed)
  /\ watch' = IF cr["host"].here \/ watch.st # "none" THEN watch
              ELSE [st |-> "starting", event |-> FALSE]
  /\ GuestResult([G EXCEPT !.state = "AVAILABLE"], FALSE)

\* A copy that was not there yet is watched from now on.
GuestCreates ==
  /\ GuestBegins
  /\ GuestSettled /\ G.state = ""
  /\ Write("host", IF cr["host"].here THEN cr["host"] ELSE NewFed)
  /\ watch' = IF cr["host"].here \/ watch.st # "none" THEN watch
              ELSE [st |-> "starting", event |-> FALSE]
  /\ GuestResult([G EXCEPT !.state = "NOT_AVAILABLE"], FALSE)

\* The first reconcile that finds it AVAILABLE only restarts the watchers.
GuestMarks ==
  /\ GuestBegins
  /\ GuestSettled /\ G.state = "AVAILABLE" /\ G.mark
  /\ GuestResult([G EXCEPT !.mark = FALSE], FALSE)
  /\ NoCall

GuestSyncs == GuestSettled /\ G.state \notin {"", "LOCKED"} /\ ~(G.state = "AVAILABLE" /\ G.mark)

\* UpdateFederationStatus: the host's status replaces the guest's, unless
\* that is AVAILABLE already and the host offers the same zones.  (Nothing
\* reads the guest's copy of the dates, which is left out.)
Copy(f, h) == [f EXCEPT !.state = h.state, !.id = h.id, !.zones = h.zones]

Copied(f, h) ==
  IF h.zones # 0 /\ f.zones = h.zones /\ f.state = "AVAILABLE" THEN f ELSE Copy(f, h)

\* A renewal that a user requires is passed to the host as an annotation.
Asks(f) == f.renew /\ f.state \in {"AVAILABLE", "LOCKED"}

GuestSyncsStatus ==
  /\ GuestBegins
  /\ GuestSyncs /\ cr["host"].here
  /\ LET f == Copied(G, cr["host"])
     IN  IF Asks(f)
         THEN /\ Write("host", [cr["host"] EXCEPT !.renew = TRUE])
              /\ GuestResult([f EXCEPT !.state = "NOT_AVAILABLE", !.renew = FALSE], FALSE)
         ELSE Write("host", cr["host"]) /\ GuestResult(f, FALSE)
  /\ UNCHANGED watch

\* There is nothing to copy the status of: an error, retried.
GuestFindsNoCopy ==
  /\ GuestBegins
  /\ GuestSyncs /\ ~cr["host"].here
  /\ GuestResult([G EXCEPT !.state = "FAILED"], TRUE)
  /\ NoCall

\* A call fails, with a transient error or another; what was set before
\* the call is patched all the same.
CallError(f) == {[f EXCEPT !.state = x] : x \in {f.state, "FAILED"}}

GuestCallFails ==
  /\ "remote" \in Events
  /\ GuestBegins
  /\ \/ G.deleting /\ GuestResult(G, TRUE)
     \/ /\ GuestSettled /\ G.state = ""
        /\ \E f \in CallError([G EXCEPT !.state = "NOT_AVAILABLE"]) : GuestResult(f, TRUE)
     \/ /\ GuestSettled /\ G.state # "" /\ (G.state = "LOCKED" => G.mark)
        /\ \E f \in CallError(G) : GuestResult(f, TRUE)
     \/ /\ GuestSyncs /\ cr["host"].here /\ Asks(Copied(G, cr["host"]))
        /\ \E f \in CallError(Copied(G, cr["host"])) : GuestResult(f, TRUE)
  /\ NoCall

GuestReconcile ==
  \/ GuestIgnores \/ GuestDeletes \/ GuestAddsFinalizer \/ GuestAddsPolicy
  \/ GuestCreates \/ GuestMarks \/ GuestSyncsStatus \/ GuestFindsNoCopy

WatcherLists ==
  /\ watch.st = "starting"
  /\ watch' = [watch EXCEPT !.st = "live"]
  /\ UNCHANGED <<now, cr, cache, log, queue, timer, run, granted>>

\* What the watcher saw queues the guest's CR, past the predicate.
WatcherDelivers ==
  /\ watch.event
  /\ watch' = [watch EXCEPT !.event = FALSE]
  /\ queue' = [queue EXCEPT !["guest"] = TRUE]
  /\ UNCHANGED <<now, cr, cache, log, timer, run, granted>>
----------------------------------------------------------------------------
(***************************************************************************)
(* Time, and operators that restart: their caches are filled again, and    *)
(* every CR they hold is queued.  The guest's watcher of the federation    *)
(* is lost, and nothing starts it again.                                   *)
(***************************************************************************)
HostRestarts ==
  /\ "restart" \in Events
  /\ cache' = [cache EXCEPT !["host"] = cr["host"]]
  /\ log' = [log EXCEPT !["host"] = <<>>]
  /\ queue' = [queue EXCEPT !["host"] = cr["host"].here]
  /\ timer' = 0
  /\ UNCHANGED <<now, cr, run, watch, granted>>

GuestRestarts ==
  /\ "restart" \in Events
  /\ cache' = [cache EXCEPT !["guest"] = cr["guest"]]
  /\ log' = [log EXCEPT !["guest"] = <<>>]
  /\ queue' = [queue EXCEPT !["guest"] = cr["guest"].here]
  /\ run' = NoRun /\ watch' = NoWatch
  /\ UNCHANGED <<now, cr, timer, granted>>

\* The host's operator is late only when it is held up or down.
HostDue == queue["host"] \/ log["host"] # <<>> \/ (timer # 0 /\ timer <= now)

Tick ==
  /\ now < Horizon
  /\ "late" \in Events \/ ~HostDue
  /\ now' = now + 1
  /\ UNCHANGED <<cr, cache, log, queue, timer, run, watch, granted>>

Next ==
  \/ UserRenews \/ UserDeletes
  \/ \E z \in Zones : OrchestratorOffers(z)
  \/ \E d \in Extensions : OrchestratorExtends(d)
  \/ \E s \in Side : Deliver(s) \/ Resync(s)
  \/ HostReconcile \/ HostPolicyFails \/ TimerFires
  \/ GuestReconcile \/ GuestBlocked \/ GuestCallFails \/ GuestPatches
  \/ WatcherLists \/ WatcherDelivers
  \/ HostRestarts \/ GuestRestarts
  \/ Tick

Spec == Init /\ [][Next]_vars

(***************************************************************************)
(* Fairness: the clock goes on, the caches are brought up to date and sent *)
(* through again by the resync, what is queued is reconciled, and calls    *)
(* and policy updates that are tried again and again succeed in the end.   *)
(***************************************************************************)
FairSpec ==
  /\ Spec
  /\ SF_vars(Tick)
  /\ \A s \in Side : WF_vars(Deliver(s)) /\ WF_vars(Resync(s))
  /\ WF_vars(HostReconcile) /\ WF_vars(TimerFires)
  /\ SF_vars(GuestReconcile) /\ WF_vars(GuestPatches)
  /\ WF_vars(WatcherLists) /\ WF_vars(WatcherDelivers)
----------------------------------------------------------------------------
\* A guest's federation that is AVAILABLE has a live host side, which knows
\* its context id: nothing is offered to children that has no counterpart.
GuestBacked ==
  Live(cr["guest"]) /\ cr["guest"].state = "AVAILABLE" =>
    Live(cr["host"]) /\ cr["host"].id

\* A change of the federation's state is on its way to the host's operator,
\* which it passes the predicate of.
Told == \E i \in 1 .. Len(log["host"]) : log["host"][i].state # H.state

\* The host's operator will look at the dates again.
Armed ==
  /\ Live(H) /\ H.fin /\ ~PolicyDue(H) /\ H.state # ""
  /\ queue["host"] \/ timer # 0 \/ Told

\* Once it has looked at the dates, it goes on doing so, whatever is late,
\* stale or restarted and whatever date it is given, until the federation is
\* locked or removed.
StaysArmed ==
  [][Armed => Armed' \/ cr'["host"].state = "LOCKED" \/ ~Live(cr'["host"])]_vars

\* An operator that has looked at the dates and has nothing left to do does
\* not leave a federation AVAILABLE for a second after every expiry date that
\* it has been given.  (It may after the current one, which the renewal or the
\* orchestrator may have brought forward: the timer is for the earlier date.)
LockedInTime ==
  Armed /\ ~HostDue /\ cr["host"].state = "AVAILABLE" => now <= granted

\* No reconcile, however stale what it works on, unlocks a federation: only
\* the orchestrator does, with an expiry date that is ahead.
UnlockedByDate ==
  [][cr["host"].state = "LOCKED" /\ cr'["host"].here /\ cr'["host"].state # "LOCKED"
       => \E d \in Extensions : OrchestratorExtends(d)]_vars

\* Under FairSpec: an armed federation is locked (or removed) in the end.
ArmedGetsLocked ==
  (\A d \in Date : d < Horizon) =>
    (Armed ~> cr["host"].state = "LOCKED" \/ ~Live(cr["host"]))

\* Under FairSpec: a federation that stays, and that once reached the host,
\* is established: the guest gets its context id.
Established ==
  <>[]Live(cr["guest"]) /\ <>(cr["host"].here) => <>cr["guest"].id
----------------------------------------------------------------------------
(***************************************************************************)
(* What the repository says of itself and the code does not do.            *)
(***************************************************************************)

\* "If the current date matches the expiry date, it means that the
\* federation has expired, so we set the state to LOCKED": every federation
\* of the host that stays is locked in the end.
EveryFederationExpires ==
  (\A d \in Date : d < Horizon) =>
    (cr["host"].id ~> cr["host"].state = "LOCKED" \/ ~Live(cr["host"]))
=============================================================================

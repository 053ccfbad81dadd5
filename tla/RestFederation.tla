--------------------------- MODULE RestFederation ---------------------------
(***************************************************************************)
(* A federation of technology REST, seen from the guest operator that      *)
(* creates it: the reconcile of its Federation CR (federation_controller), *)
(* the client that calls the EWBI API of a partner (federation_rest.go),   *)
(* the handlers that answer there, and the cache of HTTP clients (opg.go)  *)
(* that all federations of the operator share.                             *)
(*                                                                         *)
(* A reconcile reads the CR from the informer cache, calls the partner     *)
(* once, and ends with two patches: one of the metadata, one of the        *)
(* status.  Each of these is a step.  The informer cache hears of each     *)
(* patch later, and may still lack both when the next reconcile reads it.  *)
(*                                                                         *)
(* The host's own reconciler is the one of module Federation; here it only *)
(* gives the partner's CR its context id and lets it go when deleted.      *)
(***************************************************************************)
EXTENDS Naturals, Sequences

CONSTANTS
  MaxLag,  \* bound: how many updates may be on their way to the cache
  Events   \* what the environment may do

ASSUME RestFederationAssumption ==
  /\ MaxLag \in Nat \ {0}
  /\ Events \subseteq {"delete", "renew", "ask", "others",
                       "refuse", "lost", "crash", "patch", "policy"}

VARIABLES
  cr,       \* the guest's Federation CR in its API server
  cache,    \* the same in the informer cache
  log,      \* the updates on their way there
  queue,    \* whether it is to be reconciled
  run,      \* the reconcile that is under way
  first,    \* whose client the shared cache holds under the empty context id
  host,     \* host[p]: the CR under the guest's name at partner p
  trouble   \* history: the environment has let the federation down

vars == <<cr, cache, log, queue, run, first, host, trouble>>

(***************************************************************************)
(* The federation's own partner and that of another federation of the same *)
(* operator.  The name of the CR on a partner is made of the operator's    *)
(* identifier and country: both federations claim the same name.           *)
(***************************************************************************)
Partner == {"own", "other"}

State == {"", "NOT_AVAILABLE", "AVAILABLE", "FAILED", "TEMPORARY_FAILURE"}
Meta == {"fin", "policy", "label", "renew", "ask"}
Status == {"state", "id"}

\* renew and ask: annotations by which users require a renewal, and data.
Fed == [here : BOOLEAN, deleting : BOOLEAN, fin : BOOLEAN,
        policy : {"", "not-set", "set"}, label : BOOLEAN,
        renew : BOOLEAN, ask : BOOLEAN, state : State, id : BOOLEAN]
NoFed == [here |-> FALSE, deleting |-> FALSE, fin |-> FALSE, policy |-> "",
          label |-> FALSE, renew |-> FALSE, ask |-> FALSE, state |-> "", id |-> FALSE]
NewFed == [NoFed EXCEPT !.here = TRUE]
Live(f) == f.here /\ ~f.deleting

\* of: whether it is there, and for which of the two federations.
HostCR == [of : {"none", "us", "them"}, id : BOOLEAN, deleting : BOOLEAN]
NoCR == [of |-> "none", id |-> FALSE, deleting |-> FALSE]

Op == {"POST", "DELETE", "RENEW", "INFO"}
Idle == [pc |-> "idle", op |-> "none", to |-> "none", seen |-> NoFed, new |-> NoFed,
         again |-> FALSE]

TypeOK ==
  /\ cr \in Fed /\ cache \in Fed
  /\ log \in Seq(Fed) /\ Len(log) <= MaxLag
  /\ queue \in BOOLEAN
  /\ run \in [pc : {"idle", "call", "meta", "status"}, op : Op \cup {"none"},
              to : Partner \cup {"none"}, seen : Fed, new : Fed, again : BOOLEAN]
  /\ run.pc = "call" => run.to \in Partner
  /\ first \in Partner \cup {"none"}
  /\ host \in [Partner -> HostCR]
  /\ trouble \in BOOLEAN

Init ==
  /\ cr = NewFed /\ cache = NoFed /\ log = <<NewFed>> /\ queue = FALSE
  /\ run = Idle /\ first = "none"
  /\ host = [p \in Partner |-> NoCR]
  /\ trouble = FALSE
----------------------------------------------------------------------------
(***************************************************************************)
(* The guest's API server and its informer cache.                          *)
(***************************************************************************)
Kept(f) == IF f.deleting /\ ~f.fin THEN NoFed ELSE f

Write(f) ==
  /\ cr' = f
  /\ f # cr => Len(log) < MaxLag
  /\ log' = IF f = cr THEN log ELSE Append(log, f)

\* The predicate of the controller, for a guest.
Passes(old, new) ==
  \/ old.here # new.here \/ old.fin # new.fin \/ old.deleting # new.deleting
  \/ new.policy = "not-set" \/ new.renew \/ new.ask

Deliver ==
  /\ log # <<>>
  /\ cache' = Head(log) /\ log' = Tail(log)
  /\ queue' = (queue \/ Passes(cache, Head(log)))
  /\ UNCHANGED <<cr, run, first, host, trouble>>

Resync ==
  /\ cache.here /\ Passes(cache, cache)
  /\ queue' = TRUE
  /\ UNCHANGED <<cr, cache, log, run, first, host, trouble>>

\* A user who creates it again while the partner has the old one is in for
\* a conflict.
UserCreates ==
  /\ ~cr.here
  /\ Write(NewFed)
  /\ trouble' = (trouble \/ host["own"].of # "none")
  /\ UNCHANGED <<cache, queue, run, first, host>>

UserDeletes ==
  /\ "delete" \in Events
  /\ Live(cr)
  /\ Write(Kept([cr EXCEPT !.deleting = TRUE]))
  /\ UNCHANGED <<cache, queue, run, first, host, trouble>>

UserRequires ==
  /\ Live(cr) /\ cr.id
  /\ ~cr.renew /\ ~cr.ask   \* bound: one wish at a time
  /\ \/ "renew" \in Events /\ Write([cr EXCEPT !.renew = TRUE])
     \/ "ask" \in Events /\ Write([cr EXCEPT !.ask = TRUE])
  /\ UNCHANGED <<cache, queue, run, first, host, trouble>>
----------------------------------------------------------------------------
(***************************************************************************)
(* The reconcile, up to the call.                                          *)
(***************************************************************************)
Begin == queue /\ run.pc = "idle" /\ queue' = FALSE
Local == UNCHANGED <<cr, cache, log, host>>

\* The reconcile has computed new from the CR it read.
Result(op, to, new, again) ==
  run' = [pc |-> IF op = "none" THEN "meta" ELSE "call", op |-> op, to |-> to,
          seen |-> cache, new |-> new, again |-> again]

\* A variant that does not make a client that is missing.
CachedClient(f) == IF f.id THEN "own" ELSE first

\* The client under the context id of f; without an id, the one of whoever
\* needed a client first.
GetOPGClient(f) == IF f.id \/ first = "none" THEN "own" ELSE first

Call(op, new) ==
  /\ Result(op, GetOPGClient(cache), new, FALSE)
  /\ first' = IF cache.id \/ first # "none" THEN first ELSE "own"
  /\ UNCHANGED trouble

Ends(new) == Result("none", "none", new, FALSE) /\ UNCHANGED <<first, trouble>>

PolicyDue(f) == f.id /\ f.policy = "not-set"
Settled(f) == Live(f) /\ f.fin /\ ~PolicyDue(f)
Renewing(f) == f.renew /\ f.state = "AVAILABLE"
Asking(f) == f.ask /\ f.state = "AVAILABLE" /\ ~f.renew

Ignores ==
  /\ Begin /\ Local
  /\ ~cache.here \/ (Settled(cache) /\ cache.state # ""
                      /\ ~Renewing(cache) /\ ~Asking(cache))
  /\ UNCHANGED <<run, first, trouble>>

\* Children refer to its context id: looked at again later.
Blocked ==
  /\ cache.deleting /\ cache.id
  /\ queue /\ run.pc = "idle"
  /\ UNCHANGED vars

Deletes == Begin /\ Local /\ cache.deleting /\ Call("DELETE", [cache EXCEPT !.fin = FALSE])

AddsFinalizer ==
  /\ Begin /\ Local
  /\ Live(cache) /\ ~cache.fin
  /\ Ends([cache EXCEPT !.fin = TRUE, !.policy = "not-set"])

AddsPolicy ==
  /\ Begin /\ Local
  /\ Live(cache) /\ cache.fin /\ PolicyDue(cache)
  /\ Ends([cache EXCEPT !.policy = "set"])

\* A variant that takes the answer for granted.
CreatesReady ==
  /\ Begin /\ Local
  /\ Settled(cache) /\ cache.state = ""
  /\ Call("POST", [cache EXCEPT !.state = "AVAILABLE", !.id = TRUE, !.label = TRUE])

Creates ==
  /\ Begin /\ Local
  /\ Settled(cache) /\ cache.state = ""
  /\ Call("POST", [cache EXCEPT !.state = "NOT_AVAILABLE", !.label = TRUE])

Renews == Begin /\ Local /\ Settled(cache) /\ Renewing(cache) /\ Call("RENEW", cache)

Asks == Begin /\ Local /\ Settled(cache) /\ Asking(cache) /\ Call("INFO", cache)

\* Updating the admission policy fails: retried, and FAILED on an error that
\* is not transient.
PolicyFails ==
  /\ "policy" \in Events
  /\ Begin /\ Local
  /\ Live(cache) /\ cache.fin /\ PolicyDue(cache)
  /\ \E s \in {cache.state, "FAILED"} :
       Result("none", "none", [cache EXCEPT !.state = s], TRUE)
  /\ trouble' = TRUE /\ UNCHANGED first

Reconcile ==
  \/ Ignores \/ Deletes \/ AddsFinalizer \/ AddsPolicy \/ Creates \/ Renews \/ Asks
----------------------------------------------------------------------------
(***************************************************************************)
(* The partner's handlers, and what the guest's client makes of their      *)
(* answers: f is what the reconcile had made of the CR by then.            *)
(***************************************************************************)
Answered(f) == run' = [run EXCEPT !.pc = "meta", !.new = f]
Calling(op) == run.pc = "call" /\ run.op = op
Remote == UNCHANGED <<cr, cache, log, queue, first>>

\* A variant that leaves it to a callback to tell the state.
AcceptedOnly(f) == [f EXCEPT !.id = TRUE]

Accepted(f) == [f EXCEPT !.state = "AVAILABLE", !.id = TRUE]

\* A variant for which a name that is taken by us is no conflict.
CreateOrReplace ==
  /\ Calling("POST")
  /\ IF host[run.to].of # "them"
     THEN host' = [host EXCEPT ![run.to] = [NoCR EXCEPT !.of = "us"]]
          /\ Answered(Accepted(run.new))
     ELSE UNCHANGED host /\ Answered([run.new EXCEPT !.state = "FAILED"])
  /\ Remote /\ UNCHANGED trouble

\* The answer carries the context id, which the partner's reconciler has yet
\* to write.  A name that is taken is a conflict.
CreateFederation ==
  /\ Calling("POST")
  /\ IF host[run.to].of = "none"
     THEN host' = [host EXCEPT ![run.to] = [NoCR EXCEPT !.of = "us"]]
          /\ Answered(Accepted(run.new))
     ELSE UNCHANGED host /\ Answered([run.new EXCEPT !.state = "FAILED"])
  /\ Remote /\ UNCHANGED trouble

\* A deletion finds the CR by its context id; not found is an answer like
\* any other.
Finds(p) == run.seen.id /\ host[p].of = "us" /\ host[p].id

DeleteFederationDetails ==
  /\ Calling("DELETE")
  /\ host' = IF Finds(run.to) THEN [host EXCEPT ![run.to].deleting = TRUE] ELSE host
  /\ Answered(run.new)
  /\ Remote /\ UNCHANGED trouble

\* Whatever the answer to it, a renewal makes the federation NOT_AVAILABLE.
Renewed(f) == [f EXCEPT !.state = "NOT_AVAILABLE", !.renew = FALSE]

\* The partner implements no renewal and gives none of the data.
RenewFederation ==
  /\ Calling("RENEW")
  /\ Answered(Renewed(run.new))
  /\ Remote /\ UNCHANGED <<host, trouble>>

GetFederationData ==
  /\ Calling("INFO")
  /\ \E s \in {"FAILED", "TEMPORARY_FAILURE"} :
       Answered([run.new EXCEPT !.state = s, !.ask = FALSE])
  /\ Remote /\ UNCHANGED <<host, trouble>>

Respond ==
  CreateFederation \/ DeleteFederationDetails \/ RenewFederation \/ GetFederationData

\* Another error on the partner's side.  A timeout (408) is not transient:
\* FAILED, too.
Refused ==
  /\ "refuse" \in Events
  /\ run.pc = "call" /\ run.op \in {"POST", "DELETE"}
  /\ \E s \in {"FAILED", "NOT_AVAILABLE"} :
       Answered(IF run.op = "POST" THEN [run.new EXCEPT !.state = s] ELSE run.new)
  /\ trouble' = TRUE
  /\ Remote /\ UNCHANGED host

\* What a lost request may have done.
LostCall ==
  \/ UNCHANGED host
  \/ /\ run.op = "POST" /\ host[run.to].of = "none"
     /\ host' = [host EXCEPT ![run.to] = [NoCR EXCEPT !.of = "us"]]
  \/ /\ run.op = "DELETE" /\ Finds(run.to)
     /\ host' = [host EXCEPT ![run.to].deleting = TRUE]

\* A variant that does not retry a deletion.
LostForGood ==
  /\ "lost" \in Events
  /\ run.pc = "call"
  /\ LostCall
  /\ run' = [run EXCEPT !.pc = "meta",
                        !.new = IF run.op = "POST" THEN @ ELSE run.seen]
  /\ trouble' = TRUE
  /\ Remote

\* The request, or the answer to it, is lost: retried, but what was set
\* before the call is patched all the same.
Lost ==
  /\ "lost" \in Events
  /\ run.pc = "call"
  /\ LostCall
  /\ run' = [run EXCEPT !.pc = "meta", !.again = TRUE,
                        !.new = IF run.op = "POST" THEN @ ELSE run.seen]
  /\ trouble' = TRUE
  /\ Remote

\* Updating the admission policy at a deletion fails: retried.
PolicyRemovalFails ==
  /\ "policy" \in Events
  /\ run.pc = "meta" /\ run.op = "DELETE" /\ ~run.again
  /\ run' = [run EXCEPT !.new = run.seen, !.again = TRUE]
  /\ trouble' = TRUE
  /\ Remote /\ UNCHANGED host
----------------------------------------------------------------------------
(***************************************************************************)
(* The reconcile ends with two merge patches.                              *)
(***************************************************************************)
\* The fields in part that the reconcile has changed, over what the CR is.
Merged(f, part) ==
  IF f.here
  THEN Kept([x \in DOMAIN f |->
               IF x \in part /\ run.new[x] # run.seen[x] THEN run.new[x] ELSE f[x]])
  ELSE f

Finish(again) == run' = Idle /\ queue' = (queue \/ again)

\* The status of a CR that is being deleted is not patched.
PatchMeta ==
  /\ run.pc = "meta"
  /\ Write(Merged(cr, Meta))
  /\ IF run.seen.deleting THEN Finish(run.again)
     ELSE run' = [run EXCEPT !.pc = "status"] /\ UNCHANGED queue
  /\ UNCHANGED <<cache, first, host, trouble>>

\* A variant that writes what it had read, too.
PatchWhole ==
  /\ run.pc = "status"
  /\ Write(IF cr.here THEN [cr EXCEPT !.state = run.new.state, !.id = run.new.id] ELSE cr)
  /\ Finish(run.again)
  /\ UNCHANGED <<cache, first, host, trouble>>

PatchStatus ==
  /\ run.pc = "status"
  /\ Write(Merged(cr, Status))
  /\ Finish(run.again)
  /\ UNCHANGED <<cache, first, host, trouble>>

\* A patch that fails ends the reconcile, and what is left to patch is lost.
PatchFails ==
  /\ "patch" \in Events
  /\ run.pc \in {"meta", "status"}
  /\ Finish(TRUE)
  /\ trouble' = TRUE
  /\ UNCHANGED <<cr, cache, log, first, host>>

\* The operator starts again: its caches of CRs are filled, its cache of
\* HTTP clients is empty.
GuestRestarts ==
  /\ "crash" \in Events
  /\ cache' = cr /\ log' = <<>> /\ queue' = cr.here
  /\ run' = Idle /\ first' = "none"
  /\ trouble' = TRUE
  /\ UNCHANGED <<cr, host>>
----------------------------------------------------------------------------
(***************************************************************************)
(* The partners, and the operator's other federation.                      *)
(***************************************************************************)
HostSetsId(p) ==
  /\ host[p].of = "us" /\ ~host[p].id
  /\ host' = [host EXCEPT ![p].id = TRUE]
  /\ UNCHANGED <<cr, cache, log, queue, run, first, trouble>>

HostLetsGo(p) ==
  /\ host[p].deleting
  /\ host' = [host EXCEPT ![p] = NoCR]
  /\ UNCHANGED <<cr, cache, log, queue, run, first, trouble>>

\* The other federation is created, through the shared client if there is
\* one, or removed from its own partner.
OthersCreate ==
  /\ "others" \in Events
  /\ first' = IF first = "none" THEN "other" ELSE first
  /\ host' = [host EXCEPT ![first'].of = IF @ = "none" THEN "them" ELSE @]
  /\ trouble' = TRUE
  /\ UNCHANGED <<cr, cache, log, queue, run>>

OthersLeave ==
  /\ host["other"].of = "them"
  /\ host' = [host EXCEPT !["other"] = NoCR]
  /\ UNCHANGED <<cr, cache, log, queue, run, first, trouble>>

Next ==
  \/ UserCreates \/ UserDeletes \/ UserRequires
  \/ Deliver \/ Resync
  \/ Reconcile \/ Blocked \/ PolicyFails \/ PolicyRemovalFails
  \/ Respond \/ Refused \/ Lost
  \/ PatchMeta \/ PatchStatus \/ PatchFails
  \/ GuestRestarts
  \/ \E p \in Partner : HostSetsId(p) \/ HostLetsGo(p)
  \/ OthersCreate \/ OthersLeave

Spec == Init /\ [][Next]_vars

(***************************************************************************)
(* Fairness: what is queued is reconciled, the cache is brought up to date *)
(* and sent through again by the resync, a call that is made again and     *)
(* again is answered and a patch that is tried again and again succeeds,   *)
(* also the one that lets a deleted CR go.                                 *)
(***************************************************************************)
FairSpec ==
  /\ Spec
  /\ WF_vars(Deliver) /\ WF_vars(Resync)
  /\ SF_vars(Reconcile) /\ SF_vars(Respond)
  /\ SF_vars(PatchMeta) /\ SF_vars(PatchStatus)
  /\ SF_vars(~run.new.fin /\ PatchMeta)
  /\ \A p \in Partner : WF_vars(HostSetsId(p)) /\ WF_vars(HostLetsGo(p))
----------------------------------------------------------------------------
\* A federation that is AVAILABLE has its context id, and a partner holds a
\* federation for it that nobody is deleting.
Backed ==
  Live(cr) /\ cr.state = "AVAILABLE" =>
    cr.id /\ \E p \in Partner : host[p].of = "us" /\ ~host[p].deleting

\* A federation that has its context id and is not AVAILABLE will not be
\* AVAILABLE again: a renewal, a failed request for data or a repeated
\* creation ends it, whatever runs or is retried later.
NeverBack ==
  [][cr.id /\ cr.state # "AVAILABLE" => cr'.state # "AVAILABLE"]_vars

\* A creation is sent by a reconcile that had seen what earlier ones wrote.
Fresh == Calling("POST") => run.seen.state = cr.state

\* Users require neither a renewal nor data.
Quiet == ~cr.renew /\ ~cr.ask

\* A federation that stays gets AVAILABLE and stays so, if nothing lets it
\* down, no user requires anything of it, and no creation is sent again only
\* because the cache is slower than the queue.
Established ==
  <>[]Live(cr) /\ [](~trouble /\ Quiet /\ Fresh) => <>[](cr.state = "AVAILABLE")

\* The deletion of a federation that no child refers to completes.
RemovalCompletes == []<>~cr.deleting
=============================================================================

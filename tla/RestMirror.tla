----------------------------- MODULE RestMirror -----------------------------
(***************************************************************************)
(* How a guest operator mirrors its children when the federation's         *)
(* technology is REST.  The reconcilers are those of module ChildMirror,   *)
(* with other clients (internal/rest): instead of the host's API server    *)
(* they call the EWBI API of the host (pkg/handler, pkg/metastore), which  *)
(* creates and deletes the copies.  The state of a copy comes back in      *)
(* callbacks that the host's reconcilers send to the EWBI API of the       *)
(* guest.                                                                  *)
(*                                                                         *)
(* A request is sent, executed and answered in separate steps.  Its answer *)
(* may be lost, and a request that its sender has given up, or whose       *)
(* sender is gone, may still be executed.                                  *)
(*                                                                         *)
(* Zones and consumption monitoring are not mirrored over REST: their      *)
(* clients do nothing.  A reconcile of a deployment does not look at its   *)
(* zone.                                                                   *)
(***************************************************************************)
EXTENDS ChildMirror, Naturals

CONSTANTS
  Network,   \* what may happen to a request: that it is refused, or lost, and
             \* for which operations that it is executed after its sender gave up
  MaxLate    \* bound: how many given-up requests may be on their way

RestKinds == {"Image", "Artefact", "ApplicationOnboarding", "ApplicationDeployment"}

ASSUME RestAssumption ==
  /\ \A o \in Obj : Kind[o] \in RestKinds
  /\ Network \subseteq {"refuse", "lost", "POST", "DELETE", "callback"}

VARIABLES
  answer,  \* answer[o]: the host's answer to the request of o's reconcile, or
           \* "written" once the client has written the child's status itself
  call,    \* call[h]: the callback of the host's reconcile of h
  late,    \* given-up requests that are still on their way
  strays   \* the copies that the guest may have released but not deleted

restVars == <<vars, answer, call, late, strays>>
netVars == <<answer, call, late, strays>>

(***************************************************************************)
(* What a caller may get: success, one of the status codes that the        *)
(* callers tell apart (404 stands for 401 too, 409 for 422, 5xx for 503    *)
(* and 520), or no answer.                                                 *)
(***************************************************************************)
Refusals == {"400", "404", "409", "500", "5xx"}
Code == {"2xx", "lost"} \cup Refusals

NoCall == [pc |-> "idle", state |-> "", code |-> "none"]

RestTypeOK ==
  /\ TypeOK
  /\ answer \in [Obj -> {"none", "written"} \cup Code]
  /\ call \in [Name -> [pc : {"idle", "sent", "answered"}, state : State,
                        code : {"none"} \cup Code]]
  /\ late \subseteq [op : {"POST", "DELETE", "callback"}, to : Name, state : State]
  /\ strays \subseteq Name

RestInit ==
  /\ Init
  /\ answer = [o \in Obj |-> "none"]
  /\ call = [h \in Name |-> NoCall]
  /\ late = {} /\ strays = {}
----------------------------------------------------------------------------
(***************************************************************************)
(* What the guest's client makes of the answer to a creation.              *)
(***************************************************************************)

CreateImage(c) == IF c = "2xx" THEN "PENDING" ELSE "FAILED"

CreateArtefact(c) == IF c \in {"400", "404", "409"} THEN "FAILED" ELSE "PENDING"

CreateApplicationOnboarding(c) ==
  IF c \in {"2xx", "lost"} THEN "PENDING" ELSE "FAILED"

CreateApplicationDeployment(c) ==
  IF c \in {"404", "409", "500", "lost"} THEN "FAILED" ELSE "PENDING"

Created(k, c) ==
  CASE k = "Image" -> CreateImage(c)
    [] k = "Artefact" -> CreateArtefact(c)
    [] k = "ApplicationOnboarding" -> CreateApplicationOnboarding(c)
    [] k = "ApplicationDeployment" -> CreateApplicationDeployment(c)

\* The answers that the client returns as an error.
CreateError(k, c) == c = "lost" \/ (c = "400" /\ k # "ApplicationDeployment")

\* The clients of applications and deployments write the status themselves,
\* with the version they read: a child that has changed is a conflict.
WritesStatus(k) == k \in {"ApplicationOnboarding", "ApplicationDeployment"}

\* A write with the version that was read, of a child that has changed since.
Conflict(o) ==
  /\ WritesStatus(Kind[o])
  /\ run[o].pc = "patch" => answer[o] = "written"
  /\ guest[o] # run[o].seen

\* The answer is in: the reconcile goes on to its final patch with state s
\* and finalizer fin.
Continue(o, s, fin, again) ==
  LET r == [run[o] EXCEPT !.pc = "patch", !.state = s, !.again = again]
      writes == WritesStatus(Kind[o]) /\ ~again
      conflict == writes /\ Conflict(o)
  IN  /\ guest' = IF writes /\ ~conflict THEN [guest EXCEPT ![o].state = s] ELSE guest
      /\ Step(o, IF conflict THEN [r EXCEPT !.again = TRUE]
                 ELSE IF writes THEN [r EXCEPT !.fin = fin, !.seen.state = s]
                 ELSE [r EXCEPT !.fin = fin])
      /\ answer' = [answer EXCEPT ![o] = IF writes /\ ~conflict THEN "written" ELSE "none"]

CreateAnswered(o) ==
  /\ run[o].pc = "lookup" /\ answer[o] # "none"
  /\ Continue(o, Created(Kind[o], answer[o]), TRUE, CreateError(Kind[o], answer[o]))
  /\ UNCHANGED <<cache, queue, host, fed, call, late, strays>>

\* Whatever the answer to a deletion, the finalizer is removed; a copy that
\* the host has refused to delete is left behind.
DeleteAnswered(o) ==
  /\ run[o].pc = "delete" /\ answer[o] # "none"
  /\ Continue(o, "FAILED", FALSE, FALSE)
  /\ strays' = IF answer[o] # "2xx" /\ Live(host[HostName[o]])
               THEN strays \cup {HostName[o]} ELSE strays
  /\ UNCHANGED <<cache, queue, host, fed, call, late>>

\* A final patch after the client's own write carries the version that this
\* write returned: a child that has changed since is a conflict, retried.
PatchWritten(o) ==
  /\ run[o].pc = "patch" /\ answer[o] = "written"
  /\ IF ~Conflict(o) THEN Patch(o)
     ELSE /\ queue' = queue \cup {o}
          /\ run' = [run EXCEPT ![o] = Idle]
          /\ UNCHANGED <<guest, cache, host, fed>>
  /\ answer' = [answer EXCEPT ![o] = "none"]
  /\ UNCHANGED <<call, late, strays>>

RestPatch(o) ==
  \/ answer[o] = "none" /\ Patch(o) /\ UNCHANGED netVars
  \/ PatchWritten(o)

RestPatchFails(o) ==
  /\ PatchFails(o)
  /\ answer' = [answer EXCEPT ![o] = "none"]
  /\ UNCHANGED <<call, late, strays>>

\* A child that is not new waits for callbacks: its reconcile does nothing.
AwaitCallback(o) ==
  /\ run[o].pc = "get"
  /\ Step(o, [run[o] EXCEPT !.pc = "patch"])
  /\ UNCHANGED <<guest, cache, queue, host, fed, netVars>>
----------------------------------------------------------------------------
(***************************************************************************)
(* The EWBI API of the host.                                               *)
(***************************************************************************)

\* Kinds whose copy the handler of the deletion finds.  It looks for an
\* application under another name than the one it was created with, and
\* exchanges the identifiers of a deployment and of its application.
Found(k) == k \in {"Image", "Artefact"}

KindOf(h) == Kind[CHOOSE o \in Obj : HostName[o] = h]

Request(o) ==
  [op |-> IF run[o].pc = "lookup" THEN "POST" ELSE "DELETE", to |-> HostName[o], state |-> ""]

Sent(o) == run[o].pc \in {"lookup", "delete"} /\ answer[o] = "none"

\* A variant that replaces a copy that exists.
CreatesOver(h) == host' = [host EXCEPT ![h] = NewCR]

\* A creation; a copy that exists is a conflict.
HostCreates(h) == host' = [host EXCEPT ![h] = IF @.here THEN @ ELSE NewCR]

HostDeletes(h) ==
  host' = [host EXCEPT ![h] = IF Found(KindOf(h)) /\ @.here THEN Deleted(@) ELSE @]

Answer(o, c) == answer' = [answer EXCEPT ![o] = c]

PostArrives(o) ==
  /\ Sent(o) /\ run[o].pc = "lookup"
  /\ HostCreates(HostName[o])
  /\ Answer(o, IF host[HostName[o]].here THEN "409" ELSE "2xx")
  /\ UNCHANGED <<guest, cache, queue, run, fed, call, late, strays>>

DeleteArrives(o) ==
  /\ Sent(o) /\ run[o].pc = "delete"
  /\ HostDeletes(HostName[o])
  /\ Answer(o, IF Found(Kind[o]) /\ host[HostName[o]].here THEN "2xx" ELSE "500")
  /\ UNCHANGED <<guest, cache, queue, run, fed, call, late, strays>>

\* The host refuses a request: it fails to list its federations, say, or
\* does not find the one the request names.
Refused(o) ==
  /\ "refuse" \in Network
  /\ Sent(o)
  /\ \E c \in Refusals : Answer(o, c)
  /\ UNCHANGED <<vars, call, late, strays>>

\* Those of the requests in rs that may yet arrive.
GivenUp(rs) ==
  \/ UNCHANGED late
  \/ \E r \in rs : /\ r.op \in Network /\ Cardinality(late \cup {r}) <= MaxLate
                   /\ late' = late \cup {r}

\* A variant that does not queue the child again.
RequestLostForGood(o) ==
  /\ "lost" \in Network
  /\ run[o].pc \in {"lookup", "delete"}
  /\ Step(o, [run[o] EXCEPT !.pc = "patch",
                !.state = IF run[o].pc = "lookup" THEN Created(Kind[o], "lost") ELSE @])
  /\ Answer(o, "none")
  /\ UNCHANGED <<guest, cache, queue, host, fed, call, late, strays>>

\* The request or its answer is lost, which is an error: retried.
RequestLost(o) ==
  /\ "lost" \in Network
  /\ run[o].pc \in {"lookup", "delete"}
  /\ GivenUp(IF Sent(o) THEN {Request(o)} ELSE {})
  /\ Step(o, [run[o] EXCEPT !.pc = "patch", !.again = TRUE,
                !.state = IF run[o].pc = "lookup" THEN Created(Kind[o], "lost") ELSE @])
  /\ Answer(o, "none")
  /\ UNCHANGED <<guest, cache, queue, host, fed, call, strays>>
----------------------------------------------------------------------------
(***************************************************************************)
(* Callbacks: every reconcile of a copy that is not new sends one.         *)
(***************************************************************************)

SendCallback(h) ==
  /\ call[h].pc = "idle"
  /\ Live(host[h]) /\ host[h].fin /\ host[h].state # ""
  /\ call' = [call EXCEPT ![h] = [pc |-> "sent", state |-> host[h].state, code |-> "none"]]
  /\ UNCHANGED <<vars, answer, late, strays>>

\* A variant that does not look for the child.
AddressedUnseen(h) == {o \in Obj : HostName[o] = h}

\* The guest's child that a callback about h is for, as the guest's handler
\* finds it: in the API server, deleting or not.
Addressed(h) == {o \in Obj : HostName[o] = h /\ guest[o].here}

\* A variant for which an answer that is in is final.
InformOnce(h, s) ==
  IF Addressed(h) = {} THEN UNCHANGED guest
  ELSE \E o \in Addressed(h) :
         guest' = [guest EXCEPT ![o].state = IF @ = "PENDING" THEN s ELSE @]

\* The handler writes the state, whatever the child's is.
Inform(h, s) ==
  IF Addressed(h) = {} THEN UNCHANGED guest
  ELSE \E o \in Addressed(h) : guest' = [guest EXCEPT ![o].state = s]

Returned(h, c) == call' = [call EXCEPT ![h].pc = "answered", ![h].code = c]

CallbackArrives(h) ==
  /\ call[h].pc = "sent"
  /\ Inform(h, call[h].state)
  /\ Returned(h, IF Addressed(h) = {} THEN "500" ELSE "2xx")
  /\ UNCHANGED <<cache, queue, run, host, fed, answer, late, strays>>

CallbackRefused(h) ==
  /\ "refuse" \in Network
  /\ call[h].pc = "sent"
  /\ \E c \in Refusals : Returned(h, c)
  /\ UNCHANGED <<vars, answer, late, strays>>

CallbackLost(h) ==
  /\ "lost" \in Network
  /\ call[h].pc # "idle"
  /\ GivenUp(IF call[h].pc = "sent"
             THEN {[op |-> "callback", to |-> h, state |-> call[h].state]} ELSE {})
  /\ Returned(h, "lost")
  /\ UNCHANGED <<vars, answer, strays>>

(***************************************************************************)
(* What the host's client makes of the answer: the new state of the copy   *)
(* that was in state s.                                                    *)
(***************************************************************************)
UpdateFileStatus(c, s) == IF c \in {"2xx", "lost"} THEN s ELSE "FAILED"

UpdateApplicationOnboardingStatus(c, s) ==
  CASE c = "2xx" -> s
    [] c \in {"lost", "400", "404"} -> "FAILED"
    [] OTHER -> "PENDING"

UpdateApplicationDeploymentStatus(c, s) ==
  CASE c \in {"2xx", "lost"} -> s
    [] c \in {"400", "404"} -> "FAILED"
    [] OTHER -> "PENDING"

Updated(k, c, s) ==
  CASE k \in {"Image", "Artefact"} -> UpdateFileStatus(c, s)
    [] k = "ApplicationOnboarding" -> UpdateApplicationOnboardingStatus(c, s)
    [] k = "ApplicationDeployment" -> UpdateApplicationDeploymentStatus(c, s)

\* The reconcile ends with a patch of what it changed, over what the copy
\* has become since it was read.
CallbackReturns(h) ==
  /\ call[h].pc = "answered"
  /\ LET s == Updated(KindOf(h), call[h].code, call[h].state)
     IN  host' = [host EXCEPT ![h].state = IF s # call[h].state /\ host[h].here THEN s ELSE @]
  /\ call' = [call EXCEPT ![h] = NoCall]
  /\ UNCHANGED <<guest, cache, queue, run, fed, answer, late, strays>>
----------------------------------------------------------------------------
(***************************************************************************)
(* Late requests, and operators that restart while requests are on their   *)
(* way.                                                                    *)
(***************************************************************************)

LateArrives(m) ==
  /\ m \in late
  /\ late' = late \ {m}
  /\ CASE m.op = "POST" -> /\ HostCreates(m.to)
                           /\ strays' = IF host[m.to].here THEN strays ELSE strays \cup {m.to}
                           /\ UNCHANGED guest
       [] m.op = "DELETE" -> HostDeletes(m.to) /\ UNCHANGED <<guest, strays>>
       [] m.op = "callback" -> Inform(m.to, m.state) /\ UNCHANGED <<host, strays>>
  /\ UNCHANGED <<cache, queue, run, fed, answer, call>>

GuestRestarts ==
  /\ Crash
  /\ GivenUp({Request(o) : o \in {p \in Obj : Sent(p)}})
  /\ answer' = [o \in Obj |-> "none"]
  /\ UNCHANGED <<call, strays>>

HostRestarts ==
  /\ "crash" \in Faults
  /\ GivenUp({[op |-> "callback", to |-> h, state |-> call[h].state]
                : h \in {g \in Name : call[g].pc = "sent"}})
  /\ call' = [h \in Name |-> NoCall]
  /\ UNCHANGED <<vars, answer, strays>>
----------------------------------------------------------------------------
(***************************************************************************)
(* The rest is as in ChildMirror.                                          *)
(***************************************************************************)

\* A hasty user re-creates a child while its old copy is still on the host,
\* or requests about it are on their way.
UserRecreates(o) ==
  /\ UserCreate(o)
  /\ host[HostName[o]].here \/ call[HostName[o]].pc # "idle" \/ late # {}
       => "recreate" \in Faults
  /\ UNCHANGED netVars

Guests(o) ==
  /\ UserDelete(o) \/ CacheSync(o) \/ Enqueue(o)
  /\ UNCHANGED netVars

RestReconcile(o) == ReconcileAny(o) /\ UNCHANGED netVars

Respond(o) == PostArrives(o) \/ DeleteArrives(o)

HostReconciles(h) ==
  /\ HostAddFinalizer(h) \/ HostSetPending(h) \/ OrchestratorDecides(h)
  /\ UNCHANGED netVars

HostLetsGo(h) ==
  /\ HostRemoveFinalizer(h)
  /\ strays' = strays \ {h}
  /\ UNCHANGED <<answer, call, late>>

RestNext ==
  \/ \E o \in Obj :
       \/ UserRecreates(o) \/ Guests(o) \/ RestReconcile(o) \/ AwaitCallback(o)
       \/ Respond(o) \/ Refused(o) \/ RequestLost(o)
       \/ CreateAnswered(o) \/ DeleteAnswered(o)
       \/ RestPatch(o) \/ RestPatchFails(o)
  \/ \E h \in Name :
       \/ HostReconciles(h) \/ HostLetsGo(h)
       \/ SendCallback(h) \/ CallbackArrives(h) \/ CallbackRefused(h) \/ CallbackLost(h)
       \/ CallbackReturns(h)
  \/ \E m \in late : LateArrives(m)
  \/ \E s \in {"AVAILABLE", "LOCKED", "OTHER"} : FederationStatus(s) /\ UNCHANGED netVars
  \/ FederationRemoved /\ UNCHANGED netVars
  \/ GuestRestarts \/ HostRestarts

RestSpec == RestInit /\ [][RestNext]_restVars

(***************************************************************************)
(* Fairness.  As in ChildMirror for the guest.  Requests, their answers    *)
(* and callbacks may be lost any number of times, but not for ever.  The   *)
(* host's reconcilers run, and send their callbacks again: at the latest   *)
(* when the host's manager resyncs.  The guest's writes that carry a       *)
(* version may lose against callbacks any number of times, but not for     *)
(* ever.                                                                   *)
(***************************************************************************)
GuestFair == \A o \in Obj :
  /\ WF_restVars(CacheSync(o) /\ UNCHANGED netVars)
  /\ WF_restVars(RestReconcile(o) \/ AwaitCallback(o))
  /\ SF_restVars(Respond(o) \/ Refused(o))
  /\ WF_restVars(CreateAnswered(o) \/ DeleteAnswered(o) \/ RestPatch(o))
  /\ SF_restVars(~Conflict(o) /\ (CreateAnswered(o) \/ DeleteAnswered(o)))
  /\ SF_restVars(~Conflict(o) /\ PatchWritten(o))

HostFair == \A h \in Name :
  /\ WF_restVars((HostAddFinalizer(h) \/ HostSetPending(h)) /\ UNCHANGED netVars)
  /\ WF_restVars(HostLetsGo(h))
  /\ WF_restVars(SendCallback(h))
  /\ SF_restVars(CallbackArrives(h))
  /\ WF_restVars(CallbackReturns(h))

RestFairSpec == RestSpec /\ GuestFair /\ HostFair
----------------------------------------------------------------------------
(***************************************************************************)
(* Safety.                                                                 *)
(***************************************************************************)

\* Every copy nobody has asked the host to delete belongs to a child that
\* still holds its finalizer, but for those left behind by a deletion that
\* the host refused or by a creation that came late.
KeptOrStray ==
  \A h \in Name :
    Live(host[h]) => h \in strays \/ \E o \in Obj : HostName[o] = h /\ Held(o)

\* A child reported READY has a copy on the host that nobody is deleting,
\* where no deletion comes late.
ReadyOverRest == "DELETE" \notin Network => ReadyHasCopy
----------------------------------------------------------------------------
(***************************************************************************)
(* Liveness.                                                               *)
(***************************************************************************)

\* The state that a copy keeps comes back to its child, whatever callbacks
\* are lost, delayed or overwritten by the child's own reconcile.
AnswerReaches ==
  \A o \in Obj : \A s \in State \ {""} :
    <>[](Live(guest[o]) /\ Live(host[HostName[o]]) /\ host[HostName[o]].state = s)
      => <>[](guest[o].state = s)

\* A deletion completes without waiting for a resync, as in ChildMirror.  The
\* callbacks about an application or a deployment whose copy keeps changing
\* may hold its deletion up.
Settles(h) == \E s \in State : <>[](host[h].state = s)

RestDeletionCompletes ==
  \A o \in Obj :
    /\ [](guest[o].here \/ cache[o].here => fed = "AVAILABLE")
    /\ <>[](\A u \in Dependents(o) : ~guest[u].here)
    /\ WritesStatus(Kind[o]) => Settles(HostName[o])
    => []<>~guest[o].deleting

\* "If you delete guest ones, mirrored host resources will get deleted": while
\* the federation is AVAILABLE, the copy of a child being deleted goes, unless
\* the child is created again.
DeletionReachesHost ==
  \A o \in Obj :
    [](guest[o].here \/ cache[o].here => fed = "AVAILABLE")
      => (guest[o].deleting ~> Live(guest[o]) \/ ~Live(host[HostName[o]]))
=============================================================================

------------------------- MODULE RestMirror_proofs -------------------------
(***************************************************************************)
(* Proofs of the safety of RestMirror, for any children of the four kinds  *)
(* that are mirrored over REST, any names, references, answers and faults, *)
(* and whatever the network does.                                          *)
(***************************************************************************)
EXTENDS RestMirrorInv, ChildMirror_proofs

\* Everything but what ReadyOverRest needs, which assumes more of the users.
RestCore ==
  /\ RestTypeOK
  /\ Addresses
  /\ \A o \in Obj : ChildInv(o) /\ AnswerTaken(o)
  /\ RestAnswered

Requests == [op : {"POST", "DELETE", "callback"}, to : Name, state : State]

LEMMA CoreFields ==
  ASSUME RestCore
  PROVE  /\ TypeOK
         /\ answer \in [Obj -> {"none", "written"} \cup Code]
         /\ call \in [Name -> [pc : {"idle", "sent", "answered"}, state : State,
                               code : {"none"} \cup Code]]
         /\ late \subseteq Requests /\ strays \subseteq Name
         /\ \A o \in Obj : /\ guest[o] \in CR /\ cache[o] \in CR /\ run[o] \in Run
                           /\ HostName[o] \in Name /\ host[HostName[o]] \in CR
                           /\ Kind[o] \in RestKinds
                           /\ ChildInv(o) /\ AnswerTaken(o)
         /\ \A h \in Name : host[h] \in CR
  BY ConstantsAssumption, RestAssumption DEF RestCore, RestTypeOK, TypeOK, Requests

----------------------------------------------------------------------------
(***************************************************************************)
(* How a step is seen to preserve the invariant.                           *)
(***************************************************************************)

\* Nothing is on its way but what was, or what a reconcile or a callback sent.
LEMMA AddressesKept ==
  ASSUME Addresses,
         \A h \in Name : host'[h].here => host[h].here \/ Named(h),
         \A h \in Name : call'[h].pc # "idle" => call[h].pc # "idle" \/ Named(h),
         \A m \in late' : m \in late \/ (m.op \in Network /\ Named(m.to))
  PROVE  Addresses'
  BY DEF Addresses, Named

LEMMA GivenUps ==
  ASSUME NEW rs \in SUBSET Requests, GivenUp(rs), late \subseteq Requests
  PROVE  /\ late' \subseteq Requests /\ late \subseteq late'
         /\ \A m \in late' : m \in late \/ (m \in rs /\ m.op \in Network)
  BY DEF GivenUp

\* A copy keeps its keeper unless the host has confirmed its deletion.
Keeps(o) == Keeper(o) /\ ~Confirmed(o)

\* A step after which every child is as it was to its copy.
LEMMA CoreKept ==
  ASSUME RestCore, RestTypeOK', Addresses',
         \A o \in Obj : ChildInv(o)' /\ AnswerTaken(o)' /\ (Keeps(o) => Keeps(o)'),
         \A h \in Name : Live(host'[h]) =>
           Live(host[h]) /\ (h \in strays => h \in strays')
  PROVE  RestCore'
<1>1. RestAnswered'
  BY DEF RestCore, RestAnswered, Keeps
<1> QED
  BY <1>1 DEF RestCore

\* A step disturbs the children it touches only.
LEMMA RestUntouched ==
  ASSUME NEW o \in Obj, ChildInv(o), AnswerTaken(o),
         guest'[o] = guest[o], cache'[o] = cache[o], run'[o] = run[o],
         answer'[o] = answer[o]
  PROVE  ChildInv(o)' /\ AnswerTaken(o)' /\ (Keeps(o) => Keeps(o)')
<1>1. ChildInv(o)' /\ (Keeper(o) => Keeper(o)')
  BY Untouched
<1>2. AnswerTaken(o)' /\ (~Confirmed(o) => ~Confirmed(o)')
  BY DEF AnswerTaken, Confirmed
<1> QED
  BY <1>1, <1>2 DEF Keeps

\* A step of one child that changes no copy.
LEMMA OneOfRest ==
  ASSUME RestCore, RestTypeOK', Addresses', NEW o \in Obj,
         \A p \in Obj : p # o => /\ guest'[p] = guest[p] /\ cache'[p] = cache[p]
                               /\ run'[p] = run[p] /\ answer'[p] = answer[p],
         \A h \in Name : Live(host'[h]) =>
           Live(host[h]) /\ (h \in strays => h \in strays'),
         ChildInv(o)', AnswerTaken(o)', Keeps(o) => Keeps(o)'
  PROVE  RestCore'
<1>1. \A p \in Obj : ChildInv(p)' /\ AnswerTaken(p)' /\ (Keeps(p) => Keeps(p)')
  BY RestUntouched DEF RestCore
<1> QED
  BY <1>1, CoreKept

\* A step that touches no child and makes no copy live.
LEMMA RestElsewhere ==
  ASSUME RestCore, RestTypeOK', Addresses',
         UNCHANGED <<guest, cache, run, answer>>,
         \A h \in Name : Live(host'[h]) =>
           Live(host[h]) /\ (h \in strays => h \in strays')
  PROVE  RestCore'
<1>1. \A p \in Obj : ChildInv(p)' /\ AnswerTaken(p)' /\ (Keeps(p) => Keeps(p)')
  BY RestUntouched DEF RestCore
<1> QED
  BY <1>1, CoreKept

LEMMA CoreInit == RestInit => RestCore
<1> SUFFICES ASSUME RestInit PROVE RestCore
  OBVIOUS
<1>1. TypeOK /\ \A o \in Obj : ChildInv(o)
  BY MirrorInit DEF RestInit, MirrorInv
<1>2. \A h \in Name : ~host[h].here
  BY DEF RestInit, Init, NoCR
<1>3. RestTypeOK
  <2>1. NoCall \in [pc : {"idle", "sent", "answered"}, state : State,
                    code : {"none"} \cup Code]
    BY DEF NoCall, State
  <2> QED
    BY <1>1, <2>1 DEF RestInit, RestTypeOK
<1>4. Addresses
  BY <1>2 DEF RestInit, Addresses, NoCall
<1>5. \A o \in Obj : AnswerTaken(o)
  BY DEF RestInit, Init, AnswerTaken, Idle, Code, Refusals
<1>6. RestAnswered
  BY <1>2 DEF RestAnswered, Live
<1> QED
  BY <1>1, <1>3, <1>4, <1>5, <1>6 DEF RestCore
----------------------------------------------------------------------------
(***************************************************************************)
(* The guest.                                                              *)
(***************************************************************************)

\* A step of the children that the network does not notice.
LEMMA QuietTypes ==
  ASSUME RestTypeOK, Next, UNCHANGED netVars
  PROVE  RestTypeOK'
<1>1. TypeOK'
  BY TypeNext DEF RestTypeOK
<1> QED
  BY <1>1 DEF RestTypeOK, netVars

LEMMA QuietAddresses ==
  ASSUME RestCore, UNCHANGED <<call, late>>,
         \A h \in Name : host'[h].here => host[h].here
  PROVE  Addresses'
  BY AddressesKept DEF RestCore

LEMMA CoreGuest ==
  ASSUME RestCore, NEW o \in Obj,
         UserCreate(o) \/ UserDelete(o) \/ CacheSync(o) \/ Enqueue(o) \/ ReconcileAny(o),
         UNCHANGED netVars
  PROVE  RestCore'
<1>1. TypeOK /\ guest[o] \in CR /\ ChildInv(o) /\ AnswerTaken(o)
      /\ answer \in [Obj -> {"none", "written"} \cup Code]
  BY CoreFields
<1>2. RestTypeOK'
  BY QuietTypes DEF RestCore, Next
<1>3. UNCHANGED <<host, answer, call, late, strays>>
      /\ \A p \in Obj : p # o => /\ guest'[p] = guest[p] /\ cache'[p] = cache[p]
                               /\ run'[p] = run[p]
  <2>1. CASE ReconcileAny(o)
    BY <1>1, <2>1, Planned DEF TypeOK, netVars
  <2>2. CASE UserCreate(o) \/ UserDelete(o) \/ CacheSync(o) \/ Enqueue(o)
    BY <1>1, <2>2 DEF TypeOK, netVars, UserCreate, UserDelete, CacheSync, Enqueue
  <2> QED
    BY <2>1, <2>2
<1>4. Addresses'
  BY <1>3, QuietAddresses
<1>5. ChildInv(o)' /\ (Keeper(o) => Keeper(o)')
  <2>1. CASE UserCreate(o) \/ UserDelete(o)
    BY <1>1, <2>1, ChildUser
  <2>2. CASE CacheSync(o)
    BY <1>1, <2>2, ChildCache
  <2>3. CASE Enqueue(o)
    BY <1>1, <2>3, Untouched DEF Enqueue
  <2>4. CASE ReconcileAny(o)
    BY <1>1, <2>4, ChildReconcile
  <2> QED
    BY <2>1, <2>2, <2>3, <2>4
<1>6. AnswerTaken(o)' /\ (~Confirmed(o) => ~Confirmed(o)')
  <2>1. CASE ReconcileAny(o)
    <3>1. CASE run' = run
      BY <1>1, <1>3, <3>1 DEF AnswerTaken, Confirmed
    <3>2. ASSUME NEW r \in Run, Plan(o, r), run' = [run EXCEPT ![o] = r]
          PROVE  AnswerTaken(o)' /\ ~Confirmed(o)'
      <4>1. run[o].pc = "idle"
        BY <2>1 DEF ReconcileAny, ReconcileImage, ReconcileArtefact,
           ReconcileApplicationOnboarding, ReconcileApplicationDeployment,
           ReconcileAvailabilityZone, ReconcileConsumptionMonitoring, Reconcile,
           Ignore, NoFederation, StartDelete, AddFinalizer, AwaitPrerequisites,
           StartCreate, StartUpdateStatus, Begin
      <4>2. answer[o] = "none"
        BY <1>1, <4>1 DEF AnswerTaken
      <4>3. run'[o] = r /\ r.pc # "apply"
        BY <1>1, <3>2 DEF TypeOK, Plan
      <4> QED
        BY <1>3, <4>2, <4>3 DEF AnswerTaken, Confirmed, Code, Refusals
    <3> QED
      BY <1>1, <2>1, <3>1, <3>2, Planned
  <2>2. CASE UserCreate(o) \/ UserDelete(o) \/ CacheSync(o) \/ Enqueue(o)
    <3>1. UNCHANGED run
      BY <2>2 DEF UserCreate, UserDelete, CacheSync, Enqueue
    <3> QED
      BY <1>1, <1>3, <3>1 DEF AnswerTaken, Confirmed
  <2> QED
    BY <2>1, <2>2
<1>7. \A p \in Obj : answer'[p] = answer[p]
  BY <1>3
<1> QED
  BY <1>2, <1>3, <1>4, <1>5, <1>6, <1>7, OneOfRest DEF Keeps

\* A reconcile that ends, with its patch or without.
LEMMA CoreEnds ==
  ASSUME RestCore, NEW o \in Obj,
         run[o].pc = "patch", run' = [run EXCEPT ![o] = Idle],
         guest' = guest \/ guest' = [guest EXCEPT ![o] = Patched(o)],
         queue' = queue \/ queue' = queue \cup {o},
         answer' = [answer EXCEPT ![o] = "none"],
         UNCHANGED <<cache, host, fed, call, late, strays>>
  PROVE  RestCore'
<1>1. TypeOK /\ ChildInv(o) /\ answer \in [Obj -> {"none", "written"} \cup Code]
  BY CoreFields
<1>2. Idle \in Run /\ Idle.pc = "idle"
  BY CRs DEF Idle, Run, Remote, State
<1>3. RestTypeOK'
  <2>1. TypeOK'
    BY <1>1, <1>2, PatchedCR DEF TypeOK
  <2> QED
    BY <1>1, <2>1 DEF RestCore, RestTypeOK
<1>4. Addresses'
  BY QuietAddresses
<1>5. /\ run'[o] = Idle /\ answer'[o] = "none"
      /\ guest'[o] = guest[o] \/ guest'[o] = Patched(o)
      /\ \A p \in Obj : p # o => /\ guest'[p] = guest[p] /\ cache'[p] = cache[p]
                               /\ run'[p] = run[p] /\ answer'[p] = answer[p]
  BY <1>1 DEF TypeOK
<1>6. ChildInv(o)' /\ (Keeper(o) => Keeper(o)')
  BY <1>1, <1>5, ChildPatch
<1>7. AnswerTaken(o)' /\ ~Confirmed(o)'
  BY <1>2, <1>5 DEF AnswerTaken, Confirmed, Code, Refusals
<1> QED
  BY <1>3, <1>4, <1>5, <1>6, <1>7, OneOfRest DEF Keeps

\* What the patches over REST have in common.
LEMMA PatchEnds ==
  ASSUME RestCore, NEW o \in Obj, RestPatch(o) \/ RestPatchFails(o)
  PROVE  /\ run[o].pc = "patch" /\ run' = [run EXCEPT ![o] = Idle]
         /\ guest' = guest \/ guest' = [guest EXCEPT ![o] = Patched(o)]
         /\ queue' = queue \/ queue' = queue \cup {o}
         /\ answer' = [answer EXCEPT ![o] = "none"]
         /\ UNCHANGED <<cache, host, fed, call, late, strays>>
<1>1. answer \in [Obj -> {"none", "written"} \cup Code]
  BY CoreFields
<1>2. CASE answer[o] = "none" /\ Patch(o) /\ UNCHANGED netVars
  BY <1>1, <1>2 DEF Patch, netVars
<1>3. CASE PatchWritten(o)
  BY <1>3 DEF PatchWritten, Patch
<1>4. CASE RestPatchFails(o)
  BY <1>4 DEF RestPatchFails, PatchFails
<1> QED
  BY <1>2, <1>3, <1>4 DEF RestPatch

LEMMA CorePatch ==
  ASSUME RestCore, NEW o \in Obj, RestPatch(o) \/ RestPatchFails(o)
  PROVE  RestCore'
<1>1. /\ run[o].pc = "patch" /\ run' = [run EXCEPT ![o] = Idle]
      /\ guest' = guest \/ guest' = [guest EXCEPT ![o] = Patched(o)]
      /\ queue' = queue \/ queue' = queue \cup {o}
      /\ answer' = [answer EXCEPT ![o] = "none"]
      /\ UNCHANGED <<cache, host, fed, call, late, strays>>
  BY PatchEnds
<1> QED
  BY <1>1, CoreEnds

\* A reconcile that waits no longer goes on to its patch.
WaitsNoLonger(o, r) ==
  /\ r.seen = run[o].seen /\ r.fin = run[o].fin /\ r.pc = "patch"
  /\ r.state = run[o].state \/ r.state # "READY"
  /\ Step(o, r) /\ run[o].pc \in Remote
  /\ UNCHANGED <<guest, cache, host, fed, call, strays, queue>>
  /\ answer'[o] = "none" /\ answer' \in [Obj -> {"none", "written"} \cup Code]
  /\ \A p \in Obj : p # o => run'[p] = run[p] /\ answer'[p] = answer[p]
  /\ run'[o] = r /\ run' \in [Obj -> Run]
  /\ late' \subseteq Requests
  /\ \A m \in late' :
       m \in late \/ /\ m.op \in Network /\ m.op # "callback" /\ m.to = HostName[o]
                     /\ m.op = "POST" => run[o].pc = "lookup"

LEMMA GivesUp ==
  ASSUME RestCore, NEW o \in Obj, AwaitCallback(o) \/ RequestLost(o)
  PROVE  \E r \in Run : WaitsNoLonger(o, r)
<1>1. TypeOK /\ ChildInv(o) /\ AnswerTaken(o) /\ run[o] \in Run
      /\ answer \in [Obj -> {"none", "written"} \cup Code]
      /\ late \subseteq Requests /\ HostName[o] \in Name /\ Kind[o] \in RestKinds
  BY CoreFields
<1>2. PICK r \in Run : /\ Step(o, r) /\ r.seen = run[o].seen /\ r.fin = run[o].fin
                       /\ r.pc = "patch" /\ run[o].pc \in Remote
                       /\ r.state = run[o].state \/ r.state # "READY"
  <2>1. CASE AwaitCallback(o)
    <3> DEFINE r == [run[o] EXCEPT !.pc = "patch"]
    <3>1. r \in Run /\ r.seen = run[o].seen /\ r.fin = run[o].fin /\ r.pc = "patch"
          /\ r.state = run[o].state
      BY <1>1 DEF Run
    <3>2. Step(o, r) /\ run[o].pc \in Remote
      BY <2>1 DEF AwaitCallback, Remote
    <3> HIDE DEF r
    <3> QED
      BY <3>1, <3>2
  <2>2. CASE RequestLost(o)
    <3> DEFINE s == IF run[o].pc = "lookup" THEN Created(Kind[o], "lost") ELSE run[o].state
               r == [run[o] EXCEPT !.pc = "patch", !.again = TRUE, !.state = s]
    <3>1. Created(Kind[o], "lost") \in {"PENDING", "FAILED"}
      BY <1>1 DEF Created, CreateImage, CreateArtefact, CreateApplicationOnboarding,
         CreateApplicationDeployment, RestKinds
    <3>2. s \in State /\ (s = run[o].state \/ s # "READY")
      BY <1>1, <3>1 DEF Run, State
    <3>3. r \in Run /\ r.seen = run[o].seen /\ r.fin = run[o].fin /\ r.pc = "patch"
          /\ r.state = s
      BY <1>1, <3>2 DEF Run
    <3>4. Step(o, r) /\ run[o].pc \in Remote
      BY <1>1, <2>2 DEF RequestLost, Remote, Run, Step
    <3> HIDE DEF r, s
    <3> QED
      BY <3>2, <3>3, <3>4
  <2> QED
    BY <2>1, <2>2
<1>3. /\ UNCHANGED <<guest, cache, host, fed, call, strays, queue>>
      /\ answer'[o] = "none" /\ answer' \in [Obj -> {"none", "written"} \cup Code]
      /\ \A p \in Obj : p # o => run'[p] = run[p] /\ answer'[p] = answer[p]
      /\ run'[o] = r /\ run' \in [Obj -> Run]
  <2>1. run'[o] = r /\ run' \in [Obj -> Run] /\ \A p \in Obj : p # o => run'[p] = run[p]
    BY <1>1, <1>2, RunStep
  <2>2. CASE AwaitCallback(o)
    <3>1. answer[o] = "none" /\ UNCHANGED answer
      BY <1>1, <2>2 DEF AwaitCallback, AnswerTaken, netVars
    <3> QED
      BY <1>1, <2>1, <2>2, <3>1 DEF AwaitCallback, netVars
  <2>3. CASE RequestLost(o)
    BY <1>1, <2>1, <2>3 DEF RequestLost, Answer
  <2> QED
    BY <2>2, <2>3
<1>4. late' \subseteq Requests
      /\ \A m \in late' :
           m \in late \/ /\ m.op \in Network /\ m.op # "callback" /\ m.to = HostName[o]
                         /\ m.op = "POST" => run[o].pc = "lookup"
  <2>1. CASE AwaitCallback(o)
    BY <1>1, <2>1 DEF AwaitCallback, netVars
  <2>2. CASE RequestLost(o)
    <3> DEFINE rs == IF Sent(o) THEN {Request(o)} ELSE {}
    <3>1. /\ Request(o) \in Requests /\ Request(o).to = HostName[o]
          /\ Request(o).op # "callback"
          /\ Request(o).op = "POST" => run[o].pc = "lookup"
      BY <1>1 DEF Request, Requests, State
    <3>2. rs \in SUBSET Requests /\ GivenUp(rs)
      BY <2>2, <3>1 DEF RequestLost
    <3>3. \A m \in rs : /\ m.op # "callback" /\ m.to = HostName[o]
                        /\ m.op = "POST" => run[o].pc = "lookup"
      BY <3>1
    <3> HIDE DEF rs
    <3> QED
      BY <1>1, <3>2, <3>3, GivenUps
  <2> QED
    BY <2>1, <2>2
<1> QED
  BY <1>2, <1>3, <1>4 DEF WaitsNoLonger

LEMMA CoreGivesUp ==
  ASSUME RestCore, NEW o \in Obj, AwaitCallback(o) \/ RequestLost(o)
  PROVE  RestCore'
<1>1. TypeOK /\ ChildInv(o) /\ HostName[o] \in Name
  BY CoreFields
<1>2. PICK r \in Run : WaitsNoLonger(o, r)
  BY GivesUp
<1>3. /\ UNCHANGED <<guest, cache, host, fed, call, strays, queue>>
      /\ answer'[o] = "none" /\ answer' \in [Obj -> {"none", "written"} \cup Code]
      /\ \A p \in Obj : p # o => run'[p] = run[p] /\ answer'[p] = answer[p]
      /\ run'[o] = r /\ run' \in [Obj -> Run]
      /\ Step(o, r) /\ r.seen = run[o].seen /\ r.fin = run[o].fin
      /\ r.pc = "patch" /\ run[o].pc \in Remote
  BY <1>2 DEF WaitsNoLonger
<1>4. late' \subseteq Requests
      /\ \A m \in late' : m \in late \/ (m.op \in Network /\ Named(m.to))
  BY <1>2 DEF WaitsNoLonger, Named
<1>5. RestTypeOK'
  <2>1. TypeOK'
    BY <1>1, <1>3 DEF TypeOK
  <2> QED
    BY <1>3, <1>4, <2>1 DEF RestCore, RestTypeOK, Requests
<1>6. Addresses'
  BY <1>3, <1>4, AddressesKept DEF RestCore
<1>7. ChildInv(o)' /\ (Keeper(o) => Keeper(o)')
  BY <1>1, <1>3, ChildCalled
<1>8. AnswerTaken(o)' /\ ~Confirmed(o)'
  BY <1>3 DEF AnswerTaken, Confirmed, Code, Refusals
<1> QED
  BY <1>3, <1>5, <1>6, <1>7, <1>8, OneOfRest DEF Keeps

----------------------------------------------------------------------------
(***************************************************************************)
(* Answers.                                                                *)
(***************************************************************************)

\* What an answer that is in makes of the child and of its reconcile.
LEMMA Continued ==
  ASSUME RestCore, NEW o \in Obj, run[o].pc \in {"lookup", "delete"},
         NEW s \in State, NEW fin \in BOOLEAN, NEW again \in BOOLEAN,
         Continue(o, s, fin, again)
  PROVE  /\ run' \in [Obj -> Run] /\ guest' \in [Obj -> CR]
         /\ answer' \in [Obj -> {"none", "written"} \cup Code]
         /\ \A p \in Obj : p # o => /\ guest'[p] = guest[p] /\ run'[p] = run[p]
                                  /\ answer'[p] = answer[p]
         /\ guest'[o].here = guest[o].here /\ guest'[o].deleting = guest[o].deleting
         /\ guest'[o].fin = guest[o].fin
         /\ guest'[o].state = guest[o].state \/ guest'[o].state = s
         /\ run'[o].pc = "patch" /\ run'[o].state = s
         /\ run'[o].fin = fin \/ run'[o].fin = run[o].fin
         /\ run'[o].seen.here = run[o].seen.here
         /\ run'[o].seen.fin = run[o].seen.fin
         /\ run'[o].seen.deleting = run[o].seen.deleting
         /\ answer'[o] \in {"none", "written"}
<1>1. TypeOK /\ guest[o] \in CR /\ run[o] \in Run /\ ChildInv(o)
      /\ answer \in [Obj -> {"none", "written"} \cup Code]
  BY CoreFields
<1> DEFINE r == [run[o] EXCEPT !.pc = "patch", !.state = s, !.again = again]
           writes == WritesStatus(Kind[o]) /\ ~again
           conflict == writes /\ Conflict(o)
           next == IF conflict THEN [r EXCEPT !.again = TRUE]
                   ELSE IF writes THEN [r EXCEPT !.fin = fin, !.seen.state = s]
                   ELSE [r EXCEPT !.fin = fin]
<1>2. /\ run' = [run EXCEPT ![o] = next]
      /\ guest' = IF writes /\ ~conflict THEN [guest EXCEPT ![o].state = s] ELSE guest
      /\ answer' = [answer EXCEPT ![o] = IF writes /\ ~conflict THEN "written" ELSE "none"]
  BY DEF Continue, Step
<1>3. run[o].seen \in CR /\ run[o].seen.here
  <2>1. run[o].seen.fin
    BY <1>1, CRFields DEF ChildInv, Phases, Run
  <2> QED
    BY <1>1, <2>1, CRFields DEF Run
<1>4. r \in Run /\ r.pc = "patch" /\ r.state = s /\ r.seen = run[o].seen
      /\ r.fin = run[o].fin
  BY <1>1 DEF Run
<1>5. ASSUME NEW cr \in CR, cr.here
      PROVE  /\ [cr EXCEPT !.state = s] \in CR
             /\ [cr EXCEPT !.state = s].here = cr.here
             /\ [cr EXCEPT !.state = s].fin = cr.fin
             /\ [cr EXCEPT !.state = s].deleting = cr.deleting
             /\ [cr EXCEPT !.state = s].state = s
  BY <1>5 DEF CR
<1>6. /\ next \in Run /\ next.pc = "patch" /\ next.state = s
      /\ next.fin = fin \/ next.fin = run[o].fin
      /\ next.seen.here = run[o].seen.here /\ next.seen.fin = run[o].seen.fin
      /\ next.seen.deleting = run[o].seen.deleting
  <2>1. CASE conflict
    <3>1. next = [r EXCEPT !.again = TRUE]
      BY <2>1
    <3> HIDE DEF r, next
    <3> QED
      BY <1>4, <3>1 DEF Run
  <2>2. CASE ~conflict /\ writes
    <3> DEFINE seen == [run[o].seen EXCEPT !.state = s]
    <3>1. next = [r EXCEPT !.fin = fin, !.seen.state = s]
      BY <2>2
    <3>2. /\ seen \in CR /\ seen.here = run[o].seen.here /\ seen.fin = run[o].seen.fin
          /\ seen.deleting = run[o].seen.deleting
      BY <1>3, <1>5
    <3>3. next = [r EXCEPT !.fin = fin, !.seen = seen]
      BY <1>4, <3>1 DEF Run
    <3> HIDE DEF r, next, seen
    <3> QED
      BY <1>4, <3>2, <3>3 DEF Run
  <2>3. CASE ~conflict /\ ~writes
    <3>1. next = [r EXCEPT !.fin = fin]
      BY <2>3
    <3> HIDE DEF r, next
    <3> QED
      BY <1>4, <3>1 DEF Run
  <2> QED
    BY <2>1, <2>2, <2>3
<1>7. /\ guest' \in [Obj -> CR] /\ \A p \in Obj : p # o => guest'[p] = guest[p]
      /\ guest'[o].here = guest[o].here /\ guest'[o].deleting = guest[o].deleting
      /\ guest'[o].fin = guest[o].fin
      /\ guest'[o].state = guest[o].state \/ guest'[o].state = s
  <2>1. CASE writes /\ ~conflict
    <3>1. guest[o] = run[o].seen
      BY <2>1 DEF Conflict
    <3>2. guest' = [guest EXCEPT ![o] = [guest[o] EXCEPT !.state = s]]
      BY <1>2, <2>1
    <3> QED
      BY <1>1, <1>3, <1>5, <3>1, <3>2 DEF TypeOK
  <2>2. CASE ~(writes /\ ~conflict)
    BY <1>1, <1>2, <2>2 DEF TypeOK
  <2> QED
    BY <2>1, <2>2
<1> HIDE DEF next
<1>8. run' \in [Obj -> Run] /\ run'[o] = next /\ \A p \in Obj : p # o => run'[p] = run[p]
  BY <1>1, <1>2, <1>6 DEF TypeOK
<1>9. /\ answer' \in [Obj -> {"none", "written"} \cup Code]
      /\ answer'[o] \in {"none", "written"}
      /\ \A p \in Obj : p # o => answer'[p] = answer[p]
  BY <1>1, <1>2
<1> QED
  BY <1>6, <1>7, <1>8, <1>9

LEMMA CreatedState ==
  ASSUME NEW k \in RestKinds, NEW c
  PROVE  Created(k, c) \in {"PENDING", "FAILED"}
  BY DEF RestKinds, Created, CreateImage, CreateArtefact, CreateApplicationOnboarding,
     CreateApplicationDeployment

\* The answer to a creation, and the answer to a deletion.
Answered(o, s, fin, again) ==
  /\ run[o].pc = IF fin THEN "lookup" ELSE "delete"
  /\ answer[o] \in Code
  /\ Continue(o, s, fin, again)
  /\ UNCHANGED <<cache, queue, host, fed, call, late>>

LEMMA AnswerIn ==
  ASSUME RestCore, NEW o \in Obj, CreateAnswered(o) \/ DeleteAnswered(o)
  PROVE  \E s \in {"PENDING", "FAILED"}, fin, again \in BOOLEAN :
           /\ Answered(o, s, fin, again)
           /\ strays \subseteq strays' /\ strays' \subseteq Name
           /\ ~fin /\ answer[o] # "2xx" /\ Live(host[HostName[o]]) =>
                HostName[o] \in strays'
<1>1. Kind[o] \in RestKinds /\ AnswerTaken(o) /\ strays \subseteq Name
      /\ answer[o] \in {"none", "written"} \cup Code /\ HostName[o] \in Name
  BY CoreFields
<1>2. run[o].pc \in {"lookup", "delete"} /\ answer[o] # "none" => answer[o] \in Code
  BY <1>1 DEF AnswerTaken
<1>3. CASE CreateAnswered(o)
  <2> DEFINE s == Created(Kind[o], answer[o])
             again == CreateError(Kind[o], answer[o])
  <2>1. s \in {"PENDING", "FAILED"} /\ again \in BOOLEAN
    BY <1>1, CreatedState DEF CreateError
  <2>2. Continue(o, s, TRUE, again) /\ run[o].pc = "lookup" /\ strays' = strays
        /\ answer[o] \in Code /\ UNCHANGED <<cache, queue, host, fed, call, late>>
    BY <1>2, <1>3 DEF CreateAnswered
  <2>3. Answered(o, s, TRUE, again)
    BY <2>2 DEF Answered
  <2> HIDE DEF s, again
  <2> QED
    BY <1>1, <2>1, <2>2, <2>3
<1>4. CASE DeleteAnswered(o)
  <2>1. Answered(o, "FAILED", FALSE, FALSE)
    BY <1>2, <1>4 DEF DeleteAnswered, Answered
  <2>2. /\ strays \subseteq strays' /\ strays' \subseteq Name
        /\ answer[o] # "2xx" /\ Live(host[HostName[o]]) => HostName[o] \in strays'
    BY <1>1, <1>4 DEF DeleteAnswered
  <2> QED
    BY <2>1, <2>2
<1> QED
  BY <1>3, <1>4

LEMMA CoreAnswered ==
  ASSUME RestCore, NEW o \in Obj, CreateAnswered(o) \/ DeleteAnswered(o)
  PROVE  RestCore'
<1>1. TypeOK /\ ChildInv(o) /\ guest[o] \in CR /\ run[o] \in Run /\ HostName[o] \in Name
  BY CoreFields
<1>2. PICK s \in {"PENDING", "FAILED"}, fin \in BOOLEAN, again \in BOOLEAN :
        /\ Answered(o, s, fin, again)
        /\ strays \subseteq strays' /\ strays' \subseteq Name
        /\ ~fin /\ answer[o] # "2xx" /\ Live(host[HostName[o]]) =>
             HostName[o] \in strays'
  BY AnswerIn
<1>3. /\ run' \in [Obj -> Run] /\ guest' \in [Obj -> CR]
      /\ answer' \in [Obj -> {"none", "written"} \cup Code]
      /\ \A p \in Obj : p # o => /\ guest'[p] = guest[p] /\ run'[p] = run[p]
                               /\ answer'[p] = answer[p]
      /\ guest'[o].here = guest[o].here /\ guest'[o].deleting = guest[o].deleting
      /\ guest'[o].fin = guest[o].fin
      /\ run'[o].pc = "patch"
      /\ run'[o].fin = fin \/ run'[o].fin = run[o].fin
      /\ run'[o].seen.here = run[o].seen.here
      /\ run'[o].seen.fin = run[o].seen.fin
      /\ run'[o].seen.deleting = run[o].seen.deleting
      /\ answer'[o] \in {"none", "written"}
  <2>1. Continue(o, s, fin, again) /\ run[o].pc \in {"lookup", "delete"} /\ s \in State
    BY <1>2 DEF Answered, State
  <2> QED
    BY <2>1, Continued
<1>4. UNCHANGED <<cache, queue, host, fed, call, late>>
      /\ run[o].pc = IF fin THEN "lookup" ELSE "delete"
  BY <1>2 DEF Answered
<1>5. RestTypeOK'
  BY <1>1, <1>2, <1>3, <1>4 DEF RestCore, RestTypeOK, TypeOK
<1>6. Addresses'
  BY <1>4, QuietAddresses
<1>7. /\ run[o].seen.fin /\ (fin => ~run[o].seen.deleting) /\ (~fin => run[o].seen.deleting)
      /\ run[o].fin
  BY <1>1, <1>4, CRFields DEF ChildInv, Phases, SeenLive, Run
<1>8. ChildInv(o)'
  <2>1. CacheBehind(o)' /\ CacheDeleting(o)'
    BY <1>1, <1>3, <1>4 DEF ChildInv, CacheBehind, CacheDeleting, Held, Live
  <2>2. SeenDeleting(o)' /\ SeenLive(o)'
    BY <1>1, <1>3, <1>4, <1>7 DEF ChildInv, SeenDeleting, SeenLive, Held, CacheHeld, Live
  <2>3. Phases(o)'
    BY <1>3, <1>7 DEF Phases
  <2> QED
    BY <2>1, <2>2, <2>3 DEF ChildInv
<1>9. AnswerTaken(o)'
  BY <1>3 DEF AnswerTaken, Code, Refusals
<1>10. fin => (Keeps(o) => Keeps(o)')
  BY <1>3, <1>4, <1>7 DEF Keeps, Keeper, Held, CacheHeld, Releasing, Confirmed
<1>11. \A p \in Obj : ChildInv(p)' /\ AnswerTaken(p)' /\ (p # o /\ Keeps(p) => Keeps(p)')
  BY <1>3, <1>4, <1>8, <1>9, RestUntouched DEF RestCore
<1>12. ASSUME NEW h \in Name, Live(host'[h])
       PROVE  h \in strays' \/ \E p \in Obj : HostName[p] = h /\ Keeps(p)'
  <2>1. h \in strays \/ \E p \in Obj : HostName[p] = h /\ Keeps(p)
    BY <1>4, <1>12 DEF RestCore, RestAnswered, Keeps
  <2>2. CASE ~fin /\ h = HostName[o] /\ answer[o] # "2xx"
    BY <1>2, <1>4, <1>12, <2>2
  <2>3. CASE ~fin /\ answer[o] = "2xx"
    BY <1>2, <1>4, <1>11, <2>1, <2>3 DEF Keeps, Confirmed
  <2>4. CASE fin \/ h # HostName[o]
    BY <1>2, <1>10, <1>11, <2>1, <2>4
  <2> QED
    BY <2>2, <2>3, <2>4
<1>13. RestAnswered'
  BY <1>12 DEF RestAnswered, Keeps
<1> QED
  BY <1>5, <1>6, <1>11, <1>13 DEF RestCore

LEMMA CoreRefused ==
  ASSUME RestCore, NEW o \in Obj, Refused(o)
  PROVE  RestCore'
<1>1. AnswerTaken(o) /\ ChildInv(o)
      /\ answer \in [Obj -> {"none", "written"} \cup Code]
  BY CoreFields
<1>2. PICK c \in Refusals : answer' = [answer EXCEPT ![o] = c]
  BY DEF Refused, Answer
<1>3. UNCHANGED <<guest, cache, queue, run, host, fed, call, late, strays>>
      /\ run[o].pc \in {"lookup", "delete"}
  BY DEF Refused, vars, Sent
<1>4. /\ answer' \in [Obj -> {"none", "written"} \cup Code] /\ answer'[o] = c
      /\ \A p \in Obj : p # o => answer'[p] = answer[p]
  BY <1>1, <1>2 DEF Code
<1>5. RestTypeOK'
  BY <1>3, <1>4 DEF RestCore, RestTypeOK, TypeOK
<1>6. Addresses'
  BY <1>3, QuietAddresses
<1>7. ChildInv(o)' /\ (Keeper(o) => Keeper(o)')
  BY <1>1, <1>3, Untouched
<1>8. AnswerTaken(o)' /\ ~Confirmed(o)'
  BY <1>1, <1>3, <1>4 DEF AnswerTaken, Confirmed, Refusals
<1> QED
  BY <1>3, <1>4, <1>5, <1>6, <1>7, <1>8, OneOfRest DEF Keeps
----------------------------------------------------------------------------
(***************************************************************************)
(* The host.                                                               *)
(***************************************************************************)

\* What a creation and a deletion do to the copies.
LEMMA HostCreated ==
  ASSUME TypeOK, NEW h \in Name, HostCreates(h)
  PROVE  /\ host' \in [Name -> CR]
         /\ \A g \in Name : g # h => host'[g] = host[g]
         /\ host'[h].here /\ (host[h].here => host'[h] = host[h])
         /\ Live(host[h]) => Live(host'[h])
<1>1. host' = [host EXCEPT ![h] = IF host[h].here THEN host[h] ELSE NewCR]
  BY DEF HostCreates
<1>2. host \in [Name -> CR] /\ NewCR \in CR /\ NewCR.here
  BY CRs, NewFields DEF TypeOK
<1> QED
  BY <1>1, <1>2 DEF Live

LEMMA HostDeleted ==
  ASSUME TypeOK, NEW h \in Name, HostDeletes(h)
  PROVE  /\ host' \in [Name -> CR]
         /\ \A g \in Name : g # h => host'[g] = host[g]
         /\ host'[h].here => host[h].here
         /\ Live(host'[h]) => Live(host[h])
         /\ Found(KindOf(h)) => ~Live(host'[h])
         /\ ~host[h].here => host'[h] = host[h]
<1> DEFINE cr == IF Found(KindOf(h)) /\ host[h].here THEN Deleted(host[h]) ELSE host[h]
<1>1. host' = [host EXCEPT ![h] = cr]
  BY DEF HostDeletes
<1>2. host \in [Name -> CR] /\ host[h] \in CR
  BY DEF TypeOK
<1>3. host[h].here => Deleted(host[h]) \in CR /\ ~Live(Deleted(host[h]))
  BY <1>2, DeletedCR
<1>4. cr \in CR /\ (cr.here => host[h].here) /\ (Live(cr) => Live(host[h]))
      /\ (Found(KindOf(h)) => ~Live(cr)) /\ (~host[h].here => cr = host[h])
  BY <1>2, <1>3 DEF Live
<1> HIDE DEF cr
<1> QED
  BY <1>1, <1>2, <1>4

LEMMA KindOfCopy ==
  ASSUME NEW o \in Obj
  PROVE  KindOf(HostName[o]) = Kind[o]
<1> DEFINE c == CHOOSE p \in Obj : HostName[p] = HostName[o]
<1>1. c \in Obj /\ HostName[c] = HostName[o]
  OBVIOUS
<1>2. KindOf(HostName[o]) = Kind[c]
  BY DEF KindOf
<1> HIDE DEF c
<1> QED
  BY <1>1, <1>2, ConstantsAssumption

\* Creating: the copy that becomes live is answered for by o.
LEMMA CorePost ==
  ASSUME RestCore, NEW o \in Obj, PostArrives(o)
  PROVE  RestCore'
<1>1. TypeOK /\ AnswerTaken(o) /\ ChildInv(o) /\ run[o] \in Run /\ HostName[o] \in Name
      /\ answer \in [Obj -> {"none", "written"} \cup Code]
  BY CoreFields
<1>2. PICK c \in {"409", "2xx"} : answer' = [answer EXCEPT ![o] = c]
  BY DEF PostArrives, Answer
<1>3. /\ run[o].pc = "lookup" /\ HostCreates(HostName[o])
      /\ UNCHANGED <<guest, cache, queue, run, fed, call, late, strays>>
  BY DEF PostArrives
<1>4. /\ host' \in [Name -> CR]
      /\ \A g \in Name : g # HostName[o] => host'[g] = host[g]
  BY <1>1, <1>3, HostCreated
<1>5. /\ answer' \in [Obj -> {"none", "written"} \cup Code] /\ answer'[o] = c
      /\ \A p \in Obj : p # o => answer'[p] = answer[p]
  BY <1>1, <1>2 DEF Code, Refusals
<1>6. RestTypeOK'
  BY <1>3, <1>4, <1>5 DEF RestCore, RestTypeOK, TypeOK
<1>7. Addresses'
  <2>1. \A h \in Name : host'[h].here => host[h].here \/ Named(h)
    BY <1>4 DEF Named
  <2> QED
    BY <1>3, <2>1, AddressesKept DEF RestCore
<1>8. ChildInv(o)' /\ (Keeper(o) => Keeper(o)')
  BY <1>1, <1>3, Untouched
<1>9. AnswerTaken(o)' /\ ~Confirmed(o)'
  BY <1>1, <1>3, <1>5 DEF AnswerTaken, Confirmed, Refusals
<1>10. Keeper(o)
  BY <1>1, <1>3 DEF ChildInv, Phases, SeenLive, Keeper, Releasing
<1>11. \A p \in Obj : ChildInv(p)' /\ AnswerTaken(p)' /\ (Keeps(p) => Keeps(p)')
  <2>1. \A p \in Obj : p # o => ChildInv(p)' /\ AnswerTaken(p)' /\ (Keeps(p) => Keeps(p)')
    BY <1>3, <1>5, RestUntouched DEF RestCore
  <2> QED
    BY <1>8, <1>9, <2>1 DEF Keeps
<1>12. ASSUME NEW h \in Name, Live(host'[h])
       PROVE  h \in strays' \/ \E p \in Obj : HostName[p] = h /\ Keeps(p)'
  <2>1. CASE h = HostName[o]
    BY <1>8, <1>9, <1>10, <2>1 DEF Keeps
  <2>2. CASE h # HostName[o]
    BY <1>3, <1>4, <1>11, <1>12, <2>2 DEF RestCore, RestAnswered, Keeps
  <2> QED
    BY <2>1, <2>2
<1>13. RestAnswered'
  BY <1>12 DEF RestAnswered, Keeps
<1> QED
  BY <1>6, <1>7, <1>11, <1>13 DEF RestCore

\* Deleting: a deletion that is confirmed leaves no live copy.
LEMMA CoreDelete ==
  ASSUME RestCore, NEW o \in Obj, DeleteArrives(o)
  PROVE  RestCore'
<1>1. TypeOK /\ AnswerTaken(o) /\ ChildInv(o) /\ run[o] \in Run /\ HostName[o] \in Name
      /\ answer \in [Obj -> {"none", "written"} \cup Code]
  BY CoreFields
<1>2. PICK c \in {"2xx", "500"} : /\ answer' = [answer EXCEPT ![o] = c]
                                  /\ c = "2xx" => Found(Kind[o])
  BY DEF DeleteArrives, Answer
<1>3. /\ run[o].pc = "delete" /\ HostDeletes(HostName[o])
      /\ UNCHANGED <<guest, cache, queue, run, fed, call, late, strays>>
  BY DEF DeleteArrives
<1>4. /\ host' \in [Name -> CR]
      /\ \A g \in Name : g # HostName[o] => host'[g] = host[g]
      /\ host'[HostName[o]].here => host[HostName[o]].here
      /\ Live(host'[HostName[o]]) => Live(host[HostName[o]])
      /\ c = "2xx" => ~Live(host'[HostName[o]])
  <2>1. KindOf(HostName[o]) = Kind[o]
    BY KindOfCopy
  <2>2. c = "2xx" => Found(KindOf(HostName[o]))
    BY <1>2, <2>1
  <2> QED
    BY <1>1, <1>3, <2>2, HostDeleted
<1>5. /\ answer' \in [Obj -> {"none", "written"} \cup Code] /\ answer'[o] = c
      /\ \A p \in Obj : p # o => answer'[p] = answer[p]
  <2>1. c \in Code
    BY DEF Code, Refusals
  <2>2. answer' = [answer EXCEPT ![o] = c]
    BY <1>2
  <2> QED
    BY <1>1, <2>1, <2>2
<1>6. RestTypeOK'
  BY <1>3, <1>4, <1>5 DEF RestCore, RestTypeOK, TypeOK
<1>7. Addresses'
  <2>1. \A h \in Name : host'[h].here => host[h].here
    BY <1>4
  <2> QED
    BY <1>3, <2>1, QuietAddresses
<1>8. ChildInv(o)' /\ (Keeper(o) => Keeper(o)')
  BY <1>1, <1>3, Untouched
<1>9. AnswerTaken(o)' /\ (c # "2xx" => ~Confirmed(o)')
  BY <1>1, <1>3, <1>5 DEF AnswerTaken, Confirmed
<1>10. \A p \in Obj : /\ ChildInv(p)' /\ AnswerTaken(p)'
                      /\ p # o \/ c # "2xx" => (Keeps(p) => Keeps(p)')
  <2>1. \A p \in Obj : p # o => ChildInv(p)' /\ AnswerTaken(p)' /\ (Keeps(p) => Keeps(p)')
    BY <1>3, <1>5, RestUntouched DEF RestCore
  <2> QED
    BY <1>8, <1>9, <2>1 DEF Keeps
<1>11. ASSUME NEW h \in Name, Live(host'[h])
       PROVE  h \in strays' \/ \E p \in Obj : HostName[p] = h /\ Keeps(p)'
  <2>1. Live(host[h]) /\ (h = HostName[o] => c # "2xx")
    BY <1>4, <1>11
  <2>2. h \in strays \/ \E p \in Obj : HostName[p] = h /\ Keeps(p)
    BY <2>1 DEF RestCore, RestAnswered, Keeps
  <2> QED
    BY <1>3, <1>10, <2>1, <2>2
<1>12. RestAnswered'
  BY <1>11 DEF RestAnswered, Keeps
<1> QED
  BY <1>6, <1>7, <1>10, <1>12 DEF RestCore

\* The host's own steps, which give away a copy only when it is being deleted.
LEMMA HostAlone ==
  ASSUME RestCore, NEW h \in Name, HostReconciles(h) \/ HostLetsGo(h)
  PROVE  /\ HostChange /\ UNCHANGED <<answer, call, late>>
         /\ strays' = strays \/ (strays' = strays \ {h} /\ ~Live(host[h]))
         /\ \A g \in Name : host'[g].here => host[g].here
<1>1. TypeOK
  BY CoreFields
<1>2. CASE HostReconciles(h)
  <2>1. HostChange
    BY <1>1, <1>2, HostChanges DEF HostReconciles, HostStep
  <2>2. \A g \in Name : host'[g].here => host[g].here
    BY <1>1, <1>2 DEF HostReconciles, HostAddFinalizer, HostSetPending,
       OrchestratorDecides, SetHostState, TypeOK, CR
  <2> QED
    BY <1>2, <2>1, <2>2 DEF HostReconciles, netVars
<1>3. CASE HostLetsGo(h)
  <2>1. HostChange
    BY <1>1, <1>3, HostChanges DEF HostLetsGo, HostStep
  <2>2. \A g \in Name : host'[g].here => host[g].here
    BY <1>1, <1>3 DEF HostLetsGo, HostRemoveFinalizer, TypeOK
  <2>3. ~Live(host[h])
    BY <1>3 DEF HostLetsGo, HostRemoveFinalizer, Live
  <2> QED
    BY <1>3, <2>1, <2>2, <2>3 DEF HostLetsGo
<1> QED
  BY <1>2, <1>3

LEMMA CoreHost ==
  ASSUME RestCore, NEW h \in Name, HostReconciles(h) \/ HostLetsGo(h)
  PROVE  RestCore'
<1>1. /\ HostChange /\ UNCHANGED <<answer, call, late>>
      /\ strays' = strays \/ (strays' = strays \ {h} /\ ~Live(host[h]))
      /\ \A g \in Name : host'[g].here => host[g].here
  BY HostAlone
<1>2. TypeOK
  BY CoreFields
<1>3. RestTypeOK'
  BY <1>1, <1>2 DEF HostChange, RestCore, RestTypeOK, TypeOK
<1>4. Addresses'
  BY <1>1, QuietAddresses
<1> QED
  BY <1>1, <1>3, <1>4, RestElsewhere DEF HostChange
----------------------------------------------------------------------------
(***************************************************************************)
(* Callbacks and late requests.                                            *)
(***************************************************************************)

\* A callback changes the state of the children it may be for.
LEMMA Informed ==
  ASSUME TypeOK, NEW h \in Name, NEW s \in State, Inform(h, s)
  PROVE  /\ guest' \in [Obj -> CR]
         /\ \A p \in Obj : /\ guest'[p].here = guest[p].here
                           /\ guest'[p].deleting = guest[p].deleting
                           /\ guest'[p].fin = guest[p].fin
                           /\ guest'[p] = guest[p] \/ HostName[p] = h
<1>1. CASE UNCHANGED guest
  BY <1>1 DEF TypeOK
<1>2. ASSUME NEW o \in Addressed(h), guest' = [guest EXCEPT ![o].state = s]
      PROVE  /\ guest' \in [Obj -> CR]
             /\ \A p \in Obj : /\ guest'[p].here = guest[p].here
                               /\ guest'[p].deleting = guest[p].deleting
                               /\ guest'[p].fin = guest[p].fin
                               /\ guest'[p] = guest[p] \/ HostName[p] = h
  <2> DEFINE cr == [guest[o] EXCEPT !.state = s]
  <2>1. o \in Obj /\ HostName[o] = h /\ guest[o].here /\ guest[o] \in CR
        /\ guest \in [Obj -> CR]
    BY DEF Addressed, TypeOK
  <2>2. /\ cr \in CR /\ cr.here = guest[o].here /\ cr.deleting = guest[o].deleting
        /\ cr.fin = guest[o].fin
    BY <2>1 DEF CR
  <2>3. guest' = [guest EXCEPT ![o] = cr]
    BY <1>2
  <2> HIDE DEF cr
  <2> QED
    BY <2>1, <2>2, <2>3
<1> QED
  BY <1>1, <1>2 DEF Inform

\* It takes no finalizer and no deletion mark.
LEMMA StateOnly ==
  ASSUME NEW o \in Obj, ChildInv(o), AnswerTaken(o),
         guest'[o].here = guest[o].here, guest'[o].deleting = guest[o].deleting,
         guest'[o].fin = guest[o].fin,
         UNCHANGED <<cache, run, answer>>
  PROVE  ChildInv(o)' /\ AnswerTaken(o)' /\ (Keeps(o) => Keeps(o)')
<1>1. CacheBehind(o)' /\ CacheDeleting(o)' /\ SeenDeleting(o)' /\ SeenLive(o)'
  BY DEF ChildInv, CacheBehind, CacheDeleting, SeenDeleting, SeenLive, Held,
     CacheHeld, Live
<1>2. Phases(o)'
  BY DEF ChildInv, Phases
<1>3. AnswerTaken(o)' /\ (Keeps(o) => Keeps(o)')
  BY DEF AnswerTaken, Keeps, Keeper, Held, CacheHeld, Releasing, Confirmed
<1> QED
  BY <1>1, <1>2, <1>3 DEF ChildInv

LEMMA CoreInformed ==
  ASSUME RestCore, NEW h \in Name, NEW s \in State, Inform(h, s),
         UNCHANGED <<cache, queue, run, host, fed, answer, strays>>,
         late' \subseteq late,
         call' \in [Name -> [pc : {"idle", "sent", "answered"}, state : State,
                             code : {"none"} \cup Code]],
         \A g \in Name : call'[g].pc # "idle" => call[g].pc # "idle"
  PROVE  RestCore'
<1>1. TypeOK
  BY CoreFields
<1>2. /\ guest' \in [Obj -> CR]
      /\ \A p \in Obj : /\ guest'[p].here = guest[p].here
                        /\ guest'[p].deleting = guest[p].deleting
                        /\ guest'[p].fin = guest[p].fin
  BY <1>1, Informed
<1>3. RestTypeOK'
  BY <1>2 DEF RestCore, RestTypeOK, TypeOK
<1>4. Addresses'
  BY AddressesKept DEF RestCore
<1>5. \A p \in Obj : ChildInv(p)' /\ AnswerTaken(p)' /\ (Keeps(p) => Keeps(p)')
  BY <1>2, StateOnly DEF RestCore
<1> QED
  BY <1>3, <1>4, <1>5, CoreKept

\* The other steps of a callback concern the host's side alone.
Calls ==
  \/ \E h \in Name : SendCallback(h) \/ CallbackRefused(h) \/ CallbackLost(h)
  \/ HostRestarts

LEMMA Calling ==
  ASSUME RestCore, Calls
  PROVE  /\ UNCHANGED <<vars, answer, strays>>
         /\ call' \in [Name -> [pc : {"idle", "sent", "answered"}, state : State,
                               code : {"none"} \cup Code]]
         /\ \A g \in Name : call'[g].pc # "idle" => call[g].pc # "idle" \/ Named(g)
         /\ \A g \in Name : call'[g].pc = "sent" => call[g].pc = "sent" \/ Live(host[g])
         /\ late' \subseteq Requests
         /\ \A m \in late' :
              m \in late \/ /\ m.op \in Network /\ Named(m.to) /\ m.op = "callback"
                            /\ call[m.to].pc = "sent"
<1>1. /\ call \in [Name -> [pc : {"idle", "sent", "answered"}, state : State,
                            code : {"none"} \cup Code]]
      /\ late \subseteq Requests
      /\ \A h \in Name : host[h].state \in State
  BY CoreFields, CRFields
<1>2. ASSUME NEW h \in Name, SendCallback(h)
      PROVE  /\ UNCHANGED <<vars, answer, late, strays>>
             /\ call' \in [Name -> [pc : {"idle", "sent", "answered"}, state : State,
                                   code : {"none"} \cup Code]]
             /\ \A g \in Name : call'[g].pc # "idle" => call[g].pc # "idle" \/ Named(g)
             /\ \A g \in Name : call'[g].pc = "sent" => call[g].pc = "sent" \/ Live(host[g])
  <2> DEFINE c == [pc |-> "sent", state |-> host[h].state, code |-> "none"]
  <2>1. call' = [call EXCEPT ![h] = c] /\ Live(host[h])
        /\ UNCHANGED <<vars, answer, late, strays>>
    BY <1>2 DEF SendCallback
  <2>2. c \in [pc : {"idle", "sent", "answered"}, state : State,
               code : {"none"} \cup Code]
    BY <1>1
  <2>3. Named(h)
    BY <2>1 DEF RestCore, Addresses, Live
  <2> QED
    BY <1>1, <2>1, <2>2, <2>3
<1>3. ASSUME NEW h \in Name, NEW c \in Code, Returned(h, c), call[h].pc # "idle"
      PROVE  /\ call' \in [Name -> [pc : {"idle", "sent", "answered"}, state : State,
                                   code : {"none"} \cup Code]]
             /\ \A g \in Name : call'[g].pc # "idle" => call[g].pc # "idle"
             /\ \A g \in Name : call'[g].pc = "sent" => call[g].pc = "sent"
  <2> DEFINE r == [call[h] EXCEPT !.pc = "answered", !.code = c]
  <2>1. r \in [pc : {"idle", "sent", "answered"}, state : State,
               code : {"none"} \cup Code] /\ r.pc = "answered"
    BY <1>1
  <2>2. call' = [call EXCEPT ![h] = r]
    BY <1>1, <1>3 DEF Returned
  <2> HIDE DEF r
  <2> QED
    BY <1>1, <1>3, <2>1, <2>2
<1>4. ASSUME NEW h \in Name, CallbackRefused(h)
      PROVE  /\ UNCHANGED <<vars, answer, late, strays>>
             /\ call' \in [Name -> [pc : {"idle", "sent", "answered"}, state : State,
                                   code : {"none"} \cup Code]]
             /\ \A g \in Name : call'[g].pc # "idle" => call[g].pc # "idle"
             /\ \A g \in Name : call'[g].pc = "sent" => call[g].pc = "sent"
  <2>1. PICK c \in Refusals : Returned(h, c)
    BY <1>4 DEF CallbackRefused
  <2>2. c \in Code /\ call[h].pc # "idle" /\ UNCHANGED <<vars, answer, late, strays>>
    BY <1>4 DEF CallbackRefused, Code
  <2> QED
    BY <1>1, <1>3, <2>1, <2>2
<1>5. ASSUME NEW g \in Name, call[g].pc = "sent"
      PROVE  /\ [op |-> "callback", to |-> g, state |-> call[g].state] \in Requests
             /\ Named(g)
  BY <1>1, <1>5 DEF Requests, RestCore, Addresses
<1>6. ASSUME NEW rs \in SUBSET Requests, GivenUp(rs),
             \A m \in rs : m.op = "callback" /\ Named(m.to) /\ call[m.to].pc = "sent"
      PROVE  /\ late' \subseteq Requests
             /\ \A m \in late' :
                  m \in late \/ /\ m.op \in Network /\ Named(m.to) /\ m.op = "callback"
                                /\ call[m.to].pc = "sent"
  BY <1>1, <1>6, GivenUps
<1>7. ASSUME NEW h \in Name, CallbackLost(h)
      PROVE  /\ UNCHANGED <<vars, answer, strays>>
             /\ call' \in [Name -> [pc : {"idle", "sent", "answered"}, state : State,
                                   code : {"none"} \cup Code]]
             /\ \A g \in Name : call'[g].pc # "idle" => call[g].pc # "idle"
             /\ \A g \in Name : call'[g].pc = "sent" => call[g].pc = "sent"
             /\ late' \subseteq Requests
             /\ \A m \in late' :
                  m \in late \/ /\ m.op \in Network /\ Named(m.to) /\ m.op = "callback"
                                /\ call[m.to].pc = "sent"
  <2> DEFINE rs == IF call[h].pc = "sent"
                   THEN {[op |-> "callback", to |-> h, state |-> call[h].state]} ELSE {}
  <2>1. GivenUp(rs) /\ Returned(h, "lost") /\ call[h].pc # "idle"
        /\ UNCHANGED <<vars, answer, strays>> /\ "lost" \in Code
    BY <1>7 DEF CallbackLost, Code
  <2>2. rs \in SUBSET Requests
        /\ \A m \in rs : m.op = "callback" /\ Named(m.to) /\ call[m.to].pc = "sent"
    BY <1>5
  <2> HIDE DEF rs
  <2> QED
    BY <1>3, <1>6, <2>1, <2>2
<1>8. CASE HostRestarts
  <2> DEFINE sent == {g \in Name : call[g].pc = "sent"}
             rs == {[op |-> "callback", to |-> g, state |-> call[g].state] : g \in sent}
  <2>1. GivenUp(rs) /\ call' = [g \in Name |-> NoCall]
        /\ UNCHANGED <<vars, answer, strays>>
    BY <1>8 DEF HostRestarts
  <2>2. rs \in SUBSET Requests
        /\ \A m \in rs : m.op = "callback" /\ Named(m.to) /\ call[m.to].pc = "sent"
    BY <1>5
  <2>3. NoCall.pc = "idle" /\ NoCall \in [pc : {"idle", "sent", "answered"}, state : State,
                                          code : {"none"} \cup Code]
    BY DEF NoCall, State
  <2> HIDE DEF rs
  <2> QED
    BY <1>6, <2>1, <2>2, <2>3
<1> QED
  BY <1>1, <1>2, <1>4, <1>7, <1>8 DEF Calls

LEMMA CoreCalling ==
  ASSUME RestCore, Calls
  PROVE  RestCore'
<1>1. UNCHANGED <<guest, cache, queue, run, host, fed, answer, strays>>
  BY Calling DEF vars
<1>2. RestTypeOK'
  BY <1>1, Calling DEF RestCore, RestTypeOK, TypeOK, Requests
<1>3. Addresses'
  BY <1>1, Calling, AddressesKept DEF RestCore
<1> QED
  BY <1>1, <1>2, <1>3, RestElsewhere

LEMMA CoreCallback ==
  ASSUME RestCore, NEW h \in Name, CallbackArrives(h) \/ CallbackReturns(h)
  PROVE  RestCore'
<1>1. /\ call \in [Name -> [pc : {"idle", "sent", "answered"}, state : State,
                            code : {"none"} \cup Code]]
      /\ TypeOK /\ host[h] \in CR
  BY CoreFields
<1>2. CASE CallbackArrives(h)
  <2>1. PICK c \in {"500", "2xx"} : Returned(h, c)
    BY <1>2 DEF CallbackArrives
  <2> DEFINE r == [call[h] EXCEPT !.pc = "answered", !.code = c]
  <2>2. r \in [pc : {"idle", "sent", "answered"}, state : State,
               code : {"none"} \cup Code] /\ r.pc = "answered"
    BY <1>1 DEF Code, Refusals
  <2>3. call' = [call EXCEPT ![h] = r] /\ call[h].pc = "sent"
        /\ Inform(h, call[h].state) /\ call[h].state \in State
        /\ UNCHANGED <<cache, queue, run, host, fed, answer, late, strays>>
    BY <1>1, <1>2, <2>1 DEF CallbackArrives, Returned
  <2> HIDE DEF r
  <2>4. call' \in [Name -> [pc : {"idle", "sent", "answered"}, state : State,
                            code : {"none"} \cup Code]]
        /\ \A g \in Name : call'[g].pc # "idle" => call[g].pc # "idle"
    BY <1>1, <2>2, <2>3
  <2> QED
    BY <2>3, <2>4, CoreInformed
<1>3. CASE CallbackReturns(h)
  <2>1. PICK o \in Obj : HostName[o] = h
    BY <1>3 DEF CallbackReturns, RestCore, Addresses, Named
  <2>2. KindOf(h) \in RestKinds
    BY <2>1, KindOfCopy, RestAssumption
  <2>3. call[h].state \in State
    BY <1>1
  <2> DEFINE s == Updated(KindOf(h), call[h].code, call[h].state)
             cr == [host[h] EXCEPT !.state =
                      IF s # call[h].state /\ host[h].here THEN s ELSE host[h].state]
  <2>4. s \in State
    BY <2>2, <2>3 DEF Updated, UpdateFileStatus, UpdateApplicationOnboardingStatus,
       UpdateApplicationDeploymentStatus, RestKinds, State
  <2>5. host' = [host EXCEPT ![h] = cr] /\ call' = [call EXCEPT ![h] = NoCall]
        /\ UNCHANGED <<guest, cache, queue, run, fed, answer, late, strays>>
    BY <1>1, <1>3 DEF CallbackReturns, TypeOK
  <2> HIDE DEF s
  <2>6. cr \in CR /\ (cr.here <=> host[h].here) /\ (Live(cr) <=> Live(host[h]))
    BY <1>1, <2>4 DEF CR, Live
  <2>7. NoCall.pc = "idle" /\ NoCall \in [pc : {"idle", "sent", "answered"}, state : State,
                                          code : {"none"} \cup Code]
    BY DEF NoCall, State
  <2> HIDE DEF cr
  <2>8. /\ host' \in [Name -> CR]
        /\ \A g \in Name : (host'[g].here => host[g].here) /\ (Live(host'[g]) => Live(host[g]))
    BY <1>1, <2>5, <2>6 DEF TypeOK
  <2>9. call' \in [Name -> [pc : {"idle", "sent", "answered"}, state : State,
                            code : {"none"} \cup Code]]
        /\ \A g \in Name : call'[g].pc # "idle" => call[g].pc # "idle"
    BY <1>1, <2>5, <2>7
  <2>10. RestTypeOK'
    BY <2>5, <2>8, <2>9 DEF RestCore, RestTypeOK, TypeOK
  <2>11. Addresses'
    BY <2>5, <2>8, <2>9, AddressesKept DEF RestCore
  <2> QED
    BY <2>5, <2>8, <2>10, <2>11, RestElsewhere
<1> QED
  BY <1>2, <1>3

LEMMA CoreLate ==
  ASSUME RestCore, NEW m \in late, LateArrives(m)
  PROVE  RestCore'
<1>1. /\ TypeOK /\ m \in Requests /\ strays \subseteq Name
      /\ call \in [Name -> [pc : {"idle", "sent", "answered"}, state : State,
                            code : {"none"} \cup Code]]
  BY CoreFields
<1>2. m.to \in Name /\ m.state \in State /\ m.op \in {"POST", "DELETE", "callback"}
      /\ Named(m.to)
  BY <1>1 DEF Requests, RestCore, Addresses
<1>3. UNCHANGED <<cache, queue, run, fed, answer, call>> /\ late' = late \ {m}
  BY DEF LateArrives
<1>4. CASE m.op = "POST"
  <2>1. /\ HostCreates(m.to) /\ UNCHANGED guest
        /\ strays' = IF host[m.to].here THEN strays ELSE strays \cup {m.to}
    BY <1>4 DEF LateArrives
  <2>2. /\ host' \in [Name -> CR]
        /\ \A g \in Name : g # m.to => host'[g] = host[g]
        /\ host[m.to].here => host'[m.to] = host[m.to]
    BY <1>1, <1>2, <2>1, HostCreated
  <2>3. RestTypeOK'
    BY <1>1, <1>2, <1>3, <2>1, <2>2 DEF RestCore, RestTypeOK, TypeOK
  <2>4. Addresses'
    <3>1. \A h \in Name : host'[h].here => host[h].here \/ Named(h)
      BY <1>2, <2>2
    <3> QED
      BY <1>3, <3>1, AddressesKept DEF RestCore
  <2>5. \A p \in Obj : ChildInv(p)' /\ AnswerTaken(p)' /\ (Keeps(p) => Keeps(p)')
    BY <1>3, <2>1, RestUntouched DEF RestCore
  <2>6. ASSUME NEW h \in Name, Live(host'[h])
        PROVE  h \in strays' \/ \E p \in Obj : HostName[p] = h /\ Keeps(p)'
    <3>1. CASE h = m.to /\ ~host[h].here
      BY <2>1, <3>1
    <3>2. CASE ~(h = m.to /\ ~host[h].here)
      <4>1. Live(host[h])
        BY <2>2, <2>6, <3>2
      <4>2. strays \subseteq strays'
        BY <2>1
      <4> QED
        BY <2>5, <4>1, <4>2 DEF RestCore, RestAnswered, Keeps
    <3> QED
      BY <3>1, <3>2
  <2>7. RestAnswered'
    BY <2>6 DEF RestAnswered, Keeps
  <2> QED
    BY <2>3, <2>4, <2>5, <2>7 DEF RestCore
<1>5. CASE m.op = "DELETE"
  <2>1. HostDeletes(m.to) /\ UNCHANGED <<guest, strays>>
    BY <1>5 DEF LateArrives
  <2>2. /\ host' \in [Name -> CR]
        /\ \A g \in Name : g # m.to => host'[g] = host[g]
        /\ host'[m.to].here => host[m.to].here
        /\ Live(host'[m.to]) => Live(host[m.to])
    BY <1>1, <1>2, <2>1, HostDeleted
  <2>3. RestTypeOK'
    BY <1>1, <1>3, <2>1, <2>2 DEF RestCore, RestTypeOK, TypeOK
  <2>4. Addresses'
    BY <1>3, <2>2, AddressesKept DEF RestCore
  <2> QED
    BY <1>3, <2>1, <2>2, <2>3, <2>4, RestElsewhere
<1>6. CASE m.op = "callback"
  <2>1. Inform(m.to, m.state) /\ UNCHANGED <<host, strays>>
    BY <1>6 DEF LateArrives
  <2> QED
    BY <1>1, <1>2, <1>3, <2>1, CoreInformed
<1> QED
  BY <1>2, <1>4, <1>5, <1>6

\* The requests that a restart of the guest gives up.
LEMMA RestartSends ==
  ASSUME RestCore, GuestRestarts
  PROVE  /\ late' \subseteq Requests
         /\ \A m \in late' :
              m \in late \/ /\ m.op \in Network /\ m.op # "callback"
                            /\ \E p \in Obj : /\ m.to = HostName[p]
                                              /\ m.op = "POST" => run[p].pc = "lookup"
<1> DEFINE rs == {Request(p) : p \in {q \in Obj : Sent(q)}}
<1>1. GivenUp(rs) /\ late \subseteq Requests
  BY CoreFields DEF GuestRestarts
<1>2. ASSUME NEW p \in Obj
      PROVE  /\ Request(p) \in Requests /\ Request(p).to = HostName[p]
             /\ Request(p).op # "callback"
             /\ Request(p).op = "POST" => run[p].pc = "lookup"
  BY ConstantsAssumption DEF Request, Requests, State
<1>3. /\ rs \in SUBSET Requests
      /\ \A m \in rs : /\ m.op # "callback"
                       /\ \E p \in Obj : /\ m.to = HostName[p]
                                         /\ m.op = "POST" => run[p].pc = "lookup"
  BY <1>2
<1> HIDE DEF rs
<1> QED
  BY <1>1, <1>3, GivenUps

LEMMA CoreRestart ==
  ASSUME RestCore, GuestRestarts
  PROVE  RestCore'
<1>1. /\ Crash /\ UNCHANGED <<guest, host, call, strays>> /\ cache' = guest
      /\ queue' = {o \in Obj : guest[o].here} /\ UNCHANGED fed
      /\ answer' = [o \in Obj |-> "none"] /\ run' = [o \in Obj |-> Idle]
  BY DEF GuestRestarts, Crash
<1>2. Idle \in Run /\ Idle.pc = "idle" /\ TypeOK
  BY CRs, CoreFields DEF Idle, Run, Remote, State
<1>3. RestTypeOK'
  BY <1>1, <1>2, RestartSends DEF RestCore, RestTypeOK, TypeOK, Requests
<1>4. Addresses'
  BY <1>1, RestartSends, AddressesKept DEF RestCore, Named
<1>5. ASSUME NEW o \in Obj
      PROVE  ChildInv(o)' /\ AnswerTaken(o)' /\ (Keeps(o) => Keeps(o)')
  <2>1. ChildInv(o)' /\ (Keeper(o) => Keeper(o)')
    BY <1>1, ChildCrash DEF RestCore
  <2>2. AnswerTaken(o)' /\ ~Confirmed(o)'
    BY <1>1, <1>2 DEF AnswerTaken, Confirmed, Code, Refusals
  <2> QED
    BY <2>1, <2>2 DEF Keeps
<1> QED
  BY <1>1, <1>3, <1>4, <1>5, CoreKept

\* The guest's federation, and a step that changes nothing.
LEMMA CoreFederation ==
  ASSUME RestCore, UNCHANGED <<guest, cache, queue, run, host, netVars>>,
         fed' \in FedState
  PROVE  RestCore'
<1>1. RestTypeOK'
  BY DEF RestCore, RestTypeOK, TypeOK, netVars
<1>2. Addresses'
  BY QuietAddresses DEF netVars
<1> QED
  BY <1>1, <1>2, RestElsewhere DEF netVars

LEMMA CoreNext == RestCore /\ [RestNext]_restVars => RestCore'
<1> SUFFICES ASSUME RestCore, [RestNext]_restVars PROVE RestCore'
  OBVIOUS
<1>1. ASSUME NEW o \in Obj, UserRecreates(o) \/ Guests(o) \/ RestReconcile(o)
      PROVE  RestCore'
  BY <1>1, CoreGuest DEF UserRecreates, Guests, RestReconcile
<1>2. ASSUME NEW o \in Obj, AwaitCallback(o) \/ RequestLost(o) PROVE RestCore'
  BY <1>2, CoreGivesUp
<1>3. ASSUME NEW o \in Obj, Respond(o) PROVE RestCore'
  BY <1>3, CorePost, CoreDelete DEF Respond
<1>4. ASSUME NEW o \in Obj, Refused(o) PROVE RestCore'
  BY <1>4, CoreRefused
<1>5. ASSUME NEW o \in Obj, CreateAnswered(o) \/ DeleteAnswered(o) PROVE RestCore'
  BY <1>5, CoreAnswered
<1>6. ASSUME NEW o \in Obj, RestPatch(o) \/ RestPatchFails(o) PROVE RestCore'
  BY <1>6, CorePatch
<1>7. ASSUME NEW h \in Name, HostReconciles(h) \/ HostLetsGo(h) PROVE RestCore'
  BY <1>7, CoreHost
<1>8. ASSUME NEW h \in Name, CallbackArrives(h) \/ CallbackReturns(h) PROVE RestCore'
  BY <1>8, CoreCallback
<1>9. ASSUME NEW h \in Name, SendCallback(h) \/ CallbackRefused(h) \/ CallbackLost(h)
      PROVE  RestCore'
  BY <1>9, CoreCalling DEF Calls
<1>10. ASSUME NEW m \in late, LateArrives(m) PROVE RestCore'
  BY <1>10, CoreLate
<1>11. ASSUME NEW s \in {"AVAILABLE", "LOCKED", "OTHER"}, FederationStatus(s),
              UNCHANGED netVars
       PROVE  RestCore'
  BY <1>11, CoreFederation DEF FederationStatus, FedState
<1>12. CASE FederationRemoved /\ UNCHANGED netVars
  BY <1>12, CoreFederation DEF FederationRemoved, FedState
<1>13. CASE GuestRestarts
  BY <1>13, CoreRestart
<1>14. CASE HostRestarts
  BY <1>14, CoreCalling DEF Calls
<1>15. CASE UNCHANGED restVars
  <2>1. fed \in FedState
    BY CoreFields DEF TypeOK
  <2> QED
    BY <1>15, <2>1, CoreFederation DEF restVars, vars, netVars
<1> QED
  BY <1>1, <1>2, <1>3, <1>4, <1>5, <1>6, <1>7, <1>8, <1>9, <1>10, <1>11, <1>12,
     <1>13, <1>14, <1>15 DEF RestNext
----------------------------------------------------------------------------
(***************************************************************************)
(* READY children have copies.                                             *)
(***************************************************************************)

Patient == OwnCopies /\ "recreate" \notin Faults /\ "DELETE" \notin Network

\* The child is without finalizer, so that nothing about it is on its way.
Unheld(o) == Live(guest[o]) /\ ~guest[o].fin

\* A step that makes no child live, takes no live copy, and informs of none.
LEMMA SteadyKept ==
  ASSUME NEW c \in Obj, Fresh(c), Backed(c),
         Live(guest'[c]) => Live(guest[c]) /\ (guest[c].fin => guest'[c].fin),
         Ready(c)' => Ready(c) \/ Informing(HostName[c]),
         \/ host'[HostName[c]].here => host[HostName[c]].here
         \/ ~Unheld(c)
         \/ \E m \in late : m.op = "POST" /\ m.to = HostName[c],
         Informing(HostName[c])' => Informing(HostName[c]) \/ Live(host[HostName[c]]),
         \A m \in late' : m.op = "POST" /\ m.to = HostName[c] => m \in late \/ ~Unheld(c),
         Live(host[HostName[c]]) => Live(host'[HostName[c]]) \/ ~Live(guest[c])
  PROVE  Fresh(c)' /\ Backed(c)'
<1>1. ASSUME Unheld(c)'
      PROVE  /\ ~host'[HostName[c]].here /\ ~Informing(HostName[c])'
             /\ \A m \in late' : m.op = "POST" => m.to # HostName[c]
  <2>1. Unheld(c)
    BY <1>1 DEF Unheld
  <2>2. /\ ~host[HostName[c]].here /\ ~Informing(HostName[c])
        /\ \A m \in late : m.op = "POST" => m.to # HostName[c]
    BY <2>1 DEF Fresh, Unheld
  <2> QED
    BY <2>1, <2>2 DEF Live
<1>2. Fresh(c)'
  BY <1>1 DEF Fresh, Unheld
<1>3. ASSUME Live(guest'[c]), Informing(HostName[c])' \/ Ready(c)'
      PROVE  Live(host'[HostName[c]])
  <2>1. Live(guest[c]) /\ Live(host[HostName[c]])
    BY <1>3 DEF Backed
  <2> QED
    BY <2>1
<1>4. Backed(c)'
  BY <1>3 DEF Backed
<1> QED
  BY <1>2, <1>4

\* A step that leaves the child, its copy and what is on its way alone.
LEMMA SteadyUntouched ==
  ASSUME NEW c \in Obj, Fresh(c), Backed(c),
         guest'[c] = guest[c], host' = host, call' = call,
         \A m \in late' : m \in late \/ /\ m.op # "callback"
                                        /\ m.op = "POST" /\ m.to = HostName[c] => ~Unheld(c)
  PROVE  Fresh(c)' /\ Backed(c)'
<1>1. Ready(c)' => Ready(c)
  BY DEF Ready
<1>2. Informing(HostName[c])' => Informing(HostName[c])
  BY DEF Informing
<1> QED
  BY <1>1, <1>2, SteadyKept

LEMMA SteadyRecreated ==
  ASSUME RestCore, Patient, NEW c \in Obj, NEW o \in Obj, UserRecreates(o),
         Fresh(c), Silent(c), Backed(c)
  PROVE  Fresh(c)' /\ Silent(c)' /\ Backed(c)'
<1>1. UserCreate(o) /\ UNCHANGED <<run, host, call, late>> /\ guest \in [Obj -> CR]
  BY CoreFields DEF UserRecreates, UserCreate, netVars, TypeOK
<1>2. Silent(c)'
  BY <1>1 DEF Silent
<1>3. CASE o # c
  <2>1. guest'[c] = guest[c]
    BY <1>1, <1>3 DEF UserCreate
  <2> QED
    BY <1>1, <1>2, <2>1, SteadyUntouched
<1>4. CASE o = c
  <2>1. ~host[HostName[c]].here /\ call[HostName[c]].pc = "idle" /\ late = {}
    BY <1>4 DEF UserRecreates, Patient
  <2>2. guest'[c] = NewCR /\ NewCR.state # "READY"
    BY <1>1, <1>4 DEF UserCreate, NewCR
  <2>3. ~Informing(HostName[c])' /\ ~Ready(c)'
    BY <1>1, <2>1, <2>2 DEF Informing, Ready
  <2> QED
    BY <1>1, <1>2, <2>1, <2>3 DEF Fresh, Backed
<1> QED
  BY <1>3, <1>4

LEMMA SteadyGuest ==
  ASSUME RestCore, NEW c \in Obj, NEW o \in Obj, Guests(o) \/ RestReconcile(o),
         Fresh(c), Silent(c), Backed(c)
  PROVE  Fresh(c)' /\ Silent(c)' /\ Backed(c)'
<1>1. TypeOK /\ guest[c] \in CR /\ UNCHANGED netVars
  BY CoreFields DEF Guests, RestReconcile
<1>2. CASE RestReconcile(o)
  <2>1. UNCHANGED <<guest, host, call, late>>
    BY <1>1, <1>2, Planned DEF RestReconcile, netVars
  <2>2. Silent(c)'
    <3>1. ASSUME NEW r \in Run, Plan(o, r), run' = [run EXCEPT ![o] = r]
          PROVE  Silent(c)'
      <4>1. CASE c = o
        <5>1. run'[c] = r
          BY <1>1, <3>1, <4>1 DEF TypeOK
        <5> QED
          BY <3>1, <5>1 DEF Silent, Plan
      <4>2. CASE c # o
        BY <1>1, <3>1, <4>2 DEF TypeOK, Silent
      <4> QED
        BY <4>1, <4>2
    <3>2. CASE run' = run
      BY <3>2 DEF Silent
    <3> QED
      BY <1>1, <1>2, <3>1, <3>2, Planned DEF RestReconcile
  <2> QED
    BY <2>1, <2>2, SteadyUntouched
<1>3. CASE Guests(o)
  <2>1. UNCHANGED <<run, host, call, late>>
    BY <1>1, <1>3 DEF Guests, UserDelete, CacheSync, Enqueue, netVars
  <2>2. Silent(c)'
    BY <2>1 DEF Silent
  <2>3. guest'[c] = guest[c] \/ ~Live(guest'[c])
    <3>1. CASE UserDelete(o)
      BY <1>1, <3>1, DeletedCR DEF UserDelete, TypeOK, Live
    <3>2. CASE CacheSync(o) \/ Enqueue(o)
      BY <3>2 DEF CacheSync, Enqueue
    <3> QED
      BY <1>3, <3>1, <3>2 DEF Guests
  <2>4. Ready(c)' => Ready(c)
    BY <2>3 DEF Ready
  <2>5. Informing(HostName[c])' => Informing(HostName[c])
    BY <2>1 DEF Informing
  <2>6. Fresh(c)' /\ Backed(c)'
    BY <2>1, <2>3, <2>4, <2>5, SteadyKept
  <2> QED
    BY <2>2, <2>6
<1> QED
  BY <1>2, <1>3

\* A reconcile that creates o's copy, or asks for it, knows that o is held.
LEMMA LookupHolds ==
  ASSUME RestCore, NEW o \in Obj, run[o].pc = "lookup"
  PROVE  ~Unheld(o)
<1>1. ChildInv(o) /\ run[o] \in Run
  BY CoreFields
<1> QED
  BY <1>1 DEF ChildInv, Phases, SeenLive, Held, Unheld

LEMMA SteadyGivesUp ==
  ASSUME RestCore, OwnCopies, NEW c \in Obj, NEW o \in Obj,
         AwaitCallback(o) \/ RequestLost(o),
         Fresh(c), Silent(c), Backed(c)
  PROVE  Fresh(c)' /\ Silent(c)' /\ Backed(c)'
<1>1. PICK r \in Run : WaitsNoLonger(o, r)
  BY GivesUp
<1>2. UNCHANGED <<guest, host, call>>
  BY <1>1 DEF WaitsNoLonger
<1>3. ASSUME NEW m \in late', m \notin late
      PROVE  m.op # "callback" /\ (m.op = "POST" /\ m.to = HostName[c] => ~Unheld(c))
  <2>1. /\ m.op # "callback" /\ m.to = HostName[o]
        /\ m.op = "POST" => run[o].pc = "lookup"
    BY <1>1, <1>3 DEF WaitsNoLonger
  <2> QED
    BY <2>1, LookupHolds DEF OwnCopies
<1>4. Silent(c)'
  <2>1. CASE c = o
    <3>1. /\ run'[c] = r /\ r.seen = run[c].seen /\ run[c].pc # "idle"
          /\ r.state = run[c].state \/ r.state # "READY"
      BY <1>1, <2>1 DEF WaitsNoLonger, Remote
    <3> QED
      BY <3>1 DEF Silent
  <2>2. CASE c # o
    <3>1. run'[c] = run[c]
      BY <1>1, <2>2 DEF WaitsNoLonger
    <3> QED
      BY <3>1 DEF Silent
  <2> QED
    BY <2>1, <2>2
<1> QED
  BY <1>2, <1>3, <1>4, SteadyUntouched

LEMMA SteadyAnswered ==
  ASSUME RestCore, NEW c \in Obj, NEW o \in Obj,
         CreateAnswered(o) \/ DeleteAnswered(o),
         Fresh(c), Silent(c), Backed(c)
  PROVE  Fresh(c)' /\ Silent(c)' /\ Backed(c)'
<1>1. PICK s \in {"PENDING", "FAILED"}, fin \in BOOLEAN, again \in BOOLEAN :
        Answered(o, s, fin, again)
  BY AnswerIn
<1>2. Continue(o, s, fin, again) /\ run[o].pc \in {"lookup", "delete"} /\ s \in State
      /\ UNCHANGED <<host, call, late>>
  BY <1>1 DEF Answered, State
<1>3. /\ \A p \in Obj : p # o => guest'[p] = guest[p] /\ run'[p] = run[p]
      /\ guest'[o].here = guest[o].here /\ guest'[o].deleting = guest[o].deleting
      /\ guest'[o].fin = guest[o].fin
      /\ guest'[o].state = guest[o].state \/ guest'[o].state = s
      /\ run'[o].state = s
  BY <1>2, Continued
<1>4. /\ Live(guest'[c]) => Live(guest[c]) /\ (guest[c].fin => guest'[c].fin)
      /\ Ready(c)' => Ready(c)
  <2>1. CASE c = o
    BY <1>3, <2>1 DEF Live, Ready
  <2>2. CASE c # o
    BY <1>3, <2>2 DEF Ready
  <2> QED
    BY <2>1, <2>2
<1>5. Silent(c)'
  BY <1>3 DEF Silent
<1>6. Informing(HostName[c])' => Informing(HostName[c])
  BY <1>2 DEF Informing
<1>7. Fresh(c)' /\ Backed(c)'
  BY <1>2, <1>4, <1>6, SteadyKept
<1> QED
  BY <1>5, <1>7

LEMMA SteadyResponse ==
  ASSUME RestCore, OwnCopies, NEW c \in Obj, NEW o \in Obj,
         Respond(o) \/ Refused(o),
         Fresh(c), Silent(c), Backed(c)
  PROVE  Fresh(c)' /\ Silent(c)' /\ Backed(c)'
<1>1. TypeOK /\ HostName[o] \in Name /\ HostName[c] \in Name
      /\ ChildInv(c) /\ run[c] \in Run /\ guest[c] \in CR
  BY CoreFields
<1>2. UNCHANGED <<guest, run, call, late>>
  BY DEF Respond, Refused, PostArrives, DeleteArrives, vars
<1>3. Silent(c)'
  BY <1>2 DEF Silent
<1>4. /\ Ready(c)' => Ready(c)
      /\ Informing(HostName[c])' => Informing(HostName[c])
  BY <1>2 DEF Ready, Informing
<1>5. CASE Refused(o)
  BY <1>2, <1>3, <1>5, SteadyUntouched DEF Refused, vars
<1>6. CASE PostArrives(o)
  <2>1. HostCreates(HostName[o]) /\ run[o].pc = "lookup"
    BY <1>6 DEF PostArrives
  <2>2. Live(host[HostName[c]]) => Live(host'[HostName[c]])
    BY <1>1, <2>1, HostCreated
  <2>3. host'[HostName[c]].here => host[HostName[c]].here \/ ~Unheld(c)
    <3>1. CASE HostName[c] = HostName[o]
      BY <2>1, <3>1, LookupHolds DEF OwnCopies
    <3>2. CASE HostName[c] # HostName[o]
      BY <1>1, <2>1, <3>2, HostCreated
    <3> QED
      BY <3>1, <3>2
  <2>4. Fresh(c)' /\ Backed(c)'
    BY <1>2, <1>4, <2>2, <2>3, SteadyKept
  <2> QED
    BY <1>3, <2>4
<1>7. CASE DeleteArrives(o)
  <2>1. HostDeletes(HostName[o]) /\ run[o].pc = "delete"
    BY <1>7 DEF DeleteArrives
  <2>2. host'[HostName[c]].here => host[HostName[c]].here
    BY <1>1, <2>1, HostDeleted
  <2>3. Live(host[HostName[c]]) => Live(host'[HostName[c]]) \/ ~Live(guest[c])
    <3>1. CASE HostName[c] # HostName[o]
      BY <1>1, <2>1, <3>1, HostDeleted
    <3>2. CASE HostName[c] = HostName[o] /\ Live(guest[c])
      <4>1. run[c].pc = "delete"
        BY <2>1, <3>2 DEF OwnCopies
      <4>2. ~guest[c].fin
        BY <1>1, <3>2, <4>1 DEF ChildInv, Phases, SeenDeleting
      <4> QED
        BY <3>2, <4>2 DEF Fresh, Live
    <3> QED
      BY <3>1, <3>2
  <2>4. Fresh(c)' /\ Backed(c)'
    BY <1>2, <1>4, <2>2, <2>3, SteadyKept
  <2> QED
    BY <1>3, <2>4
<1> QED
  BY <1>5, <1>6, <1>7 DEF Respond

LEMMA SteadyPatch ==
  ASSUME RestCore, NEW c \in Obj, NEW o \in Obj, RestPatch(o) \/ RestPatchFails(o),
         Fresh(c), Silent(c), Backed(c)
  PROVE  Fresh(c)' /\ Silent(c)' /\ Backed(c)'
<1>1. TypeOK /\ guest[c] \in CR /\ run[c] \in Run /\ ChildInv(c)
  BY CoreFields
<1>2. /\ run[o].pc = "patch" /\ run' = [run EXCEPT ![o] = Idle]
      /\ guest' = guest \/ guest' = [guest EXCEPT ![o] = Patched(o)]
      /\ UNCHANGED <<host, call, late>>
  BY PatchEnds
<1>3. Idle.pc = "idle"
  BY DEF Idle
<1>4. Silent(c)'
  BY <1>1, <1>2, <1>3 DEF Silent, TypeOK
<1>5. guest'[c] = guest[c] \/ (c = o /\ guest'[c] = Patched(c))
  BY <1>1, <1>2 DEF TypeOK
<1>6. ASSUME c = o, guest'[c] = Patched(c)
      PROVE  /\ Live(guest'[c]) => Live(guest[c]) /\ (guest[c].fin => guest'[c].fin)
             /\ Ready(c)' => Ready(c)
  <2>1. Live(Patched(c)) => Live(guest[c])
    BY <1>1, PatchedFields DEF Live
  <2>2. Live(guest[c]) /\ guest[c].fin => (run[c].seen.fin => run[c].fin)
    BY <1>1, <1>2, <1>6 DEF ChildInv, SeenDeleting, SeenLive
  <2>3. Live(guest[c]) /\ guest[c].fin => Patched(c).fin
    BY <1>1, <2>2, PatchedFields DEF Held, Live
  <2>4. Ready(c)' => Ready(c)
    BY <1>1, <1>2, <1>6, PatchedFields DEF Ready, Silent
  <2> QED
    BY <1>6, <2>1, <2>3, <2>4
<1>7. /\ Live(guest'[c]) => Live(guest[c]) /\ (guest[c].fin => guest'[c].fin)
      /\ Ready(c)' => Ready(c)
  BY <1>5, <1>6 DEF Ready
<1>8. Informing(HostName[c])' => Informing(HostName[c])
  BY <1>2 DEF Informing
<1>9. Fresh(c)' /\ Backed(c)'
  BY <1>2, <1>7, <1>8, SteadyKept
<1> QED
  BY <1>4, <1>9

LEMMA SteadyHost ==
  ASSUME RestCore, NEW c \in Obj, NEW h \in Name, HostReconciles(h) \/ HostLetsGo(h),
         Fresh(c), Silent(c), Backed(c)
  PROVE  Fresh(c)' /\ Silent(c)' /\ Backed(c)'
<1>1. HostName[c] \in Name
  BY CoreFields
<1>2. /\ UNCHANGED <<guest, run, call, late>>
      /\ host'[HostName[c]].here => host[HostName[c]].here
      /\ Live(host[HostName[c]]) => Live(host'[HostName[c]])
  BY <1>1, HostAlone DEF HostChange
<1>3. /\ Silent(c)' /\ (Ready(c)' => Ready(c))
      /\ Informing(HostName[c])' => Informing(HostName[c])
  BY <1>2 DEF Silent, Ready, Informing
<1>4. Fresh(c)' /\ Backed(c)'
  BY <1>2, <1>3, SteadyKept
<1> QED
  BY <1>3, <1>4

LEMMA SteadyCalls ==
  ASSUME RestCore, NEW c \in Obj, Calls,
         Fresh(c), Silent(c), Backed(c)
  PROVE  Fresh(c)' /\ Silent(c)' /\ Backed(c)'
<1>1. HostName[c] \in Name
  BY CoreFields
<1>2. UNCHANGED <<guest, run, host>>
  BY Calling DEF vars
<1>3. /\ \A g \in Name : call'[g].pc = "sent" => call[g].pc = "sent" \/ Live(host[g])
      /\ \A m \in late' :
           m \in late \/ (m.op = "callback" /\ call[m.to].pc = "sent")
  BY Calling
<1>4. Informing(HostName[c])' => Informing(HostName[c]) \/ Live(host[HostName[c]])
  BY <1>1, <1>3 DEF Informing
<1>5. Silent(c)' /\ (Ready(c)' => Ready(c))
  BY <1>2 DEF Silent, Ready
<1>6. Fresh(c)' /\ Backed(c)'
  BY <1>2, <1>3, <1>4, <1>5, SteadyKept
<1> QED
  BY <1>5, <1>6

\* A child that is told READY has a copy: the news are of a live one.
LEMMA SteadyInformed ==
  ASSUME RestCore, NEW c \in Obj, NEW h \in Name, NEW s \in State, Inform(h, s),
         Informing(h), UNCHANGED <<run, host>>,
         Informing(HostName[c])' => Informing(HostName[c]),
         late' \subseteq late,
         Fresh(c), Silent(c), Backed(c)
  PROVE  Fresh(c)' /\ Silent(c)' /\ Backed(c)'
<1>1. TypeOK
  BY CoreFields
<1>2. /\ guest'[c].here = guest[c].here /\ guest'[c].deleting = guest[c].deleting
      /\ guest'[c].fin = guest[c].fin
      /\ guest'[c] = guest[c] \/ HostName[c] = h
  BY <1>1, Informed
<1>3. Live(guest'[c]) => Live(guest[c]) /\ (guest[c].fin => guest'[c].fin)
  BY <1>2 DEF Live
<1>4. Ready(c)' => Ready(c) \/ Informing(HostName[c])
  BY <1>2 DEF Ready
<1>5. Fresh(c)' /\ Backed(c)'
  BY <1>3, <1>4, SteadyKept
<1>6. Silent(c)'
  BY DEF Silent
<1> QED
  BY <1>5, <1>6

LEMMA SteadyCallback ==
  ASSUME RestCore, NEW c \in Obj, NEW h \in Name,
         CallbackArrives(h) \/ CallbackReturns(h),
         Fresh(c), Silent(c), Backed(c)
  PROVE  Fresh(c)' /\ Silent(c)' /\ Backed(c)'
<1>1. /\ TypeOK /\ HostName[c] \in Name /\ host[HostName[c]] \in CR
      /\ call \in [Name -> [pc : {"idle", "sent", "answered"}, state : State,
                            code : {"none"} \cup Code]]
  BY CoreFields
<1>2. /\ \A g \in Name : call'[g].pc = "sent" => call[g].pc = "sent"
      /\ late' = late
  <2>1. CASE CallbackArrives(h)
    <3>1. PICK code \in {"500", "2xx"} : Returned(h, code)
      BY <2>1 DEF CallbackArrives
    <3> DEFINE r == [call[h] EXCEPT !.pc = "answered", !.code = code]
    <3>2. r.pc = "answered"
      BY <1>1
    <3>3. call' = [call EXCEPT ![h] = r] /\ UNCHANGED late
      BY <1>1, <2>1, <3>1 DEF CallbackArrives, Returned
    <3> HIDE DEF r
    <3> QED
      BY <1>1, <3>2, <3>3
  <2>2. CASE CallbackReturns(h)
    <3>1. call' = [call EXCEPT ![h] = NoCall] /\ UNCHANGED late /\ NoCall.pc = "idle"
      BY <2>2 DEF CallbackReturns, NoCall
    <3> QED
      BY <1>1, <3>1
  <2> QED
    BY <2>1, <2>2
<1>3. Informing(HostName[c])' => Informing(HostName[c])
  BY <1>1, <1>2 DEF Informing
<1>4. CASE CallbackArrives(h)
  <2>1. Inform(h, call[h].state) /\ call[h].pc = "sent" /\ call[h].state \in State
        /\ UNCHANGED <<run, host>>
    BY <1>1, <1>4 DEF CallbackArrives
  <2>2. Informing(h)
    BY <2>1 DEF Informing
  <2> QED
    BY <1>2, <1>3, <2>1, <2>2, SteadyInformed
<1>5. CASE CallbackReturns(h)
  <2>1. UNCHANGED <<guest, run>>
    BY <1>5 DEF CallbackReturns
  <2>2. PICK s : host' = [host EXCEPT ![h].state = s]
    BY <1>5 DEF CallbackReturns
  <2>3. host'[HostName[c]].here = host[HostName[c]].here
        /\ host'[HostName[c]].deleting = host[HostName[c]].deleting
    BY <1>1, <2>2 DEF TypeOK, CR
  <2>4. Silent(c)' /\ (Ready(c)' => Ready(c))
    BY <2>1 DEF Silent, Ready
  <2>5. Fresh(c)' /\ Backed(c)'
    BY <1>2, <1>3, <2>1, <2>3, <2>4, SteadyKept DEF Live
  <2> QED
    BY <2>4, <2>5
<1> QED
  BY <1>4, <1>5

LEMMA SteadyLate ==
  ASSUME RestCore, "DELETE" \notin Network, NEW c \in Obj,
         NEW m \in late, LateArrives(m),
         Fresh(c), Silent(c), Backed(c)
  PROVE  Fresh(c)' /\ Silent(c)' /\ Backed(c)'
<1>1. TypeOK /\ HostName[c] \in Name /\ m \in Requests
  BY CoreFields
<1>2. /\ m.to \in Name /\ m.state \in State /\ m.op \in {"POST", "callback"}
      /\ UNCHANGED <<run, call>> /\ late' \subseteq late
  BY <1>1 DEF Requests, RestCore, Addresses, LateArrives
<1>3. Informing(HostName[c])' => Informing(HostName[c])
  BY <1>2 DEF Informing
<1>4. CASE m.op = "POST"
  <2>1. HostCreates(m.to) /\ UNCHANGED guest
    BY <1>4 DEF LateArrives
  <2>2. /\ host'[HostName[c]].here => host[HostName[c]].here \/ m.to = HostName[c]
        /\ Live(host[HostName[c]]) => Live(host'[HostName[c]])
    BY <1>1, <1>2, <2>1, HostCreated
  <2>3. Silent(c)' /\ (Ready(c)' => Ready(c))
    BY <1>2, <2>1 DEF Silent, Ready
  <2>4. Fresh(c)' /\ Backed(c)'
    BY <1>2, <1>3, <1>4, <2>1, <2>2, <2>3, SteadyKept
  <2> QED
    BY <2>3, <2>4
<1>5. CASE m.op = "callback"
  <2>1. Inform(m.to, m.state) /\ UNCHANGED host
    BY <1>5 DEF LateArrives
  <2>2. Informing(m.to)
    BY <1>5 DEF Informing
  <2> QED
    BY <1>2, <1>3, <2>1, <2>2, SteadyInformed
<1> QED
  BY <1>2, <1>4, <1>5

LEMMA SteadyRestart ==
  ASSUME RestCore, OwnCopies, NEW c \in Obj, GuestRestarts,
         Fresh(c), Silent(c), Backed(c)
  PROVE  Fresh(c)' /\ Silent(c)' /\ Backed(c)'
<1>1. UNCHANGED <<guest, host, call>> /\ run' = [o \in Obj |-> Idle] /\ Idle.pc = "idle"
  BY DEF GuestRestarts, Crash, Idle
<1>2. Silent(c)'
  BY <1>1 DEF Silent
<1>3. ASSUME NEW m \in late', m \notin late
      PROVE  m.op # "callback" /\ (m.op = "POST" /\ m.to = HostName[c] => ~Unheld(c))
  BY <1>3, RestartSends, LookupHolds DEF OwnCopies
<1> QED
  BY <1>1, <1>2, <1>3, SteadyUntouched

LEMMA ReadyRestNext ==
  RestCore /\ RestReady /\ [RestNext]_restVars => RestReady'
<1> SUFFICES ASSUME RestCore, RestReady, [RestNext]_restVars, Patient, NEW c \in Obj
             PROVE  Fresh(c)' /\ Silent(c)' /\ Backed(c)'
  BY DEF RestReady, Patient, OwnCopies
<1>1. Fresh(c) /\ Silent(c) /\ Backed(c) /\ OwnCopies /\ "DELETE" \notin Network
  BY DEF RestReady, Patient
<1>2. ASSUME NEW o \in Obj, UserRecreates(o)
      PROVE  Fresh(c)' /\ Silent(c)' /\ Backed(c)'
  BY <1>1, <1>2, SteadyRecreated
<1>3. ASSUME NEW o \in Obj, Guests(o) \/ RestReconcile(o)
      PROVE  Fresh(c)' /\ Silent(c)' /\ Backed(c)'
  BY <1>1, <1>3, SteadyGuest
<1>4. ASSUME NEW o \in Obj, AwaitCallback(o) \/ RequestLost(o)
      PROVE  Fresh(c)' /\ Silent(c)' /\ Backed(c)'
  BY <1>1, <1>4, SteadyGivesUp
<1>5. ASSUME NEW o \in Obj, Respond(o) \/ Refused(o)
      PROVE  Fresh(c)' /\ Silent(c)' /\ Backed(c)'
  BY <1>1, <1>5, SteadyResponse
<1>6. ASSUME NEW o \in Obj, CreateAnswered(o) \/ DeleteAnswered(o)
      PROVE  Fresh(c)' /\ Silent(c)' /\ Backed(c)'
  BY <1>1, <1>6, SteadyAnswered
<1>7. ASSUME NEW o \in Obj, RestPatch(o) \/ RestPatchFails(o)
      PROVE  Fresh(c)' /\ Silent(c)' /\ Backed(c)'
  BY <1>1, <1>7, SteadyPatch
<1>8. ASSUME NEW h \in Name, HostReconciles(h) \/ HostLetsGo(h)
      PROVE  Fresh(c)' /\ Silent(c)' /\ Backed(c)'
  BY <1>1, <1>8, SteadyHost
<1>9. ASSUME NEW h \in Name, CallbackArrives(h) \/ CallbackReturns(h)
      PROVE  Fresh(c)' /\ Silent(c)' /\ Backed(c)'
  BY <1>1, <1>9, SteadyCallback
<1>10. CASE Calls
  BY <1>1, <1>10, SteadyCalls
<1>11. ASSUME NEW m \in late, LateArrives(m)
       PROVE  Fresh(c)' /\ Silent(c)' /\ Backed(c)'
  BY <1>1, <1>11, SteadyLate
<1>12. ASSUME UNCHANGED <<guest, run, host, call, late>>
       PROVE  Fresh(c)' /\ Silent(c)' /\ Backed(c)'
  <2>1. Silent(c)'
    BY <1>1, <1>12 DEF Silent
  <2> QED
    BY <1>1, <1>12, <2>1, SteadyUntouched
<1>13. ASSUME NEW s \in {"AVAILABLE", "LOCKED", "OTHER"}, FederationStatus(s),
              UNCHANGED netVars
       PROVE  Fresh(c)' /\ Silent(c)' /\ Backed(c)'
  BY <1>12, <1>13 DEF FederationStatus, netVars
<1>14. CASE FederationRemoved /\ UNCHANGED netVars
  BY <1>12, <1>14 DEF FederationRemoved, netVars
<1>15. CASE GuestRestarts
  BY <1>1, <1>15, SteadyRestart
<1>16. CASE UNCHANGED restVars
  BY <1>12, <1>16 DEF restVars, vars
<1> QED
  BY <1>2, <1>3, <1>4, <1>5, <1>6, <1>7, <1>8, <1>9, <1>10, <1>11, <1>13, <1>14,
     <1>15, <1>16 DEF RestNext, Calls

LEMMA ReadyRestInit == RestInit => RestReady
<1> SUFFICES ASSUME RestInit, NEW c \in Obj
             PROVE  Fresh(c) /\ Silent(c) /\ Backed(c)
  BY DEF RestReady
<1> QED
  BY DEF RestInit, Init, Fresh, Silent, Backed, Live, NoCR, Idle
----------------------------------------------------------------------------
(***************************************************************************)
(* The theorems.                                                           *)
(***************************************************************************)

LEMMA RestParts == RestInv <=> RestCore /\ RestReady
  BY DEF RestInv, RestCore

\* What a stale cache, a reconcile in progress, an answer that is in and a
\* request that is on its way can be wrong about stays within RestInv.
THEOREM RestInvariant == RestSpec => []RestInv
<1>1. RestInit => RestInv
  BY CoreInit, ReadyRestInit, RestParts
<1>2. RestInv /\ [RestNext]_restVars => RestInv'
  <2>1. (RestCore /\ RestReady)' => RestInv'
    BY DEF RestInv, RestCore
  <2> QED
    BY <2>1, CoreNext, ReadyRestNext, RestParts
<1> QED
  BY <1>1, <1>2, PTL DEF RestSpec

\* Every variable keeps its type: the writes that carry a version and the
\* callbacks never give a status to a child that is gone.
THEOREM RestTyped == RestSpec => []RestTypeOK
<1>1. RestInv => RestTypeOK
  BY DEF RestInv
<1> QED
  BY <1>1, RestInvariant, PTL

\* A copy without a holder, which nobody has asked the host to delete, was left
\* behind by a deletion that the host refused or by a creation that came late.
THEOREM KeptOrStrayAlways == RestSpec => []KeptOrStray
<1>1. RestInv => KeptOrStray
  BY DEF RestInv, RestAnswered, KeptOrStray, Keeper
<1> QED
  BY <1>1, RestInvariant, PTL

\* READY means that there is a copy, over REST as well, although the state
\* comes in callbacks that may be late, where children do not share copies,
\* users are not hasty and no deletion comes late.
THEOREM ReadyOverRestAlways == RestSpec => []ReadyOverRest
<1>1. RestInv => ReadyOverRest
  BY DEF RestInv, RestReady, Backed, ReadyOverRest, ReadyHasCopy, Ready
<1> QED
  BY <1>1, RestInvariant, PTL
=============================================================================

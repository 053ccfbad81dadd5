------------------------ MODULE ChildMirror_proofs ------------------------
(***************************************************************************)
(* Proofs of the safety of ChildMirror, for any children, names, kinds,    *)
(* references, answers and faults.                                         *)
(***************************************************************************)
EXTENDS ChildMirrorInv, TLAPS

(***************************************************************************)
(* What a reconcile may begin with: nothing, or a run that carries what    *)
(* the cache shows and one of six plans.                                   *)
(***************************************************************************)
Plan(o, r) ==
  /\ r \in Run /\ r.seen = cache[o] /\ cache[o].here /\ ~r.isNew
  /\ \/ r.pc = "patch" /\ r.fin = cache[o].fin /\ r.state = "FAILED"
     \/ r.pc = "delete" /\ cache[o].deleting /\ r.fin = cache[o].fin
          /\ r.state = cache[o].state
     \/ r.pc = "patch" /\ Live(cache[o]) /\ ~cache[o].fin /\ r.fin
          /\ r.state = cache[o].state
     \/ r.pc \in {"patch", "lookup"} /\ Live(cache[o]) /\ cache[o].fin /\ r.fin
          /\ r.state = "PENDING"
     \/ r.pc = "get" /\ Live(cache[o]) /\ cache[o].fin /\ r.fin
          /\ r.state = cache[o].state

LEMMA Planned ==
  ASSUME TypeOK, NEW o \in Obj, ReconcileAny(o)
  PROVE  /\ queue' \subseteq Obj
         /\ UNCHANGED <<guest, cache, host, fed>>
         /\ \/ run' = run
            \/ \E r \in Run : Plan(o, r) /\ run' = [run EXCEPT ![o] = r]
<1>1. PICK needs, users : Reconcile(o, needs, users)
  BY DEF ReconcileAny, ReconcileImage, ReconcileArtefact,
         ReconcileApplicationOnboarding, ReconcileApplicationDeployment,
         ReconcileAvailabilityZone, ReconcileConsumptionMonitoring
<1>2. cache[o] \in CR /\ cache[o].here \in BOOLEAN /\ cache[o].fin \in BOOLEAN
      /\ cache[o].state \in State
  BY DEF TypeOK, CR
<1>3. Begin(o)
  BY <1>1 DEF Reconcile, Ignore, NoFederation, StartDelete, AddFinalizer,
              AwaitPrerequisites, StartCreate, StartUpdateStatus
<1>4. queue' \subseteq Obj /\ UNCHANGED <<guest, cache, host, fed>>
  BY <1>3 DEF Begin, TypeOK
<1>5. CASE Ignore(o)
  BY <1>5, <1>4 DEF Ignore
<1>7. CASE NoFederation(o)
  <2> DEFINE r == Entered(o, "patch", "FAILED", cache[o].fin, TRUE)
  <2>1. r \in Run
    BY <1>2 DEF Entered, Run, Remote, State
  <2>2. Plan(o, r)
    BY <2>1, <1>2, <1>7 DEF Plan, Entered, NoFederation
  <2>3. run' = [run EXCEPT ![o] = r]
    BY <1>7 DEF Enter, NoFederation
  <2> QED
    BY <1>4, <2>1, <2>2, <2>3
<1>8. CASE StartDelete(o, users)
  <2> DEFINE r == Entered(o, "delete", cache[o].state, cache[o].fin, FALSE)
  <2>1. r \in Run
    BY <1>2 DEF Entered, Run, Remote, State
  <2>2. Plan(o, r)
    BY <2>1, <1>2, <1>8 DEF Plan, Entered, StartDelete
  <2>3. run' = [run EXCEPT ![o] = r]
    BY <1>8 DEF Enter, StartDelete
  <2> QED
    BY <1>4, <2>1, <2>2, <2>3
<1>9. CASE AddFinalizer(o)
  <2> DEFINE r == Entered(o, "patch", cache[o].state, TRUE, FALSE)
  <2>1. r \in Run
    BY <1>2 DEF Entered, Run, Remote, State
  <2>2. Plan(o, r)
    BY <2>1, <1>2, <1>9 DEF Plan, Entered, AddFinalizer, Live
  <2>3. run' = [run EXCEPT ![o] = r]
    BY <1>9 DEF Enter, AddFinalizer
  <2> QED
    BY <1>4, <2>1, <2>2, <2>3
<1>10. CASE AwaitPrerequisites(o, needs)
  <2> DEFINE r == Entered(o, "patch", "PENDING", TRUE, TRUE)
  <2>1. r \in Run
    BY <1>2 DEF Entered, Run, Remote, State
  <2>2. Plan(o, r)
    BY <2>1, <1>2, <1>10 DEF Plan, Entered, AwaitPrerequisites, IsNew, Live
  <2>3. run' = [run EXCEPT ![o] = r]
    BY <1>10 DEF Enter, AwaitPrerequisites
  <2> QED
    BY <1>4, <2>1, <2>2, <2>3
<1>11. CASE StartCreate(o, needs)
  <2> DEFINE r == Entered(o, "lookup", "PENDING", TRUE, FALSE)
  <2>1. r \in Run
    BY <1>2 DEF Entered, Run, Remote, State
  <2>2. Plan(o, r)
    BY <2>1, <1>2, <1>11 DEF Plan, Entered, StartCreate, IsNew, Live
  <2>3. run' = [run EXCEPT ![o] = r]
    BY <1>11 DEF Enter, StartCreate
  <2> QED
    BY <1>4, <2>1, <2>2, <2>3
<1>12. CASE StartUpdateStatus(o)
  <2> DEFINE r == Entered(o, "get", cache[o].state, TRUE, FALSE)
  <2>1. r \in Run
    BY <1>2 DEF Entered, Run, Remote, State
  <2>2. Plan(o, r)
    BY <2>1, <1>2, <1>12 DEF Plan, Entered, StartUpdateStatus, Live
  <2>3. run' = [run EXCEPT ![o] = r]
    BY <1>12 DEF Enter, StartUpdateStatus
  <2> QED
    BY <1>4, <2>1, <2>2, <2>3
<1> QED
  BY <1>1, <1>5, <1>7, <1>8, <1>9, <1>10, <1>11, <1>12 DEF Reconcile

----------------------------------------------------------------------------
(***************************************************************************)
(* Types.                                                                  *)
(***************************************************************************)

LEMMA CRs == NoCR \in CR /\ NewCR \in CR
  BY DEF CR, NoCR, NewCR, State

LEMMA CRFields ==
  ASSUME NEW cr \in CR
  PROVE  /\ cr.here \in BOOLEAN /\ cr.deleting \in BOOLEAN /\ cr.fin \in BOOLEAN
         /\ cr.state \in State
         /\ cr.deleting => cr.fin
         /\ cr.fin => cr.here
  BY DEF CR

LEMMA NewFields == NewCR.here /\ ~NewCR.deleting /\ ~NewCR.fin
  BY DEF NewCR

LEMMA DeletedCR ==
  ASSUME NEW cr \in CR, cr.here
  PROVE  /\ Deleted(cr) \in CR /\ ~Live(Deleted(cr))
         /\ cr.fin => Deleted(cr).here /\ Deleted(cr).fin /\ Deleted(cr).deleting
         /\ ~cr.fin => Deleted(cr) = NoCR
  BY CRs DEF CR, Deleted, Live, NoCR

LEMMA PatchedCR ==
  ASSUME TypeOK, NEW o \in Obj
  PROVE  Patched(o) \in CR
<1> DEFINE fin == IF run[o].fin # run[o].seen.fin THEN run[o].fin ELSE guest[o].fin
           st == IF run[o].state = run[o].seen.state \/ run[o].seen.deleting
                 THEN guest[o].state ELSE run[o].state
<1>1. guest[o] \in CR /\ run[o].fin \in BOOLEAN /\ run[o].state \in State
  BY DEF TypeOK, Run
<1>2. fin \in BOOLEAN /\ st \in State
  BY <1>1 DEF CR
<1>3. CASE ~guest[o].here \/ (guest[o].deleting /\ ~fin)
  BY <1>3, CRs DEF Patched
<1>4. CASE ~(~guest[o].here \/ (guest[o].deleting /\ ~fin))
  <2>1. [guest[o] EXCEPT !.fin = fin, !.state = st] \in CR
    BY <1>1, <1>2, <1>4 DEF CR
  <2>2. Patched(o) = [guest[o] EXCEPT !.fin = fin, !.state = st]
    BY <1>1, <1>4 DEF Patched, CR
  <2> QED
    BY <2>1, <2>2
<1> QED
  BY <1>3, <1>4

LEMMA AppliedCR ==
  ASSUME TypeOK, NEW o \in Obj
  PROVE  /\ Applied(o) \in [Name -> CR] /\ Removed(o) \in [Name -> CR]
         /\ \A h \in Name :
              h # HostName[o] => Applied(o)[h] = host[h] /\ Removed(o)[h] = host[h]
         /\ Applied(o)[HostName[o]] =
              IF host[HostName[o]].here THEN host[HostName[o]] ELSE NewCR
         /\ ~Live(Removed(o)[HostName[o]])
<1>1. HostName[o] \in Name /\ host[HostName[o]] \in CR
  BY ConstantsAssumption DEF TypeOK
<1>2. host[HostName[o]].here => Deleted(host[HostName[o]]) \in CR
                                /\ ~Live(Deleted(host[HostName[o]]))
  BY <1>1, DeletedCR
<1> QED
  BY <1>1, <1>2, CRs DEF TypeOK, Applied, Removed, Live

\* What the host does by itself: it changes CRs, but none of them becomes
\* live or stops being so, and none begins to be deleted.
HostChange ==
  /\ UNCHANGED <<guest, cache, queue, run, fed>>
  /\ host' \in [Name -> CR]
  /\ \A h \in Name : (Live(host'[h]) <=> Live(host[h]))
  /\ \A h \in Name : (host'[h].deleting => host[h].deleting)

LEMMA HostChanges ==
  ASSUME TypeOK, NEW h \in Name, HostStep(h) \/ OrchestratorDecides(h)
  PROVE  HostChange
<1>1. host \in [Name -> CR] /\ host[h] \in CR
  BY DEF TypeOK
<1>2. ASSUME NEW cr \in CR, host' = [host EXCEPT ![h] = cr],
             UNCHANGED <<guest, cache, queue, run, fed>>,
             Live(cr) <=> Live(host[h]), cr.deleting => host[h].deleting
      PROVE  HostChange
  <2>1. host' \in [Name -> CR] /\ host'[h] = cr
        /\ \A n \in Name : n # h => host'[n] = host[n]
    BY <1>1, <1>2
  <2>2. ASSUME NEW n \in Name
        PROVE  (Live(host'[n]) <=> Live(host[n])) /\ (host'[n].deleting => host[n].deleting)
    <3>1. CASE n = h
      BY <1>2, <2>1, <3>1
    <3>2. CASE n # h
      BY <2>1, <3>2
    <3> QED
      BY <3>1, <3>2
  <2> QED
    BY <1>2, <2>1, <2>2 DEF HostChange
<1>3. CASE HostAddFinalizer(h)
  <2> DEFINE cr == [host[h] EXCEPT !.fin = TRUE]
  <2>1. cr \in CR /\ (Live(cr) <=> Live(host[h])) /\ (cr.deleting => host[h].deleting)
    BY <1>1, <1>3 DEF HostAddFinalizer, CR, Live
  <2>2. host' = [host EXCEPT ![h] = cr] /\ UNCHANGED <<guest, cache, queue, run, fed>>
    BY <1>1, <1>3 DEF HostAddFinalizer
  <2> QED
    BY <1>2, <2>1, <2>2
<1>4. ASSUME NEW s \in State, SetHostState(h, s), Live(host[h])
      PROVE  HostChange
  <2> DEFINE cr == [host[h] EXCEPT !.state = s]
  <2>1. cr \in CR /\ (Live(cr) <=> Live(host[h])) /\ (cr.deleting => host[h].deleting)
    BY <1>1, <1>4 DEF CR, Live
  <2>2. host' = [host EXCEPT ![h] = cr] /\ UNCHANGED <<guest, cache, queue, run, fed>>
    BY <1>1, <1>4 DEF SetHostState
  <2> QED
    BY <1>2, <2>1, <2>2
<1>5. CASE HostSetPending(h)
  BY <1>4, <1>5 DEF HostSetPending, State
<1>6. CASE OrchestratorDecides(h)
  BY <1>4, <1>6, ConstantsAssumption DEF OrchestratorDecides, State
<1>7. CASE HostRemoveFinalizer(h)
  <2>1. ~Live(NoCR) /\ ~Live(host[h]) /\ ~NoCR.deleting
    BY <1>7 DEF HostRemoveFinalizer, Live, NoCR
  <2> QED
    BY <1>2, <1>7, <2>1, CRs DEF HostRemoveFinalizer
<1> QED
  BY <1>3, <1>5, <1>6, <1>7 DEF HostStep

LEMMA TypeInit == Init => TypeOK
<1> SUFFICES ASSUME Init PROVE TypeOK
  OBVIOUS
<1>1. Idle \in Run
  BY CRs DEF Idle, Run, Remote, State
<1> QED
  BY <1>1, CRs DEF Init, TypeOK, FedState

LEMMA RunStep ==
  ASSUME TypeOK, NEW o \in Obj, NEW r \in Run, Step(o, r)
  PROVE  run' \in [Obj -> Run] /\ run'[o] = r
         /\ \A p \in Obj : p # o => run'[p] = run[p]
  BY DEF TypeOK, Step

LEMMA TypeNext == TypeOK /\ [Next]_vars => TypeOK'
<1> SUFFICES ASSUME TypeOK, [Next]_vars PROVE TypeOK'
  OBVIOUS
<1> USE DEF TypeOK
<1>1. ASSUME NEW o \in Obj, UserCreate(o) PROVE TypeOK'
  BY <1>1, CRs DEF UserCreate
<1>2. ASSUME NEW o \in Obj, UserDelete(o) PROVE TypeOK'
  BY <1>2, DeletedCR DEF UserDelete, Live
<1>3. ASSUME NEW o \in Obj, CacheSync(o) \/ Enqueue(o) PROVE TypeOK'
  BY <1>3 DEF CacheSync, Enqueue
<1>4. ASSUME NEW o \in Obj, ReconcileAny(o) PROVE TypeOK'
  BY <1>4, Planned
<1>5. ASSUME NEW o \in Obj, CallHost(o) PROVE TypeOK'
  <2>1. run[o] \in Run /\ HostName[o] \in Name /\ host[HostName[o]] \in CR
    BY ConstantsAssumption
  <2>2. CASE LookupCopy(o)
    BY <2>1, <2>2, RunStep DEF LookupCopy, Step, Run, Remote, CR
  <2>3. CASE ApplyCopy(o)
    BY <2>1, <2>3, AppliedCR DEF ApplyCopy, Step, Run, Remote
  <2>4. CASE CopyStatus(o)
    <3>1. Copied(o) \in State
      BY <2>1 DEF Copied, Run, CR
    <3> QED
      BY <2>1, <2>4, <3>1 DEF CopyStatus, Step, Run, Remote
  <2>5. CASE CopyNotFound(o)
    BY <2>1, <2>5 DEF CopyNotFound, Step, Run, Remote, State
  <2>6. CASE DeleteCopy(o)
    BY <2>1, <2>6, AppliedCR DEF DeleteCopy, Step, Run, Remote
  <2> QED
    BY <1>5, <2>2, <2>3, <2>4, <2>5, <2>6 DEF CallHost
<1>6. ASSUME NEW o \in Obj, RemoteFails(o) PROVE TypeOK'
  <2>1. PICK s \in State : run' = [run EXCEPT ![o] =
          [run[o] EXCEPT !.pc = "patch", !.again = TRUE, !.state = s]]
    BY <1>6 DEF RemoteFails, Step, Run, State
  <2>2. [run[o] EXCEPT !.pc = "patch", !.again = TRUE, !.state = s] \in Run
    BY DEF Run
  <2>3. host' \in [Name -> CR]
    BY <1>6, AppliedCR DEF RemoteFails
  <2> QED
    BY <1>6, <2>1, <2>2, <2>3 DEF RemoteFails
<1>7. ASSUME NEW o \in Obj, Patch(o) \/ PatchFails(o) PROVE TypeOK'
  <2>1. Idle \in Run
    BY CRs DEF Idle, Run, Remote, State
  <2> QED
    BY <1>7, <2>1, PatchedCR DEF Patch, PatchFails
<1>8. ASSUME NEW h \in Name, HostStep(h) \/ OrchestratorDecides(h) PROVE TypeOK'
  BY <1>8, HostChanges DEF HostChange
<1>9. ASSUME NEW s \in {"AVAILABLE", "LOCKED", "OTHER"}, FederationStatus(s)
      PROVE  TypeOK'
  BY <1>9 DEF FederationStatus, FedState
<1>10. CASE FederationRemoved
  BY <1>10 DEF FederationRemoved, FedState
<1>11. CASE Crash
  <2>1. Idle \in Run
    BY CRs DEF Idle, Run, Remote, State
  <2> QED
    BY <1>11, <2>1 DEF Crash
<1>12. CASE UNCHANGED vars
  BY <1>12 DEF vars
<1> QED
  BY <1>1, <1>2, <1>3, <1>4, <1>5, <1>6, <1>7, <1>8, <1>9, <1>10, <1>11, <1>12
  DEF Next

\* Every variable keeps its type; in particular the API servers never hold a
\* CR that is being deleted without a finalizer.
THEOREM TypeCorrect == Spec => []TypeOK
  BY TypeInit, TypeNext, PTL DEF Spec
----------------------------------------------------------------------------
(***************************************************************************)
(* The inductive invariant.                                                *)
(***************************************************************************)

\* A step disturbs the invariant of the children it touches only.
LEMMA Untouched ==
  ASSUME NEW o \in Obj, ChildInv(o),
         guest'[o] = guest[o], cache'[o] = cache[o], run'[o] = run[o]
  PROVE  ChildInv(o)' /\ (Keeper(o) => Keeper(o)')
  BY DEF ChildInv, CacheBehind, CacheDeleting, SeenDeleting, SeenLive, Phases,
         Keeper, Held, CacheHeld, Releasing, Live

\* While no copy becomes live and every keeper remains one, every live copy
\* is answered for.
LEMMA StillAnswered ==
  ASSUME CopyAnswered,
         \A h \in Name : Live(host'[h]) => Live(host[h]),
         \A o \in Obj : Keeper(o) => Keeper(o)'
  PROVE  CopyAnswered'
  BY DEF CopyAnswered

\* A step that touches one child and no copy.
LEMMA OneChild ==
  ASSUME MirrorInv, TypeOK', NEW o \in Obj,
         \A p \in Obj : p # o => /\ guest'[p] = guest[p]
                               /\ cache'[p] = cache[p]
                               /\ run'[p] = run[p],
         \A h \in Name : Live(host'[h]) => Live(host[h]),
         ChildInv(o)', Keeper(o) => Keeper(o)'
  PROVE  MirrorInv'
<1>1. \A p \in Obj : ChildInv(p)' /\ (Keeper(p) => Keeper(p)')
  BY Untouched DEF MirrorInv
<1>2. CopyAnswered'
  BY <1>1, StillAnswered DEF MirrorInv
<1> QED
  BY <1>1, <1>2 DEF MirrorInv

LEMMA MirrorInit == Init => MirrorInv
<1> SUFFICES ASSUME Init PROVE MirrorInv
  OBVIOUS
<1>1. TypeOK
  BY TypeInit
<1>2. \A o \in Obj : ChildInv(o)
  BY DEF Init, ChildInv, CacheBehind, CacheDeleting, SeenDeleting, SeenLive,
         Phases, Live, NoCR, Idle
<1>3. CopyAnswered
  BY DEF Init, CopyAnswered, Live, NoCR
<1> QED
  BY <1>1, <1>2, <1>3 DEF MirrorInv

LEMMA ChildUser ==
  ASSUME TypeOK, NEW o \in Obj, ChildInv(o), UserCreate(o) \/ UserDelete(o)
  PROVE  ChildInv(o)' /\ (Keeper(o) => Keeper(o)')
<1>1. guest[o] \in CR /\ cache[o] \in CR /\ run[o] \in Run
  BY DEF TypeOK
<1>2. UNCHANGED <<cache, run>>
  BY DEF UserCreate, UserDelete
<1>3. CASE UserCreate(o)
  <2>1. guest'[o] = NewCR /\ ~guest[o].here
    BY <1>3 DEF UserCreate, TypeOK
  <2>2. ~Held(o) /\ ~guest[o].deleting
        /\ ~guest'[o].fin /\ ~guest'[o].deleting
    <3>1. ~Held(o)
      BY <2>1 DEF Held
    <3>2. ~guest[o].deleting
      BY <1>1, <2>1, CRFields
    <3>3. ~guest'[o].fin /\ ~guest'[o].deleting
      BY <2>1, NewFields
    <3> QED
      BY <3>1, <3>2, <3>3
  <2>3. SeenLive(o)' /\ CacheBehind(o)'
    BY <1>1, <1>2, <2>2 DEF ChildInv, SeenLive, CacheBehind
  <2> QED
    BY <1>1, <1>2, <2>2, <2>3 DEF ChildInv, CacheDeleting, SeenDeleting, Phases, Keeper
<1>4. CASE UserDelete(o)
  <2>1. guest'[o] = Deleted(guest[o]) /\ Live(guest[o])
    BY <1>4 DEF UserDelete, TypeOK
  <2> QED
    BY <1>1, <1>2, <2>1, DeletedCR DEF ChildInv, CacheBehind, CacheDeleting,
       SeenDeleting, SeenLive, Phases, Keeper, Held, CacheHeld, Releasing, Live,
       NoCR, CR
<1> QED
  BY <1>3, <1>4

LEMMA ChildCache ==
  ASSUME TypeOK, NEW o \in Obj, ChildInv(o), CacheSync(o)
  PROVE  ChildInv(o)' /\ (Keeper(o) => Keeper(o)')
<1>1. guest[o] \in CR /\ run[o] \in Run
  BY DEF TypeOK
<1>2. UNCHANGED <<guest, run>> /\ cache'[o] = guest[o]
  BY DEF TypeOK, CacheSync
<1> QED
  BY <1>1, <1>2 DEF ChildInv, CacheBehind, CacheDeleting, SeenDeleting,
     SeenLive, Phases, Keeper, Held, CacheHeld, Releasing, Live, CR

LEMMA ChildReconcile ==
  ASSUME TypeOK, NEW o \in Obj, ChildInv(o), ReconcileAny(o)
  PROVE  ChildInv(o)' /\ (Keeper(o) => Keeper(o)')
<1>1. cache[o] \in CR /\ guest[o] \in CR /\ run[o] \in Run
  BY DEF TypeOK
<1>2. UNCHANGED <<guest, cache>>
  BY Planned
<1>3. CASE run' = run
  BY <1>1, <1>2, <1>3, Untouched
<1>4. ASSUME NEW r \in Run, Plan(o, r), run' = [run EXCEPT ![o] = r]
      PROVE  ChildInv(o)' /\ (Keeper(o) => Keeper(o)')
  <2>1. run'[o] = r
    BY <1>4 DEF TypeOK
  <2>2. Live(cache[o]) /\ cache[o].fin => Held(o) /\ CacheHeld(o)
    BY <1>1 DEF ChildInv, CacheBehind, CacheHeld, Live
  <2>3. cache[o].deleting => cache[o].fin
    BY <1>1 DEF CR
  <2>4. CacheBehind(o)' /\ CacheDeleting(o)'
    BY <1>1, <1>2 DEF ChildInv, CacheBehind, CacheDeleting, Live, Held
  <2>5. SeenDeleting(o)'
    BY <1>1, <1>2, <1>4, <2>1 DEF Plan, ChildInv, CacheDeleting, SeenDeleting, Live
  <2>6. SeenLive(o)'
    BY <1>1, <1>2, <1>4, <2>1, <2>2 DEF Plan, SeenLive, Held, CacheHeld, Live
  <2>7. Phases(o)'
    BY <1>1, <1>2, <1>4, <2>1, <2>3 DEF Plan, Phases, Live
  <2>8. Keeper(o) => Keeper(o)'
    BY <1>2, <1>4, <2>1 DEF Plan, Keeper, Held, CacheHeld, Releasing
  <2>9. ChildInv(o)'
    BY <2>4, <2>5, <2>6, <2>7 DEF ChildInv
  <2> QED
    BY <2>8, <2>9
<1> QED
  BY <1>3, <1>4, Planned

\* A call to the host that is over, or the lookup that precedes the applying,
\* where the reconcile of o keeps its finalizer.
LEMMA ChildCalled ==
  ASSUME TypeOK, NEW o \in Obj, ChildInv(o), NEW r \in Run, Step(o, r),
         UNCHANGED <<guest, cache>>,
         run[o].pc \in Remote,
         r.seen = run[o].seen, r.fin = run[o].fin,
         \/ r.pc = "patch"
         \/ run[o].pc = "lookup" /\ r.pc = "apply" /\ r.state = run[o].state
  PROVE  ChildInv(o)' /\ (Keeper(o) => Keeper(o)')
<1>1. cache[o] \in CR /\ guest[o] \in CR /\ run[o] \in Run
  BY DEF TypeOK
<1>2. run'[o] = r
  BY RunStep
<1>3. run[o].pc # "idle" /\ run[o].pc # "patch"
  BY DEF Remote
<1>4. CacheBehind(o)' /\ CacheDeleting(o)' /\ SeenDeleting(o)' /\ SeenLive(o)'
  BY <1>1, <1>2, <1>3 DEF ChildInv, CacheBehind, CacheDeleting, SeenDeleting,
     SeenLive, Live, Held, CacheHeld
<1>5. /\ run[o].seen.deleting => run[o].pc = "delete" /\ run[o].fin
      /\ run[o].seen.fin => run[o].fin
  BY <1>1, <1>3 DEF ChildInv, Phases, SeenLive, Remote, Run
<1>6. run[o].seen.fin
  BY <1>1, CRFields DEF ChildInv, Phases, Remote, Run
<1>7. Phases(o)'
  BY <1>1, <1>2, <1>3, <1>5, <1>6 DEF ChildInv, Phases
<1>8. Keeper(o) => Keeper(o)'
  BY <1>2, <1>5 DEF Keeper, Held, CacheHeld, Releasing
<1>9. ChildInv(o)'
  BY <1>4, <1>7 DEF ChildInv
<1> QED
  BY <1>8, <1>9

\* Such a call that leaves the copy as it is.
LEMMA MirrorCalled ==
  ASSUME MirrorInv, TypeOK', NEW o \in Obj, NEW r \in Run, Step(o, r),
         UNCHANGED <<guest, cache, host>>,
         run[o].pc \in Remote,
         r.seen = run[o].seen, r.fin = run[o].fin,
         \/ r.pc = "patch"
         \/ run[o].pc = "lookup" /\ r.pc = "apply" /\ r.state = run[o].state
  PROVE  MirrorInv'
<1>1. TypeOK /\ ChildInv(o)
  BY DEF MirrorInv
<1>2. \A p \in Obj : p # o => run'[p] = run[p]
  BY <1>1, RunStep
<1>3. ChildInv(o)' /\ (Keeper(o) => Keeper(o)')
  BY <1>1, ChildCalled
<1> QED
  BY <1>2, <1>3, OneChild

\* Applying: the copy that becomes live is answered for by o.
LEMMA MirrorApplied ==
  ASSUME MirrorInv, TypeOK', NEW o \in Obj, NEW r \in Run, Step(o, r),
         UNCHANGED <<guest, cache>>, host' = Applied(o),
         run[o].pc = "apply", r.pc = "patch",
         r.seen = run[o].seen, r.fin = run[o].fin
  PROVE  MirrorInv'
<1>1. cache[o] \in CR /\ guest[o] \in CR /\ run[o] \in Run /\ ChildInv(o) /\ TypeOK
  BY DEF MirrorInv, TypeOK
<1>2. run'[o] = r /\ \A p \in Obj : p # o => run'[p] = run[p]
  BY RunStep, <1>1
<1>3. run[o].seen.fin /\ ~run[o].seen.deleting
  BY <1>1 DEF ChildInv, Phases
<1>4. Held(o) /\ CacheHeld(o) /\ run[o].fin
  BY <1>1, <1>3 DEF ChildInv, SeenLive
<1>5. ChildInv(o)' /\ Keeper(o)'
  BY <1>1, <1>2, <1>3, <1>4 DEF ChildInv, CacheBehind, CacheDeleting,
     SeenDeleting, SeenLive, Phases, Keeper, Held, CacheHeld, Releasing, Live
<1>6. \A p \in Obj : ChildInv(p)' /\ (Keeper(p) => Keeper(p)')
  BY <1>2, <1>5, Untouched DEF MirrorInv
<1>7. ASSUME NEW h \in Name, Live(host'[h])
      PROVE  \E p \in Obj : HostName[p] = h /\ Keeper(p)'
  <2>1. CASE h = HostName[o]
    BY <1>5, <2>1
  <2>2. CASE h # HostName[o]
    BY <1>1, <1>6, <1>7, <2>2, AppliedCR DEF MirrorInv, CopyAnswered
  <2> QED
    BY <2>1, <2>2
<1> QED
  BY <1>6, <1>7 DEF MirrorInv, CopyAnswered

\* Removing: no other child loses its copy unanswered.
LEMMA MirrorRemoved ==
  ASSUME MirrorInv, TypeOK', NEW o \in Obj, NEW r \in Run, Step(o, r),
         UNCHANGED <<guest, cache>>, host' = Removed(o),
         run[o].pc = "delete", r.pc = "patch", r.seen = run[o].seen
  PROVE  MirrorInv'
<1>1. cache[o] \in CR /\ guest[o] \in CR /\ run[o] \in Run /\ ChildInv(o) /\ TypeOK
  BY DEF MirrorInv, TypeOK
<1>2. run'[o] = r /\ \A p \in Obj : p # o => run'[p] = run[p]
  BY RunStep, <1>1
<1>3. run[o].seen.deleting /\ run[o].seen.fin
  BY <1>1, CRFields DEF ChildInv, Phases, Run
<1>4. ChildInv(o)'
  BY <1>1, <1>2, <1>3 DEF ChildInv, CacheBehind, CacheDeleting,
     SeenDeleting, SeenLive, Phases, Held, CacheHeld, Live
<1>5. \A p \in Obj : ChildInv(p)' /\ (p # o /\ Keeper(p) => Keeper(p)')
  BY <1>2, <1>4, Untouched DEF MirrorInv
<1>6. ASSUME NEW h \in Name, Live(host'[h])
      PROVE  \E p \in Obj : HostName[p] = h /\ Keeper(p)'
  <2>1. h # HostName[o] /\ host'[h] = host[h]
    BY <1>1, <1>6, AppliedCR
  <2> QED
    BY <1>5, <1>6, <2>1 DEF MirrorInv, CopyAnswered
<1> QED
  BY <1>5, <1>6 DEF MirrorInv, CopyAnswered

LEMMA MirrorCall ==
  ASSUME MirrorInv, TypeOK', NEW o \in Obj, CallHost(o) \/ RemoteFails(o)
  PROVE  MirrorInv'
<1>1. run[o] \in Run /\ TypeOK
  BY DEF MirrorInv, TypeOK
<1>2. \A b \in BOOLEAN : [run[o] EXCEPT !.pc = "apply", !.isNew = b] \in Run
  BY <1>1 DEF Run, Remote
<1>3. \A s \in State, a, f \in BOOLEAN :
        [run[o] EXCEPT !.pc = "patch", !.state = s, !.again = a, !.fin = f,
                       !.isNew = FALSE] \in Run
  BY <1>1 DEF Run, Remote
<1>4. CASE LookupCopy(o)
  <2> DEFINE r == [run[o] EXCEPT !.pc = "apply", !.isNew = ~host[HostName[o]].here]
  <2>1. r \in Run
    BY <1>2
  <2>2. r.pc = "apply" /\ r.state = run[o].state /\ r.seen = run[o].seen
        /\ r.fin = run[o].fin
    BY <1>1 DEF Run
  <2> QED
    BY <1>4, <2>1, <2>2, MirrorCalled DEF LookupCopy, Remote
<1>5. CASE ApplyCopy(o)
  <2> DEFINE r == [run[o] EXCEPT !.pc = "patch", !.isNew = FALSE]
  <2>1. r \in Run /\ r.pc = "patch" /\ r.seen = run[o].seen /\ r.fin = run[o].fin
    BY <1>1 DEF Run
  <2> QED
    BY <1>5, <2>1, MirrorApplied DEF ApplyCopy
<1>6. CASE CopyStatus(o)
  <2> DEFINE r == [run[o] EXCEPT !.pc = "patch", !.state = Copied(o)]
  <2>1. Copied(o) \in State
    BY <1>1, ConstantsAssumption, CRFields DEF Copied, Run, TypeOK
  <2>2. r \in Run /\ r.pc = "patch" /\ r.seen = run[o].seen /\ r.fin = run[o].fin
    BY <1>1, <2>1 DEF Run
  <2> QED
    BY <1>6, <2>2, MirrorCalled DEF CopyStatus, Remote
<1>7. CASE CopyNotFound(o)
  <2> DEFINE r == [run[o] EXCEPT !.pc = "patch", !.state = "FAILED", !.again = TRUE]
  <2>1. r \in Run /\ r.pc = "patch" /\ r.seen = run[o].seen /\ r.fin = run[o].fin
    BY <1>1 DEF Run, State
  <2> QED
    BY <1>7, <2>1, MirrorCalled DEF CopyNotFound, Remote
<1>8. CASE DeleteCopy(o)
  <2> DEFINE r == [run[o] EXCEPT !.pc = "patch", !.fin = FALSE]
  <2>1. r \in Run /\ r.pc = "patch" /\ r.seen = run[o].seen
    BY <1>1 DEF Run
  <2> QED
    BY <1>8, <2>1, MirrorRemoved DEF DeleteCopy
<1>9. CASE RemoteFails(o)
  <2>1. PICK s \in State : Step(o, [run[o] EXCEPT !.pc = "patch", !.again = TRUE, !.state = s])
    BY <1>1, <1>9 DEF RemoteFails, Run, State
  <2> DEFINE r == [run[o] EXCEPT !.pc = "patch", !.again = TRUE, !.state = s]
  <2>2. r \in Run /\ r.pc = "patch" /\ r.seen = run[o].seen /\ r.fin = run[o].fin
    BY <1>1 DEF Run
  <2>3. run[o].pc \in Remote /\ UNCHANGED <<guest, cache>>
    BY <1>9 DEF RemoteFails
  <2>4. CASE host' = host
    BY <2>1, <2>2, <2>3, <2>4, MirrorCalled
  <2>5. CASE run[o].pc = "apply" /\ host' = Applied(o)
    BY <2>1, <2>2, <2>3, <2>5, MirrorApplied
  <2>6. CASE run[o].pc = "delete" /\ host' = Removed(o)
    BY <2>1, <2>2, <2>3, <2>6, MirrorRemoved
  <2> QED
    BY <1>9, <2>4, <2>5, <2>6 DEF RemoteFails
<1> QED
  BY <1>4, <1>5, <1>6, <1>7, <1>8, <1>9 DEF CallHost

\* What the final patch makes of the child.
LEMMA PatchedFields ==
  ASSUME TypeOK, NEW o \in Obj
  PROVE  /\ Patched(o).here => guest[o].here /\ Patched(o).deleting = guest[o].deleting
         /\ ~Patched(o).here => Patched(o) = NoCR
         /\ Held(o) /\ (run[o].seen.fin => run[o].fin) =>
              Patched(o).here /\ Patched(o).fin
         /\ Patched(o).here /\ Patched(o).fin =>
              guest[o].fin \/ (run[o].fin /\ ~run[o].seen.fin)
         /\ Patched(o).here =>
              \/ Patched(o).state = guest[o].state
              \/ ~run[o].seen.deleting /\ run[o].state # run[o].seen.state
         /\ Live(Patched(o)) /\ Patched(o).state = "READY" =>
              \/ Ready(o)
              \/ ~run[o].seen.deleting
                   /\ run[o].state = "READY" /\ run[o].seen.state # "READY"
<1> DEFINE fin == IF run[o].fin # run[o].seen.fin THEN run[o].fin ELSE guest[o].fin
           st == IF run[o].state = run[o].seen.state \/ run[o].seen.deleting
                 THEN guest[o].state ELSE run[o].state
<1>1. guest[o] \in CR /\ run[o].fin \in BOOLEAN /\ run[o].seen.fin \in BOOLEAN
  BY CRFields DEF TypeOK, Run
<1>2. CASE ~guest[o].here \/ (guest[o].deleting /\ ~fin)
  <2>1. Patched(o) = NoCR
    BY <1>2 DEF Patched
  <2>2. Held(o) => ~(run[o].seen.fin => run[o].fin)
    BY <1>1, <1>2 DEF Held
  <2>3. ~NoCR.here
    BY DEF NoCR
  <2> QED
    BY <2>1, <2>2, <2>3 DEF Live
<1>3. CASE ~(~guest[o].here \/ (guest[o].deleting /\ ~fin))
  <2>1. Patched(o) = [guest[o] EXCEPT !.fin = fin, !.state = st]
    BY <1>1, <1>3 DEF Patched, CR
  <2>2. /\ Patched(o).here = guest[o].here /\ Patched(o).fin = fin
        /\ Patched(o).deleting = guest[o].deleting /\ guest[o].here
        /\ Patched(o).state = st
    BY <1>1, <1>3, <2>1 DEF CR
  <2>3. Held(o) /\ (run[o].seen.fin => run[o].fin) => fin
    BY <1>1 DEF Held
  <2>4. fin => guest[o].fin \/ (run[o].fin /\ ~run[o].seen.fin)
    BY <1>1
  <2> QED
    BY <2>2, <2>3, <2>4 DEF Live, Ready
<1> QED
  BY <1>2, <1>3

\* The end of a reconcile, with its patch or without.
LEMMA ChildPatch ==
  ASSUME TypeOK, NEW o \in Obj, ChildInv(o),
         run[o].pc = "patch", run'[o] = Idle, UNCHANGED cache,
         guest'[o] = guest[o] \/ guest'[o] = Patched(o)
  PROVE  ChildInv(o)' /\ (Keeper(o) => Keeper(o)')
<1>1. cache[o] \in CR /\ guest[o] \in CR /\ run[o] \in Run
  BY DEF TypeOK
<1>2. /\ UNCHANGED cache /\ run[o].pc = "patch" /\ run'[o] = Idle
      /\ guest'[o] = guest[o] \/ guest'[o] = Patched(o)
  OBVIOUS
<1>3. run'[o].pc = "idle"
  <2>1. Idle.pc = "idle"
    BY DEF Idle
  <2> QED
    BY <1>2, <2>1
<1>4. SeenDeleting(o)' /\ SeenLive(o)' /\ Phases(o)' /\ ~Releasing(o)'
  BY <1>3 DEF SeenDeleting, SeenLive, Phases, Releasing
<1>5. ~Releasing(o) /\ Held(o) => Held(o)'
  BY <1>1, <1>2, PatchedFields DEF Releasing, Held
<1>6. Releasing(o) => ~(Live(cache[o]) /\ cache[o].fin)
  BY <1>1, <1>2 DEF ChildInv, SeenDeleting, SeenLive, Releasing
<1>7. CacheBehind(o)'
  BY <1>1, <1>2, <1>5, <1>6 DEF ChildInv, CacheBehind
<1>8. CacheDeleting(o)'
  <2>1. SUFFICES ASSUME cache[o].deleting, Live(Patched(o)), Patched(o).fin
                 PROVE  FALSE
    BY <1>1, <1>2 DEF ChildInv, CacheDeleting
  <2>2. Live(guest[o]) /\ ~guest[o].fin /\ ~run[o].seen.fin
    BY <1>1, <2>1, PatchedFields DEF ChildInv, CacheDeleting, Live
  <2>3. ~run[o].seen.deleting
    BY <1>1, <1>2, <2>2 DEF ChildInv, Phases
  <2> QED
    BY <1>1, <1>2, <2>1, <2>2, <2>3 DEF ChildInv, SeenLive, Live
<1>9. Keeper(o) => Keeper(o)'
  BY <1>2, <1>4, <1>5 DEF Keeper, CacheHeld
<1>10. ChildInv(o)'
  BY <1>4, <1>7, <1>8 DEF ChildInv
<1> QED
  BY <1>9, <1>10

LEMMA ChildCrash ==
  ASSUME NEW o \in Obj, ChildInv(o), Crash
  PROVE  ChildInv(o)' /\ (Keeper(o) => Keeper(o)')
<1>1. UNCHANGED guest /\ cache' = guest /\ run'[o].pc = "idle"
  BY DEF Crash, Idle
<1> QED
  BY <1>1 DEF ChildInv, CacheBehind, CacheDeleting, SeenDeleting, SeenLive,
     Phases, Keeper, Held, CacheHeld, Releasing, Live

\* A step that touches no child and makes no copy live.
LEMMA MirrorElsewhere ==
  ASSUME MirrorInv, TypeOK', UNCHANGED <<guest, cache, run>>,
         \A h \in Name : Live(host'[h]) => Live(host[h])
  PROVE  MirrorInv'
<1>1. \A o \in Obj : ChildInv(o)' /\ (Keeper(o) => Keeper(o)')
  BY Untouched DEF MirrorInv
<1> QED
  BY <1>1, StillAnswered DEF MirrorInv

LEMMA MirrorNext == MirrorInv /\ [Next]_vars => MirrorInv'
<1> SUFFICES ASSUME MirrorInv, [Next]_vars PROVE MirrorInv'
  OBVIOUS
<1>1. TypeOK /\ TypeOK'
  BY TypeNext DEF MirrorInv
<1>2. ASSUME NEW o \in Obj, UserCreate(o) \/ UserDelete(o) PROVE MirrorInv'
  <2>1. UNCHANGED <<cache, run, host>> /\ \A p \in Obj : p # o => guest'[p] = guest[p]
    BY <1>1, <1>2 DEF TypeOK, UserCreate, UserDelete
  <2>2. ChildInv(o)' /\ (Keeper(o) => Keeper(o)')
    BY <1>1, <1>2, ChildUser DEF MirrorInv
  <2> QED
    BY <1>1, <2>1, <2>2, OneChild
<1>3. ASSUME NEW o \in Obj, CacheSync(o) PROVE MirrorInv'
  <2>1. UNCHANGED <<guest, run, host>> /\ \A p \in Obj : p # o => cache'[p] = cache[p]
    BY <1>1, <1>3 DEF TypeOK, CacheSync
  <2>2. ChildInv(o)' /\ (Keeper(o) => Keeper(o)')
    BY <1>1, <1>3, ChildCache DEF MirrorInv
  <2> QED
    BY <1>1, <2>1, <2>2, OneChild
<1>4. ASSUME NEW o \in Obj, Enqueue(o) PROVE MirrorInv'
  BY <1>1, <1>4, MirrorElsewhere DEF Enqueue
<1>5. ASSUME NEW o \in Obj, ReconcileAny(o) PROVE MirrorInv'
  <2>1. UNCHANGED <<guest, cache, host>> /\ \A p \in Obj : p # o => run'[p] = run[p]
    BY <1>1, <1>5, Planned DEF TypeOK
  <2>2. ChildInv(o)' /\ (Keeper(o) => Keeper(o)')
    BY <1>1, <1>5, ChildReconcile DEF MirrorInv
  <2> QED
    BY <1>1, <2>1, <2>2, OneChild
<1>6. ASSUME NEW o \in Obj, CallHost(o) \/ RemoteFails(o) PROVE MirrorInv'
  BY <1>1, <1>6, MirrorCall
<1>7. ASSUME NEW o \in Obj, Patch(o) \/ PatchFails(o) PROVE MirrorInv'
  <2>1. /\ UNCHANGED <<cache, host>>
        /\ \A p \in Obj : p # o => guest'[p] = guest[p] /\ run'[p] = run[p]
        /\ run[o].pc = "patch" /\ run'[o] = Idle
        /\ guest'[o] = guest[o] \/ guest'[o] = Patched(o)
    BY <1>1, <1>7 DEF Patch, PatchFails, TypeOK
  <2>2. ChildInv(o)' /\ (Keeper(o) => Keeper(o)')
    BY <1>1, <2>1, ChildPatch DEF MirrorInv
  <2> QED
    BY <1>1, <2>1, <2>2, OneChild
<1>8. ASSUME NEW h \in Name, HostStep(h) \/ OrchestratorDecides(h) PROVE MirrorInv'
  BY <1>1, <1>8, HostChanges, MirrorElsewhere DEF HostChange
<1>9. ASSUME NEW s \in {"AVAILABLE", "LOCKED", "OTHER"}, FederationStatus(s)
      PROVE  MirrorInv'
  BY <1>1, <1>9, MirrorElsewhere DEF FederationStatus
<1>10. CASE FederationRemoved
  BY <1>1, <1>10, MirrorElsewhere DEF FederationRemoved
<1>11. CASE Crash
  <2>1. \A o \in Obj : ChildInv(o)' /\ (Keeper(o) => Keeper(o)')
    BY <1>11, ChildCrash DEF MirrorInv
  <2>2. UNCHANGED host
    BY <1>11 DEF Crash
  <2> QED
    BY <1>1, <2>1, <2>2, StillAnswered DEF MirrorInv
<1>12. CASE UNCHANGED vars
  BY <1>1, <1>12, MirrorElsewhere DEF vars
<1> QED
  BY <1>2, <1>3, <1>4, <1>5, <1>6, <1>7, <1>8, <1>9, <1>10, <1>11, <1>12 DEF Next

\* What a stale cache and a reconcile in progress can be wrong about stays
\* within MirrorInv, whatever the interleaving and the faults.
THEOREM MirrorInvariant == Spec => []MirrorInv
  BY MirrorInit, MirrorNext, PTL DEF Spec

\* No copy on the host outlives the finalizer of every child it belongs to
\* without having been asked to go.
THEOREM NoOrphans == Spec => []NoOrphanCopy
<1>1. MirrorInv => NoOrphanCopy
  BY DEF MirrorInv, CopyAnswered, NoOrphanCopy, Keeper
<1> QED
  BY <1>1, MirrorInvariant, PTL
----------------------------------------------------------------------------
(***************************************************************************)
(* READY children have copies.                                             *)
(***************************************************************************)

\* A step disturbs ReadyChild of the children it touches only.
LEMMA ReadyUntouched ==
  ASSUME NEW o \in Obj, ReadyChild(o),
         guest'[o] = guest[o], cache'[o] = cache[o], run'[o] = run[o],
         Live(host[HostName[o]]) => Live(host'[HostName[o]]),
         host'[HostName[o]].deleting => host[HostName[o]].deleting
  PROVE  ReadyChild(o)'
  BY DEF ReadyChild, CopyLeaving, Reporting, Ready, Live

LEMMA ReadyUser ==
  ASSUME MirrorInv, TypeOK', "recreate" \notin Faults, NEW o \in Obj, ReadyChild(o),
         UserCreate(o) \/ UserDelete(o)
  PROVE  ReadyChild(o)'
<1>1. UNCHANGED <<cache, run, host>>
  BY DEF UserCreate, UserDelete
<1>2. CASE UserCreate(o)
  <2>1. ~host[HostName[o]].deleting /\ guest'[o] = NewCR
    BY <1>2 DEF UserCreate, MirrorInv, TypeOK
  <2>2. NewCR.state # "READY"
    BY DEF NewCR
  <2> QED
    BY <1>1, <2>1, <2>2 DEF ReadyChild, CopyLeaving, Reporting, Ready
<1>3. CASE UserDelete(o)
  <2>1. ~Live(guest'[o])
    BY <1>3, DeletedCR DEF UserDelete, MirrorInv, TypeOK, Live
  <2> QED
    BY <1>1, <2>1 DEF ReadyChild, CopyLeaving, Reporting, Ready
<1> QED
  BY <1>2, <1>3

LEMMA ReadyReconcile ==
  ASSUME MirrorInv, NEW o \in Obj, ReadyChild(o), ReconcileAny(o)
  PROVE  ReadyChild(o)'
<1>1. UNCHANGED <<guest, cache, host>>
  BY Planned DEF MirrorInv
<1>2. CASE run' = run
  BY <1>1, <1>2, ReadyUntouched
<1>3. ASSUME NEW r \in Run, Plan(o, r), run' = [run EXCEPT ![o] = r]
      PROVE  ReadyChild(o)'
  <2>1. run'[o] = r
    BY <1>3 DEF MirrorInv, TypeOK
  <2> QED
    BY <1>1, <1>3, <2>1 DEF Plan, ReadyChild, CopyLeaving, Reporting, Ready
<1> QED
  BY <1>2, <1>3, Planned DEF MirrorInv

\* A call that ends the reconcile, when its copy is left as it is or applied.
LEMMA ReadyCalled ==
  ASSUME MirrorInv, NEW o \in Obj, ReadyChild(o), NEW r \in Run, Step(o, r),
         UNCHANGED <<guest, cache>>,
         \/ host' = host
         \/ run[o].pc = "apply" /\ host' = Applied(o),
         run[o].pc \in Remote, r.pc = "patch", r.seen = run[o].seen,
         \/ r.state = "FAILED" \/ r.state = run[o].state
         \/ run[o].pc = "get" /\ host[HostName[o]].here
  PROVE  ReadyChild(o)'
<1>1. TypeOK /\ run[o] \in Run /\ ChildInv(o) /\ HostName[o] \in Name
      /\ host[HostName[o]] \in CR
  BY ConstantsAssumption DEF MirrorInv, TypeOK
<1>2. run'[o] = r
  BY <1>1, RunStep
<1>3. run[o].pc = "delete" \/ ~host[HostName[o]].deleting
  BY <1>1 DEF ReadyChild, CopyLeaving, Remote
<1>4. run[o].pc = "delete" => run[o].seen.deleting
  BY <1>1 DEF ChildInv, Phases
<1>5. Live(host[HostName[o]]) => Live(host'[HostName[o]])
  BY <1>1, AppliedCR, NewFields DEF Live
<1>6. host'[HostName[o]].deleting => host[HostName[o]].deleting
  BY <1>1, AppliedCR, NewFields
<1>7. CopyLeaving(o)'
  BY <1>2, <1>6 DEF ReadyChild, CopyLeaving
<1>8. Ready(o)' => Live(host'[HostName[o]])
  BY <1>5 DEF ReadyChild, Ready
<1>9. Reporting(o)'
  <2>1. SUFFICES ASSUME ~run[o].seen.deleting, r.state = "READY",
                        run[o].seen.state # "READY"
                 PROVE  run[o].seen.fin /\ Live(host'[HostName[o]])
    BY <1>2 DEF Reporting
  <2>2. run[o].pc \in {"lookup", "apply", "get"}
    BY <1>4, <2>1 DEF Remote
  <2>3. run[o].pc = "get" /\ host[HostName[o]].here
    BY <1>1, <2>1, <2>2 DEF ChildInv, Phases
  <2> QED
    BY <1>1, <1>3, <1>5, <2>3 DEF ChildInv, Phases, Live
<1> QED
  BY <1>7, <1>8, <1>9 DEF ReadyChild

\* Deleting the copy: the child that answers for it is the one being deleted.
LEMMA ReadyRemoved ==
  ASSUME MirrorInv, OwnCopies, NEW o \in Obj, ReadyChild(o), NEW r \in Run,
         Step(o, r), UNCHANGED <<guest, cache>>, host' = Removed(o),
         run[o].pc = "delete", r.pc = "patch", r.seen = run[o].seen
  PROVE  ReadyChild(o)'
<1>1. TypeOK /\ run[o] \in Run /\ ChildInv(o) /\ HostName[o] \in Name
      /\ host[HostName[o]] \in CR
  BY ConstantsAssumption DEF MirrorInv, TypeOK
<1>2. run'[o] = r
  BY <1>1, RunStep
<1>3. run[o].seen.deleting
  BY <1>1 DEF ChildInv, Phases
<1>4. Live(host[HostName[o]]) => Held(o) /\ CacheHeld(o)
  BY <1>1 DEF MirrorInv, CopyAnswered, Keeper, OwnCopies
<1>5. Live(host[HostName[o]]) => ~Live(guest[o]) /\ ~Live(cache[o])
  BY <1>1, <1>3, <1>4 DEF ChildInv, SeenDeleting, Held, CacheHeld
<1>6. host'[HostName[o]].deleting =>
        Live(host[HostName[o]]) \/ host[HostName[o]].deleting
  <2>1. host'[HostName[o]] =
          IF host[HostName[o]].here THEN Deleted(host[HostName[o]])
          ELSE host[HostName[o]]
    BY <1>1 DEF Removed, TypeOK
  <2> QED
    BY <1>1, <2>1 DEF Live
<1>7. CopyLeaving(o)'
  BY <1>2, <1>5, <1>6 DEF ReadyChild, CopyLeaving
<1>8. ~Ready(o)
  BY <1>5 DEF ReadyChild, Ready
<1> QED
  BY <1>2, <1>3, <1>7, <1>8 DEF ReadyChild, Reporting, Ready

LEMMA ReadyCall ==
  ASSUME MirrorInv, OwnCopies, NEW o \in Obj, ReadyChild(o),
         CallHost(o) \/ RemoteFails(o)
  PROVE  ReadyChild(o)'
<1>1. run[o] \in Run /\ TypeOK
  BY DEF MirrorInv, TypeOK
<1>2. CASE LookupCopy(o)
  <2> DEFINE r == [run[o] EXCEPT !.pc = "apply", !.isNew = ~host[HostName[o]].here]
  <2>1. run'[o] = r /\ r.pc = "apply" /\ run[o].pc = "lookup"
        /\ UNCHANGED <<guest, cache, host>>
    BY <1>1, <1>2 DEF LookupCopy, Step, TypeOK, Run
  <2> QED
    BY <2>1 DEF ReadyChild, CopyLeaving, Reporting, Ready
<1>3. \A s \in State, a, f, b \in BOOLEAN :
        [run[o] EXCEPT !.pc = "patch", !.state = s, !.again = a, !.fin = f,
                       !.isNew = b] \in Run
  BY <1>1 DEF Run, Remote
<1>4. CASE ApplyCopy(o)
  <2> DEFINE r == [run[o] EXCEPT !.pc = "patch", !.isNew = FALSE]
  <2>1. r \in Run /\ r.pc = "patch" /\ r.seen = run[o].seen /\ r.state = run[o].state
    BY <1>1 DEF Run
  <2> QED
    BY <1>4, <2>1, ReadyCalled DEF ApplyCopy, Remote
<1>5. CASE CopyStatus(o)
  <2> DEFINE r == [run[o] EXCEPT !.pc = "patch", !.state = Copied(o)]
  <2>1. Copied(o) \in State
    BY <1>1, ConstantsAssumption, CRFields DEF Copied, Run, TypeOK
  <2>2. r \in Run /\ r.pc = "patch" /\ r.seen = run[o].seen
    BY <1>1, <2>1 DEF Run
  <2> QED
    BY <1>5, <2>2, ReadyCalled DEF CopyStatus, Remote
<1>6. CASE CopyNotFound(o)
  <2> DEFINE r == [run[o] EXCEPT !.pc = "patch", !.state = "FAILED", !.again = TRUE]
  <2>1. r \in Run /\ r.pc = "patch" /\ r.seen = run[o].seen /\ r.state = "FAILED"
    BY <1>1 DEF Run, State
  <2> QED
    BY <1>6, <2>1, ReadyCalled DEF CopyNotFound, Remote
<1>7. CASE DeleteCopy(o)
  <2> DEFINE r == [run[o] EXCEPT !.pc = "patch", !.fin = FALSE]
  <2>1. r \in Run /\ r.pc = "patch" /\ r.seen = run[o].seen
    BY <1>1 DEF Run
  <2> QED
    BY <1>7, <2>1, ReadyRemoved DEF DeleteCopy
<1>8. CASE RemoteFails(o)
  <2>1. PICK s \in {"FAILED", run[o].state} :
          Step(o, [run[o] EXCEPT !.pc = "patch", !.again = TRUE, !.state = s])
    BY <1>1, <1>8 DEF RemoteFails
  <2> DEFINE r == [run[o] EXCEPT !.pc = "patch", !.again = TRUE, !.state = s]
  <2>2. r \in Run /\ r.pc = "patch" /\ r.seen = run[o].seen /\ r.state = s
    BY <1>1 DEF Run, State
  <2>3. run[o].pc \in Remote /\ UNCHANGED <<guest, cache>>
    BY <1>8 DEF RemoteFails
  <2>4. CASE host' = host \/ (run[o].pc = "apply" /\ host' = Applied(o))
    BY <2>1, <2>2, <2>3, <2>4, ReadyCalled
  <2>5. CASE run[o].pc = "delete" /\ host' = Removed(o)
    BY <2>1, <2>2, <2>3, <2>5, ReadyRemoved
  <2> QED
    BY <1>8, <2>4, <2>5 DEF RemoteFails
<1> QED
  BY <1>2, <1>4, <1>5, <1>6, <1>7, <1>8 DEF CallHost

LEMMA ReadyPatch ==
  ASSUME MirrorInv, NEW o \in Obj, ReadyChild(o), Patch(o) \/ PatchFails(o)
  PROVE  ReadyChild(o)'
<1>1. TypeOK
  BY DEF MirrorInv
<1>2. /\ UNCHANGED <<cache, host>> /\ run[o].pc = "patch" /\ run'[o] = Idle
      /\ guest'[o] = guest[o] \/ guest'[o] = Patched(o)
  BY <1>1 DEF Patch, PatchFails, TypeOK
<1>3. Idle.pc = "idle"
  BY DEF Idle
<1>4. Live(guest'[o]) => Live(guest[o])
  BY <1>1, <1>2, PatchedFields DEF Live
<1>5. Ready(o)' => Live(host[HostName[o]])
  BY <1>1, <1>2, PatchedFields DEF ReadyChild, Reporting, Ready
<1> QED
  BY <1>2, <1>3, <1>4, <1>5 DEF ReadyChild, CopyLeaving, Reporting

\* Where no copy is shared, a step of the child o leaves the others' copies alone.
LEMMA OwnStep ==
  ASSUME MirrorInv, OwnCopies, NEW o \in Obj, NEW p \in Obj, p # o,
         \/ UserCreate(o) \/ UserDelete(o) \/ CacheSync(o) \/ Enqueue(o)
         \/ ReconcileAny(o) \/ CallHost(o) \/ RemoteFails(o)
         \/ Patch(o) \/ PatchFails(o)
  PROVE  /\ guest'[p] = guest[p] /\ cache'[p] = cache[p] /\ run'[p] = run[p]
         /\ host'[HostName[p]] = host[HostName[p]]
<1>1. TypeOK /\ HostName[p] \in Name /\ HostName[p] # HostName[o]
  BY ConstantsAssumption DEF MirrorInv, OwnCopies
<1>2. CASE UserCreate(o) \/ UserDelete(o) \/ CacheSync(o) \/ Enqueue(o)
  BY <1>1, <1>2 DEF UserCreate, UserDelete, CacheSync, Enqueue, TypeOK
<1>3. CASE ReconcileAny(o)
  BY <1>1, <1>3, Planned DEF TypeOK
<1>4. CASE CallHost(o) \/ RemoteFails(o)
  <2>1. UNCHANGED <<guest, cache>> /\ run'[p] = run[p]
    BY <1>1, <1>4 DEF CallHost, RemoteFails, LookupCopy, ApplyCopy, CopyStatus,
       CopyNotFound, DeleteCopy, Step, TypeOK
  <2>2. host' = host \/ host' = Applied(o) \/ host' = Removed(o)
    BY <1>4 DEF CallHost, RemoteFails, LookupCopy, ApplyCopy, CopyStatus,
       CopyNotFound, DeleteCopy
  <2> QED
    BY <1>1, <2>1, <2>2, AppliedCR
<1>5. CASE Patch(o) \/ PatchFails(o)
  BY <1>1, <1>5 DEF Patch, PatchFails, TypeOK
<1> QED
  BY <1>2, <1>3, <1>4, <1>5

LEMMA ReadyNext == MirrorInv /\ ReadyInv /\ [Next]_vars => ReadyInv'
<1> SUFFICES ASSUME MirrorInv, ReadyInv, [Next]_vars, OwnCopies,
                    "recreate" \notin Faults, NEW c \in Obj
             PROVE  ReadyChild(c)'
  BY DEF ReadyInv, OwnCopies
<1>1. TypeOK /\ TypeOK' /\ ReadyChild(c)
  BY TypeNext DEF MirrorInv, ReadyInv
<1>2. ASSUME NEW o \in Obj,
             \/ UserCreate(o) \/ UserDelete(o) \/ CacheSync(o) \/ Enqueue(o)
             \/ ReconcileAny(o) \/ CallHost(o) \/ RemoteFails(o)
             \/ Patch(o) \/ PatchFails(o)
      PROVE  ReadyChild(c)'
  <2>1. CASE o # c
    BY <1>1, <1>2, <2>1, OwnStep, ReadyUntouched
  <2>2. CASE o = c /\ (UserCreate(o) \/ UserDelete(o))
    BY <1>1, <2>2, ReadyUser
  <2>3. CASE o = c /\ CacheSync(o)
    <3>1. UNCHANGED <<guest, run, host>> /\ cache'[c] = guest[c]
      BY <1>1, <2>3 DEF CacheSync, TypeOK
    <3> QED
      BY <1>1, <3>1 DEF ReadyChild, CopyLeaving, Reporting, Ready
  <2>4. CASE o = c /\ Enqueue(o)
    BY <1>1, <2>4, ReadyUntouched DEF Enqueue
  <2>5. CASE o = c /\ ReconcileAny(o)
    BY <1>1, <2>5, ReadyReconcile
  <2>6. CASE o = c /\ (CallHost(o) \/ RemoteFails(o))
    BY <1>1, <2>6, ReadyCall
  <2>7. CASE o = c /\ (Patch(o) \/ PatchFails(o))
    BY <1>1, <2>7, ReadyPatch
  <2> QED
    BY <1>2, <2>1, <2>2, <2>3, <2>4, <2>5, <2>6, <2>7
<1>3. ASSUME NEW h \in Name, HostStep(h) \/ OrchestratorDecides(h) PROVE ReadyChild(c)'
  BY <1>1, <1>3, HostChanges, ReadyUntouched, ConstantsAssumption DEF HostChange
<1>4. ASSUME NEW s \in {"AVAILABLE", "LOCKED", "OTHER"}, FederationStatus(s)
      PROVE  ReadyChild(c)'
  BY <1>1, <1>4, ReadyUntouched DEF FederationStatus
<1>5. CASE FederationRemoved
  BY <1>1, <1>5, ReadyUntouched DEF FederationRemoved
<1>6. CASE Crash
  <2>1. UNCHANGED <<guest, host>> /\ cache' = guest /\ run'[c].pc = "idle"
    BY <1>6 DEF Crash, Idle
  <2> QED
    BY <1>1, <2>1 DEF ReadyChild, CopyLeaving, Reporting, Ready
<1>7. CASE UNCHANGED vars
  BY <1>1, <1>7, ReadyUntouched DEF vars
<1> QED
  BY <1>2, <1>3, <1>4, <1>5, <1>6, <1>7 DEF Next

LEMMA ReadyInit == Init => ReadyInv
<1> SUFFICES ASSUME Init, NEW o \in Obj PROVE ReadyChild(o)
  BY DEF ReadyInv
<1>1. HostName[o] \in Name
  BY ConstantsAssumption
<1> QED
  BY <1>1 DEF Init, ReadyChild, CopyLeaving, Reporting, Ready, Live, NoCR, Idle

\* A reconcile about to report READY has a live copy, and a copy that the host
\* is deleting belongs to no live child, in every reachable state.
THEOREM ReadyInvariant == Spec => []ReadyInv
  BY ReadyInit, ReadyNext, MirrorInvariant, PTL DEF Spec

\* A child that is reported READY has a copy on the host that nobody is
\* deleting, where children do not share copies and users are not hasty.
THEOREM ReadyMirrored == Spec => []ReadyHasCopy
<1>1. ReadyInv => ReadyHasCopy
  BY DEF ReadyInv, ReadyChild, ReadyHasCopy
<1> QED
  BY <1>1, ReadyInvariant, PTL
----------------------------------------------------------------------------
(***************************************************************************)
(* Deletions.                                                              *)
(***************************************************************************)

\* The kinds whose cached children block the deletion of o are those of the
\* children that may refer to o.
LEMMA BlockedByDependents ==
  ASSUME NEW o \in Obj, NEW u \in Dependents(o)
  PROVE  /\ Kind[o] = "Image" => u \in Users(o, "Artefact")
         /\ Kind[o] = "Artefact" => u \in Users(o, "ApplicationOnboarding")
         /\ Kind[o] \in {"ApplicationOnboarding", "AvailabilityZone"} =>
              u \in Users(o, "ApplicationDeployment")
         /\ Kind[o] \notin {"ApplicationDeployment", "ConsumptionMonitoring"}
<1>1. u \in Obj /\ o \in Refs[u]
  BY DEF Dependents
<1>2. Kind[o] \in RefKinds(Kind[u]) /\ Kind[u] \in Kinds /\ Kind[o] \in Kinds
  BY <1>1, ConstantsAssumption
<1> QED
  BY <1>1, <1>2 DEF RefKinds, Kinds, Users

\* A deletion begins only when the cache holds no dependent.
LEMMA DeleteBegins ==
  ASSUME TypeOK, [Next]_vars, NEW o \in Obj,
         run[o].pc = "idle", run'[o].pc = "delete"
  PROVE  \A u \in Dependents(o) : ~cache[u].here
<1>1. Idle.pc = "idle"
  BY DEF Idle
<1>2. ASSUME NEW c \in Obj, ReconcileAny(c)
      PROVE  \A u \in Dependents(o) : ~cache[u].here
  <2>1. ASSUME NEW needs, NEW users, Reconcile(c, needs, users)
        PROVE  c = o /\ \A u \in users : ~cache[u].here
    <3>1. ASSUME NEW r, run' = [run EXCEPT ![c] = r]
          PROVE  c = o /\ r.pc = "delete"
      BY <3>1 DEF TypeOK
    <3>2. ~Ignore(c)
      BY DEF Ignore
    <3>3. ~NoFederation(c)
      BY <3>1 DEF NoFederation, Enter, Entered
    <3>4. ~AddFinalizer(c)
      BY <3>1 DEF AddFinalizer, Enter, Entered
    <3>5. ~AwaitPrerequisites(c, needs)
      BY <3>1 DEF AwaitPrerequisites, Enter, Entered
    <3>6. ~StartCreate(c, needs)
      BY <3>1 DEF StartCreate, Enter, Entered
    <3>7. ~StartUpdateStatus(c)
      BY <3>1 DEF StartUpdateStatus, Enter, Entered
    <3>8. StartDelete(c, users)
      BY <2>1, <3>2, <3>3, <3>4, <3>5, <3>6, <3>7 DEF Reconcile
    <3> QED
      BY <3>1, <3>8 DEF StartDelete, Enter
  <2> QED
    BY <1>2, <2>1, BlockedByDependents DEF ReconcileAny, ReconcileImage,
       ReconcileArtefact, ReconcileApplicationOnboarding,
       ReconcileApplicationDeployment, ReconcileAvailabilityZone,
       ReconcileConsumptionMonitoring
<1>3. ASSUME NEW c \in Obj, CallHost(c) \/ RemoteFails(c) PROVE FALSE
  BY <1>3 DEF CallHost, RemoteFails, LookupCopy, ApplyCopy, CopyStatus,
     CopyNotFound, DeleteCopy, Step, TypeOK, Run, Remote
<1>4. ASSUME NEW c \in Obj, Patch(c) \/ PatchFails(c) PROVE FALSE
  BY <1>1, <1>4 DEF Patch, PatchFails, TypeOK
<1>5. CASE Crash
  BY <1>1, <1>5 DEF Crash
<1>6. run' # run
  OBVIOUS
<1> QED
  BY <1>2, <1>3, <1>4, <1>5, <1>6 DEF Next, vars, UserCreate, UserDelete,
     CacheSync, Enqueue, HostStep, HostAddFinalizer, HostSetPending, SetHostState,
     HostRemoveFinalizer, OrchestratorDecides, FederationStatus, FederationRemoved

\* When the deletion of a copy begins, the host holds no copy of a child that
\* refers to it: a child that the cache does not show has no copy.
THEOREM CleanDeletes == Spec => DeleteStartsClean
<1>1. ASSUME MirrorInv, [Next]_vars, OwnCopies, NEW o \in Obj,
             run[o].pc = "idle", run'[o].pc = "delete", NEW u \in Dependents(o)
      PROVE  ~Live(host[HostName[u]])
  <2>1. u \in Obj /\ HostName[u] \in Name
    BY ConstantsAssumption DEF Dependents
  <2>2. ~CacheHeld(u)
    BY <1>1, DeleteBegins DEF MirrorInv, CacheHeld
  <2> QED
    BY <1>1, <2>1, <2>2 DEF MirrorInv, CopyAnswered, Keeper, OwnCopies
<1>2. MirrorInv /\ [Next]_vars =>
        [OwnCopies => \A o \in Obj :
           run[o].pc = "idle" /\ run'[o].pc = "delete" =>
             \A u \in Dependents(o) : ~Live(host[HostName[u]])]_vars
  BY <1>1
<1> QED
  BY <1>2, MirrorInvariant, PTL DEF Spec, DeleteStartsClean
=============================================================================

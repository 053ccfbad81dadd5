------------------------ MODULE MirrorPromise_proofs ------------------------
(***************************************************************************)
(* ChildMirror implements MirrorPromise, where children do not share       *)
(* copies and users do not re-create a child whose old copy is still being *)
(* deleted.                                                                *)
(***************************************************************************)
EXTENDS ChildMirror_proofs

\* The conditions under which the promise is made.
Careful == OwnCopies /\ "recreate" \notin Faults

\* A step that concerns the child o and its copy, as the promise sees it.
LEMMA AbstractStep ==
  ASSUME NEW o \in Obj, HostName[o] \in Name,
         \A p \in Obj : p # o => (Held(p)' <=> Held(p)) /\ (Ready(p)' <=> Ready(p)),
         \A h \in Name : h # HostName[o] => (Live(host'[h]) <=> Live(host[h])),
         LET copy == Live(host[HostName[o]])
             copied == Live(host'[HostName[o]])
         IN  \/ /\ (Held(o)' <=> Held(o)) /\ (copied <=> copy)
                /\ \/ ~Ready(o)'
                   \/ Ready(o)
                   \/ Held(o) /\ copy
             \/ ~Held(o) /\ Held(o)' /\ (copied <=> copy) /\ (Ready(o)' <=> Ready(o))
             \/ /\ Held(o) /\ (Ready(o)' <=> Ready(o))
                /\ \/ Held(o)' /\ copied
                   \/ Held(o)' /\ ~Ready(o) /\ ~copied
                   \/ ~Held(o)' /\ ~Ready(o) /\ ~copy /\ ~copied
  PROVE  [Promised!PromiseNext]_(Promised!pvars)
<1> DEFINE registered == {p \in Obj : Held(p)}
           mirrored == {h \in Name : Live(host[h])}
           ready == {p \in Obj : Ready(p)}
<1>1. (Held(o)' <=> Held(o)) => registered' = registered
  OBVIOUS
<1>2. (Ready(o)' <=> Ready(o)) => ready' = ready
  OBVIOUS
<1>3. (Live(host'[HostName[o]]) <=> Live(host[HostName[o]])) => mirrored' = mirrored
  OBVIOUS
<1>4. Held(o)' => registered' = registered \cup {o}
  OBVIOUS
<1>5. ~Held(o)' => registered' = registered \ {o}
  OBVIOUS
<1>6. Ready(o)' => ready' = ready \cup {o}
  OBVIOUS
<1>7. ~Ready(o)' => ready' = ready \ {o}
  OBVIOUS
<1>8. Live(host'[HostName[o]]) => mirrored' = mirrored \cup {HostName[o]}
  OBVIOUS
<1>9. ~Live(host'[HostName[o]]) => mirrored' = mirrored \ {HostName[o]}
  OBVIOUS
<1>10. /\ (o \in registered) <=> Held(o)
       /\ (o \in ready) <=> Ready(o)
       /\ (HostName[o] \in mirrored) <=> Live(host[HostName[o]])
  OBVIOUS
<1> HIDE DEF registered, mirrored, ready
<1> QED
  BY <1>1, <1>2, <1>3, <1>4, <1>5, <1>6, <1>7, <1>8, <1>9, <1>10
  DEF registered, mirrored, ready, Promised!PromiseNext, Promised!pvars,
      Promised!Register, Promised!Mirror, Promised!Report, Promised!Retract,
      Promised!Unmirror, Promised!Release

\* A step that changes no child and neither gives nor takes a copy.
LEMMA AbstractStutter ==
  ASSUME UNCHANGED guest, \A h \in Name : (Live(host'[h]) <=> Live(host[h]))
  PROVE  UNCHANGED Promised!pvars
<1>1. \A o \in Obj : Held(o)' = Held(o) /\ Ready(o)' = Ready(o)
  BY DEF Held, Ready
<1>2. {o \in Obj : Held(o)}' = {o \in Obj : Held(o)}
  BY <1>1
<1>3. {o \in Obj : Ready(o)}' = {o \in Obj : Ready(o)}
  BY <1>1
<1>4. {h \in Name : Live(host[h])}' = {h \in Name : Live(host[h])}
  OBVIOUS
<1> QED
  BY <1>2, <1>3, <1>4 DEF Promised!pvars

LEMMA PromiseUser ==
  ASSUME MirrorInv, OwnCopies, NEW o \in Obj, UserCreate(o) \/ UserDelete(o)
  PROVE  [Promised!PromiseNext]_(Promised!pvars)
<1>1. TypeOK /\ HostName[o] \in Name /\ guest[o] \in CR
  BY ConstantsAssumption DEF MirrorInv, TypeOK
<1>2. \A p \in Obj : p # o => (Held(p)' <=> Held(p)) /\ (Ready(p)' <=> Ready(p))
  BY OwnStep DEF Held, Ready
<1>3. host' = host
  BY DEF UserCreate, UserDelete
<1>4. CASE UserCreate(o)
  <2>1. guest'[o] = NewCR /\ ~guest[o].here
    BY <1>1, <1>4 DEF UserCreate, TypeOK
  <2>2. ~NewCR.fin /\ NewCR.state # "READY"
    BY DEF NewCR
  <2>3. ~Held(o) /\ ~Held(o)' /\ ~Ready(o)'
    BY <2>1, <2>2 DEF Held, Ready
  <2> QED
    BY <1>1, <1>2, <1>3, <2>3, AbstractStep
<1>5. CASE UserDelete(o)
  <2>1. guest'[o] = Deleted(guest[o]) /\ guest[o].here
    BY <1>1, <1>5 DEF UserDelete, TypeOK, Live
  <2>2. ~NoCR.fin
    BY DEF NoCR
  <2>3. (Held(o)' <=> Held(o)) /\ ~Ready(o)'
    BY <1>1, <2>1, <2>2, DeletedCR DEF Held, Ready
  <2> QED
    BY <1>1, <1>2, <1>3, <2>3, AbstractStep
<1> QED
  BY <1>4, <1>5

\* Applying the copy of a child mirrors it, deleting it unmirrors it.
LEMMA PromiseCall ==
  ASSUME MirrorInv, OwnCopies, NEW o \in Obj, ReadyChild(o),
         UNCHANGED guest,
         \/ host' = host
         \/ run[o].pc = "apply" /\ host' = Applied(o)
         \/ run[o].pc = "delete" /\ host' = Removed(o)
  PROVE  [Promised!PromiseNext]_(Promised!pvars)
<1>1. TypeOK /\ HostName[o] \in Name /\ host[HostName[o]] \in CR /\ ChildInv(o)
  BY ConstantsAssumption DEF MirrorInv, TypeOK
<1>2. \A p \in Obj : (Held(p)' <=> Held(p)) /\ (Ready(p)' <=> Ready(p))
  BY DEF Held, Ready
<1>3. \A h \in Name : h # HostName[o] => (Live(host'[h]) <=> Live(host[h]))
  BY <1>1, AppliedCR
<1>4. CASE host' = host
  BY <1>4, AbstractStutter
<1>5. CASE run[o].pc = "apply" /\ host' = Applied(o)
  <2>1. Held(o)
    BY <1>1, <1>5 DEF ChildInv, Phases, SeenLive
  <2>2. Live(host'[HostName[o]])
    BY <1>1, <1>5, AppliedCR, NewFields DEF ReadyChild, CopyLeaving, Live
  <2> QED
    BY <1>1, <1>2, <1>3, <2>1, <2>2, AbstractStep
<1>6. CASE run[o].pc = "delete" /\ host' = Removed(o)
  <2>1. ~Live(host'[HostName[o]])
    BY <1>1, <1>6, AppliedCR
  <2>2. CASE Live(host[HostName[o]])
    <3>1. Held(o)
      BY <1>1, <2>2 DEF MirrorInv, CopyAnswered, Keeper, OwnCopies
    <3>2. ~Ready(o)
      BY <1>1, <1>6, <3>1 DEF ChildInv, Phases, SeenDeleting, Held, Ready
    <3> QED
      BY <1>1, <1>2, <1>3, <2>1, <3>1, <3>2, AbstractStep
  <2>3. CASE ~Live(host[HostName[o]])
    BY <1>1, <1>2, <1>3, <2>1, <2>3, AbstractStep
  <2> QED
    BY <2>2, <2>3
<1> QED
  BY <1>4, <1>5, <1>6

\* The final patch registers, releases, reports or retracts, and never two of
\* these at once.
LEMMA PromisePatch ==
  ASSUME MirrorInv, OwnCopies, NEW o \in Obj, ReadyChild(o), Patch(o)
  PROVE  [Promised!PromiseNext]_(Promised!pvars)
<1>1. TypeOK /\ HostName[o] \in Name /\ guest[o] \in CR /\ run[o] \in Run /\ ChildInv(o)
  BY ConstantsAssumption DEF MirrorInv, TypeOK
<1>2. \A p \in Obj : p # o => (Held(p)' <=> Held(p)) /\ (Ready(p)' <=> Ready(p))
  BY OwnStep DEF Held, Ready
<1>3. host' = host /\ guest'[o] = Patched(o) /\ run[o].pc = "patch"
  BY <1>1 DEF Patch, TypeOK
<1>4. CASE ~Held(o) /\ Held(o)'
  <2>1. /\ Patched(o).here /\ guest[o].here /\ run[o].fin /\ ~run[o].seen.fin
        /\ Patched(o).deleting = guest[o].deleting
    BY <1>1, <1>3, <1>4, PatchedFields DEF Held
  <2>2. run[o].state = run[o].seen.state
    BY <1>1, <1>3, <2>1 DEF ChildInv, Phases
  <2>3. Patched(o).state = guest[o].state
    BY <1>1, <2>1, <2>2, PatchedFields
  <2>4. Ready(o)' <=> Ready(o)
    BY <1>3, <2>1, <2>3 DEF Ready, Live
  <2> QED
    BY <1>1, <1>2, <1>3, <1>4, <2>4, AbstractStep
<1>5. CASE Held(o) /\ ~Held(o)'
  <2>1. Releasing(o)
    BY <1>1, <1>3, <1>5, PatchedFields DEF Held, Releasing
  <2>2. run[o].seen.deleting /\ ~Live(guest[o])
    BY <1>1, <1>3, <1>5, <2>1 DEF ChildInv, SeenLive, SeenDeleting, Releasing, Held
  <2>3. ~Ready(o) /\ ~Ready(o)'
    BY <1>1, <1>3, <2>2, PatchedFields DEF Ready, Live
  <2>4. ~Live(host[HostName[o]])
    BY <1>1, <2>1 DEF MirrorInv, CopyAnswered, Keeper, OwnCopies
  <2> QED
    BY <1>1, <1>2, <1>3, <1>5, <2>3, <2>4, AbstractStep
<1>6. CASE Held(o)' <=> Held(o)
  <2>1. ASSUME Ready(o)', ~Ready(o) PROVE Held(o) /\ Live(host[HostName[o]])
    <3>1. /\ ~run[o].seen.deleting
          /\ run[o].state = "READY" /\ run[o].seen.state # "READY"
      BY <1>1, <1>3, <2>1, PatchedFields DEF Ready
    <3>2. run[o].seen.fin /\ Live(host[HostName[o]])
      BY <1>3, <3>1 DEF ReadyChild, Reporting
    <3> QED
      BY <1>1, <1>3, <3>1, <3>2 DEF ChildInv, SeenLive
  <2> QED
    BY <1>1, <1>2, <1>3, <1>6, <2>1, AbstractStep
<1> QED
  BY <1>4, <1>5, <1>6

LEMMA PromiseStep ==
  ASSUME MirrorInv, ReadyInv, Careful, [Next]_vars
  PROVE  [Promised!PromiseNext]_(Promised!pvars)
<1>1. TypeOK /\ OwnCopies /\ \A o \in Obj : ReadyChild(o)
  BY DEF MirrorInv, ReadyInv, Careful
<1>2. ASSUME NEW o \in Obj, UserCreate(o) \/ UserDelete(o)
      PROVE  [Promised!PromiseNext]_(Promised!pvars)
  BY <1>1, <1>2, PromiseUser
<1>3. ASSUME NEW o \in Obj,
             CacheSync(o) \/ Enqueue(o) \/ ReconcileAny(o) \/ PatchFails(o)
      PROVE  [Promised!PromiseNext]_(Promised!pvars)
  <2>1. UNCHANGED <<guest, host>>
    BY <1>1, <1>3, Planned DEF CacheSync, Enqueue, PatchFails
  <2> QED
    BY <2>1, AbstractStutter
<1>4. ASSUME NEW o \in Obj, CallHost(o) \/ RemoteFails(o)
      PROVE  [Promised!PromiseNext]_(Promised!pvars)
  BY <1>1, <1>4, PromiseCall DEF CallHost, RemoteFails, LookupCopy, ApplyCopy,
     CopyStatus, CopyNotFound, DeleteCopy
<1>5. ASSUME NEW o \in Obj, Patch(o) PROVE [Promised!PromiseNext]_(Promised!pvars)
  BY <1>1, <1>5, PromisePatch
<1>6. ASSUME NEW h \in Name, HostStep(h) \/ OrchestratorDecides(h)
      PROVE  [Promised!PromiseNext]_(Promised!pvars)
  BY <1>1, <1>6, HostChanges, AbstractStutter DEF HostChange
<1>7. ASSUME NEW s \in {"AVAILABLE", "LOCKED", "OTHER"}, FederationStatus(s)
      PROVE  [Promised!PromiseNext]_(Promised!pvars)
  BY <1>7, AbstractStutter DEF FederationStatus
<1>8. CASE FederationRemoved \/ Crash \/ UNCHANGED vars
  BY <1>8, AbstractStutter DEF FederationRemoved, Crash, vars
<1> QED
  BY <1>2, <1>3, <1>4, <1>5, <1>6, <1>7, <1>8 DEF Next

LEMMA PromiseStart == Init => Promised!PromiseInit
<1>1. ~NoCR.here
  BY DEF NoCR
<1> QED
  BY <1>1 DEF Init, Promised!PromiseInit, Held, Ready, Live

\* Whatever the interleaving of reconciles, users, host and faults, the guest
\* and the host keep the promise of MirrorPromise.
THEOREM PromiseKept == Careful => (Spec => KeepsPromise)
<1>1. SUFFICES ASSUME Careful PROVE Spec => KeepsPromise
  OBVIOUS
<1>2. MirrorInv /\ ReadyInv /\ [Next]_vars => [Promised!PromiseNext]_(Promised!pvars)
  BY <1>1, PromiseStep
<1>3. Spec => []ReadyInv
  BY ReadyInit, ReadyNext, MirrorInvariant, PTL DEF Spec
<1> QED
  BY <1>2, <1>3, PromiseStart, MirrorInvariant, PTL
  DEF Spec, KeepsPromise, Promised!Promise
=============================================================================

----------------------- MODULE AdmissionPolicy_proofs -----------------------
(***************************************************************************)
(* However many federations, operators and namespaces there are, the list  *)
(* that an operator wrote last names all its federations whose policy is   *)
(* set.  The operator's cache may lag behind, but once it has shown it     *)
(* that a federation has its context id, it does so until it shows it      *)
(* being deleted.                                                          *)
(***************************************************************************)
EXTENDS AdmissionPolicy, TLAPS

\* What the cache shows of a federation, and what it is by now.
CacheInv(f) ==
  /\ cr[f].st = "none" => ~cr[f].deleting
  /\ cache[f].st = "none" => ~cache[f].deleting
  /\ cache[f].deleting => ~Live(cr[f])
  /\ Live(cache[f]) /\ Known(cache[f]) => Known(cr[f])
  /\ cr[f].st = "set" => Known(cache[f])

\* What a reconcile is at, seen from a federation f of its operator.
RunInv(f) ==
  LET r == run[OpOf[f]]
  IN  /\ r.pc = "call" => r.action = "remove"
      /\ r.pc # "idle" => r.action \in {"add", "remove"}
      /\ r.f = f /\ r.action = "add" =>
           Known(cr[f]) /\ Known(cache[f]) /\ r.pc \in {"apply", "patch"} /\ f \in r.ids
      /\ r.f = f /\ r.action = "remove" => ~Live(cr[f]) /\ ~Live(cache[f])
      /\ r.pc \in {"apply", "patch"} /\ Live(cr[f]) /\ cr[f].st = "set" => f \in r.ids
      /\ r.pc = "patch" /\ writer = OpOf[f] => list = r.ids

PolicyInv ==
  /\ PolicyTypeOK
  /\ \A f \in Fed : CacheInv(f) /\ RunInv(f)
  /\ SetIsListed
----------------------------------------------------------------------------
\* In the beginning there is no federation, and nothing to list.
LEMMA PolicyStart == Init => PolicyInv
<1> SUFFICES ASSUME Init PROVE PolicyInv
  OBVIOUS
<1>1. PolicyTypeOK
  BY PolicyAssumption DEF Init, PolicyTypeOK, CR, NoCR, Run, Idle
<1>2. ASSUME NEW f \in Fed PROVE CacheInv(f) /\ RunInv(f)
  BY PolicyAssumption DEF Init, CacheInv, RunInv, Live, Known, NoCR, Idle
<1>3. SetIsListed
  BY DEF Init, SetIsListed, Live, NoCR
<1> QED
  BY <1>1, <1>2, <1>3 DEF PolicyInv

\* What PolicyInv says of one federation: CacheInv and RunInv.
LEMMA PolicyOf ==
  ASSUME PolicyInv, NEW f \in Fed
  PROVE  /\ PolicyTypeOK /\ OpOf[f] \in Op
         /\ cr[f] \in CR /\ cache[f] \in CR /\ run[OpOf[f]] \in Run
         /\ CacheInv(f) /\ RunInv(f)
BY PolicyAssumption DEF PolicyInv, PolicyTypeOK

\* Users, id and deletion: the CR changes, and what is set stays set.
LEMMA UsersKeepPolicy ==
  ASSUME PolicyInv, NEW g \in Fed, UserCreates(g) \/ GetsId(g) \/ UserDeletes(g)
  PROVE  PolicyInv'
<1>1. PICK c \in CR :
        /\ cr' = [cr EXCEPT ![g] = c]
        /\ UNCHANGED <<cache, child, seen, list, writer, run>>
        /\ c.st # "none"
        /\ Known(cr[g]) => Known(c)
        /\ c.st = "set" => cr[g].st = "set"
        /\ Live(c) => Live(cr[g]) \/ (cr[g].st = "none" /\ cache[g].st = "none" /\ run[OpOf[g]].f # g)
  <2>1. CASE UserCreates(g)
    <3> [cr[g] EXCEPT !.st = "new"] \in CR
      BY PolicyOf DEF CR
    <3> WITNESS [cr[g] EXCEPT !.st = "new"] \in CR
    <3> QED
      BY <2>1, PolicyOf DEF UserCreates, CR, Known, Live
  <2>2. CASE GetsId(g)
    <3> [cr[g] EXCEPT !.st = "not-set"] \in CR
      BY PolicyOf DEF CR
    <3> WITNESS [cr[g] EXCEPT !.st = "not-set"] \in CR
    <3> QED
      BY <2>2, PolicyOf DEF GetsId, CR, Known, Live
  <2>3. CASE UserDeletes(g)
    <3> [cr[g] EXCEPT !.deleting = TRUE] \in CR
      BY PolicyOf DEF CR
    <3> WITNESS [cr[g] EXCEPT !.deleting = TRUE] \in CR
    <3> QED
      BY <2>3, PolicyOf DEF UserDeletes, CR, Known, Live
  <2> QED
    BY <2>1, <2>2, <2>3
<1>2. cr \in [Fed -> CR]
  BY DEF PolicyInv, PolicyTypeOK
<1>3. PolicyTypeOK'
  BY <1>1, <1>2 DEF PolicyInv, PolicyTypeOK
<1>4. ASSUME NEW f \in Fed PROVE CacheInv(f)' /\ RunInv(f)'
  <2>1. CASE f # g
    BY <1>1, <1>2, <2>1, PolicyOf DEF CacheInv, RunInv
  <2>2. CASE f = g
    <3>1. cr'[f] = c
      BY <1>1, <1>2, <2>2
    <3>2. CacheInv(f)'
      BY <1>1, <2>2, <3>1, PolicyOf DEF CacheInv, Live, Known
    <3>3. RunInv(f)'
      BY <1>1, <2>2, <3>1, PolicyOf DEF RunInv, CacheInv, Live, Known
    <3> QED
      BY <3>2, <3>3
  <2> QED
    BY <2>1, <2>2
<1>5. SetIsListed'
  BY <1>1, <1>2 DEF PolicyInv, SetIsListed, Live
<1> QED
  BY <1>3, <1>4, <1>5 DEF PolicyInv

\* The caches: a cache that is brought up to date shows what is there.
LEMMA CachesKeepPolicy ==
  ASSUME PolicyInv, NEW g \in Fed, Sync(g) \/ SyncChild(g)
  PROVE  PolicyInv'
<1> USE PolicyOf
<1>1. PolicyTypeOK'
  BY DEF PolicyTypeOK, Sync, SyncChild
<1>2. ASSUME NEW f \in Fed PROVE CacheInv(f)' /\ RunInv(f)'
  <2>1. CASE Sync(g)
    BY <2>1 DEF Sync, PolicyTypeOK, CacheInv, RunInv, Live, Known, CR
  <2>2. CASE SyncChild(g)
    BY <2>2 DEF SyncChild, CacheInv, RunInv
  <2> QED
    BY <2>1, <2>2
<1>3. SetIsListed'
  BY DEF PolicyInv, SetIsListed, Sync, SyncChild
<1> QED
  BY <1>1, <1>2, <1>3 DEF PolicyInv

\* Children: they matter to the liveness of the policy, not to its list.
LEMMA ChildrenKeepPolicy ==
  ASSUME PolicyInv, NEW g \in Fed,
         ChildCreated(g) \/ ChildDeleted(g) \/ ChildGoes(g)
  PROVE  PolicyInv'
<1>1. /\ UNCHANGED <<cr, cache, seen, list, writer, run>>
      /\ child' \in [Fed -> {"none", "here", "deleting"}]
  BY DEF PolicyInv, PolicyTypeOK, ChildCreated, ChildDeleted, ChildGoes, ChildStep
<1> QED
  BY <1>1 DEF PolicyInv, PolicyTypeOK, CacheInv, RunInv, SetIsListed

\* A reconcile that begins to add g, of its operator: the list it computes
\* has every federation whose policy is set, as the cache knows them all.
LEMMA AddsKeepPolicy ==
  ASSUME PolicyInv, NEW g \in Fed, Adds(g)
  PROVE  PolicyInv'
<1> USE PolicyOf
<1> DEFINE o == OpOf[g]
           ids == Listed(o) \cup {g}
           r == [pc |-> "apply", f |-> g, action |-> "add", ids |-> ids]
<1>1. /\ Live(cache[g]) /\ cache[g].st = "not-set" /\ run[o].pc = "idle"
      /\ run' = [run EXCEPT ![o] = r]
      /\ UNCHANGED <<cr, cache, child, seen, list, writer>>
  BY DEF Adds, Goto, Ids
<1>2. r \in Run /\ ids \subseteq Fed
  BY DEF Run, Listed
<1>3. PolicyTypeOK'
  BY <1>1, <1>2 DEF PolicyTypeOK
<1>4. ASSUME NEW f \in Fed PROVE CacheInv(f)' /\ RunInv(f)'
  <2>1. CacheInv(f)'
    BY <1>1 DEF CacheInv
  <2>2. CASE OpOf[f] # o
    <3>1. run'[OpOf[f]] = run[OpOf[f]]
      BY <1>1, <2>2 DEF PolicyTypeOK
    <3> QED
      BY <1>1, <2>1, <3>1 DEF RunInv, Live, Known
  <2>3. CASE OpOf[f] = o
    <3>1. run'[OpOf[f]] = r
      BY <1>1, <2>3 DEF PolicyTypeOK
    <3>2. f = g => Known(cr[f]) /\ Known(cache[f])
      BY <1>1 DEF CacheInv, Known
    <3>3. cr[f].st = "set" => f \in ids
      BY <2>3 DEF CacheInv, Listed
    <3> QED
      BY <1>1, <2>1, <3>1, <3>2, <3>3 DEF RunInv, Known, Live
  <2> QED
    BY <2>1, <2>2, <2>3
<1>5. SetIsListed'
  BY <1>1 DEF PolicyInv, SetIsListed
<1> QED
  BY <1>3, <1>4, <1>5 DEF PolicyInv

\* A reconcile of a deletion begins: the federation is being deleted in the
\* cache, hence in the API server.
LEMMA DeletesKeepPolicy ==
  ASSUME PolicyInv, NEW g \in Fed, Deletes(g)
  PROVE  PolicyInv'
<1> USE PolicyOf
<1> DEFINE o == OpOf[g]
           r == [pc |-> "call", f |-> g, action |-> "remove", ids |-> {}]
<1>1. /\ cache[g].deleting /\ run' = [run EXCEPT ![o] = r]
      /\ UNCHANGED <<cr, cache, child, seen, list, writer>>
  BY DEF Deletes, Goto
<1>2. r \in Run
  BY DEF Run
<1>3. PolicyTypeOK'
  BY <1>1, <1>2 DEF PolicyTypeOK
<1>4. ASSUME NEW f \in Fed PROVE CacheInv(f)' /\ RunInv(f)'
  <2>1. CacheInv(f)'
    BY <1>1 DEF CacheInv
  <2>2. CASE OpOf[f] # o
    <3>1. run'[OpOf[f]] = run[OpOf[f]]
      BY <1>1, <2>2 DEF PolicyTypeOK
    <3> QED
      BY <1>1, <2>1, <3>1 DEF RunInv, Live, Known
  <2>3. CASE OpOf[f] = o
    <3>1. run'[OpOf[f]] = r
      BY <1>1, <2>3 DEF PolicyTypeOK
    <3> QED
      BY <1>1, <2>1, <3>1 DEF RunInv, CacheInv, Live, Known
  <2> QED
    BY <2>1, <2>2, <2>3
<1>5. SetIsListed'
  BY <1>1 DEF PolicyInv, SetIsListed
<1> QED
  BY <1>3, <1>4, <1>5 DEF PolicyInv

\* ... and computes a list without it; the other federations whose policy is
\* set are known to the cache.
LEMMA RemovesKeepPolicy ==
  ASSUME PolicyInv, NEW o \in Op, Removes(o)
  PROVE  PolicyInv'
<1> USE PolicyOf
<1>1. run[o].pc = "call" /\ run[o] \in Run
  BY DEF Removes, PolicyInv, PolicyTypeOK
<1>2. run[o].f \in Fed /\ OpOf[run[o].f] = o
  BY <1>1 DEF PolicyInv, PolicyTypeOK, Idle
<1> DEFINE g == run[o].f
           ids == Listed(o) \ {g}
           r == [run[o] EXCEPT !.pc = "apply", !.ids = ids]
<1>3. run' = [run EXCEPT ![o] = r] /\ UNCHANGED <<cr, cache, child, seen, list, writer>>
  BY DEF Removes, Goto, Ids
<1>4. r \in Run /\ r.pc = "apply" /\ r.f = g /\ r.ids = ids /\ r.action = run[o].action
  BY <1>1 DEF Run, Listed
<1>5. PolicyTypeOK'
  BY <1>2, <1>3, <1>4 DEF PolicyTypeOK, PolicyInv
<1>6. ASSUME NEW f \in Fed PROVE CacheInv(f)' /\ RunInv(f)'
  <2>1. CacheInv(f)'
    BY <1>3 DEF CacheInv
  <2>2. CASE OpOf[f] # o
    <3>1. run'[OpOf[f]] = run[OpOf[f]]
      BY <1>3, <2>2 DEF PolicyTypeOK
    <3> QED
      BY <1>3, <2>1, <3>1 DEF RunInv, Live, Known
  <2>3. CASE OpOf[f] = o
    <3>1. run'[OpOf[f]] = r
      BY <1>3, <2>3 DEF PolicyTypeOK
    <3>2. r.action = "remove" /\ ~Live(cr[g]) /\ ~Live(cache[g])
      BY <1>1, <1>2, <1>4 DEF RunInv
    <3>3. cr[f].st = "set" /\ Live(cr[f]) => f \in ids
      BY <2>3, <3>2 DEF CacheInv, Listed
    <3> QED
      BY <1>3, <1>4, <2>1, <3>1, <3>2, <3>3 DEF RunInv, Live, Known
  <2> QED
    BY <2>1, <2>2, <2>3
<1>7. SetIsListed'
  BY <1>3 DEF PolicyInv, SetIsListed
<1> QED
  BY <1>5, <1>6, <1>7 DEF PolicyInv

\* The list is applied as it was computed, and names what is set.
LEMMA AppliesKeepPolicy ==
  ASSUME PolicyInv, NEW o \in Op, Applies(o)
  PROVE  PolicyInv'
<1> USE PolicyOf
<1>1. run[o].pc = "apply" /\ run[o] \in Run
  BY DEF Applies, PolicyInv, PolicyTypeOK
<1>2. run[o].f \in Fed /\ OpOf[run[o].f] = o
  BY <1>1 DEF PolicyInv, PolicyTypeOK, Idle
<1> DEFINE r == [run[o] EXCEPT !.pc = "patch"]
<1>3. /\ list' = run[o].ids /\ writer' = o /\ run' = [run EXCEPT ![o] = r]
      /\ UNCHANGED <<cr, cache, child, seen>>
  BY DEF Applies, Goto
<1>4. /\ r \in Run /\ r.pc = "patch" /\ r.f = run[o].f
      /\ r.ids = run[o].ids /\ r.action = run[o].action
  BY <1>1 DEF Run
<1>5. PolicyTypeOK'
  BY <1>1, <1>2, <1>3, <1>4 DEF PolicyTypeOK, PolicyInv, Run
<1>6. ASSUME NEW f \in Fed PROVE CacheInv(f)' /\ RunInv(f)'
  <2>1. CacheInv(f)'
    BY <1>3 DEF CacheInv
  <2>2. CASE OpOf[f] # o
    <3>1. run'[OpOf[f]] = run[OpOf[f]]
      BY <1>3, <2>2 DEF PolicyTypeOK
    <3> QED
      BY <1>3, <2>1, <2>2, <3>1 DEF RunInv, Live, Known
  <2>3. CASE OpOf[f] = o
    <3>1. run'[OpOf[f]] = r
      BY <1>3, <2>3 DEF PolicyTypeOK
    <3> QED
      BY <1>1, <1>3, <1>4, <2>1, <2>3, <3>1 DEF RunInv, Live, Known
  <2> QED
    BY <2>1, <2>2, <2>3
<1>7. SetIsListed'
  BY <1>1, <1>3 DEF SetIsListed, RunInv
<1> QED
  BY <1>5, <1>6, <1>7 DEF PolicyInv

\* The final patch: the annotation becomes "set" when the list names the
\* federation, unless another operator has written the list since.
LEMMA PatchesKeepPolicy ==
  ASSUME PolicyInv, NEW o \in Op, Patches(o)
  PROVE  PolicyInv'
<1>1. run[o].pc = "patch" /\ run[o] \in Run
  BY DEF Patches, PolicyInv, PolicyTypeOK
<1>2. run[o].f \in Fed /\ OpOf[run[o].f] = o
  BY <1>1 DEF PolicyInv, PolicyTypeOK, Idle
<1> DEFINE g == run[o].f
           c == Patched(cr[g], run[o].action)
<1>3. /\ cr' = [cr EXCEPT ![g] = c] /\ run' = [run EXCEPT ![o] = Idle]
      /\ UNCHANGED <<cache, child, seen, list, writer>>
  BY <1>2 DEF Patches, Goto, PolicyInv, PolicyTypeOK
<1>4. /\ PolicyTypeOK /\ cr[g] \in CR /\ cache[g] \in CR
      /\ CacheInv(g) /\ RunInv(g)
  BY <1>2, PolicyOf
<1>5. /\ c \in CR
      /\ c.st = "none" => ~c.deleting
      /\ Live(c) => Live(cr[g])
      /\ c = NoCR \/ (Known(cr[g]) => Known(c))
      /\ c.st = "set" => Known(cache[g])
      /\ c.st = "set" /\ Live(c) /\ writer = o => g \in list
      /\ c = NoCR => ~Live(cache[g])
  <2>1. CASE run[o].action = "add"
    <3>1. /\ Known(cr[g]) /\ Known(cache[g]) /\ g \in run[o].ids
          /\ c = IF cr[g].st = "not-set" THEN [cr[g] EXCEPT !.st = "set"] ELSE cr[g]
      BY <1>2, <1>4, <2>1 DEF Patched, RunInv
    <3>2. writer = o => list = run[o].ids
      BY <1>1, <1>2, <1>4 DEF RunInv
    <3> QED
      BY <1>4, <3>1, <3>2 DEF CR, NoCR, Known, Live
  <2>2. CASE run[o].action = "remove"
    <3>1. ~Live(cr[g]) /\ ~Live(cache[g]) /\ c = IF cr[g].deleting THEN NoCR ELSE cr[g]
      BY <1>2, <1>4, <2>2 DEF Patched, RunInv
    <3>2. CASE cr[g].deleting
      BY <1>4, <3>1, <3>2 DEF CR, NoCR, Known, Live
    <3>3. CASE ~cr[g].deleting
      <4>1. c = cr[g] /\ c.st = "none"
        BY <1>4, <3>1, <3>3 DEF CR, Live
      <4> QED
        BY <1>4, <3>1, <3>3, <4>1 DEF CR, Known, Live
    <3> QED
      BY <1>4, <3>2, <3>3 DEF CR
  <2> QED
    BY <1>1, <1>2, <1>4, <2>1, <2>2 DEF RunInv
<1>6. PolicyTypeOK'
  BY <1>3, <1>4, <1>5 DEF PolicyTypeOK, Run, Idle
<1>7. ASSUME NEW f \in Fed PROVE CacheInv(f)' /\ RunInv(f)'
  <2>1. CASE f # g
    <3>1. cr'[f] = cr[f]
      BY <1>3, <1>4, <2>1 DEF PolicyTypeOK
    <3>2. CacheInv(f)'
      BY <1>3, <3>1, PolicyOf DEF CacheInv, Live, Known
    <3>3. CASE OpOf[f] # o
      <4>1. run'[OpOf[f]] = run[OpOf[f]]
        BY <1>3, <1>4, <3>3 DEF PolicyTypeOK
      <4> QED
        BY <1>3, <3>1, <3>2, <4>1, PolicyOf DEF RunInv, Live, Known
    <3>4. CASE OpOf[f] = o
      <4>1. run'[OpOf[f]] = Idle
        BY <1>3, <1>4, <3>4 DEF PolicyTypeOK
      <4> QED
        BY <3>2, <4>1 DEF RunInv, Idle
    <3> QED
      BY <3>3, <3>4
  <2>2. CASE f = g
    <3>1. cr'[f] = c /\ run'[OpOf[f]] = Idle
      BY <1>2, <1>3, <1>4, <2>2 DEF PolicyTypeOK
    <3>2. CacheInv(f)'
      BY <1>3, <1>4, <1>5, <2>2, <3>1 DEF CacheInv, Live, Known, NoCR
    <3> QED
      BY <3>1, <3>2 DEF RunInv, Idle
  <2> QED
    BY <2>1, <2>2
<1>8. SetIsListed'
  BY <1>2, <1>3, <1>4, <1>5 DEF PolicyInv, SetIsListed, PolicyTypeOK
<1> QED
  BY <1>6, <1>7, <1>8 DEF PolicyInv

\* A failure: the reconcile is over, the list stays as it was applied.
LEMMA FailsKeepPolicy ==
  ASSUME PolicyInv, NEW o \in Op, Fails(o)
  PROVE  PolicyInv'
<1>1. run' = [run EXCEPT ![o] = Idle] /\ UNCHANGED <<cr, cache, child, seen, list, writer>>
  BY DEF Fails, Goto
<1>2. PolicyTypeOK'
  BY <1>1 DEF PolicyInv, PolicyTypeOK, Run, Idle
<1>3. ASSUME NEW f \in Fed PROVE CacheInv(f)' /\ RunInv(f)'
  <2>1. CacheInv(f)'
    BY <1>1, PolicyOf DEF CacheInv
  <2>2. run'[OpOf[f]] = IF OpOf[f] = o THEN Idle ELSE run[OpOf[f]]
    BY <1>1, PolicyOf DEF PolicyTypeOK
  <2> QED
    BY <1>1, <2>1, <2>2, PolicyOf DEF RunInv, Idle, Live, Known
<1>4. SetIsListed'
  BY <1>1 DEF PolicyInv, SetIsListed
<1> QED
  BY <1>2, <1>3, <1>4 DEF PolicyInv

\* Every step preserves the invariant.
LEMMA PolicyStep == PolicyInv /\ [Next]_vars => PolicyInv'
<1> SUFFICES ASSUME PolicyInv, [Next]_vars PROVE PolicyInv'
  OBVIOUS
<1>1. CASE \E f \in Fed : UserCreates(f) \/ GetsId(f) \/ UserDeletes(f)
  BY <1>1, UsersKeepPolicy
<1>2. CASE \E f \in Fed : Sync(f) \/ SyncChild(f)
  BY <1>2, CachesKeepPolicy
<1>3. CASE \E f \in Fed : ChildCreated(f) \/ ChildDeleted(f) \/ ChildGoes(f)
  BY <1>3, ChildrenKeepPolicy
<1>4. CASE \E f \in Fed : Adds(f) \/ Deletes(f)
  BY <1>4, AddsKeepPolicy, DeletesKeepPolicy
<1>5. CASE \E o \in Op : Removes(o) \/ Applies(o) \/ Patches(o) \/ Fails(o)
  BY <1>5, RemovesKeepPolicy, AppliesKeepPolicy, PatchesKeepPolicy, FailsKeepPolicy
<1>6. CASE UNCHANGED vars
  BY <1>6 DEF vars, PolicyInv, PolicyTypeOK, CacheInv, RunInv, SetIsListed
<1> QED
  BY <1>1, <1>2, <1>3, <1>4, <1>5, <1>6 DEF Next

\* Every variable keeps its type; in particular a reconcile is of a
\* federation of its own operator.
THEOREM PolicyTyped == Spec => []PolicyTypeOK
<1>1. PolicyInv => PolicyTypeOK
  BY DEF PolicyInv
<1> QED
  BY PolicyStart, PolicyStep, <1>1, PTL DEF Spec

\* For every number of federations and operators: a federation whose
\* annotation says that its policy is set (the reconciler then never sets it
\* again, federation_controller.go:260) is on the list its operator wrote,
\* although each list is computed from a cache that lags behind and replaces
\* the one before.
THEOREM SetListed == Spec => []SetIsListed
<1>1. PolicyInv => SetIsListed
  BY DEF PolicyInv
<1> QED
  BY PolicyStart, PolicyStep, <1>1, PTL DEF Spec
=============================================================================

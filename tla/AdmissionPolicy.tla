-------------------------- MODULE AdmissionPolicy --------------------------
(***************************************************************************)
(* The admission policy by which the API server of a cluster accepts       *)
(* children of known federations only (internal/k8s/policy).  It lists     *)
(* context ids; an operator whose federation gets its context id, or goes, *)
(* writes the whole list again, from the federations in its cache.         *)
(*                                                                         *)
(* The policy is one object for the cluster, and a cache holds the         *)
(* federations of one namespace: operators of several namespaces write the *)
(* same list, each with its own federations.  An operator reconciles one   *)
(* federation at a time.                                                   *)
(*                                                                         *)
(* The policy is the one of the guest's role; the host's is kept alike,    *)
(* but that a host deletes a federation without looking for children.      *)
(***************************************************************************)
CONSTANTS
  Op,      \* the operators of the cluster
  Fed,     \* federations, each for its CR and for its context id
  OpOf,    \* OpOf[f]: the operator of f's namespace
  Parents, \* the federations that children refer to, one each
  Faults   \* what may go wrong: an update or a patch "fails"

ASSUME PolicyAssumption ==
  /\ OpOf \in [Fed -> Op] /\ Parents \subseteq Fed
  /\ Faults \subseteq {"fails"}

VARIABLES
  cr,      \* cr[f]: the Federation CR
  cache,   \* cache[f]: the same in the cache of f's operator
  child,   \* child[f]: the child that refers to f
  seen,    \* the federations whose child is in the cache of their operator
  list,    \* the context ids that the policy accepts
  writer,  \* history: the operator that wrote the list last
  run      \* run[o]: the reconcile that operator o is at

vars == <<cr, cache, child, seen, list, writer, run>>

(***************************************************************************)
(* A CR is new until it has its context id; from then on its annotation    *)
(* says whether the policy is "not-set" or "set".                          *)
(***************************************************************************)
CR == [st : {"none", "new", "not-set", "set"}, deleting : BOOLEAN]
NoCR == [st |-> "none", deleting |-> FALSE]
Live(c) == c.st # "none" /\ ~c.deleting
Known(c) == c.st \in {"not-set", "set"}

Run == [pc : {"idle", "call", "apply", "patch"}, f : Fed \cup {"none"},
        action : {"none", "add", "remove"}, ids : SUBSET Fed]
Idle == [pc |-> "idle", f |-> "none", action |-> "none", ids |-> {}]

PolicyTypeOK ==
  /\ cr \in [Fed -> CR] /\ cache \in [Fed -> CR]
  /\ child \in [Fed -> {"none", "here", "deleting"}]
  /\ seen \subseteq Fed /\ list \subseteq Fed
  /\ writer \in Op \cup {"none"}
  /\ run \in [Op -> Run]
  /\ \A o \in Op : run[o] = Idle \/ (run[o].pc # "idle" /\ run[o].f \in Fed /\ OpOf[run[o].f] = o)

Init ==
  /\ cr = [f \in Fed |-> NoCR] /\ cache = [f \in Fed |-> NoCR]
  /\ child = [f \in Fed |-> "none"] /\ seen = {}
  /\ list = {} /\ writer = "none"
  /\ run = [o \in Op |-> Idle]
----------------------------------------------------------------------------
(***************************************************************************)
(* Users, the rest of the reconciler, and the caches.                      *)
(***************************************************************************)
\* Bound: a federation is created again when its operator has seen the old
\* one go and is not at work on it any more.
UserCreates(f) ==
  /\ cr[f].st = "none" /\ cache[f].st = "none" /\ run[OpOf[f]].f # f
  /\ cr' = [cr EXCEPT ![f].st = "new"]
  /\ UNCHANGED <<cache, child, seen, list, writer, run>>

\* The federation gets its context id, with the annotation "not-set".
GetsId(f) ==
  /\ Live(cr[f]) /\ cr[f].st = "new"
  /\ cr' = [cr EXCEPT ![f].st = "not-set"]
  /\ UNCHANGED <<cache, child, seen, list, writer, run>>

UserDeletes(f) ==
  /\ Live(cr[f])
  /\ cr' = [cr EXCEPT ![f].deleting = TRUE]
  /\ UNCHANGED <<cache, child, seen, list, writer, run>>

Sync(f) ==
  /\ cache[f] # cr[f]
  /\ cache' = [cache EXCEPT ![f] = cr[f]]
  /\ UNCHANGED <<cr, child, seen, list, writer, run>>

SyncChild(f) ==
  /\ seen' = IF child[f] = "none" THEN seen \ {f} ELSE seen \cup {f}
  /\ seen' # seen
  /\ UNCHANGED <<cr, cache, child, list, writer, run>>

(***************************************************************************)
(* What the policy admits: creating, changing and deleting children whose  *)
(* context id is on the list.  A child that is being deleted goes when its *)
(* finalizer is removed, a change like any other.                          *)
(***************************************************************************)
Admitted(f) == f \in list

ChildStep(f, from, to) ==
  /\ Admitted(f) /\ cr[f].st # "none"
  /\ child[f] = from /\ child' = [child EXCEPT ![f] = to]
  /\ UNCHANGED <<cr, cache, seen, list, writer, run>>

ChildCreated(f) == f \in Parents /\ ChildStep(f, "none", "here")
ChildDeleted(f) == ChildStep(f, "here", "deleting")
ChildGoes(f) == ChildStep(f, "deleting", "none")
----------------------------------------------------------------------------
(***************************************************************************)
(* The reconcile of a federation, as far as the policy goes.               *)
(***************************************************************************)
\* The federations of o that have a context id, being deleted or not.
Listed(o) == {g \in Fed : OpOf[g] = o /\ Known(cache[g])}

\* A variant that lists those only whose policy has been set.
IdsSet(o, f, action) ==
  IF action = "add" THEN {g \in Listed(o) : cache[g].st = "set"} \cup {f}
  ELSE {g \in Listed(o) : cache[g].st = "set"} \ {f}

\* The list that FederationContextIdPolicy makes for f.
Ids(o, f, action) ==
  CASE action = "add" -> Listed(o) \cup {f}
    [] action = "remove" -> Listed(o) \ {f}

Goto(o, r) == run' = [run EXCEPT ![o] = r]

Adds(f) ==
  LET o == OpOf[f]
  IN  /\ run[o].pc = "idle"
      /\ Live(cache[f]) /\ cache[f].st = "not-set"
      /\ Goto(o, [pc |-> "apply", f |-> f, action |-> "add", ids |-> Ids(o, f, "add")])
      /\ UNCHANGED <<cr, cache, child, seen, list, writer>>

\* A variant that looks for no children.
NoDependents(f) == FALSE

HasDependents(f) == Known(cache[f]) /\ f \in seen

\* A deletion that nothing in the cache depends on calls the host, ...
Deletes(f) ==
  LET o == OpOf[f]
  IN  /\ run[o].pc = "idle"
      /\ cache[f].deleting /\ ~HasDependents(f)
      /\ Goto(o, [pc |-> "call", f |-> f, action |-> "remove", ids |-> {}])
      /\ UNCHANGED <<cr, cache, child, seen, list, writer>>

\* ... and takes the context id off the list.
Removes(o) ==
  /\ run[o].pc = "call"
  /\ Goto(o, [run[o] EXCEPT !.pc = "apply", !.ids = Ids(o, run[o].f, "remove")])
  /\ UNCHANGED <<cr, cache, child, seen, list, writer>>

\* The list is applied as a whole, whoever owns what is there.
Applies(o) ==
  /\ run[o].pc = "apply"
  /\ list' = run[o].ids /\ writer' = o
  /\ Goto(o, [run[o] EXCEPT !.pc = "patch"])
  /\ UNCHANGED <<cr, cache, child, seen>>

\* The reconcile's patch: the annotation, or the finalizer of a CR that is
\* being deleted.
Patched(c, action) ==
  IF action = "add"
  THEN IF c.st = "not-set" THEN [c EXCEPT !.st = "set"] ELSE c
  ELSE IF c.deleting THEN NoCR ELSE c

\* A variant that does not forget the federation it was at work on.
PatchesOnly(o) ==
  /\ run[o].pc = "patch"
  /\ cr' = [cr EXCEPT ![run[o].f] = Patched(@, run[o].action)]
  /\ Goto(o, [run[o] EXCEPT !.pc = "idle"])
  /\ UNCHANGED <<cache, child, seen, list, writer>>

Patches(o) ==
  /\ run[o].pc = "patch"
  /\ cr' = [cr EXCEPT ![run[o].f] = Patched(@, run[o].action)]
  /\ Goto(o, Idle)
  /\ UNCHANGED <<cache, child, seen, list, writer>>

\* The policy's binding (its list is applied already) or the final patch
\* fails: retried.  A failure before the list is applied leaves everything as
\* it was.  An operator that restarts is one that fails and whose cache is
\* then brought up to date.
Fails(o) ==
  /\ "fails" \in Faults
  /\ run[o].pc = "patch"
  /\ Goto(o, Idle)
  /\ UNCHANGED <<cr, cache, child, seen, list, writer>>

Next ==
  \/ \E f \in Fed :
       \/ UserCreates(f) \/ GetsId(f) \/ UserDeletes(f)
       \/ Sync(f) \/ SyncChild(f)
       \/ ChildCreated(f) \/ ChildDeleted(f) \/ ChildGoes(f)
       \/ Adds(f) \/ Deletes(f)
  \/ \E o \in Op : Removes(o) \/ Applies(o) \/ Patches(o) \/ Fails(o)

Spec == Init /\ [][Next]_vars

(***************************************************************************)
(* Fairness: caches are brought up to date; every federation's turn comes, *)
(* and what fails is tried until it succeeds.  A child that is being       *)
(* deleted is let go, if the policy admits it.                             *)
(***************************************************************************)
FairSpec ==
  /\ Spec
  /\ \A f \in Fed :
       /\ WF_vars(Sync(f)) /\ WF_vars(SyncChild(f)) /\ WF_vars(ChildGoes(f))
       /\ SF_vars(Adds(f)) /\ SF_vars(Deletes(f))
       /\ SF_vars(run[OpOf[f]].f = f /\ Patches(OpOf[f]))
  /\ \A o \in Op : WF_vars(Removes(o)) /\ WF_vars(Applies(o))
----------------------------------------------------------------------------
\* The list that an operator has written, from a cache that may lack what
\* the API server holds, names every federation whose annotation says that
\* its policy is set: what is set is not set again.
SetIsListed ==
  \A f \in Fed :
    Live(cr[f]) /\ cr[f].st = "set" /\ writer = OpOf[f] => f \in list

\* No other operator of the cluster has a federation of the role.
Alone(f) == writer \in {"none", OpOf[f]}

\* The policy comes to admit the children of every federation that stays
\* and has its context id, whatever updates and patches fail.
GetsAdmitted ==
  \A f \in Fed :
    <>[](Live(cr[f]) /\ Known(cr[f])) /\ []Alone(f) => <>[]Admitted(f)

\* A child that is there while its federation is being removed is one that
\* the operator's cache has had the time to see.
NoRace(f) ==
  run[OpOf[f]].f = f /\ run[OpOf[f]].action = "remove" /\ child[f] # "none" => f \in seen

\* A federation that is gone is on no list, applied or yet to be applied.
NoGhost(f) == cr[f].st = "none" => f \notin list \cup run[OpOf[f]].ids

\* A child that is being deleted goes: its federation waits for it, and the
\* policy admits the removal of its finalizer until then.  This needs one
\* operator in the cluster, no child that is created while its federation is
\* on its way out, and no stale cache that puts a federation back on the list
\* that is gone.
DeletedChildGoes ==
  \A f \in Parents :
    [](Alone(f) /\ NoRace(f) /\ NoGhost(f))
      => (child[f] = "deleting" ~> child[f] = "none")
=============================================================================

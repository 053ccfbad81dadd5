--------------------------- MODULE ChildMirrorInv ---------------------------
(***************************************************************************)
(* The inductive invariant behind the safety of ChildMirror: what a stale  *)
(* cache and a reconcile in progress can still be wrong about.             *)
(***************************************************************************)
EXTENDS ChildMirror

CacheHeld(o) == cache[o].here /\ cache[o].fin

\* The reconcile of o has removed o's copy and is about to let o go.
Releasing(o) == run[o].pc = "patch" /\ run[o].seen.fin /\ ~run[o].fin

\* A child that the cache shows live and with its finalizer still has it.
CacheBehind(o) == Live(cache[o]) /\ cache[o].fin => Held(o)

\* A deletion the cache has seen is not undone while o keeps its finalizer.
CacheDeleting(o) == cache[o].deleting => ~(Live(guest[o]) /\ guest[o].fin)

\* A reconcile that saw o deleting ends with o still on its way out, even if
\* o was released and created again meanwhile.
SeenDeleting(o) ==
  run[o].pc # "idle" /\ run[o].seen.deleting =>
    /\ ~(Live(guest[o]) /\ guest[o].fin)
    /\ ~(Live(cache[o]) /\ cache[o].fin)

\* A reconcile that saw o live keeps it from being released, and what the
\* cache has learnt meanwhile is what the API server says.
SeenLive(o) ==
  run[o].pc # "idle" /\ ~run[o].seen.deleting =>
    /\ cache[o].deleting => guest[o].deleting
    /\ run[o].seen.fin => run[o].fin /\ Held(o) /\ CacheHeld(o)

\* What each step of a reconcile goes by.
Phases(o) ==
  /\ run[o].pc \in {"lookup", "apply", "get"} =>
       run[o].seen.fin /\ ~run[o].seen.deleting
  /\ run[o].pc \in {"lookup", "apply"} => run[o].state = "PENDING"
  /\ run[o].pc = "get" => run[o].state = run[o].seen.state
  /\ run[o].pc = "delete" => run[o].seen.deleting /\ run[o].fin
  /\ run[o].pc = "patch" /\ run[o].seen.deleting => run[o].seen.fin
  /\ run[o].pc = "patch" /\ ~run[o].seen.fin /\ run[o].fin =>
       run[o].state = run[o].seen.state

\* The child that answers for a copy: held, in the cache as well, and not
\* about to be released.
Keeper(o) == Held(o) /\ CacheHeld(o) /\ ~Releasing(o)

CopyAnswered ==
  \A h \in Name : Live(host[h]) => \E o \in Obj : HostName[o] = h /\ Keeper(o)

ChildInv(o) ==
  /\ CacheBehind(o)
  /\ CacheDeleting(o)
  /\ SeenDeleting(o)
  /\ SeenLive(o)
  /\ Phases(o)

MirrorInv ==
  /\ TypeOK
  /\ \A o \in Obj : ChildInv(o)
  /\ CopyAnswered

(***************************************************************************)
(* For ReadyHasCopy: a copy being deleted belongs to no live child, and a  *)
(* reconcile about to report READY has a live copy.                        *)
(***************************************************************************)
CopyLeaving(o) ==
  host[HostName[o]].deleting =>
    /\ ~Live(guest[o]) /\ ~Live(cache[o])
    /\ run[o].pc \in {"idle", "delete", "patch"}

Reporting(o) ==
  run[o].pc = "patch" /\ ~run[o].seen.deleting
    /\ run[o].state = "READY" /\ run[o].seen.state # "READY"
  => run[o].seen.fin /\ Live(host[HostName[o]])

ReadyChild(o) ==
  /\ CopyLeaving(o)
  /\ Reporting(o)
  /\ Ready(o) => Live(host[HostName[o]])

ReadyInv ==
  OwnCopies /\ "recreate" \notin Faults => \A o \in Obj : ReadyChild(o)
=============================================================================

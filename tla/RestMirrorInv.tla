---------------------------- MODULE RestMirrorInv ----------------------------
(***************************************************************************)
(* The inductive invariant behind the safety of RestMirror.  What a stale  *)
(* cache and a reconcile in progress may be wrong about is as in           *)
(* ChildMirrorInv; new is what is on its way between the operators.        *)
(***************************************************************************)
EXTENDS RestMirror, ChildMirrorInv

\* Nothing is on the host, or on its way, but for a child that names it.
Named(h) == \E o \in Obj : HostName[o] = h

Addresses ==
  /\ \A h \in Name : host[h].here \/ call[h].pc # "idle" => Named(h)
  /\ \A m \in late : m.op \in Network /\ Named(m.to)

\* An answer is there while it is waited for; no reconcile applies.
AnswerTaken(o) ==
  /\ run[o].pc # "apply"
  /\ answer[o] = "written" => run[o].pc = "patch"
  /\ answer[o] \in Code => run[o].pc \in {"lookup", "delete"}

\* The host has confirmed the deletion of o's copy, and o is about to be let go.
Confirmed(o) == run[o].pc = "delete" /\ answer[o] = "2xx"

RestAnswered ==
  \A h \in Name : Live(host[h]) =>
    h \in strays \/ \E o \in Obj : HostName[o] = h /\ Keeper(o) /\ ~Confirmed(o)

(***************************************************************************)
(* For ReadyOverRest: where users are not hasty a child without finalizer  *)
(* starts afresh, a state on its way to a live child is that of a copy     *)
(* which is still live, and no reconcile reports READY by itself.          *)
(***************************************************************************)
Informing(h) ==
  \/ call[h].pc = "sent"
  \/ \E m \in late : m.op = "callback" /\ m.to = h

Fresh(o) ==
  Live(guest[o]) /\ ~guest[o].fin =>
    /\ ~host[HostName[o]].here /\ ~Informing(HostName[o])
    /\ \A m \in late : m.op = "POST" => m.to # HostName[o]

Silent(o) == run[o].pc # "idle" /\ run[o].state = "READY" => run[o].seen.state = "READY"

Backed(o) ==
  Live(guest[o]) /\ (Informing(HostName[o]) \/ Ready(o)) => Live(host[HostName[o]])

RestReady ==
  OwnCopies /\ "recreate" \notin Faults /\ "DELETE" \notin Network =>
    \A o \in Obj : Fresh(o) /\ Silent(o) /\ Backed(o)

RestInv ==
  /\ RestTypeOK
  /\ Addresses
  /\ \A o \in Obj : ChildInv(o) /\ AnswerTaken(o)
  /\ RestAnswered
  /\ RestReady
=============================================================================

-------------------------- MODULE RestFederationInv --------------------------
(***************************************************************************)
(* The inductive invariant behind the safety of RestFederation: in which   *)
(* order the versions of the guest's CR follow one another, although users *)
(* may create it again while the cache still has the old one, and what a   *)
(* reconcile that works on an old version is about to write.               *)
(***************************************************************************)
EXTENDS RestFederation

\* The versions of the CR, from the cached one to the current one.
Versions == {cache, cr} \cup {log[i] : i \in 1 .. Len(log)}

(***************************************************************************)
(* The versions since the cached one tell one of two stories.  Either the  *)
(* CR gets its finalizer and then its deletion mark, and keeps both; or it *)
(* loses them, and at most comes back without: only a reconcile that saw   *)
(* the mark takes the finalizer, only one that saw no finalizer sets it.   *)
(***************************************************************************)
Growing(v, w) == (v.fin => w.fin) /\ (v.deleting => w.deleting)

Leaving(v, w) ==
  /\ v.fin => v.deleting
  /\ w.fin => w.deleting
  /\ w.deleting => v.deleting

Precedes(grows, v, w) == IF grows THEN Growing(v, w) ELSE Leaving(v, w)

InOrder(grows, c, l, last) ==
  /\ Precedes(grows, c, c)
  /\ \A i \in 1 .. Len(l) : Precedes(grows, c, l[i])
  /\ \A i, j \in 1 .. Len(l) : i < j => Precedes(grows, l[i], l[j])
  /\ IF l = <<>> THEN c = last ELSE l[Len(l)] = last

Story(grows) ==
  /\ InOrder(grows, cache, log, cr)
  /\ run.pc # "idle" => Precedes(grows, run.seen, cache)

Sound(f) ==
  /\ f.deleting => f.fin
  /\ f.fin => f.here
  /\ ~f.fin => f.state = "" /\ ~f.id
  /\ f.id => f.state # ""

VersionsSound == \A f \in Versions : Sound(f)

\* The partner holds a federation for the guest that it is not to delete.
Ours(p) == p \in Partner /\ host[p].of = "us" /\ ~host[p].deleting

\* A version whose reconcile asks the partner for a federation.
Creating(f) == f.fin /\ ~f.deleting /\ f.state = ""

\* Where the context id is known already, such a reconcile meets a conflict.
NoSecond ==
  cr.id /\ (\E f \in Versions \cup (IF run.pc = "idle" THEN {} ELSE {run.seen}) : Creating(f))
    => Ours(first)

\* What the reconcile that is under way is about to patch.
Accepting == run.new.state = "AVAILABLE" /\ run.seen.state # "AVAILABLE"

RunInv ==
  run.pc # "idle" =>
    /\ Sound(run.seen) /\ run.seen.here
    /\ run.new.here = run.seen.here /\ run.new.deleting = run.seen.deleting
    /\ run.op = "DELETE" <=> run.seen.deleting
    /\ run.pc = "call" => run.op # "none"
    /\ ~run.seen.deleting => run.new.fin
    /\ run.new.state # run.seen.state => run.seen.fin /\ ~run.seen.deleting /\ run.new.state # ""
    /\ run.new.id # run.seen.id => Accepting
    /\ run.op \in {"RENEW", "INFO"} => run.seen.fin
    /\ run.op = "POST" => Creating(run.seen) /\ run.to = first /\ first # "none"
    /\ Accepting => /\ run.pc # "call" /\ run.op = "POST" /\ run.new.id
                    /\ Ours(run.to) /\ ~cr.id

RestFedInv ==
  /\ TypeOK
  /\ \E grows \in BOOLEAN : Story(grows)
  /\ VersionsSound /\ NoSecond /\ RunInv /\ Backed
=============================================================================

---------------------------- MODULE FederationInv ----------------------------
(***************************************************************************)
(* The inductive invariant behind the safety of Federation: how far the    *)
(* operators' caches may lag behind the CRs, what the versions of a CR     *)
(* that are still on their way have in common, and what the guest may      *)
(* conclude of the host.                                                   *)
(***************************************************************************)
EXTENDS Federation

\* The versions of the CR of side s, from the cached one to the current one.
Versions(s) == {cache[s], cr[s]} \cup {log[s][i] : i \in 1 .. Len(log[s])}

(***************************************************************************)
(* What an older version v of a CR and a newer one w have in common.       *)
(***************************************************************************)

\* The host's operator never takes back what it has written of a federation.
HostGrows(v, w) ==
  /\ v.fin => w.fin
  /\ v.id => w.id
  /\ v.policy = "set" => w.policy = "set"
  /\ v.id /\ v.renewal = 0 => w.renewal = 0

Grows(s, v, w) ==
  /\ v.deleting => w.deleting
  /\ s = "host" => HostGrows(v, w)

\* A CR that is gone does not come back while the operator remembers it.
Follows(s, v, w, last) ==
  /\ v.here /\ w.here => Grows(s, v, w)
  /\ v.here /\ ~w.here => ~last.here

InOrder(s, c, l, last) ==
  /\ Follows(s, c, last, last)
  /\ \A i \in 1 .. Len(l) : Follows(s, c, l[i], last) /\ Follows(s, l[i], last, last)
  /\ \A i, j \in 1 .. Len(l) : i < j => Follows(s, l[i], l[j], last)
  /\ IF l = <<>> THEN c = last ELSE l[Len(l)] = last

Chains == \A s \in Side : InOrder(s, cache[s], log[s], cr[s])

(***************************************************************************)
(* A version of the host's CR by itself.                                   *)
(***************************************************************************)
Dateless(f) == f.expiry = 0 /\ f.renewal = 0

\* Before the renewal there is an expiry date, after it there need not be one:
\* a reconcile that takes a federation for expired may take the date away that
\* the orchestrator has just written.
Dated(f) == f.renewal # 0 => f.renewal = InitialDate + Lead /\ f.expiry # 0

HostSound(f) ==
  /\ ~f.here => f = NoFed
  /\ f.fin <=> f.policy # ""
  /\ f.id <=> f.state # ""
  /\ f.state # "NOT_AVAILABLE"
  /\ f.id => f.fin /\ Dated(f)
  /\ ~f.id => Dateless(f) /\ f.policy # "set"
  /\ f.state = "LOCKED" => f.policy = "set"

\* The host's operator is one stage ahead of its cache at most: it has the
\* policy set, or fails at it, only when it has seen the context id, and
\* looks at the dates only when it has seen the policy set.
Lags(c, f) ==
  f.here =>
    /\ f.policy = "set" \/ f.state \in {"FAILED", "LOCKED"} => c.id
    /\ f.state = "LOCKED" \/ (f.id /\ f.renewal = 0) => c.id /\ c.policy = "set"

HostInv ==
  /\ \A f \in Versions("host") : HostSound(f) /\ f.expiry <= granted
  /\ Lags(cache["host"], cr["host"])

(***************************************************************************)
(* The host's CR goes only after the guest's has been deleted, and stays   *)
(* away.                                                                   *)
(***************************************************************************)
GuestOut == \A f \in Versions("guest") : ~Live(f)

Ending ==
  \/ cr["host"].deleting
  \/ ~cr["host"].here /\ \E f \in Versions("host") : f.here

\* The timer wakes the host's operator in time for the latest expiry date.
TimerInv == timer <= granted + 1

\* What the guest's patch is computed from tells no other story of the CR.
RunInv ==
  /\ run.new.here = run.seen.here
  /\ run.new.deleting = run.seen.deleting

GuestSound == \A f \in Versions("guest") : f.deleting => f.here

EndInv == Ending => GuestOut

Claims(f) == f.state = "AVAILABLE"

\* The guest calls the federation AVAILABLE, or is about to, only when the
\* host knows its context id.
ClaimInv ==
  (\E f \in Versions("guest") \cup {run.new} : Claims(f)) =>
    (cr["host"].here /\ cr["host"].id) \/ GuestOut

FedInv ==
  /\ TypeOK /\ Chains
  /\ HostInv /\ GuestSound /\ EndInv
  /\ TimerInv /\ RunInv /\ ClaimInv
=============================================================================

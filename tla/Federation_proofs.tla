------------------------- MODULE Federation_proofs -------------------------
(***************************************************************************)
(* That FedInv is an inductive invariant of Federation, for all dates, all *)
(* choices of zones, any lag of the caches and any choice of the events,   *)
(* and what follows from it.                                               *)
(*                                                                         *)
(* Lemmas about the order of versions and about the records come first,    *)
(* then one lemma for each way in which a step may change the state (it    *)
(* writes to the host's CR, to the guest's, to neither; a cache receives a *)
(* version or is filled again), then one for each action, which shows that *)
(* it is of such a way.                                                    *)
(***************************************************************************)
EXTENDS FederationInv, SequenceTheorems, TLAPS

(***************************************************************************)
(* The order of the versions of a CR.                                      *)
(***************************************************************************)
\* Growing is reflexive and transitive.
LEMMA GrowsOn ==
  ASSUME NEW s, NEW u, NEW v, NEW w
  PROVE  /\ Grows(s, v, v)
         /\ Grows(s, u, v) /\ Grows(s, v, w) => Grows(s, u, w)
  BY DEF Grows, HostGrows

LEMMA FollowsItself ==
  ASSUME NEW s, NEW v, NEW last
  PROVE  Follows(s, v, v, last)
  BY GrowsOn DEF Follows

\* A new version goes behind the others when it follows the last of them,
\* or comes after versions that are all gone.
LEMMA OrderAppend ==
  ASSUME NEW s, NEW c \in Fed, NEW l \in Seq(Fed), NEW last \in Fed, NEW f \in Fed,
         InOrder(s, c, l, last),
         last.here /\ f.here => Grows(s, last, f),
         f.here /\ ~last.here => ~c.here /\ \A i \in 1 .. Len(l) : ~l[i].here
  PROVE  InOrder(s, c, Append(l, f), f)
<1> DEFINE k == Append(l, f)
<1>1. /\ k \in Seq(Fed) /\ k # <<>> /\ Len(k) = Len(l) + 1 /\ Len(l) \in Nat
      /\ \A i \in 1 .. Len(l) : k[i] = l[i]
      /\ k[Len(k)] = f
  BY AppendProperties, LenProperties
<1>2. ASSUME NEW v, Follows(s, v, last, last), f.here /\ ~last.here => ~v.here
      PROVE  Follows(s, v, f, f)
  BY <1>2, GrowsOn DEF Follows
<1>3. ASSUME NEW v, NEW w, Follows(s, v, w, last), Follows(s, v, last, last),
             f.here /\ ~last.here => ~v.here
      PROVE  Follows(s, v, w, f)
  BY <1>3 DEF Follows
<1>4. Follows(s, c, f, f)
  BY <1>2 DEF InOrder
<1>5. ASSUME NEW i \in 1 .. Len(k)
      PROVE  Follows(s, c, k[i], f) /\ Follows(s, k[i], f, f)
  <2>1. CASE i = Len(k)
    BY <2>1, <1>1, <1>4, FollowsItself
  <2>2. CASE i # Len(k)
    <3>1. i \in 1 .. Len(l) /\ k[i] = l[i]
      BY <2>2, <1>1
    <3>2. Follows(s, c, l[i], last) /\ Follows(s, l[i], last, last) /\ Follows(s, c, last, last)
      BY <3>1 DEF InOrder
    <3> QED
      BY <3>1, <3>2, <1>2, <1>3
  <2> QED
    BY <2>1, <2>2
<1>6. ASSUME NEW i \in 1 .. Len(k), NEW j \in 1 .. Len(k), i < j
      PROVE  Follows(s, k[i], k[j], f)
  <2>1. CASE j = Len(k)
    BY <2>1, <1>1, <1>5
  <2>2. CASE j # Len(k)
    <3>1. i \in 1 .. Len(l) /\ j \in 1 .. Len(l) /\ k[i] = l[i] /\ k[j] = l[j]
      BY <2>2, <1>1, <1>6
    <3>2. Follows(s, l[i], l[j], last) /\ Follows(s, l[i], last, last)
      BY <3>1, <1>6 DEF InOrder
    <3> QED
      BY <3>1, <3>2, <1>3
  <2> QED
    BY <2>1, <2>2
<1> HIDE DEF k
<1>7. InOrder(s, c, k, f)
  BY <1>1, <1>4, <1>5, <1>6 DEF InOrder
<1> QED
  BY <1>7 DEF k

\* What is first on its way may be taken off.
LEMMA OrderDeliver ==
  ASSUME NEW s, NEW c \in Fed, NEW l \in Seq(Fed), NEW last \in Fed,
         InOrder(s, c, l, last), l # <<>>
  PROVE  /\ InOrder(s, Head(l), Tail(l), last)
         /\ Head(l) = l[1] /\ 1 \in 1 .. Len(l)
         /\ \A i \in 1 .. Len(Tail(l)) : i + 1 \in 1 .. Len(l) /\ Tail(l)[i] = l[i + 1]
<1> DEFINE k == Tail(l)
           d == Head(l)
<1>1. /\ Len(l) \in Nat \ {0} /\ Len(k) = Len(l) - 1 /\ k \in Seq(Fed) /\ d = l[1]
      /\ \A i \in 1 .. Len(k) : k[i] = l[i + 1]
  BY HeadTailProperties, EmptySeq
<1>2. k = <<>> <=> Len(k) = 0
  BY <1>1, EmptySeq
<1> HIDE DEF k, d
<1>3. \A i \in 1 .. Len(k) : i + 1 \in 1 .. Len(l) /\ 1 < i + 1
  BY <1>1
<1>4. Follows(s, d, last, last)
  BY <1>1 DEF InOrder
<1>5. \A i \in 1 .. Len(k) : Follows(s, d, k[i], last) /\ Follows(s, k[i], last, last)
  BY <1>1, <1>3 DEF InOrder
<1>6. ASSUME NEW i \in 1 .. Len(k), NEW j \in 1 .. Len(k), i < j
      PROVE  Follows(s, k[i], k[j], last)
  <2>1. i + 1 \in 1 .. Len(l) /\ j + 1 \in 1 .. Len(l) /\ i + 1 < j + 1
    BY <1>1, <1>6
  <2> QED
    BY <2>1, <1>1 DEF InOrder
<1>7. IF k = <<>> THEN d = last ELSE k[Len(k)] = last
  <2>1. l[Len(l)] = last
    BY DEF InOrder
  <2> QED
    BY <2>1, <1>1, <1>2
<1>8. InOrder(s, d, k, last)
  BY <1>4, <1>5, <1>6, <1>7 DEF InOrder
<1> QED
  BY <1>1, <1>3, <1>8 DEF k, d

\* A single version is in order.
LEMMA OrderAlone ==
  ASSUME NEW s, NEW c
  PROVE  InOrder(s, c, <<>>, c)
<1>1. Len(<<>>) = 0
  BY EmptySeq
<1> QED
  BY <1>1, FollowsItself DEF InOrder

\* Every version lies between the cached one and the current one.
LEMMA VersionsFollow ==
  ASSUME NEW s, InOrder(s, cache[s], log[s], cr[s]), NEW v \in Versions(s)
  PROVE  Follows(s, v, cr[s], cr[s]) /\ Follows(s, cache[s], v, cr[s])
  BY FollowsItself DEF Versions, InOrder

(***************************************************************************)
(* The records.                                                            *)
(***************************************************************************)
LEMMA Zeros == 0 \in Date /\ "" \in State /\ 0 \in Zones \cup {0}
  BY FederationAssumption DEF State, Date

LEMMA DatesAreNumbers == \A d \in Date : d \in Nat
  BY FederationAssumption DEF Date

LEMMA Gone == NoFed \in Fed /\ ~NoFed.here /\ ~NoFed.deleting /\ ~Claims(NoFed)
<1>1. NoFed \in Fed
  BY Zeros, Zenon DEF Fed, NoFed
<1>2. ~NoFed.here /\ ~NoFed.deleting /\ ~Claims(NoFed)
  BY SMT DEF NoFed, Claims
<1> QED
  BY <1>1, <1>2

LEMMA Created ==
  ASSUME NEW f, f = NewFed
  PROVE  /\ f \in Fed /\ f.here = TRUE /\ f.deleting = FALSE /\ f.fin = FALSE
         /\ f.policy = "" /\ f.state = "" /\ f.id = FALSE
         /\ f.expiry = 0 /\ f.renewal = 0
<1>1. NewFed = [NoFed EXCEPT !.here = TRUE]
  BY DEF NewFed
<1>2. NoFed \in Fed
  BY Gone
<1>3. f \in Fed
  BY <1>1, <1>2 DEF Fed
<1>4. f.here = TRUE
  BY <1>1, <1>2 DEF Fed
<1>5. f.deleting = NoFed.deleting /\ f.fin = NoFed.fin /\ f.policy = NoFed.policy
      /\ f.state = NoFed.state /\ f.id = NoFed.id /\ f.expiry = NoFed.expiry
      /\ f.renewal = NoFed.renewal
  BY <1>1, <1>2 DEF Fed
<1>6. NoFed.deleting = FALSE /\ NoFed.fin = FALSE /\ NoFed.policy = "" /\ NoFed.state = ""
      /\ NoFed.id = FALSE /\ NoFed.expiry = 0 /\ NoFed.renewal = 0
  BY SMT DEF NoFed
<1> QED
  BY <1>3, <1>4, <1>5, <1>6

LEMMA NoFedSound == HostSound(NoFed)
  BY SMT DEF HostSound, NoFed, Dateless

LEMMA NewFedSound == HostSound(NewFed)
  BY Created DEF HostSound, Dateless

LEMMA VersionTyped ==
  ASSUME TypeOK, NEW s \in Side, NEW v \in Versions(s)
  PROVE  v \in Fed
<1>1. cache[s] \in Fed /\ cr[s] \in Fed /\ log[s] \in Seq(Fed)
  BY DEF TypeOK
<1>2. \A i \in 1 .. Len(log[s]) : log[s][i] \in Fed
  BY <1>1
<1> QED
  BY <1>1, <1>2 DEF Versions

(***************************************************************************)
(* What is written to a side, and what its cache is brought.               *)
(***************************************************************************)
\* What an update of a CR does to the API server and to the cache's log.
LEMMA Written ==
  ASSUME TypeOK, NEW s \in Side, NEW f \in Fed, Write(s, f)
  PROVE  /\ cr' \in [Side -> Fed] /\ cr'[s] = f
         /\ log' \in [Side -> Seq(Fed)] /\ \A t \in Side : Len(log'[t]) <= MaxLag
         /\ \A t \in Side \ {s} : cr'[t] = cr[t] /\ log'[t] = log[t]
         /\ IF f = cr[s] THEN log'[s] = log[s] ELSE log'[s] = Append(log[s], f)
         /\ granted' \in Date /\ granted <= granted' /\ granted' \in Nat
         /\ IF s = "host" THEN f.expiry <= granted' ELSE granted' = granted
<1>1. cr \in [Side -> Fed] /\ log \in [Side -> Seq(Fed)] /\ \A t \in Side : Len(log[t]) <= MaxLag
  BY DEF TypeOK
<1>2. cr' = [cr EXCEPT ![s] = f]
  BY DEF Write
<1>3. cr' \in [Side -> Fed] /\ cr'[s] = f /\ \A t \in Side \ {s} : cr'[t] = cr[t]
  BY <1>1, <1>2
<1>4. /\ granted' \in Date /\ granted <= granted' /\ granted' \in Nat
      /\ IF s = "host" THEN f.expiry <= granted' ELSE granted' = granted
  <2>1. granted' = IF s = "host" /\ f.expiry > granted THEN f.expiry ELSE granted
    BY DEF Write
  <2>2. granted \in Date /\ f.expiry \in Date
    BY DEF TypeOK, Fed
  <2>3. granted \in Nat /\ f.expiry \in Nat
    BY <2>2, DatesAreNumbers
  <2> QED
    BY <2>1, <2>2, <2>3
<1>5. CASE f = cr[s]
  <2>1. log' = log
    BY <1>5 DEF Write
  <2> QED
    BY <2>1, <1>1, <1>3, <1>5, <1>4
<1>6. CASE f # cr[s]
  <2>1. log' = [log EXCEPT ![s] = Append(log[s], f)] /\ Len(log[s]) < MaxLag
    BY <1>6 DEF Write
  <2>2. Append(log[s], f) \in Seq(Fed) /\ Len(Append(log[s], f)) = Len(log[s]) + 1
        /\ Len(log[s]) \in Nat
    BY <1>1, AppendProperties, LenProperties
  <2>3. Len(Append(log[s], f)) <= MaxLag
    BY <2>1, <2>2, FederationAssumption
  <2>4. /\ log' \in [Side -> Seq(Fed)] /\ log'[s] = Append(log[s], f)
        /\ \A t \in Side \ {s} : log'[t] = log[t]
    BY <2>1, <2>2, <1>1
  <2>5. \A t \in Side : Len(log'[t]) <= MaxLag
    BY <2>3, <2>4, <1>1
  <2> QED
    BY <2>4, <2>5, <1>3, <1>6, <1>4
<1> QED
  BY <1>5, <1>6

\* A new version that continues the history of the CR.
Continues(s, f) ==
  /\ cr[s].here /\ f.here => Grows(s, cr[s], f)
  /\ f.here /\ ~cr[s].here => \A v \in Versions(s) : ~v.here

\* An update that continues the history keeps the versions in order.
LEMMA OrderWritten ==
  ASSUME TypeOK, Chains, NEW s \in Side, NEW f \in Fed, Write(s, f), Continues(s, f),
         UNCHANGED cache
  PROVE  Chains' /\ Versions(s)' \subseteq Versions(s) \cup {f}
         /\ \A t \in Side \ {s} : Versions(t)' = Versions(t)
<1>1. /\ cr \in [Side -> Fed] /\ log \in [Side -> Seq(Fed)] /\ cache \in [Side -> Fed]
  BY DEF TypeOK
<1>2. /\ cr'[s] = f /\ cache' = cache
      /\ \A t \in Side \ {s} : cr'[t] = cr[t] /\ log'[t] = log[t]
      /\ IF f = cr[s] THEN log'[s] = log[s] ELSE log'[s] = Append(log[s], f)
  BY Written
<1>3. \A t \in Side \ {s} : Versions(t)' = Versions(t)
  BY <1>2 DEF Versions
<1>4. \A t \in Side \ {s} : InOrder(t, cache'[t], log'[t], cr'[t])
  BY <1>2 DEF Chains
<1>5. InOrder(s, cache[s], log[s], cr[s])
  BY DEF Chains
<1>6. InOrder(s, cache'[s], log'[s], cr'[s])
  <2>1. CASE f = cr[s]
    BY <2>1, <1>2, <1>5
  <2>2. CASE f # cr[s]
    <3>1. log'[s] = Append(log[s], f)
      BY <2>2, <1>2
    <3>2. f.here /\ ~cr[s].here => ~cache[s].here /\ \A i \in 1 .. Len(log[s]) : ~log[s][i].here
      BY DEF Continues, Versions
    <3>3. cr[s].here /\ f.here => Grows(s, cr[s], f)
      BY DEF Continues
    <3>4. cache[s] \in Fed /\ log[s] \in Seq(Fed) /\ cr[s] \in Fed
      BY <1>1
    <3>5. InOrder(s, cache[s], Append(log[s], f), f)
      BY <3>2, <3>3, <3>4, <1>5, OrderAppend
    <3> QED
      BY <3>1, <3>5, <1>2
  <2> QED
    BY <2>1, <2>2
<1>7. Chains'
  BY <1>4, <1>6 DEF Chains
<1>8. Versions(s)' \subseteq Versions(s) \cup {f}
  <2>1. CASE f = cr[s]
    BY <2>1, <1>2 DEF Versions
  <2>2. CASE f # cr[s]
    <3>1. log[s] \in Seq(Fed)
      BY <1>1
    <3>2. \A i \in 1 .. Len(log'[s]) : log'[s][i] = f \/ (i \in 1 .. Len(log[s]) /\ log'[s][i] = log[s][i])
      BY <2>2, <1>2, <3>1, AppendProperties, LenProperties
    <3>3. Versions(s)' = {cache'[s], cr'[s]} \cup {log'[s][i] : i \in 1 .. Len(log'[s])}
      BY DEF Versions
    <3> QED
      BY <3>2, <3>3, <1>2 DEF Versions
  <2> QED
    BY <2>1, <2>2
<1> QED
  BY <1>3, <1>7, <1>8

\* So does a delivery, and it adds no version.
LEMMA OrderDelivered ==
  ASSUME TypeOK, Chains, NEW s \in Side, Deliver(s)
  PROVE  /\ Chains' /\ cache'[s] \in Versions(s)
         /\ \A t \in Side : Versions(t)' \subseteq Versions(t)
         /\ \A t \in Side \ {s} : cache'[t] = cache[t]
         /\ cache' \in [Side -> Fed] /\ log' \in [Side -> Seq(Fed)]
         /\ \A t \in Side : Len(log'[t]) <= MaxLag
<1> DEFINE l == log[s]
<1>1. /\ cr \in [Side -> Fed] /\ log \in [Side -> Seq(Fed)] /\ cache \in [Side -> Fed]
      /\ \A t \in Side : Len(log[t]) <= MaxLag
  BY DEF TypeOK
<1>2. /\ l # <<>> /\ cr' = cr
      /\ cache' = [cache EXCEPT ![s] = Head(l)] /\ log' = [log EXCEPT ![s] = Tail(l)]
  BY DEF Deliver
<1>3. /\ l \in Seq(Fed) /\ Head(l) \in Fed /\ Tail(l) \in Seq(Fed)
      /\ Len(Tail(l)) = Len(l) - 1 /\ Len(l) \in Nat
  BY <1>1, <1>2, HeadTailProperties, LenProperties
<1>4. /\ cache' \in [Side -> Fed] /\ log' \in [Side -> Seq(Fed)]
      /\ cache'[s] = Head(l) /\ log'[s] = Tail(l)
      /\ \A t \in Side \ {s} : cache'[t] = cache[t] /\ log'[t] = log[t]
  BY <1>1, <1>2, <1>3
<1>5. \A t \in Side : Len(log'[t]) <= MaxLag
  <2>1. Len(l) <= MaxLag
    BY <1>1
  <2>2. Len(log'[s]) <= MaxLag
    BY <2>1, <1>3, <1>4, FederationAssumption
  <2> QED
    BY <2>2, <1>1, <1>4
<1>6. InOrder(s, cache[s], l, cr[s]) /\ cache[s] \in Fed /\ cr[s] \in Fed
  BY <1>1 DEF Chains
<1>7. /\ InOrder(s, Head(l), Tail(l), cr[s])
      /\ Head(l) = l[1] /\ 1 \in 1 .. Len(l)
      /\ \A i \in 1 .. Len(Tail(l)) : i + 1 \in 1 .. Len(l) /\ Tail(l)[i] = l[i + 1]
  BY <1>2, <1>3, <1>6, OrderDeliver
<1>8. Chains'
  BY <1>2, <1>4, <1>7 DEF Chains
<1>9. Versions(s)' \subseteq Versions(s)
  <2>1. Versions(s)' = {cache'[s], cr'[s]} \cup {log'[s][i] : i \in 1 .. Len(log'[s])}
    BY DEF Versions
  <2> QED
    BY <2>1, <1>2, <1>4, <1>7 DEF Versions
<1>10. \A t \in Side \ {s} : Versions(t)' = Versions(t)
  BY <1>2, <1>4 DEF Versions
<1>11. cache'[s] \in Versions(s)
  BY <1>4, <1>7 DEF Versions
<1>12. \A t \in Side : Versions(t)' \subseteq Versions(t)
  BY <1>9, <1>10
<1> QED
  BY <1>4, <1>5, <1>8, <1>11, <1>12

\* A cache that is filled again holds the current version only.
LEMMA OrderRestarted ==
  ASSUME TypeOK, Chains, NEW s \in Side, UNCHANGED cr,
         cache' = [cache EXCEPT ![s] = cr[s]], log' = [log EXCEPT ![s] = <<>>]
  PROVE  /\ Chains' /\ cache'[s] = cr[s]
         /\ Versions(s)' = {cr[s]}
         /\ \A t \in Side \ {s} : Versions(t)' = Versions(t) /\ cache'[t] = cache[t]
         /\ cache' \in [Side -> Fed] /\ log' \in [Side -> Seq(Fed)]
         /\ \A t \in Side : Len(log'[t]) <= MaxLag
<1>1. /\ cr \in [Side -> Fed] /\ log \in [Side -> Seq(Fed)] /\ cache \in [Side -> Fed]
      /\ \A t \in Side : Len(log[t]) <= MaxLag
  BY DEF TypeOK
<1>2. <<>> \in Seq(Fed) /\ Len(<<>>) = 0
  BY EmptySeq
<1>3. /\ cache' \in [Side -> Fed] /\ log' \in [Side -> Seq(Fed)]
      /\ cache'[s] = cr[s] /\ log'[s] = <<>>
      /\ \A t \in Side \ {s} : cache'[t] = cache[t] /\ log'[t] = log[t]
  BY <1>1, <1>2
<1>4. \A t \in Side : Len(log'[t]) <= MaxLag
  BY <1>1, <1>2, <1>3, FederationAssumption
<1>5. Chains'
  BY <1>3, OrderAlone DEF Chains
<1>6. Versions(s)' = {cr[s]}
  <2>1. Versions(s)' = {cache'[s], cr'[s]} \cup {log'[s][i] : i \in 1 .. Len(log'[s])}
    BY DEF Versions
  <2> QED
    BY <2>1, <1>2, <1>3
<1>7. \A t \in Side \ {s} : Versions(t)' = Versions(t)
  BY <1>3 DEF Versions
<1> QED
  BY <1>3, <1>4, <1>5, <1>6, <1>7

(***************************************************************************)
(* Merge patches.                                                          *)
(***************************************************************************)
Merge(f, seen, new) == [x \in DOMAIN f |-> IF new[x] # seen[x] THEN new[x] ELSE f[x]]

Pick(f, seen, new) == IF new # seen THEN new ELSE f

\* m is what a patch makes of h: what tells new from seen, over h.
Patch(m, h, seen, new) ==
  /\ m.here = Pick(h.here, seen.here, new.here)
  /\ m.deleting = Pick(h.deleting, seen.deleting, new.deleting)
  /\ m.fin = Pick(h.fin, seen.fin, new.fin)
  /\ m.policy = Pick(h.policy, seen.policy, new.policy)
  /\ m.state = Pick(h.state, seen.state, new.state)
  /\ m.id = Pick(h.id, seen.id, new.id)
  /\ m.expiry = Pick(h.expiry, seen.expiry, new.expiry)
  /\ m.renewal = Pick(h.renewal, seen.renewal, new.renewal)

LEMMA Merging ==
  ASSUME NEW f \in Fed, NEW seen \in Fed, NEW new \in Fed, NEW m, m = Merge(f, seen, new)
  PROVE  m \in Fed /\ Patch(m, f, seen, new)
<1>1. m \in Fed
  BY DEF Merge, Fed
<1>2. Patch(m, f, seen, new)
  BY DEF Merge, Fed, Pick, Patch
<1> QED
  BY <1>1, <1>2

LEMMA MergeOfItself ==
  ASSUME NEW f \in Fed, NEW seen \in Fed
  PROVE  Merge(f, seen, seen) = f
  BY DEF Merge, Fed

LEMMA MergedIsMerge ==
  ASSUME NEW f, NEW seen, NEW new
  PROVE  /\ f.here => Merged(f, seen, new) = Kept(Merge(f, seen, new))
         /\ ~f.here => Merged(f, seen, new) = f
  BY DEF Merged, Merge

LEMMA Keeping ==
  ASSUME NEW f
  PROVE  \/ Kept(f) = f /\ (f.deleting => f.fin)
         \/ Kept(f) = NoFed /\ f.deleting /\ ~f.fin
  BY DEF Kept

(***************************************************************************)
(* The history of the host's CR.                                           *)
(***************************************************************************)
LEMMA Dates ==
  ASSUME NEW f \in Fed
  PROVE  f.expiry \in Nat /\ f.renewal \in Nat
<1>1. f.expiry \in Date /\ f.renewal \in Date
  BY DEF Fed
<1> QED
  BY <1>1, DatesAreNumbers

\* c is a cached version of the host's CR and h the current one.
Behind(c, h) ==
  /\ c \in Fed /\ h \in Fed /\ HostSound(c) /\ HostSound(h) /\ Lags(c, h)
  /\ Follows("host", c, h, h)

\* The cached version of the host's CR is behind the current one.
LEMMA HostBehind ==
  ASSUME FedInv
  PROVE  /\ Behind(H, cr["host"])
         /\ H \in Versions("host") /\ cr["host"] \in Versions("host")
<1>1. H \in Fed /\ cr["host"] \in Fed
  BY DEF FedInv, TypeOK, H, Side
<1>2. H \in Versions("host") /\ cr["host"] \in Versions("host")
  BY DEF H, Versions
<1>3. HostSound(H) /\ HostSound(cr["host"]) /\ Lags(H, cr["host"])
  BY <1>2 DEF FedInv, HostInv, H
<1>4. Follows("host", H, cr["host"], cr["host"])
  BY DEF FedInv, Chains, InOrder, H, Side
<1> QED
  BY <1>1, <1>2, <1>3, <1>4 DEF Behind

\* What may be written to the host's CR.
HostMay(f) ==
  /\ Continues("host", f) /\ HostSound(f) /\ Lags(H, f)
  /\ f.deleting \/ (cr["host"].here /\ ~f.here) => GuestOut
  /\ f.here /\ ~cr["host"].here => ~GuestOut

\* f leaves a locked federation locked.
KeepsLock(f) == cr["host"].state = "LOCKED" /\ f.here => f.state = "LOCKED"

\* The step does not unlock the federation.
HostGoesOn == KeepsLock(cr'["host"])

\* What such an update does to the invariant.
LEMMA HostWritten ==
  ASSUME FedInv, NEW f \in Fed, Write("host", f), HostMay(f), UNCHANGED cache
  PROVE  /\ Chains' /\ HostInv' /\ GuestSound' /\ EndInv'
         /\ KeepsLock(f) => HostGoesOn
         /\ GuestOut' = GuestOut /\ Versions("guest")' = Versions("guest")
         /\ cr["host"].here /\ cr["host"].id => (cr'["host"].here /\ cr'["host"].id) \/ GuestOut
<1>1. TypeOK /\ Chains /\ HostInv /\ GuestSound /\ EndInv
  BY DEF FedInv
<1>2. "host" \in Side /\ "guest" \in Side \ {"host"}
  BY DEF Side
<1>3. /\ cr'["host"] = f /\ cache' = cache
      /\ granted <= granted' /\ f.expiry <= granted' /\ granted' \in Nat
  BY <1>1, <1>2, Written
<1>4. /\ Chains' /\ Versions("host")' \subseteq Versions("host") \cup {f}
      /\ Versions("guest")' = Versions("guest")
  BY <1>1, <1>2, OrderWritten DEF HostMay
<1>5. GuestOut' = GuestOut /\ GuestSound'
  BY <1>1, <1>4 DEF GuestOut, GuestSound
<1>6. HostInv'
  <2>1. \A v \in Versions("host") : v.expiry <= granted'
    <3> SUFFICES ASSUME NEW v \in Versions("host") PROVE v.expiry <= granted'
      OBVIOUS
    <3>1. v.expiry <= granted
      BY <1>1 DEF HostInv
    <3>2. v.expiry \in Nat /\ granted \in Nat
      BY <1>1, <1>2, VersionTyped, Dates, DatesAreNumbers DEF TypeOK
    <3> QED
      BY <3>1, <3>2, <1>3
  <2>2. \A v \in Versions("host") : HostSound(v)
    BY <1>1 DEF HostInv
  <2>3. Lags(cache'["host"], cr'["host"])
    BY <1>3 DEF HostMay, H
  <2> QED
    BY <2>1, <2>2, <2>3, <1>3, <1>4 DEF HostInv, HostMay
<1>7. EndInv'
  <2>1. ASSUME Ending' PROVE GuestOut
    <3>1. CASE cr'["host"].deleting
      BY <3>1, <1>3 DEF HostMay
    <3>2. CASE ~cr'["host"].here /\ \E v \in Versions("host")' : v.here
      <4>1. ~f.here /\ \E v \in Versions("host") : v.here
        BY <3>2, <1>3, <1>4
      <4>2. CASE cr["host"].here
        BY <4>1, <4>2 DEF HostMay
      <4>3. CASE ~cr["host"].here
        BY <4>1, <4>3, <1>1 DEF EndInv, Ending
      <4> QED
        BY <4>2, <4>3
    <3> QED
      BY <2>1, <3>1, <3>2 DEF Ending
  <2> QED
    BY <2>1, <1>5 DEF EndInv
<1>8. KeepsLock(f) => HostGoesOn
  BY <1>3 DEF HostGoesOn
<1>9. cr["host"].here /\ cr["host"].id => (cr'["host"].here /\ cr'["host"].id) \/ GuestOut
  BY <1>3 DEF HostMay, Continues, Grows, HostGrows
<1> QED
  BY <1>4, <1>5, <1>6, <1>7, <1>8, <1>9

\* An update that leaves the timer alone does not bring the dates forward.
LEMMA TimerKept ==
  ASSUME FedInv, NEW f \in Fed, Write("host", f), timer' = timer
  PROVE  TimerInv'
<1>1. TypeOK /\ timer <= granted + 1
  BY DEF FedInv, TimerInv
<1>2. granted <= granted' /\ granted' \in Nat
  BY <1>1, Written DEF Side
<1>3. granted \in Nat /\ timer \in Nat
  BY <1>1, DatesAreNumbers DEF TypeOK
<1>4. \A t, g, u \in Nat : t <= g + 1 /\ g <= u => t <= u + 1
  OBVIOUS
<1>5. timer <= granted' + 1
  BY <1>1, <1>2, <1>3, <1>4
<1> QED
  BY <1>5 DEF TimerInv

(***************************************************************************)
(* What the host's reconciler writes.  c is the version that it has seen,  *)
(* h the current one and m what its patch makes of h.                      *)
(***************************************************************************)
MayBe(c, h, m) ==
  /\ Grows("host", h, m) /\ HostSound(m) /\ Lags(c, m)
  /\ h.state = "LOCKED" => m.state = "LOCKED"

\* A patch of the host's operator is an update that may be written when what
\* it makes of the current version is one.
LEMMA HostMerged ==
  ASSUME FedInv, NEW new \in Fed, new.here = H.here, new.deleting = H.deleting,
         ~H.here => new = H,
         NEW f, f = Merged(cr["host"], H, new),
         \A m \in Fed : /\ H.here /\ cr["host"].here
                        /\ Patch(m, cr["host"], H, new) /\ (m.deleting => m.fin)
                        => MayBe(H, cr["host"], m)
  PROVE  f \in Fed /\ HostMay(f) /\ KeepsLock(f)
<1> DEFINE h == cr["host"]
           m == Merge(h, H, new)
<1>1. /\ H \in Fed /\ h \in Fed /\ HostSound(H) /\ HostSound(h) /\ Lags(H, h)
      /\ Follows("host", H, h, h)
  BY HostBehind DEF Behind
<1>2. EndInv
  BY DEF FedInv
<1>3. h.deleting => GuestOut
  BY <1>2 DEF EndInv, Ending
<1>4. CASE ~h.here
  <2>1. f = h
    BY <1>4, MergedIsMerge
  <2>2. h = NoFed
    BY <1>1, <1>4 DEF HostSound
  <2> QED
    BY <2>1, <2>2, <1>1, <1>4, Gone DEF HostMay, Continues, KeepsLock
<1>5. ASSUME h.here, f = NoFed, h.deleting
      PROVE  f \in Fed /\ HostMay(f) /\ KeepsLock(f)
  BY <1>3, <1>5, Gone, NoFedSound DEF HostMay, Continues, Lags, KeepsLock
<1>6. ASSUME h.here, f \in Fed, f.here, f.deleting = h.deleting, MayBe(H, h, f)
      PROVE  f \in Fed /\ HostMay(f) /\ KeepsLock(f)
  BY <1>3, <1>6 DEF HostMay, Continues, MayBe, KeepsLock
<1>7. CASE h.here /\ ~H.here
  <2>1. f = Kept(h)
    BY <1>1, <1>7, MergedIsMerge, MergeOfItself
  <2>2. CASE f = h
    BY <2>2, <1>1, <1>6, <1>7, GrowsOn DEF MayBe
  <2> QED
    BY <2>1, <2>2, <1>5, <1>7, Keeping
<1>8. CASE h.here /\ H.here
  <2>1. m \in Fed /\ Patch(m, h, H, new)
    BY <1>1, Merging
  <2>2. m.here = h.here /\ m.deleting = h.deleting
    BY <2>1 DEF Patch, Pick
  <2>3. f = Kept(m)
    BY <1>8, MergedIsMerge
  <2> HIDE DEF m
  <2>4. CASE f = m /\ (m.deleting => m.fin)
    BY <2>1, <2>2, <2>4, <1>6, <1>8
  <2> QED
    BY <2>2, <2>3, <2>4, <1>5, <1>8, Keeping
<1> QED
  BY <1>4, <1>7, <1>8

LEMMA NothingWritten ==
  ASSUME NEW c, NEW h, NEW m \in Fed, Behind(c, h), c.here, h.here, Patch(m, h, c, c)
  PROVE  MayBe(c, h, m)
<1>1. /\ m.here = h.here /\ m.deleting = h.deleting /\ m.fin = h.fin /\ m.policy = h.policy
      /\ m.state = h.state /\ m.id = h.id /\ m.expiry = h.expiry /\ m.renewal = h.renewal
  BY DEF Patch, Pick
<1>2. HostSound(m)
  BY <1>1 DEF Behind, HostSound, Dated, Dateless
<1>3. Lags(c, m) /\ Grows("host", h, m)
  BY <1>1 DEF Behind, Lags, Grows, HostGrows
<1> QED
  BY <1>1, <1>2, <1>3 DEF MayBe

LEMMA FinalizerRemoved ==
  ASSUME NEW c, NEW h, NEW m \in Fed, Behind(c, h), c.here, h.here, c.deleting,
         NEW new, new = [c EXCEPT !.fin = FALSE],
         Patch(m, h, c, new), m.deleting => m.fin
  PROVE  MayBe(c, h, m)
<1>1. /\ new.here = c.here /\ new.deleting = c.deleting /\ new.fin = FALSE
      /\ new.policy = c.policy /\ new.state = c.state /\ new.id = c.id
      /\ new.expiry = c.expiry /\ new.renewal = c.renewal
  BY DEF Behind, Fed
<1>2. h.deleting
  BY DEF Behind, Follows, Grows
<1>3. m.deleting /\ m.fin
  BY <1>1, <1>2 DEF Patch, Pick
<1>4. c.fin \in BOOLEAN
  BY DEF Behind, Fed
<1>5. c.fin = FALSE
  BY <1>1, <1>3, <1>4 DEF Patch, Pick
<1>6. Patch(m, h, c, c)
  BY <1>1, <1>5 DEF Patch
<1> QED
  BY <1>6, NothingWritten

LEMMA FinalizerAdded ==
  ASSUME NEW c, NEW h, NEW m \in Fed, Behind(c, h), c.here, h.here, ~c.fin,
         NEW new, new = [c EXCEPT !.fin = TRUE, !.policy = "not-set"],
         Patch(m, h, c, new)
  PROVE  MayBe(c, h, m)
<1>1. /\ new.here = c.here /\ new.deleting = c.deleting /\ new.fin = TRUE
      /\ new.policy = "not-set" /\ new.state = c.state /\ new.id = c.id
      /\ new.expiry = c.expiry /\ new.renewal = c.renewal
  BY DEF Behind, Fed
<1>2. c.policy = "" /\ ~c.id /\ c.fin = FALSE
  BY DEF Behind, HostSound, Fed
<1>3. /\ m.here = h.here /\ m.deleting = h.deleting /\ m.fin = TRUE /\ m.policy = "not-set"
      /\ m.state = h.state /\ m.id = h.id /\ m.expiry = h.expiry /\ m.renewal = h.renewal
  BY <1>1, <1>2 DEF Patch, Pick
<1>4. h.policy # "set" /\ h.state # "LOCKED"
  BY <1>2 DEF Behind, Lags
<1>5. HostSound(m)
  BY <1>3, <1>4 DEF Behind, HostSound, Dated, Dateless
<1>6. Lags(c, m) /\ Grows("host", h, m)
  BY <1>2, <1>3, <1>4 DEF Behind, Lags, Grows, HostGrows
<1> QED
  BY <1>3, <1>5, <1>6 DEF MayBe

LEMMA PolicyAdded ==
  ASSUME NEW c, NEW h, NEW m \in Fed, Behind(c, h), c.here, h.here, c.id, c.policy = "not-set",
         NEW new, new = [c EXCEPT !.policy = "set"],
         Patch(m, h, c, new)
  PROVE  MayBe(c, h, m)
<1>1. /\ new.here = c.here /\ new.deleting = c.deleting /\ new.fin = c.fin
      /\ new.policy = "set" /\ new.state = c.state /\ new.id = c.id
      /\ new.expiry = c.expiry /\ new.renewal = c.renewal
  BY DEF Behind, Fed
<1>2. /\ m.here = h.here /\ m.deleting = h.deleting /\ m.fin = h.fin /\ m.policy = "set"
      /\ m.state = h.state /\ m.id = h.id /\ m.expiry = h.expiry /\ m.renewal = h.renewal
  BY <1>1 DEF Patch, Pick
<1>3. h.fin /\ h.id
  BY DEF Behind, HostSound, Follows, Grows, HostGrows
<1>4. HostSound(m)
  BY <1>2, <1>3 DEF Behind, HostSound, Dated, Dateless
<1>5. Lags(c, m) /\ Grows("host", h, m)
  BY <1>2 DEF Behind, Lags, Grows, HostGrows
<1> QED
  BY <1>2, <1>4, <1>5 DEF MayBe

LEMMA PolicyFailed ==
  ASSUME NEW c, NEW h, NEW m \in Fed, Behind(c, h), c.here, h.here, c.id, c.policy = "not-set",
         NEW new, new = [c EXCEPT !.state = "FAILED"],
         Patch(m, h, c, new)
  PROVE  MayBe(c, h, m)
<1>1. /\ new.here = c.here /\ new.deleting = c.deleting /\ new.fin = c.fin
      /\ new.policy = c.policy /\ new.state = "FAILED" /\ new.id = c.id
      /\ new.expiry = c.expiry /\ new.renewal = c.renewal
  BY DEF Behind, Fed, State
<1>2. /\ m.here = h.here /\ m.deleting = h.deleting /\ m.fin = h.fin /\ m.policy = h.policy
      /\ m.state \in {"FAILED", h.state} /\ m.id = h.id
      /\ m.expiry = h.expiry /\ m.renewal = h.renewal
  BY <1>1 DEF Patch, Pick
<1>3. h.id /\ h.state # "LOCKED"
  BY DEF Behind, HostSound, Follows, Grows, HostGrows, Lags
<1>4. HostSound(m)
  BY <1>2, <1>3 DEF Behind, HostSound, Dated, Dateless
<1>5. Lags(c, m) /\ Grows("host", h, m)
  BY <1>2, <1>3 DEF Behind, Lags, Grows, HostGrows
<1> QED
  BY <1>2, <1>3, <1>4, <1>5 DEF MayBe

LEMMA FirstDates ==
  /\ InitialDate + Term \in Date \ {0} /\ InitialDate + Lead \in Date \ {0}
  /\ InitialDate + Lead + Term \in Date
<1>1. InitialDate \in Nat /\ InitialDate > 0 /\ Lead \in Nat /\ Term \in Nat
  BY FederationAssumption
<1> QED
  BY <1>1 DEF Date

\* The CR that the host makes of a new federation.
New(c) == [c EXCEPT !.id = TRUE, !.state = "AVAILABLE",
             !.expiry = IF @ = 0 THEN InitialDate + Term ELSE @,
             !.renewal = IF @ = 0 THEN InitialDate + Lead ELSE @]

LEMMA AcceptedTyped ==
  ASSUME NEW c \in Fed, HostSound(c), c.state = "",
         NEW new, new = New(c)
  PROVE  /\ new \in Fed /\ c.expiry = 0 /\ c.renewal = 0 /\ c.id = FALSE
         /\ new.here = c.here /\ new.deleting = c.deleting /\ new.fin = c.fin
         /\ new.policy = c.policy /\ new.state = "AVAILABLE" /\ new.id = TRUE
         /\ new.expiry = InitialDate + Term /\ new.renewal = InitialDate + Lead
<1>1. c.expiry = 0 /\ c.renewal = 0 /\ c.id = FALSE
  BY DEF HostSound, Dateless, Fed
<1>2. /\ new.here = c.here /\ new.deleting = c.deleting /\ new.fin = c.fin
      /\ new.policy = c.policy /\ new.state = "AVAILABLE" /\ new.id = TRUE
      /\ new.expiry = InitialDate + Term /\ new.renewal = InitialDate + Lead
  BY <1>1 DEF Fed, New
<1>3. new \in Fed
  <2>1. new = [c EXCEPT !.id = TRUE, !.state = "AVAILABLE",
                  !.expiry = InitialDate + Term, !.renewal = InitialDate + Lead]
    BY <1>1 DEF New
  <2>2. "AVAILABLE" \in State
    BY DEF State
  <2> QED
    BY <2>1, <2>2, FirstDates DEF Fed
<1> QED
  BY <1>1, <1>2, <1>3

LEMMA Accepted ==
  ASSUME NEW c, NEW h, NEW m \in Fed, Behind(c, h), c.here, h.here, c.fin, c.state = "",
         c.expiry = 0, c.renewal = 0, c.id = FALSE, NEW new,
         new.here = c.here, new.deleting = c.deleting, new.fin = c.fin,
         new.policy = c.policy, new.state = "AVAILABLE", new.id = TRUE,
         new.expiry = InitialDate + Term, new.renewal = InitialDate + Lead,
         Patch(m, h, c, new)
  PROVE  MayBe(c, h, m)
<1>1. InitialDate + Term # 0 /\ InitialDate + Lead # 0
  BY FirstDates
<1>2. /\ m.here = h.here /\ m.deleting = h.deleting /\ m.fin = h.fin /\ m.policy = h.policy
      /\ m.state = "AVAILABLE" /\ m.id = TRUE
      /\ m.expiry = InitialDate + Term /\ m.renewal = InitialDate + Lead
  BY <1>1 DEF Patch, Pick
<1>3. h.state # "LOCKED" /\ ~(h.id /\ h.renewal = 0) /\ h.policy # "set" /\ h.fin
  BY DEF Behind, Lags, Follows, Grows, HostGrows
<1>4. HostSound(m)
  BY <1>2, <1>3, FirstDates DEF Behind, HostSound, Dated
<1>5. Lags(c, m) /\ Grows("host", h, m)
  BY <1>1, <1>2, <1>3 DEF Behind, Lags, Grows, HostGrows
<1> QED
  BY <1>2, <1>3, <1>4, <1>5 DEF MayBe

LEMMA FirstTerms ==
  /\ InitialDate \in Nat /\ InitialDate > 0 /\ Lead \in Nat /\ Lead > 0 /\ Term \in Nat
  /\ Lead < Term
  BY FederationAssumption

\* A renewal replaces the expiry date and happens once.
LEMMA RenewedOnce ==
  ASSUME NEW f \in Fed, HostSound(f), f.id, NEW r, r = Renewed(f)
  PROVE  /\ r \in Fed /\ r.here = f.here /\ r.deleting = f.deleting /\ r.fin = f.fin
         /\ r.policy = f.policy /\ r.state = f.state /\ r.id = f.id
         /\ r = f \/ (f.renewal # 0 /\ r.renewal = 0)
<1>1. CASE f.renewal # 0 /\ After(f.renewal)
  <2>1. f.renewal + Term = InitialDate + Lead + Term
    BY <1>1, FirstTerms DEF HostSound, Dated
  <2>2. r = [f EXCEPT !.expiry = InitialDate + Lead + Term, !.renewal = 0]
    BY <1>1, <2>1 DEF Renewed
  <2>3. InitialDate + Lead + Term \in Date /\ 0 \in Date
    BY FirstDates, Zeros
  <2> QED
    BY <1>1, <2>2, <2>3 DEF Fed
<1>2. CASE ~(f.renewal # 0 /\ After(f.renewal))
  BY <1>2 DEF Renewed
<1> QED
  BY <1>1, <1>2

\* What the host's operator makes of the dates of f.
LEMMA ExaminedDates ==
  ASSUME NEW f \in Fed, HostSound(f), f.id, NEW new, new = Examined(f)
  PROVE  /\ new \in Fed /\ new.here = f.here /\ new.deleting = f.deleting /\ new.fin = f.fin
         /\ new.policy = f.policy /\ new.id = f.id
         /\ new.state \in {f.state, "LOCKED"} /\ new.renewal \in {f.renewal, 0}
         /\ f.renewal # 0 /\ new.renewal = f.renewal => new.expiry = f.expiry
         /\ Locks(f) => new.state = "LOCKED"
<1> DEFINE r == Renewed(f)
<1>1. /\ r \in Fed /\ r.here = f.here /\ r.deleting = f.deleting /\ r.fin = f.fin
      /\ r.policy = f.policy /\ r.state = f.state /\ r.id = f.id
      /\ r = f \/ (f.renewal # 0 /\ r.renewal = 0)
  BY RenewedOnce
<1>2. "LOCKED" \in State /\ 0 \in Date
  BY Zeros DEF State
<1>3. CASE r.renewal = 0 /\ After(r.expiry)
  <2>1. new = [r EXCEPT !.state = "LOCKED", !.expiry = 0]
    BY <1>3 DEF Examined
  <2> HIDE DEF r
  <2>2. /\ new \in Fed /\ new.here = r.here /\ new.deleting = r.deleting /\ new.fin = r.fin
        /\ new.policy = r.policy /\ new.id = r.id
        /\ new.state = "LOCKED" /\ new.renewal = r.renewal
    BY <2>1, <1>1, <1>2 DEF Fed
  <2> QED
    BY <2>2, <1>1, <1>3
<1>4. CASE ~(r.renewal = 0 /\ After(r.expiry)) /\ Expired(f)
  <2>1. new = [r EXCEPT !.state = "LOCKED"]
    BY <1>4 DEF Examined
  <2> HIDE DEF r
  <2>2. /\ new \in Fed /\ new.here = r.here /\ new.deleting = r.deleting /\ new.fin = r.fin
        /\ new.policy = r.policy /\ new.id = r.id
        /\ new.state = "LOCKED" /\ new.expiry = r.expiry /\ new.renewal = r.renewal
    BY <2>1, <1>1, <1>2 DEF Fed
  <2> QED
    BY <2>2, <1>1
<1>5. CASE ~(r.renewal = 0 /\ After(r.expiry)) /\ ~Expired(f)
  <2>1. new = r /\ ~Locks(f)
    BY <1>5 DEF Examined, Locks
  <2> HIDE DEF r
  <2> QED
    BY <2>1, <1>1
<1> QED
  BY <1>3, <1>4, <1>5

\* Looking at stale dates never undoes what newer ones have led to, and locks
\* the federation unless the operator remembers that it is.
LEMMA DatesExamined ==
  ASSUME NEW c, NEW h, NEW m \in Fed, Behind(c, h), c.here, h.here,
         c.fin, ~PolicyDue(c), c.state # "",
         NEW new, new = Examined(c), Patch(m, h, c, new)
  PROVE  /\ MayBe(c, h, m)
         /\ Locks(c) => m.state = "LOCKED" \/ (c.state = "LOCKED" /\ m.state = h.state)
<1>1. c \in Fed /\ HostSound(c) /\ c.id /\ c.policy = "set"
  BY DEF Behind, HostSound, PolicyDue, Fed
<1>2. /\ new.here = c.here /\ new.deleting = c.deleting /\ new.fin = c.fin
      /\ new.policy = c.policy /\ new.id = c.id
      /\ new.state \in {c.state, "LOCKED"} /\ new.renewal \in {c.renewal, 0}
      /\ c.renewal # 0 /\ new.renewal = c.renewal => new.expiry = c.expiry
      /\ Locks(c) => new.state = "LOCKED"
  BY <1>1, ExaminedDates
<1>3. /\ m.here = h.here /\ m.deleting = h.deleting /\ m.fin = h.fin
      /\ m.policy = h.policy /\ m.id = h.id
      /\ m.state \in {h.state, "LOCKED"} /\ m.renewal \in {h.renewal, 0}
  BY <1>2 DEF Patch, Pick
<1>4. h.fin /\ h.id /\ h.policy = "set" /\ (c.renewal = 0 => h.renewal = 0)
  <2>1. Grows("host", c, h)
    BY DEF Behind, Follows
  <2> QED
    BY <2>1, <1>1 DEF Grows, HostGrows
<1>5. Locks(c) => m.state = "LOCKED" \/ (c.state = "LOCKED" /\ m.state = h.state)
  BY <1>2 DEF Patch, Pick
<1>6. Dated(m)
  <2>1. SUFFICES ASSUME m.renewal # 0
                 PROVE  m.renewal = h.renewal /\ m.expiry = h.expiry
    BY <1>4 DEF Dated, Behind, HostSound
  <2>2. new.renewal = c.renewal /\ m.renewal = h.renewal
    BY <2>1, <1>2 DEF Patch, Pick
  <2>3. new.expiry = c.expiry
    BY <2>1, <2>2, <1>2, <1>4
  <2> QED
    BY <2>2, <2>3 DEF Patch, Pick
<1>7. HostSound(m)
  BY <1>3, <1>4, <1>6 DEF Behind, HostSound
<1>8. Lags(c, m)
  BY <1>1 DEF Lags
<1>9. Grows("host", h, m)
  BY <1>3 DEF Grows, HostGrows
<1> QED
  BY <1>3, <1>5, <1>7, <1>8, <1>9 DEF MayBe

(***************************************************************************)
(* The invariant, by what a step writes.                                   *)
(***************************************************************************)

\* The types of what is not a CR, a cache or a log.
RestTyped ==
  /\ now \in 1 .. Horizon /\ queue \in [Side -> BOOLEAN] /\ timer \in Nat
  /\ run \in [busy : BOOLEAN, seen : Fed, new : Fed]
  /\ watch \in [st : {"none", "starting", "live"}, event : BOOLEAN]

\* What the guest is about to claim was claimed before, or is known at the host.
ClaimsOn ==
  Claims(run'.new) =>
    \/ \E f \in Versions("guest") \cup {run.new} : Claims(f)
    \/ cr["host"].here /\ cr["host"].id

LEMMA HostStep ==
  ASSUME FedInv, NEW f \in Fed, Write("host", f), HostMay(f), UNCHANGED cache,
         RestTyped', TimerInv', RunInv', ClaimsOn
  PROVE  FedInv' /\ (KeepsLock(f) => HostGoesOn)
<1>1. TypeOK /\ ClaimInv
  BY DEF FedInv
<1>2. /\ Chains' /\ HostInv' /\ GuestSound' /\ EndInv' /\ (KeepsLock(f) => HostGoesOn)
      /\ GuestOut' = GuestOut /\ Versions("guest")' = Versions("guest")
      /\ cr["host"].here /\ cr["host"].id => (cr'["host"].here /\ cr'["host"].id) \/ GuestOut
  BY HostWritten
<1>3. TypeOK'
  <2>1. cr' \in [Side -> Fed] /\ log' \in [Side -> Seq(Fed)] /\ \A t \in Side : Len(log'[t]) <= MaxLag
    BY <1>1, Written DEF Side
  <2>2. cache' \in [Side -> Fed] /\ granted' \in Date
    BY <1>1, Written DEF TypeOK, Side
  <2> QED
    BY <2>1, <2>2 DEF TypeOK, RestTyped
<1>4. ClaimInv'
  <2>1. SUFFICES ASSUME \E v \in Versions("guest") \cup {run'.new} : Claims(v)
                 PROVE  (cr'["host"].here /\ cr'["host"].id) \/ GuestOut
    BY <1>2 DEF ClaimInv
  <2>2. \/ \E v \in Versions("guest") \cup {run.new} : Claims(v)
        \/ cr["host"].here /\ cr["host"].id
    BY <2>1 DEF ClaimsOn
  <2>3. (cr["host"].here /\ cr["host"].id) \/ GuestOut
    BY <2>2, <1>1 DEF ClaimInv
  <2> QED
    BY <2>3, <1>2
<1> QED
  BY <1>2, <1>3, <1>4 DEF FedInv

LEMMA QuietStep ==
  ASSUME FedInv, UNCHANGED <<cr, cache, log, granted>>,
         RestTyped', timer' \in {0, timer}, RunInv', ClaimsOn
  PROVE  FedInv' /\ HostGoesOn
<1>1. /\ TypeOK /\ Chains /\ HostInv /\ GuestSound /\ EndInv
      /\ TimerInv /\ RunInv /\ ClaimInv
  BY DEF FedInv
<1>2. Versions("guest")' = Versions("guest") /\ Versions("host")' = Versions("host")
  BY DEF Versions
<1>3. TypeOK'
  BY <1>1 DEF TypeOK, RestTyped
<1>4. Chains' /\ HostInv' /\ GuestSound' /\ GuestOut' = GuestOut /\ EndInv'
  <2>1. Chains'
    BY <1>1 DEF Chains
  <2>2. HostInv' /\ GuestSound' /\ GuestOut' = GuestOut
    BY <1>1, <1>2 DEF HostInv, GuestSound, GuestOut
  <2>3. Ending' = Ending
    BY <1>2 DEF Ending
  <2> QED
    BY <2>1, <2>2, <2>3, <1>1 DEF EndInv
<1>5. TimerInv'
  <2>1. granted \in Nat
    BY <1>1, DatesAreNumbers DEF TypeOK
  <2> QED
    BY <2>1, <1>1 DEF TimerInv
<1>6. ClaimInv'
  <2>1. SUFFICES ASSUME \E v \in Versions("guest") \cup {run'.new} : Claims(v)
                 PROVE  (cr["host"].here /\ cr["host"].id) \/ GuestOut
    BY <1>2, <1>4 DEF ClaimInv
  <2> QED
    BY <2>1, <1>1 DEF ClaimInv, ClaimsOn
<1>7. HostGoesOn
  BY DEF HostGoesOn, KeepsLock
<1> QED
  BY <1>1, <1>3, <1>4, <1>5, <1>6, <1>7 DEF FedInv

\* What the guest's operator or its users write to the guest's CR.
GuestMay(f) ==
  /\ f.here => cr["guest"].here
  /\ cr["guest"].deleting /\ f.here => f.deleting
  /\ f.deleting => f.here
  /\ Claims(f) => Claims(cr["guest"]) \/ Claims(run.new)

LEMMA GuestStep ==
  ASSUME FedInv, NEW f \in Fed, Write("guest", f), GuestMay(f), UNCHANGED <<cache, timer>>,
         RestTyped', RunInv', Claims(run'.new) => Claims(run.new)
  PROVE  FedInv' /\ HostGoesOn
<1>1. /\ TypeOK /\ Chains /\ HostInv /\ GuestSound /\ EndInv
      /\ TimerInv /\ RunInv /\ ClaimInv
  BY DEF FedInv
<1>2. "guest" \in Side /\ "host" \in Side \ {"guest"}
  BY DEF Side
<1>3. /\ cr' \in [Side -> Fed] /\ cr'["guest"] = f /\ log' \in [Side -> Seq(Fed)]
      /\ cr'["host"] = cr["host"]
      /\ \A t \in Side : Len(log'[t]) <= MaxLag
      /\ granted' = granted
  BY <1>1, <1>2, Written
<1>4. Continues("guest", f)
  <2>1. Grows("guest", cr["guest"], f) \/ ~f.here
    BY DEF GuestMay, Grows
  <2> QED
    BY <2>1 DEF GuestMay, Continues
<1>5. /\ Chains' /\ Versions("guest")' \subseteq Versions("guest") \cup {f}
      /\ Versions("host")' = Versions("host")
  BY <1>1, <1>2, <1>4, OrderWritten
<1>6. TypeOK'
  BY <1>1, <1>3 DEF TypeOK, RestTyped
<1>7. cr["guest"] \in Versions("guest")
  BY DEF Versions
<1>8. GuestOut => GuestOut'
  <2>1. Live(f) => Live(cr["guest"])
    BY DEF GuestMay, Live
  <2> QED
    BY <2>1, <1>5, <1>7 DEF GuestOut
<1>9. HostInv' /\ Ending' = Ending
  BY <1>1, <1>3, <1>5 DEF HostInv, Ending
<1>10. EndInv' /\ TimerInv'
  BY <1>1, <1>3, <1>8, <1>9 DEF EndInv, TimerInv
<1>11. GuestSound'
  BY <1>1, <1>5 DEF GuestSound, GuestMay
<1>12. ClaimInv'
  <2>1. SUFFICES ASSUME \E v \in Versions("guest")' \cup {run'.new} : Claims(v)
                 PROVE  (cr["host"].here /\ cr["host"].id) \/ GuestOut
    BY <1>3, <1>8 DEF ClaimInv
  <2>2. \E v \in Versions("guest") \cup {run.new} : Claims(v)
    BY <2>1, <1>5, <1>7 DEF GuestMay
  <2> QED
    BY <2>2, <1>1 DEF ClaimInv
<1>13. HostGoesOn
  BY <1>3 DEF HostGoesOn, KeepsLock
<1> QED
  BY <1>5, <1>6, <1>9, <1>10, <1>11, <1>12, <1>13 DEF FedInv

LEMMA DeliveryStep ==
  ASSUME FedInv, NEW s \in Side, Deliver(s)
  PROVE  FedInv' /\ HostGoesOn
<1>1. /\ TypeOK /\ Chains /\ HostInv /\ GuestSound /\ EndInv
      /\ TimerInv /\ RunInv /\ ClaimInv
  BY DEF FedInv
<1>2. /\ Chains' /\ cache'[s] \in Versions(s)
      /\ \A t \in Side : Versions(t)' \subseteq Versions(t)
      /\ \A t \in Side \ {s} : cache'[t] = cache[t]
      /\ cache' \in [Side -> Fed] /\ log' \in [Side -> Seq(Fed)]
      /\ \A t \in Side : Len(log'[t]) <= MaxLag
  BY <1>1, OrderDelivered
<1>3. UNCHANGED <<now, cr, timer, run, watch, granted>>
  BY DEF Deliver
<1>4. queue' \in [Side -> BOOLEAN]
  <2>1. queue' = [queue EXCEPT ![s] = @ \/ Passes(s, cache[s], Head(log[s]))]
    BY DEF Deliver
  <2> QED
    BY <2>1, <1>1, Zenon DEF TypeOK
<1>5. TypeOK'
  BY <1>1, <1>2, <1>3, <1>4 DEF TypeOK
<1>6. Versions("guest")' \subseteq Versions("guest") /\ Versions("host")' \subseteq Versions("host")
  BY <1>2 DEF Side
<1>7. (GuestOut => GuestOut') /\ GuestSound' /\ (Ending' => Ending)
  BY <1>1, <1>3, <1>6 DEF GuestOut, GuestSound, Ending
<1>8. EndInv' /\ ClaimInv'
  BY <1>1, <1>3, <1>6, <1>7 DEF EndInv, ClaimInv
<1>9. CASE s = "guest"
  <2>1. cache'["host"] = cache["host"]
    BY <1>2, <1>9 DEF Side
  <2>2. HostInv' /\ TimerInv'
    BY <2>1, <1>1, <1>3, <1>6, <1>7 DEF HostInv, TimerInv
  <2> QED
    BY <2>2, <1>1, <1>2, <1>3, <1>5, <1>7, <1>8 DEF FedInv, RunInv, HostGoesOn, KeepsLock
<1>10. CASE s = "host"
  <2> DEFINE d == cache'["host"]
             h == cr["host"]
  <2>1. Behind(H, h) /\ H \in Versions("host")
    BY HostBehind
  <2>2. d \in Versions("host") /\ HostSound(d)
    BY <1>1, <1>2, <1>10 DEF HostInv
  <2>3. Follows("host", H, d, h)
    BY <2>2, <1>1, VersionsFollow DEF Chains, H, Side
  <2> HIDE DEF d, h
  <2>4. H.here /\ h.here => d.here /\ Grows("host", H, d)
    BY <2>3 DEF Follows
  <2>5. H.id \/ H.policy = "set" => H.here
    <3>1. ~H.here => H = NoFed
      BY <2>1 DEF Behind, HostSound
    <3>2. ~NoFed.id /\ NoFed.policy # "set"
      BY SMT DEF NoFed
    <3> QED
      BY <3>1, <3>2
  <2>6. Lags(d, h)
    BY <2>1, <2>4, <2>5 DEF Behind, Lags, Grows, HostGrows
  <2>7. HostInv'
    BY <2>6, <1>1, <1>3, <1>6 DEF HostInv, d, h
  <2>8. TimerInv'
    BY <1>1, <1>3 DEF TimerInv
  <2> QED
    BY <2>7, <2>8, <1>1, <1>2, <1>3, <1>5, <1>7, <1>8 DEF FedInv, RunInv, HostGoesOn, KeepsLock
<1> QED
  BY <1>9, <1>10 DEF Side

LEMMA NoRunTyped ==
  /\ NoRun \in [busy : BOOLEAN, seen : Fed, new : Fed]
  /\ NoRun.new.here = NoRun.seen.here /\ NoRun.new.deleting = NoRun.seen.deleting
  /\ NoRun.new = NoFed
<1>1. NoRun = [busy |-> FALSE, seen |-> NoFed, new |-> NoFed]
  BY DEF NoRun
<1> QED
  BY <1>1, Gone

\* A host's operator that restarts is ahead of its cache by no more than one
\* that has been running.
LEMMA HostAlone ==
  ASSUME FedInv
  PROVE  Lags(cr["host"], cr["host"])
<1> DEFINE h == cr["host"]
<1>1. Behind(H, h)
  BY HostBehind
<1> HIDE DEF h
<1>2. HostSound(h) /\ HostSound(H) /\ Lags(H, h)
  BY <1>1 DEF Behind
<1>3. H.id => H.here
  <2>1. ~NoFed.id
    BY SMT DEF NoFed
  <2> QED
    BY <2>1, <1>2 DEF HostSound
<1>4. SUFFICES ASSUME h.here PROVE Lags(h, h)
  BY DEF Lags, h
<1>5. H.id /\ H.policy = "set" => h.policy = "set"
  BY <1>1, <1>3, <1>4 DEF Behind, Follows, Grows, HostGrows
<1>6. h.id /\ h.renewal = 0 => h.policy = "set"
  BY <1>2, <1>4, <1>5 DEF Lags
<1>7. /\ h.policy = "set" \/ h.state \in {"FAILED", "LOCKED"} => h.id
      /\ h.state = "LOCKED" => h.policy = "set"
  BY <1>2 DEF HostSound
<1> QED
  BY <1>6, <1>7 DEF Lags

LEMMA HostRestartStep ==
  ASSUME FedInv, HostRestarts
  PROVE  FedInv' /\ HostGoesOn
<1>1. /\ TypeOK /\ Chains /\ HostInv /\ GuestSound /\ EndInv
      /\ TimerInv /\ RunInv /\ ClaimInv
  BY DEF FedInv
<1>2. /\ UNCHANGED <<now, cr, run, watch, granted>> /\ timer' = 0
      /\ cache' = [cache EXCEPT !["host"] = cr["host"]]
      /\ log' = [log EXCEPT !["host"] = <<>>]
      /\ queue' = [queue EXCEPT !["host"] = cr["host"].here]
  BY DEF HostRestarts
<1>3. "host" \in Side /\ "guest" \in Side \ {"host"}
  BY DEF Side
<1>4. /\ Chains' /\ cache'["host"] = cr["host"]
      /\ Versions("host")' = {cr["host"]}
      /\ Versions("guest")' = Versions("guest")
      /\ cache' \in [Side -> Fed] /\ log' \in [Side -> Seq(Fed)]
      /\ \A t \in Side : Len(log'[t]) <= MaxLag
  BY <1>1, <1>2, <1>3, OrderRestarted
<1>5. queue' \in [Side -> BOOLEAN]
  <2>1. cr["host"].here \in BOOLEAN
    BY HostBehind DEF Behind, Fed
  <2> QED
    BY <2>1, <1>1, <1>2 DEF TypeOK
<1>6. TypeOK'
  BY <1>1, <1>2, <1>4, <1>5 DEF TypeOK
<1>7. HostInv'
  <2>1. HostSound(cr["host"]) /\ cr["host"].expiry <= granted
    BY <1>1, HostBehind DEF HostInv
  <2>2. Lags(cr["host"], cr["host"])
    BY HostBehind, HostAlone DEF Behind
  <2> QED
    BY <2>1, <2>2, <1>2, <1>4 DEF HostInv
<1>8. GuestOut' = GuestOut /\ GuestSound'
  BY <1>1, <1>4 DEF GuestOut, GuestSound
<1>9. Ending' => Ending
  BY <1>2, <1>4 DEF Ending
<1>10. EndInv' /\ ClaimInv' /\ TimerInv' /\ RunInv' /\ HostGoesOn
  <2>1. granted \in Nat
    BY <1>1, DatesAreNumbers DEF TypeOK
  <2>2. TimerInv'
    BY <2>1, <1>2 DEF TimerInv
  <2> QED
    BY <2>2, <1>1, <1>2, <1>4, <1>8, <1>9 DEF EndInv, ClaimInv, RunInv, HostGoesOn, KeepsLock
<1> QED
  BY <1>4, <1>6, <1>7, <1>8, <1>10 DEF FedInv

LEMMA GuestRestartStep ==
  ASSUME FedInv, GuestRestarts
  PROVE  FedInv' /\ HostGoesOn
<1>1. /\ TypeOK /\ Chains /\ HostInv /\ GuestSound /\ EndInv
      /\ TimerInv /\ RunInv /\ ClaimInv
  BY DEF FedInv
<1>2. /\ UNCHANGED <<now, cr, timer, granted>> /\ run' = NoRun /\ watch' = NoWatch
      /\ cache' = [cache EXCEPT !["guest"] = cr["guest"]]
      /\ log' = [log EXCEPT !["guest"] = <<>>]
      /\ queue' = [queue EXCEPT !["guest"] = cr["guest"].here]
  BY DEF GuestRestarts
<1>3. "guest" \in Side /\ "host" \in Side \ {"guest"}
  BY DEF Side
<1>4. /\ Chains' /\ cache'["host"] = cache["host"]
      /\ Versions("guest")' = {cr["guest"]}
      /\ Versions("host")' = Versions("host")
      /\ cache' \in [Side -> Fed] /\ log' \in [Side -> Seq(Fed)]
      /\ \A t \in Side : Len(log'[t]) <= MaxLag
  BY <1>1, <1>2, <1>3, OrderRestarted
<1>5. queue' \in [Side -> BOOLEAN]
  <2>1. cr["guest"] \in Fed
    BY <1>1, <1>3 DEF TypeOK
  <2>2. cr["guest"].here \in BOOLEAN
    BY <2>1 DEF Fed
  <2> QED
    BY <2>2, <1>1, <1>2 DEF TypeOK
<1>6. run' \in [busy : BOOLEAN, seen : Fed, new : Fed]
      /\ watch' \in [st : {"none", "starting", "live"}, event : BOOLEAN]
  BY <1>2, NoRunTyped DEF NoWatch
<1>7. TypeOK'
  BY <1>1, <1>2, <1>4, <1>5, <1>6 DEF TypeOK
<1>8. Versions("guest")' \subseteq Versions("guest")
  BY <1>4 DEF Versions
<1>9. (GuestOut => GuestOut') /\ GuestSound' /\ HostInv' /\ Ending' = Ending
  BY <1>1, <1>2, <1>4, <1>8 DEF GuestOut, GuestSound, HostInv, Ending
<1>10. EndInv' /\ TimerInv' /\ HostGoesOn
  BY <1>1, <1>2, <1>4, <1>9 DEF EndInv, TimerInv, HostGoesOn, KeepsLock
<1>11. RunInv' /\ ~Claims(run'.new)
  BY <1>2, NoRunTyped, Gone DEF RunInv
<1>12. ClaimInv'
  BY <1>1, <1>2, <1>8, <1>9, <1>11 DEF ClaimInv
<1> QED
  BY <1>4, <1>7, <1>9, <1>10, <1>11, <1>12 DEF FedInv

(***************************************************************************)
(* The host's operator.                                                    *)
(***************************************************************************)
LEMMA SeenTyped ==
  ASSUME TypeOK, NEW f
  PROVE  Seen(f) \in [st : {"none", "starting", "live"}, event : BOOLEAN]
  BY DEF TypeOK, Seen

LEMMA SoundIsThere ==
  ASSUME NEW f \in Fed, HostSound(f)
  PROVE  f.deleting \/ f.fin \/ f.id \/ f.state # "" => f.here
<1>1. ~f.here => f = NoFed
  BY DEF HostSound
<1>2. NoFed.deleting = FALSE /\ NoFed.fin = FALSE /\ NoFed.id = FALSE /\ NoFed.state = ""
  BY SMT DEF NoFed
<1> QED
  BY <1>1, <1>2

\* A reconcile of the host that leaves its timer alone.
LEMMA HostReconcileStep ==
  ASSUME FedInv, NEW new \in Fed, new.here = H.here, new.deleting = H.deleting,
         ~H.here => new = H,
         Write("host", Merged(cr["host"], H, new)), UNCHANGED <<now, cache, run>>,
         queue' \in [Side -> BOOLEAN], watch' = Seen(Merged(cr["host"], H, new)),
         \A m \in Fed : /\ H.here /\ cr["host"].here
                        /\ Patch(m, cr["host"], H, new) /\ (m.deleting => m.fin)
                        => MayBe(H, cr["host"], m)
  PROVE  /\ Merged(cr["host"], H, new) \in Fed /\ HostMay(Merged(cr["host"], H, new))
         /\ timer' = timer => FedInv' /\ HostGoesOn
         /\ timer' \in Nat /\ TimerInv' => FedInv' /\ HostGoesOn
<1> DEFINE f == Merged(cr["host"], H, new)
<1>1. f \in Fed /\ HostMay(f) /\ KeepsLock(f)
  BY HostMerged
<1> HIDE DEF f
<1>2. Write("host", f) /\ watch' = Seen(f)
  BY DEF f
<1>3. TypeOK /\ RunInv
  BY DEF FedInv
<1>4. RunInv' /\ ClaimsOn
  BY <1>3 DEF RunInv, ClaimsOn
<1>5. timer' \in Nat => RestTyped'
  BY <1>2, <1>3, SeenTyped DEF TypeOK, RestTyped
<1>6. ASSUME timer' \in Nat, TimerInv' PROVE FedInv' /\ HostGoesOn
  BY <1>1, <1>2, <1>4, <1>5, <1>6, HostStep
<1>7. ASSUME timer' = timer PROVE FedInv' /\ HostGoesOn
  <2>1. TimerInv'
    BY <1>1, <1>2, <1>7, TimerKept
  <2> QED
    BY <2>1, <1>3, <1>6, <1>7 DEF TypeOK
<1> QED
  BY <1>1, <1>6, <1>7 DEF f

LEMMA Reconciled ==
  ASSUME TypeOK, NEW new, HostReconciles(new)
  PROVE  /\ Write("host", Merged(cr["host"], H, new)) /\ UNCHANGED <<now, cache, run>>
         /\ queue["host"] /\ queue' = [queue EXCEPT !["host"] = FALSE]
         /\ queue' \in [Side -> BOOLEAN]
         /\ watch' = Seen(Merged(cr["host"], H, new))
<1>1. queue' = [queue EXCEPT !["host"] = FALSE]
  BY DEF HostReconciles
<1>2. queue' \in [Side -> BOOLEAN]
  BY <1>1 DEF TypeOK
<1> QED
  BY <1>1, <1>2 DEF HostReconciles

LEMMA HostIgnoresStep ==
  ASSUME FedInv, HostIgnores
  PROVE  FedInv' /\ HostGoesOn
<1>1. TypeOK /\ HostReconciles(H) /\ ~H.here /\ timer' = timer
  BY DEF FedInv, HostIgnores
<1>2. H \in Fed
  BY HostBehind DEF Behind
<1> QED
  BY <1>1, <1>2, Reconciled, HostReconcileStep

LEMMA HostDeletesStep ==
  ASSUME FedInv, HostDeletes
  PROVE  FedInv' /\ HostGoesOn
<1> DEFINE new == [H EXCEPT !.fin = FALSE]
<1>1. TypeOK /\ HostReconciles(new) /\ H.deleting /\ timer' = timer
  BY DEF FedInv, HostDeletes
<1>2. H \in Fed /\ HostSound(H) /\ Behind(H, cr["host"])
  BY HostBehind DEF Behind
<1>3. H.here
  BY <1>1, <1>2, SoundIsThere
<1>4. new \in Fed /\ new.here = H.here /\ new.deleting = H.deleting
  BY <1>2 DEF Fed
<1>5. ASSUME NEW m \in Fed, cr["host"].here, Patch(m, cr["host"], H, new), m.deleting => m.fin
      PROVE  MayBe(H, cr["host"], m)
  BY <1>1, <1>2, <1>3, <1>5, FinalizerRemoved
<1> HIDE DEF new
<1> QED
  BY <1>1, <1>3, <1>4, <1>5, Reconciled, HostReconcileStep

LEMMA HostAddsFinalizerStep ==
  ASSUME FedInv, HostAddsFinalizer
  PROVE  FedInv' /\ HostGoesOn
<1> DEFINE new == [H EXCEPT !.fin = TRUE, !.policy = "not-set"]
<1>1. TypeOK /\ HostReconciles(new) /\ H.here /\ ~H.fin /\ timer' = timer
  BY DEF FedInv, HostAddsFinalizer, Live
<1>2. H \in Fed /\ Behind(H, cr["host"])
  BY HostBehind DEF Behind
<1>3. new \in Fed /\ new.here = H.here /\ new.deleting = H.deleting
  BY <1>2 DEF Fed
<1>4. ASSUME NEW m \in Fed, cr["host"].here, Patch(m, cr["host"], H, new)
      PROVE  MayBe(H, cr["host"], m)
  BY <1>1, <1>2, <1>4, FinalizerAdded
<1> HIDE DEF new
<1> QED
  BY <1>1, <1>3, <1>4, Reconciled, HostReconcileStep

LEMMA HostAddsPolicyStep ==
  ASSUME FedInv, HostAddsPolicy
  PROVE  FedInv' /\ HostGoesOn
<1> DEFINE new == [H EXCEPT !.policy = "set"]
<1>1. /\ TypeOK /\ HostReconciles(new) /\ H.here /\ H.id /\ H.policy = "not-set"
      /\ timer' = timer
  BY DEF FedInv, HostAddsPolicy, Live, PolicyDue
<1>2. H \in Fed /\ Behind(H, cr["host"])
  BY HostBehind DEF Behind
<1>3. new \in Fed /\ new.here = H.here /\ new.deleting = H.deleting
  BY <1>2 DEF Fed
<1>4. ASSUME NEW m \in Fed, cr["host"].here, Patch(m, cr["host"], H, new)
      PROVE  MayBe(H, cr["host"], m)
  BY <1>1, <1>2, <1>4, PolicyAdded
<1> HIDE DEF new
<1> QED
  BY <1>1, <1>3, <1>4, Reconciled, HostReconcileStep

LEMMA HostNewStep ==
  ASSUME FedInv, HostNew
  PROVE  FedInv' /\ HostGoesOn
<1> DEFINE new == New(H)
<1>1. TypeOK /\ HostReconciles(new) /\ H.here /\ H.fin /\ H.state = "" /\ timer' = timer
  BY DEF FedInv, HostNew, Live, New
<1>2. H \in Fed /\ HostSound(H) /\ Behind(H, cr["host"])
  BY HostBehind DEF Behind
<1>3. /\ new \in Fed /\ H.expiry = 0 /\ H.renewal = 0 /\ H.id = FALSE
      /\ new.here = H.here /\ new.deleting = H.deleting /\ new.fin = H.fin
      /\ new.policy = H.policy /\ new.state = "AVAILABLE" /\ new.id = TRUE
      /\ new.expiry = InitialDate + Term /\ new.renewal = InitialDate + Lead
  BY <1>1, <1>2, AcceptedTyped
<1> HIDE DEF new
<1>4. ASSUME NEW m \in Fed, cr["host"].here, Patch(m, cr["host"], H, new)
      PROVE  MayBe(H, cr["host"], m)
  BY <1>1, <1>2, <1>3, <1>4, Accepted
<1> QED
  BY <1>1, <1>3, <1>4, Reconciled, HostReconcileStep

LEMMA HostPolicyFailsStep ==
  ASSUME FedInv, HostPolicyFails
  PROVE  FedInv' /\ HostGoesOn
<1>1. /\ TypeOK /\ UNCHANGED <<now, cache, queue, timer, run>>
      /\ H.deleting \/ (H.here /\ H.id /\ H.policy = "not-set" /\ ~H.deleting)
  BY DEF FedInv, HostPolicyFails, Live, PolicyDue
<1>2. PICK new \in PolicyError(H) :
        /\ Write("host", Merged(cr["host"], H, new))
        /\ watch' = Seen(Merged(cr["host"], H, new))
  BY DEF HostPolicyFails
<1>3. H \in Fed /\ HostSound(H) /\ Behind(H, cr["host"])
  BY HostBehind DEF Behind
<1>4. H.here
  BY <1>1, <1>3, SoundIsThere
<1>5. queue' \in [Side -> BOOLEAN]
  BY <1>1 DEF TypeOK
<1>6. CASE new = H
  <2>1. ASSUME NEW m \in Fed, cr["host"].here, Patch(m, cr["host"], H, new)
        PROVE  MayBe(H, cr["host"], m)
    BY <1>3, <1>4, <1>6, <2>1, NothingWritten
  <2> QED
    BY <1>1, <1>2, <1>3, <1>4, <1>5, <1>6, <2>1, HostReconcileStep
<1>7. CASE new = [H EXCEPT !.state = "FAILED"] /\ ~H.deleting
  <2>1. "FAILED" \in State
    BY DEF State
  <2>2. new \in Fed /\ new.here = H.here /\ new.deleting = H.deleting
    BY <1>3, <1>7, <2>1 DEF Fed
  <2>3. H.id /\ H.policy = "not-set"
    BY <1>1, <1>7
  <2>4. ASSUME NEW m \in Fed, cr["host"].here, Patch(m, cr["host"], H, new)
        PROVE  MayBe(H, cr["host"], m)
    BY <1>3, <1>4, <1>7, <2>3, <2>4, PolicyFailed
  <2> QED
    BY <1>1, <1>2, <1>4, <1>5, <2>2, <2>4, HostReconcileStep
<1>8. new = H \/ (new = [H EXCEPT !.state = "FAILED"] /\ ~H.deleting)
  <2>1. H = [H EXCEPT !.state = H.state]
    BY <1>3 DEF Fed
  <2> QED
    BY <2>1, <1>2 DEF PolicyError
<1> QED
  BY <1>6, <1>7, <1>8

(***************************************************************************)
(* The timer.                                                              *)
(***************************************************************************)
\* The least of up to three numbers.
LEMMA Earliest ==
  ASSUME NEW a \in Nat, NEW b \in Nat, NEW c \in Nat, NEW S \in SUBSET {a, b, c}, S # {},
         NEW t, t = CHOOSE x \in S : \A u \in S : x <= u
  PROVE  t \in S /\ \A u \in S : t <= u
<1>1. \A u \in S : u = a \/ u = b \/ u = c
  OBVIOUS
<1>2. a \in S \/ b \in S \/ c \in S
  BY <1>1
<1>3. \/ a \in S /\ (b \in S => a <= b) /\ (c \in S => a <= c)
      \/ b \in S /\ (a \in S => b <= a) /\ (c \in S => b <= c)
      \/ c \in S /\ (a \in S => c <= a) /\ (b \in S => c <= b)
  BY <1>2
<1>4. \E x \in S : \A u \in S : x <= u
  BY <1>1, <1>3
<1> QED
  BY <1>4

\* The timer that an examination sets.
LEMMA Woken ==
  ASSUME TypeOK, H \in Fed, HostExamines
  PROVE  /\ timer' \in Nat
         /\ timer # 0 => timer' # 0
         /\ timer' = timer \/ (~Locks(H) /\ H.expiry # 0 => timer' <= H.expiry + 1)
         /\ Locks(H) => timer' = timer
         /\ ~Locks(H) /\ H.expiry # 0 => timer' # 0
<1>1. /\ timer' = IF Wake(H) = {} THEN 0
                  ELSE CHOOSE t \in Wake(H) : \A u \in Wake(H) : t <= u
  BY DEF HostExamines
<1>2. timer \in Nat /\ H.expiry \in Nat /\ H.renewal \in Nat
  BY Dates DEF TypeOK
<1> DEFINE a == H.expiry + 1
           b == H.renewal + 1
<1>3. Wake(H) \in SUBSET {a, b, timer} /\ a \in Nat /\ b \in Nat /\ a # 0 /\ b # 0
  BY <1>2 DEF Wake, Ahead
<1>4. 0 \notin Wake(H) /\ (timer # 0 => timer \in Wake(H)) /\ (Locks(H) => Wake(H) = {timer} \ {0})
  BY <1>2 DEF Wake, Ahead
<1>5. ~Locks(H) /\ H.expiry # 0 => a \in Wake(H)
  BY DEF Wake, Ahead, Locks, Expired
<1>6. CASE Wake(H) = {}
  BY <1>1, <1>2, <1>4, <1>5, <1>6
<1>7. CASE Wake(H) # {}
  <2>1. timer' \in Wake(H) /\ \A u \in Wake(H) : timer' <= u
    <3>1. timer' = CHOOSE t \in Wake(H) : \A u \in Wake(H) : t <= u
      BY <1>1, <1>7
    <3> HIDE DEF a, b
    <3> QED
      BY <3>1, <1>2, <1>3, <1>7, Earliest
  <2> QED
    BY <2>1, <1>2, <1>3, <1>4, <1>5
<1> QED
  BY <1>6, <1>7

LEMMA NowTyped ==
  ASSUME TypeOK
  PROVE  now \in Nat
<1>1. now \in 1 .. Horizon
  BY DEF TypeOK
<1> QED
  BY <1>1, FederationAssumption

\* Dates that do not lock have an expiry date that is ahead.
LEMMA Expires ==
  ASSUME TypeOK, NEW f \in Fed, HostSound(f), f.id, ~Locks(f)
  PROVE  f.expiry # 0
<1>1. now \in Nat /\ now >= 0
  BY NowTyped
<1>2. CASE f.renewal = 0
  <2>1. Renewed(f) = f
    BY <1>2 DEF Renewed
  <2> QED
    BY <2>1, <1>1, <1>2 DEF Locks, After
<1>3. CASE f.renewal # 0
  BY <1>3 DEF HostSound, Dated
<1> QED
  BY <1>2, <1>3

LEMMA HostExaminesStep ==
  ASSUME FedInv, HostExamines
  PROVE  FedInv' /\ HostGoesOn
<1> DEFINE new == Examined(H)
           f == Merged(cr["host"], H, new)
<1>1. /\ TypeOK /\ HostReconciles(new) /\ H.here /\ H.fin /\ ~PolicyDue(H) /\ H.state # ""
  BY DEF FedInv, HostExamines, Live
<1>2. H \in Fed /\ HostSound(H) /\ Behind(H, cr["host"]) /\ H.id /\ now \in Nat
  <2>1. H \in Fed /\ HostSound(H) /\ Behind(H, cr["host"])
    BY HostBehind DEF Behind
  <2>2. H.id
    BY <2>1, <1>1 DEF HostSound
  <2>3. now \in Nat
    BY <1>1, NowTyped
  <2> QED
    BY <2>1, <2>2, <2>3
<1>3. new \in Fed /\ new.here = H.here /\ new.deleting = H.deleting
  BY <1>2, ExaminedDates
<1>4. ASSUME NEW m \in Fed, cr["host"].here, Patch(m, cr["host"], H, new)
      PROVE  MayBe(H, cr["host"], m)
  BY <1>1, <1>2, <1>4, DatesExamined
<1> HIDE DEF new
<1>5. /\ f \in Fed /\ HostMay(f) /\ Write("host", f) /\ UNCHANGED cache
      /\ timer' = timer => FedInv' /\ HostGoesOn
      /\ timer' \in Nat /\ TimerInv' => FedInv' /\ HostGoesOn
  BY <1>1, <1>3, <1>4, Reconciled, HostReconcileStep
<1> HIDE DEF f
<1>6. cr'["host"] = f
  BY <1>1, <1>5, Written DEF Side
<1>7. /\ timer' \in Nat
      /\ timer' = timer \/ (~Locks(H) /\ H.expiry # 0 => timer' <= H.expiry + 1)
      /\ Locks(H) => timer' = timer
  BY <1>1, <1>2, Woken
<1>8. TimerInv'
  <2>1. timer <= granted + 1 /\ H.expiry <= granted
    BY HostBehind DEF FedInv, TimerInv, HostInv
  <2>2. granted <= granted' /\ granted' \in Nat
    BY <1>1, <1>5, Written DEF Side
  <2>3. timer \in Nat /\ granted \in Nat /\ H.expiry \in Nat
    BY <1>1, <1>2, Dates, DatesAreNumbers DEF TypeOK
  <2>4. timer' = timer \/ timer' <= H.expiry + 1
    BY <1>1, <1>2, <1>7, Expires
  <2>5. \A t, g, u, e \in Nat : g <= u /\ (t <= g + 1 \/ (t <= e + 1 /\ e <= g)) => t <= u + 1
    OBVIOUS
  <2>6. timer' <= granted' + 1
    BY <2>1, <2>2, <2>3, <2>4, <2>5, <1>7
  <2> QED
    BY <2>6 DEF TimerInv
<1> QED
  BY <1>5, <1>7, <1>8

(***************************************************************************)
(* The users of the guest and the orchestrator of the host.                *)
(***************************************************************************)
LEMMA RestStays ==
  ASSUME FedInv, UNCHANGED <<now, queue, timer, run>>,
         watch' \in [st : {"none", "starting", "live"}, event : BOOLEAN]
  PROVE  RestTyped' /\ RunInv' /\ ClaimsOn
<1>1. TypeOK /\ RunInv
  BY DEF FedInv
<1>2. RestTyped'
  BY <1>1 DEF TypeOK, RestTyped
<1>3. RunInv' /\ ClaimsOn
  BY <1>1 DEF RunInv, ClaimsOn
<1> QED
  BY <1>2, <1>3

LEMMA WatchTyped ==
  ASSUME TypeOK
  PROVE  /\ watch \in [st : {"none", "starting", "live"}, event : BOOLEAN]
         /\ NoWatch \in [st : {"none", "starting", "live"}, event : BOOLEAN]
         /\ [st |-> "starting", event |-> FALSE] \in [st : {"none", "starting", "live"}, event : BOOLEAN]
  BY DEF TypeOK, NoWatch

LEMMA UserRenewsStep ==
  ASSUME FedInv, UserRenews
  PROVE  FedInv' /\ HostGoesOn
<1> DEFINE g == cr["guest"]
           f == [g EXCEPT !.renew = TRUE]
<1>1. TypeOK /\ Write("guest", f) /\ UNCHANGED <<now, cache, queue, timer, run, watch>>
  BY DEF FedInv, UserRenews
<1>2. g \in Fed /\ g \in Versions("guest")
  BY <1>1 DEF TypeOK, Side, Versions
<1>3. f \in Fed /\ f.here = g.here /\ f.deleting = g.deleting /\ f.state = g.state
  BY <1>2 DEF Fed
<1>4. g.deleting => g.here
  BY <1>2 DEF FedInv, GuestSound
<1>5. GuestMay(f)
  BY <1>3, <1>4 DEF GuestMay, Claims
<1>6. RestTyped' /\ RunInv'
  BY <1>1, RestStays, WatchTyped
<1> HIDE DEF f
<1> QED
  BY <1>1, <1>3, <1>5, <1>6, GuestStep

LEMMA UserDeletesStep ==
  ASSUME FedInv, UserDeletes
  PROVE  FedInv' /\ HostGoesOn
<1> DEFINE g == cr["guest"]
           e == [g EXCEPT !.deleting = TRUE]
           f == Kept(e)
<1>1. /\ TypeOK /\ Write("guest", f) /\ UNCHANGED <<now, cache, queue, timer, run, watch>>
      /\ g.here /\ ~g.deleting
  BY DEF FedInv, UserDeletes, Live
<1>2. g \in Fed
  BY <1>1 DEF TypeOK, Side
<1>3. e \in Fed /\ e.here = g.here /\ e.deleting = TRUE /\ e.state = g.state
  BY <1>2 DEF Fed
<1> HIDE DEF e
<1>4. f \in Fed /\ GuestMay(f)
  <2>1. CASE f = e
    BY <2>1, <1>1, <1>3 DEF GuestMay, Claims
  <2>2. CASE f = NoFed
    BY <2>2, Gone DEF GuestMay
  <2> QED
    BY <2>1, <2>2, Keeping
<1>5. RestTyped' /\ RunInv'
  BY <1>1, RestStays, WatchTyped
<1> HIDE DEF f
<1> QED
  BY <1>1, <1>4, <1>5, GuestStep

\* What changes only what the host's history does not tell apart.
LEMMA HostVariant ==
  ASSUME FedInv, cr["host"].here, NEW f \in Fed,
         f.here = cr["host"].here, f.fin = cr["host"].fin, f.policy = cr["host"].policy,
         f.state = cr["host"].state, f.id = cr["host"].id,
         f.expiry = cr["host"].expiry, f.renewal = cr["host"].renewal,
         cr["host"].deleting => f.deleting,
         f.deleting => GuestOut
  PROVE  HostMay(f) /\ KeepsLock(f)
<1> DEFINE h == cr["host"]
<1>1. HostSound(h) /\ Lags(H, h)
  BY HostBehind DEF Behind
<1>2. HostSound(f)
  BY <1>1 DEF HostSound, Dated, Dateless
<1>3. Lags(H, f)
  BY <1>1 DEF Lags
<1>4. Grows("host", h, f)
  BY DEF Grows, HostGrows
<1> QED
  BY <1>2, <1>3, <1>4 DEF HostMay, Continues, KeepsLock

LEMMA HostStays ==
  ASSUME FedInv
  PROVE  HostMay(cr["host"]) /\ KeepsLock(cr["host"])
<1> DEFINE h == cr["host"]
<1>1. HostSound(h) /\ Lags(H, h)
  BY HostBehind DEF Behind
<1>2. h.deleting => GuestOut
  BY DEF FedInv, EndInv, Ending
<1> QED
  BY <1>1, <1>2, GrowsOn DEF HostMay, Continues, KeepsLock

LEMMA OrchestratorExtendsStep ==
  ASSUME FedInv, NEW d \in Extensions, OrchestratorExtends(d)
  PROVE  FedInv'
<1> DEFINE h == cr["host"]
           f == [h EXCEPT !.expiry = d, !.state = "AVAILABLE"]
<1>1. /\ TypeOK /\ Write("host", f) /\ watch' = Seen(f)
      /\ UNCHANGED <<now, cache, queue, timer, run>> /\ h.here /\ ~h.deleting /\ h.id
  BY DEF FedInv, OrchestratorExtends, Live
<1>2. h \in Fed /\ HostSound(h) /\ Lags(H, h)
  BY HostBehind DEF Behind
<1>3. d \in Date /\ d # 0 /\ "AVAILABLE" \in State
  BY FederationAssumption DEF Date, State
<1>4. /\ f \in Fed /\ f.here = h.here /\ f.deleting = h.deleting /\ f.fin = h.fin
      /\ f.policy = h.policy /\ f.state = "AVAILABLE" /\ f.id = h.id
      /\ f.expiry = d /\ f.renewal = h.renewal
  BY <1>2, <1>3 DEF Fed
<1> HIDE DEF f
<1>5. HostSound(f)
  BY <1>1, <1>2, <1>3, <1>4 DEF HostSound, Dated
<1>6. Lags(H, f) /\ Grows("host", h, f)
  BY <1>1, <1>2, <1>4 DEF Lags, Grows, HostGrows
<1>7. HostMay(f)
  BY <1>1, <1>4, <1>5, <1>6 DEF HostMay, Continues
<1>8. RestTyped' /\ RunInv' /\ ClaimsOn
  BY <1>1, SeenTyped, RestStays
<1>9. TimerInv'
  BY <1>1, <1>4, TimerKept
<1> QED
  BY <1>1, <1>4, <1>7, <1>8, <1>9, HostStep

LEMMA OrchestratorStep ==
  ASSUME FedInv, NEW z \in Zones, OrchestratorOffers(z)
  PROVE  FedInv' /\ HostGoesOn
<1> DEFINE h == cr["host"]
           f == [h EXCEPT !.zones = z]
<1>1. /\ TypeOK /\ Write("host", f) /\ watch' = Seen(f)
      /\ UNCHANGED <<now, cache, queue, timer, run>> /\ h.here /\ ~h.deleting
  BY DEF FedInv, OrchestratorOffers, Live
<1>2. h \in Fed
  BY <1>1 DEF TypeOK, Side
<1>3. /\ f \in Fed /\ f.here = h.here /\ f.deleting = h.deleting /\ f.fin = h.fin
      /\ f.policy = h.policy /\ f.state = h.state /\ f.id = h.id
      /\ f.expiry = h.expiry /\ f.renewal = h.renewal
  BY <1>2 DEF Fed
<1> HIDE DEF f
<1>4. HostMay(f) /\ KeepsLock(f)
  BY <1>1, <1>3, HostVariant
<1>5. RestTyped' /\ RunInv' /\ ClaimsOn
  BY <1>1, SeenTyped, RestStays
<1>6. TimerInv'
  BY <1>1, <1>3, <1>4, TimerKept
<1> QED
  BY <1>1, <1>3, <1>4, <1>5, <1>6, HostStep

(***************************************************************************)
(* The guest's operator.                                                   *)
(***************************************************************************)
\* What a guest's reconcile may conclude from the CR it works on.
LEMMA GuestKnown ==
  ASSUME FedInv
  PROVE  /\ TypeOK /\ G \in Fed /\ G \in Versions("guest") /\ cr["guest"] \in Fed
         /\ G.deleting => GuestOut
         /\ Live(G) => ~GuestOut
<1>1. TypeOK /\ Chains /\ GuestSound
  BY DEF FedInv
<1>2. G \in Fed /\ cr["guest"] \in Fed
  BY <1>1 DEF TypeOK, G, Side
<1>3. G \in Versions("guest")
  BY DEF G, Versions
<1>4. ASSUME G.deleting PROVE GuestOut
  <2>1. G.here
    BY <1>1, <1>3, <1>4 DEF GuestSound
  <2>2. ASSUME NEW v \in Versions("guest") PROVE ~Live(v)
    <3>1. Follows("guest", G, v, cr["guest"])
      BY <1>1, VersionsFollow DEF Chains, G, Side
    <3> QED
      BY <2>1, <1>4, <3>1 DEF Follows, Grows, Live
  <2> QED
    BY <2>2 DEF GuestOut
<1>5. Live(G) => ~GuestOut
  BY <1>3 DEF GuestOut
<1> QED
  BY <1>1, <1>2, <1>3, <1>4, <1>5

\* What a reconcile of the guest may be about to patch.
GuestWants(new) ==
  /\ new \in Fed /\ new.here = G.here /\ new.deleting = G.deleting
  /\ Claims(new) => Claims(G) \/ (cr["host"].here /\ cr["host"].id)

LEMMA GuestResults ==
  ASSUME FedInv, NEW new, GuestWants(new), NEW again \in BOOLEAN, GuestBegins, GuestResult(new, again),
         watch' \in [st : {"none", "starting", "live"}, event : BOOLEAN]
  PROVE  RestTyped' /\ RunInv' /\ ClaimsOn /\ UNCHANGED <<cache, timer>>
<1>1. TypeOK /\ G \in Fed /\ G \in Versions("guest")
  BY GuestKnown
<1>2. /\ run' = [busy |-> TRUE, seen |-> G, new |-> new]
      /\ queue' = [queue EXCEPT !["guest"] = again]
      /\ UNCHANGED <<now, cache, timer>>
  BY DEF GuestResult, GuestBegins
<1>3. queue' \in [Side -> BOOLEAN]
  BY <1>1, <1>2 DEF TypeOK
<1>4. /\ run' \in [busy : BOOLEAN, seen : Fed, new : Fed]
      /\ run'.new = new /\ run'.seen = G
  BY <1>1, <1>2 DEF GuestWants
<1>5. RestTyped'
  BY <1>1, <1>2, <1>3, <1>4 DEF TypeOK, RestTyped
<1>6. RunInv' /\ ClaimsOn
  BY <1>1, <1>4 DEF RunInv, ClaimsOn, GuestWants
<1> QED
  BY <1>2, <1>5, <1>6

LEMMA GuestQuietStep ==
  ASSUME FedInv, NEW new, GuestWants(new), NEW again \in BOOLEAN, GuestBegins, GuestResult(new, again),
         NoCall
  PROVE  FedInv' /\ HostGoesOn
<1>1. UNCHANGED <<cr, log, watch, granted>>
  BY DEF NoCall
<1>2. watch' \in [st : {"none", "starting", "live"}, event : BOOLEAN]
  BY <1>1, GuestKnown, WatchTyped
<1>3. RestTyped' /\ RunInv' /\ ClaimsOn /\ UNCHANGED <<cache, timer>>
  BY <1>2, GuestResults
<1> QED
  BY <1>1, <1>3, QuietStep

LEMMA GuestCallStep ==
  ASSUME FedInv, NEW new, GuestWants(new), NEW again \in BOOLEAN, GuestBegins, GuestResult(new, again),
         watch' \in [st : {"none", "starting", "live"}, event : BOOLEAN],
         NEW f \in Fed, Write("host", f), HostMay(f), KeepsLock(f)
  PROVE  FedInv' /\ HostGoesOn
<1>1. RestTyped' /\ RunInv' /\ ClaimsOn /\ UNCHANGED <<cache, timer>>
  BY GuestResults
<1>2. TimerInv'
  BY <1>1, TimerKept
<1> QED
  BY <1>1, <1>2, HostStep

\* What the guest's reconciles make of their CR claims nothing new.
LEMMA Wanted ==
  ASSUME FedInv
  PROVE  /\ GuestWants(G)
         /\ GuestWants([G EXCEPT !.mark = FALSE])
         /\ GuestWants([G EXCEPT !.fin = FALSE])
         /\ GuestWants([G EXCEPT !.fin = TRUE, !.policy = "not-set", !.mark = TRUE])
         /\ GuestWants([G EXCEPT !.policy = "set"])
         /\ GuestWants([G EXCEPT !.state = "NOT_AVAILABLE"])
         /\ GuestWants([G EXCEPT !.state = "FAILED"])
         /\ GuestWants([[G EXCEPT !.state = "NOT_AVAILABLE"] EXCEPT !.state = "FAILED"])
<1>1. G \in Fed
  BY GuestKnown
<1>2. GuestWants(G)
  BY <1>1 DEF GuestWants
<1>3. ASSUME NEW x \in BOOLEAN, NEW y \in {"not-set", "set"}, NEW w \in {"NOT_AVAILABLE", "FAILED"}
      PROVE  /\ GuestWants([G EXCEPT !.mark = x])
             /\ GuestWants([G EXCEPT !.fin = x])
             /\ GuestWants([G EXCEPT !.fin = x, !.policy = y, !.mark = x])
             /\ GuestWants([G EXCEPT !.policy = y])
             /\ GuestWants([G EXCEPT !.state = w])
  <2>1. GuestWants([G EXCEPT !.mark = x])
    BY <1>1 DEF GuestWants, Fed, Claims
  <2>2. GuestWants([G EXCEPT !.fin = x])
    BY <1>1 DEF GuestWants, Fed, Claims
  <2>3. GuestWants([G EXCEPT !.fin = x, !.policy = y, !.mark = x])
    BY <1>1 DEF GuestWants, Fed, Claims
  <2>4. GuestWants([G EXCEPT !.policy = y])
    BY <1>1 DEF GuestWants, Fed, Claims
  <2>5. GuestWants([G EXCEPT !.state = w])
    BY <1>1 DEF GuestWants, Fed, Claims, State
  <2> QED
    BY <2>1, <2>2, <2>3, <2>4, <2>5
<1>4. [[G EXCEPT !.state = "NOT_AVAILABLE"] EXCEPT !.state = "FAILED"] = [G EXCEPT !.state = "FAILED"]
  BY <1>1 DEF Fed
<1> QED
  BY <1>2, <1>3, <1>4

LEMMA GuestIgnoresStep ==
  ASSUME FedInv, GuestIgnores
  PROVE  FedInv' /\ HostGoesOn
<1>1. GuestBegins /\ GuestResult([G EXCEPT !.mark = FALSE], FALSE) /\ NoCall
  BY DEF GuestIgnores
<1> QED
  BY <1>1, Wanted, GuestQuietStep

LEMMA GuestBlockedStep ==
  ASSUME FedInv, GuestBlocked
  PROVE  FedInv' /\ HostGoesOn
<1>1. GuestBegins /\ GuestResult(G, TRUE) /\ NoCall
  BY DEF GuestBlocked
<1> QED
  BY <1>1, Wanted, GuestQuietStep

LEMMA GuestAddsFinalizerStep ==
  ASSUME FedInv, GuestAddsFinalizer
  PROVE  FedInv' /\ HostGoesOn
<1>1. /\ GuestBegins /\ NoCall
      /\ GuestResult([G EXCEPT !.fin = TRUE, !.policy = "not-set", !.mark = TRUE], FALSE)
  BY DEF GuestAddsFinalizer
<1> QED
  BY <1>1, Wanted, GuestQuietStep

LEMMA PolicyErrors ==
  ASSUME FedInv, NEW f \in PolicyError(G)
  PROVE  GuestWants(f)
<1>1. G \in Fed
  BY GuestKnown
<1>2. G = [G EXCEPT !.state = G.state]
  BY <1>1 DEF Fed
<1>3. f = G \/ f = [G EXCEPT !.state = "FAILED"]
  BY <1>2 DEF PolicyError
<1> QED
  BY <1>3, Wanted

LEMMA GuestAddsPolicyStep ==
  ASSUME FedInv, GuestAddsPolicy
  PROVE  FedInv' /\ HostGoesOn
<1>1. GuestBegins /\ NoCall
  BY DEF GuestAddsPolicy
<1>2. CASE GuestResult([G EXCEPT !.policy = "set"], FALSE)
  BY <1>1, <1>2, Wanted, GuestQuietStep
<1>3. ASSUME NEW f \in PolicyError(G), GuestResult(f, TRUE)
      PROVE  FedInv' /\ HostGoesOn
  BY <1>1, <1>3, PolicyErrors, GuestQuietStep
<1> QED
  BY <1>2, <1>3 DEF GuestAddsPolicy

LEMMA GuestMarksStep ==
  ASSUME FedInv, GuestMarks
  PROVE  FedInv' /\ HostGoesOn
<1>1. GuestBegins /\ GuestResult([G EXCEPT !.mark = FALSE], FALSE) /\ NoCall
  BY DEF GuestMarks
<1> QED
  BY <1>1, Wanted, GuestQuietStep

LEMMA GuestFindsNoCopyStep ==
  ASSUME FedInv, GuestFindsNoCopy
  PROVE  FedInv' /\ HostGoesOn
<1>1. GuestBegins /\ GuestResult([G EXCEPT !.state = "FAILED"], TRUE) /\ NoCall
  BY DEF GuestFindsNoCopy
<1> QED
  BY <1>1, Wanted, GuestQuietStep

LEMMA GuestDeletesStep ==
  ASSUME FedInv, GuestDeletes
  PROVE  FedInv' /\ HostGoesOn
<1> DEFINE h == cr["host"]
           e == [h EXCEPT !.deleting = TRUE]
           f == IF h.here THEN Kept(e) ELSE h
<1>1. /\ GuestBegins /\ G.deleting /\ Write("host", f) /\ watch' = NoWatch
      /\ GuestResult([G EXCEPT !.fin = FALSE], FALSE) \/ GuestResult(G, TRUE)
  BY DEF GuestDeletes
<1>2. TypeOK /\ GuestOut
  BY <1>1, GuestKnown
<1>3. h \in Fed
  BY <1>2 DEF TypeOK, Side
<1>4. /\ e \in Fed /\ e.here = h.here /\ e.deleting = TRUE /\ e.fin = h.fin
      /\ e.policy = h.policy /\ e.state = h.state /\ e.id = h.id
      /\ e.expiry = h.expiry /\ e.renewal = h.renewal
  BY <1>3 DEF Fed
<1> HIDE DEF e
<1>5. f \in Fed /\ HostMay(f) /\ KeepsLock(f)
  <2>1. CASE ~h.here
    BY <2>1, <1>3, HostStays
  <2>2. CASE h.here /\ f = e
    BY <2>2, <1>2, <1>4, HostVariant
  <2>3. CASE h.here /\ f = NoFed
    BY <2>3, <1>2, Gone, NoFedSound DEF HostMay, Continues, Lags, KeepsLock
  <2> QED
    BY <2>1, <2>2, <2>3, Keeping
<1> HIDE DEF f
<1>6. watch' \in [st : {"none", "starting", "live"}, event : BOOLEAN]
  BY <1>1, <1>2, WatchTyped
<1>7. CASE GuestResult([G EXCEPT !.fin = FALSE], FALSE)
  BY <1>1, <1>5, <1>6, <1>7, Wanted, GuestCallStep
<1>8. CASE GuestResult(G, TRUE)
  BY <1>1, <1>5, <1>6, <1>8, Wanted, GuestCallStep
<1> QED
  BY <1>1, <1>7, <1>8

LEMMA GuestCreatesStep ==
  ASSUME FedInv, GuestCreates
  PROVE  FedInv' /\ HostGoesOn
<1> DEFINE h == cr["host"]
           f == IF h.here THEN h ELSE NewFed
<1>1. /\ GuestBegins /\ Live(G) /\ Write("host", f)
      /\ watch' \in {watch, [st |-> "starting", event |-> FALSE]}
      /\ GuestResult([G EXCEPT !.state = "NOT_AVAILABLE"], FALSE)
  BY DEF GuestCreates, GuestSettled
<1>2. TypeOK /\ ~GuestOut /\ EndInv
  BY <1>1, GuestKnown DEF FedInv
<1>3. h \in Fed
  BY <1>2 DEF TypeOK, Side
<1>4. f \in Fed /\ HostMay(f) /\ KeepsLock(f)
  <2>1. CASE h.here
    BY <2>1, <1>3, HostStays
  <2>2. CASE ~h.here
    <3>1. \A v \in Versions("host") : ~v.here
      BY <2>2, <1>2 DEF EndInv, Ending
    <3>2. f = NewFed /\ NewFed \in Fed /\ NewFed.here /\ ~NewFed.deleting
          /\ NewFed.policy = "" /\ NewFed.state = "" /\ NewFed.id = FALSE
      BY <2>2, Created
    <3>3. Lags(H, NewFed)
      BY <3>2 DEF Lags
    <3>4. h.state # "LOCKED"
      BY <2>2, HostBehind, SoundIsThere DEF Behind
    <3> QED
      BY <2>2, <3>1, <3>2, <3>3, <1>2, <3>4, NewFedSound DEF HostMay, Continues, KeepsLock
  <2> QED
    BY <2>1, <2>2
<1> HIDE DEF f
<1>5. watch' \in [st : {"none", "starting", "live"}, event : BOOLEAN]
  BY <1>1, <1>2, WatchTyped
<1> QED
  BY <1>1, <1>4, <1>5, Wanted, GuestCallStep

\* What the guest's operator copies, it may claim.
LEMMA CopiedWanted ==
  ASSUME FedInv, cr["host"].here, NEW f, f = Copied(G, cr["host"])
  PROVE  f \in Fed /\ GuestWants(f)
<1> DEFINE h == cr["host"]
<1>1. G \in Fed /\ h \in Fed /\ HostSound(h)
  BY GuestKnown, HostBehind DEF Behind
<1>2. CASE f = G
  BY <1>1, <1>2, Wanted
<1>3. CASE f = Copy(G, h)
  <2>1. h.state \in State /\ h.id \in BOOLEAN /\ h.zones \in Zones \cup {0}
    BY <1>1 DEF Fed
  <2>2. f = [G EXCEPT !.state = h.state, !.id = h.id, !.zones = h.zones]
    BY <1>3 DEF Copy
  <2> HIDE DEF h
  <2>3. f \in Fed /\ f.here = G.here /\ f.deleting = G.deleting /\ f.state = h.state
    BY <1>1, <2>1, <2>2 DEF Fed
  <2>4. h.state = "AVAILABLE" => h.id
    BY <1>1 DEF HostSound
  <2> QED
    BY <2>3, <2>4 DEF GuestWants, Claims, h
<1> QED
  BY <1>2, <1>3 DEF Copied

LEMMA GuestSyncsStatusStep ==
  ASSUME FedInv, GuestSyncsStatus
  PROVE  FedInv' /\ HostGoesOn
<1> DEFINE h == cr["host"]
           f == Copied(G, h)
<1>1. /\ GuestBegins /\ h.here /\ UNCHANGED watch
      /\ IF Asks(f)
         THEN /\ Write("host", [h EXCEPT !.renew = TRUE])
              /\ GuestResult([f EXCEPT !.state = "NOT_AVAILABLE", !.renew = FALSE], FALSE)
         ELSE Write("host", h) /\ GuestResult(f, FALSE)
  BY DEF GuestSyncsStatus
<1>2. f \in Fed /\ GuestWants(f)
  BY <1>1, CopiedWanted
<1> HIDE DEF f
<1>3. TypeOK /\ h \in Fed
  BY GuestKnown, HostBehind DEF Behind
<1>4. watch' \in [st : {"none", "starting", "live"}, event : BOOLEAN]
  BY <1>1, <1>3, WatchTyped
<1>5. CASE ~Asks(f)
  BY <1>1, <1>2, <1>3, <1>4, <1>5, HostStays, GuestCallStep
<1>6. CASE Asks(f)
  <2> DEFINE e == [h EXCEPT !.renew = TRUE]
             new == [f EXCEPT !.state = "NOT_AVAILABLE", !.renew = FALSE]
  <2>1. /\ e \in Fed /\ e.here = h.here /\ e.deleting = h.deleting /\ e.fin = h.fin
        /\ e.policy = h.policy /\ e.state = h.state /\ e.id = h.id
        /\ e.expiry = h.expiry /\ e.renewal = h.renewal
    BY <1>3 DEF Fed
  <2>2. h.deleting => GuestOut
    BY DEF FedInv, EndInv, Ending
  <2>3. HostMay(e) /\ KeepsLock(e)
    <3> HIDE DEF e
    <3> QED
      BY <1>1, <2>1, <2>2, HostVariant
  <2>4. GuestWants(new)
    BY <1>2 DEF GuestWants, Fed, State, Claims
  <2>5. Write("host", e) /\ GuestResult(new, FALSE)
    BY <1>1, <1>6
  <2> HIDE DEF e, new
  <2> QED
    BY <1>1, <1>4, <2>1, <2>3, <2>4, <2>5, GuestCallStep
<1> QED
  BY <1>5, <1>6

LEMMA CallErrors ==
  ASSUME FedInv, NEW g, GuestWants(g), NEW f \in CallError(g)
  PROVE  GuestWants(f)
<1>1. g \in Fed
  BY DEF GuestWants
<1>2. g = [g EXCEPT !.state = g.state]
  BY <1>1 DEF Fed
<1>3. CASE f = [g EXCEPT !.state = "FAILED"]
  BY <1>1, <1>3 DEF GuestWants, Fed, State, Claims
<1>4. f = g \/ f = [g EXCEPT !.state = "FAILED"]
  BY <1>2 DEF CallError
<1> QED
  BY <1>3, <1>4

LEMMA GuestCallFailsStep ==
  ASSUME FedInv, GuestCallFails
  PROVE  FedInv' /\ HostGoesOn
<1>1. GuestBegins /\ NoCall
  BY DEF GuestCallFails
<1>2. ASSUME NEW g, GuestWants(g), NEW f \in CallError(g), GuestResult(f, TRUE)
      PROVE  FedInv' /\ HostGoesOn
  BY <1>1, <1>2, CallErrors, GuestQuietStep
<1>3. CASE GuestResult(G, TRUE)
  BY <1>1, <1>3, Wanted, GuestQuietStep
<1>4. CASE \E f \in CallError([G EXCEPT !.state = "NOT_AVAILABLE"]) : GuestResult(f, TRUE)
  BY <1>2, <1>4, Wanted
<1>5. CASE \E f \in CallError(G) : GuestResult(f, TRUE)
  BY <1>2, <1>5, Wanted
<1>6. CASE cr["host"].here /\ \E f \in CallError(Copied(G, cr["host"])) : GuestResult(f, TRUE)
  BY <1>2, <1>6, CopiedWanted
<1> QED
  BY <1>3, <1>4, <1>5, <1>6 DEF GuestCallFails

LEMMA GuestPatchesStep ==
  ASSUME FedInv, GuestPatches
  PROVE  FedInv' /\ HostGoesOn
<1> DEFINE g == cr["guest"]
           m == Merge(g, run.seen, run.new)
           f == Merged(g, run.seen, run.new)
<1>1. /\ Write("guest", f) /\ run' = NoRun /\ UNCHANGED <<now, cache, queue, timer, watch>>
  BY DEF GuestPatches
<1>2. TypeOK /\ RunInv /\ GuestSound
  BY DEF FedInv
<1>3. g \in Fed /\ run.seen \in Fed /\ run.new \in Fed /\ g \in Versions("guest")
  BY <1>2 DEF TypeOK, Side, Versions
<1>4. g.deleting => g.here
  BY <1>2, <1>3 DEF GuestSound
<1>5. m \in Fed /\ Patch(m, g, run.seen, run.new)
  BY <1>3, Merging
<1>6. m.here = g.here /\ m.deleting = g.deleting
      /\ (m.state = "AVAILABLE" => g.state = "AVAILABLE" \/ run.new.state = "AVAILABLE")
  BY <1>2, <1>5 DEF Patch, Pick, RunInv
<1>7. f = g \/ f = Kept(m)
  BY MergedIsMerge
<1> HIDE DEF m, f
<1>8. f \in Fed /\ GuestMay(f)
  <2>1. CASE f = g
    BY <2>1, <1>3, <1>4 DEF GuestMay
  <2>2. CASE f = m
    BY <2>2, <1>4, <1>5, <1>6 DEF GuestMay, Claims
  <2>3. CASE f = NoFed
    BY <2>3, Gone DEF GuestMay
  <2> QED
    BY <2>1, <2>2, <2>3, <1>7, Keeping
<1>9. RestTyped' /\ RunInv' /\ ~Claims(run'.new)
  BY <1>1, <1>2, NoRunTyped, Gone DEF TypeOK, RestTyped, RunInv
<1> QED
  BY <1>1, <1>8, <1>9, GuestStep

(***************************************************************************)
(* What writes to no CR.                                                   *)
(***************************************************************************)
LEMMA RunStays ==
  ASSUME FedInv, UNCHANGED run
  PROVE  RunInv' /\ ClaimsOn /\ run' \in [busy : BOOLEAN, seen : Fed, new : Fed]
<1>1. RunInv /\ TypeOK
  BY DEF FedInv
<1> QED
  BY <1>1 DEF RunInv, ClaimsOn, TypeOK

LEMMA OtherSteps ==
  ASSUME FedInv,
         \/ TimerFires \/ WatcherLists \/ WatcherDelivers \/ Tick
         \/ (\E s \in Side : Resync(s)) \/ UNCHANGED vars
  PROVE  FedInv' /\ HostGoesOn
<1>1. TypeOK
  BY DEF FedInv
<1>2. ASSUME UNCHANGED <<cr, cache, log, run, granted>>, now' \in 1 .. Horizon,
             timer' \in {0, timer}, queue' \in [Side -> BOOLEAN],
             watch' \in [st : {"none", "starting", "live"}, event : BOOLEAN]
      PROVE  FedInv' /\ HostGoesOn
  <2>1. RestTyped'
    BY <1>1, <1>2, RunStays DEF TypeOK, RestTyped
  <2> QED
    BY <1>2, <2>1, RunStays, QuietStep
<1>3. CASE TimerFires
  <2>1. queue' \in [Side -> BOOLEAN] /\ watch' = watch /\ now' \in 1 .. Horizon
    BY <1>1, <1>3 DEF TypeOK, TimerFires
  <2> QED
    BY <2>1, <1>1, <1>2, <1>3, WatchTyped DEF TimerFires
<1>4. CASE WatcherLists
  <2>1. watch' \in [st : {"none", "starting", "live"}, event : BOOLEAN]
    BY <1>1, <1>4 DEF TypeOK, WatcherLists
  <2> QED
    BY <2>1, <1>1, <1>2, <1>4 DEF TypeOK, WatcherLists
<1>5. CASE WatcherDelivers
  <2>1. watch' \in [st : {"none", "starting", "live"}, event : BOOLEAN] /\ queue' \in [Side -> BOOLEAN]
    BY <1>1, <1>5 DEF TypeOK, WatcherDelivers
  <2> QED
    BY <2>1, <1>1, <1>2, <1>5 DEF TypeOK, WatcherDelivers
<1>6. CASE Tick
  <2>1. now' \in 1 .. Horizon
    BY <1>1, <1>6, FederationAssumption DEF TypeOK, Tick
  <2> QED
    BY <2>1, <1>1, <1>2, <1>6 DEF TypeOK, Tick
<1>7. CASE \E s \in Side : Resync(s)
  <2>1. queue' \in [Side -> BOOLEAN]
    BY <1>1, <1>7 DEF TypeOK, Resync
  <2> QED
    BY <2>1, <1>1, <1>2, <1>7 DEF TypeOK, Resync
<1>8. CASE UNCHANGED vars
  BY <1>1, <1>2, <1>8 DEF TypeOK, vars
<1> QED
  BY <1>3, <1>4, <1>5, <1>6, <1>7, <1>8

\* The invariant holds of a new federation.
LEMMA InitInv == Init => FedInv
<1> SUFFICES ASSUME Init PROVE FedInv
  OBVIOUS
<1>1. /\ now = 1 /\ cr = [guest |-> NewFed, host |-> NoFed] /\ cache = [s \in Side |-> NoFed]
      /\ log = [guest |-> <<NewFed>>, host |-> <<>>]
      /\ queue = [s \in Side |-> FALSE] /\ timer = 0 /\ run = NoRun /\ watch = NoWatch
      /\ granted = 0
  BY DEF Init
<1>2. NoFed \in Fed /\ NewFed \in Fed /\ ~NoFed.here /\ ~NoFed.deleting
  BY Gone, Created
<1>3. /\ cr["guest"] = NewFed /\ cr["host"] = NoFed /\ cache["guest"] = NoFed /\ cache["host"] = NoFed
      /\ log["guest"] = <<NewFed>> /\ log["host"] = <<>>
      /\ cr \in [Side -> Fed] /\ cache \in [Side -> Fed] /\ log \in [Side -> Seq(Fed)]
  <2>1. "guest" \in Side /\ "host" \in Side /\ Side = {"guest", "host"}
    BY DEF Side
  <2>2. <<NewFed>> \in Seq(Fed) /\ <<>> \in Seq(Fed)
    BY <1>2
  <2>3. cr["guest"] = NewFed /\ cr["host"] = NoFed /\ cache["guest"] = NoFed /\ cache["host"] = NoFed
    BY <1>1, <2>1
  <2>4. cr \in [Side -> Fed] /\ cache \in [Side -> Fed]
    BY <1>1, <1>2, <2>1
  <2>5. log["guest"] = <<NewFed>> /\ log["host"] = <<>>
    BY <1>1
  <2>6. log \in [Side -> Seq(Fed)]
    <3> DEFINE a == <<NewFed>>
               b == <<>>
    <3>1. a \in Seq(Fed) /\ b \in Seq(Fed) /\ log = [guest |-> a, host |-> b]
      BY <1>1, <2>2
    <3> HIDE DEF a, b
    <3> QED
      BY <3>1, <2>1
  <2> QED
    BY <2>3, <2>4, <2>5, <2>6
<1>4. Len(<<NewFed>>) = 1 /\ <<NewFed>>[1] = NewFed /\ Len(<<>>) = 0
  OBVIOUS
<1>5. TypeOK
  <2>1. now \in 1 .. Horizon
    BY <1>1, FederationAssumption
  <2>2. \A s \in Side : Len(log[s]) <= MaxLag
    <3>1. 0 <= MaxLag /\ 1 <= MaxLag
      BY FederationAssumption
    <3>2. Len(log["guest"]) = 1 /\ Len(log["host"]) = 0
      BY <1>3, <1>4
    <3> QED
      BY <3>1, <3>2 DEF Side
  <2>3. queue \in [Side -> BOOLEAN] /\ timer \in Nat
    BY <1>1
  <2>4. run \in [busy : BOOLEAN, seen : Fed, new : Fed]
    BY <1>1, NoRunTyped
  <2>5. watch \in [st : {"none", "starting", "live"}, event : BOOLEAN]
    BY <1>1 DEF NoWatch
  <2>6. granted \in Date
    BY <1>1, Zeros
  <2> QED
    BY <1>3, <2>1, <2>2, <2>3, <2>4, <2>5, <2>6 DEF TypeOK
<1>6. Chains
  <2>1. InOrder("host", NoFed, <<>>, NoFed) /\ InOrder("guest", NoFed, <<>>, NoFed)
    BY OrderAlone
  <2>2. <<>> \in Seq(Fed) /\ Append(<<>>, NewFed) = <<NewFed>>
    BY <1>2
  <2>3. InOrder("guest", NoFed, Append(<<>>, NewFed), NewFed)
    <3>1. \A i \in 1 .. Len(<<>>) : FALSE
      BY <1>4
    <3>2. NoFed.here = FALSE
      BY SMT DEF NoFed
    <3> QED
      BY <1>2, <2>1, <2>2, <3>1, <3>2, OrderAppend
  <2> QED
    BY <2>1, <2>2, <2>3, <1>3 DEF Chains, Side
<1>7. Versions("host") = {NoFed} /\ Versions("guest") = {NoFed, NewFed}
  BY <1>3, <1>4 DEF Versions
<1>8. NewFed.deleting = FALSE /\ NewFed.here = TRUE /\ NewFed.state = ""
  BY Created
<1>9. HostInv
  <2>1. NoFed.expiry = 0
    BY SMT DEF NoFed
  <2> QED
    BY <2>1, <1>1, <1>2, <1>3, <1>7, NoFedSound DEF HostInv, Lags
<1>10. GuestSound /\ EndInv
  BY <1>2, <1>3, <1>7, <1>8 DEF GuestSound, EndInv, Ending
<1>11. TimerInv /\ RunInv
  BY <1>1, NoRunTyped DEF TimerInv, RunInv
<1>12. ClaimInv
  <2>1. run.new = NoFed
    BY <1>1, NoRunTyped
  <2>2. ~Claims(NoFed) /\ ~Claims(NewFed)
    BY <1>8, Gone DEF Claims
  <2> QED
    BY <2>1, <2>2, <1>7 DEF ClaimInv
<1> QED
  BY <1>5, <1>6, <1>9, <1>10, <1>11, <1>12 DEF FedInv

\* Every step keeps the invariant, and unlocks the federation only by a date
\* of the orchestrator's.
LEMMA NextInv ==
  ASSUME FedInv, [Next]_vars
  PROVE  FedInv' /\ (HostGoesOn \/ \E d \in Extensions : OrchestratorExtends(d))
<1>1. CASE UserRenews
  BY <1>1, UserRenewsStep
<1>2. CASE UserDeletes
  BY <1>2, UserDeletesStep
<1>3. CASE \E z \in Zones : OrchestratorOffers(z)
  BY <1>3, OrchestratorStep
<1>4. CASE \E s \in Side : Deliver(s)
  BY <1>4, DeliveryStep
<1>5. CASE HostReconcile
  BY <1>5, HostIgnoresStep, HostDeletesStep, HostAddsFinalizerStep, HostAddsPolicyStep,
     HostNewStep, HostExaminesStep DEF HostReconcile
<1>6. CASE HostPolicyFails
  BY <1>6, HostPolicyFailsStep
<1>7. CASE GuestReconcile
  BY <1>7, GuestIgnoresStep, GuestDeletesStep, GuestAddsFinalizerStep, GuestAddsPolicyStep,
     GuestCreatesStep, GuestMarksStep, GuestSyncsStatusStep, GuestFindsNoCopyStep
     DEF GuestReconcile
<1>8. CASE GuestBlocked
  BY <1>8, GuestBlockedStep
<1>9. CASE GuestCallFails
  BY <1>9, GuestCallFailsStep
<1>10. CASE GuestPatches
  BY <1>10, GuestPatchesStep
<1>11. CASE HostRestarts
  BY <1>11, HostRestartStep
<1>12. CASE GuestRestarts
  BY <1>12, GuestRestartStep
<1>13. CASE \/ TimerFires \/ WatcherLists \/ WatcherDelivers \/ Tick
            \/ (\E s \in Side : Resync(s)) \/ UNCHANGED vars
  BY <1>13, OtherSteps
<1>14. CASE \E d \in Extensions : OrchestratorExtends(d)
  BY <1>14, OrchestratorExtendsStep
<1> QED
  BY <1>1, <1>2, <1>3, <1>4, <1>5, <1>6, <1>7, <1>8, <1>9, <1>10, <1>11, <1>12, <1>13, <1>14
     DEF Next

(***************************************************************************)
(* The theorems.                                                           *)
(***************************************************************************)

\* What the operators may know of one another, whatever is late, stale,
\* lost or restarted: FedInv holds in every reachable state.
THEOREM FedInvariant == Spec => []FedInv
<1>1. FedInv /\ [Next]_vars => FedInv'
  BY NextInv
<1> QED
  BY InitInv, <1>1, PTL DEF Spec

\* No step leaves the types: the dates are those of one renewal's terms or the
\* orchestrator's, and the updates on their way stay within the lag.
THEOREM Typed == Spec => []TypeOK
<1>1. FedInv => TypeOK
  BY DEF FedInv
<1> QED
  BY FedInvariant, <1>1, PTL

\* A guest's federation is AVAILABLE only with a live host side that knows
\* its context id, though the guest's reconciles work on stale copies.
THEOREM Backed == Spec => []GuestBacked
<1>1. FedInv => GuestBacked
  <2>1. SUFFICES ASSUME FedInv, Live(cr["guest"]), cr["guest"].state = "AVAILABLE"
                 PROVE  Live(cr["host"]) /\ cr["host"].id
    BY DEF GuestBacked
  <2>2. ClaimInv /\ EndInv
    BY <2>1 DEF FedInv
  <2>3. cr["guest"] \in Versions("guest") /\ ~GuestOut
    BY <2>1 DEF Versions, GuestOut
  <2>4. cr["host"].here /\ cr["host"].id
    BY <2>1, <2>2, <2>3 DEF ClaimInv, Claims
  <2>5. ~cr["host"].deleting
    BY <2>2, <2>3 DEF EndInv, Ending
  <2> QED
    BY <2>4, <2>5 DEF Live
<1> QED
  BY FedInvariant, <1>1, PTL

\* An operator of the host that has looked at the dates and has nothing left
\* to do has locked a federation that is past every expiry date it was given.
THEOREM InTime == Spec => []LockedInTime
<1>1. FedInv => LockedInTime
  <2>1. SUFFICES ASSUME FedInv, Armed, ~HostDue PROVE now <= granted
    BY DEF LockedInTime
  <2>2. TypeOK /\ timer <= granted + 1
    BY <2>1 DEF FedInv, TimerInv
  <2>3. log["host"] = <<>> /\ ~queue["host"]
    BY <2>1 DEF HostDue
  <2>4. ~Told
    <3>1. Len(log["host"]) = 0
      BY <2>3, EmptySeq
    <3> QED
      BY <3>1 DEF Told
  <2>5. timer # 0 /\ ~(timer <= now)
    BY <2>1, <2>3, <2>4 DEF Armed, HostDue
  <2>6. timer \in Nat /\ now \in Nat /\ granted \in Nat
    BY <2>2, NowTyped, DatesAreNumbers DEF TypeOK
  <2> QED
    BY <2>2, <2>5, <2>6
<1> QED
  BY FedInvariant, <1>1, PTL

\* A locked federation that stays is unlocked only by an expiry date of the
\* orchestrator's that is ahead: by no reconcile, however stale what it works
\* on, and by no user, retry or restart.
THEOREM UnlockedOnlyByDate == Spec => UnlockedByDate
<1>1. FedInv /\ [Next]_vars =>
        [cr["host"].state = "LOCKED" /\ cr'["host"].here /\ cr'["host"].state # "LOCKED"
           => \E d \in Extensions : OrchestratorExtends(d)]_vars
  BY NextInv DEF HostGoesOn, KeepsLock
<1> QED
  BY FedInvariant, <1>1, PTL DEF Spec, UnlockedByDate

(***************************************************************************)
(* The host's operator stays armed.                                        *)
(***************************************************************************)

\* A version of the host's CR whose dates are looked at.
LookedAt(f) == Live(f) /\ f.fin /\ ~PolicyDue(f) /\ f.state # ""

\* A later version of a CR whose dates are looked at is one as well.
LEMMA StaysLookedAt ==
  ASSUME NEW v \in Fed, NEW w \in Fed, HostSound(v), HostSound(w), LookedAt(v),
         Follows("host", v, w, w), Live(w)
  PROVE  LookedAt(w)
<1>1. v.id /\ v.policy = "set"
  <2>1. v.id
    BY DEF LookedAt, HostSound
  <2>2. v.policy \in {"", "not-set", "set"}
    BY DEF Fed
  <2> QED
    BY <2>1, <2>2 DEF LookedAt, HostSound, PolicyDue
<1>2. Grows("host", v, w)
  BY DEF Follows, LookedAt, Live
<1>3. w.id /\ w.fin /\ w.policy = "set"
  BY <1>1, <1>2 DEF Grows, HostGrows, LookedAt
<1> QED
  BY <1>3 DEF LookedAt, HostSound, PolicyDue

LEMMA ArmedIs == Armed <=> LookedAt(H) /\ (queue["host"] \/ timer # 0 \/ Told)
  BY DEF Armed, LookedAt

\* What is on its way to the host's operator stays on its way.
LogKept ==
  /\ Len(log["host"]) <= Len(log'["host"])
  /\ \A i \in 1 .. Len(log["host"]) : log'["host"][i] = log["host"][i]

LEMMA LogKeptByWrite ==
  ASSUME TypeOK, TypeOK', NEW s \in Side, NEW f, Write(s, f)
  PROVE  LogKept
<1> DEFINE l == log["host"]
<1>6. f \in Fed
  <2>1. cr'[s] = f
    BY DEF Write, TypeOK
  <2> QED
    BY <2>1 DEF TypeOK
<1>1. l \in Seq(Fed) /\ Len(l) \in Nat /\ "host" \in Side
  BY LenProperties DEF TypeOK, Side
<1>2. log'["host"] = l \/ (s = "host" /\ log'["host"] = Append(l, f))
  BY <1>1, <1>6, Written
<1>3. /\ Len(Append(l, f)) = Len(l) + 1
      /\ \A i \in 1 .. Len(l) : Append(l, f)[i] = l[i]
  BY <1>1, <1>6, AppendProperties
<1> HIDE DEF l
<1>4. CASE log'["host"] = l
  <2>1. LogKept <=> Len(l) <= Len(l)
    BY <1>4 DEF LogKept, l
  <2> QED
    BY <2>1, <1>1
<1>5. CASE log'["host"] = Append(l, f)
  <2>1. Len(l) <= Len(Append(l, f))
    BY <1>1, <1>3
  <2> QED
    BY <2>1, <1>3, <1>5 DEF LogKept, l
<1> QED
  BY <1>2, <1>4, <1>5

LEMMA LogKeptAlone ==
  ASSUME TypeOK, log' = log
  PROVE  LogKept
<1>1. log["host"] \in Seq(Fed)
  BY DEF TypeOK, Side
<1>2. Len(log["host"]) \in Nat
  BY <1>1, LenProperties
<1> QED
  BY <1>2 DEF LogKept

LEMMA ToldStays ==
  ASSUME TypeOK, Told, cache'["host"] = cache["host"], LogKept, TypeOK'
  PROVE  Told'
<1>1. PICK i \in 1 .. Len(log["host"]) : log["host"][i].state # H.state
  BY DEF Told
<1>2. Len(log["host"]) \in Nat /\ Len(log'["host"]) \in Nat
  <2>1. log["host"] \in Seq(Fed) /\ log'["host"] \in Seq(Fed)
    BY DEF TypeOK, Side
  <2> QED
    BY <2>1, LenProperties
<1>3. i \in 1 .. Len(log'["host"]) /\ log'["host"][i] = log["host"][i]
  BY <1>1, <1>2 DEF LogKept
<1>4. H' = H
  BY DEF H
<1> QED
  BY <1>1, <1>3, <1>4 DEF Told

LEMMA ArmedAlone ==
  ASSUME TypeOK, TypeOK', Armed, cache'["host"] = cache["host"], LogKept,
         queue["host"] => queue'["host"], timer # 0 => timer' # 0 \/ queue'["host"]
  PROVE  Armed'
<1>1. H' = H
  BY DEF H
<1>2. Told => Told'
  BY ToldStays
<1>3. queue'["host"] \/ timer' # 0 \/ Told'
  BY <1>2 DEF Armed
<1> QED
  BY <1>1, <1>3 DEF Armed, Live, PolicyDue

\* A version that the cache has not seen yet is on its way to it.
LEMMA ToldIfBehind ==
  ASSUME TypeOK, Chains, H.state # cr["host"].state
  PROVE  Told
<1> DEFINE l == log["host"]
<1>1. l \in Seq(Fed) /\ IF l = <<>> THEN H = cr["host"] ELSE l[Len(l)] = cr["host"]
  BY DEF TypeOK, Chains, InOrder, H, Side
<1>2. l # <<>> /\ l[Len(l)] = cr["host"]
  BY <1>1
<1>3. Len(l) \in 1 .. Len(l)
  BY <1>1, <1>2, EmptySeq, LenProperties
<1> QED
  BY <1>2, <1>3 DEF Told

\* An examination locks the federation, leaves a timer, or has worked on a
\* lock that the orchestrator has lifted.
LEMMA ArmedByExamination ==
  ASSUME FedInv, FedInv', Armed, HostExamines
  PROVE  Armed' \/ cr'["host"].state = "LOCKED" \/ ~Live(cr'["host"])
<1> DEFINE h == cr["host"]
           new == Examined(H)
           m == Merge(h, H, new)
           f == Merged(h, H, new)
<1>1. /\ TypeOK /\ HostReconciles(new) /\ H.here /\ H.fin /\ ~PolicyDue(H) /\ H.state # ""
  BY DEF FedInv, HostExamines, Live
<1>2. H \in Fed /\ HostSound(H) /\ Behind(H, h) /\ H.id /\ h \in Fed
  <2>1. H \in Fed /\ HostSound(H) /\ Behind(H, h) /\ h \in Fed
    BY HostBehind DEF Behind
  <2> QED
    BY <2>1, <1>1 DEF HostSound
<1>3. now \in Nat
  BY <1>1, NowTyped
<1>4. new \in Fed
  BY <1>2, <1>3, ExaminedDates
<1>5. Write("host", f) /\ cache' = cache
  BY <1>1, Reconciled
<1>6. cr'["host"] = f
  <2>1. cr' = [cr EXCEPT !["host"] = f]
    BY <1>5 DEF Write
  <2> QED
    BY <2>1, <1>1 DEF TypeOK, Side
<1>9. H.state # h.state => Told
  BY <1>1, ToldIfBehind DEF FedInv
<1>10. LogKept /\ TypeOK'
  <2> HIDE DEF f
  <2> QED
    BY <1>1, <1>5, LogKeptByWrite DEF FedInv, Side
<1>7. CASE Locks(H)
  <2>1. CASE ~h.here
    <3>1. f = h
      BY <2>1, MergedIsMerge
    <3> QED
      BY <2>1, <3>1, <1>6 DEF Live
  <2>2. CASE h.here
    <3>1. f = Kept(m)
      BY <2>2, MergedIsMerge
    <3>2. m \in Fed /\ Patch(m, h, H, new)
      BY <1>2, <1>4, Merging
    <3>3. m.state = "LOCKED" \/ (H.state = "LOCKED" /\ m.state = h.state)
      <4> HIDE DEF m
      <4> QED
        BY <3>2, <2>2, <1>1, <1>2, <1>3, <1>7, DatesExamined
    <3> HIDE DEF m, f
    <3>4. CASE m.state = "LOCKED" \/ f = NoFed
      BY <3>1, <3>4, <1>6, Keeping, Gone DEF Live
    <3>5. CASE f # NoFed /\ h.state # "LOCKED" /\ H.state = "LOCKED"
      <4>1. H # h
        BY <3>5
      <4>2. Told
        BY <4>1, <3>5, <1>1, <1>9 DEF h
      <4>3. Told'
        BY <4>2, <1>1, <1>5, <1>10, ToldStays
      <4> QED
        BY <4>3, <1>5, ArmedIs DEF Armed, H
    <3> QED
      BY <3>1, <3>3, <3>4, <3>5, <1>6, Keeping
  <2> QED
    BY <2>1, <2>2
<1>8. CASE ~Locks(H)
  <2>1. H.expiry # 0
    BY <1>1, <1>2, <1>8, Expires
  <2>2. timer' # 0
    BY <2>1, <1>1, <1>2, <1>8, Woken
  <2> QED
    BY <2>2, <1>5, ArmedIs DEF Armed, H
<1> QED
  BY <1>7, <1>8

\* A change of the state that is delivered queues the federation.
LEMMA ToldDelivered ==
  ASSUME TypeOK, Told, Deliver("host")
  PROVE  Told' \/ queue'["host"]
<1> DEFINE l == log["host"]
<1>1. /\ l \in Seq(Fed) /\ l # <<>> /\ "host" \in Side
      /\ cache'["host"] = Head(l) /\ log'["host"] = Tail(l)
      /\ Passes("host", H, Head(l)) => queue'["host"]
  BY DEF Deliver, TypeOK, H, Side
<1>2. PICK i \in 1 .. Len(l) : l[i].state # H.state
  BY DEF Told
<1>3. /\ Len(l) \in Nat /\ Len(Tail(l)) = Len(l) - 1 /\ Head(l) = l[1]
      /\ \A j \in 1 .. Len(Tail(l)) : Tail(l)[j] = l[j + 1]
  BY <1>1, HeadTailProperties, EmptySeq
<1> HIDE DEF l
<1>4. CASE Head(l).state # H.state
  BY <1>1, <1>4 DEF Passes
<1>5. CASE Head(l).state = H.state
  <2>1. i # 1
    BY <1>2, <1>3, <1>5
  <2>2. i - 1 \in 1 .. Len(Tail(l)) /\ Tail(l)[i - 1] = l[i]
    BY <2>1, <1>2, <1>3
  <2>3. H'.state = H.state
    BY <1>1, <1>5 DEF H
  <2> QED
    BY <2>2, <2>3, <1>1, <1>2 DEF Told
<1> QED
  BY <1>4, <1>5

LEMMA ArmedByDelivery ==
  ASSUME FedInv, FedInv', Armed, NEW s \in Side, Deliver(s), Live(cr'["host"])
  PROVE  Armed'
<1>1. /\ TypeOK /\ Chains /\ cr' = cr /\ timer' = timer
      /\ queue' = [queue EXCEPT ![s] = @ \/ Passes(s, cache[s], Head(log[s]))]
  BY DEF FedInv, Deliver
<1>2. queue["host"] => queue'["host"]
  BY <1>1 DEF TypeOK, Side
<1>3. cache'[s] \in Versions(s) /\ \A t \in Side \ {s} : cache'[t] = cache[t]
  BY <1>1, OrderDelivered
<1>4. CASE s = "guest"
  <2>1. log'["host"] = log["host"]
    BY <1>1, <1>4 DEF Deliver, TypeOK, Side
  <2>2. LogKept
    <3>1. Len(log["host"]) \in Nat
      BY <1>1, LenProperties DEF TypeOK, Side
    <3> QED
      BY <2>1, <3>1 DEF LogKept
  <2> QED
    BY <2>2, <1>1, <1>2, <1>3, <1>4, ArmedAlone DEF Side, FedInv
<1>5. CASE s = "host"
  <2> DEFINE d == cache'["host"]
             h == cr["host"]
  <2>1. Follows("host", H, d, h) /\ Follows("host", d, h, h)
    BY <1>1, <1>3, <1>5, VersionsFollow DEF Chains, H, Side
  <2>2. H \in Fed /\ HostSound(H)
    BY HostBehind DEF Behind
  <2>3. d \in Fed /\ HostSound(d)
    <3>1. d \in Versions("host")
      BY <1>3, <1>5
    <3>2. cache' \in [Side -> Fed]
      BY DEF FedInv, TypeOK
    <3> QED
      BY <3>1, <3>2, <1>5 DEF FedInv, HostInv
  <2>4. Live(h)
    BY <1>1
  <2> HIDE DEF d, h
  <2>5. LookedAt(H)
    BY ArmedIs
  <2>6. d.here /\ ~d.deleting
    BY <2>1, <2>4, <2>5 DEF LookedAt, Live, Follows, Grows
  <2>7. Follows("host", H, d, d)
    BY <2>1, <2>6 DEF Follows
  <2>8. LookedAt(d)
    BY <2>2, <2>3, <2>5, <2>6, <2>7, StaysLookedAt DEF Live
  <2>9. Told => Told' \/ queue'["host"]
    BY <1>1, <1>5, ToldDelivered DEF FedInv
  <2> QED
    BY <2>8, <2>9, <1>1, <1>2, ArmedIs DEF Armed, LookedAt, H, d
<1> QED
  BY <1>4, <1>5 DEF Side

LEMMA ArmedByRestart ==
  ASSUME FedInv, Armed, HostRestarts, Live(cr'["host"])
  PROVE  Armed'
<1>1. /\ TypeOK /\ cr' = cr
      /\ cache' = [cache EXCEPT !["host"] = cr["host"]]
      /\ queue' = [queue EXCEPT !["host"] = cr["host"].here]
  BY DEF FedInv, HostRestarts
<1>2. cache'["host"] = cr["host"] /\ queue'["host"] = cr["host"].here
  BY <1>1 DEF TypeOK, Side
<1>3. /\ H \in Fed /\ cr["host"] \in Fed /\ HostSound(H) /\ HostSound(cr["host"])
      /\ Follows("host", H, cr["host"], cr["host"])
  BY HostBehind DEF Behind
<1>4. LookedAt(cr["host"])
  BY <1>1, <1>3, ArmedIs, StaysLookedAt
<1> QED
  BY <1>2, <1>4 DEF Armed, LookedAt, H, Live

LEMMA ArmedByGuest ==
  ASSUME TypeOK, TypeOK', Armed, cache' = cache, timer' = timer, LogKept,
         NEW b, queue' = [queue EXCEPT !["guest"] = b]
  PROVE  Armed'
<1>1. queue'["host"] = queue["host"]
  BY DEF TypeOK, Side
<1> QED
  BY <1>1, ArmedAlone

\* The guest's reconciles leave the host's cache, queue and timer alone, and
\* write to the host's CR at most.
LEMMA GuestLeaves ==
  ASSUME GuestReconcile \/ GuestBlocked \/ GuestCallFails
  PROVE  /\ cache' = cache /\ timer' = timer
         /\ \E b \in BOOLEAN : queue' = [queue EXCEPT !["guest"] = b]
         /\ log' = log \/ \E f : Write("host", f)
<1>1. /\ GuestBegins /\ \E new : GuestResult(new, TRUE) \/ GuestResult(new, FALSE)
      /\ NoCall \/ \E f : Write("host", f)
  <2>1. CASE GuestReconcile
    <3>1. CASE GuestIgnores
      BY <3>1 DEF GuestIgnores
    <3>2. CASE GuestDeletes
      BY <3>2 DEF GuestDeletes
    <3>3. CASE GuestAddsFinalizer
      BY <3>3 DEF GuestAddsFinalizer
    <3>4. CASE GuestAddsPolicy
      BY <3>4 DEF GuestAddsPolicy
    <3>5. CASE GuestCreates
      BY <3>5 DEF GuestCreates
    <3>6. CASE GuestMarks
      BY <3>6 DEF GuestMarks
    <3>7. CASE GuestSyncsStatus
      BY <3>7 DEF GuestSyncsStatus
    <3>8. CASE GuestFindsNoCopy
      BY <3>8 DEF GuestFindsNoCopy
    <3> QED
      BY <2>1, <3>1, <3>2, <3>3, <3>4, <3>5, <3>6, <3>7, <3>8 DEF GuestReconcile
  <2>2. CASE GuestBlocked
    BY <2>2 DEF GuestBlocked
  <2>3. CASE GuestCallFails
    BY <2>3 DEF GuestCallFails
  <2> QED
    BY <2>1, <2>2, <2>3
<1> QED
  BY <1>1 DEF GuestBegins, GuestResult, NoCall

\* No step disarms the host's operator of a federation that is not locked.
LEMMA ArmedStep ==
  ASSUME FedInv, FedInv', [Next]_vars, Armed
  PROVE  Armed' \/ cr'["host"].state = "LOCKED" \/ ~Live(cr'["host"])
<1>1. TypeOK /\ TypeOK'
  BY DEF FedInv
<1>2. ASSUME UNCHANGED <<cache, queue, timer>>, NEW s \in Side, NEW f, Write(s, f)
      PROVE  Armed'
  BY <1>1, <1>2, LogKeptByWrite, ArmedAlone
<1>3. CASE UserRenews \/ UserDeletes
  BY <1>2, <1>3 DEF UserRenews, UserDeletes, Side
<1>4. CASE \/ \E z \in Zones : OrchestratorOffers(z)
           \/ \E d \in Extensions : OrchestratorExtends(d)
  BY <1>2, <1>4 DEF OrchestratorOffers, OrchestratorExtends, Side
<1>5. CASE HostPolicyFails \/ GuestPatches
  BY <1>2, <1>5 DEF HostPolicyFails, GuestPatches, Side
<1>6. CASE \E s \in Side : Deliver(s)
  BY <1>6, ArmedByDelivery
<1>7. CASE HostReconcile
  <2>1. Live(H) /\ H.fin /\ ~PolicyDue(H) /\ H.state # ""
    BY DEF Armed
  <2>2. HostExamines
    BY <2>1, <1>7 DEF HostReconcile, HostIgnores, HostDeletes, HostAddsFinalizer,
       HostAddsPolicy, HostNew, Live
  <2> QED
    BY <2>2, ArmedByExamination
<1>8. CASE GuestReconcile \/ GuestBlocked \/ GuestCallFails
  <2>1. LogKept
    BY <1>1, <1>8, GuestLeaves, LogKeptByWrite, LogKeptAlone DEF Side
  <2> QED
    BY <2>1, <1>1, <1>8, GuestLeaves, ArmedByGuest
<1>9. CASE HostRestarts
  BY <1>9, ArmedByRestart
<1>10. CASE GuestRestarts
  <2>1. /\ cache'["host"] = cache["host"] /\ queue'["host"] = queue["host"] /\ timer' = timer
        /\ log'["host"] = log["host"] /\ Len(log["host"]) \in Nat
    BY <1>1, <1>10, LenProperties DEF GuestRestarts, TypeOK, Side
  <2>2. LogKept
    BY <2>1 DEF LogKept
  <2> QED
    BY <2>1, <2>2, <1>1, ArmedAlone
<1>11. CASE \/ TimerFires \/ WatcherLists \/ WatcherDelivers \/ Tick
            \/ (\E s \in Side : Resync(s)) \/ UNCHANGED vars
  <2>1. cache' = cache /\ log' = log
    BY <1>11 DEF TimerFires, WatcherLists, WatcherDelivers, Tick, Resync, vars
  <2>2. /\ queue["host"] => queue'["host"]
        /\ timer # 0 => timer' # 0 \/ queue'["host"]
    BY <1>1, <1>11
       DEF TimerFires, WatcherLists, WatcherDelivers, Tick, Resync, vars, TypeOK, Side
  <2> QED
    BY <2>1, <2>2, <1>1, LogKeptAlone, ArmedAlone
<1> QED
  BY <1>3, <1>4, <1>5, <1>6, <1>7, <1>8, <1>9, <1>10, <1>11 DEF Next

\* Once the host's operator looks at the dates it goes on doing so, by a
\* timer, a queued reconcile or an update on its way, whatever date it is
\* given, until the federation is locked or removed.
THEOREM ArmedOn == Spec => StaysArmed
<1>1. FedInv /\ FedInv' /\ [Next]_vars =>
        [Armed => Armed' \/ cr'["host"].state = "LOCKED" \/ ~Live(cr'["host"])]_vars
  BY ArmedStep
<1> QED
  BY FedInvariant, <1>1, PTL DEF Spec, StaysArmed
=============================================================================

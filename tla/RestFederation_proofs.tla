---------------------- MODULE RestFederation_proofs -----------------------
(***************************************************************************)
(* That RestFedInv is an inductive invariant of RestFederation, for any    *)
(* lag of the cache and any choice of the events, and what follows from    *)
(* it.                                                                     *)
(*                                                                         *)
(* Lemmas about the order of versions and about the records come first,    *)
(* then one lemma for each way in which a step may change the state (it    *)
(* writes a version, delivers one, begins a reconcile, answers it, or      *)
(* changes the partners' side), then one for each action, which shows that *)
(* it is of such a way.                                                    *)
(***************************************************************************)
EXTENDS RestFederationInv, SequenceTheorems, TLAPS

(***************************************************************************)
(* The order of the versions.                                              *)
(***************************************************************************)
\* Precedes is transitive, and reflexive from the second version on.
LEMMA PrecedesOn ==
  ASSUME NEW g, NEW u, NEW v, NEW w, Precedes(g, u, v)
  PROVE  /\ Precedes(g, v, v)
         /\ Precedes(g, v, w) => Precedes(g, u, w)
  BY DEF Precedes, Growing, Leaving

\* The cached version precedes every version on its way, and the last one.
LEMMA CachePrecedes ==
  ASSUME NEW g, NEW c \in Fed, NEW l \in Seq(Fed), NEW last \in Fed, InOrder(g, c, l, last)
  PROVE  /\ Precedes(g, c, c) /\ Precedes(g, c, last)
         /\ \A i \in 1 .. Len(l) : Precedes(g, c, l[i]) /\ Precedes(g, l[i], last)
<1>1. Precedes(g, c, c) /\ \A i \in 1 .. Len(l) : Precedes(g, c, l[i])
  BY DEF InOrder
<1>2. CASE l = <<>>
  <2>1. c = last /\ Len(l) = 0
    BY <1>2 DEF InOrder
  <2> QED
    BY <1>1, <2>1
<1>3. CASE l # <<>>
  <2>1. l[Len(l)] = last /\ Len(l) \in 1 .. Len(l)
    BY <1>3, EmptySeq, LenProperties DEF InOrder
  <2>2. ASSUME NEW i \in 1 .. Len(l) PROVE Precedes(g, l[i], last)
    <3>1. i = Len(l) \/ i < Len(l)
      BY LenProperties
    <3>2. Precedes(g, l[i], l[i])
      BY <1>1, PrecedesOn
    <3> QED
      BY <2>1, <3>1, <3>2 DEF InOrder
  <2> QED
    BY <1>1, <2>1, <2>2
<1> QED
  BY <1>2, <1>3

\* A version that follows the last one goes behind it.
LEMMA OrderAppend ==
  ASSUME NEW g, NEW c \in Fed, NEW l \in Seq(Fed), NEW last \in Fed, NEW f \in Fed,
         InOrder(g, c, l, last), Precedes(g, last, f)
  PROVE  InOrder(g, c, Append(l, f), f)
<1> DEFINE k == Append(l, f)
<1>1. /\ k \in Seq(Fed) /\ k # <<>> /\ Len(k) = Len(l) + 1 /\ Len(l) \in Nat
      /\ \A i \in 1 .. Len(l) : k[i] = l[i]
      /\ k[Len(k)] = f
  BY AppendProperties, LenProperties
<1>2. /\ Precedes(g, c, c) /\ Precedes(g, c, last)
      /\ \A i \in 1 .. Len(l) : Precedes(g, c, l[i]) /\ Precedes(g, l[i], last)
  BY CachePrecedes
<1>3. Precedes(g, c, f) /\ \A i \in 1 .. Len(l) : Precedes(g, l[i], f)
  BY <1>2, PrecedesOn
<1>4. \A i \in 1 .. Len(k) : i \in 1 .. Len(l) \/ i = Len(k)
  BY <1>1
<1> HIDE DEF k
<1>5. \A i \in 1 .. Len(k) : Precedes(g, c, k[i])
  BY <1>1, <1>2, <1>3, <1>4
<1>6. ASSUME NEW i \in 1 .. Len(k), NEW j \in 1 .. Len(k), i < j
      PROVE  Precedes(g, k[i], k[j])
  <2>1. i \in 1 .. Len(l) /\ k[i] = l[i]
    BY <1>1, <1>6
  <2>2. CASE j = Len(k)
    BY <2>1, <2>2, <1>1, <1>3
  <2>3. CASE j \in 1 .. Len(l)
    BY <2>1, <2>3, <1>1, <1>6 DEF InOrder
  <2> QED
    BY <2>2, <2>3, <1>4
<1>7. InOrder(g, c, k, f)
  BY <1>1, <1>2, <1>5, <1>6 DEF InOrder
<1> QED
  BY <1>7 DEF k

\* What is first on its way may be taken off.
LEMMA OrderDeliver ==
  ASSUME NEW g, NEW c \in Fed, NEW l \in Seq(Fed), NEW last \in Fed,
         InOrder(g, c, l, last), l # <<>>
  PROVE  /\ InOrder(g, Head(l), Tail(l), last)
         /\ Head(l) = l[1] /\ 1 \in 1 .. Len(l)
         /\ \A i \in 1 .. Len(Tail(l)) : i + 1 \in 1 .. Len(l) /\ Tail(l)[i] = l[i + 1]
<1> DEFINE k == Tail(l)
           d == Head(l)
<1>1. /\ Len(l) \in Nat \ {0} /\ Len(k) = Len(l) - 1 /\ k \in Seq(Fed) /\ d = l[1]
      /\ \A i \in 1 .. Len(k) : k[i] = l[i + 1]
  BY HeadTailProperties, EmptySeq
<1>2. k = <<>> <=> Len(k) = 0
  BY <1>1, EmptySeq
<1> HIDE DEF k, d
<1>3. \A i \in 1 .. Len(k) : i + 1 \in 1 .. Len(l) /\ 1 < i + 1
  BY <1>1
<1>4. 1 \in 1 .. Len(l)
  BY <1>1
<1>5. Precedes(g, d, d)
  BY <1>1, <1>4, PrecedesOn DEF InOrder
<1>6. \A i \in 1 .. Len(k) : Precedes(g, d, k[i])
  BY <1>1, <1>3, <1>4 DEF InOrder
<1>7. ASSUME NEW i \in 1 .. Len(k), NEW j \in 1 .. Len(k), i < j
      PROVE  Precedes(g, k[i], k[j])
  <2>1. i + 1 \in 1 .. Len(l) /\ j + 1 \in 1 .. Len(l) /\ i + 1 < j + 1
    BY <1>1, <1>7
  <2> QED
    BY <2>1, <1>1 DEF InOrder
<1>8. IF k = <<>> THEN d = last ELSE k[Len(k)] = last
  <2>1. l[Len(l)] = last
    BY DEF InOrder
  <2> QED
    BY <2>1, <1>1, <1>2
<1>9. InOrder(g, d, k, last)
  BY <1>5, <1>6, <1>7, <1>8 DEF InOrder
<1> QED
  BY <1>1, <1>3, <1>4, <1>9 DEF k, d

\* A single version is in order.
LEMMA OrderAlone ==
  ASSUME NEW g, NEW c, Precedes(g, c, c)
  PROVE  InOrder(g, c, <<>>, c)
<1>1. Len(<<>>) = 0
  BY EmptySeq
<1> QED
  BY <1>1 DEF InOrder

\* Of what a reconcile may have seen, and of every version, it is known what
\* precedes it and what follows it.
LEMMA InStory ==
  ASSUME TypeOK, NEW g, Story(g)
  PROVE  /\ \A v \in Versions : Precedes(g, cache, v) /\ Precedes(g, v, cr)
         /\ run.pc # "idle" => \A v \in Versions : Precedes(g, run.seen, v)
         /\ cache \in Versions /\ cr \in Versions
<1>1. cache \in Fed /\ log \in Seq(Fed) /\ cr \in Fed /\ InOrder(g, cache, log, cr)
  BY DEF TypeOK, Story
<1>2. /\ Precedes(g, cache, cache) /\ Precedes(g, cache, cr)
      /\ \A i \in 1 .. Len(log) : Precedes(g, cache, log[i]) /\ Precedes(g, log[i], cr)
  BY <1>1, CachePrecedes
<1>3. Precedes(g, cr, cr)
  BY <1>2, PrecedesOn
<1>4. \A v \in Versions : Precedes(g, cache, v) /\ Precedes(g, v, cr)
  BY <1>2, <1>3 DEF Versions
<1>5. run.pc # "idle" => \A v \in Versions : Precedes(g, run.seen, v)
  BY <1>4, PrecedesOn DEF Story
<1> QED
  BY <1>4, <1>5 DEF Versions

(***************************************************************************)
(* The records.                                                            *)
(***************************************************************************)
LEMMA Gone ==
  /\ NoFed \in Fed
  /\ NoFed.here = FALSE /\ NoFed.deleting = FALSE /\ NoFed.fin = FALSE
  /\ NoFed.policy = "" /\ NoFed.state = "" /\ NoFed.id = FALSE
<1>1. NoFed \in Fed
  BY Zenon DEF Fed, NoFed, State
<1>2. /\ NoFed.here = FALSE /\ NoFed.deleting = FALSE /\ NoFed.fin = FALSE
      /\ NoFed.policy = "" /\ NoFed.state = "" /\ NoFed.id = FALSE
  BY SMT DEF NoFed
<1> QED
  BY <1>1, <1>2

LEMMA Created ==
  ASSUME NEW f, f = NewFed
  PROVE  /\ f \in Fed /\ f.here = TRUE /\ f.deleting = FALSE /\ f.fin = FALSE
         /\ f.state = "" /\ f.id = FALSE
<1>1. f = [NoFed EXCEPT !.here = TRUE]
  BY DEF NewFed
<1>2. f \in Fed /\ f.here = TRUE
  BY <1>1, Gone DEF Fed
<1>3. f.deleting = NoFed.deleting /\ f.fin = NoFed.fin /\ f.state = NoFed.state /\ f.id = NoFed.id
  BY <1>1, Gone DEF Fed
<1> QED
  BY <1>2, <1>3, Gone

LEMMA SoundRecords == Sound(NoFed) /\ Sound(NewFed)
  BY Gone, Created DEF Sound

RunType == [pc : {"idle", "call", "meta", "status"}, op : Op \cup {"none"},
            to : Partner \cup {"none"}, seen : Fed, new : Fed, again : BOOLEAN]

LEMMA IdleTyped == Idle \in RunType /\ Idle.pc = "idle"
<1>1. Idle \in RunType
  BY Gone DEF Idle, RunType, Op, Partner
<1>2. Idle.pc = "idle"
  BY DEF Idle
<1> QED
  BY <1>1, <1>2

LEMMA NoCRTyped == NoCR \in HostCR /\ NoCR.of = "none" /\ NoCR.id = FALSE /\ NoCR.deleting = FALSE
  BY DEF NoCR, HostCR

LEMMA Keeping ==
  ASSUME NEW f
  PROVE  \/ Kept(f) = f /\ (f.deleting => f.fin)
         \/ Kept(f) = NoFed /\ f.deleting /\ ~f.fin
  BY DEF Kept

(***************************************************************************)
(* The ways in which a step may change the state.                          *)
(***************************************************************************)
\* The types of what is not part of the CR and its versions.
RestTyped ==
  /\ queue \in BOOLEAN /\ run \in RunType /\ (run.pc = "call" => run.to \in Partner)
  /\ first \in Partner \cup {"none"} /\ host \in [Partner -> HostCR] /\ trouble \in BOOLEAN

VersionsTyped == cr \in Fed /\ cache \in Fed /\ log \in Seq(Fed) /\ Len(log) <= MaxLag

LEMMA TypeParts == TypeOK <=> RestTyped /\ VersionsTyped
  BY DEF TypeOK, RestTyped, VersionsTyped, RunType

\* The reconcile that is under way goes on with the same plan, or it is over.
SamePlan ==
  \/ run' = Idle
  \/ run' = run
  \/ run.pc = "meta" /\ run' = [run EXCEPT !.pc = "status"]

LEMMA PlanKept ==
  ASSUME run \in RunType, SamePlan
  PROVE  /\ run' \in RunType
         /\ run'.pc # "idle" => /\ run.pc # "idle" /\ run'.op = run.op /\ run'.to = run.to
                                /\ run'.seen = run.seen /\ run'.new = run.new
         /\ run'.pc = "call" => run.pc = "call"
<1>1. CASE run' = Idle
  BY <1>1, IdleTyped
<1>2. CASE run' = run
  BY <1>2
<1>3. CASE run.pc = "meta" /\ run' = [run EXCEPT !.pc = "status"]
  BY <1>3 DEF RunType
<1> QED
  BY <1>1, <1>2, <1>3 DEF SamePlan

\* What the plan is about stays true as long as the partners keep what is
\* ours, and the context id is not known in the meantime.
LEMMA RunInvKept ==
  ASSUME RunInv, run \in RunType, SamePlan,
         run'.pc # "idle" => /\ \A p \in Partner : Ours(p) => Ours(p)'
                             /\ cr'.id => cr.id
                             /\ first # "none" => first' = first
  PROVE  RunInv'
<1>1. SUFFICES ASSUME run'.pc # "idle" PROVE RunInv'
  BY DEF RunInv
<1>2. /\ run.pc # "idle" /\ run'.op = run.op /\ run'.to = run.to
      /\ run'.seen = run.seen /\ run'.new = run.new
      /\ run'.pc = "call" => run.pc = "call"
  BY <1>1, PlanKept
<1>3. Accepting' = Accepting
  BY <1>2 DEF Accepting
<1>4. Accepting => Ours(run.to)' /\ ~cr'.id /\ run'.pc # "call"
  BY <1>1, <1>2 DEF RunInv, Ours
<1>5. run.op = "POST" => Creating(run.seen) /\ run.to = first' /\ first' # "none"
  BY <1>1, <1>2 DEF RunInv
<1> QED
  BY <1>2, <1>3, <1>4, <1>5 DEF RunInv, Ours, Creating

\* A new version of the CR.
LEMMA WriteStep ==
  ASSUME RestFedInv, NEW g \in BOOLEAN, Story(g), NEW f \in Fed, Write(f),
         Precedes(g, cr, f), Sound(f),
         f.id => cr.id \/ Ours(first),
         Live(f) /\ f.state = "AVAILABLE" =>
           \/ Live(cr) /\ cr.state = "AVAILABLE" /\ f.id = cr.id
           \/ f.id /\ Ours(first),
         SamePlan, run'.pc # "idle" /\ f.id => cr.id,
         UNCHANGED <<cache, first, host>>, queue' \in BOOLEAN, trouble' \in BOOLEAN
  PROVE  RestFedInv'
<1>1. TypeOK /\ VersionsSound /\ NoSecond /\ RunInv /\ Backed
  BY DEF RestFedInv
<1>2. RestTyped /\ VersionsTyped /\ InOrder(g, cache, log, cr)
  BY <1>1, TypeParts DEF Story
<1>3. cr' = f /\ (IF f = cr THEN log' = log ELSE log' = Append(log, f) /\ Len(log) < MaxLag)
  BY DEF Write
<1>4. /\ run' \in RunType
      /\ run'.pc # "idle" => run.pc # "idle" /\ run'.seen = run.seen
      /\ run'.pc = "call" => run.pc = "call" /\ run'.to = run.to
  BY <1>2, PlanKept DEF RestTyped
<1>5. /\ log' \in Seq(Fed) /\ Len(log') <= MaxLag /\ InOrder(g, cache', log', cr')
      /\ Versions' \subseteq Versions \cup {f}
  <2>1. CASE f = cr
    <3>1. cr' = cr /\ log' = log /\ cache' = cache
      BY <2>1, <1>3
    <3>2. Versions' = Versions
      BY <3>1 DEF Versions
    <3> QED
      BY <3>1, <3>2, <1>2 DEF VersionsTyped
  <2>2. CASE f # cr
    <3>1. log' = Append(log, f) /\ Len(log) < MaxLag /\ cache' = cache /\ cr' = f
      BY <2>2, <1>3
    <3>2. log \in Seq(Fed) /\ cache \in Fed /\ cr \in Fed
      BY <1>2 DEF VersionsTyped
    <3>3. InOrder(g, cache, Append(log, f), f)
      BY <1>2, <3>2, OrderAppend
    <3>4. /\ Append(log, f) \in Seq(Fed) /\ Len(Append(log, f)) = Len(log) + 1 /\ Len(log) \in Nat
          /\ \A i \in 1 .. Len(log) + 1 :
               Append(log, f)[i] = f \/ (i \in 1 .. Len(log) /\ Append(log, f)[i] = log[i])
      BY <3>2, AppendProperties, LenProperties
    <3>5. Len(log') <= MaxLag
      BY <3>1, <3>4, RestFederationAssumption
    <3>6. Versions' = {cache', cr'} \cup {log'[i] : i \in 1 .. Len(log')}
      BY DEF Versions
    <3>7. Versions' \subseteq Versions \cup {f}
      BY <3>1, <3>4, <3>6 DEF Versions
    <3> QED
      BY <3>1, <3>3, <3>4, <3>5, <3>7
  <2> QED
    BY <2>1, <2>2
<1>6. TypeOK'
  <2>1. RestTyped'
    BY <1>2, <1>4 DEF RestTyped
  <2>2. VersionsTyped'
    BY <1>2, <1>3, <1>5 DEF VersionsTyped
  <2> QED
    BY <2>1, <2>2 DEF TypeOK, RestTyped, VersionsTyped, RunType
<1>7. Story(g)'
  <2>1. run'.pc # "idle" => Precedes(g, run'.seen, cache')
    BY <1>4 DEF Story
  <2> QED
    BY <2>1, <1>5 DEF Story
<1>8. VersionsSound'
  BY <1>1, <1>5 DEF VersionsSound
<1>9. NoSecond'
  <2>1. SUFFICES ASSUME f.id,
                        NEW v \in Versions' \cup (IF run'.pc = "idle" THEN {} ELSE {run'.seen}),
                        Creating(v), ~Ours(first)
                 PROVE  FALSE
    BY <1>3 DEF NoSecond, Ours
  <2>2. v # f
    BY <2>1 DEF Sound, Creating
  <2>3. v \in Versions \cup (IF run.pc = "idle" THEN {} ELSE {run.seen})
    BY <2>1, <2>2, <1>4, <1>5
  <2>4. cr.id
    BY <2>1
  <2> QED
    BY <2>1, <2>3, <2>4, <1>1 DEF NoSecond
<1>10. RunInv'
  BY <1>1, <1>2, <1>3, RunInvKept DEF Ours, RestTyped
<1>11. Backed'
  <2>1. SUFFICES ASSUME Live(f), f.state = "AVAILABLE"
                 PROVE  f.id /\ \E p \in Partner : host[p].of = "us" /\ ~host[p].deleting
    BY <1>3 DEF Backed, Live
  <2>2. CASE f.id /\ Ours(first)
    BY <2>2 DEF Ours
  <2>3. CASE Live(cr) /\ cr.state = "AVAILABLE" /\ f.id = cr.id
    BY <2>3, <1>1 DEF Backed
  <2> QED
    BY <2>1, <2>2, <2>3
<1> QED
  BY <1>6, <1>7, <1>8, <1>9, <1>10, <1>11 DEF RestFedInv

\* The cache receives a version.
LEMMA DeliverStep ==
  ASSUME RestFedInv, Deliver
  PROVE  RestFedInv'
<1>1. TypeOK /\ VersionsSound /\ NoSecond /\ RunInv /\ Backed
  BY DEF RestFedInv
<1>2. PICK g \in BOOLEAN : Story(g)
  BY DEF RestFedInv
<1>3. /\ log # <<>> /\ cache' = Head(log) /\ log' = Tail(log)
      /\ queue' = (queue \/ Passes(cache, Head(log)))
      /\ UNCHANGED <<cr, run, first, host, trouble>>
  BY DEF Deliver
<1>4. RestTyped /\ VersionsTyped /\ InOrder(g, cache, log, cr)
  BY <1>1, <1>2, TypeParts DEF Story
<1>5. /\ Head(log) \in Fed /\ Tail(log) \in Seq(Fed)
      /\ Len(Tail(log)) = Len(log) - 1 /\ Len(log) \in Nat
  BY <1>3, <1>4, HeadTailProperties, LenProperties DEF VersionsTyped
<1>6. /\ InOrder(g, Head(log), Tail(log), cr)
      /\ Head(log) = log[1] /\ 1 \in 1 .. Len(log)
      /\ \A i \in 1 .. Len(Tail(log)) : i + 1 \in 1 .. Len(log) /\ Tail(log)[i] = log[i + 1]
  BY <1>3, <1>4, OrderDeliver DEF VersionsTyped
<1>7. Len(log') <= MaxLag
  BY <1>3, <1>4, <1>5, RestFederationAssumption DEF VersionsTyped
<1>8. queue' \in BOOLEAN
  BY <1>3, Zenon
<1>9. TypeOK'
  <2>1. RestTyped'
    BY <1>3, <1>4, <1>8 DEF RestTyped
  <2>2. VersionsTyped'
    BY <1>3, <1>4, <1>5, <1>7 DEF VersionsTyped
  <2> QED
    BY <2>1, <2>2 DEF TypeOK, RestTyped, VersionsTyped, RunType
<1>10. Versions' \subseteq Versions /\ cache' \in Versions
  <2>1. Versions' = {cache', cr'} \cup {log'[i] : i \in 1 .. Len(log')}
    BY DEF Versions
  <2> QED
    BY <2>1, <1>3, <1>6 DEF Versions
<1>11. Story(g)'
  <2>1. run.pc # "idle" => Precedes(g, run.seen, cache')
    BY <1>1, <1>2, <1>10, InStory
  <2> QED
    BY <2>1, <1>3, <1>6 DEF Story
<1>12. VersionsSound'
  BY <1>1, <1>10 DEF VersionsSound
<1>13. NoSecond'
  BY <1>1, <1>3, <1>10 DEF NoSecond, Ours
<1>14. RunInv'
  BY <1>1, <1>3, <1>4, RunInvKept DEF SamePlan, Ours, RestTyped
<1>15. Backed'
  BY <1>1, <1>3 DEF Backed, Live
<1> QED
  BY <1>9, <1>11, <1>12, <1>13, <1>14, <1>15 DEF RestFedInv

\* A step that leaves the CR and its versions alone.
LEMMA QuietStep ==
  ASSUME RestFedInv, UNCHANGED <<cr, cache, log>>, RestTyped', RunInv', Backed',
         run'.pc # "idle" => run'.seen = cache \/ (run.pc # "idle" /\ run'.seen = run.seen),
         \/ Ours(first) => Ours(first)'
         \/ \A v \in Versions \cup (IF run'.pc = "idle" THEN {} ELSE {run'.seen}) : ~Creating(v)
  PROVE  RestFedInv'
<1>1. TypeOK /\ VersionsSound /\ NoSecond /\ RunInv /\ Backed
  BY DEF RestFedInv
<1>2. PICK g \in BOOLEAN : Story(g)
  BY DEF RestFedInv
<1>3. Versions' = Versions
  BY DEF Versions
<1>4. TypeOK'
  BY <1>1 DEF TypeOK, RestTyped, RunType
<1>5. Precedes(g, cache, cache) /\ cache \in Versions
  BY <1>1, <1>2, InStory
<1>6. Story(g)'
  <2>1. run'.pc # "idle" => Precedes(g, run'.seen, cache)
    BY <1>2, <1>5 DEF Story
  <2>2. InOrder(g, cache, log, cr)
    BY <1>2 DEF Story
  <2> QED
    BY <2>1, <2>2 DEF Story
<1>7. VersionsSound'
  BY <1>1, <1>3 DEF VersionsSound
<1>8. NoSecond'
  <2>1. SUFFICES ASSUME cr.id,
                        NEW v \in Versions \cup (IF run'.pc = "idle" THEN {} ELSE {run'.seen}),
                        Creating(v)
                 PROVE  Ours(first)'
    BY <1>3 DEF NoSecond
  <2>2. v \in Versions \cup (IF run.pc = "idle" THEN {} ELSE {run.seen})
    BY <2>1, <1>5
  <2>3. Ours(first)
    BY <2>1, <2>2, <1>1 DEF NoSecond
  <2> QED
    BY <2>1, <2>3 DEF Ours
<1> QED
  BY <1>4, <1>6, <1>7, <1>8 DEF RestFedInv

\* A federation that has left AVAILABLE does not come back in this step.
Forward == cr.id /\ cr.state # "AVAILABLE" => cr'.state # "AVAILABLE"

\* Nothing but the queue changes, or the reconcile is over.
LEMMA StillStep ==
  ASSUME RestFedInv, UNCHANGED <<cr, cache, log, first, host>>, SamePlan,
         queue' \in BOOLEAN, trouble' \in BOOLEAN
  PROVE  RestFedInv'
<1>1. RestTyped /\ RunInv /\ Backed
  BY TypeParts DEF RestFedInv
<1>2. /\ run' \in RunType
      /\ run'.pc # "idle" => run.pc # "idle" /\ run'.seen = run.seen
      /\ run'.pc = "call" => run.pc = "call" /\ run'.to = run.to
  BY <1>1, PlanKept DEF RestTyped
<1>3. RestTyped'
  BY <1>1, <1>2 DEF RestTyped
<1>4. RunInv'
  BY <1>1, RunInvKept DEF Ours, RestTyped
<1>5. Backed'
  BY <1>1 DEF Backed, Live
<1> QED
  BY <1>2, <1>3, <1>4, <1>5, QuietStep DEF Ours

\* The partners do something that takes nothing of what is ours.
LEMMA PartnersStep ==
  ASSUME RestFedInv, UNCHANGED <<cr, cache, log, queue, run>>,
         host' \in [Partner -> HostCR], first' \in Partner \cup {"none"}, trouble' \in BOOLEAN,
         first # "none" => first' = first, \A p \in Partner : Ours(p) => Ours(p)'
  PROVE  RestFedInv'
<1>1. RestTyped /\ RunInv /\ Backed
  BY TypeParts DEF RestFedInv
<1>2. RestTyped'
  BY <1>1 DEF RestTyped
<1>3. RunInv'
  BY <1>1, RunInvKept DEF SamePlan, RestTyped
<1>4. Backed'
  BY <1>1 DEF Backed, Live, Ours
<1>5. Ours(first) => Ours(first)'
  <2>1. "none" \notin Partner
    BY DEF Partner
  <2>2. Ours(first) => first \in Partner /\ first' = first
    BY <2>1 DEF Ours
  <2> QED
    BY <2>2 DEF Ours
<1> QED
  BY <1>2, <1>3, <1>4, <1>5, QuietStep

\* A reconcile begins: it has read the cached CR, and plans what to call and
\* what to write.
LEMMA BeginStep ==
  ASSUME RestFedInv, UNCHANGED <<cr, cache, log, host>>,
         queue' \in BOOLEAN, trouble' \in BOOLEAN,
         first' \in Partner \cup {"none"}, first # "none" => first' = first,
         NEW op \in Op \cup {"none"}, NEW to \in Partner \cup {"none"}, NEW new \in Fed,
         NEW again \in BOOLEAN, Result(op, to, new, again),
         op # "none" => to \in Partner,
         cache.here, new.here = cache.here, new.deleting = cache.deleting, new.id = cache.id,
         op = "DELETE" <=> cache.deleting,
         ~cache.deleting => new.fin,
         new.state # cache.state => /\ cache.fin /\ ~cache.deleting
                                    /\ new.state \notin {"", "AVAILABLE"},
         op \in {"RENEW", "INFO"} => cache.fin,
         op = "POST" => Creating(cache) /\ to = first'
  PROVE  RestFedInv'
<1>1. RestTyped /\ VersionsTyped /\ VersionsSound /\ Backed
  BY TypeParts DEF RestFedInv
<1>2. run' = [pc |-> IF op = "none" THEN "meta" ELSE "call", op |-> op, to |-> to,
              seen |-> cache, new |-> new, again |-> again]
  BY DEF Result
<1>3. /\ run'.pc = IF op = "none" THEN "meta" ELSE "call"
      /\ run'.op = op /\ run'.to = to /\ run'.seen = cache /\ run'.new = new
  BY <1>2
<1>4. run' \in RunType
  BY <1>1, <1>2 DEF RunType, VersionsTyped
<1>5. RestTyped'
  BY <1>1, <1>3, <1>4 DEF RestTyped
<1>6. Sound(cache)
  BY <1>1 DEF VersionsSound, Versions
<1>7. ~Accepting'
  BY <1>3 DEF Accepting
<1>8. "none" \notin Partner /\ "POST" # "none"
  BY DEF Partner
<1>9. RunInv'
  BY <1>3, <1>6, <1>7, <1>8 DEF RunInv, Creating, Sound
<1>10. Backed'
  BY <1>1 DEF Backed, Live
<1>11. Ours(first) => Ours(first)'
  <2>1. Ours(first) => first' = first
    BY <1>8 DEF Ours
  <2> QED
    BY <2>1 DEF Ours
<1> QED
  BY <1>3, <1>5, <1>9, <1>10, <1>11, QuietStep

\* Where a reconcile sees the deletion mark, no version asks for a
\* federation, and the current one is not ready.
LEMMA SeenDeleting ==
  ASSUME RestFedInv, run.pc # "idle", run.seen.deleting
  PROVE  /\ \A v \in Versions \cup {run.seen} : ~Creating(v)
         /\ ~(Live(cr) /\ cr.state = "AVAILABLE")
<1>1. TypeOK /\ VersionsSound
  BY DEF RestFedInv
<1>2. PICK g \in BOOLEAN : Story(g)
  BY DEF RestFedInv
<1>3. \A v \in Versions : Precedes(g, run.seen, v)
  BY <1>1, <1>2, InStory
<1>4. \A v \in Versions : v.fin => v.deleting
  BY <1>1, <1>3 DEF Precedes, Growing, Leaving, VersionsSound, Sound
<1>5. cr \in Versions
  BY DEF Versions
<1>6. Sound(cr)
  BY <1>1, <1>5 DEF VersionsSound
<1> QED
  BY <1>4, <1>5, <1>6 DEF Creating, Live, Sound

\* What a reconcile that called the partner makes of the answer, n, or one
\* whose later steps fail.
Reconsiders(n) ==
  \/ run' = [run EXCEPT !.pc = "meta", !.new = n]
  \/ run' = [run EXCEPT !.pc = "meta", !.again = TRUE, !.new = n]
  \/ run.pc = "meta" /\ run' = [run EXCEPT !.new = n, !.again = TRUE]

LEMMA Reconsidered ==
  ASSUME run \in RunType, NEW n \in Fed, Reconsiders(n)
  PROVE  /\ run' \in RunType /\ run'.pc = "meta" /\ run'.op = run.op /\ run'.to = run.to
         /\ run'.seen = run.seen /\ run'.new = n
  BY DEF Reconsiders, RunType

LEMMA AnswerStep ==
  ASSUME RestFedInv, run.pc # "idle", NEW n \in Fed, Reconsiders(n),
         UNCHANGED <<cr, cache, log, queue, first>>,
         host' \in [Partner -> HostCR], trouble' \in BOOLEAN,
         (\A p \in Partner : Ours(p) => Ours(p)') \/ run.seen.deleting,
         n.here = run.seen.here, n.deleting = run.seen.deleting,
         ~run.seen.deleting => n.fin,
         n.state # run.seen.state => run.seen.fin /\ ~run.seen.deleting /\ n.state # "",
         \/ n.id = run.seen.id /\ (n.state = "AVAILABLE" => run.seen.state = "AVAILABLE")
         \/ /\ n.id /\ n.state = "AVAILABLE" /\ run.op = "POST" /\ Ours(run.to)' /\ ~cr.id
  PROVE  RestFedInv'
<1>1. RestTyped /\ RunInv /\ Backed
  BY TypeParts DEF RestFedInv
<1>2. /\ run' \in RunType /\ run'.pc = "meta" /\ run'.op = run.op /\ run'.to = run.to
      /\ run'.seen = run.seen /\ run'.new = n
  BY <1>1, Reconsidered DEF RestTyped
<1>3. RestTyped'
  BY <1>1, <1>2 DEF RestTyped
<1>4. /\ Sound(run.seen) /\ run.seen.here
      /\ run.op = "DELETE" <=> run.seen.deleting
      /\ run.op \in {"RENEW", "INFO"} => run.seen.fin
      /\ run.op = "POST" => Creating(run.seen) /\ run.to = first /\ first # "none"
  BY <1>1 DEF RunInv
<1>5. Accepting' <=> n.state = "AVAILABLE" /\ run.seen.state # "AVAILABLE"
  BY <1>2 DEF Accepting
<1>6. Accepting' => /\ run.op = "POST" /\ n.id /\ Ours(run.to)' /\ ~cr.id
  BY <1>5
<1>7. n.id # run.seen.id => Accepting'
  BY <1>4, <1>5 DEF Creating
<1>8. RunInv'
  BY <1>2, <1>4, <1>6, <1>7 DEF RunInv, Sound, Creating, Ours
<1>9. CASE \A p \in Partner : Ours(p) => Ours(p)'
  <2>1. Backed'
    BY <1>1, <1>9 DEF Backed, Live, Ours
  <2>2. Ours(first) => Ours(first)'
    BY <1>9 DEF Ours
  <2> QED
    BY <1>2, <1>3, <1>8, <2>1, <2>2, QuietStep
<1>10. CASE run.seen.deleting
  <2>1. /\ \A v \in Versions \cup {run.seen} : ~Creating(v)
        /\ ~(Live(cr) /\ cr.state = "AVAILABLE")
    BY <1>10, SeenDeleting
  <2>2. Backed'
    BY <2>1 DEF Backed, Live
  <2> QED
    BY <1>2, <1>3, <1>8, <2>1, <2>2, QuietStep
<1> QED
  BY <1>9, <1>10

(***************************************************************************)
(* The users.                                                              *)
(***************************************************************************)
LEMMA CRKnown ==
  ASSUME RestFedInv
  PROVE  /\ cr \in Fed /\ Sound(cr) /\ RestTyped /\ VersionsTyped
         /\ \E g \in BOOLEAN : Story(g) /\ Precedes(g, cr, cr)
<1>1. TypeOK /\ VersionsSound
  BY DEF RestFedInv
<1>2. PICK g \in BOOLEAN : Story(g)
  BY DEF RestFedInv
<1>3. cr \in Versions /\ Precedes(g, cr, cr)
  BY <1>1, <1>2, InStory
<1> QED
  BY <1>1, <1>2, <1>3, TypeParts DEF VersionsSound, VersionsTyped

LEMMA UserCreatesStep ==
  ASSUME RestFedInv, UserCreates
  PROVE  RestFedInv' /\ Forward
<1> DEFINE f == NewFed
<1>1. /\ ~cr.here /\ Write(f) /\ trouble' = (trouble \/ host["own"].of # "none")
      /\ UNCHANGED <<cache, queue, run, first, host>>
  BY DEF UserCreates
<1>2. cr \in Fed /\ Sound(cr) /\ RestTyped
  BY CRKnown
<1>3. PICK g \in BOOLEAN : Story(g) /\ Precedes(g, cr, cr)
  BY CRKnown
<1>4. /\ f \in Fed /\ f.here = TRUE /\ f.deleting = FALSE /\ f.fin = FALSE
      /\ f.state = "" /\ f.id = FALSE /\ Sound(f)
  BY Created, SoundRecords
<1> HIDE DEF f
<1>5. Precedes(g, cr, f)
  BY <1>1, <1>2, <1>4 DEF Precedes, Growing, Leaving, Sound
<1>6. trouble' \in BOOLEAN /\ queue' \in BOOLEAN
  <2>1. trouble' \in BOOLEAN
    BY <1>1, Zenon
  <2> QED
    BY <2>1, <1>1, <1>2 DEF RestTyped
<1>7. RestFedInv'
  BY <1>1, <1>3, <1>4, <1>5, <1>6, WriteStep DEF SamePlan
<1>8. cr' = f
  BY <1>1 DEF Write
<1> QED
  BY <1>4, <1>7, <1>8 DEF Forward

LEMMA UserDeletesStep ==
  ASSUME RestFedInv, UserDeletes
  PROVE  RestFedInv' /\ Forward
<1> DEFINE d == [cr EXCEPT !.deleting = TRUE]
           f == Kept(d)
<1>1. /\ Live(cr) /\ Write(f)
      /\ UNCHANGED <<cache, queue, run, first, host, trouble>>
  BY DEF UserDeletes
<1>2. cr \in Fed /\ Sound(cr) /\ RestTyped
  BY CRKnown
<1>3. PICK g \in BOOLEAN : Story(g) /\ Precedes(g, cr, cr)
  BY CRKnown
<1>4. /\ d \in Fed /\ d.here = cr.here /\ d.deleting = TRUE /\ d.fin = cr.fin
      /\ d.state = cr.state /\ d.id = cr.id
  BY <1>2 DEF Fed
<1>5. (f = d /\ cr.fin) \/ (f = NoFed /\ ~cr.fin)
  BY <1>4, Keeping
<1> HIDE DEF d, f
<1>6. f \in Fed /\ Sound(f) /\ ~Live(f) /\ (f.id => cr.id) /\ (f.state # "" => f.state = cr.state)
  <2>1. CASE f = d /\ cr.fin
    BY <2>1, <1>2, <1>4 DEF Sound, Live
  <2>2. CASE f = NoFed
    BY <2>2, Gone, SoundRecords DEF Live
  <2> QED
    BY <2>1, <2>2, <1>5
<1>7. Precedes(g, cr, f)
  <2>1. CASE f = d /\ cr.fin
    BY <2>1, <1>1, <1>3, <1>4 DEF Precedes, Growing, Leaving, Live
  <2>2. CASE f = NoFed /\ ~cr.fin
    BY <2>2, <1>1, Gone DEF Precedes, Growing, Leaving, Live
  <2> QED
    BY <2>1, <2>2, <1>5
<1>8. trouble' \in BOOLEAN /\ queue' \in BOOLEAN
  BY <1>1, <1>2 DEF RestTyped
<1>9. RestFedInv'
  BY <1>1, <1>3, <1>6, <1>7, <1>8, WriteStep DEF SamePlan
<1>10. cr' = f
  BY <1>1 DEF Write
<1> QED
  BY <1>6, <1>9, <1>10 DEF Forward

\* An update of the CR that concerns neither the finalizer, the mark nor the
\* status.
LEMMA AnnotationStep ==
  ASSUME RestFedInv, NEW f \in Fed, Write(f), cr.here,
         f.here = cr.here, f.deleting = cr.deleting, f.fin = cr.fin,
         f.state = cr.state, f.id = cr.id,
         UNCHANGED <<cache, queue, run, first, host, trouble>>
  PROVE  RestFedInv' /\ Forward
<1>1. cr \in Fed /\ Sound(cr) /\ RestTyped
  BY CRKnown
<1>2. PICK g \in BOOLEAN : Story(g) /\ Precedes(g, cr, cr)
  BY CRKnown
<1>3. Sound(f) /\ Precedes(g, cr, f) /\ (Live(f) => Live(cr))
  BY <1>1, <1>2 DEF Sound, Precedes, Growing, Leaving, Live
<1>4. trouble' \in BOOLEAN /\ queue' \in BOOLEAN
  BY <1>1 DEF RestTyped
<1>5. RestFedInv'
  BY <1>2, <1>3, <1>4, WriteStep DEF SamePlan
<1>6. cr' = f
  BY DEF Write
<1> QED
  BY <1>5, <1>6 DEF Forward

LEMMA UserRequiresStep ==
  ASSUME RestFedInv, UserRequires
  PROVE  RestFedInv' /\ Forward
<1>1. /\ cr.here /\ UNCHANGED <<cache, queue, run, first, host, trouble>>
      /\ \/ Write([cr EXCEPT !.renew = TRUE])
         \/ Write([cr EXCEPT !.ask = TRUE])
  BY DEF UserRequires, Live
<1>2. cr \in Fed
  BY CRKnown
<1>3. ASSUME NEW f, f = [cr EXCEPT !.renew = TRUE] \/ f = [cr EXCEPT !.ask = TRUE]
      PROVE  /\ f \in Fed /\ f.here = cr.here /\ f.deleting = cr.deleting /\ f.fin = cr.fin
             /\ f.state = cr.state /\ f.id = cr.id
  BY <1>2, <1>3 DEF Fed
<1> QED
  BY <1>1, <1>3, AnnotationStep

(***************************************************************************)
(* The reconcile, up to the call.                                          *)
(***************************************************************************)
LEMMA CacheKnown ==
  ASSUME RestFedInv
  PROVE  cache \in Fed /\ Sound(cache) /\ RestTyped
<1>1. TypeOK /\ VersionsSound
  BY DEF RestFedInv
<1> QED
  BY <1>1, TypeParts DEF VersionsSound, VersionsTyped, Versions

\* Without an id, the client is the one that the shared cache holds now.
LEMMA Client ==
  ASSUME first \in Partner \cup {"none"}, cache \in Fed, NEW op, NEW new, Call(op, new)
  PROVE  LET to == GetOPGClient(cache)
         IN  /\ to \in Partner /\ Result(op, to, new, FALSE)
             /\ first' \in Partner \cup {"none"} /\ (first # "none" => first' = first)
             /\ (~cache.id => first' = to)
             /\ UNCHANGED trouble
<1>1. "own" \in Partner
  BY DEF Partner
<1>2. /\ Result(op, GetOPGClient(cache), new, FALSE) /\ UNCHANGED trouble
      /\ first' = IF cache.id \/ first # "none" THEN first ELSE "own"
  BY DEF Call
<1>3. GetOPGClient(cache) = IF cache.id \/ first = "none" THEN "own" ELSE first
  BY DEF GetOPGClient
<1> QED
  BY <1>1, <1>2, <1>3

LEMMA IgnoresStep ==
  ASSUME RestFedInv, Ignores
  PROVE  RestFedInv'
<1>1. UNCHANGED <<cr, cache, log, host, first, run, trouble>> /\ queue' = FALSE
  BY DEF Ignores, Begin, Local
<1>2. trouble' \in BOOLEAN
  BY <1>1, CRKnown DEF RestTyped
<1> QED
  BY <1>1, <1>2, StillStep DEF SamePlan

LEMMA DeletesStep ==
  ASSUME RestFedInv, Deletes
  PROVE  RestFedInv'
<1> DEFINE new == [cache EXCEPT !.fin = FALSE]
           to == GetOPGClient(cache)
<1>1. /\ queue' = FALSE /\ UNCHANGED <<cr, cache, log, host>> /\ cache.deleting
      /\ Call("DELETE", new)
  BY DEF Deletes, Begin, Local
<1>2. cache \in Fed /\ Sound(cache) /\ RestTyped
  BY CacheKnown
<1>3. /\ new \in Fed /\ new.here = cache.here /\ new.deleting = cache.deleting
      /\ new.id = cache.id /\ new.state = cache.state
  BY <1>2 DEF Fed
<1>4. /\ to \in Partner /\ Result("DELETE", to, new, FALSE)
      /\ first' \in Partner \cup {"none"} /\ (first # "none" => first' = first)
      /\ UNCHANGED trouble
  BY <1>1, <1>2, Client DEF RestTyped
<1> HIDE DEF new, to
<1>5. trouble' \in BOOLEAN /\ "DELETE" \in Op \cup {"none"} /\ cache.here
  BY <1>1, <1>2, <1>4 DEF RestTyped, Op, Sound
<1> QED
  BY <1>1, <1>3, <1>4, <1>5, BeginStep

\* A reconcile that calls nobody.
LEMMA EndsStep ==
  ASSUME RestFedInv, Begin, Local, Live(cache), NEW new \in Fed, NEW again \in BOOLEAN,
         Result("none", "none", new, again), UNCHANGED first, trouble' \in BOOLEAN,
         new.here = cache.here, new.deleting = cache.deleting, new.id = cache.id, new.fin,
         new.state # cache.state => cache.fin /\ new.state \notin {"", "AVAILABLE"}
  PROVE  RestFedInv'
<1>1. cache \in Fed /\ RestTyped
  BY CacheKnown
<1>2. cache.here /\ ~cache.deleting
  BY DEF Live
<1>3. /\ queue' = FALSE /\ UNCHANGED <<cr, cache, log, host>>
      /\ first' \in Partner \cup {"none"}
  BY <1>1 DEF Begin, Local, RestTyped
<1>4. "none" \in Op \cup {"none"} /\ "none" \in Partner \cup {"none"}
  OBVIOUS
<1> QED
  BY <1>2, <1>3, <1>4, BeginStep

LEMMA AddsFinalizerStep ==
  ASSUME RestFedInv, AddsFinalizer
  PROVE  RestFedInv'
<1> DEFINE new == [cache EXCEPT !.fin = TRUE, !.policy = "not-set"]
<1>1. /\ Begin /\ Local /\ Live(cache) /\ Result("none", "none", new, FALSE)
      /\ UNCHANGED <<first, trouble>>
  BY DEF AddsFinalizer, Ends
<1>2. cache \in Fed /\ RestTyped
  BY CacheKnown
<1>3. /\ new \in Fed /\ new.here = cache.here /\ new.deleting = cache.deleting
      /\ new.id = cache.id /\ new.state = cache.state /\ new.fin
  BY <1>2 DEF Fed
<1> HIDE DEF new
<1> QED
  BY <1>1, <1>2, <1>3, EndsStep DEF RestTyped

LEMMA AddsPolicyStep ==
  ASSUME RestFedInv, AddsPolicy
  PROVE  RestFedInv'
<1> DEFINE new == [cache EXCEPT !.policy = "set"]
<1>1. /\ Begin /\ Local /\ Live(cache) /\ cache.fin /\ Result("none", "none", new, FALSE)
      /\ UNCHANGED <<first, trouble>>
  BY DEF AddsPolicy, Ends
<1>2. cache \in Fed /\ RestTyped
  BY CacheKnown
<1>3. /\ new \in Fed /\ new.here = cache.here /\ new.deleting = cache.deleting
      /\ new.id = cache.id /\ new.state = cache.state /\ new.fin
  BY <1>1, <1>2 DEF Fed
<1> HIDE DEF new
<1> QED
  BY <1>1, <1>2, <1>3, EndsStep DEF RestTyped

LEMMA PolicyFailsStep ==
  ASSUME RestFedInv, PolicyFails
  PROVE  RestFedInv'
<1>1. /\ Begin /\ Local /\ Live(cache) /\ cache.fin /\ trouble' = TRUE /\ UNCHANGED first
  BY DEF PolicyFails
<1>2. PICK s \in {cache.state, "FAILED"} :
        Result("none", "none", [cache EXCEPT !.state = s], TRUE)
  BY DEF PolicyFails
<1> DEFINE new == [cache EXCEPT !.state = s]
<1>3. cache \in Fed /\ RestTyped
  BY CacheKnown
<1>4. s \in State
  BY <1>3 DEF State, Fed
<1>5. /\ new \in Fed /\ new.here = cache.here /\ new.deleting = cache.deleting
      /\ new.id = cache.id /\ new.state = s /\ new.fin
  BY <1>1, <1>3, <1>4 DEF Fed
<1>6. Result("none", "none", new, TRUE)
  BY <1>2
<1> HIDE DEF new
<1> QED
  BY <1>1, <1>2, <1>5, <1>6, EndsStep

\* A reconcile that creates, renews or asks for data.
LEMMA CallsStep ==
  ASSUME RestFedInv, Begin, Local, Settled(cache), NEW op \in {"POST", "RENEW", "INFO"},
         NEW new \in Fed, Call(op, new),
         new.here = cache.here, new.deleting = cache.deleting, new.id = cache.id, new.fin,
         new.state # cache.state => new.state \notin {"", "AVAILABLE"},
         op = "POST" => cache.state = ""
  PROVE  RestFedInv'
<1> DEFINE to == GetOPGClient(cache)
<1>1. queue' = FALSE /\ UNCHANGED <<cr, cache, log, host>>
  BY DEF Begin, Local
<1>2. cache.here /\ ~cache.deleting /\ cache.fin
  BY DEF Settled, Live
<1>3. cache \in Fed /\ Sound(cache) /\ RestTyped
  BY CacheKnown
<1>4. /\ to \in Partner /\ Result(op, to, new, FALSE)
      /\ first' \in Partner \cup {"none"} /\ (first # "none" => first' = first)
      /\ (~cache.id => first' = to)
      /\ UNCHANGED trouble
  BY <1>3, Client DEF RestTyped
<1> HIDE DEF to
<1>5. op = "POST" => Creating(cache) /\ to = first'
  BY <1>2, <1>3, <1>4 DEF Creating, Sound
<1>6. trouble' \in BOOLEAN /\ op \in Op \cup {"none"}
  BY <1>3, <1>4 DEF RestTyped, Op
<1> QED
  BY <1>1, <1>2, <1>4, <1>5, <1>6, BeginStep

LEMMA CreatesStep ==
  ASSUME RestFedInv, Creates
  PROVE  RestFedInv'
<1> DEFINE new == [cache EXCEPT !.state = "NOT_AVAILABLE", !.label = TRUE]
<1>1. Begin /\ Local /\ Settled(cache) /\ cache.state = "" /\ Call("POST", new)
  BY DEF Creates
<1>2. cache \in Fed /\ cache.fin
  BY <1>1, CacheKnown DEF Settled
<1>3. /\ new \in Fed /\ new.here = cache.here /\ new.deleting = cache.deleting
      /\ new.id = cache.id /\ new.state = "NOT_AVAILABLE" /\ new.fin
  BY <1>2 DEF Fed, State
<1> HIDE DEF new
<1> QED
  BY <1>1, <1>3, CallsStep

LEMMA RequestStep ==
  ASSUME RestFedInv, Renews \/ Asks
  PROVE  RestFedInv'
<1>1. Begin /\ Local /\ Settled(cache) /\ (Call("RENEW", cache) \/ Call("INFO", cache))
  BY DEF Renews, Asks
<1>2. cache \in Fed /\ cache.fin
  BY <1>1, CacheKnown DEF Settled
<1> QED
  BY <1>1, <1>2, CallsStep

LEMMA ReconcileStep ==
  ASSUME RestFedInv, Reconcile
  PROVE  RestFedInv'
BY IgnoresStep, DeletesStep, AddsFinalizerStep, AddsPolicyStep, CreatesStep, RequestStep
   DEF Reconcile

(***************************************************************************)
(* The partner's answers.                                                  *)
(***************************************************************************)
\* What is known of the reconcile that waits for an answer.
LEMMA CallKnown ==
  ASSUME RestFedInv, run.pc # "idle"
  PROVE  /\ RestTyped /\ run \in RunType /\ run.seen \in Fed /\ run.new \in Fed /\ cr \in Fed
         /\ Sound(run.seen)
         /\ run.new.here = run.seen.here /\ run.new.deleting = run.seen.deleting
         /\ run.op = "DELETE" <=> run.seen.deleting
         /\ run.pc = "call" => run.op # "none" /\ run.to \in Partner
         /\ ~run.seen.deleting => run.new.fin
         /\ run.new.state # run.seen.state =>
              run.seen.fin /\ ~run.seen.deleting /\ run.new.state # ""
         /\ run.new.id # run.seen.id => Accepting
         /\ run.op \in {"RENEW", "INFO"} => run.seen.fin
         /\ run.op = "POST" => Creating(run.seen) /\ run.to = first
         /\ Accepting => /\ run.pc # "call" /\ run.op = "POST" /\ run.new.id
                         /\ Ours(run.to) /\ ~cr.id
<1>1. RestTyped /\ VersionsTyped /\ RunInv
  BY TypeParts DEF RestFedInv
<1>2. run \in RunType /\ run.seen \in Fed /\ run.new \in Fed /\ cr \in Fed
  BY <1>1 DEF RestTyped, VersionsTyped, RunType
<1> QED
  BY <1>1, <1>2 DEF RunInv, RestTyped

\* Until the answer is there the plan is neither to be ready nor to have an id.
LEMMA Waiting ==
  ASSUME RestFedInv, run.pc = "call"
  PROVE  /\ run.new.id = run.seen.id
         /\ run.new.state = "AVAILABLE" => run.seen.state = "AVAILABLE"
  BY CallKnown DEF Accepting

\* A partner on which the name is free gets a federation that is ours.
LEMMA Posted ==
  ASSUME host \in [Partner -> HostCR], NEW p \in Partner, host[p].of = "none",
         host' = [host EXCEPT ![p] = [NoCR EXCEPT !.of = "us"]]
  PROVE  /\ host' \in [Partner -> HostCR] /\ Ours(p)'
         /\ \A q \in Partner : Ours(q) => Ours(q)'
<1> DEFINE h == [NoCR EXCEPT !.of = "us"]
<1>1. h \in HostCR /\ h.of = "us" /\ h.deleting = FALSE
  BY NoCRTyped DEF HostCR
<1>2. host' = [host EXCEPT ![p] = h]
  OBVIOUS
<1> HIDE DEF h
<1>3. host' \in [Partner -> HostCR] /\ host'[p] = h /\ \A q \in Partner \ {p} : host'[q] = host[q]
  BY <1>1, <1>2
<1> QED
  BY <1>1, <1>3 DEF Ours

LEMMA Marked ==
  ASSUME host \in [Partner -> HostCR], NEW p \in Partner,
         host' = [host EXCEPT ![p].deleting = TRUE]
  PROVE  host' \in [Partner -> HostCR]
<1>1. [host[p] EXCEPT !.deleting = TRUE] \in HostCR
  BY DEF HostCR
<1> QED
  BY <1>1

LEMMA CreateFederationStep ==
  ASSUME RestFedInv, CreateFederation
  PROVE  RestFedInv'
<1>1. /\ run.pc = "call" /\ run.op = "POST" /\ UNCHANGED <<cr, cache, log, queue, first, trouble>>
  BY DEF CreateFederation, Calling, Remote
<1>2. /\ RestTyped /\ run \in RunType /\ run.seen \in Fed /\ run.new \in Fed /\ cr \in Fed
      /\ run.new.here = run.seen.here /\ run.new.deleting = run.seen.deleting
      /\ run.to \in Partner /\ run.new.fin
      /\ Creating(run.seen) /\ run.to = first
      /\ run.new.id = run.seen.id
  BY <1>1, CallKnown, Waiting DEF Creating
<1>3. host \in [Partner -> HostCR] /\ trouble' \in BOOLEAN
  BY <1>1, <1>2 DEF RestTyped
<1>4. run.seen.fin /\ ~run.seen.deleting
  BY <1>2 DEF Creating
<1>5. CASE host[run.to].of = "none"
  <2> DEFINE n == Accepted(run.new)
  <2>1. /\ host' = [host EXCEPT ![run.to] = [NoCR EXCEPT !.of = "us"]]
        /\ run' = [run EXCEPT !.pc = "meta", !.new = n]
    BY <1>5 DEF CreateFederation, Answered
  <2>2. /\ host' \in [Partner -> HostCR] /\ Ours(run.to)'
        /\ \A q \in Partner : Ours(q) => Ours(q)'
    <3> DEFINE p == run.to
    <3>1. /\ p \in Partner /\ host[p].of = "none"
          /\ host' = [host EXCEPT ![p] = [NoCR EXCEPT !.of = "us"]]
      BY <2>1, <1>2, <1>5
    <3> HIDE DEF p
    <3>2. /\ host' \in [Partner -> HostCR] /\ p \in Partner /\ host'[p].of = "us" /\ ~host'[p].deleting
          /\ \A q \in Partner : Ours(q) => Ours(q)'
      BY <3>1, <1>3, Posted DEF Ours
    <3>3. run'.to = run.to
      BY <2>1, <1>2 DEF RunType
    <3> QED
      BY <3>2, <3>3 DEF Ours, p
  <2>3. /\ n \in Fed /\ n.here = run.new.here /\ n.deleting = run.new.deleting
        /\ n.fin = run.new.fin /\ n.state = "AVAILABLE" /\ n.id = TRUE
    BY <1>2 DEF Fed, State, Accepted
  <2>4. ~cr.id
    <3>1. NoSecond
      BY DEF RestFedInv
    <3>2. ~Ours(first)
      BY <1>2, <1>5 DEF Ours
    <3> QED
      BY <3>1, <3>2, <1>1, <1>2 DEF NoSecond
  <2> HIDE DEF n
  <2>5. Reconsiders(n)
    BY <2>1 DEF Reconsiders
  <2> QED
    BY <2>2, <2>3, <2>4, <2>5, <1>1, <1>2, <1>3, <1>4, AnswerStep
<1>6. CASE host[run.to].of # "none"
  <2> DEFINE n == [run.new EXCEPT !.state = "FAILED"]
  <2>1. host' = host /\ run' = [run EXCEPT !.pc = "meta", !.new = n]
    BY <1>6 DEF CreateFederation, Answered
  <2>2. /\ n \in Fed /\ n.here = run.new.here /\ n.deleting = run.new.deleting
        /\ n.fin = run.new.fin /\ n.state = "FAILED" /\ n.id = run.new.id
    BY <1>2 DEF Fed, State
  <2> HIDE DEF n
  <2>3. Reconsiders(n) /\ \A q \in Partner : Ours(q) => Ours(q)'
    BY <2>1 DEF Reconsiders, Ours
  <2> QED
    BY <2>1, <2>2, <2>3, <1>1, <1>2, <1>3, <1>4, AnswerStep
<1> QED
  BY <1>5, <1>6

LEMMA DeleteFederationDetailsStep ==
  ASSUME RestFedInv, DeleteFederationDetails
  PROVE  RestFedInv'
<1>1. /\ run.pc = "call" /\ run.op = "DELETE"
      /\ UNCHANGED <<cr, cache, log, queue, first, trouble>>
      /\ host' = host \/ host' = [host EXCEPT ![run.to].deleting = TRUE]
      /\ run' = [run EXCEPT !.pc = "meta", !.new = run.new]
  BY DEF DeleteFederationDetails, Calling, Remote, Answered
<1>2. RestTyped /\ run.new \in Fed /\ run.seen.deleting /\ run.to \in Partner
  BY <1>1, CallKnown
<1>3. /\ run.new.here = run.seen.here /\ run.new.deleting = run.seen.deleting
      /\ run.new.state = run.seen.state /\ run.new.id = run.seen.id
  BY <1>1, <1>2, CallKnown, Waiting
<1>4. host' \in [Partner -> HostCR] /\ trouble' \in BOOLEAN
  BY <1>1, <1>2, Marked DEF RestTyped
<1>5. Reconsiders(run.new)
  BY <1>1 DEF Reconsiders
<1> QED
  BY <1>1, <1>2, <1>3, <1>4, <1>5, AnswerStep

\* An answer by which the federation does not get ready.
LEMMA UnreadyStep ==
  ASSUME RestFedInv, run.pc = "call", NEW n \in Fed, Reconsiders(n),
         UNCHANGED <<cr, cache, log, queue, first>>, trouble' \in BOOLEAN,
         host' \in [Partner -> HostCR],
         (\A p \in Partner : Ours(p) => Ours(p)') \/ run.seen.deleting,
         n.here = run.new.here, n.deleting = run.new.deleting, n.fin = run.new.fin,
         n.id = run.new.id,
         n.state # run.new.state => run.op # "DELETE" /\ n.state \notin {"", "AVAILABLE"}
  PROVE  RestFedInv'
<1>1. /\ run.new.here = run.seen.here /\ run.new.deleting = run.seen.deleting
      /\ ~run.seen.deleting => run.new.fin
      /\ run.new.state # run.seen.state =>
           run.seen.fin /\ ~run.seen.deleting /\ run.new.state # ""
      /\ run.new.id = run.seen.id
      /\ run.new.state = "AVAILABLE" => run.seen.state = "AVAILABLE"
      /\ run.op = "DELETE" <=> run.seen.deleting
  BY CallKnown, Waiting
<1>2. run.op # "DELETE" => run.seen.fin /\ ~run.seen.deleting
  <2>1. RestTyped /\ run.op # "none"
    BY CallKnown
  <2>2. run.op \in Op
    BY <2>1 DEF RestTyped, RunType
  <2> QED
    BY <1>1, <2>2, CallKnown DEF Op, Creating
<1> QED
  BY <1>1, <1>2, AnswerStep

LEMMA RequestAnsweredStep ==
  ASSUME RestFedInv, RenewFederation \/ GetFederationData
  PROVE  RestFedInv'
<1>1. /\ run.pc = "call" /\ run.op # "DELETE"
      /\ UNCHANGED <<cr, cache, log, queue, first, host, trouble>>
  BY DEF RenewFederation, GetFederationData, Calling, Remote
<1>2. RestTyped /\ run.new \in Fed
  BY <1>1, CallKnown
<1>3. PICK n : /\ run' = [run EXCEPT !.pc = "meta", !.new = n]
               /\ \/ n = Renewed(run.new)
                  \/ \E s \in {"FAILED", "TEMPORARY_FAILURE"} :
                       n = [run.new EXCEPT !.state = s, !.ask = FALSE]
  BY DEF RenewFederation, GetFederationData, Answered
<1>4. /\ n \in Fed /\ n.here = run.new.here /\ n.deleting = run.new.deleting
      /\ n.fin = run.new.fin /\ n.id = run.new.id /\ n.state \notin {"", "AVAILABLE"}
  BY <1>2, <1>3 DEF Renewed, Fed, State
<1>5. /\ Reconsiders(n) /\ host' \in [Partner -> HostCR] /\ trouble' \in BOOLEAN
      /\ \A p \in Partner : Ours(p) => Ours(p)'
  BY <1>1, <1>2, <1>3 DEF Reconsiders, RestTyped, Ours
<1> QED
  BY <1>1, <1>4, <1>5, UnreadyStep

LEMMA RefusedStep ==
  ASSUME RestFedInv, Refused
  PROVE  RestFedInv'
<1>1. /\ run.pc = "call" /\ trouble' = TRUE
      /\ UNCHANGED <<cr, cache, log, queue, first, host>>
  BY DEF Refused, Remote
<1>2. RestTyped /\ run.new \in Fed
  BY <1>1, CallKnown
<1>3. PICK n : /\ run' = [run EXCEPT !.pc = "meta", !.new = n]
               /\ \/ n = run.new
                  \/ /\ run.op = "POST"
                     /\ \E s \in {"FAILED", "NOT_AVAILABLE"} : n = [run.new EXCEPT !.state = s]
  BY DEF Refused, Answered
<1>4. /\ n \in Fed /\ n.here = run.new.here /\ n.deleting = run.new.deleting
      /\ n.fin = run.new.fin /\ n.id = run.new.id
      /\ n.state # run.new.state => run.op = "POST" /\ n.state \notin {"", "AVAILABLE"}
  BY <1>2, <1>3 DEF Fed, State
<1>5. /\ Reconsiders(n) /\ host' \in [Partner -> HostCR]
      /\ \A p \in Partner : Ours(p) => Ours(p)'
  BY <1>1, <1>2, <1>3 DEF Reconsiders, RestTyped, Ours
<1> QED
  BY <1>1, <1>4, <1>5, UnreadyStep

LEMMA LostStep ==
  ASSUME RestFedInv, Lost
  PROVE  RestFedInv'
<1> DEFINE n == IF run.op = "POST" THEN run.new ELSE run.seen
<1>1. /\ run.pc = "call" /\ trouble' = TRUE /\ LostCall
      /\ UNCHANGED <<cr, cache, log, queue, first>>
  BY DEF Lost, Remote
<1>2. /\ RestTyped /\ run \in RunType /\ run.new \in Fed /\ run.seen \in Fed /\ run.to \in Partner
      /\ run.op = "DELETE" <=> run.seen.deleting
      /\ run.new.here = run.seen.here /\ run.new.deleting = run.seen.deleting
      /\ ~run.seen.deleting => run.new.fin
      /\ run.new.state # run.seen.state =>
           run.seen.fin /\ ~run.seen.deleting /\ run.new.state # ""
      /\ run.new.id = run.seen.id
      /\ run.new.state = "AVAILABLE" => run.seen.state = "AVAILABLE"
  BY <1>1, CallKnown, Waiting
<1>3. host \in [Partner -> HostCR]
  BY <1>2 DEF RestTyped
<1>4. /\ host' \in [Partner -> HostCR]
      /\ (\A p \in Partner : Ours(p) => Ours(p)') \/ run.seen.deleting
  <2>1. CASE host' = host
    BY <2>1, <1>3 DEF Ours
  <2>2. CASE /\ run.op = "POST" /\ host[run.to].of = "none"
             /\ host' = [host EXCEPT ![run.to] = [NoCR EXCEPT !.of = "us"]]
    BY <2>2, <1>2, <1>3, Posted
  <2>3. CASE run.op = "DELETE" /\ host' = [host EXCEPT ![run.to].deleting = TRUE]
    BY <2>3, <1>2, <1>3, Marked
  <2> QED
    BY <2>1, <2>2, <2>3, <1>1 DEF LostCall
<1>5. run' = [run EXCEPT !.pc = "meta", !.again = TRUE, !.new = n]
  <2>1. run' = [run EXCEPT !.pc = "meta", !.again = TRUE,
                           !.new = IF run.op = "POST" THEN @ ELSE run.seen]
    BY DEF Lost
  <2> QED
    BY <2>1, <1>2 DEF RunType
<1>6. /\ n \in Fed /\ n.here = run.seen.here /\ n.deleting = run.seen.deleting
      /\ n.id = run.seen.id /\ (n.state = "AVAILABLE" => run.seen.state = "AVAILABLE")
      /\ n.state # run.seen.state => run.seen.fin /\ ~run.seen.deleting /\ n.state # ""
  BY <1>2
<1>7. ~run.seen.deleting => n.fin
  <2>1. run.op \in Op
    BY <1>1, <1>2, CallKnown DEF RunType
  <2> QED
    BY <2>1, <1>1, <1>2, CallKnown DEF Op, Creating
<1> HIDE DEF n
<1>8. Reconsiders(n)
  BY <1>5 DEF Reconsiders
<1> QED
  BY <1>1, <1>4, <1>6, <1>7, <1>8, AnswerStep

LEMMA PolicyRemovalFailsStep ==
  ASSUME RestFedInv, PolicyRemovalFails
  PROVE  RestFedInv'
<1>1. /\ run.pc = "meta" /\ run.op = "DELETE" /\ trouble' = TRUE
      /\ UNCHANGED <<cr, cache, log, queue, first, host>>
      /\ run' = [run EXCEPT !.new = run.seen, !.again = TRUE]
  BY DEF PolicyRemovalFails, Remote
<1>2. RestTyped /\ run.seen \in Fed /\ run.seen.deleting
  BY <1>1, CallKnown
<1>3. Reconsiders(run.seen) /\ host' \in [Partner -> HostCR]
  BY <1>1, <1>2 DEF Reconsiders, RestTyped
<1> QED
  BY <1>1, <1>2, <1>3, AnswerStep

(***************************************************************************)
(* The patches.                                                            *)
(***************************************************************************)
Merge(f, part) ==
  [x \in DOMAIN f |-> IF x \in part /\ run.new[x] # run.seen[x] THEN run.new[x] ELSE f[x]]

Pick(f, seen, new) == IF new # seen THEN new ELSE f

LEMMA Merging ==
  ASSUME run.new \in Fed, run.seen \in Fed, NEW f \in Fed
  PROVE  /\ \A m : m = Merge(f, Meta) =>
              /\ m \in Fed /\ m.here = f.here /\ m.deleting = f.deleting
              /\ m.fin = Pick(f.fin, run.seen.fin, run.new.fin)
              /\ m.state = f.state /\ m.id = f.id
         /\ \A m : m = Merge(f, Status) =>
              /\ m \in Fed /\ m.here = f.here /\ m.deleting = f.deleting /\ m.fin = f.fin
              /\ m.state = Pick(f.state, run.seen.state, run.new.state)
              /\ m.id = Pick(f.id, run.seen.id, run.new.id)
<1>1. ASSUME NEW m, m = Merge(f, Meta)
      PROVE  /\ m \in Fed /\ m.here = f.here /\ m.deleting = f.deleting
             /\ m.fin = Pick(f.fin, run.seen.fin, run.new.fin)
             /\ m.state = f.state /\ m.id = f.id
  <2>1. m \in Fed
    BY <1>1 DEF Merge, Fed
  <2>2. m.here = f.here /\ m.deleting = f.deleting /\ m.state = f.state /\ m.id = f.id
    BY <1>1 DEF Merge, Fed, Meta
  <2>3. m.fin = Pick(f.fin, run.seen.fin, run.new.fin)
    BY <1>1 DEF Merge, Fed, Meta, Pick
  <2> QED
    BY <2>1, <2>2, <2>3
<1>2. ASSUME NEW m, m = Merge(f, Status)
      PROVE  /\ m \in Fed /\ m.here = f.here /\ m.deleting = f.deleting /\ m.fin = f.fin
             /\ m.state = Pick(f.state, run.seen.state, run.new.state)
             /\ m.id = Pick(f.id, run.seen.id, run.new.id)
  <2>1. m \in Fed
    BY <1>2 DEF Merge, Fed
  <2>2. m.here = f.here /\ m.deleting = f.deleting /\ m.fin = f.fin
    BY <1>2 DEF Merge, Fed, Status
  <2>3. /\ m.state = Pick(f.state, run.seen.state, run.new.state)
        /\ m.id = Pick(f.id, run.seen.id, run.new.id)
    BY <1>2 DEF Merge, Fed, Status, Pick
  <2> QED
    BY <2>1, <2>2, <2>3
<1> QED
  BY <1>1, <1>2

LEMMA MergedIsMerge ==
  ASSUME NEW f, NEW part
  PROVE  /\ f.here => Merged(f, part) = Kept(Merge(f, part))
         /\ ~f.here => Merged(f, part) = f
  BY DEF Merged, Merge

\* The patch of the metadata may change the story, but keeps to one.
LEMMA MetaMerged ==
  ASSUME RestFedInv, run.pc # "idle", NEW f, f = Merged(cr, Meta)
  PROVE  /\ f \in Fed /\ Sound(f)
         /\ f = NoFed \/ (f.here = cr.here /\ f.deleting = cr.deleting
                           /\ f.state = cr.state /\ f.id = cr.id)
         /\ \E g \in BOOLEAN : Story(g) /\ Precedes(g, cr, f)
<1>1. TypeOK /\ VersionsSound
  BY DEF RestFedInv
<1>2. PICK g \in BOOLEAN : Story(g)
  BY DEF RestFedInv
<1>3. /\ run.new \in Fed /\ run.seen \in Fed /\ cr \in Fed /\ Sound(run.seen) /\ Sound(cr)
      /\ ~run.seen.deleting => run.new.fin
  BY CallKnown, CRKnown
<1>4. /\ \A v \in Versions : Precedes(g, cache, v) /\ Precedes(g, v, cr) /\ Precedes(g, run.seen, v)
      /\ cache \in Versions /\ cr \in Versions
  BY <1>1, <1>2, InStory
<1>5. cache \in Fed /\ log \in Seq(Fed) /\ InOrder(g, cache, log, cr)
  BY <1>1, <1>2 DEF TypeOK, Story
<1>6. \A v \in Versions : Sound(v)
  BY <1>1 DEF VersionsSound
\* A story that says less of every two versions is told as well.
<1>7. ASSUME NEW h \in BOOLEAN,
             \A v, w \in Versions \cup {run.seen} : Precedes(g, v, w) => Precedes(h, v, w)
      PROVE  Story(h)
  <2>1. \A i \in 1 .. Len(log) : log[i] \in Versions
    BY DEF Versions
  <2>2. InOrder(h, cache, log, cr)
    BY <1>4, <1>5, <1>7, <2>1 DEF InOrder
  <2> QED
    BY <2>2, <1>4, <1>7 DEF Story
<1>8. CASE ~cr.here
  <2>1. f = cr
    BY <1>8, MergedIsMerge
  <2> QED
    BY <2>1, <1>2, <1>3, <1>4
<1>9. CASE cr.here
  <2> DEFINE m == Merge(cr, Meta)
  <2>1. /\ m \in Fed /\ m.here = cr.here /\ m.deleting = cr.deleting
        /\ m.fin = Pick(cr.fin, run.seen.fin, run.new.fin)
        /\ m.state = cr.state /\ m.id = cr.id
    BY <1>3, Merging
  <2>2. f = Kept(m)
    BY <1>9, MergedIsMerge
  <2> HIDE DEF m
  <2>3. (f = m /\ (m.deleting => m.fin)) \/ (f = NoFed /\ m.deleting /\ ~m.fin)
    BY <2>2, Keeping
  <2>4. m.fin \in BOOLEAN /\ cr.fin \in BOOLEAN /\ run.seen.fin \in BOOLEAN /\ run.new.fin \in BOOLEAN
    BY <2>1, <1>3 DEF Fed
  <2>5. CASE m.fin = cr.fin
    <3>1. f = m
      BY <2>1, <2>3, <2>5, <1>3 DEF Sound
    <3>2. Sound(m) /\ Precedes(g, cr, m)
      BY <2>1, <2>5, <1>3, <1>4, <1>9 DEF Sound, Precedes, Growing, Leaving
    <3> QED
      BY <3>1, <3>2, <2>1, <1>2
  <2>6. CASE m.fin /\ ~cr.fin
    <3>1. ~run.seen.fin /\ ~run.seen.deleting
      BY <2>1, <2>4, <2>6, <1>3 DEF Pick, Sound
    <3>2. f = m
      BY <2>3, <2>6
    <3>3. Sound(m)
      BY <2>1, <2>6, <1>3, <1>9 DEF Sound
    <3>4. Story(TRUE)
      <4>1. CASE g
        BY <4>1, <1>2 DEF Story, Precedes, InOrder
      <4>2. CASE ~g
        <5>1. \A v \in Versions \cup {run.seen} : ~v.deleting /\ ~v.fin
          BY <4>2, <3>1, <1>4 DEF Precedes, Leaving
        <5>2. \A v, w \in Versions \cup {run.seen} : Precedes(TRUE, v, w)
          BY <5>1 DEF Precedes, Growing
        <5> QED
          BY <5>2, <1>7
      <4> QED
        BY <4>1, <4>2
    <3>5. Precedes(TRUE, cr, m)
      BY <2>1, <2>6 DEF Precedes, Growing
    <3> QED
      BY <3>2, <3>3, <3>4, <3>5, <2>1
  <2>7. CASE ~m.fin /\ cr.fin
    <3>1. run.seen.fin /\ run.seen.deleting
      BY <2>1, <2>4, <2>7, <1>3 DEF Pick
    <3>2. \A v \in Versions \cup {run.seen} : v.fin => v.deleting
      BY <3>1, <1>4 DEF Precedes, Growing, Leaving
    <3>3. cr.deleting /\ m.deleting
      BY <3>2, <2>1, <2>7, <1>4
    <3>4. f = NoFed
      BY <3>3, <2>3, <2>7
    <3>5. Story(FALSE)
      <4>1. CASE ~g
        BY <4>1, <1>2 DEF Story, Precedes, InOrder
      <4>2. CASE g
        <5>1. \A v \in Versions \cup {run.seen} : v.deleting
          BY <4>2, <3>1, <1>4 DEF Precedes, Growing
        <5>2. \A v, w \in Versions \cup {run.seen} : Precedes(FALSE, v, w)
          BY <5>1 DEF Precedes, Leaving
        <5> QED
          BY <5>2, <1>7
      <4> QED
        BY <4>1, <4>2
    <3>6. Precedes(FALSE, cr, f)
      BY <3>3, <3>4, Gone DEF Precedes, Leaving
    <3> QED
      BY <3>4, <3>5, <3>6, Gone, SoundRecords
  <2> QED
    BY <2>4, <2>5, <2>6, <2>7
<1> QED
  BY <1>8, <1>9

LEMMA PatchMetaStep ==
  ASSUME RestFedInv, PatchMeta
  PROVE  RestFedInv' /\ Forward
<1> DEFINE f == Merged(cr, Meta)
<1>1. /\ run.pc = "meta" /\ Write(f) /\ UNCHANGED <<cache, first, host, trouble>>
      /\ \/ run' = Idle /\ queue' = (queue \/ run.again)
         \/ run' = [run EXCEPT !.pc = "status"] /\ UNCHANGED queue
  BY DEF PatchMeta, Finish
<1>2. /\ f \in Fed /\ Sound(f)
      /\ f = NoFed \/ (f.here = cr.here /\ f.deleting = cr.deleting
                        /\ f.state = cr.state /\ f.id = cr.id)
  BY <1>1, MetaMerged
<1>3. PICK g \in BOOLEAN : Story(g) /\ Precedes(g, cr, f)
  BY <1>1, MetaMerged
<1> HIDE DEF f
<1>4. (f.id => cr.id) /\ (Live(f) => Live(cr) /\ f.state = cr.state /\ f.id = cr.id)
  BY <1>2, Gone DEF Live
<1>5. RestTyped
  BY CRKnown
<1>6. queue' \in BOOLEAN
  <2>1. CASE queue' = (queue \/ run.again)
    BY <2>1, Zenon
  <2> QED
    BY <2>1, <1>1, <1>5 DEF RestTyped
<1>7. SamePlan /\ trouble' \in BOOLEAN
  BY <1>1, <1>5 DEF SamePlan, RestTyped
<1>8. RestFedInv'
  BY <1>1, <1>2, <1>3, <1>4, <1>6, <1>7, WriteStep
<1>9. cr' = f
  BY <1>1 DEF Write
<1> QED
  BY <1>2, <1>8, <1>9, Gone DEF Forward

\* The patch of the status changes a CR only if it has its finalizer, and
\* makes it ready only if its context id has not been known.
LEMMA StatusMerged ==
  ASSUME RestFedInv, run.pc # "idle", NEW f, f = Merged(cr, Status)
  PROVE  /\ f \in Fed /\ Sound(f)
         /\ f.here = cr.here /\ f.deleting = cr.deleting /\ f.fin = cr.fin
         /\ \/ f.id = cr.id /\ (f.state = "AVAILABLE" => cr.state = "AVAILABLE")
            \/ f.id /\ Ours(first) /\ ~cr.id
<1>1. TypeOK
  BY DEF RestFedInv
<1>2. PICK g \in BOOLEAN : Story(g)
  BY DEF RestFedInv
<1>3. run.new \in Fed /\ run.seen \in Fed /\ cr \in Fed /\ Sound(run.seen) /\ Sound(cr)
  BY CallKnown, CRKnown
<1>4. Precedes(g, run.seen, cr)
  BY <1>1, <1>2, InStory
<1>5. CASE ~cr.here
  <2>1. f = cr
    BY <1>5, MergedIsMerge
  <2> QED
    BY <2>1, <1>3
<1>6. CASE cr.here
  <2> DEFINE m == Merge(cr, Status)
  <2>1. /\ m \in Fed /\ m.here = cr.here /\ m.deleting = cr.deleting /\ m.fin = cr.fin
        /\ m.state = Pick(cr.state, run.seen.state, run.new.state)
        /\ m.id = Pick(cr.id, run.seen.id, run.new.id)
    BY <1>3, Merging
  <2>2. f = Kept(m)
    BY <1>6, MergedIsMerge
  <2> HIDE DEF m
  <2>3. f = m
    BY <2>1, <2>2, <1>3 DEF Kept, Sound
  <2>4. m.state # cr.state => cr.fin /\ m.state = run.new.state /\ m.state # ""
    <3>1. SUFFICES ASSUME m.state # cr.state PROVE cr.fin /\ m.state = run.new.state /\ m.state # ""
      OBVIOUS
    <3>2. run.new.state # run.seen.state /\ m.state = run.new.state
      BY <3>1, <2>1 DEF Pick
    <3>3. run.seen.fin /\ ~run.seen.deleting /\ run.new.state # ""
      BY <3>2, CallKnown
    <3> QED
      BY <3>2, <3>3, <1>4 DEF Precedes, Growing, Leaving
  <2>5. CASE Accepting
    <3>1. /\ run.op = "POST" /\ run.new.id /\ Ours(run.to) /\ ~cr.id /\ run.to = first
          /\ run.new.state = "AVAILABLE" /\ run.seen.state # "AVAILABLE"
          /\ run.seen.state = ""
      BY <2>5, CallKnown DEF Accepting, Creating
    <3>2. m.state = "AVAILABLE" /\ run.seen.fin /\ ~run.seen.deleting
      BY <3>1, <2>1, CallKnown DEF Pick
    <3>3. cr.fin
      BY <3>2, <1>4 DEF Precedes, Growing, Leaving
    <3>4. ~run.seen.id
      BY <3>1, <1>3 DEF Sound
    <3>5. m.id
      BY <3>1, <3>4, <2>1 DEF Pick
    <3>6. Sound(m)
      BY <3>2, <3>3, <2>1, <1>3 DEF Sound
    <3> QED
      BY <3>1, <3>5, <3>6, <2>1, <2>3
  <2>6. CASE ~Accepting
    <3>1. run.new.id = run.seen.id
      BY <2>6, CallKnown
    <3>2. m.id = cr.id
      BY <3>1, <2>1 DEF Pick
    <3>3. m.state = "AVAILABLE" => cr.state = "AVAILABLE"
      BY <2>6, <2>1 DEF Pick, Accepting
    <3>4. Sound(m)
      BY <3>2, <2>1, <2>4, <1>3 DEF Sound
    <3> QED
      BY <3>2, <3>3, <3>4, <2>1, <2>3
  <2> QED
    BY <2>5, <2>6
<1> QED
  BY <1>5, <1>6

LEMMA PatchStatusStep ==
  ASSUME RestFedInv, PatchStatus
  PROVE  RestFedInv' /\ Forward
<1> DEFINE f == Merged(cr, Status)
<1>1. /\ run.pc = "status" /\ Write(f) /\ UNCHANGED <<cache, first, host, trouble>>
      /\ run' = Idle /\ queue' = (queue \/ run.again)
  BY DEF PatchStatus, Finish
<1>2. /\ f \in Fed /\ Sound(f)
      /\ f.here = cr.here /\ f.deleting = cr.deleting /\ f.fin = cr.fin
      /\ \/ f.id = cr.id /\ (f.state = "AVAILABLE" => cr.state = "AVAILABLE")
         \/ f.id /\ Ours(first) /\ ~cr.id
  BY <1>1, StatusMerged
<1>3. PICK g \in BOOLEAN : Story(g) /\ Precedes(g, cr, cr)
  BY CRKnown
<1> HIDE DEF f
<1>4. Precedes(g, cr, f)
  BY <1>2, <1>3 DEF Precedes, Growing, Leaving
<1>5. queue' \in BOOLEAN
  BY <1>1, Zenon
<1>6. trouble' \in BOOLEAN /\ SamePlan /\ run'.pc = "idle"
  BY <1>1, CRKnown, IdleTyped DEF RestTyped, SamePlan
<1>7. (f.id => cr.id \/ Ours(first)) /\ (Live(f) => Live(cr))
  BY <1>2 DEF Live
<1>8. RestFedInv'
  BY <1>1, <1>2, <1>3, <1>4, <1>5, <1>6, <1>7, WriteStep
<1>9. cr' = f
  BY <1>1 DEF Write
<1> QED
  BY <1>2, <1>8, <1>9 DEF Forward

LEMMA PatchFailsStep ==
  ASSUME RestFedInv, PatchFails
  PROVE  RestFedInv'
<1>1. /\ UNCHANGED <<cr, cache, log, first, host>> /\ trouble' = TRUE /\ run' = Idle
      /\ queue' = (queue \/ TRUE)
  BY DEF PatchFails, Finish
<1>2. queue' \in BOOLEAN
  BY <1>1, Zenon
<1> QED
  BY <1>1, <1>2, StillStep DEF SamePlan

(***************************************************************************)
(* The restart, and the partners.                                          *)
(***************************************************************************)
LEMMA GuestRestartsStep ==
  ASSUME RestFedInv, GuestRestarts
  PROVE  RestFedInv'
<1>1. /\ cache' = cr /\ log' = <<>> /\ queue' = cr.here /\ run' = Idle /\ first' = "none"
      /\ trouble' = TRUE /\ UNCHANGED <<cr, host>>
  BY DEF GuestRestarts
<1>2. cr \in Fed /\ Sound(cr) /\ RestTyped /\ Backed
  BY CRKnown DEF RestFedInv
<1>3. PICK g \in BOOLEAN : Story(g) /\ Precedes(g, cr, cr)
  BY CRKnown
<1>4. <<>> \in Seq(Fed) /\ Len(<<>>) = 0 /\ 0 <= MaxLag
  BY EmptySeq, RestFederationAssumption
<1>5. Versions' = {cr}
  <2>1. Versions' = {cache', cr'} \cup {log'[i] : i \in 1 .. Len(log')}
    BY DEF Versions
  <2> QED
    BY <2>1, <1>1, <1>4
<1>6. TypeOK'
  <2>1. cr.here \in BOOLEAN
    BY <1>2 DEF Fed
  <2>2. RestTyped'
    BY <2>1, <1>1, <1>2, IdleTyped DEF RestTyped
  <2>3. VersionsTyped'
    BY <1>1, <1>2, <1>4 DEF VersionsTyped
  <2> QED
    BY <2>2, <2>3 DEF TypeOK, RestTyped, VersionsTyped, RunType
<1>7. Story(g)'
  <2>1. InOrder(g, cr, <<>>, cr)
    BY <1>3, OrderAlone
  <2> QED
    BY <2>1, <1>1, IdleTyped DEF Story
<1>8. VersionsSound'
  BY <1>2, <1>5 DEF VersionsSound
<1>9. NoSecond'
  BY <1>1, <1>2, <1>5, IdleTyped DEF NoSecond, Creating, Sound
<1>10. RunInv' /\ Backed'
  BY <1>1, <1>2, IdleTyped DEF RunInv, Backed, Live
<1> QED
  BY <1>6, <1>7, <1>8, <1>9, <1>10 DEF RestFedInv

LEMMA HostSetsIdStep ==
  ASSUME RestFedInv, NEW p \in Partner, HostSetsId(p)
  PROVE  RestFedInv'
<1>1. /\ host' = [host EXCEPT ![p].id = TRUE]
      /\ UNCHANGED <<cr, cache, log, queue, run, first, trouble>>
  BY DEF HostSetsId
<1>2. RestTyped /\ host \in [Partner -> HostCR]
  BY CRKnown DEF RestTyped
<1> DEFINE h == [host[p] EXCEPT !.id = TRUE]
<1>3. h \in HostCR /\ h.of = host[p].of /\ h.deleting = host[p].deleting
  BY <1>2 DEF HostCR
<1>4. host' = [host EXCEPT ![p] = h]
  BY <1>1
<1> HIDE DEF h
<1>5. host' \in [Partner -> HostCR] /\ host'[p] = h /\ \A q \in Partner \ {p} : host'[q] = host[q]
  BY <1>2, <1>3, <1>4
<1>6. \A q \in Partner : Ours(q) => Ours(q)'
  BY <1>3, <1>5 DEF Ours
<1> QED
  BY <1>1, <1>2, <1>5, <1>6, PartnersStep DEF RestTyped

\* A partner's CR that is not ours, or that is to be deleted, goes.
LEMMA Cleared ==
  ASSUME RestFedInv, NEW p \in Partner, ~Ours(p), host' = [host EXCEPT ![p] = NoCR],
         UNCHANGED <<cr, cache, log, queue, run, first, trouble>>
  PROVE  RestFedInv'
<1>1. RestTyped /\ host \in [Partner -> HostCR]
  BY CRKnown DEF RestTyped
<1>2. host' \in [Partner -> HostCR] /\ \A q \in Partner \ {p} : host'[q] = host[q]
  BY <1>1, NoCRTyped
<1>3. \A q \in Partner : Ours(q) => Ours(q)'
  BY <1>2 DEF Ours
<1> QED
  BY <1>1, <1>2, <1>3, PartnersStep DEF RestTyped

LEMMA LeavingStep ==
  ASSUME RestFedInv, (\E p \in Partner : HostLetsGo(p)) \/ OthersLeave
  PROVE  RestFedInv'
<1>1. ASSUME NEW p \in Partner, HostLetsGo(p) PROVE RestFedInv'
  BY <1>1, Cleared DEF HostLetsGo, Ours
<1>2. CASE OthersLeave
  <2>1. "other" \in Partner
    BY DEF Partner
  <2> QED
    BY <2>1, <1>2, Cleared DEF OthersLeave, Ours
<1> QED
  BY <1>1, <1>2

LEMMA OthersCreateStep ==
  ASSUME RestFedInv, OthersCreate
  PROVE  RestFedInv'
<1>1. /\ first' = IF first = "none" THEN "other" ELSE first
      /\ host' = [host EXCEPT ![first'].of = IF @ = "none" THEN "them" ELSE @]
      /\ trouble' = TRUE /\ UNCHANGED <<cr, cache, log, queue, run>>
  BY DEF OthersCreate
<1>2. RestTyped /\ host \in [Partner -> HostCR]
  BY CRKnown DEF RestTyped
<1>3. first' \in Partner /\ (first # "none" => first' = first)
  BY <1>1, <1>2 DEF RestTyped, Partner
<1> DEFINE p == first'
           h == [host[p] EXCEPT !.of = IF @ = "none" THEN "them" ELSE @]
<1>4. h \in HostCR /\ (host[p].of # "none" => h = host[p])
  BY <1>2, <1>3 DEF HostCR
<1>5. host' = [host EXCEPT ![p] = h]
  BY <1>1
<1> HIDE DEF h
<1>6. host' \in [Partner -> HostCR] /\ host'[p] = h /\ \A q \in Partner \ {p} : host'[q] = host[q]
  BY <1>2, <1>3, <1>4, <1>5
<1>7. \A q \in Partner : Ours(q) => Ours(q)'
  BY <1>4, <1>6 DEF Ours
<1> QED
  BY <1>1, <1>3, <1>6, <1>7, PartnersStep

(***************************************************************************)
(* The invariant.                                                          *)
(***************************************************************************)
LEMMA OneVersion ==
  ASSUME NEW f \in Fed, NEW l, l = <<f>>
  PROVE  l \in Seq(Fed) /\ Len(l) = 1 /\ l[1] = f /\ l # <<>>
<1>1. l \in Seq(Fed)
  OBVIOUS
<1>2. Len(l) = 1 /\ l[1] = f
  OBVIOUS
<1> QED
  BY <1>1, <1>2, EmptySeq

LEMMA InitInv == Init => RestFedInv
<1> SUFFICES ASSUME Init PROVE RestFedInv
  OBVIOUS
<1> DEFINE f == NewFed
           l == <<f>>
<1>1. /\ cr = f /\ cache = NoFed /\ log = l /\ queue = FALSE
      /\ run = Idle /\ first = "none" /\ host = [p \in Partner |-> NoCR] /\ trouble = FALSE
  BY DEF Init
<1>2. f \in Fed /\ f.deleting = FALSE /\ f.fin = FALSE /\ f.state = "" /\ f.id = FALSE
  BY Created
<1>3. l \in Seq(Fed) /\ Len(l) = 1 /\ l[1] = f /\ l # <<>>
  BY <1>2, OneVersion
<1> HIDE DEF f, l
<1>4. TypeOK
  <2>1. host \in [Partner -> HostCR]
    BY <1>1, NoCRTyped
  <2>2. RestTyped
    BY <2>1, <1>1, IdleTyped DEF RestTyped
  <2>3. 1 <= MaxLag
    BY RestFederationAssumption
  <2>4. VersionsTyped
    BY <2>3, <1>1, <1>2, <1>3, Gone DEF VersionsTyped
  <2> QED
    BY <2>2, <2>4 DEF TypeOK, RestTyped, VersionsTyped, RunType
<1>5. Story(TRUE)
  <2>1. Precedes(TRUE, NoFed, NoFed) /\ Precedes(TRUE, NoFed, f)
    BY <1>2, Gone DEF Precedes, Growing
  <2>2. InOrder(TRUE, NoFed, l, f)
    <3>1. \A i \in 1 .. Len(l) : i = 1 /\ l[i] = f
      BY <1>3
    <3>2. \A i, j \in 1 .. Len(l) : ~(i < j)
      BY <3>1
    <3> QED
      BY <2>1, <3>1, <3>2, <1>3 DEF InOrder
  <2> QED
    BY <2>2, <1>1, IdleTyped DEF Story
<1>6. Versions = {NoFed, f}
  BY <1>1, <1>3 DEF Versions
<1>7. VersionsSound
  BY <1>6, SoundRecords DEF VersionsSound, f
<1>8. NoSecond /\ RunInv /\ Backed
  BY <1>1, <1>2, IdleTyped DEF NoSecond, RunInv, Backed
<1> QED
  BY <1>4, <1>5, <1>7, <1>8 DEF RestFedInv

LEMMA NextInv ==
  ASSUME RestFedInv, [Next]_vars
  PROVE  RestFedInv' /\ Forward
<1>1. CASE UserCreates \/ UserDeletes \/ UserRequires
  BY <1>1, UserCreatesStep, UserDeletesStep, UserRequiresStep
<1>2. CASE PatchMeta \/ PatchStatus
  BY <1>2, PatchMetaStep, PatchStatusStep
<1>3. CASE Deliver
  BY <1>3, DeliverStep DEF Deliver, Forward
<1>4. CASE Resync \/ Blocked \/ UNCHANGED vars
  <2>1. UNCHANGED <<cr, cache, log, first, host, run, trouble>> /\ (queue' = queue \/ queue' = TRUE)
    BY <1>4 DEF Resync, Blocked, vars
  <2>2. RestTyped
    BY CRKnown
  <2>3. RestFedInv'
    BY <2>1, <2>2, StillStep DEF RestTyped, SamePlan
  <2> QED
    BY <2>1, <2>3 DEF Forward
<1>5. CASE Reconcile
  <2>1. cr' = cr
    BY <1>5 DEF Reconcile, Ignores, Deletes, AddsFinalizer, AddsPolicy, Creates, Renews, Asks,
                Local
  <2> QED
    BY <2>1, <1>5, ReconcileStep DEF Forward
<1>6. CASE PolicyFails
  BY <1>6, PolicyFailsStep DEF PolicyFails, Local, Forward
<1>7. CASE PolicyRemovalFails \/ Refused \/ Lost
  <2>1. cr' = cr
    BY <1>7 DEF PolicyRemovalFails, Refused, Lost, Remote
  <2> QED
    BY <2>1, <1>7, PolicyRemovalFailsStep, RefusedStep, LostStep DEF Forward
<1>8. CASE Respond
  <2>1. cr' = cr
    BY <1>8 DEF Respond, CreateFederation, DeleteFederationDetails, RenewFederation,
                GetFederationData, Remote
  <2> QED
    BY <2>1, <1>8, CreateFederationStep, DeleteFederationDetailsStep, RequestAnsweredStep
       DEF Respond, Forward
<1>9. CASE PatchFails
  BY <1>9, PatchFailsStep DEF PatchFails, Forward
<1>10. CASE GuestRestarts
  BY <1>10, GuestRestartsStep DEF GuestRestarts, Forward
<1>11. CASE \E p \in Partner : HostSetsId(p) \/ HostLetsGo(p)
  <2>1. cr' = cr
    BY <1>11 DEF HostSetsId, HostLetsGo
  <2> QED
    BY <2>1, <1>11, HostSetsIdStep, LeavingStep DEF Forward
<1>12. CASE OthersCreate \/ OthersLeave
  <2>1. cr' = cr
    BY <1>12 DEF OthersCreate, OthersLeave
  <2> QED
    BY <2>1, <1>12, OthersCreateStep, LeavingStep DEF Forward
<1> QED
  BY <1>1, <1>2, <1>3, <1>4, <1>5, <1>6, <1>7, <1>8, <1>9, <1>10, <1>11, <1>12 DEF Next

(***************************************************************************)
(* The theorems.                                                           *)
(***************************************************************************)

\* Through every deletion, repeated creation, lost call, lost patch, late
\* cache and restart, and whatever the other federation does: RestFedInv.
THEOREM RestFedInvariant == Spec => []RestFedInv
<1>1. RestFedInv /\ [Next]_vars => RestFedInv'
  BY NextInv
<1> QED
  BY InitInv, <1>1, PTL DEF Spec

\* No step leaves the types; a call under way has the client of a partner.
THEOREM RestFedTyped == Spec => []TypeOK
<1>1. RestFedInv => TypeOK
  BY DEF RestFedInv
<1> QED
  BY RestFedInvariant, <1>1, PTL

\* A federation that is AVAILABLE has its context id, and a partner holds a
\* federation for it that nobody is deleting, also when a creation is sent
\* again on a stale copy or through the client of another federation.
THEOREM BackedAlways == Spec => []Backed
<1>1. RestFedInv => Backed
  BY DEF RestFedInv
<1> QED
  BY RestFedInvariant, <1>1, PTL

\* What has its context id and is not AVAILABLE does not get AVAILABLE: no
\* creation that was planned before is accepted or patched after.
THEOREM NeverBackAgain == Spec => NeverBack
<1>1. RestFedInv /\ [Next]_vars =>
        [cr.id /\ cr.state # "AVAILABLE" => cr'.state # "AVAILABLE"]_vars
  BY NextInv DEF Forward
<1> QED
  BY RestFedInvariant, <1>1, PTL DEF Spec, NeverBack
===========================================================================

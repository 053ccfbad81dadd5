--------------------------- MODULE MirrorPromise ---------------------------
(***************************************************************************)
(* What mirroring promises, without reconcilers, caches or queues: a child *)
(* is registered before it has a copy on the host, is reported ready only  *)
(* while it has one, and is released only after its copy was given up.     *)
(* Each child has a copy of its own.                                       *)
(***************************************************************************)
CONSTANTS Obj, Name, HostName

VARIABLES
  registered,  \* the children that the guest keeps track of
  mirrored,    \* the copies on the host that nobody is deleting
  ready        \* the children that the guest reports as ready

pvars == <<registered, mirrored, ready>>

PromiseInit == registered = {} /\ mirrored = {} /\ ready = {}

Register(o) ==
  /\ o \notin registered
  /\ registered' = registered \cup {o}
  /\ UNCHANGED <<mirrored, ready>>

Mirror(o) ==
  /\ o \in registered
  /\ mirrored' = mirrored \cup {HostName[o]}
  /\ UNCHANGED <<registered, ready>>

Report(o) ==
  /\ o \in registered /\ HostName[o] \in mirrored
  /\ ready' = ready \cup {o}
  /\ UNCHANGED <<registered, mirrored>>

Retract(o) ==
  /\ ready' = ready \ {o}
  /\ UNCHANGED <<registered, mirrored>>

Unmirror(o) ==
  /\ o \in registered \ ready
  /\ mirrored' = mirrored \ {HostName[o]}
  /\ UNCHANGED <<registered, ready>>

Release(o) ==
  /\ o \in registered \ ready
  /\ HostName[o] \notin mirrored
  /\ registered' = registered \ {o}
  /\ UNCHANGED <<mirrored, ready>>

PromiseNext ==
  \E o \in Obj : \/ Register(o) \/ Mirror(o) \/ Report(o)
                 \/ Retract(o) \/ Unmirror(o) \/ Release(o)

Promise == PromiseInit /\ [][PromiseNext]_pvars
=============================================================================

----------------------------- MODULE MCWatched -----------------------------
(***************************************************************************)
(* WatchedMirror with one child x of kind kx and the name under which its  *)
(* watcher is registered.                                                  *)
(***************************************************************************)
EXTENDS WatchedMirror

CONSTANTS x, name, kx

OneChild == {x}
Together == {Obj}
Keys == {name}
MCKind == [o \in Obj |-> kx]
NoRefs == [o \in Obj |-> {}]
OwnCopyName == [o \in Obj |-> o]
OneKey == [o \in Obj |-> name]
=============================================================================

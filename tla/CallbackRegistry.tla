--------------------------- MODULE CallbackRegistry ---------------------------
(***************************************************************************)
(* What the registry of libsavmasync promises the plugins that register    *)
(* callbacks with it: registering and unregistering are atomic, and a pass *)
(* of the slicer over the registry calls nothing but callbacks that were   *)
(* registered at some time since the pass began.                           *)
(***************************************************************************)

CONSTANT Reg    \* registrations: pairs of an id and a callback

VARIABLES
  registered,   \* the registrations in force
  passing,      \* the slicer is in a pass
  callable,     \* what has been registered since the pass began
  calling       \* callbacks that the pass is about to call or is running

vars == <<registered, passing, callable, calling>>

Init ==
  /\ registered = {}
  /\ passing = FALSE
  /\ callable = {}
  /\ calling = {}

Add(r) ==
  /\ registered' = registered \cup {r}
  /\ callable' = IF passing THEN callable \cup {r} ELSE callable
  /\ UNCHANGED <<passing, calling>>

Remove(r) ==
  /\ registered' = registered \ {r}
  /\ UNCHANGED <<passing, callable, calling>>

BeginPass ==
  /\ ~passing
  /\ passing' = TRUE
  /\ callable' = registered
  /\ UNCHANGED <<registered, calling>>

Call(r) ==
  /\ passing
  /\ r \in callable
  /\ calling' = calling \cup {r}
  /\ UNCHANGED <<registered, passing, callable>>

Return(r) ==
  /\ calling' = calling \ {r}
  /\ UNCHANGED <<registered, passing, callable>>

EndPass ==
  /\ passing /\ calling = {}
  /\ passing' = FALSE
  /\ callable' = {}
  /\ UNCHANGED <<registered, calling>>

Next ==
  \/ \E r \in Reg : Add(r) \/ Remove(r) \/ Call(r) \/ Return(r)
  \/ BeginPass
  \/ EndPass

Spec == Init /\ [][Next]_vars

================================================================================

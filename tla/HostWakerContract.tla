--------------------------- MODULE HostWakerContract ---------------------------
(***************************************************************************)
(* What the waker cell promises the host executor, seen from the host: the *)
(* four functions of WAKER_VTABLE (ffi/src/futures/mod.rs) are its only    *)
(* contact with a CWaker.  A call of wake_no_free or free_waker takes time *)
(* and names a clone.  The rules: a wake goes to the installed clone, and  *)
(* it stays installed until the wake returns; a clone is freed once, when  *)
(* it has been replaced or the cell is gone, by one caller, and nobody     *)
(* else is in a call on it; a wake that somebody has undertaken to deliver *)
(* is delivered before the cell goes.                                      *)
(***************************************************************************)

CONSTANTS
  Caller,    \* who may call the host
  CWaker,    \* clones of host wakers the host may hand over
  NoWaker    \* no waker is installed

VARIABLES
  host,      \* what became of each clone: "fresh", "held" by the cell, "freed"
  incoming,  \* clones handed over and not installed yet
  slot,      \* the installed clone
  calls,     \* the call of the host that each caller is in: what, on which clone
  owed       \* who has undertaken to call the host since it was last called

vars == <<host, incoming, slot, calls, owed>>

NoCall == [op |-> "none", on |-> NoWaker]
WakeOf(w) == [op |-> "wake", on |-> w]
FreeOf(w) == [op |-> "free", on |-> w]

Init ==
  /\ host = [w \in CWaker |-> "fresh"]
  /\ incoming = {}
  /\ slot = NoWaker
  /\ calls = [c \in Caller |-> NoCall]
  /\ owed = {}

--------------------------------------------------------------------------------
(* Clones come in *)

\* The host clones its waker and passes the clone in.
Handover(w) ==
  /\ host[w] = "fresh"
  /\ host' = [host EXCEPT ![w] = "held"]
  /\ incoming' = incoming \cup {w}
  /\ UNCHANGED <<slot, calls, owed>>

\* The clone becomes the one that wakes are sent to, while none is under way.
Install(w) ==
  /\ w \in incoming
  /\ \A c \in Caller : calls[c].op # "wake"
  /\ incoming' = incoming \ {w}
  /\ slot' = w
  /\ UNCHANGED <<host, calls, owed>>

--------------------------------------------------------------------------------
(* The host is called *)

\* Caller c goes on to this call, or to none.  A wake that has returned was for everybody.
Proceed(c, call) ==
  /\ calls' = [calls EXCEPT ![c] = call]
  /\ owed' = IF calls[c].op = "wake" THEN {} ELSE owed

\* c calls the installed clone, which is still the cell's.
Wakes(c) ==
  /\ calls[c] = NoCall
  /\ slot # NoWaker /\ host[slot] = "held"
  /\ calls' = [calls EXCEPT ![c] = WakeOf(slot)]
  /\ UNCHANGED <<host, incoming, slot>>

\* A wake is accepted, and delivered by the one who asks for it.
Accept(c) == Wakes(c) /\ owed' = owed \cup {"self"}

\* A wake is accepted and left to an update.
Delegate == owed' = owed \cup {"update"} /\ UNCHANGED <<host, incoming, slot, calls>>

\* The update delivers what was left to it.
Deliver(c) == Wakes(c) /\ "update" \in owed /\ owed' = owed

Woken(c) ==
  /\ calls[c].op = "wake"
  /\ Proceed(c, NoCall)
  /\ UNCHANGED <<host, incoming, slot>>

\* c begins to free a clone that was replaced.
Retire(c, w) ==
  /\ calls[c].op # "free"
  /\ host[w] = "held" /\ w # slot /\ w \notin incoming
  /\ \A d \in Caller : calls[d].on # w
  /\ Proceed(c, FreeOf(w))
  /\ UNCHANGED <<host, incoming, slot>>

\* The last reference to the cell is gone: no wake can come any more, none that was
\* accepted is outstanding, and c begins to free the installed clone.
Close(c) ==
  /\ slot # NoWaker /\ host[slot] = "held"
  /\ incoming = {} /\ owed = {}
  /\ \A d \in Caller : calls[d] = NoCall
  /\ slot' = NoWaker
  /\ Proceed(c, FreeOf(slot))
  /\ UNCHANGED <<host, incoming>>

Freed(c) ==
  /\ calls[c].op = "free"
  /\ host' = [host EXCEPT ![calls[c].on] = "freed"]
  /\ Proceed(c, NoCall)
  /\ UNCHANGED <<incoming, slot>>

--------------------------------------------------------------------------------

Next ==
  \/ \E w \in CWaker : Handover(w) \/ Install(w)
  \/ Delegate
  \/ \E c \in Caller :
       \/ Accept(c) \/ Deliver(c) \/ Woken(c) \/ Close(c) \/ Freed(c)
       \/ \E w \in CWaker : Retire(c, w)

Spec == Init /\ [][Next]_vars

================================================================================

------------------------------ MODULE ElementList ------------------------------
(***************************************************************************)
(* What Vector and RTBox promise together: a vector is a list.  Elements   *)
(* enter at its end and leave there; an element that is not a plain value  *)
(* is with the client, in the list or dropped, once and for all.           *)
(***************************************************************************)
EXTENDS Naturals, Sequences, SequencesExt

CONSTANTS
  Elem,
  MaxAppend   \* elements appended at once

VARIABLES
  plain,    \* the elements are plain values, which nobody owns
  list,
  client,   \* elements that the client may use
  dropped

vars == <<plain, list, client, dropped>>

Init ==
  /\ plain \in BOOLEAN
  /\ list = <<>>
  /\ client = IF plain THEN Elem ELSE {}
  /\ dropped = {}

Make(e) ==
  /\ ~plain
  /\ e \notin client \cup dropped \cup ToSet(list)
  /\ client' = client \cup {e}
  /\ UNCHANGED <<plain, list, dropped>>

AppendAll(s) ==
  /\ ToSet(s) \subseteq client
  /\ list' = list \o s
  /\ client' = IF plain THEN client ELSE client \ ToSet(s)
  /\ UNCHANGED <<plain, dropped>>

RemoveLast ==
  /\ list # <<>>
  /\ list' = Front(list)
  /\ client' = client \cup {Last(list)}
  /\ UNCHANGED <<plain, dropped>>

Discard(S) ==
  /\ ~plain
  /\ client' = client \ S
  /\ dropped' = dropped \cup S
  /\ UNCHANGED <<plain, list>>

Clear ==
  /\ list' = <<>>
  /\ dropped' = IF plain THEN dropped ELSE dropped \cup ToSet(list)
  /\ UNCHANGED <<plain, client>>

Next ==
  \/ \E e \in Elem : Make(e)
  \/ \E s \in SeqOf(client, MaxAppend) : AppendAll(s)
  \/ RemoveLast
  \/ \E S \in SUBSET (Elem \ ToSet(list)) : Discard(S)
  \/ Clear

Spec == Init /\ [][Next]_vars

================================================================================

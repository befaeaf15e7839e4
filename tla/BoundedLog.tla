------------------------------ MODULE BoundedLog ------------------------------
(****************************************************************************)
(* What the messenger promises about the message queue: a log of bounded    *)
(* capacity that keeps the most recent entries, oldest first.  An entry is   *)
(* the sequence of the text fragments it was written with: the first one     *)
(* opened the entry, the others were appended to it while it was the last.   *)
(****************************************************************************)
EXTENDS Naturals, Sequences

CONSTANTS
  Capacity,    \* number of entries the log can hold
  Fragments    \* the texts that may be logged

VARIABLE log

Init == log = <<>>

(* Room for a new entry is made by dropping the oldest one, and only then.   *)
Evict ==
  /\ Len(log) = Capacity
  /\ log' = Tail(log)

Push ==
  /\ Len(log) < Capacity
  /\ \E f \in Fragments : log' = Append(log, <<f>>)

Extend ==
  /\ log # <<>>
  /\ \E f \in Fragments : log' = [log EXCEPT ![Len(log)] = Append(@, f)]

Clear == log' = <<>>

Next == Evict \/ Push \/ Extend \/ Clear

Spec == Init /\ [][Next]_log
===============================================================================

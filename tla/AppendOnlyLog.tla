--------------------------- MODULE AppendOnlyLog ---------------------------
(***************************************************************************)
(* What the event store promises to the rest of the runtime, whoever reads *)
(* or writes it: one log per run, which only ever grows, by one event at   *)
(* its end.  An event that was once read at a sequence number is found     *)
(* there, unchanged, for ever.                                             *)
(***************************************************************************)
EXTENDS Naturals, Sequences

CONSTANTS Run,      \* the identifiers that select a log
          Event,    \* what a log holds
          First     \* the longest log a run may start with (rows of older versions)

VARIABLE log        \* log[r] is the sequence of the events of run r

Init == /\ log \in [Run -> Seq(Event)]
        /\ \A r \in Run : Len(log[r]) <= First

Extend(r, e) == log' = [log EXCEPT ![r] = Append(@, e)]

Next == \E r \in Run, e \in Event : Extend(r, e)

Spec == Init /\ [][Next]_log
=============================================================================

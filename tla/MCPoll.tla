------------------------------- MODULE MCPoll -------------------------------
(* An instance of Poll for TLC. *)
EXTENDS Poll

CONSTANTS a, b

\* The two contents are interchangeable at the start.
FirstInit == Init /\ lvm = a
FirstSpec == FirstInit /\ [][Next]_vars /\ Fairness
=============================================================================

------------------------------- MODULE Domain -------------------------------
(***************************************************************************)
(* The lifecycle rules and roles of internal/domain.  Every other module   *)
(* takes the states of a record and the guard of a handler from here.      *)
(***************************************************************************)

\* states.go: the edges of the machines that a handler consults.  A missing
\* key of the Go map reads as FALSE, hence membership in the set.
Transitions ==
    [course     |-> {<<"scheduled", "in_progress">>, <<"scheduled", "canceled">>,
                     <<"in_progress", "completed">>, <<"in_progress", "canceled">>},
     enrollment |-> {<<"confirmed", "attended">>, <<"confirmed", "canceled">>,
                     <<"confirmed", "makeup_due">>, <<"makeup_due", "confirmed">>},
     assessment |-> {<<"draft", "submitted">>, <<"submitted", "passed">>,
                     <<"submitted", "failed">>, <<"failed", "submitted">>},
     equipment  |-> {<<"available", "checked_out">>, <<"checked_out", "available">>,
                     <<"checked_out", "isolated">>, <<"isolated", "maintenance">>,
                     <<"maintenance", "available">>, <<"maintenance", "retired">>},
     loan       |-> {<<"active", "returned">>, <<"active", "damaged">>},
     maintenance |-> {<<"open", "repairing">>, <<"repairing", "released">>,
                      <<"repairing", "retired">>},
     job        |-> {<<"pending", "running">>, <<"retry", "running">>,
                     <<"running", "succeeded">>, <<"running", "retry">>,
                     <<"running", "failed">>}]

\* ValidateTransition: an unchanged state is refused before the table is read.
ValidTransition(machine, from, to) ==
    /\ from # to
    /\ <<from, to>> \in Transitions[machine]

\* IsTerminal, with the empty set for the machines its switch does not name.
TerminalStates ==
    [course      |-> {"completed", "canceled"},
     enrollment  |-> {},
     assessment  |-> {"passed"},
     equipment   |-> {},
     loan        |-> {},
     maintenance |-> {"released", "retired"},
     job         |-> {"succeeded", "failed"}]

Roles == {"guardian", "coach", "equipment_manager", "administrator"}

=============================================================================

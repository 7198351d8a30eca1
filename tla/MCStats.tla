------------------------------ MODULE MCStats -------------------------------
(***************************************************************************)
(* A small instance of Stats: bars of one minute, days of three, three     *)
(* bars for the chart, one row for a breakdown and one for the rest.       *)
(***************************************************************************)
EXTENDS Stats

MCOwner == [k \in {1, 2, 3} |-> IF k = 3 THEN 2 ELSE 1]

MCRate == [m \in {"big", "small", "unknown", "other"} |->
              CASE m = "big" -> 3 [] m = "small" -> 1 [] OTHER -> 2]

MCLadder == <<1, 3>>

MCKind(status, state, upstream, model, input, cached, key, took) ==
    [status |-> status, state |-> state, upstream |-> upstream,
     model |-> model, input |-> input, output |-> input, cached |-> cached,
     key |-> key, took |-> took]

\* Answered, failed, only cached tokens for a strange name, refused.
MCKinds ==
    {MCKind("2xx", "completed", "east", "big", 2, 1, 1, 2),
     MCKind("5xx", "completed", "west", "small", 1, 0, 2, 1),
     MCKind("2xx", "client closed", "east", "other", 0, 3, 3, 3),
     MCKind("4xx", "completed", "none", "unknown", 0, 0, 0, 0)}
=============================================================================

------------------------------- MODULE MCUsage -------------------------------
(* Usage for TLC: a model with a rule of its own, one that shares a prefix  *)
(* with it, and one without.                                                *)
EXTENDS Usage

MCModels == {<<"gpt", "4o">>, <<"gpt", "5">>, <<"qwen">>}

Rule(prefix, input, read, write) ==
    [prefix |-> prefix, input |-> input, output |-> 7, read |-> read,
     write |-> write]

MCTables ==
    {<<>>} \cup
    {<<Rule(<<>>, 9, 9, 9), Rule(<<"gpt">>, 2, read, write),
       Rule(<<"gpt", "4o">>, 3, read, write), Rule(<<"gpt", "4o">>, 9, 9, 9)>> :
        read \in {0, 1}, write \in {0, 4}}
=============================================================================

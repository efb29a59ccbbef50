------------------------------ MODULE MCDialogue ------------------------------
(* Answers, settings and bounds for Dialogue. *)
EXTENDS Dialogue

MCShapes == {<<"text">>, <<>>, <<"thinking", "text">>, <<"thinking", "tool", "tool">>,
             <<"text", "bare">>, <<"tool", "text">>, <<"refusal">>, <<"broken">>,
             <<"opaque", "text">>, <<"thinking", "text", "thinking", "tool">>}

MCUsages == {[input |-> 9, output |-> 4, cached |-> 2, creation |-> 3, reasoning |-> 1]}

MCPlain == [limit |-> 0, effort |-> None, choice |-> None, parallel |-> None, stop |-> FALSE,
            format |-> None, own |-> FALSE, n |-> 1, tools |-> "functions"]

\* One thing at a time besides limits with efforts, and choices with parallel.
MCSettings ==
  {MCPlain}
    \cup {[MCPlain EXCEPT !.limit = l, !.effort = e] :
            l \in {0, 1024, 1025, 4096, 20000}, e \in {None, "low", "medium", "high"}}
    \cup {[MCPlain EXCEPT !.choice = c, !.parallel = p] :
            c \in {None, "auto", "none", "any", "one"}, p \in {None, "yes", "no"}}
    \cup {[MCPlain EXCEPT !.format = f, !.stop = s] :
            f \in {None, "text", "json_object", "json_schema"}, s \in BOOLEAN}
    \cup {[MCPlain EXCEPT !.own = TRUE], [MCPlain EXCEPT !.n = 2],
          [MCPlain EXCEPT !.tools = "hosted"]}

\* Thinking and nothing else, for the counterexample.
MCPlainOnly == {MCPlain}
MCThoughts == {<<"thinking", "text">>}
=============================================================================

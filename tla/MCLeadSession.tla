--------------------------- MODULE MCLeadSession ---------------------------
(***************************************************************************)
(* Responses of one or two calls, what an instruction may say, and the     *)
(* controls it may come with.                                              *)
(***************************************************************************)
EXTENDS LeadSession

Answers == {<<>>, <<"direct">>, <<"planned">>, <<"invalid">>, <<"work">>, <<"work", "work">>,
            <<"work", "direct">>, <<"direct", "project">>, <<"privilege">>, <<"ask">>,
            <<"ask", "direct">>, <<"direct", "ask">>, <<"project", "ask">>}
Steps == {<<>>, <<"direct">>, <<"work">>, <<"ask">>}

Plain == [planned |-> FALSE, alone |-> FALSE, ask |-> FALSE, agents |-> {}]
Words == {Plain, [Plain EXCEPT !.ask = TRUE], [Plain EXCEPT !.planned = TRUE],
          [Plain EXCEPT !.planned = TRUE, !.alone = TRUE], [Plain EXCEPT !.agents = {2}]}
Default == [need |-> FALSE, mode |-> "any", delegates |-> TRUE, children |-> 3]
Modes == {Default, [Default EXCEPT !.delegates = FALSE], [Default EXCEPT !.mode = "planned"]}
=============================================================================

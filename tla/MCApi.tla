-------------------------------- MODULE MCApi --------------------------------
(* Two tasks; one contact with a number and one without; two agents and two   *)
(* numbers.                                                                   *)
EXTENDS Api, TLC

CONSTANTS c1, c2, t1, t2, a1, a2, n1, n2

MCRequests ==
  {<<"start", "parent">>, <<"pause", "parent">>, <<"resume", "parent">>,
   <<"delete", "parent">>, <<"redial", "parent">>, <<"start", "child">>}

\* Tasks are alike.
Alike == Permutations({t1, t2})
==============================================================================

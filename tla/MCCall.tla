------------------------------- MODULE MCCall -------------------------------
(***************************************************************************)
(* Instances of Call: two services per server, their methods' urls and     *)
(* some that nobody serves, bodies that are empty, splittable or           *)
(* unparsable.                                                             *)
(***************************************************************************)
EXTENDS Call

Hello == GeneratedService(<<"helloworld.FabricHello">>, {"SayHello"})
TodoBatch == OwnService(<<"todolist.Todo", "Batch">>, {"Create"})
Todo == OwnService(<<"todolist.Todo">>, {"Find"})

Distinct == <<Hello, TodoBatch>>
Prefix == <<Todo, TodoBatch>>
MCServices == [v1 |-> Prefix, v2 |-> Distinct]
MCPrefixServices == [v1 |-> Prefix, v2 |-> Prefix]

MCUrls == {<<>>, <<"helloworld.FabricHello">>, Url(Hello, "SayHello"), Url(Hello, "Bye"), Url(TodoBatch, "Create"), Url(Todo, "Find")}
MCPrefixUrls == {Url(Todo, "Find"), Url(TodoBatch, "Create")}

MCBodies == {<<>>, <<"a", "b">>, <<"x">>}
MCUnparsable == {<<"x">>}

MCSupported == {<<"v1", "v1">>, <<"v2", "v2">>, <<"v2", "v1">>}
MCMixed == {<<"v1", "v2">>}
MCNew == {<<"v2", "v2">>}

MCFailures == {Status(UNKNOWN, ""), Status(NOT_FOUND, "m")}

\* The hypotheses of the theorems of CallProofs hold of this instance.
ASSUME HypothesesHold == NamesTellApart(MCServices["v2"]) /\ StatusesInRange
=============================================================================

------------------------------ MODULE MC_CallStats ------------------------------
(* Two caller coroutines and two services as model values; the programs   *)
(* whose logger placement is checked.                                      *)
EXTENDS CallStats

CONSTANTS r1, r2, foo, bar

MCCallers == {r1, r2}
MCKinds == {foo, bar}

MCBothPrograms == {"testrpc_cli", "example_innerRpc"}
MCInnerRpc == {"example_innerRpc"}

=============================================================================

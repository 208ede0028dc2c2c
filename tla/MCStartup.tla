------------------------------ MODULE MCStartup ------------------------------
(***************************************************************************)
(* Two analyzers, a list that names one of them twice, and handlers with   *)
(* a method that is no RPC.                                                *)
(***************************************************************************)
EXTENDS Startup

MCList     == <<"a1", "a2", "a1">>
ListOfTwo  == <<"a1", "a2">>
RPC(name, shape) == [name |-> name, exported |-> TRUE, shape |-> shape]
MCHandler ==
  [s \in Servers |->
     IF s = Service THEN {RPC("GetCategory", "single"), RPC("Run", "stream")}
     ELSE {RPC("GetCategory", "single"), RPC("GetStage", "single"), RPC("Analyze", "single"),
           [name |-> "getCategories", exported |-> FALSE, shape |-> "other"]}]
=============================================================================

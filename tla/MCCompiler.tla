---------------------------- MODULE MCCompiler ----------------------------
(* Instances of Compiler: small functions with few types. *)
EXTENDS Compiler

T(ps, rs) == [params |-> ps, results |-> rs]
MCArgs == <<"i32">>
MCLocals == <<>>
MCResults == <<"i32">>
MCConsts == {[type |-> "i32", id |-> 1]}
MCBlockTypes == {T(<<>>, <<>>), T(<<>>, <<"i32">>), T(<<>>, <<"f64">>)}
MCCallTypes == {T(<<"i32">>, <<"f64">>)}
MCOperators == {[ins |-> <<"i32", "i32">>, out |-> "i32"], [ins |-> <<"f64">>, out |-> "f64"],
                [ins |-> <<"f64", "f64">>, out |-> "i32"], [ins |-> <<"i32", "f64">>, out |-> "none"]}
MCConversions == {[from |-> "f64", to |-> "i32"], [from |-> "i32", to |-> "f64"]}
MCGlobals == {"i32", "f64"}
MCCondLabels == {<<>>, <<"i32">>}

WideArgs == <<"f64">>
FloatLabels == {<<>>, <<"f64">>}

\* The instances are functions the theorems of CompilerProofs speak of.
ASSUME MCAssumption == NoParams /\ OperatorsFit
=============================================================================

------------------------------ MODULE FieldsMC ------------------------------
(***************************************************************************)
(* Small instances of Fields: one field of each type.  The flag and the    *)
(* secret are in the search row, so is the multi-select; the text is only  *)
(* in the full item.                                                       *)
(***************************************************************************)
EXTENDS Fields, TLC

MCParts == {"0", "1", "true", "no", "a", "b", "v", "w", "['...']"}
MCTexts == {"descr"}
MCFlags == {"log"}
MCMultis == {"interfaces"}
MCSecrets == {"password"}
MCRowFields == {"log", "interfaces", "password", "enabled", "disabled"}

MCDefault ==
    [f \in Stored |-> IF f = "enabled" THEN On ELSE IF f = "log" THEN Off ELSE <<>>]
MCRecords ==
    {MCDefault,
     [MCDefault EXCEPT !["enabled"] = Off, !["interfaces"] = <<"b", "a">>,
                       !["password"] = <<"w">>, !["log"] = On]}

Plain(t) == [list |-> FALSE, text |-> t]
List(t) == [list |-> TRUE, text |-> t]
Flag(name, part) == name :> Plain(<<part>>)

MCCalls ==
    {Flag("disabled", "1"), Flag("enabled", "true"), Flag("disabled", "no"),
     Flag("enabled", "1") @@ Flag("disabled", "1"),
     Flag("enabled", "0") @@ Flag("disabled", "1"),
     Flag("log", "1"), Flag("log", "true"),
     "interfaces" :> List(<<"a", "b">>),
     "interfaces" :> Plain(<<"b", "a">>) @@ "descr" :> Plain(<<"v">>),
     "password" :> Plain(<<"v">>),
     "password" :> Plain(<<"v">>) @@ "descr" :> Plain(<<"v">>)
         @@ Flag("disabled", "1")}
=============================================================================

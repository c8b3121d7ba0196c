----------------------------- MODULE MCFormTree -----------------------------
(***************************************************************************)
(* A request type with a required int32 whose default is the escape      *)
(* "%35" (decoded to "5"), a repeated int64, an optional string, an       *)
(* optional nested message holding an optional enum, and a repeated       *)
(* message whose type has a repeated int32 and then a required message of *)
(* an unregistered type: adding an item pushes it and its first field,    *)
(* then the build throws and the item stays half-built.                   *)
(***************************************************************************)
EXTENDS FormTree

MC_INT32_MIN == -8
MC_INT64_MIN == <<"-", "8">>
MC_INT64_MAX == <<"7">>
MC_UINT64_MAX == <<"1", "5">>
MC_INT64_HEX_MAX == <<"0", "x", "7">>
MC_UINT64_HEX_MAX == <<"0", "x", "f">>

Field(name, number, label, type, typeName, default) ==
    [name |-> name, number |-> number, label |-> label, type |-> type,
     type_name |-> typeName, default_value |-> default]

MC_Messages ==
    (<<"Req">> :> << Field("name", 4, "OPTIONAL", "STRING", <<>>, <<>>),
                     Field("id", 1, "REQUIRED", "INT32", <<>>, <<"%", "3", "5">>),
                     Field("tags", 2, "REPEATED", "INT64", <<>>, <<>>),
                     Field("sub", 3, "OPTIONAL", "MESSAGE", <<".", "Sub">>, <<>>),
                     Field("half", 5, "REPEATED", "MESSAGE", <<".", "Half">>, <<>>) >>)
    @@ (<<"Sub">> :> << Field("kind", 1, "OPTIONAL", "ENUM", <<".", "Kind">>, <<"B">>) >>)
    @@ (<<"Half">> :> << Field("c", 1, "REPEATED", "INT32", <<>>, <<>>),
                         Field("b", 2, "REQUIRED", "MESSAGE", <<".", "Missing">>, <<>>) >>)

MC_Enums == <<"Kind">> :> << [name |-> <<"A">>, number |-> 1],
                            [name |-> <<"B">>, number |-> 2] >>

MC_RootType == <<"Req">>
MC_Texts == {<<>>, <<"5">>, <<"x">>}
=============================================================================

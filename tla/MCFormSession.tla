---------------------------- MODULE MCFormSession ----------------------------
(***************************************************************************)
(* The page for a request type with a repeated int32, an optional message *)
(* of a type without fields, and an optional and a repeated message of a  *)
(* type the registry lacks: enough for a send that succeeds, one with an  *)
(* input error in an item, one whose extraction throws (the message       *)
(* checked but never expanded), and an expand or an add that throws in    *)
(* the middle of its handler.  The second request type has no fields.     *)
(***************************************************************************)
EXTENDS FormSession, MCFormTree

MC_PageMessages ==
    (<<"Page">> :> << Field("r", 3, "REPEATED", "INT32", <<>>, <<>>),
                      Field("m", 2, "OPTIONAL", "MESSAGE", <<".", "Empty">>, <<>>),
                      Field("x", 4, "OPTIONAL", "MESSAGE", <<".", "Missing">>, <<>>),
                      Field("y", 5, "REPEATED", "MESSAGE", <<".", "Missing">>, <<>>) >>)
    @@ (<<"Empty">> :> << >>)

MC_PageRootType == <<"Page">>
MC_EmptyRootType == <<"Empty">>
MC_PageTexts == {<<"5">>, <<"x">>}
=============================================================================

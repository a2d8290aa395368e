------------------------------ MODULE MCPrawtos ------------------------------
(* Prawtos.tla for model checking: messages and users.                      *)
EXTENDS Prawtos

Login(n, p)     == <<"X01", n, p>>
Create(a, n, p) == <<"X01", "X00", a, n, p>>
Delete(n)       == <<"X01", "X01", n>>
Edit(n, p)      == <<"X01", "X02", n, p>>
GetCounter      == <<"X00", "X00">>
ListUsers       == <<"X00", "X03">>
Quit            == <<"X03">>

\* Messages with a byte the parsers refuse, and the two that are not handled.
Refused == {<<"X00", "X04">>, <<"X01", "X03">>, <<"X01", "X00", "X02">>,
            <<"X01", "X02", "X00">>, <<"X01", "X02", "ana", "X00">>,
            <<"X02", "X00">>, <<"X04">>}

GoodLogin == Login("admin", "pw")
SomeLogins == {GoodLogin, Login("admin", "no"), <<"X05">>}
SomeCommands == {Create("X01", "ana", "pw"), Delete("ana"), Edit("ana", "no"),
                 ListUsers, Quit}
                \cup {<<"X01", "X03">>, <<"X01", "X02", "ana", "X00">>}
AllCommands == SomeCommands \cup {GetCounter} \cup Refused

OneAdmin == <<[name |-> "admin", pass |-> "pw", admin |-> TRUE,
               unul |-> TRUE, pnul |-> TRUE]>>
=============================================================================

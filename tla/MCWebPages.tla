------------------------------ MODULE MCWebPages ------------------------------
(* Small pages: two objects of each kind, the turn of a year and the years *)
(* of the century rules, and four links of the message server's schema:    *)
(* one that reads, one that writes form fields, one that writes a body and *)
(* one the schema does not know.                                           *)
EXTENDS WebPages

MCOptions == <<"a", "b">>
MCSaved   == {{}, {"b"}}
MCHolds   == [w \in {"x"} |-> {"a"}]
MCTitles  == {<<"the">>, <<"the", "red", "car">>}
MCToday   == <<2023, 12, 31>>
MCTyped   == {<<>>, <<2023, 2, 29>>, <<24, 2, 29>>, <<2099, 14, 1>>, <<2000, 1, 60>>}

Field(name, location, required, type) ==
    [name |-> name, location |-> location, required |-> required, type |-> type]
MCLinks ==
    [list   |-> [method |-> "GET", known |-> TRUE,
                 fields |-> <<Field("page", "query", FALSE, "integer")>>],
     update |-> [method |-> "PUT", known |-> TRUE,
                 fields |-> <<Field("id", "path", TRUE, "string"),
                              Field("valid", "form", FALSE, "checkbox")>>],
     create |-> [method |-> "POST", known |-> TRUE,
                 fields |-> <<Field("data", "body", TRUE, "string")>>],
     old    |-> [method |-> "GET", known |-> FALSE, fields |-> <<>>]]

\* These links are like the schema's: a body stands alone.
ASSUME LinksHaveOneBody == Rest!OneBody
===============================================================================

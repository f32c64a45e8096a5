------------------------------ MODULE Coercion ------------------------------
(***************************************************************************)
(* The coercion of an argument to its input type (unmarshalInput... of     *)
(* src/serve/graph/generated.go).  A single value given for a list is a    *)
(* list of it (graphql.CoerceList, external), and a field the type does    *)
(* not have is refused before coercion.                                    *)
(***************************************************************************)
EXTENDS GraphInputs

\* The fields that are lists of their type.
IsList(type, field) ==
    \/ field \in {"_and", "_or"}
    \/ <<type, field>> \in {<<"MemPackageInput", "files">>, <<"MsgCallInput", "args">>, <<"GnoEventInput", "attrs">>,
                            <<"TransactionFilter", "events">>, <<"TransactionFilter", "message">>}

FieldType(type, field) == IF field \in {"_and", "_or", "_not"} THEN type ELSE InputTypes[type][field]

\* The fields that are set: null, and absent, leave the pointer nil.
Given(v) == {k \in DOMAIN v : v[k] # Null}

\* unmarshalInput... and unmarshalO...: the filter a resolver gets, a function
\* from the fields that are set.
RECURSIVE Unmarshal(_, _)
Unmarshal(type, v) ==
    IF type \notin DOMAIN InputTypes THEN v
    ELSE [k \in Given(v) |->
             IF IsList(type, k) THEN [i \in DOMAIN v[k] |-> Unmarshal(FieldType(type, k), v[k][i])]
                                ELSE Unmarshal(FieldType(type, k), v[k])]

=============================================================================

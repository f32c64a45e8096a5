----------------------------- MODULE Execution -----------------------------
(***************************************************************************)
(* How gqlgen turns the objects of the resolvers into the data of a        *)
(* response (the executors and marshalers of src/serve/graph/generated.go) *)
(* and where a null goes: a value that may not be null and is takes the    *)
(* object it is in with it.  The query selects every field.                *)
(***************************************************************************)
EXTENDS Conversions

\* The type of an object: of a value of a union, the member it is.
ObjectType(type, v) == IF type \in DOMAIN Unions THEN v.kind ELSE type

\* marshalN..., marshalO...: the data of a value, or Null.  A nil slice is an
\* empty list where the list may not be null.  A list loses all its elements
\* when one that may not be null is; an object (out.Invalids) likewise.
RECURSIVE Marshal(_, _)
Marshal(ref, v) ==
    IF ref.list
    THEN LET elements == IF v = Null THEN <<>> ELSE [i \in DOMAIN v |-> Marshal(ref.of, v[i])]
         IN  IF \/ v = Null /\ ~ref.nonNull
                \/ ref.of.nonNull /\ \E i \in DOMAIN elements : elements[i] = Null
             THEN Null ELSE elements
    ELSE IF v = Null \/ ref.type \in Scalars THEN v
    ELSE LET fields == Objects[ObjectType(ref.type, v)]
             out == [f \in DOMAIN fields |-> Marshal(fields[f], v[f])]
         IN  IF \E f \in DOMAIN fields : fields[f].nonNull /\ out[f] = Null THEN Null ELSE out

\* What a resolver returned: an object, or an error, which drops the object.
Failed == [failed |-> TRUE, value |-> Null]
Resolved(value) == [failed |-> FALSE, value |-> value]

\* _Query: the fields of a query run concurrently; a null where none may be
\* takes the other fields with it.
Query(resolved) ==
    LET out == [f \in DOMAIN resolved |-> IF resolved[f].failed THEN Null ELSE Marshal(QueryObject[f], resolved[f].value)]
    IN  IF \E f \in DOMAIN resolved : QueryObject[f].nonNull /\ out[f] = Null THEN Null ELSE out

-----------------------------------------------------------------------------
(* Properties. *)

\* A message that cannot be converted nulls itself and nothing else: every
\* transaction found is in the answer, with every one of its messages in place,
\* and only the package messages that do not survive cast are null.  Every event
\* that can be marshalled is there.
NoPackage(msg) == msg.route = "vm" /\ msg.type \in {"add_package", "run"} /\ ~msg.casts
StaysLocal(results) ==
    LET data == Query([getTransactions |-> Resolved([i \in DOMAIN results |-> NewTransaction(results[i])])])
        answer == data.getTransactions
    IN  /\ data # Null /\ answer # Null /\ Len(answer) = Len(results)
        /\ \A i \in DOMAIN results :
               LET msgs == GetStdTx(results[i]).msgs
               IN  /\ answer[i] # Null
                   /\ Len(answer[i].messages) = Len(msgs)
                   /\ \A k \in DOMAIN msgs : (answer[i].messages[k] = Null) <=> NoPackage(msgs[k])
                   /\ \A k \in DOMAIN answer[i].response.events : answer[i].response.events[k] # Null

=============================================================================

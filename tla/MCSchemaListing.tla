--------------------------- MODULE MCSchemaListing ---------------------------
(* An instance of SchemaListing for TLC. *)
EXTENDS SchemaListingInv

\* Literals, and the characters that a glob or LIKE gives a meaning.
MCChars == {"a", "b", "*", "%", "_", "="}

Glob == {<<"*">>, <<"a">>, <<"a", "*">>, <<"*", "a">>, <<"*", "*", "b">>, <<"*", "a", "b">>,
         <<"a", "*", "b", "*">>, <<"*", "a", "*", "b">>, <<"*", "a", "b", "*">>,
         <<"a", "_", "*">>, <<"%", "a">>, <<"=", "*">>, <<"*", "=">>, <<"_">>}

\* Names of up to five characters, longer than MySQL allows here; and single ones of the rest.
Words == UNION {[1..k -> {"a", "b"}] : k \in 0..5}
Odd == {<<"*">>, <<"%">>, <<"_">>, <<"=">>, <<"a", "_">>, <<"a", "_", "b">>, <<"%", "a">>, <<"b", "a">>,
        <<"=", "a">>, <<"a", "=">>, <<"a", "%">>, <<"=", "%">>}

MCRequested == Words \cup Odd

Singles == {[exact |-> e, patterns |-> <<p>>] : e \in {{}, {<<"b", "b">>}}, p \in Glob}
Others == {[exact |-> {}, patterns |-> <<>>],
           [exact |-> {<<"a">>, <<"b", "a">>}, patterns |-> <<>>],
           [exact |-> {}, patterns |-> <<<<"b", "*">>, <<"*", "a">>>>],
           [exact |-> {<<"=">>}, patterns |-> <<<<"a", "*", "a">>, <<"_">>>>]}
MCFilters == Singles \cup Others

\* Allowed schemas that sort after others, and after more than the bound.
MCCatalogs ==
    {<<>>,
     <<<<"%", "a">>, <<"*", "a">>, <<"=">>, <<"=", "a">>, <<"a">>>>,
     <<<<"_">>, <<"a">>, <<"a", "=">>, <<"a", "_">>, <<"a", "_", "b">>, <<"b", "a">>>>,
     <<<<"a", "a">>, <<"a", "a", "b">>, <<"a", "b">>, <<"b", "a", "a">>, <<"b", "b">>, <<"b", "b", "a">>>>}

MCRows == 1..4
MCAnswers == {[i \in 1..k |-> i] : k \in 0..4}
=============================================================================

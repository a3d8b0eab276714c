--------------------------- MODULE MCConversation ---------------------------
EXTENDS Conversation

(* Tools whose parameters are an object without a property, have keys to     *)
(* strip at the top and below, and have an empty object inside.              *)
Object == {<<>>, <<"type">>, <<"type", "object">>, <<"properties">>}
Query == {<<"properties", "q">>, <<"properties", "q", "type">>}
ToolSchemas ==
    {Object \cup {<<"additionalProperties">>},
     Object \cup Query \cup {<<"$schema">>, <<"properties", "q", "additionalProperties">>},
     Object \cup {<<"properties", "o">>, <<"properties", "o", "properties">>}}
=============================================================================

---------------------------- MODULE MCMapperScript ----------------------------
(* Vocabularies for checking MapperScript: one identifier x, the record   *)
(* field name, the string "1", the number 1, and the key lists and map    *)
(* keys built from them.  Each run picks the part its question needs.     *)
EXTENDS MapperScript

MCIdents    == {"x"}
MCFields    == {"name"}
MCFieldKeys == {<<"a">>}
MCTexts     == {<<"1">>}
MCTemplates == <<>>

TextKey(s)  == [k |-> "Text", s |-> s]
AnyCaseKey  == [k |-> "Any"]

\* match keys: x, _, and the tuple (x, _) that parse_match_case rejects
MCMatchKeyLists  == {<<"x">>, <<AnyKey>>, <<"x", AnyKey>>}
MCMatchKeysValid == {<<"x">>, <<AnyKey>>}

MCMapKeys      == {IdentNode("x"), FieldNode("name"), VarAccessNode("x", <<"a">>)}
MCMapFieldKey  == {FieldNode("name")}
MCMapXaKey     == {VarAccessNode("x", <<"a">>)}

MCMapCaseKeyLists == {<<TextKey(<<"1">>)>>, <<AnyCaseKey>>, <<[k |-> "From", from |-> Scale]>>}
MCMapTextCase     == {<<TextKey(<<"1">>)>>}
MCMapAnyCase      == {<<AnyCaseKey>>}

\* records: a number-like name, a text name, and "A1", on which
\* (?<a>[A-Z])(?<aa>\d) yields the Named value [1: A, 2: 1, a: A, aa: 1]
MCInitRecords   == {[name |-> <<"1">>], [name |-> <<"a">>]}
MCInitRecordA   == {[name |-> <<"a">>]}
MCInitRecordA1  == {[name |-> <<"A", "1">>]}
=============================================================================

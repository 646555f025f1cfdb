-------------------------------- MODULE Json --------------------------------
(***************************************************************************)
(* The JSON documents of libparc (parcJSON, parcJSONArray), as the         *)
(* repository uses them.  An object is the sequence of its pairs in the    *)
(* order they were added and an array a sequence.  Adding a key that is    *)
(* there already adds a second pair; a lookup by name finds the first.     *)
(***************************************************************************)
EXTENDS Integers, Sequences, SequencesExt

EmptyObject == <<>>
NullValue   == <<>>

Add(json, key, value) == Append(json, <<key, value>>)

(* A pair that is added only if a condition holds. *)
AddIf(json, condition, key, value) == IF condition THEN Add(json, key, value) ELSE json

Position(json, key) == SelectInSeq(json, LAMBDA pair : pair[1] = key)

Has(json, key) == Position(json, key) # 0

GetValueByName(json, key) == json[Position(json, key)][2]

(* The name of the pair at an index that counts from 0. *)
NameAt(json, index) == json[index + 1][1]

(* What a value that need not be there is: a sequence of at most one. *)
Optional(json, key) == IF Has(json, key) THEN <<GetValueByName(json, key)>> ELSE <<>>

(* The array of the documents of a list, and the list of an array. *)
ToArray(list, ToJson(_)) == [i \in DOMAIN list |-> ToJson(list[i])]
FromArray(array, FromJson(_)) == [i \in DOMAIN array |-> FromJson(array[i])]

(* Conversions that are undone by their inverses only. *)
Base64(bytes)     == [base64 |-> bytes]
FromBase64(value) == value.base64
Uri(name)         == [uri |-> name]
FromUri(value)    == value.uri
=============================================================================

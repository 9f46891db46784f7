------------------------- MODULE MCServiceAccountSync -------------------------
(* Model values and selections for model checking ServiceAccountSync.        *)
EXTENDS ServiceAccountSync, TLC

CONSTANT s1

\* Lists without the fixed name, and with a duplicate of it around another reference of
\* a user.
Lists == {<<"mine">>, <<"managed", "other", "managed">>}
ShortLists == {<<"other">>, <<"managed">>}

SomeSelections == {{}, {s1}}
AlwaysSelected == {{s1}}
=============================================================================

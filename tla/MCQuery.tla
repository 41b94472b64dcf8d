------------------------------ MODULE MCQuery -------------------------------
(***************************************************************************)
(* Small instances of Query for TLC.  The queries a client starts from are *)
(* sentences of every form, with blanks wherever they may be and nowhere   *)
(* else than they must be, with values at their limits, and some near      *)
(* misses; every text one change away from them is posted.                 *)
(***************************************************************************)
EXTENDS Query

InsertInto == <<"insert", "sp", "into", "sp", "users", "sp">>
FromUsers == <<"from", "sp", "users">>

MCQueries ==
  {InsertInto \o <<"values", "(", "1", ",", "'", "n", "'", ",", "2", ")">>,
   InsertInto \o <<"values", "tab", "(", "sp", "2", "0", ",", "sp", "'", "n", "sp", "'", "sp",
                   ",", "+", "0", ")", ";">>,
   InsertInto \o <<"name", "lf", "age", "sp", "values", "'", "u", "r", "t", "'", "2">>,
   InsertInto \o <<"name", "sp", "age", "sp", "values", "'", "quote", "bslash", "'", "sp",
                   "2", "0", ";", "sp">>,
   InsertInto \o <<"values", "(", "0", "0", "1", ",", "'", "'", ",", "-", "0", ")">>,
   <<"select", "sp", "*">> \o FromUsers,
   <<"sp", "select", "sp", "*", "sp">> \o FromUsers \o <<"sp", ";", "lf">>,
   <<"select", "sp", "name", ",", "id", "sp">> \o FromUsers,
   <<"select", "sp", "id", "sp", ",", "age", ",", "sp", "name", "cr">> \o FromUsers,
   <<"select", "*">> \o FromUsers
     \o <<"sp", "where", "sp", "id", "sp", "=", "sp", "2", "0", ";">>,
   <<"select", "sp", "age", "sp">> \o FromUsers 
     \o <<"vt", "where", "sp", "name", "=", "'", "slash", "lf", "n", "'">>,
   <<"select", "sp", "id", ",", "age", ",", "name", ",", "id", "sp">> \o FromUsers,
   <<"select", "sp", "id", ",", "id", "sp">> \o FromUsers \o <<";", ";">>,
   InsertInto \o <<"name", "sp", "age", "sp", "values", "(", "1", ",", "'", "n", "'", "2", ")">>}

MCCharacters ==
  Digits \cup Blanks \cup {"(", ")", ",", "=", "*", ";", "'", "-", "quote", "bslash", "{", "n"}
    \cup {"values", "name", "id", "users", "where", "select"}
=============================================================================

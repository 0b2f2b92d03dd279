---------------------------- MODULE MCDatabases ----------------------------
(* Instances of Databases: what redis may answer. *)
EXTENDS Databases

\* A bulk string, an array with an array in it that is complete before it is, and an empty string
Replies == {<<"bulk", "body">>, <<"pair", "single", "none", "line">>, <<"empty", "crlf">>}
=============================================================================

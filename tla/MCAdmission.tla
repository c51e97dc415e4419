---------------------------- MODULE MCAdmission ----------------------------
(* Two routes of the API: a login, with a hash between statements, and a note. *)
EXTENDS Admission
LoginAndNotes == [login |-> <<"db", "hash", "db">>, notes |-> <<"db">>]
Hashing == [login |-> <<"hash">>]
=============================================================================

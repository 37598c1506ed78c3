---------------------------- MODULE MCChatService ----------------------------
(* Small instances of ChatService for TLC. *)
EXTENDS ChatService

(* One round that needs an approval and then one that does not. *)
WriteThenRead == {<<"write", "read">>}

(* One tool that needs an approval. *)
OneWrite == {<<"write">>}

(* A round for every kind of tool. *)
OneOfEach == {<<"read">>, <<"write">>, <<"exit">>}
=============================================================================

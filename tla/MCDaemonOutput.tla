--------------------------- MODULE MCDaemonOutput ---------------------------
(***************************************************************************)
(* DaemonOutput for TLC: prompts that arrive whole or in two reads, words  *)
(* of every kind, empty lines, and texts longer than what is kept.         *)
(***************************************************************************)
EXTENDS DaemonOutput

MCChunks == {<<"allow">>, <<"?">>, <<"nl", "allow", "?">>, <<"y/n">>,
             <<"nl", "limit">>, <<"nl", "word", "nl", "word">>, <<"esc", "limit">>}

=============================================================================

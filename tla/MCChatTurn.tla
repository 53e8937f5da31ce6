----------------------------- MODULE MCChatTurn -----------------------------
(* Small instances of ChatTurn. *)
EXTENDS ChatTurn

CONSTANTS scan, read, write, typo

BackendTools  == { scan }
FrontendTools == { read }
GuardedTools  == { write }
FewReplies    == << { { scan, typo }, { scan, read } }, { { write } }, {} >>
==============================================================================

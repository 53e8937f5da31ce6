----------------------------- MODULE MCToolLoop ------------------------------
(* Small instances of ToolLoop: one tool of each class. *)
EXTENDS ToolLoop

Scan  == { "audisor_scan" }
Read  == { "file_read" }
Shell == { "shell_exec" }
WriteTool == { "file_write" }
==============================================================================

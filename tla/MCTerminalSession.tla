--------------------------- MODULE MCTerminalSession ---------------------------
(* One session of any transport, and a second connection to follow the first.  *)
EXTENDS TerminalSession
================================================================================

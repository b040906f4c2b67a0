---------------------------- MODULE MCShellStream ----------------------------
(* Instance of ShellStream: the bytes are the numbers up to the bound. *)
EXTENDS ShellStream

Numbered == 1 .. MaxBytes
=============================================================================

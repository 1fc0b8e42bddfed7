------------------------------- MODULE MCPipe -------------------------------
(* Descriptors and pipes with few processes and a buffer of two bytes. *)
EXTENDS Pipe

\* One write, longer than the buffer; a failing copyin makes it any shorter one.
LongWrite == {<<0, 1, 0>>}
=============================================================================

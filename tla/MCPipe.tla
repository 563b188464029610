------------------------------- MODULE MCPipe -------------------------------
(* Small instances of Pipe for TLC. *)
EXTENDS Pipe

(* A mark that fills up soon, and one whose acknowledgements are rare. *)
MCMaxMsgs ==
    [mark \in Marks |-> IF mark < 3 THEN [socket |-> 2, session |-> 1]
                        ELSE [socket |-> 4, session |-> 0]]
=============================================================================

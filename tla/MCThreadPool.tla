---------------------------- MODULE MCThreadPool ----------------------------
(* Instances of ThreadPool. *)
EXTENDS ThreadPool, TLC

OneEach == [c \in Config |-> 1]

\* A transition tool that runs two threads, then a debug socket with one.
CONSTANTS wide, narrow
WideThenNarrow == wide :> 2 @@ narrow :> 1

OneFolder == <<wide>>
BothConfigs == <<wide, narrow>>
=============================================================================

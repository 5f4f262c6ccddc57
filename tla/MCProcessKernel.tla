-------------------------- MODULE MCProcessKernel --------------------------
(* ProcessKernel with two processes, one of them started first, and a ring *)
(* of two slots: it fills up and wraps around after two posts.             *)
EXTENDS ProcessKernel

CONSTANTS send, wakeup, go

TheProcs == {send, wakeup}
TheOrder == <<send, wakeup>>
TheEvs == {go}
Nobody == {}
Both == {send, wakeup}

=============================================================================

--------------------------- MODULE MCNativeSession ---------------------------
(* Small instances of NativeSession for TLC.                                  *)
(* Stopped: two messages, cancels and a Stop against a healthy helper.        *)
(* Recovered: an initial prompt and a message, a crash and a Stop.            *)
(* Abandoned: an initial prompt alone, a crash, a Stop and a deadline.        *)
(* Expired: one message with a crash, a Stop, a deadline, a failed reconnect. *)
(* Unsure: one message whose write may end unknown, and no Stop.              *)
(* Answered: an initial prompt, a message and a Stop, without faults.         *)
EXTENDS NativeSession, TLC

CONSTANTS d1, d2

MCDispatchers == {d1, d2}
MCMsgs == 1..MaxMsgs
Threads == Permutations(MCDispatchers)

Calm == [initial |-> FALSE, msgs |-> 1, crash |-> 0, stop |-> 0, timeout |-> 0,
         unknown |-> 0, fail |-> 0]
Stopped == [Calm EXCEPT !.msgs = 2, !.stop = 1]
Recovered == [Calm EXCEPT !.initial = TRUE, !.crash = 1, !.stop = 1]
Abandoned == [Calm EXCEPT !.initial = TRUE, !.msgs = 0, !.crash = 1, !.stop = 1,
                          !.timeout = 1]
Expired == [Calm EXCEPT !.crash = 1, !.stop = 1, !.timeout = 1, !.fail = 1]
Unsure == [Calm EXCEPT !.crash = 1, !.timeout = 1, !.unknown = 1, !.fail = 1]
Answered == [Calm EXCEPT !.initial = TRUE, !.stop = 1]

MCDelivered == {Stopped, Recovered, Abandoned, Expired, Unsure}
MCAnswered == {Answered}
MCReplayed == {[Calm EXCEPT !.stop = 1, !.unknown = 1]}
MCRefused == {[Calm EXCEPT !.msgs = 2, !.crash = 1]}
MCLost == {[Calm EXCEPT !.msgs = 2, !.unknown = 1]}
=============================================================================

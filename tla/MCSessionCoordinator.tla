------------------------- MODULE MCSessionCoordinator -------------------------
(* Instances of SessionCoordinator for TLC, each with two helpers in a row.    *)
(* Foreground: two prompts compete for the foreground across two query         *)
(* generations.  LaneRequests and Answered: settings, permission changes and   *)
(* an answer, in their lanes.  Steered: two prompts steered into whichever of  *)
(* two prompts runs.  Degraded: one of them, across two query generations,     *)
(* where one helper may lack the capability.                                   *)
EXTENDS SessionCoordinator

Nobody == [cmds |-> {}, settings |-> {}, perms |-> {}, replies |-> {}, steers |-> {},
           convs |-> {}, observers |-> {}, caps |-> {"full"},
           incs |-> 2, gens |-> 2, epochs |-> 0]
Foreground == [Nobody EXCEPT !.cmds = {1, 2}, !.convs = {7}, !.observers = {"dispatcher"},
                             !.caps = {"none", "legacy", "full"}, !.epochs = 1]
LaneRequests == [Nobody EXCEPT !.settings = {11, 12}, !.perms = {21}, !.gens = 1]
Answered == [Nobody EXCEPT !.settings = {11}, !.perms = {21}, !.replies = {31}, !.gens = 1]
Steered == [Nobody EXCEPT !.cmds = {1, 2}, !.steers = {41, 42}, !.caps = {"full+steer"},
                          !.gens = 1]
Degraded == [Nobody EXCEPT !.cmds = {1, 2}, !.steers = {41}, !.caps = {"full", "full+steer"}]
MCScopes == {Foreground, LaneRequests, Answered, Steered, Degraded}
=============================================================================

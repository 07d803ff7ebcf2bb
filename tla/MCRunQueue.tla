----------------------------- MODULE MCRunQueue -----------------------------
(* One Project and two agents.  Either each runs a Bot of its own, in an   *)
(* agent process of its own, or both slots belong to one process of one    *)
(* Bot.                                                                    *)
EXTENDS RunQueue, TLC

CONSTANTS p1, b1, b2, s1, s2, w1, w2

OneProject == [b \in Bots |-> p1]

TwoBots    == s1 :> b1 @@ s2 :> b2
TwoWorkers == s1 :> w1 @@ s2 :> w2

OneBot    == [s \in Slots |-> b1]
OneWorker == [s \in Slots |-> w1]

(* The two agents may be exchanged, with their Bots and processes. *)
Exchange == b1 :> b2 @@ b2 :> b1 @@ s1 :> s2 @@ s2 :> s1 @@ w1 :> w2 @@ w2 :> w1
SwapAgents == {f \in Permutations({b1, b2, s1, s2, w1, w2}) :
                 f = Exchange \/ \A x \in DOMAIN f : f[x] = x}
=============================================================================

--------------------------------- MODULE MCAsk ---------------------------------
(* Small instances of Ask: a project store and the user's, two rungs.          *)
EXTENDS Ask, TLC

CONSTANTS p1, p2, u1, u2, u3, proj, user, gpu, cpu, secret

TwoStores == <<proj, user>>
TheIndex == proj :> {p1, p2} @@ user :> {u1, u2, u3}
ThePlace == p1 :> 1 @@ p2 :> 2 @@ u1 :> 3 @@ u2 :> 4 @@ u3 :> 5
TheTopic == p1 :> "a" @@ p2 :> "b" @@ u1 :> "c" @@ u2 :> "d" @@ u3 :> "d"
TheText == p1 :> 3 @@ p2 :> 1 @@ u1 :> 2 @@ u2 :> 2 @@ u3 :> 6
TheLine == p1 :> 0 @@ p2 :> 0 @@ u1 :> 1 @@ u2 :> 0 @@ u3 :> 0
Score(a, b, c, d, e) == p1 :> a @@ p2 :> b @@ u1 :> c @@ u2 :> d @@ u3 :> e
TheQuestions ==
  { [score |-> Score(7, 2, 9, 5, 5), terms |-> Score(1, 0, 2, 1, 0)],
    [score |-> Score(5, 4, 2, 3, 8), terms |-> Score(0, 0, 0, 0, 1)],
    [score |-> Score(1, 1, 2, 2, 1), terms |-> Score(0, 0, 0, 0, 0)] }
Ladder == <<gpu, cpu>>
TheBudget == gpu :> 9 @@ cpu :> 5
TheWindow == gpu :> 9 @@ cpu :> 5
TheWithholds == secret :> {"c"}
=============================================================================

--------------------------- MODULE MCHbAvssLight ---------------------------
(***************************************************************************)
(* Small instances of HbAvssLight: four parties, p3 faulty, the dealer p0  *)
(* or p3.                                                                  *)
(***************************************************************************)
EXTENDS HbAvssLight, TLC

CONSTANTS p0, p1, p2, p3

Good  == [key |-> "own", holds |-> "good"]
Wrong == [key |-> "own", holds |-> "wrong"]
Short == [key |-> "own", holds |-> "short"]
Moved == [key |-> "other", holds |-> "good"]   \* encrypted with another key

Dealt(b1, b2, b3) == p0 :> Good @@ p1 :> b1 @@ p2 :> b2 @@ p3 :> b3

\* What p1, p2 and p3 are dealt.
BadDealings == {Dealt(Good, Wrong, Good), Dealt(Wrong, Moved, Wrong),
                Dealt(Wrong, Short, Good), Dealt(Good, Moved, Moved)}
=============================================================================

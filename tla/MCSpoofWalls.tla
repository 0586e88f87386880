----------------------------- MODULE MCSpoofWalls -----------------------------
(***************************************************************************)
(* TLC instance of SpoofWalls: a bid side with a best level and one behind *)
(* it that may hold a wall, and an ask side that may be empty.  With a     *)
(* threshold of 5, a wall of 30 can be eaten to 5, which is still in       *)
(* sight, or to 1, which is not.                                           *)
(***************************************************************************)
EXTENDS SpoofWalls

Book(best, wall, ask, near) ==
  [size |-> [l \in Level |-> CASE l = <<"bid", 1>> -> best
                               [] l = <<"bid", 2>> -> wall
                               [] l = <<"ask", 1>> -> ask
                               [] OTHER            -> 0],
   near |-> near]

WallBooks ==
  {Book(1, wall, 1, near) : wall \in {0, 1, 5, 30}, near \in {{<<"bid", 2>>}, {}}}
  \cup {Book(0, 30, 1, {<<"bid", 2>>}), Book(1, 30, 0, {<<"bid", 2>>})}
=============================================================================

------------------------ MODULE JitoPositions_proofs ------------------------
(***************************************************************************)
(* Proofs about JitoPositions, for any requests, orders, modes, prices and *)
(* limits: how a position ends, and what the counters and the log of exits *)
(* say of the requests.                                                    *)
(***************************************************************************)
EXTENDS JitoPositions, FiniteSetTheorems, SequenceTheorems, TLAPS

Call == [at : {"new", "screening", "sending", "done"}, order : Orders \cup {NoOrder},
         rug : Nat, nested : 0 .. Depth,
         answer : {"none", "REJECTED", "BUNDLE_FAILED", "EXECUTED", "error"}]

Pos == [status : {"none", "OPEN", "TRAILING", "EXITED"}, mint : Mints \cup {"none"},
        entry : Nat \ {0}, atr : Nat \ {0}, high : Nat, stop : Int, age : 0 .. AutoExit,
        exit : Nat, best : Nat, due : BOOLEAN,
        reason : {"none", "trail_stop", "auto_exit_timeout", "emergency_exit"}]

\* A call and the position it has, or has not yet, opened.
Fits(c, q) ==
  /\ c.at = "done" <=> c.answer # "none"
  /\ c.answer = "EXECUTED" <=> q.status # "none"
  /\ c.at \in {"screening", "sending"} => c.order \in Orders
  /\ c.at = "new" => c.rug = 0
  /\ c.at = "sending" \/ c.answer = "EXECUTED" => c.rug <= RugMax /\ Calm(c.order)
  /\ q.status # "none" => q.mint = c.order.mint /\ q.entry = c.order.entry

\* What the fields of one position say of its life.
Tells(q) ==
  /\ q.reason # "none" <=> q.status = "EXITED"
  /\ q.status = "OPEN" =>
       q.best = q.entry /\ q.high = q.entry /\ q.stop = q.entry - TrailMult * q.atr
  /\ q.status = "TRAILING" => q.best > q.entry /\ q.stop = q.high - TrailMult * q.atr
  /\ q.reason = "trail_stop" => q.exit <= q.best - TrailMult * q.atr
  /\ q.reason = "auto_exit_timeout" =>
       q.age >= AutoExit /\ q.exit > q.best - TrailMult * q.atr
  /\ q.reason = "emergency_exit" => q.exit = 0

\* A log of exits against the positions that are gone.
Logged(s, gone) ==
  /\ s \in Seq(Requests) /\ Len(s) = Lower(Cardinality(gone), ClosedCap)
  /\ ToSet(s) \subseteq gone /\ IsInjective(s)

Gone == {p \in Requests : pos[p].status = "EXITED"}

Shapes ==
  /\ mode \in Modes /\ call \in [Requests -> Call] /\ pos \in [Requests -> Pos]
  /\ \A r \in Requests : Fits(call[r], pos[r]) /\ Tells(pos[r])

Counts ==
  /\ succeeded \in Nat /\ submitted \in Nat
  /\ succeeded = Cardinality(Opened)
  /\ submitted = Cardinality(Told({"EXECUTED", "BUNDLE_FAILED"}))
  /\ Logged(closed, Gone)

IInv == Shapes /\ Counts

-----------------------------------------------------------------------------
(* Sequences and counting. *)

\* The last elements of a sequence.
LEMMA TailFact ==
  ASSUME NEW S, NEW s \in Seq(S), NEW n \in Nat \ {0}, Len(s) > n
  PROVE  /\ SubSeq(s, Len(s) - n + 1, Len(s)) \in Seq(S)
         /\ Len(SubSeq(s, Len(s) - n + 1, Len(s))) = n
         /\ \A k \in 1 .. n : SubSeq(s, Len(s) - n + 1, Len(s))[k] = s[Len(s) - n + k]
<1>1. Len(s) - n + 1 \in 1 .. Len(s) /\ Len(s) \in Nat
  OBVIOUS
<1> QED  BY <1>1

\* The log that keeps the last n of what it held and what is added to it.
LEMMA LogFact ==
  ASSUME NEW gone, NEW new, gone \subseteq Requests, new \subseteq Requests,
         gone \cap new = {}, NEW s, Logged(s, gone),
         NEW order \in Seq(new), Len(order) = Cardinality(new), IsInjective(order),
         ToSet(order) \subseteq new
  PROVE  Logged(LastOf(s \o order, ClosedCap), gone \cup new)
<1> USE RequestsAssumption, NumbersAssumption
<1>1. /\ IsFiniteSet(gone) /\ IsFiniteSet(new)
      /\ Cardinality(gone) \in Nat /\ Cardinality(new) \in Nat
      /\ Cardinality(gone \cup new) = Cardinality(gone) + Cardinality(new)
  <2>1. IsFiniteSet(gone) /\ IsFiniteSet(new)
    BY FS_Subset
  <2>2. Cardinality(gone) \in Nat /\ Cardinality(new) \in Nat
    BY <2>1, FS_CardinalityType
  <2>3. Cardinality(gone \cup new)
          = Cardinality(gone) + Cardinality(new) - Cardinality(gone \cap new)
    BY <2>1, FS_Union
  <2>4. Cardinality(gone \cap new) = 0
    BY FS_EmptySet
  <2> QED  BY <2>1, <2>2, <2>3, <2>4
<1> DEFINE all == s \o order
<1>2. /\ s \in Seq(Requests) /\ order \in Seq(Requests) /\ all \in Seq(Requests)
      /\ Len(all) = Len(s) + Len(order)
      /\ \A i \in 1 .. Len(all) :
           all[i] = IF i <= Len(s) THEN s[i] ELSE order[i - Len(s)]
  BY DEF Logged
<1>3. \A i \in 1 .. Len(s) : s[i] \in gone
  BY <1>2 DEF Logged, ToSet
<1>4. \A i \in 1 .. Len(order) : order[i] \in new
  BY <1>2 DEF ToSet
<1>5. \A i \in 1 .. Len(all) : all[i] \in gone \cup new
  <2> SUFFICES ASSUME NEW i \in 1 .. Len(all) PROVE all[i] \in gone \cup new
    OBVIOUS
  <2>1. CASE i <= Len(s)
    BY <1>2, <1>3, <2>1
  <2>2. CASE i > Len(s)
    <3>1. i - Len(s) \in 1 .. Len(order)
      BY <1>2, <2>2
    <3> QED  BY <1>2, <1>4, <2>2, <3>1
  <2> QED  BY <1>2, <2>1, <2>2
<1>6. \A i, j \in 1 .. Len(all) : all[i] = all[j] => i = j
  <2> SUFFICES ASSUME NEW i \in 1 .. Len(all), NEW j \in 1 .. Len(all), all[i] = all[j]
               PROVE  i = j
    OBVIOUS
  <2> HIDE DEF all
  <2>0. /\ \A k, l \in 1 .. Len(s) : s[k] = s[l] => k = l
        /\ \A k, l \in 1 .. Len(order) : order[k] = order[l] => k = l
        /\ Len(s) \in Nat /\ Len(order) \in Nat
    <3>1. DOMAIN s = 1 .. Len(s) /\ DOMAIN order = 1 .. Len(order)
      BY <1>2
    <3>2. Len(s) \in Nat /\ Len(order) \in Nat
      BY <1>2
    <3> QED  BY <3>1, <3>2 DEF Logged, IsInjective
  <2>1. CASE i <= Len(s) /\ j <= Len(s)
    <3>1. i \in 1 .. Len(s) /\ j \in 1 .. Len(s) /\ s[i] = s[j]
      BY <1>2, <2>0, <2>1
    <3> QED  BY <2>0, <3>1
  <2>2. CASE i > Len(s) /\ j > Len(s)
    <3>1. /\ i - Len(s) \in 1 .. Len(order) /\ j - Len(s) \in 1 .. Len(order)
          /\ order[i - Len(s)] = order[j - Len(s)]
      BY <1>2, <2>0, <2>2
    <3>2. i - Len(s) = j - Len(s)
      BY <2>0, <3>1
    <3> QED  BY <2>0, <3>2
  <2>3. CASE i <= Len(s) /\ j > Len(s)
    <3>1. i \in 1 .. Len(s) /\ j - Len(s) \in 1 .. Len(order)
          /\ s[i] = order[j - Len(s)]
      BY <1>2, <2>0, <2>3
    <3> QED  BY <1>3, <1>4, <3>1
  <2>4. CASE i > Len(s) /\ j <= Len(s)
    <3>1. j \in 1 .. Len(s) /\ i - Len(s) \in 1 .. Len(order)
          /\ s[j] = order[i - Len(s)]
      BY <1>2, <2>0, <2>4
    <3> QED  BY <1>3, <1>4, <3>1
  <2> QED  BY <2>0, <2>1, <2>2, <2>3, <2>4
<1>7. Lower(Len(all), ClosedCap) = Lower(Cardinality(gone \cup new), ClosedCap)
  BY <1>1, <1>2 DEF Logged, Lower
<1> HIDE DEF all
<1>8. CASE Len(all) <= ClosedCap
  <2>1. LastOf(all, ClosedCap) = all
    BY <1>8 DEF LastOf
  <2>2. Len(all) = Lower(Cardinality(gone \cup new), ClosedCap)
    BY <1>7, <1>8 DEF Lower
  <2> QED  BY <1>2, <1>5, <1>6, <2>1, <2>2 DEF Logged, ToSet, IsInjective, all
<1>9. CASE Len(all) > ClosedCap
  <2> DEFINE t == SubSeq(all, Len(all) - ClosedCap + 1, Len(all))
             d == Len(all) - ClosedCap
  <2>1. LastOf(all, ClosedCap) = t /\ Len(all) \in Nat /\ d \in Nat
    <3>1. Len(all) \in Nat
      BY <1>2
    <3> QED  BY <3>1, <1>9 DEF LastOf
  <2>2. /\ t \in Seq(Requests) /\ Len(t) = ClosedCap
        /\ \A k \in 1 .. ClosedCap : t[k] = all[d + k]
    <3>1. all \in Seq(Requests) /\ Len(all) > ClosedCap /\ ClosedCap \in Nat \ {0}
      BY <1>2, <1>9
    <3>2. /\ t \in Seq(Requests) /\ Len(t) = ClosedCap
          /\ \A k \in 1 .. ClosedCap : t[k] = all[Len(all) - ClosedCap + k]
      BY <3>1, TailFact
    <3> QED  BY <3>2
  <2>3. \A k \in 1 .. ClosedCap : d + k \in 1 .. Len(all)
    BY <2>1, <1>9
  <2>4. ClosedCap = Lower(Cardinality(gone \cup new), ClosedCap)
    BY <1>7, <1>9, <2>1 DEF Lower
  <2> HIDE DEF t, d
  <2>5. \A k \in 1 .. ClosedCap : t[k] \in gone \cup new
    BY <1>5, <2>2, <2>3
  <2>6. \A k, l \in 1 .. ClosedCap : t[k] = t[l] => k = l
    <3> SUFFICES ASSUME NEW k \in 1 .. ClosedCap, NEW l \in 1 .. ClosedCap, t[k] = t[l]
                 PROVE  k = l
      OBVIOUS
    <3>1. all[d + k] = all[d + l] /\ d + k \in 1 .. Len(all) /\ d + l \in 1 .. Len(all)
      BY <2>2, <2>3
    <3>2. d + k = d + l
      BY <1>6, <3>1
    <3> QED  BY <2>1, <3>2
  <2>7. DOMAIN t = 1 .. ClosedCap
    BY <2>2
  <2>8. Logged(t, gone \cup new)
    BY <2>2, <2>4, <2>5, <2>6, <2>7 DEF Logged, ToSet, IsInjective
  <2> QED  BY <2>1, <2>8 DEF all
<1> QED  BY <1>2, <1>8, <1>9

\* One more member of a set of requests counts one more.
LEMMA OneMore ==
  ASSUME NEW S, S \subseteq Requests, NEW r \in Requests, r \notin S
  PROVE  Cardinality(S) \in Nat /\ Cardinality(S \cup {r}) = Cardinality(S) + 1
<1>1. IsFiniteSet(S)
  BY RequestsAssumption, FS_Subset
<1> QED  BY <1>1, FS_CardinalityType, FS_AddElement

-----------------------------------------------------------------------------
(* The steps. *)

LEMMA InitInv == Init => IInv
<1> SUFFICES ASSUME Init PROVE IInv
  OBVIOUS
<1> USE NumbersAssumption DEF Init
<1>1. Idle \in Call
  BY DEF Idle, Call
<1>2. Unopened \in Pos
  <2>1. Position(NoOrder) \in Pos
    BY DEF Position, NoOrder, Pos
  <2> QED  BY <2>1 DEF Unopened, Pos
<1>3. Fits(Idle, Unopened) /\ Tells(Unopened) /\ Unopened.status = "none"
  BY DEF Fits, Tells, Idle, Unopened, Position, NoOrder, Calm
<1>4. Shapes
  BY <1>1, <1>2, <1>3 DEF Shapes
<1>5. Opened = {} /\ Told({"EXECUTED", "BUNDLE_FAILED"}) = {} /\ Gone = {}
  BY <1>3 DEF Opened, Told, Gone, Idle
<1>6. Logged(<<>>, {})
  BY FS_EmptySet DEF Logged, Lower, ToSet, IsInjective
<1> QED  BY <1>4, <1>5, <1>6, FS_EmptySet DEF IInv, Counts

\* A call that goes on, or ends, without a position.
LEMMA CallMoves ==
  ASSUME IInv, NEW r \in Requests, NEW c \in Call, pos[r].status = "none",
         call[r].answer = "none",
         call' = [call EXCEPT ![r] = c], Fits(c, pos[r]),
         UNCHANGED <<mode, pos, closed, succeeded>>,
         submitted' = IF c.answer = "BUNDLE_FAILED" THEN submitted + 1 ELSE submitted
  PROVE  IInv'
<1>1. Shapes'
  BY DEF IInv, Shapes
<1>2. Opened' = Opened /\ Gone' = Gone
  BY DEF Opened, Gone
<1>3. c.answer # "EXECUTED"
  BY DEF Fits
<1>4. Told({"EXECUTED", "BUNDLE_FAILED"})'
        = IF c.answer = "BUNDLE_FAILED" THEN Told({"EXECUTED", "BUNDLE_FAILED"}) \cup {r}
          ELSE Told({"EXECUTED", "BUNDLE_FAILED"})
  BY <1>3 DEF IInv, Shapes, Told
<1>5. /\ Told({"EXECUTED", "BUNDLE_FAILED"}) \subseteq Requests
      /\ r \notin Told({"EXECUTED", "BUNDLE_FAILED"})
  BY DEF Told
<1>6. submitted' = Cardinality(Told({"EXECUTED", "BUNDLE_FAILED"})') /\ submitted' \in Nat
  BY <1>4, <1>5, OneMore DEF IInv, Counts
<1>7. Counts'
  BY <1>2, <1>6 DEF IInv, Counts
<1> QED  BY <1>1, <1>7 DEF IInv

\* A call c that may still be sent.
Sendable(r, c) ==
  /\ c \in Call /\ c.order \in Orders /\ c.answer = "none" /\ pos[r].status = "none"
  /\ c.rug <= RugMax

LEMMA WaitKeepsInv ==
  ASSUME IInv, NEW r \in Requests, NEW c, c \in Call, c.order \in Orders,
         c.answer = "none", call[r].answer = "none", pos[r].status = "none",
         NEW at \in {"screening", "sending"}, Wait(r, c, at),
         at = "sending" => c.rug <= RugMax /\ Calm(c.order)
  PROVE  IInv'
<1> DEFINE d == [c EXCEPT !.at = at]
<1>1. d \in Call /\ d.answer = "none" /\ d.at = at /\ d.order = c.order /\ d.rug = c.rug
  BY DEF Call
<1>2. Fits(d, pos[r])
  BY <1>1 DEF Fits
<1>3. /\ call' = [call EXCEPT ![r] = d] /\ UNCHANGED <<mode, pos, closed, succeeded>>
      /\ submitted' = submitted
  BY DEF Wait
<1> HIDE DEF d
<1> QED  BY <1>1, <1>2, <1>3, CallMoves

\* A call that is told no.
LEMMA RefusalKeepsInv ==
  ASSUME IInv, NEW r \in Requests, NEW c, c \in Call, call[r].answer = "none",
         pos[r].status = "none",
         \/ Reject(r, c)
         \/ Fail(r, c)
         \/ Answer(r, c, "error") /\ UNCHANGED <<mode, pos, closed, submitted, succeeded>>
  PROVE  IInv'
<1>1. ASSUME NEW a \in {"REJECTED", "BUNDLE_FAILED", "error"}, Answer(r, c, a),
             UNCHANGED <<mode, pos, closed, succeeded>>,
             submitted' = IF a = "BUNDLE_FAILED" THEN submitted + 1 ELSE submitted
      PROVE  IInv'
  <2> DEFINE d == [c EXCEPT !.at = "done", !.answer = a]
  <2>1. d \in Call /\ d.answer = a /\ d.at = "done"
    BY <1>1 DEF Call
  <2>2. Fits(d, pos[r])
    BY <1>1, <2>1 DEF Fits
  <2>3. call' = [call EXCEPT ![r] = d]
    BY <1>1 DEF Answer
  <2> HIDE DEF d
  <2> QED  BY <1>1, <2>1, <2>2, <2>3, CallMoves
<1>2. CASE Reject(r, c)
  BY <1>1, <1>2 DEF Reject
<1>3. CASE Fail(r, c)
  BY <1>1, <1>3 DEF Fail
<1>4. CASE Answer(r, c, "error") /\ UNCHANGED <<mode, pos, closed, submitted, succeeded>>
  BY <1>1, <1>4
<1> QED  BY <1>2, <1>3, <1>4

\* A bundle that succeeds opens a position.
LEMMA OpenKeepsInv ==
  ASSUME IInv, NEW r \in Requests, NEW c, Sendable(r, c), Calm(c.order),
         call[r].answer = "none", Open(r, c)
  PROVE  IInv'
<1> DEFINE d == [c EXCEPT !.at = "done", !.answer = "EXECUTED"]
           q == Position(c.order)
<1>1. /\ d \in Call /\ d.answer = "EXECUTED" /\ d.at = "done" /\ d.order = c.order
      /\ d.rug = c.rug
  BY DEF Sendable, Call
<1>2. /\ q \in Pos /\ q.status = "OPEN" /\ q.mint = c.order.mint /\ q.entry = c.order.entry
      /\ Tells(q)
  BY OrdersAssumption, NumbersAssumption DEF Sendable, Position, Pos, Mints, Tells
<1>3. Fits(d, q)
  BY <1>1, <1>2 DEF Fits, Sendable
<1>4. /\ call' = [call EXCEPT ![r] = d] /\ pos' = [pos EXCEPT ![r] = q]
      /\ UNCHANGED <<mode, closed>>
      /\ submitted' = submitted + 1 /\ succeeded' = succeeded + 1
  BY DEF Open, Answer
<1> HIDE DEF d, q
<1>5. Shapes'
  BY <1>1, <1>2, <1>3, <1>4 DEF IInv, Shapes
<1>6. /\ Opened' = Opened \cup {r} /\ Gone' = Gone
      /\ Told({"EXECUTED", "BUNDLE_FAILED"})'
           = Told({"EXECUTED", "BUNDLE_FAILED"}) \cup {r}
  BY <1>1, <1>2, <1>4 DEF IInv, Shapes, Opened, Gone, Told, Sendable
<1>7. /\ r \notin Opened /\ r \notin Told({"EXECUTED", "BUNDLE_FAILED"})
      /\ Opened \subseteq Requests /\ Told({"EXECUTED", "BUNDLE_FAILED"}) \subseteq Requests
  BY DEF Opened, Told, Sendable
<1>8. Counts'
  BY <1>4, <1>6, <1>7, OneMore DEF IInv, Counts
<1> QED  BY <1>5, <1>8 DEF IInv

LEMMA SendKeepsInv ==
  ASSUME IInv, NEW r \in Requests, NEW c, Sendable(r, c), call[r].answer = "none",
         Send(r, c)
  PROVE  IInv'
<1>1. CASE ~Calm(c.order) /\ Reject(r, c)
  BY <1>1, RefusalKeepsInv DEF Sendable
<1>2. CASE Calm(c.order) /\ mode = "dry_run" /\ Open(r, c)
  BY <1>2, OpenKeepsInv
<1>3. CASE Calm(c.order) /\ mode \in {"guard", "jito"} /\ Wait(r, c, "sending")
  BY <1>3, WaitKeepsInv DEF Sendable
<1>4. CASE Calm(c.order) /\ mode \notin {"dry_run", "guard", "jito"} /\ Fail(r, c)
  BY <1>4, RefusalKeepsInv DEF Sendable
<1> QED  BY <1>1, <1>2, <1>3, <1>4 DEF Send

LEMMA RequestKeepsInv ==
  ASSUME IInv, NEW r \in Requests,
         \/ \E o \in Orders : Receive(r, o)
         \/ \E rug \in Rugs \cup {100} : Screen(r, rug)
         \/ Answered(r)
         \/ Unanswered(r)
  PROVE  IInv'
<1>0. /\ call[r] \in Call /\ Fits(call[r], pos[r])
      /\ call[r].at # "done" => call[r].answer = "none" /\ pos[r].status = "none"
  BY DEF IInv, Shapes, Fits
<1>1. ASSUME NEW o \in Orders, Receive(r, o) PROVE IInv'
  <2> DEFINE c == [call[r] EXCEPT !.order = o]
  <2>1. /\ call[r].at = "new"
        /\ \/ o.metrics /\ Wait(r, c, "screening")
           \/ ~o.metrics /\ Send(r, c)
    BY <1>1 DEF Receive
  <2>2. c \in Call /\ c.order = o /\ c.answer = "none" /\ c.rug = 0
    BY <1>0, <2>1 DEF Call, Fits
  <2>3. Sendable(r, c)
    BY <1>0, <2>1, <2>2, NumbersAssumption DEF Sendable
  <2> HIDE DEF c
  <2> QED  BY <1>0, <2>1, <2>2, <2>3, WaitKeepsInv, SendKeepsInv
<1>2. ASSUME NEW rug \in Rugs \cup {100}, Screen(r, rug) PROVE IInv'
  <2> DEFINE c == [call[r] EXCEPT !.rug = rug]
  <2>1. /\ call[r].at = "screening"
        /\ \/ rug > RugMax /\ Reject(r, c)
           \/ rug <= RugMax /\ Send(r, c)
    BY <1>2 DEF Screen
  <2>2. c \in Call /\ c.order \in Orders /\ c.answer = "none" /\ c.rug = rug
    BY <1>0, <2>1, NumbersAssumption DEF Call, Fits
  <2>3. rug <= RugMax => Sendable(r, c)
    BY <1>0, <2>1, <2>2 DEF Sendable
  <2> HIDE DEF c
  <2> QED  BY <1>0, <2>1, <2>2, <2>3, RefusalKeepsInv, SendKeepsInv
<1>3. call[r].at = "sending" => Sendable(r, call[r]) /\ Calm(call[r].order)
  BY <1>0 DEF Fits, Sendable
<1>4. CASE Answered(r)
  BY <1>0, <1>3, <1>4, OpenKeepsInv, RefusalKeepsInv DEF Answered, Sendable
<1>5. CASE Unanswered(r)
  <2>1. CASE mode = "guard" /\ Fail(r, call[r])
    BY <1>0, <1>5, <2>1, RefusalKeepsInv DEF Unanswered
  <2>2. CASE /\ mode = "jito" /\ call[r].nested < Depth
             /\ Wait(r, [call[r] EXCEPT !.nested = @ + 1], "sending")
    <3> DEFINE c == [call[r] EXCEPT !.nested = @ + 1]
    <3>1. /\ c \in Call /\ c.order = call[r].order /\ c.answer = "none"
          /\ c.rug = call[r].rug
      BY <1>0, <1>5, <2>2, NumbersAssumption DEF Call, Unanswered
    <3> HIDE DEF c
    <3>2. Wait(r, c, "sending")
      BY <2>2 DEF c
    <3> QED  BY <1>0, <1>3, <1>5, <3>1, <3>2, WaitKeepsInv DEF Unanswered, Sendable
  <2>3. CASE /\ mode = "jito" /\ call[r].nested >= Depth
             /\ Answer(r, call[r], "error")
             /\ UNCHANGED <<mode, pos, closed, submitted, succeeded>>
    BY <1>0, <1>5, <2>3, RefusalKeepsInv DEF Unanswered
  <2> QED  BY <1>5, <2>1, <2>2, <2>3 DEF Unanswered
<1> QED  BY <1>1, <1>2, <1>4, <1>5

\* Positions that change without opening: some of the held ones are closed,
\* and the log has them.
LEMMA LifeGoesOn ==
  ASSUME IInv, NEW new, new \subseteq Held,
         UNCHANGED <<mode, call, submitted, succeeded>>,
         pos' \in [Requests -> Pos],
         \A p \in Requests :
           /\ Tells(pos'[p])
           /\ pos'[p].mint = pos[p].mint /\ pos'[p].entry = pos[p].entry
           /\ pos'[p].status = "none" <=> pos[p].status = "none"
           /\ pos'[p].status = "EXITED" <=> pos[p].status = "EXITED" \/ p \in new,
         \E order \in Seq(new) : /\ Len(order) = Cardinality(new)
                                 /\ IsInjective(order) /\ ToSet(order) \subseteq new
                                 /\ Closing(order)
  PROVE  IInv'
<1>1. Shapes'
  BY DEF IInv, Shapes, Fits
<1>2. /\ Opened' = Opened /\ Gone' = Gone \cup new
      /\ Told({"EXECUTED", "BUNDLE_FAILED"})' = Told({"EXECUTED", "BUNDLE_FAILED"})
  BY DEF Opened, Gone, Told, Held
<1>3. Logged(closed', Gone')
  <2>1. PICK order \in Seq(new) : /\ Len(order) = Cardinality(new)
                                  /\ IsInjective(order) /\ ToSet(order) \subseteq new
                                  /\ Closing(order)
    OBVIOUS
  <2>2. Gone \subseteq Requests /\ new \subseteq Requests /\ Gone \cap new = {}
    BY DEF Gone, Held
  <2>3. Logged(closed, Gone)
    BY DEF IInv, Counts
  <2>4. Logged(LastOf(closed \o order, ClosedCap), Gone \cup new)
    BY <2>1, <2>2, <2>3, LogFact
  <2> QED  BY <1>2, <2>1, <2>4 DEF Closing
<1> QED  BY <1>1, <1>2, <1>3 DEF IInv, Counts

LEMMA NoneCloses ==
  ASSUME IInv, UNCHANGED <<mode, call, submitted, succeeded, closed>>,
         pos' \in [Requests -> Pos],
         \A p \in Requests :
           /\ Tells(pos'[p])
           /\ pos'[p].mint = pos[p].mint /\ pos'[p].entry = pos[p].entry
           /\ pos'[p].status = "none" <=> pos[p].status = "none"
           /\ pos'[p].status = "EXITED" <=> pos[p].status = "EXITED"
  PROVE  IInv'
<1>1. Shapes'
  BY DEF IInv, Shapes, Fits
<1>2. /\ Opened' = Opened /\ Gone' = Gone
      /\ Told({"EXECUTED", "BUNDLE_FAILED"})' = Told({"EXECUTED", "BUNDLE_FAILED"})
  BY DEF Opened, Gone, Told
<1> QED  BY <1>1, <1>2 DEF IInv, Counts

\* A price leaves a position a position.
LEMMA RecordType ==
  ASSUME NEW q \in Pos, NEW price \in Nat
  PROVE  Moved(q, price) \in Pos
<1>1. TrailMult * q.atr \in Int /\ q.stop \in Int
  BY NumbersAssumption DEF Pos
<1>2. Higher(q.stop, price - TrailMult * q.atr) \in Int
  BY <1>1 DEF Higher
<1>3. ASSUME NEW stop \in Int
      PROVE  [q EXCEPT !.high = price, !.status = "TRAILING", !.stop = stop] \in Pos
  BY DEF Pos
<1> QED  BY <1>2, <1>3 DEF Moved

LEMMA UpdateKeepsInv ==
  ASSUME IInv, NEW p \in Requests, NEW price \in Prices, Update(p, price),
         NEW q, q = Fed(pos[p], price),
         NEW m, m = Moved(q, price)
  PROVE  IInv'
<1> USE NumbersAssumption
<1> DEFINE k == TrailMult * pos[p].atr
<1>0. pos[p] \in Pos /\ Tells(pos[p]) /\ p \in Held /\ pos[p].status \in {"OPEN", "TRAILING"}
  BY DEF IInv, Shapes, Update, Held
<1>1. /\ q \in Pos /\ q.best = Higher(pos[p].best, price)
      /\ q.status = pos[p].status /\ q.mint = pos[p].mint /\ q.entry = pos[p].entry
      /\ q.atr = pos[p].atr /\ q.high = pos[p].high /\ q.stop = pos[p].stop
      /\ q.age = pos[p].age /\ q.reason = pos[p].reason
  <2> DEFINE best == Higher(pos[p].best, price)
             due == price <= Moved(pos[p], price).stop \/ pos[p].age >= AutoExit
  <2>1. best \in Nat /\ due \in BOOLEAN
    BY <1>0 DEF Pos, Higher
  <2>2. q = [pos[p] EXCEPT !.best = best, !.due = due]
    BY DEF Fed
  <2> HIDE DEF best, due
  <2>3. /\ q \in Pos /\ q.best = best
        /\ q.status = pos[p].status /\ q.mint = pos[p].mint /\ q.entry = pos[p].entry
        /\ q.atr = pos[p].atr /\ q.high = pos[p].high /\ q.stop = pos[p].stop
        /\ q.age = pos[p].age /\ q.reason = pos[p].reason
    BY <1>0, <2>1, <2>2 DEF Pos
  <2> QED  BY <2>3 DEF best
<1>3. /\ pos[p].entry \in Nat /\ pos[p].atr \in Nat \ {0} /\ pos[p].high \in Nat
      /\ pos[p].stop \in Int /\ pos[p].best \in Nat /\ pos[p].age \in Nat
      /\ price \in Nat
  BY <1>0 DEF Pos
<1>2. /\ m \in Pos /\ m.best = q.best /\ m.mint = q.mint /\ m.entry = q.entry
      /\ m.atr = q.atr /\ m.age = q.age /\ m.reason = q.reason
      /\ price > q.high =>
           /\ m.high = price /\ m.status = "TRAILING"
           /\ m.stop = Higher(q.stop, price - k)
      /\ price <= q.high => m.high = q.high /\ m.status = q.status /\ m.stop = q.stop
  <2>1. CASE price > q.high
    <3>1. m = [q EXCEPT !.high = price, !.status = "TRAILING",
                        !.stop = Higher(q.stop, price - k)]
      BY <1>1, <2>1 DEF Moved
    <3>2. k \in Int
      BY <1>3
    <3>3. Higher(q.stop, price - k) \in Int
      BY <1>1, <1>3, <3>2 DEF Higher
    <3> HIDE DEF k
    <3>4. m \in Pos
      BY <1>1, <1>3, RecordType
    <3>5. /\ m.best = q.best /\ m.mint = q.mint /\ m.entry = q.entry
          /\ m.atr = q.atr /\ m.age = q.age /\ m.reason = q.reason
          /\ m.high = price /\ m.status = "TRAILING"
          /\ m.stop = Higher(q.stop, price - k)
      BY <1>1, <3>1 DEF Pos
    <3>6. ~(price <= q.high)
      BY <1>1, <1>3, <2>1
    <3> QED  BY <3>4, <3>5, <3>6
  <2>2. CASE price <= q.high
    <3>1. m = q
      BY <1>1, <1>3, <2>2 DEF Moved
    <3>2. ~(price > q.high)
      BY <1>1, <1>3, <2>2
    <3> HIDE DEF k
    <3> QED  BY <1>1, <3>1, <3>2
  <2> QED  BY <1>1, <1>3, <2>1, <2>2
<1>4. /\ pos[p].reason = "none"
      /\ pos[p].status = "OPEN" =>
           /\ pos[p].best = pos[p].entry /\ pos[p].high = pos[p].entry
           /\ pos[p].stop = pos[p].entry - k
      /\ pos[p].status = "TRAILING" =>
           /\ pos[p].best > pos[p].entry
           /\ pos[p].stop = pos[p].high - k
  BY <1>0 DEF Tells, Pos
<1>10. k \in Nat \ {0} /\ TrailMult * m.atr = k /\ TrailMult * q.atr = k
  BY <1>1, <1>2, <1>3
<1> HIDE DEF k
<1>11. ASSUME NEW e \in Pos, Tells(e), pos' = [pos EXCEPT ![p] = e],
             e.status \in {"OPEN", "TRAILING"}, e.mint = pos[p].mint,
             e.entry = pos[p].entry, UNCHANGED closed
      PROVE  IInv'
  <2>1. UNCHANGED <<mode, call, submitted, succeeded>>
    BY DEF Update
  <2>2. pos' \in [Requests -> Pos]
    BY <1>11 DEF IInv, Shapes
  <2>3. \A r \in Requests :
          /\ Tells(pos'[r])
          /\ pos'[r].mint = pos[r].mint /\ pos'[r].entry = pos[r].entry
          /\ pos'[r].status = "none" <=> pos[r].status = "none"
          /\ pos'[r].status = "EXITED" <=> pos[r].status = "EXITED"
    BY <1>0, <1>11 DEF IInv, Shapes
  <2> QED  BY <1>11, <2>1, <2>2, <2>3, NoneCloses
<1>5. CASE ~Followed(q)
  <2>1. pos' = [pos EXCEPT ![p] = q] /\ UNCHANGED <<closed, mode, call, submitted, succeeded>>
    BY <1>5 DEF Update
  <2>2. q.status = "TRAILING"
    BY <1>0, <1>1, <1>5 DEF Followed
  <2>3. Tells(q)
    BY <1>1, <1>3, <1>4, <1>10, <2>2 DEF Tells, Higher
  <2> QED  BY <1>1, <1>11, <2>1, <2>2, <2>3
<1>6. ASSUME Followed(q) PROVE pos[p].status = "OPEN" /\ q.status = "OPEN"
  BY <1>1, <1>6 DEF Followed
<1>7. ASSUME Followed(q), NEW reason \in {"trail_stop", "auto_exit_timeout"},
             pos' = [pos EXCEPT ![p] = Exited(m, price, reason)], Closing(<<p>>),
             reason = "trail_stop" => price <= m.stop,
             reason = "auto_exit_timeout" => price > m.stop /\ q.age >= AutoExit
      PROVE  IInv'
  <2> DEFINE e == Exited(m, price, reason)
  <2>1. /\ e \in Pos /\ e.status = "EXITED" /\ e.reason = reason /\ e.exit = price
        /\ e.best = m.best /\ e.entry = m.entry /\ e.atr = m.atr /\ e.mint = m.mint
        /\ e.age = m.age
    BY <1>2, <1>3, <1>7 DEF Exited, Pos
  <2>2. reason = "trail_stop" =>
          price <= m.best - TrailMult * m.atr
    <3>1. CASE price > q.high
      <4>1. m.stop < price
        BY <1>1, <1>2, <1>3, <1>4, <1>6, <1>7, <1>10, <3>1 DEF Higher
      <4> QED  BY <1>2, <1>3, <1>7, <4>1 DEF Pos
    <3>2. CASE price <= q.high
      BY <1>1, <1>2, <1>3, <1>4, <1>6, <1>7, <1>10, <3>2 DEF Higher
    <3> QED  BY <1>1, <1>3, <3>1, <3>2
  <2>3. reason = "auto_exit_timeout" =>
          m.age >= AutoExit /\ price > m.best - TrailMult * m.atr
    <3>1. CASE price > q.high
      BY <1>1, <1>2, <1>3, <1>4, <1>6, <1>7, <1>10, <3>1 DEF Higher
    <3>2. CASE price <= q.high
      BY <1>1, <1>2, <1>3, <1>4, <1>6, <1>7, <1>10, <3>2 DEF Higher
    <3> QED  BY <1>1, <1>3, <3>1, <3>2
  <2>4. Tells(e)
    BY <1>7, <2>1, <2>2, <2>3 DEF Tells
  <2>5. UNCHANGED <<mode, call, submitted, succeeded>> /\ pos' = [pos EXCEPT ![p] = e]
    BY <1>7 DEF Update
  <2> HIDE DEF e
  <2>6. /\ <<p>> \in Seq({p}) /\ Len(<<p>>) = Cardinality({p}) /\ IsInjective(<<p>>)
        /\ ToSet(<<p>>) \subseteq {p}
    BY FS_Singleton DEF IsInjective, ToSet
  <2>7. {p} \subseteq Held
    BY <1>0
  <2>8. pos' \in [Requests -> Pos]
    BY <2>1, <2>5 DEF IInv, Shapes
  <2>9. \A r \in Requests :
          /\ Tells(pos'[r])
          /\ pos'[r].mint = pos[r].mint /\ pos'[r].entry = pos[r].entry
          /\ pos'[r].status = "none" <=> pos[r].status = "none"
          /\ pos'[r].status = "EXITED" <=> pos[r].status = "EXITED" \/ r \in {p}
    BY <1>0, <1>1, <1>2, <2>1, <2>4, <2>5 DEF IInv, Shapes
  <2>10. \E order \in Seq({p}) : /\ Len(order) = Cardinality({p}) /\ IsInjective(order)
                                 /\ ToSet(order) \subseteq {p} /\ Closing(order)
    BY <1>7, <2>6
  <2> QED  BY <2>5, <2>7, <2>8, <2>9, <2>10, LifeGoesOn
<1>8. CASE /\ Followed(q) /\ price > m.stop /\ q.age < AutoExit
           /\ pos' = [pos EXCEPT ![p] = m] /\ UNCHANGED closed
  <2>2. Tells(m) /\ m.status \in {"OPEN", "TRAILING"}
    <3>1. CASE price > q.high
      BY <1>1, <1>2, <1>3, <1>4, <1>6, <1>8, <1>10, <3>1 DEF Tells, Higher
    <3>2. CASE price <= q.high
      <4>1. pos[p].status = "OPEN" /\ q.status = "OPEN"
        BY <1>6, <1>8
      <4>2. m.status = "OPEN" /\ m.high = q.high /\ m.stop = q.stop /\ m.reason = "none"
        BY <1>1, <1>2, <1>4, <3>2, <4>1
      <4>3. m.best = m.entry /\ m.high = m.entry /\ m.stop = m.entry - TrailMult * m.atr
        BY <1>1, <1>2, <1>3, <1>4, <1>10, <3>2, <4>1, <4>2 DEF Higher
      <4> QED  BY <4>2, <4>3 DEF Tells
    <3> QED  BY <1>1, <1>3, <3>1, <3>2
  <2> QED  BY <1>1, <1>2, <1>8, <1>11, <2>2
<1> QED
  BY <1>5, <1>7, <1>8 DEF Update

LEMMA EmergencyKeepsInv ==
  ASSUME IInv, NEW mint, EmergencyExit(mint)
  PROVE  IInv'
<1> USE NumbersAssumption
<1> DEFINE gone == OfMint(mint)
<1>1. gone \subseteq Held /\ gone \subseteq Requests
  BY DEF OfMint, Held
<1>2. PICK order \in SetToSeqs(gone) : Closing(order)
  BY DEF EmergencyExit
<1>3. /\ pos' = [p \in Requests |->
                   IF p \in gone THEN Exited(pos[p], 0, "emergency_exit")
                   ELSE pos[p]]
      /\ UNCHANGED <<mode, call, submitted, succeeded>>
  BY DEF EmergencyExit
<1>4. ASSUME NEW p \in Requests
      PROVE  /\ pos'[p] \in Pos /\ Tells(pos'[p])
             /\ pos'[p].mint = pos[p].mint /\ pos'[p].entry = pos[p].entry
             /\ pos'[p].status = "none" <=> pos[p].status = "none"
             /\ pos'[p].status = "EXITED" <=> pos[p].status = "EXITED" \/ p \in gone
  <2>1. pos[p] \in Pos /\ Tells(pos[p])
    BY DEF IInv, Shapes
  <2>2. CASE p \in gone
    <3>1. pos'[p] = Exited(pos[p], 0, "emergency_exit") /\ p \in Held
      BY <1>1, <1>3, <2>2
    <3> DEFINE e == Exited(pos[p], 0, "emergency_exit")
    <3>2. /\ e \in Pos /\ e.status = "EXITED" /\ e.reason = "emergency_exit" /\ e.exit = 0
          /\ e.mint = pos[p].mint /\ e.entry = pos[p].entry
      BY <2>1 DEF Exited, Pos
    <3>3. Tells(e)
      BY <3>2 DEF Tells
    <3>4. pos[p].status \in {"OPEN", "TRAILING"}
      BY <3>1 DEF Held
    <3> HIDE DEF e
    <3>5. pos'[p] = e
      BY <3>1 DEF e
    <3> QED  BY <2>2, <3>2, <3>3, <3>4, <3>5
  <2>3. CASE p \notin gone
    BY <1>3, <2>1, <2>3
  <2> QED  BY <2>2, <2>3
<1>5. pos' \in [Requests -> Pos]
  BY <1>3, <1>4
<1>6. /\ order \in Seq(gone) /\ Len(order) = Cardinality(gone) /\ IsInjective(order)
      /\ ToSet(order) \subseteq gone
  <2>1. IsFiniteSet(gone)
    BY <1>1, RequestsAssumption, FS_Subset
  <2>2. Cardinality(gone) \in Nat
    BY <2>1, FS_CardinalityType
  <2> QED  BY <2>2 DEF SetToSeqs, IsInjective, ToSet
<1> HIDE DEF gone
<1>7. \E o \in Seq(gone) : /\ Len(o) = Cardinality(gone) /\ IsInjective(o)
                           /\ ToSet(o) \subseteq gone /\ Closing(o)
  BY <1>2, <1>6
<1>8. \A p \in Requests :
        /\ Tells(pos'[p])
        /\ pos'[p].mint = pos[p].mint /\ pos'[p].entry = pos[p].entry
        /\ pos'[p].status = "none" <=> pos[p].status = "none"
        /\ pos'[p].status = "EXITED" <=> pos[p].status = "EXITED" \/ p \in gone
  BY <1>4
<1>9. UNCHANGED <<mode, call, submitted, succeeded>> /\ gone \subseteq Held
  BY <1>1, <1>3
<1> QED  BY <1>5, <1>7, <1>8, <1>9, LifeGoesOn

LEMMA ClockKeepsInv ==
  ASSUME IInv, Clock
  PROVE  IInv'
<1> USE NumbersAssumption
<1>1. ASSUME NEW p \in Requests
      PROVE  /\ pos'[p] \in Pos /\ Tells(pos'[p])
             /\ pos'[p].mint = pos[p].mint /\ pos'[p].entry = pos[p].entry
             /\ pos'[p].status = pos[p].status
  <2>1. pos[p] \in Pos /\ Tells(pos[p])
    BY DEF IInv, Shapes
  <2>2. CASE p \in Held
    <3>1. pos'[p] = [pos[p] EXCEPT !.age = Lower(pos[p].age + 1, AutoExit)]
      BY <2>2 DEF Clock
    <3>2. Lower(pos[p].age + 1, AutoExit) \in 0 .. AutoExit
      BY <2>1 DEF Lower, Pos
    <3>3. pos'[p] \in Pos /\ pos[p].status # "EXITED"
      BY <2>1, <2>2, <3>1, <3>2 DEF Pos, Held
    <3>4. Tells(pos'[p])
      BY <2>1, <3>1, <3>3 DEF Tells, Pos
    <3> QED  BY <2>1, <3>1, <3>3, <3>4 DEF Pos
  <2>3. CASE p \notin Held
    BY <2>1, <2>3 DEF Clock
  <2> QED  BY <2>2, <2>3
<1>2. pos' \in [Requests -> Pos]
  BY <1>1 DEF Clock
<1>3. UNCHANGED <<mode, call, submitted, succeeded, closed>>
  BY DEF Clock
<1> QED  BY <1>1, <1>2, <1>3, NoneCloses

-----------------------------------------------------------------------------
\* The invariant holds for ever.
THEOREM Invariance == Spec => []IInv
<1>1. ASSUME IInv, [Next]_vars PROVE IInv'
  <2>1. ASSUME NEW r \in Requests,
               \/ \E o \in Orders : Receive(r, o)
               \/ \E rug \in Rugs \cup {100} : Screen(r, rug)
               \/ Answered(r)
               \/ Unanswered(r)
        PROVE  IInv'
    BY <1>1, <2>1, RequestKeepsInv
  <2>2. ASSUME NEW p \in Requests, NEW price \in Prices, Update(p, price) PROVE IInv'
    BY <1>1, <2>2, UpdateKeepsInv
  <2>3. ASSUME NEW mint \in Mints, EmergencyExit(mint) PROVE IInv'
    BY <1>1, <2>3, EmergencyKeepsInv
  <2>4. CASE Clock
    BY <1>1, <2>4, ClockKeepsInv
  <2>5. CASE UNCHANGED vars
    BY <1>1, <2>5 DEF vars, IInv, Shapes, Counts, Opened, Told, Gone
  <2> QED  BY <1>1, <2>1, <2>2, <2>3, <2>4, <2>5 DEF Next
<1> QED  BY InitInv, <1>1, PTL DEF Spec

\* Every variable has its type.
THEOREM TypeCorrect == Spec => []TypeOK
<1>1. IInv => TypeOK
  BY DEF IInv, Shapes, Counts, Logged, TypeOK, Call, Pos
<1> QED  BY Invariance, <1>1, PTL

\* The answers, the counters, the positions and the log of exits agree.
THEOREM BooksAgree == Spec => []Accounted
<1>1. IInv => Accounted
  <2> SUFFICES ASSUME IInv PROVE Accounted
    OBVIOUS
  <2>1. Opened = Told({"EXECUTED"})
    BY DEF IInv, Shapes, Fits, Opened, Told
  <2>2. \A p \in Opened :
          /\ pos[p].mint = call[p].order.mint /\ pos[p].entry = call[p].order.entry
          /\ call[p].rug <= RugMax /\ Calm(call[p].order)
    BY DEF IInv, Shapes, Fits, Opened
  <2>3. {p \in Opened : pos[p].status = "EXITED"} = Gone
    BY DEF Opened, Gone
  <2> QED  BY <2>1, <2>2, <2>3 DEF IInv, Counts, Logged, Accounted
<1> QED  BY Invariance, <1>1, PTL

\* Every exit is where its reason says: the trailing stop at its distance from
\* the best price ever fed, the time exit above that.
THEOREM ExitsExplained == Spec => []ExitsTellHistory
<1>1. IInv => ExitsTellHistory
  BY DEF IInv, Shapes, Tells, Opened, ExitsTellHistory
<1> QED  BY Invariance, <1>1, PTL
=============================================================================

--------------------------- MODULE JobQueue_proofs ---------------------------
(***************************************************************************)
(* Proofs about JobQueue, for any jobs, callers, delays and bounds: its    *)
(* types, that no job a caller was told of is forgotten, that an           *)
(* idempotency key buys one run, and that a status tells where its job is. *)
(***************************************************************************)
EXTENDS JobQueue, FiniteSetTheorems, SequenceTheorems, TLAPS

(***************************************************************************)
(* A call in flight: only the worker takes and settles, and the last thing *)
(* it does to what it settles is to acknowledge it.                        *)
(***************************************************************************)
Fits(p, r) ==
  /\ r \in [kind : Kind, job : Jobs \cup {"none"}, todo : Seq(Command)]
  /\ r.kind # "idle" => r.job \in Jobs
  /\ r.kind = "idle" => r.todo = <<>> /\ r.job = "none"
  /\ r.kind \notin {"idle", "take"} => r.todo # <<>>
  /\ r.kind # "idle" => (r.kind \in {"take", "settle"} <=> p = "worker")
  /\ \A i \in 1 .. Len(r.todo) :
       r.todo[i].op = "xack" <=> r.kind = "settle" /\ i = Len(r.todo)

Store ==
  /\ hash \in [Jobs -> Hash]
  /\ unread \in [Jobs -> Nat] /\ pending \in [Jobs -> Nat]
  /\ DOMAIN delayed \subseteq Jobs /\ delayed \in [DOMAIN delayed -> Nat]
  /\ dead \subseteq Jobs

Rest ==
  /\ now \in Nat /\ budget \in [calls : Nat, faults : Nat]
  /\ told \subseteq Jobs /\ ended \subseteq Jobs /\ marks \in [Jobs -> SUBSET Mark]

CallsFit == call = [p \in Processes |-> call[p]] /\ \A p \in Processes : Fits(p, call[p])

\* What the worker is at is pending.
WorkerHolds ==
  call["worker"].kind # "idle" => pending[call["worker"].job] > 0

(***************************************************************************)
(* Where a job is safe without its pending entry, and with it.             *)
(***************************************************************************)
Elsewhere(j) ==
  \/ unread[j] > 0 \/ j \in DOMAIN delayed \/ j \in OnlyHere("scheduler")
  \/ j \in ended \/ "dropped" \in marks[j]

Safe(j) == Elsewhere(j) \/ pending[j] > 0

\* A worker past the first command of its settlement has given the job away.
GivenAway ==
  call["worker"].kind = "settle" =>
    \/ Head(call["worker"].todo).op \in {"zadd", "dlq"}
    \/ Head(call["worker"].todo).status = "DONE"
    \/ Elsewhere(call["worker"].job)

\* A caller past its xadd has added the entry, and so has a scheduler.
Sent ==
  \A p \in Processes \ {"worker"} :
    call[p].kind # "idle" /\ Head(call[p].todo).op \notin {"xadd", "zadd"}
      => Safe(call[p].job)

KnownSafe == \A j \in Jobs : hash[j] # Missing \/ j \in told => Safe(j)

IInv ==
  /\ Store /\ Rest /\ CallsFit /\ WorkerHolds
  /\ GivenAway /\ Sent /\ KnownSafe

-----------------------------------------------------------------------------
(***************************************************************************)
(* The lists of commands.                                                  *)
(***************************************************************************)

\* Every command the module writes is one.
LEMMA CommandsTyped ==
  /\ XAdd \in Command /\ HNew \in Command /\ Expire \in Command /\ XAck \in Command
  /\ Plain("hincr") \in Command /\ Plain("dlq") \in Command
  /\ \A s \in Status : HSet(s) \in Command
  /\ \A d \in Nat : ZAdd(d) \in Command
  BY DEF XAdd, HNew, Expire, XAck, HSet, ZAdd, Plain, Command, Status

\* What a request still has to do when it begins is an xadd and then more, with
\* nothing to acknowledge.
LEMMA RequestsFit ==
  /\ \A p \in Processes \ {"worker"}, j \in Jobs :
       Fits(p, [kind |-> "enqueue", job |-> j, todo |-> Enqueuing])
  /\ \A p \in Processes \ {"worker"}, j \in Jobs, k \in {"retry", "pop"} :
       Fits(p, [kind |-> k, job |-> j, todo |-> Requeuing])
  /\ Head(Enqueuing).op = "xadd" /\ Head(Requeuing).op = "xadd"
<1>1. Enqueuing \in Seq(Command) /\ Requeuing \in Seq(Command)
  BY CommandsTyped DEF Enqueuing, Requeuing, Status
<1>2. Head(Enqueuing).op = "xadd" /\ Head(Requeuing).op = "xadd"
  BY DEF Enqueuing, Requeuing, XAdd, Plain
<1>3. \A i \in 1 .. Len(Enqueuing) : Enqueuing[i].op # "xack"
  BY DEF Enqueuing, XAdd, HNew, HSet, Expire, Plain
<1>4. \A i \in 1 .. Len(Requeuing) : Requeuing[i].op # "xack"
  BY DEF Requeuing, XAdd, HSet, Expire, Plain
<1>5. Enqueuing # <<>> /\ Requeuing # <<>>
  BY DEF Enqueuing, Requeuing
<1>6. ASSUME NEW p \in Processes \ {"worker"}, NEW j \in Jobs
      PROVE  Fits(p, [kind |-> "enqueue", job |-> j, todo |-> Enqueuing])
  BY <1>1, <1>3, <1>5 DEF Fits, Kind
<1>7. ASSUME NEW p \in Processes \ {"worker"}, NEW j \in Jobs, NEW k \in {"retry", "pop"}
      PROVE  Fits(p, [kind |-> k, job |-> j, todo |-> Requeuing])
  BY <1>1, <1>4, <1>5 DEF Fits, Kind
<1> QED  BY <1>2, <1>6, <1>7

\* What is popped early is put back with its due time.
LEMMA PutBackFits ==
  ASSUME NEW d \in Nat, NEW j \in Jobs
  PROVE  /\ Fits("scheduler", [kind |-> "pop", job |-> j, todo |-> <<ZAdd(d)>>])
         /\ Head(<<ZAdd(d)>>).op = "zadd"
<1>1. ZAdd(d) \in Command /\ ZAdd(d).op = "zadd"
  BY CommandsTyped DEF ZAdd, Plain
<1>2. <<ZAdd(d)>> \in Seq(Command) /\ <<ZAdd(d)>> # <<>> /\ Len(<<ZAdd(d)>>) = 1
  BY <1>1
<1> QED  BY <1>1, <1>2 DEF Fits, Kind

\* The three settlements end with the acknowledgement, and the first command of
\* each gives the job away.
LEMMA SettlementsFit ==
  ASSUME NEW d \in Nat, NEW j \in Jobs,
         NEW s \in {Finishing, Retrying(d), Burying}
  PROVE  /\ Fits("worker", [kind |-> "settle", job |-> j, todo |-> s])
         /\ Head(s).op \in {"zadd", "dlq"} \/ Head(s).status = "DONE"
<1>1. s \in Seq(Command) /\ s # <<>>
  <2>1. CASE s = Finishing  BY <2>1, CommandsTyped DEF Finishing, Status
  <2>2. CASE s = Retrying(d)  BY <2>2, CommandsTyped DEF Retrying, Status
  <2>3. CASE s = Burying  BY <2>3, CommandsTyped DEF Burying, Status
  <2> QED  BY <2>1, <2>2, <2>3
<1>2. Head(s).op \in {"zadd", "dlq"} \/ Head(s).status = "DONE"
  BY DEF Finishing, Retrying, Burying, HSet, ZAdd, Plain
<1>3. \A i \in 1 .. Len(s) : s[i].op = "xack" <=> i = Len(s)
  <2>1. CASE s = Finishing
    BY <2>1 DEF Finishing, HSet, Expire, XAck, Plain
  <2>2. CASE s = Retrying(d)
    BY <2>2 DEF Retrying, HSet, ZAdd, Expire, XAck, Plain
  <2>3. CASE s = Burying
    BY <2>3 DEF Burying, HSet, Expire, XAck, Plain
  <2> QED  BY <2>1, <2>2, <2>3
<1> QED  BY <1>1, <1>2, <1>3 DEF Fits, Kind

\* The delivered entry is first counted as an attempt.
LEMMA TakingFits ==
  ASSUME NEW j \in Jobs
  PROVE  Fits("worker", [kind |-> "take", job |-> j, todo |-> <<Plain("hincr"), Expire>>])
<1> DEFINE s == <<Plain("hincr"), Expire>>
<1>1. s \in Seq(Command)
  BY CommandsTyped
<1>2. \A i \in 1 .. Len(s) : s[i].op # "xack"
  BY DEF Expire, Plain
<1> QED  BY <1>1, <1>2 DEF Fits, Kind

LEMMA IdleFits == \A p \in Processes : Fits(p, NoCall)
  BY DEF Fits, NoCall, Kind

\* The rest of a list fits where the list did.
LEMMA RestFits ==
  ASSUME NEW p \in Processes, NEW r, Fits(p, r), r.todo # <<>>,
         Tail(r.todo) # <<>> \/ r.kind = "take"
  PROVE  Fits(p, [r EXCEPT !.todo = Tail(r.todo)])
<1> DEFINE t == Tail(r.todo)
<1>1. r.todo \in Seq(Command) /\ t \in Seq(Command) /\ Len(t) = Len(r.todo) - 1
      /\ \A i \in 1 .. Len(t) : t[i] = r.todo[i + 1] /\ i + 1 \in 1 .. Len(r.todo)
  BY DEF Fits
<1>2. \A i \in 1 .. Len(t) : t[i].op = "xack" <=> r.kind = "settle" /\ i = Len(t)
  BY <1>1 DEF Fits
<1>3. r.kind # "idle"
  BY DEF Fits
<1> QED  BY <1>1, <1>2, <1>3 DEF Fits, Kind

-----------------------------------------------------------------------------
(***************************************************************************)
(* The steps.                                                              *)
(***************************************************************************)

LEMMA InitInv == Init => IInv
<1> SUFFICES ASSUME Init PROVE IInv
  OBVIOUS
<1>1. Store /\ Rest
  BY QueueAssumption DEF Init, Store, Rest, Missing, Hash, Status
<1>2. CallsFit
  BY IdleFits DEF Init, CallsFit
<1>3. \A p \in Processes : call[p].kind = "idle"
  BY DEF Init, NoCall
<1>4. WorkerHolds /\ GivenAway /\ Sent /\ KnownSafe
  BY <1>3 DEF WorkerHolds, GivenAway, Sent, KnownSafe, Init, Processes
<1> QED  BY <1>1, <1>2, <1>4 DEF IInv

\* Callers are neither of the two external processes.
LEMMA CallersApart ==
  /\ Callers \subseteq Processes \ {"worker", "scheduler"}
  /\ "worker" \in Processes /\ "scheduler" \in Processes \ {"worker"}
  BY QueueAssumption DEF Processes

\* A request that begins disturbs nothing.
LEMMA BeginKeepsInv ==
  ASSUME IInv, NEW p \in Callers, NEW j \in Jobs, NEW k \in Kind, NEW todo,
         Fits(p, [kind |-> k, job |-> j, todo |-> todo]), k # "idle",
         Head(todo).op = "xadd",
         Begin(p, k, j, todo), NEW why \in SUBSET Mark, Marked(j, why), Asked,
         UNCHANGED <<store, now, told, ended>>
  PROVE  IInv'
<1> USE CallersApart DEF IInv, Begin, Marked, store
<1>1. Store'  BY DEF Store
<1>2. Rest'  BY DEF Rest, Asked
<1>3. \A q \in Processes : q # p => call'[q] = call[q]
  BY DEF CallsFit
<1>4. call'[p] = [kind |-> k, job |-> j, todo |-> todo]
  BY DEF CallsFit
<1>5. CallsFit'  BY <1>3, <1>4 DEF CallsFit, Fits
<1>6. call'["worker"] = call["worker"] /\ call'["scheduler"] = call["scheduler"]
  BY <1>3
<1>7. \A i \in Jobs : "dropped" \in marks[i] => "dropped" \in marks'[i]
  BY DEF Rest
<1>8. \A i \in Jobs : Elsewhere(i) => Elsewhere(i)'
  BY <1>6, <1>7 DEF Elsewhere, OnlyHere
<1>9. \A i \in Jobs : Safe(i) => Safe(i)'
  BY <1>8 DEF Safe
<1>10. WorkerHolds'  BY <1>6 DEF WorkerHolds
<1>11. GivenAway'  BY <1>6, <1>8 DEF GivenAway, CallsFit, Fits
<1>12. Sent'
  BY <1>3, <1>4, <1>9 DEF Sent, CallsFit, Fits
<1>13. KnownSafe'  BY <1>9 DEF KnownSafe
<1> QED  BY <1>1, <1>2, <1>5, <1>10, <1>11, <1>12, <1>13

LEMMA EnqueueKeepsInv ==
  ASSUME IInv, NEW p \in Callers, NEW j \in Jobs, Enqueue(p, j)
  PROVE  IInv'
<1>1. CASE Known(j) /\ told' = told \cup {j} /\ UNCHANGED <<call, marks>>
  <2> USE <1>1 DEF IInv, Enqueue, store
  <2>1. Store' /\ Rest' /\ CallsFit' /\ WorkerHolds'
    BY DEF Store, Rest, CallsFit, WorkerHolds, Asked
  <2>2. \A i \in Jobs : (Elsewhere(i) <=> Elsewhere(i)') /\ (Safe(i) <=> Safe(i)')
    BY DEF Elsewhere, Safe, OnlyHere
  <2>3. GivenAway' /\ Sent'
    BY <2>2, CallersApart DEF GivenAway, Sent, CallsFit, Fits
  <2>4. KnownSafe'
    BY <2>2 DEF KnownSafe, Known, Missing
  <2> QED  BY <2>1, <2>3, <2>4
<1>2. CASE /\ Begin(p, "enqueue", j, Enqueuing)
           /\ Marked(j, When(\E q \in About(j) : call[q].kind = "enqueue", "overlap"))
           /\ UNCHANGED told
  <2>1. When(\E q \in About(j) : call[q].kind = "enqueue", "overlap") \in SUBSET Mark
    BY DEF When, Mark
  <2> QED
    BY <1>2, <2>1, BeginKeepsInv, RequestsFit, CallersApart DEF Enqueue, Kind
<1> QED  BY <1>1, <1>2 DEF Enqueue

LEMMA RetryKeepsInv ==
  ASSUME IInv, NEW p \in Callers, NEW j \in Jobs, Retry(p, j)
  PROVE  IInv'
<1>1. {"manual"} \in SUBSET Mark
  BY DEF Mark
<1> QED
  BY <1>1, BeginKeepsInv, RequestsFit, CallersApart DEF Retry, Kind

\* A command written to a hash leaves a hash.
LEMMA WrittenTyped ==
  ASSUME NEW h \in Hash, NEW c \in Command
  PROVE  Written(h, c) \in Hash
<1> USE DEF Hash, Command, Status
<1>1. CASE c.op = "hnew"  BY <1>1 DEF Written
<1>2. CASE c.op = "hset"  BY <1>2 DEF Written
<1>3. CASE c.op = "hincr"  BY <1>3 DEF Written
<1>4. CASE c.op = "expire"  BY <1>4 DEF Written
<1>5. CASE c.op \notin {"hnew", "hset", "hincr", "expire"}
  <2>1. Written(h, c) = h
    BY <1>5 DEF Written
  <2> QED  BY <2>1
<1> QED  BY <1>1, <1>2, <1>3, <1>4, <1>5

LEMMA DoKeepsInv ==
  ASSUME IInv, NEW p \in Processes, Do(p),
         NEW r, NEW j, NEW c, r = call[p], j = r.job, c = Head(r.todo)
  PROVE  IInv'
<1> DEFINE over == Tail(r.todo) = <<>> /\ r.kind # "take"
<1> USE CallersApart DEF IInv
<1>1. /\ r.todo # <<>> /\ Fits(p, r) /\ j \in Jobs /\ c \in Command /\ r.kind # "idle"
      /\ r.todo \in Seq(Command) /\ c = r.todo[1] /\ Len(r.todo) >= 1
  BY DEF Do, CallsFit, Fits
<1>2. c.op = "xack" => p = "worker" /\ r.kind = "settle" /\ Len(r.todo) = 1 /\ over
  <2>1. c.op = "xack" => r.kind = "settle" /\ Len(r.todo) = 1
    <3>1. 1 \in 1 .. Len(r.todo)
      BY <1>1
    <3>2. r.todo[1].op = "xack" <=> r.kind = "settle" /\ 1 = Len(r.todo)
      BY <1>1, <3>1 DEF Fits
    <3> QED  BY <1>1, <3>2
  <2>2. Len(r.todo) = 1 => Tail(r.todo) = <<>>
    <3>1. Len(Tail(r.todo)) = Len(r.todo) - 1 /\ Tail(r.todo) \in Seq(Command)
      BY <1>1
    <3>2. Tail(r.todo) # <<>> => Len(Tail(r.todo)) \in Nat \ {0}
      BY <3>1, EmptySeq
    <3> QED  BY <3>1, <3>2
  <2> QED  BY <1>1, <2>1, <2>2 DEF Fits
<1>3. \A q \in Processes : q # p => call'[q] = call[q]
  BY DEF Do, CallsFit
<1>4. call'[p] = IF over THEN NoCall ELSE [r EXCEPT !.todo = Tail(r.todo)]
  BY DEF Do, CallsFit
<1>5. CallsFit'
  <2>1. Fits(p, call'[p])
    <3>1. CASE over
      BY <3>1, <1>4, IdleFits
    <3>2. CASE ~over
      <4>1. Fits(p, [r EXCEPT !.todo = Tail(r.todo)])
        BY <3>2, <1>1, RestFits
      <4> QED  BY <4>1, <3>2, <1>4
    <3> QED  BY <3>1, <3>2
  <2>2. call' = [q \in Processes |-> call'[q]]
    BY DEF Do, CallsFit
  <2>3. \A q \in Processes : Fits(q, call'[q])
    BY <1>3, <2>1 DEF CallsFit
  <2> QED  BY <2>2, <2>3 DEF CallsFit, Fits
<1>6. r.kind \in {"take", "settle"} => pending[j] > 0
  BY <1>1 DEF WorkerHolds, Fits
<1>7. Store'
  <2>1. hash' \in [Jobs -> Hash]
    BY <1>1, WrittenTyped DEF Do, Store
  <2>2. unread' \in [Jobs -> Nat]
    BY <1>1 DEF Do, Store, Count
  <2>3. pending' \in [Jobs -> Nat]
    BY <1>1, <1>2, <1>6 DEF Do, Store
  <2>4. DOMAIN delayed' \subseteq Jobs /\ delayed' \in [DOMAIN delayed' -> Nat]
    BY <1>1 DEF Do, Store, Scheduled, Command
  <2>5. dead' \subseteq Jobs
    BY <1>1 DEF Do, Store
  <2> QED  BY <2>1, <2>2, <2>3, <2>4, <2>5 DEF Store
<1>8. Rest'
  BY <1>1 DEF Do, Rest
<1>9. \A i \in Jobs : /\ unread'[i] >= unread[i] /\ ended \subseteq ended'
                       /\ DOMAIN delayed \subseteq DOMAIN delayed' /\ marks' = marks
  BY <1>1 DEF Do, Store, Count, Scheduled
<1>10. /\ c.op = "xadd" => unread'[j] > 0
       /\ c.op = "zadd" => j \in DOMAIN delayed'
       /\ c.op = "dlq" \/ c.status = "DONE" => j \in ended'
  BY <1>1 DEF Do, Store, Count, Scheduled
<1>11. \A i \in Jobs : Elsewhere(i) => Elsewhere(i)'
  <2> SUFFICES ASSUME NEW i \in Jobs, Elsewhere(i) PROVE Elsewhere(i)'
    OBVIOUS
  <2>1. CASE i \notin OnlyHere("scheduler") \/ p # "scheduler"
    BY <2>1, <1>3, <1>7, <1>9 DEF Elsewhere, OnlyHere, Store
  <2>2. CASE i \in OnlyHere("scheduler") /\ p = "scheduler"
    BY <2>2, <1>10 DEF Elsewhere, OnlyHere
  <2> QED  BY <2>1, <2>2
<1>0. r.kind = "settle" => Elsewhere(j)'
  <2>1. r.kind = "settle" => p = "worker"
    BY <1>1 DEF Fits
  <2>2. r.kind = "settle" =>
          c.op \in {"zadd", "dlq"} \/ c.status = "DONE" \/ Elsewhere(j)
    BY <2>1 DEF GivenAway
  <2>3. c.op \in {"zadd", "dlq"} \/ c.status = "DONE" => Elsewhere(j)'
    BY <1>10 DEF Elsewhere
  <2> QED  BY <2>2, <2>3, <1>1, <1>11
<1>12. GivenAway'
  <2>1. CASE p = "worker" /\ r.kind = "settle"
    <3>1. ~over => call'[p].job = j
      BY <1>1, <1>4 DEF Fits
    <3>2. over => call'[p].kind = "idle"
      BY <1>4 DEF NoCall
    <3> QED  BY <3>1, <3>2, <2>1, <1>0 DEF GivenAway, Elsewhere, OnlyHere
  <2>2. CASE p = "worker" /\ r.kind # "settle"
    <3>1. call'[p].kind # "settle"
      BY <2>2, <1>1, <1>4 DEF NoCall, Fits
    <3> QED  BY <3>1, <2>2 DEF GivenAway
  <2>3. CASE p # "worker"
    BY <2>3, <1>3, <1>11 DEF GivenAway, CallsFit, Fits
  <2> QED  BY <2>1, <2>2, <2>3
<1>13. pending' = [pending EXCEPT ![j] = IF c.op = "xack" THEN @ - 1 ELSE @]
  BY DEF Do
<1>14. \A i \in Jobs : Safe(i) => Safe(i)'
  <2>1. CASE c.op = "xack"
    <3>1. Elsewhere(j)'
      BY <2>1, <1>0, <1>2
    <3> QED  BY <3>1, <1>1, <1>11, <1>13 DEF Safe, Store
  <2>2. CASE c.op # "xack"
    BY <2>2, <1>1, <1>11, <1>13 DEF Safe, Store
  <2> QED  BY <2>1, <2>2
<1>15. Safe(j)'
  <2>1. CASE c.op \in {"xadd", "zadd"}
    BY <2>1, <1>10 DEF Safe, Elsewhere
  <2>2. CASE c.op \notin {"xadd", "zadd"} /\ p # "worker"
    BY <2>2, <1>1, <1>14 DEF Sent
  <2>3. CASE p = "worker"
    BY <2>3, <1>1, <1>6, <1>14 DEF Safe, Fits
  <2> QED  BY <2>1, <2>2, <2>3
<1>16. WorkerHolds'
  <2>1. CASE p = "worker" /\ over
    BY <2>1, <1>4 DEF WorkerHolds, NoCall
  <2>3. CASE p = "worker" /\ ~over
    <3>1. call'[p].job = j /\ c.op # "xack"
      BY <2>3, <1>1, <1>2, <1>4 DEF Fits
    <3>2. pending'[j] = pending[j] /\ pending[j] > 0
      BY <2>3, <3>1, <1>1, <1>6, <1>13 DEF Fits, Store
    <3> QED  BY <3>1, <3>2, <2>3 DEF WorkerHolds
  <2>2. CASE p # "worker"
    BY <2>2, <1>1, <1>2, <1>3, <1>13 DEF WorkerHolds, Store, CallsFit, Fits
  <2> QED  BY <2>1, <2>2, <2>3
<1>17. Sent'
  <2> SUFFICES ASSUME NEW q \in Processes \ {"worker"}, call'[q].kind # "idle",
                      Head(call'[q].todo).op \notin {"xadd", "zadd"},
                      NEW i, i = call'[q].job
               PROVE  Safe(i)'
    BY DEF Sent, Safe, Elsewhere, OnlyHere
  <2>1. CASE q = p
    <3>1. call'[p].job = j
      BY <2>1, <1>1, <1>4 DEF NoCall, Fits
    <3> QED  BY <3>1, <2>1, <1>15
  <2>2. CASE q # p
    <3>1. call'[q] = call[q] /\ i \in Jobs /\ Safe(i)
      BY <2>2, <1>3 DEF Sent, CallsFit, Fits
    <3> QED  BY <3>1, <1>14
  <2> QED  BY <2>1, <2>2
<1>18. KnownSafe'
  <2>1. \A i \in Jobs : i # j => hash'[i] = hash[i] /\ (i \in told' => i \in told)
    BY <1>1 DEF Do, Store
  <2> QED  BY <2>1, <1>14, <1>15 DEF KnownSafe
<1> QED  BY <1>5, <1>7, <1>8, <1>12, <1>16, <1>17, <1>18

\* What is taken from the stream becomes pending.
LEMMA TakeKeepsInv ==
  ASSUME IInv, NEW j \in Jobs, Take(j)
  PROVE  IInv'
<1> USE CallersApart DEF IInv, Take, Begin, Marked
<1>1. Store'
  BY DEF Store
<1>2. Rest'
  <2>1. When(About(j) # {}, "outrun") \in SUBSET Mark
    BY DEF When, Mark
  <2> QED  BY <2>1 DEF Rest
<1>3. \A q \in Processes : q # "worker" => call'[q] = call[q]
  BY DEF CallsFit
<1>4. call'["worker"] = [kind |-> "take", job |-> j, todo |-> <<Plain("hincr"), Expire>>]
  BY DEF CallsFit
<1>5. CallsFit'
  <2>1. Fits("worker", call'["worker"])
    BY <1>4, TakingFits
  <2>2. \A q \in Processes : Fits(q, call'[q])
    BY <1>3, <2>1 DEF CallsFit
  <2>3. call' = [q \in Processes |-> call'[q]]
    BY DEF CallsFit
  <2> QED  BY <2>2, <2>3 DEF CallsFit, Fits
<1>6. WorkerHolds'
  BY <1>4 DEF WorkerHolds, Store
<1>7. GivenAway'
  BY <1>4 DEF GivenAway
<1>8. \A i \in Jobs : Safe(i) => Safe(i)'
  <2>1. \A i \in Jobs : i # j => unread'[i] = unread[i] /\ pending'[i] = pending[i]
    BY DEF Store
  <2>2. pending'[j] > 0
    BY DEF Store
  <2>3. \A i \in Jobs : "dropped" \in marks[i] => "dropped" \in marks'[i]
    BY DEF Rest
  <2> QED  BY <1>3, <2>1, <2>2, <2>3 DEF Safe, Elsewhere, OnlyHere
<1>9. Sent'
  BY <1>3, <1>8 DEF Sent, CallsFit, Fits
<1>10. KnownSafe'
  BY <1>8 DEF KnownSafe
<1> QED  BY <1>1, <1>2, <1>5, <1>6, <1>7, <1>9, <1>10

\* A settlement begins with the command that gives the job away.
LEMMA SettleKeepsInv ==
  ASSUME IInv, Settle
  PROVE  IInv'
<1> USE CallersApart DEF IInv
<1>0. PICK d \in Nat : \E s \in {Finishing, Retrying(d), Burying} :
        Begin("worker", "settle", call["worker"].job, s)
  <2>1. \A n : Delays(n) \subseteq Nat
    BY QueueAssumption DEF Delays
  <2>2. now \in Nat
    BY DEF Rest
  <2>3. \A n : \A d \in Delays(n) : now + d \in Nat
    BY <2>1, <2>2
  <2> QED  BY <2>2, <2>3 DEF Settle
<1>1. PICK s \in {Finishing, Retrying(d), Burying} :
        Begin("worker", "settle", call["worker"].job, s)
  BY <1>0
<1>2. call["worker"].job \in Jobs
  BY DEF Settle, CallsFit, Fits
<1>3. \A q \in Processes : q # "worker" => call'[q] = call[q]
  BY <1>1 DEF CallsFit, Begin
<1>4. call'["worker"] = [kind |-> "settle", job |-> call["worker"].job, todo |-> s]
  BY <1>1 DEF CallsFit, Begin
<1>5. CallsFit'
  <2>1. Fits("worker", call'["worker"])
    BY <1>1, <1>2, <1>4, SettlementsFit
  <2> QED  BY <1>1, <1>3, <2>1 DEF CallsFit, Fits, Begin
<1>6. WorkerHolds'
  BY <1>4 DEF WorkerHolds, Settle, store
<1>7. GivenAway'
  <2>1. Head(s).op \in {"zadd", "dlq"} \/ Head(s).status = "DONE"
    BY <1>2, SettlementsFit
  <2> QED  BY <1>4, <2>1 DEF GivenAway
<1>8. \A i \in Jobs : Safe(i) => Safe(i)'
  BY <1>3 DEF Safe, Elsewhere, OnlyHere, Settle, store, history
<1>9. Sent'
  BY <1>3, <1>8 DEF Sent, CallsFit, Fits
<1>10. KnownSafe' /\ Store' /\ Rest'
  BY <1>8 DEF KnownSafe, Store, Rest, Settle, store, history
<1> QED  BY <1>5, <1>6, <1>7, <1>9, <1>10

\* What is popped is in the scheduler's hands.
LEMMA PopKeepsInv ==
  ASSUME IInv, NEW j \in Jobs, Pop(j)
  PROVE  IInv'
<1> USE CallersApart DEF IInv, Pop
<1>1. /\ Fits("scheduler", [kind |-> "pop", job |-> j, todo |-> Popped(delayed[j])])
      /\ Head(Popped(delayed[j])).op \in {"xadd", "zadd"}
      /\ Popped(delayed[j]) # <<>>
  <2>1. delayed[j] \in Nat
    BY DEF Store
  <2>2. /\ Fits("scheduler", [kind |-> "pop", job |-> j, todo |-> Popped(delayed[j])])
        /\ Head(Popped(delayed[j])).op \in {"xadd", "zadd"}
    BY <2>1, RequestsFit, PutBackFits DEF Popped
  <2> QED  BY <2>2 DEF Fits
<1>2. Store'
  BY DEF Store
<1>3. Rest'
  <2>1. When(About(j) # {}, "outrun") \in SUBSET Mark
    BY DEF When, Mark
  <2> QED  BY <2>1 DEF Rest, Marked
<1>4. \A q \in Processes : q # "scheduler" => call'[q] = call[q]
  BY DEF CallsFit, Begin
<1>5. call'["scheduler"] = [kind |-> "pop", job |-> j, todo |-> Popped(delayed[j])]
  BY DEF CallsFit, Begin
<1>6. CallsFit'
  <2>1. \A q \in Processes : Fits(q, call'[q])
    BY <1>1, <1>4, <1>5 DEF CallsFit
  <2>2. call' = [q \in Processes |-> call'[q]]
    BY DEF CallsFit, Begin
  <2> QED  BY <2>1, <2>2 DEF CallsFit, Fits
<1>7. \A i \in Jobs : Elsewhere(i) => Elsewhere(i)'
  <2>1. j \in OnlyHere("scheduler")'
    BY <1>1, <1>5 DEF OnlyHere
  <2>2. OnlyHere("scheduler") = {}
    BY DEF OnlyHere, CallsFit, Fits, Idle
  <2>3. \A i \in Jobs : "dropped" \in marks[i] => "dropped" \in marks'[i]
    BY DEF Rest, Marked
  <2> QED  BY <2>1, <2>2, <2>3 DEF Elsewhere
<1>8. \A i \in Jobs : Safe(i) => Safe(i)'
  BY <1>7 DEF Safe
<1>9. WorkerHolds' /\ KnownSafe'
  BY <1>4, <1>8 DEF WorkerHolds, KnownSafe
<1>10. GivenAway'
  BY <1>4, <1>7 DEF GivenAway, CallsFit, Fits
<1>11. Sent'
  <2> SUFFICES ASSUME NEW q \in Processes \ {"worker"}, call'[q].kind # "idle",
                      Head(call'[q].todo).op \notin {"xadd", "zadd"},
                      NEW i, i = call'[q].job
               PROVE  Safe(i)'
    BY DEF Sent, Safe, Elsewhere, OnlyHere
  <2>1. q # "scheduler"
    BY <1>1, <1>5
  <2>2. call'[q] = call[q] /\ i \in Jobs /\ Safe(i)
    BY <2>1, <1>4 DEF Sent, CallsFit, Fits
  <2> QED  BY <2>2, <1>8
<1> QED  BY <1>2, <1>3, <1>6, <1>9, <1>10, <1>11

\* Time moves nothing.
LEMMA TickKeepsInv ==
  ASSUME IInv, Tick
  PROVE  IInv'
<1>1. \A i : (Elsewhere(i) <=> Elsewhere(i)') /\ (Safe(i) <=> Safe(i)')
  BY DEF Elsewhere, Safe, OnlyHere, Tick, store, history
<1> QED
  BY <1>1 DEF IInv, Store, Rest, CallsFit, WorkerHolds, GivenAway, Sent, KnownSafe,
              Tick, store, history

\* A failure leaves nothing unsafe but what the scheduler alone held, and that
\* it marks.
LEMMA FailKeepsInv ==
  ASSUME IInv, NEW p \in Processes, Fail(p)
  PROVE  IInv'
<1> USE CallersApart DEF IInv, Fail, store
<1>1. Store'
  BY DEF Store
<1>2. Rest'
  <2>1. \A j \in Jobs : When(j = call[p].job, "failed") \cup When(j \in OnlyHere(p), "dropped")
                        \in SUBSET Mark
    BY DEF When, Mark
  <2> QED  BY <2>1 DEF Rest, Struck
<1>3. \A q \in Processes : q # p => call'[q] = call[q]
  BY DEF CallsFit
<1>4. call'[p] = NoCall
  BY DEF CallsFit
<1>5. CallsFit'
  <2>1. \A q \in Processes : Fits(q, call'[q])
    BY <1>3, <1>4, IdleFits DEF CallsFit
  <2>2. call' = [q \in Processes |-> call'[q]]
    BY DEF CallsFit
  <2> QED  BY <2>1, <2>2 DEF CallsFit, Fits
<1>6. \A i \in Jobs : Elsewhere(i) => Elsewhere(i)'
  <2>1. \A i \in Jobs : "dropped" \in marks[i] => "dropped" \in marks'[i]
    BY DEF Rest
  <2>2. \A i \in Jobs : p = "scheduler" /\ i \in OnlyHere("scheduler") => "dropped" \in marks'[i]
    BY DEF When
  <2>3. p # "scheduler" => \A i : i \in OnlyHere("scheduler") => i \in OnlyHere("scheduler")'
    BY <1>3 DEF OnlyHere
  <2> QED  BY <2>1, <2>2, <2>3 DEF Elsewhere
<1>7. \A i \in Jobs : Safe(i) => Safe(i)'
  BY <1>6 DEF Safe
<1>8. WorkerHolds' /\ KnownSafe'
  BY <1>3, <1>4, <1>7 DEF WorkerHolds, KnownSafe, NoCall
<1>9. GivenAway'
  BY <1>3, <1>4, <1>6 DEF GivenAway, CallsFit, Fits, NoCall
<1>10. Sent'
  BY <1>3, <1>4, <1>7 DEF Sent, CallsFit, Fits, NoCall
<1> QED  BY <1>1, <1>2, <1>5, <1>8, <1>9, <1>10

\* A restart loses requests and dead letters.
LEMMA BootKeepsInv ==
  ASSUME IInv, Boot
  PROVE  IInv'
<1> USE CallersApart DEF IInv, Boot
<1>1. PICK gone \in SUBSET dead :
        /\ dead' = dead \ gone
        /\ marks' = [j \in Jobs |->
             marks[j] \cup When(j \in gone, "trimmed")
                      \cup When(\E p \in Callers : call[p].job = j, "failed")]
  OBVIOUS
<1>2. \A j \in Jobs : When(j \in gone, "trimmed")
        \cup When(\E p \in Callers : call[p].job = j, "failed") \in SUBSET Mark
  BY DEF When, Mark
<1>3. Store'
  BY <1>1 DEF Store
<1>4. Rest'
  <2>1. marks' \in [Jobs -> SUBSET Mark]
    BY <1>1, <1>2 DEF Rest
  <2>2. now' \in Nat /\ told' \subseteq Jobs /\ ended' \subseteq Jobs
    BY DEF Rest
  <2>3. budget' \in [calls : Nat, faults : Nat]
    BY DEF Rest, Struck
  <2> QED  BY <2>1, <2>2, <2>3 DEF Rest
<1>5. /\ call'["worker"] = call["worker"] /\ call'["scheduler"] = call["scheduler"]
      /\ \A q \in Callers : call'[q] = NoCall
  OBVIOUS
<1>6. CallsFit'
  <2>1. \A q \in Processes : Fits(q, call'[q])
    BY <1>5, IdleFits DEF CallsFit, Processes
  <2>2. call' = [q \in Processes |-> call'[q]]
    BY DEF CallsFit
  <2> QED  BY <2>1, <2>2 DEF CallsFit, Fits
<1>7. \A i \in Jobs : (Elsewhere(i) => Elsewhere(i)') /\ (Safe(i) => Safe(i)')
  BY <1>1, <1>5 DEF Elsewhere, Safe, OnlyHere, Rest
<1>8. WorkerHolds' /\ KnownSafe'
  BY <1>5, <1>7 DEF WorkerHolds, KnownSafe
<1>9. GivenAway'
  BY <1>5, <1>7 DEF GivenAway, CallsFit, Fits
<1>10. Sent'
  BY <1>5, <1>7 DEF Sent, CallsFit, Fits, Processes, NoCall
<1> QED  BY <1>3, <1>4, <1>6, <1>8, <1>9, <1>10

\* A lost hash leaves the job where it was.
LEMMA LoseKeepsInv ==
  ASSUME IInv, NEW j \in Jobs, Lose(j)
  PROVE  IInv'
<1> USE CallersApart DEF IInv, Lose
<1>1. Store'
  BY DEF Store, Missing, Hash, Status
<1>2. Rest'
  BY DEF Rest, Struck, Marked, Mark
<1>3. \A i \in Jobs : (Elsewhere(i) => Elsewhere(i)') /\ (Safe(i) => Safe(i)')
  BY DEF Elsewhere, Safe, OnlyHere, Rest, Marked
<1>4. CallsFit' /\ WorkerHolds'
  BY DEF CallsFit, WorkerHolds
<1>5. GivenAway' /\ Sent'
  BY <1>3 DEF GivenAway, Sent, CallsFit, Fits
<1>6. KnownSafe'
  BY <1>3 DEF KnownSafe, Store
<1> QED  BY <1>1, <1>2, <1>4, <1>5, <1>6

-----------------------------------------------------------------------------
\* The invariant holds for ever.
THEOREM Invariance == Spec => []IInv
<1>1. ASSUME IInv, [Next]_vars PROVE IInv'
  <2>1. ASSUME NEW p \in Callers, NEW j \in Jobs, Enqueue(p, j) PROVE IInv'
    BY <1>1, <2>1, EnqueueKeepsInv
  <2>2. ASSUME NEW p \in Callers, NEW j \in Jobs, Retry(p, j) PROVE IInv'
    BY <1>1, <2>2, RetryKeepsInv
  <2>3. ASSUME NEW p \in Processes, Do(p) PROVE IInv'
    BY <1>1, <2>3, DoKeepsInv
  <2>4. ASSUME NEW p \in Processes, Fail(p) PROVE IInv'
    BY <1>1, <2>4, FailKeepsInv
  <2>5. ASSUME NEW j \in Jobs, Take(j) PROVE IInv'
    BY <1>1, <2>5, TakeKeepsInv
  <2>6. ASSUME NEW j \in Jobs, Pop(j) PROVE IInv'
    BY <1>1, <2>6, PopKeepsInv
  <2>7. ASSUME NEW j \in Jobs, Lose(j) PROVE IInv'
    BY <1>1, <2>7, LoseKeepsInv
  <2>8. CASE Settle \/ Tick \/ Boot
    BY <1>1, <2>8, SettleKeepsInv, TickKeepsInv, BootKeepsInv
  <2>9. CASE UNCHANGED vars
    <3>1. \A i : (Elsewhere(i) <=> Elsewhere(i)') /\ (Safe(i) <=> Safe(i)')
      BY <2>9 DEF Elsewhere, Safe, OnlyHere, vars, store, history
    <3> QED
      BY <1>1, <2>9, <3>1 DEF IInv, Store, Rest, CallsFit, WorkerHolds, GivenAway, Sent,
                              KnownSafe, vars, store, history
  <2> QED
    BY <1>1, <2>1, <2>2, <2>3, <2>4, <2>5, <2>6, <2>7, <2>8, <2>9 DEF Next
<1> QED  BY InitInv, <1>1, PTL DEF Spec

\* Redis and the calls in flight keep their types: in particular no entry is
\* acknowledged that is not pending.
THEOREM TypeCorrect == Spec => []TypeOK
<1>1. IInv => TypeOK
  <2> SUFFICES ASSUME IInv PROVE TypeOK
    OBVIOUS
  <2> DEFINE R == [kind : Kind, job : Jobs \cup {"none"}, todo : Seq(Command)]
  <2>1. \A p \in Processes : call[p] \in R
    BY DEF IInv, CallsFit, Fits
  <2> HIDE DEF R
  <2>2. call = [p \in Processes |-> call[p]]
    BY DEF IInv, CallsFit
  <2>3. call \in [Processes -> R]
    BY <2>1, <2>2
  <2> QED  BY <2>3 DEF R, IInv, Store, Rest, TypeOK
<1> QED  BY Invariance, <1>1, PTL

\* No job a caller was told of is forgotten, whatever fails, unless the
\* scheduler fails with it in its hands.
THEOREM NothingIsForgotten == Spec => []NothingForgotten
<1>1. IInv => NothingForgotten
  BY DEF IInv, Rest, KnownSafe, Safe, Elsewhere, NothingForgotten, Kept
<1> QED  BY Invariance, <1>1, PTL

-----------------------------------------------------------------------------
(***************************************************************************)
(* One run ahead, and a status that tells the place.  A job is in the      *)
(* stream, delayed, ended or in the hands of one process; giving it away   *)
(* is the first command of a list, and the hash follows.                   *)
(***************************************************************************)

\* The commands that put a job somewhere.
Giving(c) == c.op \in {"xadd", "zadd", "dlq"} \/ c.status = "DONE"

\* A list gives the job away with its first command or not at all, sets a status
\* with every hset, and an enqueue ends by renewing the time to live.
Shape(r) ==
  /\ \A i \in 1 .. Len(r.todo) : Giving(r.todo[i]) => i = 1
  /\ \A i \in 1 .. Len(r.todo) : r.todo[i].op = "hset" <=> r.todo[i].status # "none"
  /\ r.kind = "take" => \A i \in 1 .. Len(r.todo) : r.todo[i].op \in {"hincr", "expire"}
  /\ r.kind = "enqueue" => r.todo[Len(r.todo)] = Expire

Shaped == \A p \in Processes : Shape(call[p])

\* p is about to put its job somewhere, or has it in its hands.
Gives(p) == call[p].todo # <<>> /\ Giving(Head(call[p].todo))

Holds(p) == call[p].kind = "take" \/ Gives(p)

\* In the stream, delayed or ended: nothing of that, and one of the holders.
Nowhere(j) == unread[j] = 0 /\ j \notin DOMAIN delayed /\ j \notin ended

Held(j) == \E p \in About(j) : Holds(p)

\* At most one of them.
AtOnePlace(j) ==
  /\ \A p, q \in About(j) : Holds(p) /\ Holds(q) => p = q
  /\ Held(j) => Nowhere(j)
  /\ unread[j] <= 1
  /\ unread[j] = 1 => j \notin DOMAIN delayed /\ j \notin ended
  /\ j \in DOMAIN delayed => j \notin ended

\* Nothing that would excuse a second run.
Calm(j) == marks[j] \cap {"overlap", "manual", "lost", "failed"} = {}

\* Its enqueue is in flight.
Enqueued(j) == \E p \in About(j) : call[p].kind = "enqueue"

\* A job that its hash does not know and nobody enqueues is nowhere, which is
\* why a second enqueue cannot double it: until it is known, the enqueue that
\* brought it is in flight.
Single(j) ==
  /\ AtOnePlace(j)
  /\ ~Known(j) /\ ~Enqueued(j) => Nowhere(j) /\ ~Held(j)
  /\ \A p \in About(j) : call[p].kind = "enqueue" => Pends(p, "hnew") \/ Known(j)

\* Where a command that gives the job away takes it, and what a write makes its
\* status.
Target(c) ==
  CASE c.op = "xadd" -> "QUEUED"
    [] c.op = "zadd" -> "RETRY_SCHEDULED"
    [] c.op = "dlq"  -> "DLQ"
    [] c.op \notin {"xadd", "zadd", "dlq"} -> "DONE"

Says(c) == IF c.op = "hnew" THEN "QUEUED" ELSE c.status

Writes(c) == c.op \in {"hnew", "hset"}

\* Where the job will be once the call of p has given it away.
Aim(p, j) == IF Gives(p) THEN Target(Head(call[p].todo)) ELSE Place(j)

\* A call in flight about an unmarked job: what it writes is what it aims at, and
\* it writes it, unless the hash says so already.
Underway(p, j) ==
  LET todo == call[p].todo IN
  /\ call[p].kind # "enqueue" => Known(j) /\ hash[j].ttl /\ hash[j].payload
  /\ call[p].kind = "enqueue" => Pends(p, "hnew") \/ hash[j].payload
  /\ call[p].kind # "take" =>
       /\ \A i \in 1 .. Len(todo) : Writes(todo[i]) => Says(todo[i]) = Aim(p, j)
       /\ (\E i \in 1 .. Len(todo) : Writes(todo[i])) \/ hash[j].status = Aim(p, j)

\* Nobody is at work on the job, and its hash is right.
Quiet(j) ==
  /\ hash[j].status = Place(j)
  /\ hash[j] # Missing => hash[j].ttl /\ hash[j].payload

\* An unmarked job has one call about it at most.
Tidy(j) ==
  /\ \A p, q \in About(j) : p = q
  /\ About(j) = {} => Quiet(j)
  /\ \A p \in About(j) : Underway(p, j)

\* IInv says where a job is; QInv that it is there once, and what its hash says.
QInv ==
  /\ IInv /\ Shaped /\ dead \subseteq ended
  /\ \A j \in Jobs : Calm(j) => Single(j)
  /\ \A j \in Jobs : marks[j] = {} => Tidy(j)

-----------------------------------------------------------------------------
\* At the start there is no job anywhere.
LEMMA InitQInv == Init => QInv
<1> SUFFICES ASSUME Init PROVE QInv
  OBVIOUS
<1>1. IInv
  BY InitInv
<1>2. \A p \in Processes : call[p].kind = "idle" /\ call[p].job = "none" /\ call[p].todo = <<>>
  BY DEF Init, NoCall
<1>3. \A j \in Jobs : About(j) = {}
  BY <1>2, QueueAssumption DEF About
<1>4. Shaped
  BY <1>2 DEF Shaped, Shape
<1>5. \A j \in Jobs : Nowhere(j) /\ ~Held(j)
  BY <1>3 DEF Init, Nowhere, Held
<1>6. \A j \in Jobs : Single(j)
  BY <1>3, <1>5 DEF Single, AtOnePlace, Nowhere
<1>7. \A j \in Jobs : Quiet(j)
  BY DEF Quiet, Init, Place, Missing
<1> QED
  BY <1>1, <1>3, <1>4, <1>6, <1>7 DEF QInv, Tidy, Init

\* A job that a step does not touch.
Untouched(j) ==
  /\ hash'[j] = hash[j] /\ unread'[j] = unread[j]
  /\ j \in DOMAIN delayed' <=> j \in DOMAIN delayed
  /\ j \in ended' <=> j \in ended
  /\ About(j)' = About(j) /\ \A p \in About(j) : call'[p] = call[p]
  /\ marks[j] \subseteq marks'[j]

\* What is said of a job depends on it and on the calls about it alone.
LEMMA UntouchedStays ==
  ASSUME NEW j \in Jobs, Untouched(j)
  PROVE  /\ (Calm(j) => Single(j)) => (Calm(j) => Single(j))'
         /\ (j \in dead' <=> j \in dead) \/ marks'[j] # {} =>
              ((marks[j] = {} => Tidy(j)) => (marks[j] = {} => Tidy(j))')
<1> USE DEF Untouched
<1>1. \A p \in About(j) : (Holds(p)' <=> Holds(p)) /\ (Gives(p)' <=> Gives(p))
  BY DEF Holds, Gives
<1>2. (Held(j)' <=> Held(j)) /\ (Nowhere(j)' <=> Nowhere(j)) /\ (Known(j)' <=> Known(j))
      /\ (Enqueued(j)' <=> Enqueued(j))
  BY <1>1 DEF Held, Nowhere, Known, Enqueued
<1>3. \A p \in About(j) : \A op : Pends(p, op)' <=> Pends(p, op)
  BY DEF Pends
<1>4. AtOnePlace(j) => AtOnePlace(j)'
  BY <1>1, <1>2 DEF AtOnePlace
<1>5. Single(j) => Single(j)'
  BY <1>2, <1>3, <1>4 DEF Single
<1>6. Calm(j)' => Calm(j)
  BY DEF Calm
<1>7. ASSUME j \in dead' <=> j \in dead, Tidy(j) PROVE Tidy(j)'
  <2>1. Place(j)' = Place(j)
    BY <1>7 DEF Place
  <2>2. \A p \in About(j) : Aim(p, j)' = Aim(p, j)
    BY <1>1, <2>1 DEF Aim
  <2>3. \A p \in About(j) : Underway(p, j) => Underway(p, j)'
    BY <1>2, <1>3, <2>2 DEF Underway
  <2>4. Quiet(j) => Quiet(j)'
    BY <2>1 DEF Quiet
  <2> QED  BY <1>7, <2>3, <2>4 DEF Tidy
<1>8. marks'[j] = {} => marks[j] = {}
  OBVIOUS
<1> QED  BY <1>5, <1>6, <1>7, <1>8

\* A step of one process about one job leaves the others alone.
LEMMA OthersUntouched ==
  ASSUME IInv, NEW p \in Processes, NEW j \in Jobs, NEW i \in Jobs, i # j,
         call' = [call EXCEPT ![p] = call'[p]],
         call[p].job \in {j, "none"}, call'[p].job \in {j, "none"},
         hash'[i] = hash[i], unread'[i] = unread[i],
         i \in DOMAIN delayed' <=> i \in DOMAIN delayed,
         i \in ended' <=> i \in ended, marks[i] \subseteq marks'[i]
  PROVE  Untouched(i)
<1>1. \A q \in Processes : q # p => call'[q] = call[q]
  BY DEF IInv, CallsFit
<1>2. i # "none"
  BY QueueAssumption
<1>3. p \notin About(i) /\ p \notin About(i)'
  BY <1>2 DEF About
<1> QED  BY <1>1, <1>3 DEF Untouched, About

\* The lists the module writes have the shape.
LEMMA ListsShaped ==
  /\ \A j \in Jobs : Shape([kind |-> "enqueue", job |-> j, todo |-> Enqueuing])
  /\ \A j \in Jobs, k \in {"retry", "pop"} : Shape([kind |-> k, job |-> j, todo |-> Requeuing])
  /\ \A j \in Jobs, d \in Nat : Shape([kind |-> "pop", job |-> j, todo |-> <<ZAdd(d)>>])
  /\ \A j \in Jobs : Shape([kind |-> "take", job |-> j, todo |-> <<Plain("hincr"), Expire>>])
  /\ \A j \in Jobs, d \in Nat : \A s \in {Finishing, Retrying(d), Burying} :
       Shape([kind |-> "settle", job |-> j, todo |-> s])
  /\ Shape(NoCall)
<1> USE DEF Shape, Giving, XAdd, HNew, HSet, Expire, ZAdd, XAck, Plain
<1>1. \A j \in Jobs : Shape([kind |-> "enqueue", job |-> j, todo |-> Enqueuing])
  BY DEF Enqueuing
<1>2. \A j \in Jobs, k \in {"retry", "pop"} : Shape([kind |-> k, job |-> j, todo |-> Requeuing])
  BY DEF Requeuing
<1>3. \A j \in Jobs, d \in Nat : Shape([kind |-> "pop", job |-> j, todo |-> <<ZAdd(d)>>])
  OBVIOUS
<1>4. \A j \in Jobs : Shape([kind |-> "take", job |-> j, todo |-> <<Plain("hincr"), Expire>>])
  OBVIOUS
<1>5. ASSUME NEW j \in Jobs, NEW d \in Nat
      PROVE  /\ Shape([kind |-> "settle", job |-> j, todo |-> Finishing])
             /\ Shape([kind |-> "settle", job |-> j, todo |-> Retrying(d)])
             /\ Shape([kind |-> "settle", job |-> j, todo |-> Burying])
  BY DEF Finishing, Retrying, Burying
<1>6. Shape(NoCall)
  BY DEF NoCall
<1> QED  BY <1>1, <1>2, <1>3, <1>4, <1>5, <1>6

\* One call changes, and has the shape.
LEMMA ShapedStep ==
  ASSUME IInv, Shaped, NEW p \in Processes,
         call' = [call EXCEPT ![p] = call'[p]], Shape(call'[p])
  PROVE  Shaped'
  BY DEF IInv, CallsFit, Shaped

\* What a request offers goes to the stream, and its status says so.
LEMMA EnqueuingSays ==
  /\ Enqueuing # <<>> /\ Giving(Head(Enqueuing)) /\ Target(Head(Enqueuing)) = "QUEUED"
  /\ \A i \in 1 .. Len(Enqueuing) : Writes(Enqueuing[i]) => Says(Enqueuing[i]) = "QUEUED"
  /\ 2 \in 1 .. Len(Enqueuing) /\ Writes(Enqueuing[2]) /\ Enqueuing[2].op = "hnew"
  BY DEF Enqueuing, Giving, Target, Writes, Says, XAdd, HNew, HSet, Expire, Plain

\* So does what is requeued.
LEMMA RequeuingSays ==
  /\ Requeuing # <<>> /\ Giving(Head(Requeuing)) /\ Target(Head(Requeuing)) = "QUEUED"
  /\ \A i \in 1 .. Len(Requeuing) : Writes(Requeuing[i]) => Says(Requeuing[i]) = "QUEUED"
  /\ 2 \in 1 .. Len(Requeuing) /\ Writes(Requeuing[2])
  BY DEF Requeuing, Giving, Target, Writes, Says, XAdd, HSet, Expire, Plain

\* What is put back goes where it came from, and no status is written.
LEMMA PuttingBackSays ==
  ASSUME NEW d \in Nat
  PROVE  /\ <<ZAdd(d)>> # <<>> /\ Giving(Head(<<ZAdd(d)>>))
         /\ Target(Head(<<ZAdd(d)>>)) = "RETRY_SCHEDULED"
         /\ \A i \in 1 .. Len(<<ZAdd(d)>>) : ~Writes(<<ZAdd(d)>>[i])
  BY DEF Giving, Target, Writes, ZAdd, Plain

\* A settlement writes the status of the place it gives the job to.
LEMMA SettlingSays ==
  ASSUME NEW d \in Nat, NEW s \in {Finishing, Retrying(d), Burying}
  PROVE  /\ s # <<>> /\ Giving(Head(s))
         /\ \A i \in 1 .. Len(s) : Writes(s[i]) => Says(s[i]) = Target(Head(s))
         /\ \E i \in 1 .. Len(s) : Writes(s[i])
<1> USE DEF Giving, Target, Writes, Says, HSet, Expire, ZAdd, XAck, Plain
<1>1. CASE s = Finishing
  <2>1. 1 \in 1 .. Len(s) /\ Writes(s[1])
    BY <1>1 DEF Finishing
  <2> QED  BY <1>1, <2>1 DEF Finishing
<1>2. CASE s = Retrying(d)
  <2>1. 2 \in 1 .. Len(s) /\ Writes(s[2])
    BY <1>2 DEF Retrying
  <2> QED  BY <1>2, <2>1 DEF Retrying
<1>3. CASE s = Burying
  <2>1. 2 \in 1 .. Len(s) /\ Writes(s[2])
    BY <1>3 DEF Burying
  <2> QED  BY <1>3, <2>1 DEF Burying
<1> QED  BY <1>1, <1>2, <1>3

\* A mark stays.
LEMMA MarkedJob ==
  ASSUME IInv, NEW j \in Jobs, NEW why \in SUBSET Mark, Marked(j, why)
  PROVE  /\ marks'[j] = marks[j] \cup why
         /\ \A i \in Jobs : marks[i] \subseteq marks'[i]
  BY DEF IInv, Rest, Marked

\* A step about one job keeps the invariant if it keeps it for that job.
LEMMA OneJobEnough ==
  ASSUME QInv, IInv', Shaped', (dead \subseteq ended)', NEW j \in Jobs,
         \A i \in Jobs : i # j => Untouched(i) /\ (i \in dead' <=> i \in dead),
         Calm(j)' => Single(j)', marks'[j] = {} => Tidy(j)'
  PROVE  QInv'
<1> SUFFICES ASSUME NEW i \in Jobs
             PROVE  (Calm(i) => Single(i))' /\ (marks[i] = {} => Tidy(i))'
  BY DEF QInv
<1>1. CASE i = j
  BY <1>1
<1>2. CASE i # j
  BY <1>2, UntouchedStays DEF QInv
<1> QED  BY <1>1, <1>2

\* A job that is not known and not being enqueued is nowhere: the enqueue is the
\* first to hold it.
LEMMA EnqueueKeepsQInv ==
  ASSUME QInv, NEW p \in Callers, NEW j \in Jobs, Enqueue(p, j)
  PROVE  QInv'
<1> USE CallersApart
<1>1. IInv /\ IInv'
  BY EnqueueKeepsInv DEF QInv
<1>2. CASE Known(j) /\ told' = told \cup {j} /\ UNCHANGED <<call, marks>>
  <2>1. Shaped' /\ (dead \subseteq ended)'
    BY <1>2 DEF Enqueue, store, QInv, Shaped
  <2>2. \A i \in Jobs : Untouched(i)
    BY <1>2 DEF Enqueue, store, Untouched, About
  <2> QED  BY <1>1, <2>1, <2>2, UntouchedStays DEF QInv, Enqueue, store
<1>3. CASE /\ ~Known(j)
           /\ Begin(p, "enqueue", j, Enqueuing)
           /\ Marked(j, When(\E q \in About(j) : call[q].kind = "enqueue", "overlap"))
  <2> DEFINE new == [kind |-> "enqueue", job |-> j, todo |-> Enqueuing]
             why == When(\E q \in About(j) : call[q].kind = "enqueue", "overlap")
  <2>1. call' = [call EXCEPT ![p] = new] /\ call'[p] = new
    BY <1>1, <1>3 DEF Begin, IInv, CallsFit
  <2>2. Shaped'
    BY <1>1, <2>1, ListsShaped, ShapedStep DEF QInv
  <2>3. call[p].job = "none" /\ call[p].kind = "idle"
    BY <1>1 DEF Enqueue, Idle, IInv, CallsFit, Fits
  <2>4. why \in SUBSET Mark
    BY DEF When, Mark
  <2>5. marks'[j] = marks[j] \cup why /\ \A i \in Jobs : marks[i] \subseteq marks'[i]
    BY <1>1, <1>3, <2>4, MarkedJob
  <2>6. ASSUME NEW i \in Jobs, i # j PROVE Untouched(i)
    <3>1. call' = [call EXCEPT ![p] = call'[p]]
      <4> HIDE DEF new
      <4> QED  BY <2>1
    <3>2. call'[p].job = j
      BY <2>1
    <3>3. /\ hash'[i] = hash[i] /\ unread'[i] = unread[i]
          /\ i \in DOMAIN delayed' <=> i \in DOMAIN delayed
          /\ i \in ended' <=> i \in ended
      BY DEF Enqueue, store
    <3> QED  BY <1>1, <2>3, <2>5, <2>6, <3>1, <3>3, <3>2, OthersUntouched
  <2>7. \A q \in Processes : q # p => call'[q] = call[q]
    BY <2>1 
  <2>8. p \notin About(j) /\ About(j)' = About(j) \cup {p}
    BY <2>1, <2>3, <2>7, QueueAssumption DEF About
  <2>9. /\ (Nowhere(j)' <=> Nowhere(j)) /\ (Known(j)' <=> Known(j))
        /\ hash' = hash /\ unread' = unread /\ delayed' = delayed
        /\ dead' = dead /\ ended' = ended
    BY DEF Enqueue, store, Nowhere, Known
  <2>10. Gives(p)' /\ Holds(p)'
    BY <2>1, EnqueuingSays DEF Gives, Holds
  <2>11. \A q \in About(j) : Holds(q)' <=> Holds(q)
    BY <2>7, <2>8 DEF Holds, Gives, About
  <2>12. Calm(j)' => Calm(j) /\ ~Enqueued(j)
    BY <2>5 DEF Calm, Enqueued, When
  <2>13. ASSUME Calm(j)' PROVE Single(j)'
    <3>1. Calm(j) /\ Single(j) /\ Nowhere(j) /\ ~Held(j)
      BY <2>12, <2>13, <1>3 DEF QInv, Single
    <3>2. \A q \in About(j)' : Holds(q)' => q = p
      BY <2>8, <2>11, <3>1 DEF Held
    <3>3. AtOnePlace(j)'
      BY <2>9, <3>1, <3>2 DEF AtOnePlace, Nowhere
    <3>4. Enqueued(j)'
      BY <2>1, <2>8 DEF Enqueued
    <3>5. \A q \in About(j) : call[q].kind # "enqueue"
      BY <2>12, <2>13 DEF Enqueued
    <3>6. Pends(p, "hnew")'
      BY <2>1, EnqueuingSays DEF Pends
    <3>7. \A q \in About(j)' : call'[q].kind = "enqueue" => q = p
      BY <2>7, <2>8, <3>5 DEF About
    <3> QED  BY <3>3, <3>4, <3>6, <3>7 DEF Single
  <2>14. ASSUME marks'[j] = {} PROVE Tidy(j)'
    <3>1. marks[j] = {} /\ Calm(j)' /\ Calm(j) /\ ~Enqueued(j) /\ Tidy(j)
      BY <2>5, <2>12, <2>14 DEF Calm, QInv
    <3>2. About(j) = {}
      BY <1>3, <3>1 DEF Tidy, Underway, Enqueued
    <3>3. Aim(p, j)' = "QUEUED"
      BY <2>1, <2>10, EnqueuingSays DEF Aim
    <3>4. Underway(p, j)'
      <4>1. call'[p].todo = Enqueuing /\ call'[p].kind = "enqueue"
        BY <2>1
      <4>2. Pends(p, "hnew")'
        BY <4>1, EnqueuingSays DEF Pends
      <4>3. \A i \in 1 .. Len(call'[p].todo) : Writes(call'[p].todo[i]) => Says(call'[p].todo[i]) = Aim(p, j)'
        BY <3>3, <4>1, EnqueuingSays
      <4>4. \E i \in 1 .. Len(call'[p].todo) : Writes(call'[p].todo[i])
        BY <4>1, EnqueuingSays
      <4> QED  BY <4>1, <4>2, <4>3, <4>4 DEF Underway
    <3> QED  BY <2>8, <3>2, <3>4 DEF Tidy
  <2> QED  BY <1>1, <2>2, <2>6, <2>9, <2>13, <2>14, OneJobEnough DEF QInv
<1> QED  BY <1>2, <1>3 DEF Enqueue

\* A retry that was asked for excuses everything.
LEMMA RetryKeepsQInv ==
  ASSUME QInv, NEW p \in Callers, NEW j \in Jobs, Retry(p, j)
  PROVE  QInv'
<1> USE CallersApart
<1> DEFINE new == [kind |-> "retry", job |-> j, todo |-> Requeuing]
<1>1. IInv /\ IInv'
  BY RetryKeepsInv DEF QInv
<1>2. call' = [call EXCEPT ![p] = new] /\ call'[p] = new
  BY <1>1 DEF Retry, Begin, IInv, CallsFit
<1>3. Shaped'
  BY <1>1, <1>2, ListsShaped, ShapedStep DEF QInv
<1>4. call[p].job = "none"
  BY <1>1 DEF Retry, Idle, IInv, CallsFit, Fits
<1>5. marks'[j] = marks[j] \cup {"manual"} /\ \A i \in Jobs : marks[i] \subseteq marks'[i]
  BY <1>1, MarkedJob DEF Retry, Mark
<1>6. ASSUME NEW i \in Jobs, i # j PROVE Untouched(i) /\ (i \in dead' <=> i \in dead)
  <2>1. call' = [call EXCEPT ![p] = call'[p]]
    <3> HIDE DEF new
    <3> QED  BY <1>2
  <2>2. call'[p].job = j
    BY <1>2
  <2>3. /\ hash'[i] = hash[i] /\ unread'[i] = unread[i]
        /\ i \in DOMAIN delayed' <=> i \in DOMAIN delayed
        /\ i \in ended' <=> i \in ended
        /\ dead' = dead
    BY DEF Retry, store
  <2>4. Untouched(i)
    BY <1>1, <1>4, <1>5, <1>6, <2>1, <2>2, <2>3, OthersUntouched
  <2> QED  BY <2>4, <2>3
<1>7. ~Calm(j)' /\ marks'[j] # {}
  BY <1>5 DEF Calm
<1>8. (dead \subseteq ended)'
  BY DEF QInv, Retry, store
<1> QED  BY <1>1, <1>3, <1>6, <1>7, <1>8, OneJobEnough

\* So does a failure.
LEMMA FailKeepsQInv ==
  ASSUME QInv, NEW p \in Processes, Fail(p)
  PROVE  QInv'
<1>1. IInv /\ IInv'
  BY FailKeepsInv DEF QInv
<1>2. PICK j \in Jobs : j = call[p].job
  BY <1>1 DEF Fail, Idle, IInv, CallsFit, Fits
<1>3. call' = [call EXCEPT ![p] = NoCall] /\ call'[p] = NoCall
  BY <1>1 DEF Fail, IInv, CallsFit
<1>4. call' = [call EXCEPT ![p] = call'[p]]
  BY <1>3
<1>5. Shaped'
  BY <1>1, <1>3, <1>4, ListsShaped, ShapedStep DEF QInv
<1>6. "failed" \in marks'[j] /\ \A i \in Jobs : marks[i] \subseteq marks'[i]
  BY <1>2, <1>3 DEF Fail, When
<1>7. ASSUME NEW i \in Jobs, i # j PROVE Untouched(i) /\ (i \in dead' <=> i \in dead)
  <2>1. call'[p].job = "none"
    BY <1>3 DEF NoCall
  <2>2. /\ hash'[i] = hash[i] /\ unread'[i] = unread[i]
        /\ i \in DOMAIN delayed' <=> i \in DOMAIN delayed
        /\ i \in ended' <=> i \in ended
        /\ dead' = dead
    BY DEF Fail, store
  <2>3. Untouched(i)
    BY <1>1, <1>2, <1>3, <1>4, <1>6, <1>7, <2>1, <2>2, OthersUntouched
  <2> QED  BY <2>3, <2>2
<1>8. ~Calm(j)' /\ marks'[j] # {}
  BY <1>6 DEF Calm
<1>9. (dead \subseteq ended)'
  BY DEF QInv, Fail, store
<1> QED  BY <1>1, <1>3, <1>5, <1>7, <1>8, <1>9, OneJobEnough

\* And a lost hash.
LEMMA LoseKeepsQInv ==
  ASSUME QInv, NEW j \in Jobs, Lose(j)
  PROVE  QInv'
<1>1. IInv /\ IInv'
  BY LoseKeepsInv DEF QInv
<1>2. Shaped' /\ (dead \subseteq ended)'
  BY DEF QInv, Lose, Shaped
<1>3. marks'[j] = marks[j] \cup {"lost"} /\ \A i \in Jobs : marks[i] \subseteq marks'[i]
  BY <1>1, MarkedJob DEF Lose, Mark
<1>4. ASSUME NEW i \in Jobs, i # j PROVE Untouched(i) /\ (i \in dead' <=> i \in dead)
  BY <1>1, <1>3, <1>4 DEF Lose, Untouched, About, IInv, Store
<1>5. ~Calm(j)' /\ marks'[j] # {}
  BY <1>3 DEF Calm
<1> QED  BY <1>1, <1>2, <1>4, <1>5, OneJobEnough

\* A restart marks the jobs of the requests it ends and of the dead letters it
\* trims, and touches no other.
LEMMA BootKeepsQInv ==
  ASSUME QInv, Boot
  PROVE  QInv'
<1> USE CallersApart
<1>1. IInv /\ IInv'
  BY BootKeepsInv DEF QInv
<1>2. PICK gone \in SUBSET dead :
        /\ dead' = dead \ gone
        /\ marks' = [j \in Jobs |->
             marks[j] \cup When(j \in gone, "trimmed")
                      \cup When(\E p \in Callers : call[p].job = j, "failed")]
  BY DEF Boot
<1>3. \A p \in Processes : call'[p] = IF p \in Callers THEN NoCall ELSE call[p]
  BY DEF Boot
<1>4. Shaped'
  BY <1>3, ListsShaped DEF QInv, Shaped
<1>5. (dead \subseteq ended)'
  BY <1>2 DEF QInv, Boot
<1>6. ASSUME NEW i \in Jobs
      PROVE  (Calm(i) => Single(i))' /\ (marks[i] = {} => Tidy(i))'
  <2>1. CASE \E p \in Callers : call[p].job = i
    <3>1. "failed" \in marks'[i]
      BY <1>2, <2>1 DEF When
    <3> QED  BY <3>1 DEF Calm
  <2>2. CASE ~ \E p \in Callers : call[p].job = i
    <3>1. About(i)' = About(i) /\ \A p \in About(i) : call'[p] = call[p]
      BY <1>3, <2>2, QueueAssumption DEF About, NoCall
    <3>2. Untouched(i)
      BY <1>2, <3>1 DEF Untouched, Boot
    <3>3. (i \in dead' <=> i \in dead) \/ marks'[i] # {}
      <4>1. i \in gone => "trimmed" \in marks'[i]
        BY <1>2 DEF When
      <4> QED  BY <1>2, <4>1
    <3> QED  BY <3>2, <3>3, UntouchedStays DEF QInv
  <2> QED  BY <2>1, <2>2
<1> QED  BY <1>1, <1>4, <1>5, <1>6 DEF QInv

\* The one entry goes from the stream to the worker.
LEMMA TakeKeepsQInv ==
  ASSUME QInv, NEW j \in Jobs, Take(j)
  PROVE  QInv'
<1> USE CallersApart
<1> DEFINE p == "worker"
           new == [kind |-> "take", job |-> j, todo |-> <<Plain("hincr"), Expire>>]
           why == When(About(j) # {}, "outrun")
<1>1. IInv /\ IInv'
  BY TakeKeepsInv DEF QInv
<1>2. call' = [call EXCEPT ![p] = new] /\ call'[p] = new
  BY <1>1 DEF Take, Begin, IInv, CallsFit
<1>3. Shaped'
  BY <1>1, <1>2, ListsShaped, ShapedStep DEF QInv
<1>4. call[p].job = "none" /\ call[p].kind = "idle"
  BY <1>1 DEF Take, Idle, IInv, CallsFit, Fits
<1>5. marks'[j] = marks[j] \cup why /\ \A i \in Jobs : marks[i] \subseteq marks'[i]
  <2>1. why \in SUBSET Mark
    BY DEF When, Mark
  <2> QED  BY <1>1, <2>1, MarkedJob DEF Take
<1>6. ASSUME NEW i \in Jobs, i # j PROVE Untouched(i) /\ (i \in dead' <=> i \in dead)
  <2>1. call' = [call EXCEPT ![p] = call'[p]]
    <3> HIDE DEF new
    <3> QED  BY <1>2
  <2>2. call'[p].job = j
    BY <1>2
  <2>3. /\ hash'[i] = hash[i] /\ unread'[i] = unread[i]
        /\ i \in DOMAIN delayed' <=> i \in DOMAIN delayed
        /\ i \in ended' <=> i \in ended
        /\ dead' = dead
    BY <1>1, <1>6 DEF Take, IInv, Store
  <2>4. Untouched(i)
    BY <1>1, <1>4, <1>5, <1>6, <2>1, <2>2, <2>3, OthersUntouched
  <2> QED  BY <2>4, <2>3
<1>7. \A q \in Processes : q # p => call'[q] = call[q]
  BY <1>2
<1>8. p \notin About(j) /\ About(j)' = About(j) \cup {p}
  BY <1>2, <1>4, <1>7, QueueAssumption DEF About
<1>9. /\ unread[j] > 0 /\ unread[j] \in Nat /\ unread'[j] = unread[j] - 1
      /\ hash' = hash /\ delayed' = delayed /\ dead' = dead /\ ended' = ended
      /\ Known(j)' <=> Known(j)
  BY <1>1 DEF Take, IInv, Store, Known
<1>10. Calm(j)' => Calm(j)
  BY <1>5 DEF Calm
<1>11. \A q \in About(j) : (Holds(q)' <=> Holds(q)) /\ call'[q] = call[q]
  BY <1>7, <1>8 DEF Holds, Gives, About
<1>12. ASSUME Calm(j)' PROVE Single(j)' /\ unread[j] = 1 /\ Nowhere(j)'
  <2>1. Single(j) /\ AtOnePlace(j)
    BY <1>10, <1>12 DEF QInv, Single
  <2>2. unread[j] = 1 /\ unread'[j] = 0 /\ j \notin DOMAIN delayed /\ j \notin ended
    BY <1>9, <2>1 DEF AtOnePlace
  <2>3. ~Held(j)
    BY <2>1, <2>2 DEF AtOnePlace, Nowhere
  <2>4. Nowhere(j)'
    BY <1>9, <2>2 DEF Nowhere
  <2>5. \A q \in About(j)' : Holds(q)' => q = p
    BY <1>8, <1>11, <2>3 DEF Held
  <2>6. AtOnePlace(j)'
    BY <2>2, <2>4, <2>5, <1>9 DEF AtOnePlace
  <2>7. Known(j) \/ Enqueued(j)
    BY <2>1, <2>2 DEF Single, Nowhere
  <2>8. Known(j)' \/ Enqueued(j)'
    BY <1>8, <1>9, <1>11, <2>7 DEF Enqueued
  <2>9. \A q \in About(j)' : call'[q].kind = "enqueue" => Pends(q, "hnew")' \/ Known(j)'
    BY <1>2, <1>8, <1>9, <1>11, <2>1 DEF Single, Pends
  <2> QED  BY <2>2, <2>4, <2>6, <2>8, <2>9 DEF Single
<1>13. ASSUME marks'[j] = {} PROVE Tidy(j)'
  <2>1. marks[j] = {} /\ Tidy(j) /\ About(j) = {}
    BY <1>5, <1>13 DEF QInv, When
  <2>2. Quiet(j)
    BY <2>1 DEF Tidy
  <2>3. Place(j) = "QUEUED"
    BY <1>9 DEF Place
  <2>4. hash[j].status = "QUEUED"
    BY <2>2, <2>3 DEF Quiet
  <2>5. Known(j) /\ hash[j].ttl /\ hash[j].payload
    BY <2>2, <2>4 DEF Quiet, Known, Missing
  <2>6. Underway(p, j)'
    BY <1>2, <1>9, <2>5 DEF Underway
  <2> QED  BY <1>8, <2>1, <2>6 DEF Tidy
<1>14. (dead \subseteq ended)'
  BY <1>9 DEF QInv
<1> QED  BY <1>1, <1>3, <1>6, <1>12, <1>13, <1>14, OneJobEnough

\* The delayed retry goes to the scheduler.
LEMMA PopKeepsQInv ==
  ASSUME QInv, NEW j \in Jobs, Pop(j)
  PROVE  QInv'
<1> USE CallersApart
<1> DEFINE p == "scheduler"
           todo == Popped(delayed[j])
           new == [kind |-> "pop", job |-> j, todo |-> todo]
           why == When(About(j) # {}, "outrun")
<1>1. IInv /\ IInv'
  BY PopKeepsInv DEF QInv
<1>2. call' = [call EXCEPT ![p] = new] /\ call'[p] = new
  BY <1>1 DEF Pop, Begin, IInv, CallsFit
<1>3. todo = Requeuing \/ \E d \in Nat : todo = <<ZAdd(d)>>
  BY <1>1 DEF Pop, Popped, IInv, Store
<1> HIDE DEF todo
<1>4. Shaped'
  <2>1. Shape(new)
    BY <1>3, ListsShaped
  <2> QED  BY <1>1, <1>2, <2>1, ShapedStep DEF QInv
<1>5. call[p].job = "none" /\ call[p].kind = "idle"
  BY <1>1 DEF Pop, Idle, IInv, CallsFit, Fits
<1>6. marks'[j] = marks[j] \cup why /\ \A i \in Jobs : marks[i] \subseteq marks'[i]
  <2>1. why \in SUBSET Mark
    BY DEF When, Mark
  <2> QED  BY <1>1, <2>1, MarkedJob DEF Pop
<1>7. ASSUME NEW i \in Jobs, i # j PROVE Untouched(i) /\ (i \in dead' <=> i \in dead)
  <2>1. call' = [call EXCEPT ![p] = call'[p]]
    <3> HIDE DEF new
    <3> QED  BY <1>2
  <2>2. call'[p].job = j
    BY <1>2
  <2>3. /\ hash'[i] = hash[i] /\ unread'[i] = unread[i]
        /\ i \in DOMAIN delayed' <=> i \in DOMAIN delayed
        /\ i \in ended' <=> i \in ended
        /\ dead' = dead
    BY <1>1, <1>7 DEF Pop
  <2>4. Untouched(i)
    BY <1>1, <1>5, <1>6, <1>7, <2>1, <2>2, <2>3, OthersUntouched
  <2> QED  BY <2>4, <2>3
<1>8. \A q \in Processes : q # p => call'[q] = call[q]
  BY <1>2
<1>9. p \notin About(j) /\ About(j)' = About(j) \cup {p}
  BY <1>2, <1>5, <1>8, QueueAssumption DEF About
<1>10. /\ unread[j] \in Nat /\ unread' = unread /\ j \in DOMAIN delayed
       /\ j \notin DOMAIN delayed'
       /\ hash' = hash /\ dead' = dead /\ ended' = ended
       /\ Known(j)' <=> Known(j)
  BY <1>1 DEF Pop, IInv, Store, Known
<1>11. Calm(j)' => Calm(j)
  BY <1>6 DEF Calm
<1>12. \A q \in About(j) : (Holds(q)' <=> Holds(q)) /\ call'[q] = call[q]
  BY <1>8, <1>9 DEF Holds, Gives, About
<1>13. ASSUME Calm(j)' PROVE Single(j)' /\ unread[j] = 0 /\ Nowhere(j)'
  <2>1. Single(j) /\ AtOnePlace(j)
    BY <1>11, <1>13 DEF QInv, Single
  <2>2. unread[j] = 0 /\ j \notin ended
    BY <1>10, <2>1 DEF AtOnePlace
  <2>3. ~Held(j)
    BY <1>10, <2>1 DEF AtOnePlace, Nowhere
  <2>4. Nowhere(j)'
    BY <1>10, <2>2 DEF Nowhere
  <2>5. \A q \in About(j)' : Holds(q)' => q = p
    BY <1>9, <1>12, <2>3 DEF Held
  <2>6. AtOnePlace(j)'
    BY <2>2, <2>4, <2>5, <1>10 DEF AtOnePlace
  <2>7. Known(j) \/ Enqueued(j)
    BY <1>10, <2>1 DEF Single, Nowhere
  <2>8. Known(j)' \/ Enqueued(j)'
    BY <1>9, <1>10, <1>12, <2>7 DEF Enqueued
  <2>9. \A q \in About(j)' : call'[q].kind = "enqueue" => Pends(q, "hnew")' \/ Known(j)'
    BY <1>2, <1>9, <1>10, <1>12, <2>1 DEF Single, Pends
  <2> QED  BY <2>2, <2>4, <2>6, <2>8, <2>9 DEF Single
<1>14. ASSUME marks'[j] = {} PROVE Tidy(j)'
  <2>1. marks[j] = {} /\ Tidy(j) /\ About(j) = {} /\ Calm(j)'
    BY <1>6, <1>14 DEF QInv, When, Calm
  <2>2. Quiet(j)
    BY <2>1 DEF Tidy
  <2>3. Place(j) = "RETRY_SCHEDULED"
    <3>1. ~(unread[j] > 0) /\ j \in DOMAIN delayed
      BY <2>1, <1>10, <1>13
    <3> QED  BY <3>1 DEF Place
  <2>4. hash[j].status = "RETRY_SCHEDULED"
    BY <2>2, <2>3 DEF Quiet
  <2>5. Known(j) /\ hash[j].ttl /\ hash[j].payload
    BY <2>2, <2>4 DEF Quiet, Known, Missing
  <2>6. /\ \A i \in 1 .. Len(todo) : Writes(todo[i]) => Says(todo[i]) = Target(Head(todo))
        /\ (\E i \in 1 .. Len(todo) : Writes(todo[i])) \/ Target(Head(todo)) = "RETRY_SCHEDULED"
        /\ todo # <<>> /\ Giving(Head(todo))
    BY <1>3, RequeuingSays, PuttingBackSays
  <2>7. call'[p].todo = todo /\ call'[p].kind = "pop"
    BY <1>2
  <2>8. Aim(p, j)' = Target(Head(todo))
    BY <2>6, <2>7 DEF Aim, Gives
  <2>9. Underway(p, j)'
    BY <1>10, <2>4, <2>5, <2>6, <2>7, <2>8 DEF Underway
  <2> QED  BY <1>9, <2>1, <2>9 DEF Tidy
<1>15. (dead \subseteq ended)'
  BY <1>10 DEF QInv
<1> QED  BY <1>1, <1>4, <1>7, <1>13, <1>14, <1>15, OneJobEnough

\* The worker holds what it takes until it settles it.
LEMMA SettleKeepsQInv ==
  ASSUME QInv, Settle
  PROVE  QInv'
<1> USE CallersApart
<1> DEFINE p == "worker"
<1>1. IInv /\ IInv'
  BY SettleKeepsInv DEF QInv
<1>2. PICK j \in Jobs : j = call[p].job
  BY <1>1 DEF Settle, IInv, CallsFit, Fits
<1>3. PICK d \in Nat : \E s \in {Finishing, Retrying(d), Burying} : Begin(p, "settle", j, s)
  <2>1. \A n : Delays(n) \subseteq Nat
    BY QueueAssumption DEF Delays
  <2>2. now \in Nat
    BY <1>1 DEF IInv, Rest
  <2>3. \A n : \A d \in Delays(n) : now + d \in Nat
    BY <2>1, <2>2
  <2> QED  BY <1>2, <2>2, <2>3 DEF Settle
<1>4. PICK s \in {Finishing, Retrying(d), Burying} : Begin(p, "settle", j, s)
  BY <1>3
<1> DEFINE new == [kind |-> "settle", job |-> j, todo |-> s]
<1>5. call' = [call EXCEPT ![p] = new] /\ call'[p] = new
  BY <1>1, <1>4 DEF Begin, IInv, CallsFit
<1>6. call[p].kind = "take" /\ call[p].todo = <<>>
  BY <1>1 DEF Settle, IInv, CallsFit, Fits
<1>7. Shaped'
  <2>1. Shape(new)
    BY <1>6, ListsShaped
  <2> QED  BY <1>1, <1>5, <2>1, ShapedStep DEF QInv
<1>8. /\ hash' = hash /\ unread' = unread /\ delayed' = delayed /\ dead' = dead
      /\ ended' = ended /\ marks' = marks
      /\ (Nowhere(j)' <=> Nowhere(j)) /\ (Known(j)' <=> Known(j))
  BY DEF Settle, store, history, Nowhere, Known
<1>9. ASSUME NEW i \in Jobs, i # j PROVE Untouched(i) /\ (i \in dead' <=> i \in dead)
  <2>1. call' = [call EXCEPT ![p] = call'[p]]
    <3> HIDE DEF new
    <3> QED  BY <1>5
  <2>2. call'[p].job = j /\ call[p].job = j
    BY <1>2, <1>5
  <2>3. Untouched(i)
    BY <1>1, <1>6, <1>8, <1>9, <2>1, <2>2, OthersUntouched
  <2> QED  BY <2>3, <1>8
<1>10. \A q \in Processes : q # p => call'[q] = call[q]
  BY <1>5
<1>11. p \in About(j) /\ About(j)' = About(j)
  BY <1>2, <1>5, <1>10 DEF About
<1>12. call'[p].todo = s /\ call'[p].kind = "settle"
  BY <1>5
<1>13. Gives(p)' /\ Holds(p)' /\ Holds(p)
  BY <1>6, <1>12, SettlingSays DEF Gives, Holds
<1>14. \A q \in About(j) : (Holds(q)' <=> Holds(q)) /\ (q # p => call'[q] = call[q])
  BY <1>10, <1>13 DEF Holds, Gives, About
<1>15. ASSUME Calm(j)' PROVE Single(j)'
  <2>1. Single(j) /\ AtOnePlace(j)
    BY <1>6, <1>8, <1>15 DEF QInv, Single, Calm
  <2>2. Held(j) /\ Held(j)'
    BY <1>11, <1>13 DEF Held
  <2>3. AtOnePlace(j)'
    BY <1>8, <1>11, <1>14, <2>1, <2>2 DEF AtOnePlace
  <2>4. Known(j) \/ Enqueued(j)
    BY <2>1, <2>2 DEF Single
  <2>5. Known(j)' \/ Enqueued(j)'
    BY <1>6, <1>8, <1>11, <1>14, <2>4 DEF Enqueued
  <2>6. \A q \in About(j)' : call'[q].kind = "enqueue" => Pends(q, "hnew")' \/ Known(j)'
    BY <1>8, <1>11, <1>12, <1>14, <2>1 DEF Single, Pends
  <2> QED  BY <2>3, <2>5, <2>6 DEF Single
<1>16. ASSUME marks'[j] = {} PROVE Tidy(j)'
  <2>1. Tidy(j)
    BY <1>6, <1>8, <1>16 DEF QInv
  <2>2. About(j) = {p}
    BY <1>11, <2>1 DEF Tidy
  <2>3. Known(j) /\ hash[j].ttl /\ hash[j].payload
    BY <1>6, <1>11, <2>1 DEF Tidy, Underway
  <2>4. Aim(p, j)' = Target(Head(s))
    BY <1>12, <1>13 DEF Aim
  <2>5. Underway(p, j)'
    BY <1>8, <1>12, <2>3, <2>4, SettlingSays DEF Underway
  <2> QED  BY <1>11, <2>2, <2>5 DEF Tidy
<1>17. (dead \subseteq ended)'
  BY <1>8 DEF QInv
<1> QED  BY <1>1, <1>7, <1>6, <1>9, <1>15, <1>16, <1>17, OneJobEnough

\* Time touches no job.
LEMMA TickKeepsQInv ==
  ASSUME QInv, Tick
  PROVE  QInv'
<1>1. IInv'
  BY TickKeepsInv DEF QInv
<1>2. \A j \in Jobs : Untouched(j) /\ (j \in dead' <=> j \in dead)
  BY DEF Tick, store, history, Untouched, About
<1>3. Shaped' /\ (dead \subseteq ended)'
  BY DEF QInv, Shaped, Tick, store, history
<1> QED  BY <1>1, <1>2, <1>3, UntouchedStays DEF QInv

\* What a command does to the status, the payload and the time to live.
LEMMA WrittenEffect ==
  ASSUME NEW h \in Hash, NEW c \in Command, c.op = "hset" <=> c.status # "none"
  PROVE  /\ Writes(c) => Written(h, c).status = Says(c) /\ Says(c) # "none"
         /\ ~Writes(c) => Written(h, c).status = h.status
         /\ h.payload \/ c.op = "hnew" => Written(h, c).payload
         /\ h.ttl => Written(h, c).ttl
         /\ c.op = "expire" /\ h.payload => Written(h, c).ttl
<1> USE DEF Hash, Command, Status, Writes, Says
<1>1. CASE c.op = "hnew"  BY <1>1 DEF Written
<1>2. CASE c.op = "hset"  BY <1>2 DEF Written
<1>3. CASE c.op = "hincr"  BY <1>3 DEF Written
<1>4. CASE c.op = "expire"  BY <1>4 DEF Written, Missing
<1>5. CASE c.op \notin {"hnew", "hset", "hincr", "expire"}
  <2>1. Written(h, c) = h
    BY <1>5 DEF Written
  <2> QED  BY <1>5, <2>1
<1> QED  BY <1>1, <1>2, <1>3, <1>4, <1>5

\* What is left of a list gives nothing away.
LEMMA RestShaped ==
  ASSUME NEW p \in Processes, NEW r, Fits(p, r), Shape(r), r.todo # <<>>
  PROVE  /\ \A i \in 1 .. Len(Tail(r.todo)) :
              Tail(r.todo)[i] = r.todo[i + 1] /\ i + 1 \in 1 .. Len(r.todo)
         /\ \A i \in 1 .. Len(Tail(r.todo)) : ~Giving(Tail(r.todo)[i])
         /\ Tail(r.todo) # <<>> => ~Giving(Head(Tail(r.todo)))
         /\ r.kind = "take" => ~Giving(Head(r.todo))
         /\ Tail(r.todo) # <<>> \/ r.kind = "take"
              => Shape([r EXCEPT !.todo = Tail(r.todo)])
         /\ Tail(r.todo) = <<>> => Len(r.todo) = 1
<1> DEFINE t == Tail(r.todo)
<1>1. /\ r.todo \in Seq(Command) /\ t \in Seq(Command) /\ Len(t) = Len(r.todo) - 1
      /\ Len(r.todo) \in Nat /\ Len(r.todo) >= 1
      /\ \A i \in 1 .. Len(t) : t[i] = r.todo[i + 1] /\ i + 1 \in 1 .. Len(r.todo) /\ i + 1 # 1
  BY DEF Fits
<1>2. \A i \in 1 .. Len(t) : ~Giving(t[i])
  BY <1>1 DEF Shape
<1>3. t # <<>> => 1 \in 1 .. Len(t) /\ Head(t) = t[1]
  BY <1>1
<1>4. 1 \in 1 .. Len(r.todo) /\ Head(r.todo) = r.todo[1]
  BY <1>1
<1>5. r.kind = "take" => ~Giving(Head(r.todo))
  BY <1>4 DEF Shape, Giving
<1>6. ASSUME t # <<>> \/ r.kind = "take" PROVE Shape([r EXCEPT !.todo = t])
  <2> DEFINE n == [r EXCEPT !.todo = t]
  <2>1. n.kind = r.kind /\ n.todo = t
    BY DEF Fits
  <2>2. \A i \in 1 .. Len(t) : t[i].op = "hset" <=> t[i].status # "none"
    BY <1>1 DEF Shape
  <2>3. r.kind = "take" => \A i \in 1 .. Len(t) : t[i].op \in {"hincr", "expire"}
    BY <1>1 DEF Shape
  <2>4. r.kind = "enqueue" => t[Len(t)] = Expire
    <3>1. r.kind = "enqueue" => Len(t) \in 1 .. Len(t)
      BY <1>1, <1>3, <1>6
    <3> QED  BY <1>1, <3>1 DEF Shape
  <2> HIDE DEF n, t
  <2>5. \A i \in 1 .. Len(n.todo) : Giving(n.todo[i]) => i = 1
    BY <1>2, <2>1
  <2>6. Shape(n)
    BY <2>1, <2>2, <2>3, <2>4, <2>5 DEF Shape
  <2> QED  BY <2>6 DEF n
<1>7. t = <<>> => Len(r.todo) = 1
  <2> HIDE DEF t
  <2>1. t = <<>> => Len(t) = 0
    OBVIOUS
  <2> QED  BY <1>1, <2>1
<1> QED  BY <1>1, <1>2, <1>3, <1>5, <1>6, <1>7

\* The main step.  The first command of a list gives the job away, from the one
\* process that held it to one place; the others write what is so already, and
\* the call is not over before the status is written.
LEMMA DoKeepsQInv ==
  ASSUME QInv, NEW p \in Processes, Do(p),
         NEW r, NEW j, NEW c, r = call[p], j = r.job, c = Head(r.todo)
  PROVE  QInv'
<1> DEFINE rest == Tail(r.todo)
           over == rest = <<>> /\ r.kind # "take"
<1>1. IInv /\ IInv'
  BY DoKeepsInv DEF QInv
<1>2. /\ r.todo # <<>> /\ Fits(p, r) /\ Shape(r) /\ j \in Jobs /\ c \in Command
      /\ r.kind # "idle" /\ r.todo \in Seq(Command) /\ c = r.todo[1]
      /\ 1 \in 1 .. Len(r.todo) /\ Len(r.todo) \in Nat
      /\ c.op = "hset" <=> c.status # "none"
  <2>1. r.todo # <<>> /\ Fits(p, r) /\ Shape(r)
    BY <1>1 DEF Do, IInv, CallsFit, QInv, Shaped
  <2>2. /\ j \in Jobs /\ c \in Command /\ r.kind # "idle" /\ r.todo \in Seq(Command)
        /\ c = r.todo[1] /\ 1 \in 1 .. Len(r.todo) /\ Len(r.todo) \in Nat
    BY <2>1 DEF Fits
  <2> QED  BY <2>1, <2>2 DEF Shape
<1>3. \A q \in Processes : q # p => call'[q] = call[q]
  BY <1>1 DEF Do, IInv, CallsFit
<1>4. call'[p] = IF over THEN NoCall ELSE [r EXCEPT !.todo = rest]
  BY <1>1 DEF Do, IInv, CallsFit
<1>5. call' = [call EXCEPT ![p] = call'[p]]
  <2>1. call' = [call EXCEPT ![p] = IF over THEN NoCall ELSE [@ EXCEPT !.todo = rest]]
    BY DEF Do
  <2> QED  BY <1>4, <2>1
<1>6. /\ over => call'[p].kind = "idle" /\ call'[p].job = "none" /\ call'[p].todo = <<>>
      /\ ~over => call'[p].kind = r.kind /\ call'[p].job = j /\ call'[p].todo = rest
  <2>1. over => call'[p].kind = "idle" /\ call'[p].job = "none" /\ call'[p].todo = <<>>
    BY <1>4 DEF NoCall
  <2>2. r \in [kind : Kind, job : Jobs \cup {"none"}, todo : Seq(Command)]
    BY <1>2 DEF Fits
  <2>3. ~over => call'[p] = [r EXCEPT !.todo = rest]
    BY <1>4
  <2> HIDE DEF over, rest
  <2>4. ~over => call'[p].kind = r.kind /\ call'[p].job = j /\ call'[p].todo = rest
    BY <2>2, <2>3
  <2> QED  BY <2>1, <2>4
<1>7. /\ \A i \in 1 .. Len(rest) : rest[i] = r.todo[i + 1] /\ i + 1 \in 1 .. Len(r.todo)
      /\ rest # <<>> => ~Giving(Head(rest))
      /\ r.kind = "take" => ~Giving(c)
      /\ rest # <<>> \/ r.kind = "take" => Shape([r EXCEPT !.todo = rest])
      /\ rest = <<>> => Len(r.todo) = 1
  BY <1>2, RestShaped
<1>8. rest \in Seq(Command) /\ Len(rest) = Len(r.todo) - 1
  BY <1>2
<1> HIDE DEF rest
<1>9. Shaped'
  <2>1. Shape(call'[p])
    BY <1>4, <1>7, ListsShaped
  <2> QED  BY <1>1, <1>5, <2>1, ShapedStep DEF QInv
<1>10. (dead \subseteq ended)'
  BY DEF QInv, Do
<1>11. marks' = marks
  BY DEF Do
<1>12. ASSUME NEW i \in Jobs, i # j PROVE Untouched(i) /\ (i \in dead' <=> i \in dead)
  <2>1. /\ hash'[i] = hash[i] /\ unread'[i] = unread[i]
        /\ i \in ended' <=> i \in ended
        /\ i \in dead' <=> i \in dead
    BY <1>1, <1>2, <1>12 DEF Do, IInv, Store
  <2>2. i \in DOMAIN delayed' <=> i \in DOMAIN delayed
    BY <1>12 DEF Do, Scheduled
  <2>3. call[p].job \in {j, "none"} /\ call'[p].job \in {j, "none"}
    BY <1>6
  <2>4. marks[i] \subseteq marks'[i]
    BY <1>11
  <2>5. Untouched(i)
    BY <1>1, <1>2, <1>5, <1>12, <2>1, <2>2, <2>3, <2>4, OthersUntouched
  <2> QED  BY <2>1, <2>5
<1>13. hash[j] \in Hash /\ hash'[j] = Written(hash[j], c)
  BY <1>1, <1>2 DEF Do, IInv, Store
<1>14. /\ Writes(c) => hash'[j].status = Says(c) /\ Says(c) # "none"
       /\ ~Writes(c) => hash'[j].status = hash[j].status
       /\ hash[j].payload \/ c.op = "hnew" => hash'[j].payload
       /\ hash[j].ttl => hash'[j].ttl
       /\ c.op = "expire" /\ hash[j].payload => hash'[j].ttl
  BY <1>2, <1>13, WrittenEffect
<1>15. (Known(j) => Known(j)') /\ (Writes(c) => Known(j)')
  BY <1>14 DEF Known
<1>16. /\ unread[j] \in Nat
       /\ unread'[j] = IF c.op = "xadd" THEN unread[j] + 1 ELSE unread[j]
       /\ j \in DOMAIN delayed' <=> j \in DOMAIN delayed \/ c.op = "zadd"
       /\ j \in ended' <=> j \in ended \/ c.op = "dlq" \/ c.status = "DONE"
       /\ j \in dead' <=> j \in dead \/ c.op = "dlq"
  BY <1>1, <1>2 DEF Do, IInv, Store, Count, Scheduled
<1>17. c.status = "DONE" => c.op = "hset"
  BY <1>2
<1>18. /\ ~Giving(c) => (Nowhere(j)' <=> Nowhere(j)) /\ Place(j)' = Place(j)
       /\ ~Giving(c) => (AtOnePlace(j) <=> /\ \A q, s \in About(j) : Holds(q) /\ Holds(s) => q = s
                                           /\ Held(j) => Nowhere(j)
                                           /\ unread'[j] <= 1
                                           /\ unread'[j] = 1 => j \notin DOMAIN delayed' /\ j \notin ended'
                                           /\ j \in DOMAIN delayed' => j \notin ended')
  BY <1>16 DEF Giving, Nowhere, Place, AtOnePlace
<1>19. ASSUME Giving(c), Nowhere(j)
       PROVE  /\ unread'[j] <= 1
              /\ unread'[j] = 1 => j \notin DOMAIN delayed' /\ j \notin ended'
              /\ j \in DOMAIN delayed' => j \notin ended'
              /\ Place(j)' = Target(c)
  BY <1>16, <1>17, <1>19 DEF Giving, Nowhere, Place, Target, QInv
<1>20. p \in About(j) /\ About(j)' = IF over THEN About(j) \ {p} ELSE About(j)
  BY <1>2, <1>3, <1>6, QueueAssumption DEF About
<1>21. \A q \in About(j) : q # p =>
         /\ call'[q] = call[q] /\ (Holds(q)' <=> Holds(q))
         /\ \A op : Pends(q, op)' <=> Pends(q, op)
  BY <1>3 DEF About, Holds, Gives, Pends
<1>22. /\ Gives(p) <=> Giving(c)
       /\ ~Gives(p)' /\ (Holds(p)' <=> r.kind = "take")
       /\ Holds(p) <=> r.kind = "take" \/ Giving(c)
  BY <1>2, <1>6, <1>7 DEF Holds, Gives
<1>23. Pends(p, "hnew") => c.op = "hnew" \/ (Pends(p, "hnew")' /\ ~over)
  <2> SUFFICES ASSUME NEW i \in 1 .. Len(r.todo), r.todo[i].op = "hnew", i # 1
               PROVE  Pends(p, "hnew")' /\ ~over
    BY <1>2 DEF Pends
  <2>1. i - 1 \in 1 .. Len(rest)
    BY <1>2, <1>8
  <2>2. rest[i - 1] = r.todo[i] /\ rest # <<>>
    BY <1>7, <1>8, <2>1
  <2> QED  BY <1>6, <1>8, <2>1, <2>2 DEF Pends
<1>24. ASSUME Single(j) PROVE Single(j)'
  <2>1. AtOnePlace(j)'
    <3>1. CASE Giving(c)
      <4>1. Holds(p) /\ Held(j) /\ Nowhere(j)
        BY <1>20, <1>22, <1>24, <3>1 DEF Held, Single, AtOnePlace
      <4>2. ~Held(j)'
        BY <1>7, <1>20, <1>21, <1>22, <1>24, <3>1, <4>1 DEF Held, Single, AtOnePlace
      <4> QED  BY <1>19, <3>1, <4>1, <4>2 DEF AtOnePlace, Held
    <3>2. CASE ~Giving(c)
      <4>1. Holds(p)' <=> Holds(p)
        BY <1>22, <3>2
      <4>2. \A q \in About(j)' : q \in About(j) /\ (Holds(q)' => Holds(q))
        BY <1>20, <1>21, <4>1
      <4>3. Held(j)' => Held(j)
        BY <4>2 DEF Held
      <4>4. (Nowhere(j)' <=> Nowhere(j)) /\ (Held(j) => Nowhere(j))
        BY <1>18, <1>24, <3>2 DEF Single, AtOnePlace
      <4>5. \A q, s \in About(j) : Holds(q) /\ Holds(s) => q = s
        BY <1>24 DEF Single, AtOnePlace
      <4>6. /\ unread'[j] <= 1
            /\ unread'[j] = 1 => j \notin DOMAIN delayed' /\ j \notin ended'
            /\ j \in DOMAIN delayed' => j \notin ended'
        BY <1>18, <1>24, <3>2 DEF Single
      <4> QED  BY <4>2, <4>3, <4>4, <4>5, <4>6 DEF AtOnePlace
    <3> QED  BY <3>1, <3>2
  <2>2. ASSUME ~Known(j)', ~Enqueued(j)' PROVE Nowhere(j)' /\ ~Held(j)'
    <3>1. ~Known(j) /\ ~Writes(c)
      BY <1>15, <2>2
    <3>2. ~Enqueued(j)
      <4>1. r.kind # "enqueue"
        <5>1. r.kind = "enqueue" => over
          BY <1>6, <1>20, <2>2 DEF Enqueued
        <5>2. r.kind = "enqueue" => Pends(p, "hnew")
          BY <1>20, <1>24, <3>1 DEF Single
        <5> QED  BY <1>23, <3>1, <5>1, <5>2 DEF Writes
      <4> QED  BY <1>20, <1>21, <2>2, <4>1 DEF Enqueued
    <3>3. Nowhere(j) /\ ~Held(j)
      BY <1>24, <3>1, <3>2 DEF Single
    <3>4. ~Giving(c) /\ r.kind # "take"
      BY <1>20, <1>22, <3>3 DEF Held
    <3> QED  BY <1>18, <1>20, <1>21, <1>22, <3>3, <3>4 DEF Held
  <2>3. ASSUME NEW q \in About(j)', call'[q].kind = "enqueue"
        PROVE  Pends(q, "hnew")' \/ Known(j)'
    <3>1. q \in About(j)
      BY <1>20
    <3>2. CASE q # p
      BY <1>15, <1>21, <1>24, <2>3, <3>1, <3>2 DEF Single
    <3>3. CASE q = p
      <4>1. r.kind = "enqueue"
        BY <1>6, <2>3, <3>3
      <4>2. Pends(p, "hnew") \/ Known(j)
        BY <1>24, <3>1, <3>3, <4>1 DEF Single
      <4> QED  BY <1>15, <1>23, <3>3, <4>2 DEF Writes
    <3> QED  BY <3>2, <3>3
  <2> QED  BY <2>1, <2>2, <2>3 DEF Single
<1>25. ASSUME marks[j] = {} PROVE Tidy(j)'
  <2>1. Tidy(j) /\ Single(j)
    BY <1>2, <1>25 DEF QInv, Calm
  <2>2. Underway(p, j) /\ About(j) = {p}
    BY <1>20, <2>1 DEF Tidy
  <2>3. Place(j)' = Aim(p, j)
    <3>1. CASE Giving(c)
      <4>1. Nowhere(j)
        BY <1>20, <1>22, <2>1, <3>1 DEF Single, AtOnePlace, Held
      <4> QED  BY <1>19, <1>22, <3>1, <4>1 DEF Aim
    <3>2. CASE ~Giving(c)
      BY <1>18, <1>22, <3>2 DEF Aim
    <3> QED  BY <3>1, <3>2
  <2>4. Aim(p, j)' = Place(j)'
    BY <1>22 DEF Aim
  <2>5. ASSUME r.kind # "take"
        PROVE  /\ \A i \in 1 .. Len(rest) : Writes(rest[i]) => Says(rest[i]) = Place(j)'
               /\ (\E i \in 1 .. Len(rest) : Writes(rest[i])) \/ hash'[j].status = Place(j)'
    <3>1. /\ \A i \in 1 .. Len(r.todo) : Writes(r.todo[i]) => Says(r.todo[i]) = Place(j)'
          /\ (\E i \in 1 .. Len(r.todo) : Writes(r.todo[i])) \/ hash[j].status = Place(j)'
      BY <2>2, <2>3, <2>5 DEF Underway
    <3>2. Writes(c) => hash'[j].status = Place(j)'
      BY <1>2, <1>14, <3>1
    <3>3. ASSUME NEW i \in 1 .. Len(r.todo), Writes(r.todo[i]), ~Writes(c)
          PROVE  \E k \in 1 .. Len(rest) : Writes(rest[k])
      <4>1. i # 1
        BY <1>2, <3>3
      <4>2. i - 1 \in 1 .. Len(rest)
        BY <1>2, <1>8, <4>1
      <4>3. rest[i - 1] = r.todo[i]
        BY <1>7, <1>8, <4>2
      <4> QED  BY <3>3, <4>2, <4>3
    <3> QED  BY <1>7, <1>14, <3>1, <3>2, <3>3
  <2>6. r.kind # "enqueue" => Known(j)' /\ hash'[j].ttl /\ hash'[j].payload
    BY <1>14, <1>15, <2>2 DEF Underway
  <2>7. r.kind = "enqueue" => (Pends(p, "hnew")' /\ ~over) \/ hash'[j].payload
    BY <1>14, <1>23, <2>2 DEF Underway
  <2>8. CASE over
    <3>1. About(j)' = {}
      BY <1>20, <2>2, <2>8
    <3>2. ~ \E i \in 1 .. Len(rest) : Writes(rest[i])
      BY <2>8
    <3>3. hash'[j].status = Place(j)'
      BY <2>5, <2>8, <3>2
    <3>4. r.kind = "enqueue" => hash'[j].ttl /\ hash'[j].payload
      <4>1. r.kind = "enqueue" => c = Expire /\ c.op = "expire"
        BY <1>2, <1>7, <2>8 DEF Shape, Expire, Plain
      <4>2. r.kind = "enqueue" => hash[j].payload
        BY <1>23, <2>2, <2>8, <4>1 DEF Underway
      <4> QED  BY <1>14, <4>1, <4>2
    <3>5. Quiet(j)'
      BY <2>6, <3>3, <3>4 DEF Quiet
    <3> QED  BY <3>1, <3>5 DEF Tidy
  <2>9. CASE ~over
    <3>1. About(j)' = {p}
      BY <1>20, <2>2, <2>9
    <3>2. call'[p].kind = r.kind /\ call'[p].todo = rest
      BY <1>6, <2>9
    <3>3. Underway(p, j)'
      BY <2>4, <2>5, <2>6, <2>7, <3>2 DEF Underway
    <3> QED  BY <3>1, <3>3 DEF Tidy
  <2> QED  BY <2>8, <2>9
<1>26. Calm(j)' => Single(j)'
  BY <1>2, <1>11, <1>24 DEF Calm, QInv
<1>27. marks'[j] = {} => Tidy(j)'
  BY <1>11, <1>25
<1> QED  BY <1>1, <1>2, <1>9, <1>10, <1>12, <1>26, <1>27, OneJobEnough

-----------------------------------------------------------------------------
\* The stronger invariant holds for ever too.
THEOREM PlaceInvariance == Spec => []QInv
<1>1. ASSUME QInv, [Next]_vars PROVE QInv'
  <2>1. ASSUME NEW p \in Callers, NEW j \in Jobs, Enqueue(p, j) PROVE QInv'
    BY <1>1, <2>1, EnqueueKeepsQInv
  <2>2. ASSUME NEW p \in Callers, NEW j \in Jobs, Retry(p, j) PROVE QInv'
    BY <1>1, <2>2, RetryKeepsQInv
  <2>3. ASSUME NEW p \in Processes, Do(p) PROVE QInv'
    BY <1>1, <2>3, DoKeepsQInv
  <2>4. ASSUME NEW p \in Processes, Fail(p) PROVE QInv'
    BY <1>1, <2>4, FailKeepsQInv
  <2>5. ASSUME NEW j \in Jobs, Take(j) PROVE QInv'
    BY <1>1, <2>5, TakeKeepsQInv
  <2>6. ASSUME NEW j \in Jobs, Pop(j) PROVE QInv'
    BY <1>1, <2>6, PopKeepsQInv
  <2>7. ASSUME NEW j \in Jobs, Lose(j) PROVE QInv'
    BY <1>1, <2>7, LoseKeepsQInv
  <2>8. CASE Settle \/ Tick \/ Boot
    BY <1>1, <2>8, SettleKeepsQInv, TickKeepsQInv, BootKeepsQInv
  <2>9. CASE UNCHANGED vars
    <3>1. \A j \in Jobs : Untouched(j) /\ (j \in dead' <=> j \in dead)
      BY <2>9 DEF vars, store, history, Untouched, About
    <3>2. IInv'
      <4>1. \A i : (Elsewhere(i) <=> Elsewhere(i)') /\ (Safe(i) <=> Safe(i)')
        BY <2>9 DEF Elsewhere, Safe, OnlyHere, vars, store, history
      <4> QED
        BY <1>1, <2>9, <4>1 DEF QInv, IInv, Store, Rest, CallsFit, WorkerHolds, GivenAway,
                                Sent, KnownSafe, vars, store, history
    <3>3. Shaped' /\ (dead \subseteq ended)'
      BY <1>1, <2>9 DEF QInv, Shaped, vars, store, history
    <3> QED  BY <1>1, <3>1, <3>2, <3>3, UntouchedStays DEF QInv
  <2> QED
    BY <1>1, <2>1, <2>2, <2>3, <2>4, <2>5, <2>6, <2>7, <2>8, <2>9 DEF Next
<1> QED  BY InitQInv, <1>1, PTL DEF Spec

\* A set within a singleton is empty or that singleton.
LEMMA AtMostOne ==
  ASSUME NEW S, NEW x, S \subseteq {x}
  PROVE  (S = {} /\ Cardinality(S) = 0) \/ (S = {x} /\ Cardinality(S) = 1)
<1>1. S = {} \/ S = {x}
  OBVIOUS
<1> QED  BY <1>1, FS_EmptySet, FS_Singleton

\* An idempotency key buys one run, unless one of four marks explains another.
THEOREM OneRunIsAhead == Spec => []OneRunAhead
<1>1. QInv => OneRunAhead
  <2> SUFFICES ASSUME QInv, NEW j \in Jobs, Calm(j)
               PROVE  Chances(j) + Cardinality({j} \cap ended) <= 1
    BY DEF OneRunAhead, Calm
  <2> DEFINE A == {p \in About(j) : Pends(p, "xadd") \/ Pends(p, "zadd")}
             B == {p \in About(j) : call[p].kind = "take"}
             D == {j} \cap DOMAIN delayed
             E == {j} \cap ended
  <2>1. AtOnePlace(j)
    BY DEF QInv, Single
  <2>2. ASSUME NEW p \in A PROVE Holds(p) /\ p \notin B
    <3>1. p \in Processes /\ Shape(call[p]) /\ call[p].todo \in Seq(Command)
      BY DEF QInv, IInv, CallsFit, Fits, Shaped, About
    <3>2. PICK i \in 1 .. Len(call[p].todo) : call[p].todo[i].op \in {"xadd", "zadd"}
      BY <3>1 DEF Pends
    <3>3. Giving(call[p].todo[i]) /\ i = 1
      BY <3>1, <3>2 DEF Shape, Giving
    <3>4. call[p].todo # <<>> /\ Head(call[p].todo) = call[p].todo[1]
      BY <3>1, <3>2
    <3>5. call[p].kind # "take"
      BY <3>1, <3>2 DEF Shape
    <3> QED  BY <3>3, <3>4, <3>5 DEF Holds, Gives
  <2>3. \A p \in B : Holds(p)
    BY DEF Holds
  <2>4. unread[j] \in Nat
    BY DEF QInv, IInv, Store
  <2>5. /\ (D = {} /\ Cardinality(D) = 0) \/ (j \in DOMAIN delayed /\ Cardinality(D) = 1)
        /\ (E = {} /\ Cardinality(E) = 0) \/ (j \in ended /\ Cardinality(E) = 1)
    <3>1. D \subseteq {j} /\ E \subseteq {j} /\ (D = {j} => j \in DOMAIN delayed)
          /\ (E = {j} => j \in ended)
      OBVIOUS
    <3> HIDE DEF D, E
    <3>2. (D = {} /\ Cardinality(D) = 0) \/ (D = {j} /\ Cardinality(D) = 1)
      BY <3>1, AtMostOne
    <3>3. (E = {} /\ Cardinality(E) = 0) \/ (E = {j} /\ Cardinality(E) = 1)
      BY <3>1, AtMostOne
    <3> QED  BY <3>1, <3>2, <3>3
  <2> HIDE DEF A, B, D, E
  <2>6. /\ Cardinality(A) \in {0, 1} /\ Cardinality(B) \in {0, 1}
        /\ \/ Cardinality(A) + Cardinality(B) = 0
           \/ Cardinality(A) + Cardinality(B) = 1 /\ Held(j)
    <3>1. CASE \E p \in About(j) : Holds(p)
      <4>1. PICK p \in About(j) : Holds(p)
        BY <3>1
      <4>2. A \subseteq {p} /\ B \subseteq {p}
        BY <2>1, <2>2, <2>3, <4>1 DEF AtOnePlace, A, B
      <4>3. ~(A = {p} /\ B = {p})
        BY <2>2
      <4>4. \/ A = {} /\ Cardinality(A) = 0
            \/ A = {p} /\ Cardinality(A) = 1
        BY <4>2, AtMostOne
      <4>5. \/ B = {} /\ Cardinality(B) = 0
            \/ B = {p} /\ Cardinality(B) = 1
        BY <4>2, AtMostOne
      <4> QED  BY <3>1, <4>3, <4>4, <4>5 DEF Held
    <3>2. CASE ~ \E p \in About(j) : Holds(p)
      <4>1. A = {} /\ B = {}
        BY <2>2, <2>3, <3>2 DEF A, B
      <4>2. Cardinality({}) = 0
        BY FS_EmptySet
      <4> QED  BY <4>1, <4>2
    <3> QED  BY <3>1, <3>2
  <2>7. Chances(j) = unread[j] + Cardinality(D) + Cardinality(A) + Cardinality(B)
    BY DEF Chances, A, B, D
  <2>8. unread[j] + Cardinality(D) + (Cardinality(A) + Cardinality(B)) + Cardinality(E) <= 1
    BY <2>1, <2>4, <2>5, <2>6 DEF AtOnePlace, Nowhere
  <2> QED  BY <2>4, <2>5, <2>6, <2>7, <2>8 DEF E
<1> QED  BY PlaceInvariance, <1>1, PTL

\* When nobody is at work on it, what /jobs says of a job is where it is.
THEOREM StatusTellsPlace == Spec => []StatusIsPlace
<1>1. QInv => StatusIsPlace
  BY DEF QInv, Tidy, Quiet, StatusIsPlace
<1> QED  BY PlaceInvariance, <1>1, PTL
=============================================================================

------------------------------- MODULE JobQueue -------------------------------
(***************************************************************************)
(* The asynchronous job queue, apex_common/redis_queue.py, with the two    *)
(* endpoints of maestro_v3.py that write to it: a hash per job, a stream   *)
(* read by a consumer group, a sorted set of delayed retries and a stream  *)
(* of dead letters, all in Redis.                                          *)
(*                                                                         *)
(* Every helper is a few Redis calls with an await between them.  A call   *)
(* in flight is the list of commands it has still to send; Do sends the    *)
(* first, so that the calls of all processes interleave command by         *)
(* command, and a failure loses the rest of the list.                      *)
(*                                                                         *)
(* The worker and the scheduler are not in the repository: they are        *)
(* external, and use the helpers in the order their names ask for.  The    *)
(* order of the stream's entries is abstracted to their number per job.    *)
(***************************************************************************)
EXTENDS Integers, FiniteSets, Sequences

CONSTANTS
  Jobs,        \* job ids, as the idempotency keys make them
  Callers,     \* requests that may be in flight at once
  MaxAttempts, \* JOB_MAX_ATTEMPTS
  BaseDelay,   \* MAESTRO_RETRY_BASE_DELAY_S
  MaxDelay,    \* MAESTRO_RETRY_MAX_DELAY_S
  Horizon,     \* bound: the clock stops here
  CallBound,   \* bound: requests in a behaviour
  FaultBound   \* bound: failures, restarts and lost hashes in a behaviour

ASSUME QueueAssumption ==
  /\ IsFiniteSet(Jobs) /\ "none" \notin Jobs
  /\ {"worker", "scheduler"} \cap Callers = {}
  /\ MaxAttempts \in Nat \ {0} /\ BaseDelay \in Nat \ {0} /\ MaxDelay \in Nat
  /\ Horizon \in Nat /\ CallBound \in Nat /\ FaultBound \in Nat

Processes == Callers \cup {"worker", "scheduler"}

Status == {"none", "QUEUED", "RETRY_SCHEDULED", "DONE", "DLQ"}

\* A hash: "none" when it has no status field.
Hash == [status : Status, attempts : Nat, payload : BOOLEAN, ttl : BOOLEAN]

Missing == [status |-> "none", attempts |-> 0, payload |-> FALSE, ttl |-> FALSE]

Command ==
  [op : {"xadd", "hnew", "hset", "expire", "hincr", "zadd", "dlq", "xack"},
   status : Status, due : Nat]

Plain(op)    == [op |-> op, status |-> "none", due |-> 0]
XAdd      == Plain("xadd")
HNew      == Plain("hnew")
HSet(s)   == [Plain("hset") EXCEPT !.status = s]
Expire    == Plain("expire")
ZAdd(due) == [Plain("zadd") EXCEPT !.due = due]
XAck      == Plain("xack")

Kind == {"idle", "enqueue", "retry", "take", "settle", "pop"}

NoCall == [kind |-> "idle", job |-> "none", todo |-> <<>>]

\* Why a job may be where its caller does not expect it.
Mark ==
  {"overlap",  \* two enqueues of it were in flight at once
   "manual",   \* its retry was asked for
   "lost",     \* its hash expired or was evicted
   "failed",   \* a call about it was cut short
   "dropped",  \* the scheduler failed with the job in its hands alone
   "outrun",   \* it was taken up before the call that offered it was over
   "trimmed"}  \* its dead letter was trimmed from the stream

VARIABLES
  hash,    \* hash[j]: the job's hash
  unread,  \* unread[j]: entries of the stream not delivered yet
  pending, \* pending[j]: entries delivered and not acknowledged
  delayed, \* the sorted set: due time by job
  dead,    \* jobs in the dead-letter stream
  call,    \* call[p]: what p is at, and the commands it has still to send
  now,
  budget,  \* requests and faults left
  told,    \* history: jobs whose caller was answered QUEUED or EXISTS
  ended,   \* history: jobs that got a result or a dead letter
  marks    \* history: marks[j]

store   == <<hash, unread, pending, delayed, dead>>
history == <<told, ended, marks>>
vars    == <<store, call, now, budget, history>>

Init ==
  /\ hash    = [j \in Jobs |-> Missing]
  /\ unread  = [j \in Jobs |-> 0]
  /\ pending = [j \in Jobs |-> 0]
  /\ delayed = [j \in {} |-> 0]
  /\ dead    = {}
  /\ call    = [p \in Processes |-> NoCall]
  /\ now     = 0
  /\ budget  = [calls |-> CallBound, faults |-> FaultBound]
  /\ told    = {}
  /\ ended   = {}
  /\ marks   = [j \in Jobs |-> {}]

Idle(p) == call[p].kind = "idle"
About(j) == {p \in Processes : call[p].job = j}
Begin(p, kind, j, todo) ==
  call' = [call EXCEPT ![p] = [kind |-> kind, job |-> j, todo |-> todo]]
Marked(j, why) == marks' = [marks EXCEPT ![j] = @ \cup why]
When(condition, why) == IF condition THEN {why} ELSE {}
Asked == budget.calls > 0 /\ budget' = [budget EXCEPT !.calls = @ - 1]
Struck == budget.faults > 0 /\ budget' = [budget EXCEPT !.faults = @ - 1]

-----------------------------------------------------------------------------
(***************************************************************************)
(* The commands, as Redis carries them out.  EXPIRE leaves a missing key   *)
(* alone, HSET and HINCRBY make one.                                       *)
(***************************************************************************)

Written(h, c) ==
  CASE c.op = "hnew"   -> [h EXCEPT !.status = "QUEUED", !.attempts = 0, !.payload = TRUE]
    [] c.op = "hset"   -> [h EXCEPT !.status = c.status]
    [] c.op = "hincr"  -> [h EXCEPT !.attempts = @ + 1]
    [] c.op = "expire" -> IF h = Missing THEN h ELSE [h EXCEPT !.ttl = TRUE]
    [] OTHER           -> h

Scheduled(j, c) ==
  IF c.op # "zadd" THEN delayed
  ELSE [k \in DOMAIN delayed \cup {j} |-> IF k = j THEN c.due ELSE delayed[k]]

Count(n, op, c) == IF c.op = op THEN n + 1 ELSE n

\* A call whose last command is sent is over; the worker then settles what it
\* has taken.  A request that is over has answered.
Do(p) ==
  LET j    == call[p].job
      c    == Head(call[p].todo)
      rest == Tail(call[p].todo)
      over == rest = <<>> /\ call[p].kind # "take"
  IN
  /\ call[p].todo # <<>>
  /\ hash'    = [hash EXCEPT ![j] = Written(@, c)]
  /\ unread'  = [unread EXCEPT ![j] = Count(@, "xadd", c)]
  /\ pending' = [pending EXCEPT ![j] = IF c.op = "xack" THEN @ - 1 ELSE @]
  /\ delayed' = Scheduled(j, c)
  /\ dead'    = dead \cup {k \in {j} : c.op = "dlq"}
  /\ call'    = [call EXCEPT ![p] = IF over THEN NoCall ELSE [@ EXCEPT !.todo = rest]]
  /\ told'    = told \cup {k \in {j} : over /\ p \in Callers}
  /\ ended'   = ended \cup {k \in {j} : c.op = "dlq" \/ c.status = "DONE"}
  /\ UNCHANGED <<now, budget, marks>>

-----------------------------------------------------------------------------
(***************************************************************************)
(* The requests.                                                           *)
(***************************************************************************)

\* Slip: the job is marked before it is in the stream.
EnqueuingMarkFirst == <<HNew, XAdd, Expire, HSet("QUEUED"), Expire>>

\* What enqueue_job does once it has found no status, and the endpoint after
\* it: the status is written a second time.
Enqueuing == <<XAdd, HNew, Expire, HSet("QUEUED"), Expire>>

\* Slip: the status stays what it was.
RequeuingSilently == <<XAdd>>

\* requeue_job.
Requeuing == <<XAdd, HSet("QUEUED"), Expire>>

\* Slip: a job is known until it has ended.
KnownUntilEnded(j) == hash[j].status \in {"QUEUED", "RETRY_SCHEDULED"}

Known(j) == hash[j].status # "none"

\* orchestrate_async, with the read of enqueue_job.
Enqueue(p, j) ==
  /\ p \in Callers /\ Idle(p)
  /\ Asked
  /\ \/ /\ Known(j)
        /\ told' = told \cup {j}
        /\ UNCHANGED <<call, marks>>
     \/ /\ ~Known(j)
        /\ Begin(p, "enqueue", j, Enqueuing)
        /\ Marked(j, When(\E q \in About(j) : call[q].kind = "enqueue", "overlap"))
        /\ UNCHANGED told
  /\ UNCHANGED <<store, now, ended>>

\* retry_job: any job with a hash, whatever its status.
Retry(p, j) ==
  /\ p \in Callers /\ Idle(p)
  /\ hash[j] # Missing
  /\ Asked
  /\ Begin(p, "retry", j, Requeuing)
  /\ Marked(j, {"manual"})
  /\ UNCHANGED <<store, now, told, ended>>

-----------------------------------------------------------------------------
(***************************************************************************)
(* The worker.                                                             *)
(***************************************************************************)

\* compute_delay: doubled with every attempt, capped, and off by up to a
\* quarter either way.
Nominal(n) ==
  LET doubled == BaseDelay * 2 ^ ((IF n > 1 THEN n ELSE 1) - 1)
  IN  IF doubled < MaxDelay THEN doubled ELSE MaxDelay

Delays(n) ==
  {d \in 0 .. 2 * MaxDelay : 3 * Nominal(n) <= 4 * d /\ 4 * d <= 5 * Nominal(n)}

Take(j) ==
  /\ Idle("worker")
  /\ unread[j] > 0
  /\ unread'  = [unread EXCEPT ![j] = @ - 1]
  /\ pending' = [pending EXCEPT ![j] = @ + 1]
  /\ Begin("worker", "take", j, <<Plain("hincr"), Expire>>)
  /\ Marked(j, When(About(j) # {}, "outrun"))
  /\ UNCHANGED <<hash, delayed, dead, now, budget, told, ended>>

\* set_job_result, schedule_retry or send_to_dlq, and the acknowledgement.
Finishing     == <<HSet("DONE"), Expire, XAck>>
Retrying(due) == <<ZAdd(due), HSet("RETRY_SCHEDULED"), Expire, XAck>>
Burying       == <<Plain("dlq"), HSet("DLQ"), Expire, XAck>>

Settle ==
  LET j == call["worker"].job
      n == hash[j].attempts
  IN
  /\ call["worker"].kind = "take" /\ call["worker"].todo = <<>>
  /\ \/ Begin("worker", "settle", j, Finishing)
     \/ /\ n < MaxAttempts
        /\ \E d \in Delays(n) : Begin("worker", "settle", j, Retrying(now + d))
     \/ /\ n >= MaxAttempts
        /\ Begin("worker", "settle", j, Burying)
  /\ UNCHANGED <<store, now, budget, history>>

-----------------------------------------------------------------------------
(***************************************************************************)
(* The scheduler and the clock.                                            *)
(***************************************************************************)

\* pop_due_retry, and requeue_job for what it returns.  What is not due is to
\* be put back.
Popped(due) == IF due <= now THEN Requeuing ELSE <<ZAdd(due)>>

Pop(j) ==
  /\ Idle("scheduler")
  /\ j \in DOMAIN delayed /\ \A k \in DOMAIN delayed : delayed[j] <= delayed[k]
  /\ delayed' = [k \in DOMAIN delayed \ {j} |-> delayed[k]]
  /\ Begin("scheduler", "pop", j, Popped(delayed[j]))
  /\ Marked(j, When(About(j) # {}, "outrun"))
  /\ UNCHANGED <<hash, unread, pending, dead, now, budget, told, ended>>

\* Only a retry that is not due yet has to do with time.
Tick ==
  /\ now < Horizon
  /\ \E j \in DOMAIN delayed : delayed[j] > now
  /\ now' = now + 1
  /\ UNCHANGED <<store, call, budget, history>>

-----------------------------------------------------------------------------
(***************************************************************************)
(* Faults.                                                                 *)
(***************************************************************************)

\* The job p's failure would leave nowhere: it was popped, and not yet put back.
OnlyHere(p) ==
  {j \in Jobs : /\ p = "scheduler" /\ call[p].job = j
                /\ call[p].todo # <<>> /\ Head(call[p].todo).op \in {"xadd", "zadd"}}

\* A command fails or p dies: what p had still to do is not done.
Fail(p) ==
  /\ ~Idle(p)
  /\ Struck
  /\ call' = [call EXCEPT ![p] = NoCall]
  /\ marks' = [j \in Jobs |-> marks[j] \cup When(j = call[p].job, "failed")
                                       \cup When(j \in OnlyHere(p), "dropped")]
  /\ UNCHANGED <<store, now, told, ended>>

\* maestro starts again: its requests are gone, and the boot entry of
\* ensure_group trims the dead letters, roughly, to the last one.
Boot ==
  /\ Struck
  /\ \E gone \in SUBSET dead :
       /\ dead' = dead \ gone
       /\ marks' = [j \in Jobs |->
            marks[j] \cup When(j \in gone, "trimmed")
                     \cup When(\E p \in Callers : call[p].job = j, "failed")]
  /\ call' = [p \in Processes |-> IF p \in Callers THEN NoCall ELSE call[p]]
  /\ UNCHANGED <<hash, unread, pending, delayed, now, told, ended>>

\* A hash is past its time to live, or evicted for want of memory.
Lose(j) ==
  /\ hash[j] # Missing
  /\ Struck
  /\ hash' = [hash EXCEPT ![j] = Missing]
  /\ Marked(j, {"lost"})
  /\ UNCHANGED <<unread, pending, delayed, dead, call, now, told, ended>>

-----------------------------------------------------------------------------
Next ==
  \/ \E p \in Callers, j \in Jobs : Enqueue(p, j) \/ Retry(p, j)
  \/ \E p \in Processes : Do(p) \/ Fail(p)
  \/ \E j \in Jobs : Take(j) \/ Pop(j) \/ Lose(j)
  \/ Settle
  \/ Tick
  \/ Boot

Spec == Init /\ [][Next]_vars

-----------------------------------------------------------------------------
(***************************************************************************)
(* Properties.                                                             *)
(***************************************************************************)

\* Every variable has its type; no entry is acknowledged twice.
TypeOK ==
  /\ hash \in [Jobs -> Hash]
  /\ unread \in [Jobs -> Nat] /\ pending \in [Jobs -> Nat]
  /\ DOMAIN delayed \subseteq Jobs /\ delayed \in [DOMAIN delayed -> Nat]
  /\ dead \subseteq Jobs
  /\ call \in [Processes -> [kind : Kind, job : Jobs \cup {"none"}, todo : Seq(Command)]]
  /\ now \in Nat /\ budget \in [calls : Nat, faults : Nat]
  /\ told \subseteq Jobs /\ ended \subseteq Jobs /\ marks \in [Jobs -> SUBSET Mark]

Pends(p, op) == \E i \in DOMAIN call[p].todo : call[p].todo[i].op = op

\* What will have the job run: an entry not delivered, a delayed retry, a call
\* that has still to add one, and the worker before it has decided.
Chances(j) ==
  unread[j] + Cardinality({j} \cap DOMAIN delayed)
  + Cardinality({p \in About(j) : Pends(p, "xadd") \/ Pends(p, "zadd")})
  + Cardinality({p \in About(j) : call[p].kind = "take"})

\* An idempotency key buys one run: unless its enqueues overlapped, its retry
\* was asked for, its hash was lost or a call about it was cut short, a job has
\* at most one run ahead of it, however often it is offered, retried and put
\* off, and none once it has ended.
OneRunAhead ==
  \A j \in Jobs :
    marks[j] \cap {"overlap", "manual", "lost", "failed"} = {} =>
      Chances(j) + Cardinality({j} \cap ended) <= 1

Kept(j) ==
  \/ unread[j] > 0 \/ pending[j] > 0 \/ j \in DOMAIN delayed
  \/ j \in OnlyHere("scheduler")

\* No job that a caller was told of disappears: it is in the stream, pending,
\* delayed or ended, whatever fails and whatever interleaves, except in the
\* hands of a scheduler that popped it.
NothingForgotten ==
  \A j \in Jobs : j \in told /\ "dropped" \notin marks[j] => Kept(j) \/ j \in ended

Place(j) ==
  IF unread[j] > 0 THEN "QUEUED"
  ELSE IF j \in DOMAIN delayed THEN "RETRY_SCHEDULED"
  ELSE IF j \in dead THEN "DLQ"
  ELSE IF j \in ended THEN "DONE"
  ELSE "none"

\* When nobody is at work on it, what /jobs says of a job is where it is, and
\* its hash will expire: unless one of the marks explains why not.
StatusIsPlace ==
  \A j \in Jobs :
    marks[j] = {} /\ About(j) = {} =>
      /\ hash[j].status = Place(j)
      /\ hash[j] # Missing => hash[j].ttl /\ hash[j].payload
=============================================================================

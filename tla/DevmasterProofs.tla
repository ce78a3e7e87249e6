--------------------------- MODULE DevmasterProofs ---------------------------
(***************************************************************************)
(* devmaster's main thread never fails an unwrap, whatever its workers     *)
(* do, and its queue implements DeviceQueue, for any number of workers,    *)
(* events and panicking devices.                                           *)
(*                                                                         *)
(* A worker that was given a job holds it in one place at a time: in its   *)
(* channel, in its thread, or in an acknowledgement on its way.  As long   *)
(* as one of the three exists the main thread keeps worker and job bound   *)
(* to each other (Token), so that the acknowledgement finds both.          *)
(***************************************************************************)
EXTENDS Devmaster, SequenceTheorems, TLAPS

Ack == [kind : {"finished", "killed"}, id : Worker]

\* The jobs in the channel of w, and the answers of w on their way.
JobMsgs(w) == {i \in 1..Len(chan[w]) : chan[w][i] # Kill}
AcksOf(w, kind) == {i \in 1..Len(acks) : acks[i].kind = kind /\ acks[i].id = w}

\* A worker holds at most one job, in one place, and is bound to it.
TokenOf(w) ==
    /\ \A i, j \in JobMsgs(w) : i = j
    /\ \A i, j \in AcksOf(w, "finished") : i = j
    /\ JobMsgs(w) # {} => thread[w] \notin Seqnum /\ AcksOf(w, "finished") = {}
    /\ thread[w] \in Seqnum => AcksOf(w, "finished") = {}
    /\ (JobMsgs(w) # {} \/ thread[w] \in Seqnum \/ AcksOf(w, "finished") # {})
          => device_job[w] # NoJob

Token == \A w \in Worker : TokenOf(w)

\* A worker that waits for a job has none.
IdleFree == \A w \in Worker : state[w] = "Idle" => device_job[w] = NoJob

\* A thread that runs has an entry, one that is gone reads nothing more, and the
\* acknowledgement of its end is the last one of its worker.
LastOf(w) ==
    /\ thread[w] # Gone => state[w] # "None"
    /\ thread[w] = Gone => chan[w] = <<>>
    /\ AcksOf(w, "killed") # {} => thread[w] = Gone /\ state[w] # "None"
    /\ \A i \in AcksOf(w, "killed") :
          \A j \in AcksOf(w, "finished") \cup AcksOf(w, "killed") : j <= i

KilledLast == \A w \in Worker : LastOf(w)

IInv == TypeOK /\ Bound /\ Token /\ IdleFree /\ KilledLast /\ NoUnwrapFails

-----------------------------------------------------------------------------
(* Channels and acknowledgements *)

Msg == Seqnum \cup {Kill}

\* A message is put at the end of a channel.
LEMMA AppendMsg ==
    ASSUME NEW S, NEW q \in Seq(S), NEW m \in S
    PROVE  /\ Append(q, m) \in Seq(S) /\ Len(Append(q, m)) = Len(q) + 1
           /\ \A i \in 1..Len(q) : Append(q, m)[i] = q[i]
           /\ Append(q, m)[Len(q) + 1] = m
           /\ Len(q) \in Nat
  BY AppendProperties, LenProperties

\* The first message of a channel is taken.
LEMMA TakeMsg ==
    ASSUME NEW S, NEW q \in Seq(S), q # <<>>
    PROVE  /\ Head(q) = q[1] /\ Head(q) \in S /\ Tail(q) \in Seq(S)
           /\ Len(q) \in Nat \ {0} /\ Len(Tail(q)) = Len(q) - 1
           /\ \A i \in 1..Len(Tail(q)) : Tail(q)[i] = q[i + 1]
  BY HeadTailProperties, LenProperties, EmptySeq

\* Worker numbers and seqnums are integers, and the marks are none of them.
LEMMA Marks ==
    /\ Seqnum \subseteq Nat /\ NoJob \notin Seqnum /\ Kill \notin Seqnum
    /\ Waiting \notin Seqnum /\ Gone \notin Seqnum /\ Waiting # Gone
    /\ NoWorker \notin Worker /\ Panics \subseteq Seqnum
  BY DevmasterAssumption DEF Seqnum, NoJob, Kill, Waiting, Gone, NoWorker, Worker

\* What the worker at hand has on its way when its acknowledgement is added or
\* taken.
LEMMA AcksAppend ==
    ASSUME TypeOK, NEW a \in Ack, acks' = Append(acks, a)
    PROVE  /\ acks' \in Seq(Ack)
           /\ \A w \in Worker, kind \in {"finished", "killed"} :
                 AcksOf(w, kind)' = AcksOf(w, kind) \cup
                    (IF a.kind = kind /\ a.id = w THEN {Len(acks) + 1} ELSE {})
           /\ Len(acks') = Len(acks) + 1 /\ acks'[Len(acks) + 1] = a
           /\ \A i \in 1..Len(acks) : acks'[i] = acks[i]
           /\ Len(acks) \in Nat
<1>1. acks \in Seq(Ack)
  BY DEF TypeOK, Ack
<1>2. /\ acks' \in Seq(Ack) /\ Len(acks') = Len(acks) + 1
      /\ \A i \in 1..Len(acks) : acks'[i] = acks[i]
      /\ acks'[Len(acks) + 1] = a
      /\ Len(acks) \in Nat
  BY <1>1, AppendMsg
<1>3. ASSUME NEW w \in Worker, NEW kind \in {"finished", "killed"}
      PROVE  AcksOf(w, kind)' = AcksOf(w, kind) \cup
                (IF a.kind = kind /\ a.id = w THEN {Len(acks) + 1} ELSE {})
  <2>1. 1..Len(acks') = 1..Len(acks) \cup {Len(acks) + 1}
    BY <1>2
  <2>2. QED
    BY <1>2, <2>1 DEF AcksOf
<1>4. QED
  BY <1>2, <1>3

LEMMA AcksTail ==
    ASSUME TypeOK, acks # <<>>, acks' = Tail(acks)
    PROVE  /\ acks' \in Seq(Ack) /\ Head(acks) \in Ack /\ Head(acks) = acks[1]
           /\ \A w \in Worker, kind \in {"finished", "killed"}, i \in Nat :
                 i \in AcksOf(w, kind)' <=> i # 0 /\ i + 1 \in AcksOf(w, kind)
           /\ Len(acks') = Len(acks) - 1 /\ Len(acks) \in Nat \ {0}
           /\ \A i \in 1..Len(acks') : acks'[i] = acks[i + 1]
<1>1. acks \in Seq(Ack)
  BY DEF TypeOK, Ack
<1>2. /\ acks' \in Seq(Ack) /\ Head(acks) \in Ack /\ Head(acks) = acks[1]
      /\ Len(acks') = Len(acks) - 1 /\ Len(acks) \in Nat \ {0}
      /\ \A i \in 1..Len(acks') : acks'[i] = acks[i + 1]
  BY <1>1, TakeMsg
<1>3. ASSUME NEW w \in Worker, NEW kind \in {"finished", "killed"}, NEW i \in Nat
      PROVE  i \in AcksOf(w, kind)' <=> i # 0 /\ i + 1 \in AcksOf(w, kind)
  BY <1>2 DEF AcksOf
<1>4. QED
  BY <1>2, <1>3

\* Neither the places where w holds a job nor its end are touched.
LEMMA Untouched ==
    ASSUME NEW w, TokenOf(w), LastOf(w),
           chan'[w] = chan[w], thread'[w] = thread[w],
           AcksOf(w, "finished")' = AcksOf(w, "finished"),
           AcksOf(w, "killed")' = AcksOf(w, "killed")
    PROVE  /\ device_job'[w] = device_job[w] => TokenOf(w)'
           /\ state'[w] = state[w] => LastOf(w)'
<1>1. JobMsgs(w)' = JobMsgs(w)
  BY DEF JobMsgs
<1>2. QED
  BY <1>1 DEF TokenOf, LastOf

-----------------------------------------------------------------------------
(* The steps of the main thread *)

\* What an event or a command changes of the queue, and the end of the loop.
LEMMA QueueStepOK ==
    ASSUME IInv, UNCHANGED <<worker_of, manager, threads, acks, panic>>,
           job' \in [Seqnum -> JobState], timer' \in BOOLEAN, starting' \in BOOLEAN,
           events' \in 0..MaxEvent,
           \A s \in Seqnum : job[s] = "Running" => job'[s] = "Running"
    PROVE  IInv'
<1>1. /\ UNCHANGED <<worker_of, state, device_job, chan, thread, acks, panic>>
  BY DEF manager, threads
<1>2. TypeOK'
  BY <1>1 DEF IInv, TypeOK
<1>3. Bound'
  <2>1. \A w \in Worker : device_job[w] # NoJob => device_job[w] \in Seqnum
    BY DEF IInv, TypeOK
  <2>2. QED
    BY <1>1, <2>1 DEF IInv, Bound
<1>4. Token' /\ KilledLast'
  BY <1>1 DEF IInv, Token, KilledLast, TokenOf, LastOf, JobMsgs, AcksOf
<1>5. IdleFree' /\ NoUnwrapFails'
  BY <1>1 DEF IInv, IdleFree, NoUnwrapFails
<1>6. QED
  BY <1>2, <1>3, <1>4, <1>5 DEF IInv

LEMMA InsertOK ==
    ASSUME IInv, NEW s, InsertDevice(s)
    PROVE  IInv'
<1>1. job' \in [Seqnum -> JobState] /\ \A q \in Seqnum : job[q] = "Running" => job'[q] = "Running"
  BY DEF InsertDevice, job_queue_insert, IInv, TypeOK, JobState
<1>2. events' \in 0..MaxEvent
  BY DevmasterAssumption DEF InsertDevice, IInv, TypeOK
<1>3. QED
  BY <1>1, <1>2, QueueStepOK DEF InsertDevice, IInv, TypeOK

LEMMA TimerOK ==
    ASSUME IInv, start_kill_workers_timer
    PROVE  IInv'
<1>1. events' \in 0..MaxEvent
  BY DevmasterAssumption DEF start_kill_workers_timer, IInv, TypeOK
<1>2. QED
  BY <1>1, QueueStepOK DEF start_kill_workers_timer, IInv, TypeOK, queue

LEMMA StartEndOK ==
    ASSUME IInv, job_queue_start_end
    PROVE  IInv'
  BY QueueStepOK DEF job_queue_start_end, IInv, TypeOK, queue

\* A kill adds a message that is no job to the channels, and removes no entry.
LEMMA KillOK ==
    ASSUME IInv, manager_kill_workers
    PROVE  IInv'
<1>1. /\ UNCHANGED <<job, worker_of, device_job, thread, acks, starting, events, panic>>
      /\ timer' = FALSE
      /\ state' = [w \in Worker |-> IF state[w] = "None" THEN "None" ELSE "Killing"]
      /\ chan' = [w \in Worker |-> IF state[w] = "None" \/ thread[w] = Gone THEN chan[w]
                                   ELSE Append(chan[w], Kill)]
  BY DEF manager_kill_workers, queue
<1>2. \A w \in Worker : chan[w] \in Seq(Msg) /\ Kill \in Msg
  BY DEF IInv, TypeOK, Msg
<1>3. TypeOK'
  <2>1. \A w \in Worker : Append(chan[w], Kill) \in Seq(Msg)
    BY <1>2, AppendMsg
  <2>2. chan' \in [Worker -> Seq(Msg)]
    BY <1>1, <1>2, <2>1
  <2>3. state' \in [Worker -> WorkerState]
    BY <1>1 DEF WorkerState
  <2>4. QED
    BY <1>1, <2>2, <2>3 DEF IInv, TypeOK, Msg
<1>4. Bound' /\ IdleFree' /\ NoUnwrapFails'
  BY <1>1 DEF IInv, Bound, IdleFree, NoUnwrapFails
<1>5. ASSUME NEW w \in Worker PROVE TokenOf(w)' /\ LastOf(w)'
  <2>1. JobMsgs(w)' = JobMsgs(w)
    <3>1. CASE state[w] = "None" \/ thread[w] = Gone
      BY <1>1, <3>1 DEF JobMsgs
    <3>2. CASE ~(state[w] = "None" \/ thread[w] = Gone)
      <4> DEFINE q == chan[w]
                 r == Append(q, Kill)
      <4>1. /\ chan'[w] = r /\ Len(r) = Len(q) + 1 /\ Len(q) \in Nat
            /\ \A i \in 1..Len(q) : r[i] = q[i]
            /\ r[Len(q) + 1] = Kill
        BY <1>1, <1>2, <3>2, AppendMsg
      <4> HIDE DEF q, r
      <4>2. {i \in 1..Len(r) : r[i] # Kill} = {i \in 1..Len(q) : q[i] # Kill}
        BY <4>1
      <4>3. QED
        BY <4>1, <4>2 DEF JobMsgs, q
    <3>3. QED
      BY <3>1, <3>2
  <2>2. /\ thread'[w] = thread[w] /\ device_job'[w] = device_job[w]
        /\ AcksOf(w, "finished")' = AcksOf(w, "finished")
        /\ AcksOf(w, "killed")' = AcksOf(w, "killed")
    BY <1>1 DEF AcksOf
  <2>3. /\ state'[w] # "None" <=> state[w] # "None"
        /\ thread[w] = Gone => chan'[w] = chan[w]
    BY <1>1
  <2>4. TokenOf(w) /\ LastOf(w)
    BY DEF IInv, Token, KilledLast
  <2>5. TokenOf(w)'
    BY <2>1, <2>2, <2>4 DEF TokenOf
  <2>6. LastOf(w)'
    BY <2>2, <2>3, <2>4 DEF LastOf
  <2>7. QED
    BY <2>5, <2>6
<1>6. QED
  BY <1>3, <1>4, <1>5 DEF IInv, Token, KilledLast

\* bind keeps job and worker together: the worker had no job, the job no worker.
LEMMA BindOK ==
    ASSUME IInv, NEW s \in Seqnum, NEW w \in Worker, Queued(s), device_job[w] = NoJob,
           bind(s, w)
    PROVE  /\ Bound' /\ (IdleFree' /\ state'[w] = "Running")
           /\ job' \in [Seqnum -> JobState] /\ worker_of' \in [Seqnum -> Worker \cup {NoWorker}]
           /\ state' \in [Worker -> WorkerState]
           /\ device_job' \in [Worker -> Seqnum \cup {NoJob}]
           /\ device_job'[w] # NoJob
           /\ \A v \in Worker : v # w => device_job'[v] = device_job[v] /\ state'[v] = state[v]
<1>1. /\ job' = [job EXCEPT ![s] = "Running"] /\ worker_of' = [worker_of EXCEPT ![s] = w]
      /\ state' = [state EXCEPT ![w] = "Running"] /\ device_job' = [device_job EXCEPT ![w] = s]
  BY DEF bind
<1>2. TypeOK /\ Bound /\ IdleFree
  BY DEF IInv
<1>3. /\ job' \in [Seqnum -> JobState] /\ worker_of' \in [Seqnum -> Worker \cup {NoWorker}]
      /\ state' \in [Worker -> WorkerState] /\ device_job' \in [Worker -> Seqnum \cup {NoJob}]
  BY <1>1, <1>2 DEF TypeOK, JobState, WorkerState
<1>4. \A v \in Worker : v # w => device_job'[v] = device_job[v] /\ state'[v] = state[v]
  BY <1>1, <1>2 DEF TypeOK
<1>5. device_job'[w] = s /\ state'[w] = "Running" /\ job'[s] = "Running" /\ worker_of'[s] = w
  BY <1>1, <1>2 DEF TypeOK
<1>6. ASSUME NEW v \in Worker, v # w, device_job[v] # NoJob
      PROVE  /\ job'[device_job[v]] = job[device_job[v]]
             /\ worker_of'[device_job[v]] = worker_of[device_job[v]]
  <2>1. device_job[v] \in Seqnum /\ device_job[v] # s
    BY <1>2, <1>6 DEF TypeOK, Bound, Queued
  <2>2. QED
    BY <1>1, <1>2, <2>1 DEF TypeOK
<1>7. Bound'
  BY <1>2, <1>4, <1>5, <1>6, Marks DEF Bound
<1>8. QED
  BY <1>2, <1>3, <1>4, <1>5, <1>7, Marks DEF IdleFree

LEMMA DispatchOK ==
    ASSUME IInv, NEW s \in Seqnum, NEW w \in Worker, job_dispatch(s, w)
    PROVE  IInv'
<1>1. /\ Queued(s) /\ bind(s, w) /\ UNCHANGED <<acks, timer, starting, events, panic>>
      /\ dispatch_idle(s, w) \/ create_new_worker(s, w)
  BY DEF job_dispatch, is_next_job, dispatch_idle, create_new_worker
<1>2. TypeOK /\ Bound /\ IdleFree /\ TokenOf(w) /\ LastOf(w)
  BY DEF IInv, Token, KilledLast
<1>3. device_job[w] = NoJob
  BY <1>1, <1>2 DEF dispatch_idle, create_new_worker, idle_workers, free_ids, IdleFree, Bound
<1>4. /\ JobMsgs(w) = {} /\ thread[w] \notin Seqnum /\ AcksOf(w, "finished") = {}
  BY <1>2, <1>3 DEF TokenOf
<1>5. /\ Bound' /\ IdleFree' /\ state'[w] = "Running" /\ device_job'[w] # NoJob
      /\ job' \in [Seqnum -> JobState] /\ worker_of' \in [Seqnum -> Worker \cup {NoWorker}]
      /\ state' \in [Worker -> WorkerState] /\ device_job' \in [Worker -> Seqnum \cup {NoJob}]
      /\ \A v \in Worker : v # w => device_job'[v] = device_job[v] /\ state'[v] = state[v]
  BY <1>1, <1>3, BindOK
<1>6. \A v \in Worker, kind \in {"finished", "killed"} : AcksOf(v, kind)' = AcksOf(v, kind)
  BY <1>1 DEF AcksOf
<1>7. chan[w] \in Seq(Msg) /\ s \in Msg /\ s # Kill
  BY <1>2, Marks DEF TypeOK, Msg
<1> DEFINE One == /\ chan' \in [Worker -> Seq(Msg)]
                  /\ thread' \in [Worker -> Seqnum \cup {Waiting, Gone}]
                  /\ \A v \in Worker : v # w => chan'[v] = chan[v] /\ thread'[v] = thread[v]
                  /\ thread'[w] \notin Seqnum
                  /\ \A i, j \in JobMsgs(w)' : i = j
                  /\ thread'[w] = Gone => chan'[w] = <<>>
                  /\ AcksOf(w, "killed") # {} => thread'[w] = Gone
<1>8. One
  <2>1. CASE dispatch_idle(s, w) /\ thread[w] = Gone
    <3>1. chan' = chan /\ thread' = thread
      BY <1>2, <2>1 DEF dispatch_idle, worker_send_message, TypeOK
    <3>2. JobMsgs(w)' = JobMsgs(w)
      BY <3>1 DEF JobMsgs
    <3>3. QED
      BY <1>2, <1>4, <3>1, <3>2 DEF TypeOK, Msg, LastOf
  <2>2. CASE dispatch_idle(s, w) /\ thread[w] # Gone
    <3> DEFINE q == chan[w]
               r == Append(q, s)
    <3>1. chan' = [chan EXCEPT ![w] = r] /\ thread' = thread
      BY <2>2 DEF dispatch_idle, worker_send_message
    <3>2. /\ r \in Seq(Msg) /\ Len(r) = Len(q) + 1 /\ Len(q) \in Nat
          /\ \A i \in 1..Len(q) : r[i] = q[i]
      BY <1>7, AppendMsg
    <3>3. \A i \in 1..Len(q) : q[i] = Kill
      BY <1>4 DEF JobMsgs
    <3> HIDE DEF r
    <3>4. chan'[w] = r
      BY <1>2, <3>1 DEF TypeOK
    <3> HIDE DEF q
    <3>5. \A i \in 1..Len(r) : r[i] # Kill => i = Len(q) + 1
      BY <3>2, <3>3
    <3>6. \A i, j \in JobMsgs(w)' : i = j
      BY <3>4, <3>5 DEF JobMsgs
    <3>7. chan' \in [Worker -> Seq(Msg)] /\ \A v \in Worker : v # w => chan'[v] = chan[v]
      BY <1>2, <3>1, <3>2 DEF TypeOK, Msg
    <3>8. QED
      BY <1>2, <1>4, <2>2, <3>1, <3>6, <3>7 DEF TypeOK, LastOf
  <2>3. CASE create_new_worker(s, w)
    <3>1. chan' = [chan EXCEPT ![w] = <<s>>] /\ thread' = [thread EXCEPT ![w] = Waiting]
      BY <2>3 DEF create_new_worker
    <3>2. <<s>> \in Seq(Msg)
      BY <1>7
    <3>3. chan'[w] = <<s>> /\ thread'[w] = Waiting
      BY <1>2, <3>1 DEF TypeOK
    <3>4. \A i, j \in JobMsgs(w)' : i = j
      BY <3>3 DEF JobMsgs
    <3>5. AcksOf(w, "killed") = {}
      BY <1>2, <2>3 DEF LastOf, create_new_worker, free_ids
    <3>6. QED
      BY <1>2, <3>1, <3>2, <3>3, <3>4, <3>5, Marks DEF TypeOK, Msg
  <2>4. QED
    BY <1>1, <2>1, <2>2, <2>3
<1> HIDE DEF One
<1>9. TypeOK'
  BY <1>1, <1>2, <1>5, <1>8 DEF TypeOK, One, Msg
<1>10. ASSUME NEW v \in Worker PROVE TokenOf(v)' /\ LastOf(v)'
  <2>1. CASE v = w
    <3>1. TokenOf(w)'
      BY <1>4, <1>5, <1>6, <1>8 DEF TokenOf, One
    <3>2. LastOf(w)'
      BY <1>2, <1>5, <1>6, <1>8 DEF LastOf, One
    <3>3. QED
      BY <2>1, <3>1, <3>2
  <2>2. CASE v # w
    <3>1. TokenOf(v) /\ LastOf(v)
      BY DEF IInv, Token, KilledLast
    <3>2. QED
      BY <1>5, <1>6, <1>8, <2>2, <3>1, Untouched DEF One
  <2>3. QED
    BY <2>1, <2>2
<1>11. NoUnwrapFails'
  BY <1>1 DEF IInv, NoUnwrapFails
<1>12. QED
  BY <1>5, <1>9, <1>10, <1>11 DEF IInv, Token, KilledLast

\* An acknowledgement that is taken leaves the other ones in their order.
LEMMA TakenAck ==
    ASSUME IInv, acks # <<>>, acks' = Tail(acks), UNCHANGED threads, NEW v \in Worker
    PROVE  /\ \A kind \in {"finished", "killed"} : AcksOf(v, kind)' # {} => AcksOf(v, kind) # {}
           /\ \A i, j \in AcksOf(v, "finished")' : i = j
           /\ \A i \in AcksOf(v, "killed")' :
                 \A j \in AcksOf(v, "finished")' \cup AcksOf(v, "killed")' : j <= i
           /\ device_job'[v] = device_job[v] => TokenOf(v)'
           /\ state'[v] = state[v] => LastOf(v)'
<1>1. TypeOK /\ TokenOf(v) /\ LastOf(v) /\ chan' = chan /\ thread' = thread
  BY DEF IInv, Token, KilledLast, threads
<1>2. /\ acks' \in Seq(Ack)
      /\ \A w \in Worker, kind \in {"finished", "killed"}, i \in Nat :
            i \in AcksOf(w, kind)' <=> i # 0 /\ i + 1 \in AcksOf(w, kind)
  BY <1>1, AcksTail
<1>3. \A kind \in {"finished", "killed"} : AcksOf(v, kind)' \subseteq Nat
  BY <1>2 DEF AcksOf
<1>4. \A kind \in {"finished", "killed"} :
         \A i \in AcksOf(v, kind)' : i \in Nat /\ i + 1 \in AcksOf(v, kind)
  BY <1>2, <1>3
<1>5. \A kind \in {"finished", "killed"} : AcksOf(v, kind)' # {} => AcksOf(v, kind) # {}
  BY <1>4
<1>6. \A i, j \in AcksOf(v, "finished")' : i = j
  BY <1>1, <1>4 DEF TokenOf
<1>7. \A i \in AcksOf(v, "killed")' :
         \A j \in AcksOf(v, "finished")' \cup AcksOf(v, "killed")' : j <= i
  BY <1>1, <1>4 DEF LastOf
<1>8. JobMsgs(v)' = JobMsgs(v)
  BY <1>1 DEF JobMsgs
<1>9. device_job'[v] = device_job[v] => TokenOf(v)'
  BY <1>1, <1>5, <1>6, <1>8 DEF TokenOf
<1>10. state'[v] = state[v] => LastOf(v)'
  BY <1>1, <1>5, <1>7 DEF LastOf
<1>11. QED
  BY <1>5, <1>6, <1>7, <1>9, <1>10

\* The worker of the first acknowledgement, and what it says of it.
LEMMA FirstAck ==
    ASSUME IInv, acks # <<>>, NEW w, w = Head(acks).id, acks' = Tail(acks), UNCHANGED threads
    PROVE  /\ w \in Worker /\ Head(acks).kind \in {"finished", "killed"} /\ unwraps(Head(acks))
           /\ JobMsgs(w) = {} /\ thread[w] \notin Seqnum
           /\ Head(acks).kind = "finished" =>
                 AcksOf(w, "finished")' = {} /\ device_job[w] \in Seqnum
           /\ Head(acks).kind = "killed" =>
                 /\ AcksOf(w, "finished")' = {} /\ AcksOf(w, "killed")' = {}
                 /\ thread[w] = Gone /\ chan[w] = <<>>
<1>1. /\ Head(acks) \in Ack /\ Head(acks) = acks[1] /\ Len(acks) \in Nat \ {0}
      /\ acks' \in Seq(Ack)
      /\ \A v \in Worker, kind \in {"finished", "killed"}, i \in Nat :
            i \in AcksOf(v, kind)' <=> i # 0 /\ i + 1 \in AcksOf(v, kind)
  BY AcksTail DEF IInv
<1>2. w \in Worker /\ Head(acks).kind \in {"finished", "killed"}
  BY <1>1 DEF Ack
<1>3. TypeOK /\ Bound /\ TokenOf(w) /\ LastOf(w)
  BY <1>2 DEF IInv, Token, KilledLast
<1>4. 1 \in AcksOf(w, Head(acks).kind)
  BY <1>1, <1>2 DEF AcksOf
<1>5. \A kind \in {"finished", "killed"} : \A i \in AcksOf(w, kind)' :
         i \in Nat \ {0} /\ i + 1 \in AcksOf(w, kind)
  <2>1. \A kind \in {"finished", "killed"} : AcksOf(w, kind)' \subseteq Nat \ {0}
    BY <1>1 DEF AcksOf
  <2>2. QED
    BY <1>1, <1>2, <2>1
<1>6. CASE Head(acks).kind = "finished"
  <2>1. AcksOf(w, "finished")' = {}
    BY <1>3, <1>4, <1>5, <1>6 DEF TokenOf
  <2>2. /\ JobMsgs(w) = {} /\ thread[w] \notin Seqnum /\ device_job[w] # NoJob
    BY <1>3, <1>4, <1>6 DEF TokenOf
  <2>3. device_job[w] \in Seqnum /\ unwraps(Head(acks))
    BY <1>2, <1>3, <2>2, Marks DEF TypeOK, Bound, unwraps
  <2>4. QED
    BY <1>2, <1>6, <2>1, <2>2, <2>3
<1>7. CASE Head(acks).kind = "killed"
  <2>1. thread[w] = Gone /\ chan[w] = <<>> /\ state[w] # "None"
    BY <1>3, <1>4, <1>7 DEF LastOf
  <2>2. \A j \in AcksOf(w, "finished") \cup AcksOf(w, "killed") : j <= 1
    BY <1>3, <1>4, <1>7 DEF LastOf
  <2>3. AcksOf(w, "finished")' = {} /\ AcksOf(w, "killed")' = {}
    BY <1>5, <2>2
  <2>4. JobMsgs(w) = {} /\ thread[w] \notin Seqnum
    BY <2>1, Marks DEF JobMsgs
  <2>5. unwraps(Head(acks))
    BY <1>7, <2>1 DEF unwraps
  <2>6. QED
    BY <1>2, <1>7, <2>1, <2>3, <2>4, <2>5
<1>8. QED
  BY <1>2, <1>6, <1>7

LEMMA DisposeOK ==
    ASSUME IInv, worker_response_dispose
    PROVE  IInv'
<1>0. PICK w : w = Head(acks).id
  OBVIOUS
<1> DEFINE s == device_job[w]
<1>1. /\ acks # <<>> /\ acks' = Tail(acks) /\ UNCHANGED threads /\ UNCHANGED <<timer, events>>
      /\ panic' = ~unwraps(Head(acks))
      /\ \/ Head(acks).kind = "killed" /\ dispose_killed(w)
         \/ Head(acks).kind = "finished" /\ dispose_finished(w)
  BY <1>0 DEF worker_response_dispose
<1>2. /\ w \in Worker /\ unwraps(Head(acks)) /\ JobMsgs(w) = {} /\ thread[w] \notin Seqnum
      /\ Head(acks).kind = "finished" => AcksOf(w, "finished")' = {} /\ device_job[w] \in Seqnum
      /\ Head(acks).kind = "killed" =>
            /\ AcksOf(w, "finished")' = {} /\ AcksOf(w, "killed")' = {}
            /\ thread[w] = Gone /\ chan[w] = <<>>
  BY <1>0, <1>1, FirstAck
<1>3. panic' = FALSE
  BY <1>1, <1>2
<1>4. acks' \in Seq(Ack) /\ chan' = chan /\ thread' = thread
  BY <1>1, AcksTail DEF IInv, threads
<1>5. TypeOK /\ Bound /\ IdleFree /\ TokenOf(w) /\ LastOf(w)
  BY <1>2 DEF IInv, Token, KilledLast
<1>6. JobMsgs(w)' = {}
  BY <1>2, <1>4 DEF JobMsgs
<1> DEFINE Freed == /\ job' \in [Seqnum -> JobState]
                    /\ worker_of' \in [Seqnum -> Worker \cup {NoWorker}]
                    /\ state' \in [Worker -> WorkerState]
                    /\ device_job' \in [Worker -> Seqnum \cup {NoJob}]
                    /\ device_job'[w] = NoJob /\ starting' \in BOOLEAN
                    /\ \A v \in Worker : v # w =>
                          state'[v] = state[v] /\ device_job'[v] = device_job[v]
                    /\ \A v \in Worker : v # w /\ device_job[v] # NoJob =>
                          /\ job'[device_job[v]] = job[device_job[v]]
                          /\ worker_of'[device_job[v]] = worker_of[device_job[v]]
<1>7. Freed /\ AcksOf(w, "finished")' = {} /\ LastOf(w)'
  <2>1. CASE Head(acks).kind = "killed"
    <3>1. /\ state' = [state EXCEPT ![w] = "None"]
          /\ device_job' = [device_job EXCEPT ![w] = NoJob]
          /\ worker_of' = [q \in Seqnum |-> IF worker_of[q] = w THEN NoWorker ELSE worker_of[q]]
          /\ job' = job /\ starting' = starting
      BY <1>1, <2>1 DEF dispose_killed
    <3>2. \A v \in Worker : v # w /\ device_job[v] # NoJob =>
             /\ job'[device_job[v]] = job[device_job[v]]
             /\ worker_of'[device_job[v]] = worker_of[device_job[v]]
      BY <1>5, <3>1 DEF TypeOK, Bound
    <3>3. Freed
      BY <1>2, <1>5, <3>1, <3>2 DEF TypeOK, WorkerState
    <3>4. LastOf(w)'
      BY <1>2, <1>4, <2>1 DEF LastOf
    <3>5. QED
      BY <1>2, <2>1, <3>3, <3>4
  <2>2. CASE Head(acks).kind = "finished"
    <3>1. s \in Seqnum /\ worker_of[s] = w /\ s # NoJob
      BY <1>2, <1>5, <2>2, Marks DEF Bound
    <3>2. /\ state' = [state EXCEPT ![w] = "Idle"] /\ starting' = TRUE
          /\ device_job' = [v \in Worker |-> IF v = w THEN NoJob ELSE device_job[v]]
          /\ worker_of' = [q \in Seqnum |-> IF q = s THEN NoWorker ELSE worker_of[q]]
          /\ job' = [q \in Seqnum |-> IF q = s THEN "None" ELSE job[q]]
      BY <1>1, <2>2, <3>1 DEF dispose_finished, job_free
    <3>3. \A v \in Worker : v # w /\ device_job[v] # NoJob =>
             device_job[v] \in Seqnum /\ device_job[v] # s
      BY <1>5, <3>1 DEF TypeOK, Bound
    <3> HIDE DEF s
    <3>4. \A v \in Worker : v # w /\ device_job[v] # NoJob =>
             /\ job'[device_job[v]] = job[device_job[v]]
             /\ worker_of'[device_job[v]] = worker_of[device_job[v]]
      BY <3>2, <3>3
    <3>5. Freed
      BY <1>2, <1>5, <3>2, <3>4 DEF TypeOK, WorkerState, JobState
    <3>6. state'[w] # "None"
      BY <1>2, <1>5, <3>2 DEF TypeOK
    <3>7. /\ AcksOf(w, "killed")' # {} => AcksOf(w, "killed") # {}
          /\ \A i \in AcksOf(w, "killed")' :
                \A j \in AcksOf(w, "finished")' \cup AcksOf(w, "killed")' : j <= i
      BY <1>1, <1>2, TakenAck
    <3>8. LastOf(w)'
      BY <1>4, <1>5, <3>6, <3>7 DEF LastOf
    <3>9. QED
      BY <1>2, <2>2, <3>5, <3>8
  <2>3. QED
    BY <1>1, <2>1, <2>2
<1>8. TypeOK'
  BY <1>1, <1>3, <1>4, <1>5, <1>7 DEF TypeOK, Ack
<1>9. Bound'
  BY <1>5, <1>7 DEF Bound
<1>10. IdleFree'
  BY <1>5, <1>7 DEF IdleFree
<1>11. ASSUME NEW v \in Worker PROVE TokenOf(v)' /\ LastOf(v)'
  <2>1. CASE v = w
    <3>1. TokenOf(w)'
      BY <1>2, <1>4, <1>6, <1>7 DEF TokenOf
    <3>2. QED
      BY <1>7, <2>1, <3>1
  <2>2. CASE v # w
    BY <1>1, <1>7, <2>2, TakenAck
  <2>3. QED
    BY <2>1, <2>2
<1>12. QED
  BY <1>3, <1>8, <1>9, <1>10, <1>11 DEF IInv, Token, KilledLast, NoUnwrapFails

-----------------------------------------------------------------------------
(* The steps of a thread *)

\* A thread changes nothing of the main thread's, nor another worker's channel.
LEMMA ThreadOK ==
    ASSUME IInv, NEW w \in Worker, UNCHANGED mainVars, acks' \in Seq(Ack),
           chan' \in [Worker -> Seq(Msg)], thread' \in [Worker -> Seqnum \cup {Waiting, Gone}],
           TokenOf(w)', LastOf(w)',
           \A v \in Worker : v # w =>
              /\ chan'[v] = chan[v] /\ thread'[v] = thread[v]
              /\ AcksOf(v, "finished")' = AcksOf(v, "finished")
              /\ AcksOf(v, "killed")' = AcksOf(v, "killed")
    PROVE  IInv'
<1>1. UNCHANGED <<job, worker_of, state, device_job, timer, starting, events, panic>>
  BY DEF mainVars, queue, manager
<1>2. TypeOK'
  BY <1>1 DEF IInv, TypeOK, Ack, Msg
<1>3. Bound' /\ IdleFree' /\ NoUnwrapFails'
  BY <1>1 DEF IInv, Bound, IdleFree, NoUnwrapFails
<1>4. ASSUME NEW v \in Worker, v # w PROVE TokenOf(v)' /\ LastOf(v)'
  <2>1. TokenOf(v) /\ LastOf(v)
    BY DEF IInv, Token, KilledLast
  <2>2. device_job'[v] = device_job[v] /\ state'[v] = state[v]
    BY <1>1
  <2>3. QED
    BY <1>4, <2>1, <2>2, Untouched
<1>5. QED
  BY <1>2, <1>3, <1>4 DEF IInv, Token, KilledLast

LEMMA ReadJobOK ==
    ASSUME IInv, NEW w \in Worker, WorkerReadJob(w)
    PROVE  IInv'
<1> DEFINE q == chan[w]
<1>1. /\ thread[w] = Waiting /\ q # <<>> /\ Head(q) # Kill
      /\ thread' = [thread EXCEPT ![w] = Head(q)] /\ chan' = [chan EXCEPT ![w] = Tail(q)]
      /\ UNCHANGED mainVars /\ acks' = acks
  BY DEF WorkerReadJob
<1>2. TypeOK /\ TokenOf(w) /\ LastOf(w) /\ device_job'[w] = device_job[w] /\ state'[w] = state[w]
  BY <1>1 DEF IInv, Token, KilledLast, mainVars, manager
<1>3. /\ Head(q) = q[1] /\ Head(q) \in Msg /\ Tail(q) \in Seq(Msg)
      /\ Len(q) \in Nat \ {0} /\ Len(Tail(q)) = Len(q) - 1
      /\ \A i \in 1..Len(Tail(q)) : Tail(q)[i] = q[i + 1]
  <2>1. q \in Seq(Msg)
    BY <1>2 DEF TypeOK, Msg
  <2>2. QED
    BY <1>1, <2>1, TakeMsg
<1>4. Head(q) \in Seqnum
  BY <1>1, <1>3 DEF Msg
<1>5. 1 \in JobMsgs(w)
  BY <1>1, <1>3 DEF JobMsgs
<1>6. chan'[w] = Tail(q) /\ thread'[w] = Head(q)
  BY <1>1, <1>2 DEF TypeOK
<1>7. JobMsgs(w)' = {}
  <2>1. ASSUME NEW i \in JobMsgs(w)' PROVE FALSE
    <3>1. i \in 1..Len(Tail(q)) /\ Tail(q)[i] # Kill
      BY <1>6, <2>1 DEF JobMsgs
    <3>2. i + 1 \in JobMsgs(w)
      BY <1>3, <3>1 DEF JobMsgs
    <3>3. QED
      BY <1>2, <1>5, <3>1, <3>2 DEF TokenOf
  <2>2. QED
    BY <2>1
<1>8. \A v \in Worker, kind \in {"finished", "killed"} : AcksOf(v, kind)' = AcksOf(v, kind)
  BY <1>1 DEF AcksOf
<1>9. TokenOf(w)'
  BY <1>2, <1>5, <1>7, <1>8 DEF TokenOf
<1>10. LastOf(w)'
  BY <1>1, <1>2, <1>4, <1>6, <1>8, Marks DEF LastOf
<1>11. /\ chan' \in [Worker -> Seq(Msg)] /\ thread' \in [Worker -> Seqnum \cup {Waiting, Gone}]
       /\ acks' \in Seq(Ack)
       /\ \A v \in Worker : v # w => chan'[v] = chan[v] /\ thread'[v] = thread[v]
  BY <1>1, <1>2, <1>3, <1>4 DEF TypeOK, Msg, Ack
<1>12. QED
  BY <1>1, <1>8, <1>9, <1>10, <1>11, ThreadOK

\* A thread that ends, told to or not, drops what its channel holds.
LEMMA GoneOK ==
    ASSUME IInv, NEW w \in Worker, thread[w] # Gone, UNCHANGED mainVars,
           thread' = [thread EXCEPT ![w] = Gone], chan' = [chan EXCEPT ![w] = <<>>],
           acks' = acks \/ (/\ acks' = Append(acks, [kind |-> "killed", id |-> w]))
    PROVE  IInv'
<1>1. TypeOK /\ TokenOf(w) /\ LastOf(w) /\ device_job'[w] = device_job[w] /\ state'[w] = state[w]
  BY DEF IInv, Token, KilledLast, mainVars, manager
<1>2. chan'[w] = <<>> /\ thread'[w] = Gone
  BY <1>1 DEF TypeOK
<1>3. JobMsgs(w)' = {}
  BY <1>2 DEF JobMsgs
<1>4. AcksOf(w, "killed") = {}
  BY <1>1 DEF LastOf
<1>5. /\ acks' \in Seq(Ack)
      /\ \A v \in Worker : AcksOf(v, "finished")' = AcksOf(v, "finished")
      /\ \A v \in Worker : v # w => AcksOf(v, "killed")' = AcksOf(v, "killed")
      /\ AcksOf(w, "killed")' \subseteq {Len(acks) + 1}
      /\ Len(acks) \in Nat
  <2> DEFINE a == [kind |-> "killed", id |-> w]
  <2>1. CASE acks' = acks
    <3>1. acks \in Seq(Ack)
      BY <1>1 DEF TypeOK, Ack
    <3>2. \A v \in Worker, kind \in {"finished", "killed"} : AcksOf(v, kind)' = AcksOf(v, kind)
      BY <2>1 DEF AcksOf
    <3>3. QED
      BY <1>4, <2>1, <3>1, <3>2
  <2>2. CASE acks' = Append(acks, a)
    <3>1. a \in Ack /\ a.kind = "killed" /\ a.id = w
      BY DEF Ack
    <3> HIDE DEF a
    <3>2. /\ acks' \in Seq(Ack) /\ Len(acks) \in Nat
          /\ \A v \in Worker, kind \in {"finished", "killed"} :
                AcksOf(v, kind)' = AcksOf(v, kind) \cup
                    (IF a.kind = kind /\ a.id = v THEN {Len(acks) + 1} ELSE {})
      BY <1>1, <2>2, <3>1, AcksAppend
    <3>3. \A v \in Worker : AcksOf(v, "finished")' = AcksOf(v, "finished") \cup {}
      BY <3>1, <3>2
    <3>4. \A v \in Worker : v # w => AcksOf(v, "killed")' = AcksOf(v, "killed") \cup {}
      BY <3>1, <3>2
    <3>5. AcksOf(w, "killed")' = AcksOf(w, "killed") \cup {Len(acks) + 1}
      BY <3>1, <3>2
    <3>6. \A X : X \cup {} = X
      OBVIOUS
    <3>7. QED
      BY <1>4, <3>2, <3>3, <3>4, <3>5, <3>6
  <2>3. QED
    BY <2>1, <2>2
<1>6. TokenOf(w)'
  BY <1>1, <1>2, <1>3, <1>5, Marks DEF TokenOf
<1>7. LastOf(w)'
  <2>1. \A j \in AcksOf(w, "finished") : j \in Nat /\ j <= Len(acks) + 1
    BY <1>5 DEF AcksOf
  <2>2. \A i \in AcksOf(w, "killed")' :
           \A j \in AcksOf(w, "finished")' \cup AcksOf(w, "killed")' : j <= i
    BY <1>5, <2>1
  <2>3. QED
    BY <1>1, <1>2, <2>2 DEF LastOf
<1>8. /\ chan' \in [Worker -> Seq(Msg)] /\ thread' \in [Worker -> Seqnum \cup {Waiting, Gone}]
      /\ \A v \in Worker : v # w => chan'[v] = chan[v] /\ thread'[v] = thread[v]
  BY <1>1 DEF TypeOK, Msg
<1>9. QED
  BY <1>5, <1>6, <1>7, <1>8, ThreadOK

LEMMA WorkerFinishOK ==
    ASSUME IInv, NEW w \in Worker, WorkerFinish(w)
    PROVE  IInv'
<1> DEFINE a == [kind |-> "finished", id |-> w]
<1>1. /\ thread[w] \in Seqnum /\ thread' = [thread EXCEPT ![w] = Waiting]
      /\ acks' = Append(acks, a) /\ UNCHANGED mainVars /\ chan' = chan
  BY DEF WorkerFinish
<1>2. TypeOK /\ TokenOf(w) /\ LastOf(w) /\ device_job'[w] = device_job[w] /\ state'[w] = state[w]
  BY <1>1 DEF IInv, Token, KilledLast, mainVars, manager
<1>3. a \in Ack /\ a.kind = "finished" /\ a.id = w
  BY DEF Ack
<1> HIDE DEF a
<1>4. /\ acks' \in Seq(Ack)
      /\ \A v \in Worker, kind \in {"finished", "killed"} :
            AcksOf(v, kind)' = AcksOf(v, kind) \cup
                (IF a.kind = kind /\ a.id = v THEN {Len(acks) + 1} ELSE {})
  BY <1>1, <1>2, <1>3, AcksAppend
<1>5. /\ \A v \in Worker : v # w => AcksOf(v, "finished")' = AcksOf(v, "finished")
      /\ \A v \in Worker : AcksOf(v, "killed")' = AcksOf(v, "killed")
      /\ AcksOf(w, "finished")' = AcksOf(w, "finished") \cup {Len(acks) + 1}
  <2>1. \A v \in Worker : v # w => AcksOf(v, "finished")' = AcksOf(v, "finished") \cup {}
    BY <1>3, <1>4
  <2>2. \A v \in Worker : AcksOf(v, "killed")' = AcksOf(v, "killed") \cup {}
    BY <1>3, <1>4
  <2>3. AcksOf(w, "finished")' = AcksOf(w, "finished") \cup {Len(acks) + 1}
    BY <1>3, <1>4
  <2>4. \A X : X \cup {} = X
    OBVIOUS
  <2>5. QED
    BY <2>1, <2>2, <2>3, <2>4
<1>6. thread'[w] = Waiting /\ JobMsgs(w)' = JobMsgs(w)
  BY <1>1, <1>2 DEF TypeOK, JobMsgs
<1>7. JobMsgs(w) = {} /\ AcksOf(w, "finished") = {} /\ device_job[w] # NoJob
  BY <1>1, <1>2 DEF TokenOf
<1>8. TokenOf(w)'
  BY <1>2, <1>5, <1>6, <1>7, Marks DEF TokenOf
<1>9. LastOf(w)'
  <2>1. AcksOf(w, "killed") = {} /\ state[w] # "None"
    BY <1>1, <1>2, Marks DEF LastOf
  <2>2. QED
    BY <1>2, <1>5, <1>6, <2>1, Marks DEF LastOf
<1>10. /\ chan' \in [Worker -> Seq(Msg)] /\ thread' \in [Worker -> Seqnum \cup {Waiting, Gone}]
       /\ \A v \in Worker : v # w => chan'[v] = chan[v] /\ thread'[v] = thread[v]
  BY <1>1, <1>2 DEF TypeOK, Msg
<1>11. QED
  BY <1>1, <1>4, <1>5, <1>8, <1>9, <1>10, ThreadOK, SMTT(30)

LEMMA WorkerStepOK ==
    ASSUME IInv, NEW w \in Worker, WorkerStep(w)
    PROVE  IInv'
<1>1. CASE WorkerReadJob(w)
  BY <1>1, ReadJobOK
<1>2. CASE WorkerReadKill(w)
  <2>1. thread[w] # Gone
    BY <1>2, Marks DEF WorkerReadKill
  <2>2. QED
    BY <1>2, <2>1, GoneOK DEF WorkerReadKill
<1>3. CASE WorkerFinish(w)
  BY <1>3, WorkerFinishOK
<1>4. CASE WorkerPanic(w)
  <2>1. thread[w] # Gone
    BY <1>4, Marks DEF WorkerPanic
  <2>2. QED
    BY <1>4, <2>1, GoneOK DEF WorkerPanic
<1>5. QED
  BY <1>1, <1>2, <1>3, <1>4 DEF WorkerStep

-----------------------------------------------------------------------------
(* The theorems *)

\* Nothing is queued, and there are no workers.
LEMMA InitOK == Init => IInv
<1> SUFFICES ASSUME Init PROVE IInv
  OBVIOUS
<1>1. \A w \in Worker : /\ chan[w] = <<>> /\ thread[w] = Gone /\ state[w] = "None"
                        /\ device_job[w] = NoJob
  BY DEF Init
<1>2. TypeOK
  <2>1. job \in [Seqnum -> JobState] /\ worker_of \in [Seqnum -> Worker \cup {NoWorker}]
    BY DEF Init, JobState
  <2>2. state \in [Worker -> WorkerState] /\ device_job \in [Worker -> Seqnum \cup {NoJob}]
    BY DEF Init, WorkerState
  <2>3. /\ thread \in [Worker -> Seqnum \cup {Waiting, Gone}]
        /\ chan \in [Worker -> Seq(Seqnum \cup {Kill})]
    BY DEF Init
  <2>4. acks \in Seq([kind : {"finished", "killed"}, id : Worker])
    BY DEF Init
  <2>5. timer \in BOOLEAN /\ starting \in BOOLEAN /\ panic \in BOOLEAN
    BY DEF Init
  <2>6. events \in 0..MaxEvent
    BY DevmasterAssumption DEF Init
  <2>7. QED
    BY <2>1, <2>2, <2>3, <2>4, <2>5, <2>6 DEF TypeOK
<1>3. \A w \in Worker : JobMsgs(w) = {} /\ \A kind : AcksOf(w, kind) = {}
  BY <1>1 DEF Init, JobMsgs, AcksOf
<1>4. \A w \in Worker : TokenOf(w) /\ LastOf(w)
  BY <1>1, <1>3, Marks DEF TokenOf, LastOf
<1>5. Bound /\ IdleFree /\ NoUnwrapFails
  BY <1>1 DEF Init, Bound, IdleFree, NoUnwrapFails
<1>6. QED
  BY <1>2, <1>4, <1>5 DEF IInv, Token, KilledLast

\* One step for each of the main thread's handlers and of the threads.
LEMMA NextOK ==
    ASSUME IInv, [Next]_vars
    PROVE  IInv'
<1>1. CASE \E s \in 0..MaxSeqnum : InsertDevice(s)
  BY <1>1, InsertOK
<1>2. CASE start_kill_workers_timer
  BY <1>2, TimerOK
<1>3. CASE manager_kill_workers
  BY <1>3, KillOK
<1>4. CASE MainStep
  BY <1>4, DispatchOK, StartEndOK, DisposeOK DEF MainStep
<1>5. CASE \E w \in Worker : WorkerStep(w)
  BY <1>5, WorkerStepOK
<1>6. CASE UNCHANGED vars
  <2>1. /\ UNCHANGED <<worker_of, manager, threads, acks, panic>>
        /\ UNCHANGED <<job, timer, starting, events>>
    BY <1>6 DEF vars, manager, threads
  <2>2. QED
    BY <2>1, QueueStepOK DEF IInv, TypeOK
<1>7. QED
  BY <1>1, <1>2, <1>3, <1>4, <1>5, <1>6 DEF Next

\* However kills, jobs, panics of threads and acknowledgements cross, job and
\* worker are bound to each other and no unwrap of worker_response_dispose fails.
THEOREM DevmasterSafe == Spec => [](TypeOK /\ Bound /\ NoUnwrapFails)
<1>1. IInv /\ [Next]_vars => IInv'
  BY NextOK
<1>2. IInv => TypeOK /\ Bound /\ NoUnwrapFails
  BY DEF IInv
<1>3. QED
  BY InitOK, <1>1, <1>2, PTL DEF Spec

\* A step of the queue of DeviceQueue, or none.
LEMMA QueueRefined ==
    ASSUME IInv, [Next]_vars
    PROVE  [Queue!Next]_(Queue!queueVars)
<1> DEFINE wait == {s \in Seqnum : job[s] = "Queued"}
           run == {s \in Seqnum : job[s] = "Running"}
<1>0. job \in [Seqnum -> JobState] /\ Seqnum \subseteq Nat
  BY Marks DEF IInv, TypeOK
<1>1. ASSUME job' = job PROVE UNCHANGED Queue!queueVars
  BY <1>1 DEF Queue!queueVars
<1>2. ASSUME NEW s, InsertDevice(s) PROVE [Queue!Next]_(Queue!queueVars)
  <2>1. job' = [q \in Seqnum |-> IF q = s /\ job[q] = "None" THEN "Queued" ELSE job[q]]
    BY <1>2 DEF InsertDevice, job_queue_insert
  <2>2. CASE s \in Seqnum /\ job[s] = "None"
    <3>1. s \notin wait \cup run /\ wait' = wait \cup {s} /\ run' = run
      BY <1>0, <2>1, <2>2
    <3>2. Queue!Insert(s)
      BY <3>1 DEF Queue!Insert
    <3>3. QED
      BY <2>2, <3>2 DEF Queue!Next
  <2>3. CASE ~(s \in Seqnum /\ job[s] = "None")
    <3>1. job' = job
      BY <1>0, <2>1, <2>3
    <3>2. QED
      BY <1>1, <3>1
  <2>4. QED
    BY <2>2, <2>3
<1>3. ASSUME NEW s \in Seqnum, NEW w \in Worker, job_dispatch(s, w)
      PROVE  [Queue!Next]_(Queue!queueVars)
  <2>1. /\ job' = [job EXCEPT ![s] = "Running"] /\ job[s] = "Queued"
        /\ \A q \in Seqnum : job[q] = "Queued" => s <= q
    BY <1>3 DEF job_dispatch, is_next_job, Queued, dispatch_idle, create_new_worker, bind
  <2>2. /\ s \in wait /\ (\A o \in wait : s <= o)
        /\ wait' = wait \ {s} /\ run' = run \cup {s}
    BY <1>0, <2>1
  <2>3. Queue!Take(s)
    BY <2>2 DEF Queue!Take
  <2>4. QED
    BY <2>3 DEF Queue!Next
<1>4. ASSUME worker_response_dispose PROVE [Queue!Next]_(Queue!queueVars)
  <2>0. PICK w : w = Head(acks).id
    OBVIOUS
  <2>1. /\ acks # <<>> /\ acks' = Tail(acks) /\ UNCHANGED threads
        /\ \/ Head(acks).kind = "killed" /\ dispose_killed(w)
           \/ Head(acks).kind = "finished" /\ dispose_finished(w)
    BY <1>4, <2>0 DEF worker_response_dispose
  <2>2. CASE Head(acks).kind = "killed"
    <3>1. job' = job
      BY <2>1, <2>2 DEF dispose_killed
    <3>2. QED
      BY <1>1, <3>1
  <2>3. CASE Head(acks).kind = "finished"
    <3>1. PICK s : s = device_job[w]
      OBVIOUS
    <3>2. s \in Seqnum /\ w \in Worker
      BY <2>0, <2>1, <2>3, <3>1, FirstAck
    <3>3. job[s] = "Running"
      BY <3>1, <3>2, Marks DEF IInv, Bound
    <3>4. job' = [q \in Seqnum |-> IF q = s THEN "None" ELSE job[q]]
      BY <2>1, <2>3, <3>1 DEF dispose_finished, job_free
    <3>5. s \in run /\ run' = run \ {s} /\ wait' = wait
      BY <1>0, <3>2, <3>3, <3>4
    <3>6. Queue!Finish(s)
      BY <3>5 DEF Queue!Finish
    <3>7. QED
      BY <3>2, <3>6 DEF Queue!Next
  <2>4. QED
    BY <2>1, <2>2, <2>3
<1>5. ASSUME \/ start_kill_workers_timer \/ manager_kill_workers \/ job_queue_start_end
             \/ (\E w \in Worker : WorkerStep(w)) \/ UNCHANGED vars
      PROVE  job' = job
  BY <1>5 DEF start_kill_workers_timer, manager_kill_workers, job_queue_start_end, WorkerStep,
              WorkerReadJob, WorkerReadKill, WorkerFinish, WorkerPanic, mainVars, queue, vars
<1>6. QED
  BY <1>1, <1>2, <1>3, <1>4, <1>5 DEF Next, MainStep

\* devmaster's queue and workers implement DeviceQueue: an event waits once, the
\* oldest is taken up first, and only what was taken up is done with.
THEOREM DevmasterImplementsQueue == Spec => ImplementsQueue
<1>1. Init => Queue!Init
  BY DEF Init, Queue!Init
<1>2. IInv /\ [Next]_vars => [Queue!Next]_(Queue!queueVars)
  BY QueueRefined
<1>3. IInv /\ [Next]_vars => IInv'
  BY NextOK
<1>4. QED
  BY InitOK, <1>1, <1>2, <1>3, PTL DEF Spec, ImplementsQueue, Queue!Spec
=============================================================================

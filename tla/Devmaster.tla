----------------------------- MODULE Devmaster ------------------------------
(***************************************************************************)
(* The framework of devmaster (exts/devmaster/src/lib/framework): the main *)
(* thread with its event loop, and the worker threads.                     *)
(*                                                                         *)
(*   job         the jobs of JobQueue by seqnum; the queue is kept sorted  *)
(*               by seqnum without duplicates, so it is a function         *)
(*   worker_of   DeviceJob.worker, a weak reference                        *)
(*   state       the entries of WorkerManager.workers, "None" if absent    *)
(*   device_job  Worker.device_job, NoJob if none                          *)
(*   chan        the mpsc channel of a worker                              *)
(*   thread      the seqnum the worker's thread processes, Waiting, or     *)
(*               Gone if it ended, panicked or does not exist              *)
(*   acks        connections to the listener, in the order they were made  *)
(*   timer       the kill timer is armed                                   *)
(*   starting    the main thread is in the loop of job_queue_start         *)
(*                                                                         *)
(* The loop of job_queue_start takes one step per job, since the threads   *)
(* run meanwhile.  panic is set where an unwrap fails in the main thread.  *)
(***************************************************************************)
EXTENDS Integers, Sequences, FiniteSets

CONSTANTS workers_capacity,   \* of WorkerManager
          MaxSeqnum,          \* seqnums are 1..MaxSeqnum
          MaxEvent,           \* how many events and commands there are
          Panics              \* the seqnums whose processing panics the thread

ASSUME DevmasterAssumption ==
    /\ workers_capacity \in Nat \ {0}
    /\ MaxSeqnum \in Nat
    /\ MaxEvent \in Nat
    /\ Panics \subseteq 1..MaxSeqnum

VARIABLES job, worker_of, state, device_job, chan, thread, acks, timer, starting,
          events, panic

queue == <<job, worker_of>>
manager == <<state, device_job>>
threads == <<chan, thread>>
vars == <<job, worker_of, state, device_job, chan, thread, acks, timer, starting,
             events, panic>>

Seqnum == 1..MaxSeqnum
NoJob == 0
Worker == 0..(workers_capacity - 1)

JobState == {"None", "Queued", "Running"}
WorkerState == {"None", "Idle", "Running", "Killing"}

\* A message of WorkerMessage is a job's seqnum or the command "kill".
Kill == 0

\* What a thread does when it processes no job.
Waiting == 0
Gone == -1

\* A weak reference to a worker that does not exist, or none.
NoWorker == -1

Init ==
    /\ job = [s \in Seqnum |-> "None"]
    /\ worker_of = [s \in Seqnum |-> NoWorker]
    /\ state = [w \in Worker |-> "None"]
    /\ device_job = [w \in Worker |-> NoJob]
    /\ chan = [w \in Worker |-> <<>>]
    /\ thread = [w \in Worker |-> Gone]
    /\ acks = <<>>
    /\ timer = FALSE
    /\ starting = FALSE
    /\ events = 0
    /\ panic = FALSE

-----------------------------------------------------------------------------
\* The main thread

\* A device without a seqnum is not queued, nor is a second one with the same.
job_queue_insert(s) ==
    job' = [q \in Seqnum |-> IF q = s /\ job[q] = "None" THEN "Queued" ELSE job[q]]

\* A uevent, or a device sent by "devctl test", whose seqnum is of its own
\* making.
InsertDevice(s) ==
    /\ ~starting /\ ~panic /\ events < MaxEvent
    /\ events' = events + 1
    /\ job_queue_insert(s)
    /\ starting' = TRUE
    /\ UNCHANGED <<worker_of, manager, threads, acks, timer, panic>>

\* "devctl kill" arms the timer anew.
start_kill_workers_timer ==
    /\ ~starting /\ ~panic /\ events < MaxEvent
    /\ events' = events + 1
    /\ timer' = TRUE
    /\ UNCHANGED <<queue, manager, threads, acks, starting, panic>>

\* A send to a thread that is gone fails and is only logged.
worker_send_message(w, msg) ==
    chan' = [chan EXCEPT ![w] = IF thread[w] = Gone THEN @ ELSE Append(@, msg)]

manager_kill_workers_drop ==
    /\ timer /\ ~starting /\ ~panic
    /\ timer' = FALSE
    /\ state' = [w \in Worker |-> "None"]
    /\ chan' = [w \in Worker |-> IF state[w] = "None" \/ thread[w] = Gone THEN chan[w]
                                 ELSE Append(chan[w], Kill)]
    /\ UNCHANGED <<queue, device_job, thread, acks, starting, events, panic>>

manager_kill_workers ==
    /\ timer /\ ~starting /\ ~panic
    /\ timer' = FALSE
    /\ state' = [w \in Worker |-> IF state[w] = "None" THEN "None" ELSE "Killing"]
    /\ chan' = [w \in Worker |-> IF state[w] = "None" \/ thread[w] = Gone THEN chan[w]
                                 ELSE Append(chan[w], Kill)]
    /\ UNCHANGED <<queue, device_job, thread, acks, starting, events, panic>>

-----------------------------------------------------------------------------
\* job_queue_start

Queued(s) == job[s] = "Queued"

is_next_job_any(s) == Queued(s)

is_next_job(s) == Queued(s) /\ \A q \in Seqnum : Queued(q) => s <= q

idle_workers == {w \in Worker : state[w] = "Idle"}

free_ids == {w \in Worker : state[w] = "None"}

\* job_dispatch sends the job, and bind refers job and worker to each other.
bind(s, w) ==
    /\ job' = [job EXCEPT ![s] = "Running"]
    /\ worker_of' = [worker_of EXCEPT ![s] = w]
    /\ state' = [state EXCEPT ![w] = "Running"]
    /\ device_job' = [device_job EXCEPT ![w] = s]

dispatch_idle(s, w) ==
    /\ w \in idle_workers
    /\ bind(s, w)
    /\ worker_send_message(w, s)
    /\ UNCHANGED thread

\* create_new_worker takes the lowest id that is free.
create_new_worker(s, w) ==
    /\ idle_workers = {}
    /\ w \in free_ids /\ \A o \in free_ids : w <= o
    /\ bind(s, w)
    /\ thread' = [thread EXCEPT ![w] = Waiting]
    /\ chan' = [chan EXCEPT ![w] = <<s>>]

\* One job of the loop is dispatched; the rest follows.
job_dispatch(s, w) ==
    /\ starting /\ ~panic
    /\ is_next_job(s)
    /\ dispatch_idle(s, w) \/ create_new_worker(s, w)
    /\ UNCHANGED <<acks, timer, starting, events, panic>>

\* No job is left, or no worker is: the loop ends.
job_queue_start_end ==
    /\ starting /\ ~panic
    /\ (\E s \in Seqnum : Queued(s)) => idle_workers \cup free_ids = {}
    /\ starting' = FALSE
    /\ UNCHANGED <<queue, manager, threads, acks, timer, events, panic>>

-----------------------------------------------------------------------------
\* worker_response_dispose

\* What the two answers unwrap.
unwraps(ack) ==
    /\ state[ack.id] # "None"
    /\ ack.kind = "finished" =>
         device_job[ack.id] # NoJob /\ worker_of[device_job[ack.id]] # NoWorker

\* The worker is removed and its thread joined.
dispose_killed(w) ==
    /\ state' = [state EXCEPT ![w] = "None"]
    /\ device_job' = [device_job EXCEPT ![w] = NoJob]
    /\ worker_of' = [s \in Seqnum |-> IF worker_of[s] = w THEN NoWorker ELSE worker_of[s]]
    /\ UNCHANGED <<job, starting>>

\* DeviceJob.job_free clears both sides, JobQueue.job_free removes the job.
job_free(s) ==
    /\ device_job' = [w \in Worker |-> IF s # NoJob /\ w = worker_of[s] THEN NoJob
                                       ELSE device_job[w]]
    /\ worker_of' = [q \in Seqnum |-> IF q = s THEN NoWorker ELSE worker_of[q]]
    /\ job' = [q \in Seqnum |-> IF q = s THEN "None" ELSE job[q]]

dispose_finished_only(w) ==
    /\ state' = [state EXCEPT ![w] = "Idle"]
    /\ job_free(device_job[w])
    /\ UNCHANGED starting

\* The job is freed, then job_queue_start.
dispose_finished(w) ==
    /\ state' = [state EXCEPT ![w] = "Idle"]
    /\ job_free(device_job[w])
    /\ starting' = TRUE

worker_response_dispose ==
    /\ ~starting /\ ~panic /\ acks # <<>>
    /\ panic' = ~unwraps(Head(acks))
    /\ \/ Head(acks).kind = "killed" /\ dispose_killed(Head(acks).id)
       \/ Head(acks).kind = "finished" /\ dispose_finished(Head(acks).id)
    /\ acks' = Tail(acks)
    /\ UNCHANGED <<threads, timer, events>>

-----------------------------------------------------------------------------
\* A worker's thread

mainVars == <<queue, manager, timer, starting, events, panic>>

WorkerReadJob(w) ==
    /\ thread[w] = Waiting /\ chan[w] # <<>> /\ Head(chan[w]) # Kill
    /\ thread' = [thread EXCEPT ![w] = Head(chan[w])]
    /\ chan' = [chan EXCEPT ![w] = Tail(@)]
    /\ UNCHANGED <<mainVars, acks>>

\* The thread acknowledges and ends.
WorkerReadKill(w) ==
    /\ thread[w] = Waiting /\ chan[w] # <<>> /\ Head(chan[w]) = Kill
    /\ thread' = [thread EXCEPT ![w] = Gone]
    /\ chan' = [chan EXCEPT ![w] = <<>>]
    /\ acks' = Append(acks, [kind |-> "killed", id |-> w])
    /\ UNCHANGED mainVars

\* The device is processed and broadcast, and the job acknowledged.
WorkerFinish(w) ==
    /\ thread[w] \in Seqnum \ Panics
    /\ thread' = [thread EXCEPT ![w] = Waiting]
    /\ acks' = Append(acks, [kind |-> "finished", id |-> w])
    /\ UNCHANGED <<mainVars, chan>>

\* The thread panics: its job is never acknowledged, its channel is gone.
WorkerPanic(w) ==
    /\ thread[w] \in Panics
    /\ thread' = [thread EXCEPT ![w] = Gone]
    /\ chan' = [chan EXCEPT ![w] = <<>>]
    /\ UNCHANGED <<mainVars, acks>>

WorkerStep(w) ==
    WorkerReadJob(w) \/ WorkerReadKill(w) \/ WorkerFinish(w) \/ WorkerPanic(w)

MainStep ==
    \/ \E s \in Seqnum, w \in Worker : job_dispatch(s, w)
    \/ job_queue_start_end
    \/ worker_response_dispose

Next ==
    \/ \E s \in 0..MaxSeqnum : InsertDevice(s)
    \/ start_kill_workers_timer
    \/ manager_kill_workers
    \/ MainStep
    \/ \E w \in Worker : WorkerStep(w)

\* The main thread goes through its loop and the connections made to it, and
\* the scheduler runs every thread.
Fairness == WF_vars(MainStep) /\ \A w \in Worker : WF_vars(WorkerStep(w))

Spec == Init /\ [][Next]_vars /\ Fairness

-----------------------------------------------------------------------------
\* Properties

TypeOK ==
    /\ job \in [Seqnum -> JobState]
    /\ worker_of \in [Seqnum -> Worker \cup {NoWorker}]
    /\ state \in [Worker -> WorkerState]
    /\ device_job \in [Worker -> Seqnum \cup {NoJob}]
    /\ chan \in [Worker -> Seq(Seqnum \cup {Kill})]
    /\ thread \in [Worker -> Seqnum \cup {Waiting, Gone}]
    /\ acks \in Seq([kind : {"finished", "killed"}, id : Worker])
    /\ timer \in BOOLEAN /\ starting \in BOOLEAN /\ panic \in BOOLEAN
    /\ events \in 0..MaxEvent

\* A worker that is bound to a job and that job refer to each other, and the job
\* is one the queue holds as running: bind and job_free keep the two sides of the
\* weak references together whatever the order of acknowledgements.
Bound ==
    \A w \in Worker : device_job[w] # NoJob =>
        /\ state[w] # "None"
        /\ job[device_job[w]] = "Running"
        /\ worker_of[device_job[w]] = w

\* No unwrap of worker_response_dispose fails, however kills, jobs and
\* acknowledgements cross.
NoUnwrapFails == ~panic

\* devmaster's queue and workers implement the queue of DeviceQueue.
Queue == INSTANCE DeviceQueue WITH
    waiting <- {s \in Seqnum : job[s] = "Queued"},
    active  <- {s \in Seqnum : job[s] = "Running"}

ImplementsQueue == Queue!Spec

\* Without a kill, and as long as some worker survives, every event that does not
\* panic its thread is processed: a job that finds no worker is started by the
\* acknowledgement of another.
EventsAreProcessed ==
    Cardinality(Panics) < workers_capacity /\ [](~timer) =>
        \A s \in Seqnum \ Panics : (job[s] = "Queued") ~> (job[s] = "None")
=============================================================================

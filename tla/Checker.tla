-------------------------------- MODULE Checker --------------------------------
(***************************************************************************)
(* The asynchronous checker (pmx_checker.c): a queue of jobs, one worker   *)
(* thread that takes them under the mutex, probes outside it and queues    *)
(* the result, and a client (the GUI or the pump) that submits, polls and  *)
(* finally destroys it.                                                    *)
(*                                                                         *)
(* Each step is one critical section.  cond_wait releases the mutex and    *)
(* sleeps in one step; it may also wake on its own.                        *)
(***************************************************************************)
EXTENDS Naturals, Sequences

CONSTANTS
  MaxHops,        \* PMX_MAX_CHAIN_HOPS
  MemoryMayFail,  \* an allocation may fail
  MaxJobs         \* bound: jobs submitted

ASSUME CheckerAssumption ==
  MaxHops \in Nat \ {0} /\ MemoryMayFail \in BOOLEAN /\ MaxJobs \in Nat

Whole == 0                 \* hop_index of a check of one proxy (-1 in the code)
Hops  == 0..MaxHops
Jobs  == [n: 1..MaxJobs, hop: Hops]
NoJob == [n |-> 0, hop |-> Whole]

\* Options, as far as they matter: the opt-in egress measurement is on or off.
Options == {"plain", "egress"}

VARIABLES
  jobs,       \* job_head .. job_tail
  results,    \* res_head .. res_tail
  pending,    \* pmx_checker.pending
  running,    \* pmx_checker.running
  opts,       \* pmx_checker.opts
  worker,     \* "ready" to lock the mutex, "waiting", "probing", "gone"
  job,        \* what the worker is probing
  using,      \* the options it copied
  client,     \* "open", "chain" (inside submit_chain), "joining", "freed"
  hop,        \* the next hop of that chain
  submitted   \* jobs submitted so far

workerVars  == <<worker, job, using>>
checkerVars == <<jobs, results, pending, running, opts, worker, job, using,
                 client, hop, submitted>>

-----------------------------------------------------------------------------
\* pmx_cond_signal and pmx_cond_broadcast, with one thread that ever waits.
Wake_Lost == UNCHANGED worker
Wake == worker' = IF worker = "waiting" THEN "ready" ELSE worker

Enqueue_AtHead(h) ==
  /\ submitted < MaxJobs
  /\ submitted' = submitted + 1
  /\ jobs' = <<[n |-> submitted', hop |-> h]>> \o jobs
  /\ pending' = pending + 1
  /\ Wake
  /\ UNCHANGED <<results, running, opts, job, using>>
Enqueue(h) ==
  /\ submitted < MaxJobs
  /\ submitted' = submitted + 1
  /\ jobs' = Append(jobs, [n |-> submitted', hop |-> h])
  /\ pending' = pending + 1
  /\ Wake
  /\ UNCHANGED <<results, running, opts, job, using>>

Submit == client = "open" /\ Enqueue(Whole) /\ UNCHANGED <<client, hop>>

\* pmx_checker_submit_chain: one critical section per hop.  A hop that resolves
\* to no proxy is skipped, and so is one there is no memory for.
SubmitChain ==
  /\ client = "open" /\ client' = "chain" /\ hop' = 1
  /\ UNCHANGED <<jobs, results, pending, running, opts, workerVars, submitted>>

SubmitHop ==
  /\ client = "chain"
  /\ Enqueue(hop)
  /\ hop' = hop + 1
  /\ client' \in IF hop < MaxHops THEN {"chain", "open"} ELSE {"open"}

SkipHop ==
  /\ client = "chain"
  /\ hop' = hop + 1
  /\ client' \in IF hop < MaxHops THEN {"chain", "open"} ELSE {"open"}
  /\ UNCHANGED <<jobs, results, pending, running, opts, workerVars, submitted>>

Poll ==
  /\ client = "open" /\ results # <<>>
  /\ results' = Tail(results)
  /\ UNCHANGED <<jobs, pending, running, opts, workerVars, client, hop, submitted>>

SetOpts(o) ==
  /\ client = "open" /\ opts' = o
  /\ UNCHANGED <<jobs, results, pending, running, workerVars, client, hop, submitted>>

-----------------------------------------------------------------------------
\* The worker's critical section at the head of its loop.  Told to stop, it
\* leaves the backlog where it is.
Take_DrainsFirst ==
  /\ worker = "ready"
  /\ IF jobs # <<>>
       THEN worker' = "probing" /\ job' = Head(jobs) /\ jobs' = Tail(jobs) /\ using' = opts
       ELSE worker' = (IF running THEN "waiting" ELSE "gone") /\ UNCHANGED <<jobs, job, using>>
  /\ UNCHANGED <<results, pending, running, opts, client, hop, submitted>>
Take ==
  /\ worker = "ready"
  /\ \/ ~running /\ worker' = "gone" /\ UNCHANGED <<jobs, job, using>>
     \/ running /\ jobs = <<>> /\ worker' = "waiting" /\ UNCHANGED <<jobs, job, using>>
     \/ /\ running /\ jobs # <<>>
        /\ worker' = "probing" /\ job' = Head(jobs) /\ jobs' = Tail(jobs)
        /\ using' = opts
  /\ UNCHANGED <<results, pending, running, opts, client, hop, submitted>>

SpuriousWake ==
  /\ worker = "waiting" /\ worker' = "ready"
  /\ UNCHANGED <<jobs, results, pending, running, opts, job, using, client, hop, submitted>>

\* The probe is over.  push_result drops what it cannot allocate; the count goes
\* down either way.
Answer_CountsOnlyQueued ==
  /\ worker = "probing"
  /\ \/ results' = Append(results, job) /\ pending' = pending - 1
     \/ MemoryMayFail /\ UNCHANGED <<results, pending>>
  /\ worker' = "ready" /\ job' = NoJob
  /\ UNCHANGED <<jobs, running, opts, using, client, hop, submitted>>
Answer ==
  /\ worker = "probing"
  /\ results' = Append(results, job) \/ (MemoryMayFail /\ UNCHANGED results)
  /\ pending' = IF pending > 0 THEN pending - 1 ELSE pending
  /\ worker' = "ready" /\ job' = NoJob
  /\ UNCHANGED <<jobs, running, opts, using, client, hop, submitted>>

-----------------------------------------------------------------------------
\* pmx_checker_destroy: stop and wake the worker, join it, free the queues.
Destroy_NoBroadcast ==
  /\ client = "open" /\ client' = "joining"
  /\ running' = FALSE
  /\ UNCHANGED <<jobs, results, pending, opts, workerVars, hop, submitted>>
Destroy ==
  /\ client = "open" /\ client' = "joining"
  /\ running' = FALSE /\ Wake
  /\ UNCHANGED <<jobs, results, pending, opts, job, using, hop, submitted>>

Joined ==
  /\ client = "joining" /\ worker = "gone"
  /\ client' = "freed" /\ jobs' = <<>> /\ results' = <<>>
  /\ UNCHANGED <<pending, running, opts, workerVars, hop, submitted>>

CheckerInit ==
  /\ jobs = <<>> /\ results = <<>> /\ pending = 0
  /\ running = TRUE /\ opts \in Options
  /\ worker = "ready" /\ job = NoJob /\ using = opts
  /\ client = "open" /\ hop = 1 /\ submitted = 0

CheckerNext ==
  \/ Submit \/ SubmitChain \/ SubmitHop \/ SkipHop
  \/ Poll
  \/ \E o \in Options : SetOpts(o)
  \/ Take \/ SpuriousWake \/ Answer
  \/ Destroy \/ Joined

CheckerSpec == CheckerInit /\ [][CheckerNext]_checkerVars

\* The worker is scheduled and a probe ends within its timeouts; a client in
\* destroy returns from the join.  Nobody owes a wakeup.
FairCheckerSpec ==
  /\ CheckerSpec
  /\ WF_checkerVars(Take) /\ WF_checkerVars(Answer)
  /\ WF_checkerVars(Joined)

-----------------------------------------------------------------------------
(***************************************************************************)
(* Types; the worker holds a job exactly while it probes.                  *)
(***************************************************************************)
CheckerTypeOK ==
  /\ jobs \in Seq(Jobs) /\ results \in Seq(Jobs)
  /\ pending \in Nat /\ submitted \in 0..MaxJobs
  /\ running \in BOOLEAN /\ opts \in Options /\ using \in Options
  /\ worker \in {"ready", "waiting", "probing", "gone"}
  /\ job \in Jobs \cup {NoJob} /\ (worker = "probing" <=> job # NoJob)
  /\ client \in {"open", "chain", "joining", "freed"} /\ (running <=> client \in {"open", "chain"})
  /\ hop \in 1..(MaxHops + 1) /\ (client = "chain" => hop <= MaxHops)

InFlight == IF worker = "probing" THEN <<job>> ELSE <<>>

(***************************************************************************)
(* "Number of jobs still queued/in-flight": pmx_checker_pending counts     *)
(* exactly those, at every moment a client can ask -- also after a result  *)
(* was lost for want of memory.  The health watcher probes only at zero.   *)
(***************************************************************************)
PendingIsTrue ==
  client # "freed" => pending = Len(jobs) + Len(InFlight)

(***************************************************************************)
(* The checker keeps its promise: one answer at most per check, in order,  *)
(* for the hop it was asked about, and the backlog counts as forgotten     *)
(* only when it is closed.                                                 *)
(***************************************************************************)
Promise == INSTANCE CheckerPromise WITH
  MaxAsked <- MaxJobs, MayLose <- MemoryMayFail,
  total <- submitted,
  asked <- IF client = "freed" THEN <<>> ELSE InFlight \o jobs,
  answered <- results,
  open <- client # "freed"
ImplementsCheckerPromise == Promise!PromiseSpec

(***************************************************************************)
(* "ABANDON whatever is still queued": once destroy has begun no further   *)
(* job is started, so the join waits for one probe at most.                *)
(***************************************************************************)
BacklogIsAbandoned ==
  [][client = "joining" /\ job' # job => job' = NoJob]_checkerVars

(***************************************************************************)
(* No check is stuck: whatever is queued leaves the queue and the worker's *)
(* hands -- answered, short of memory, or forgotten by destroy.  A wakeup  *)
(* lost between submit and wait would leave it there.                      *)
(***************************************************************************)
EveryCheckIsDone ==
  \A n \in 1..MaxJobs :
    (\E i \in 1..Len(jobs) : jobs[i].n = n)
      ~> (job.n # n /\ \A i \in 1..Len(jobs) : jobs[i].n # n)

(***************************************************************************)
(* destroy returns, whatever the worker was doing.                         *)
(***************************************************************************)
DestroyReturns == (client = "joining") ~> (client = "freed")
=============================================================================

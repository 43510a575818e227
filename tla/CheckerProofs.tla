----------------------------- MODULE CheckerProofs -----------------------------
(***************************************************************************)
(* For any number of jobs and hops, with or without failing allocations:   *)
(* the checker's variables keep their types, its count of pending checks   *)
(* is exact, a backlog is abandoned once destroy has begun, and the two    *)
(* queues and the worker implement CheckerPromise.                         *)
(*                                                                         *)
(* The invariant adds to the first two that the worker is gone once the    *)
(* checker is freed: that is what the join in destroy is for, and without  *)
(* it an answer could follow the free.                                     *)
(***************************************************************************)
EXTENDS Checker, SequenceTheorems, TLAPS

WorkerJoined == client = "freed" => worker = "gone"

CheckerInv == CheckerTypeOK /\ PendingIsTrue /\ WorkerJoined

-----------------------------------------------------------------------------
\* A queue with something at its front.
LEMMA FrontOfQueue ==
  ASSUME NEW S, NEW x \in S, NEW s \in Seq(S)
  PROVE  /\ <<x>> \o s \in Seq(S) /\ <<x>> \o s # <<>>
         /\ Head(<<x>> \o s) = x /\ Tail(<<x>> \o s) = s
<1>1. <<x>> \in Seq(S) /\ Len(<<x>>) = 1 /\ <<x>>[1] = x
  OBVIOUS
<1>2. /\ <<x>> \o s \in Seq(S) /\ Len(<<x>> \o s) = 1 + Len(s)
      /\ \A i \in 1..(1 + Len(s)) : (<<x>> \o s)[i] = IF i <= 1 THEN <<x>>[i] ELSE s[i - 1]
  BY <1>1, ConcatProperties
<1>3. Len(s) \in Nat
  BY LenProperties
<1>4. <<x>> \o s # <<>>
  BY <1>2, <1>3, EmptySeq
<1>5. Head(<<x>> \o s) = x
  BY <1>1, <1>2, <1>3, <1>4
<1>6. /\ Tail(<<x>> \o s) \in Seq(S)
      /\ Len(Tail(<<x>> \o s)) = Len(s)
      /\ \A i \in 1..Len(s) : Tail(<<x>> \o s)[i] = s[i]
  <2>1. /\ Tail(<<x>> \o s) \in Seq(S)
        /\ Len(Tail(<<x>> \o s)) = Len(<<x>> \o s) - 1
        /\ \A i \in 1..Len(Tail(<<x>> \o s)) : Tail(<<x>> \o s)[i] = (<<x>> \o s)[i + 1]
    BY <1>2, <1>4, HeadTailProperties
  <2>2. QED
    BY <2>1, <1>2, <1>3
<1>7. Tail(<<x>> \o s) = s
  BY <1>6, SeqEqual
<1>8. QED
  BY <1>2, <1>4, <1>5, <1>7

\* Taking the front off a queue and putting it back changes nothing.
LEMMA FrontPutBack ==
  ASSUME NEW S, NEW s \in Seq(S), s # <<>>
  PROVE  <<Head(s)>> \o Tail(s) = s
<1>1. Len(s) \in Nat \ {0}
  BY EmptySeq
<1>2. /\ Head(s) \in S /\ Tail(s) \in Seq(S) /\ Len(Tail(s)) = Len(s) - 1
      /\ \A i \in 1..Len(Tail(s)) : Tail(s)[i] = s[i + 1]
  BY HeadTailProperties
<1>3. <<Head(s)>> \in Seq(S) /\ Len(<<Head(s)>>) = 1 /\ <<Head(s)>>[1] = s[1]
  BY <1>1, <1>2
<1>4. /\ <<Head(s)>> \o Tail(s) \in Seq(S)
      /\ Len(<<Head(s)>> \o Tail(s)) = 1 + Len(Tail(s))
      /\ \A i \in 1..(1 + Len(Tail(s))) :
            (<<Head(s)>> \o Tail(s))[i] = IF i <= 1 THEN <<Head(s)>>[i] ELSE Tail(s)[i - 1]
  BY <1>2, <1>3, ConcatProperties
<1>5. \A i \in 1..Len(s) : (<<Head(s)>> \o Tail(s))[i] = s[i]
  BY <1>1, <1>2, <1>3, <1>4
<1>6. QED
  BY <1>1, <1>2, <1>4, <1>5, SeqEqual

\* What joins a queue at its end does so whatever stands before it.
LEMMA EndOfQueue ==
  ASSUME NEW S, NEW s \in Seq(S), NEW t \in Seq(S), NEW x \in S
  PROVE  s \o Append(t, x) = Append(s \o t, x)
<1>1. <<x>> \in Seq(S)
  OBVIOUS
<1>2. s \o t \in Seq(S)
  BY ConcatProperties
<1>3. Append(t, x) = t \o <<x>> /\ Append(s \o t, x) = (s \o t) \o <<x>>
  BY <1>2, AppendIsConcat
<1>4. (s \o t) \o <<x>> = s \o (t \o <<x>>)
  BY <1>1, ConcatAssociative
<1>5. QED
  BY <1>3, <1>4

-----------------------------------------------------------------------------
\* NoJob is no job: numbers start at one.
LEMMA NoJobIsNoJob == NoJob \notin Jobs
BY DEF NoJob, Jobs

(***************************************************************************)
(* One critical section of submit: the job joins the end of the queue, the *)
(* count goes up, and the worker is not left waiting.                      *)
(***************************************************************************)
LEMMA EnqueueGrowsTheQueue ==
  ASSUME CheckerInv, NEW h \in Hops, Enqueue(h)
  PROVE  /\ [n |-> submitted', hop |-> h] \in Jobs
         /\ jobs' = Append(jobs, [n |-> submitted', hop |-> h])
         /\ jobs' \in Seq(Jobs) /\ Len(jobs') = Len(jobs) + 1
         /\ pending' = pending + 1 /\ pending' \in Nat
         /\ submitted' = submitted + 1 /\ submitted' \in 1..MaxJobs
         /\ worker' \in {worker, "ready"} /\ (worker' # worker => worker = "waiting")
         /\ InFlight' = InFlight
         /\ UNCHANGED <<results, running, opts, job, using>>
<1>1. submitted' = submitted + 1 /\ submitted' \in 1..MaxJobs
  BY CheckerAssumption DEF CheckerInv, CheckerTypeOK, Enqueue
<1>2. [n |-> submitted', hop |-> h] \in Jobs
  BY <1>1 DEF Jobs
<1>3. jobs \in Seq(Jobs)
  BY DEF CheckerInv, CheckerTypeOK
<1>4. jobs' = Append(jobs, [n |-> submitted', hop |-> h])
  BY DEF Enqueue
<1>5. jobs' \in Seq(Jobs) /\ Len(jobs') = Len(jobs) + 1
  BY <1>2, <1>3, <1>4, AppendProperties
<1>6. worker' \in {worker, "ready"} /\ (worker' # worker => worker = "waiting")
  BY DEF Enqueue, Wake
<1>7. InFlight' = InFlight
  BY DEF Enqueue, Wake, InFlight
<1>8. pending' = pending + 1 /\ pending' \in Nat
  BY DEF Enqueue, CheckerInv, CheckerTypeOK
<1>9. QED
  BY <1>1, <1>2, <1>4, <1>5, <1>6, <1>7, <1>8 DEF Enqueue

\* Lengths that the count is about.
LEMMA Lengths ==
  ASSUME CheckerTypeOK
  PROVE  /\ Len(jobs) \in Nat /\ Len(InFlight) \in Nat
         /\ Len(InFlight) = IF worker = "probing" THEN 1 ELSE 0
         /\ InFlight \in Seq(Jobs)
<1>1. Len(jobs) \in Nat
  BY LenProperties DEF CheckerTypeOK
<1>2. CASE worker = "probing"
  <2>1. job \in Jobs
    BY <1>2 DEF CheckerTypeOK
  <2>2. QED
    BY <1>1, <1>2, <2>1 DEF InFlight
<1>3. CASE worker # "probing"
  BY <1>1, <1>3 DEF InFlight
<1>4. QED
  BY <1>2, <1>3

(***************************************************************************)
(* Submitting keeps the invariant, whatever the client goes on to do.      *)
(***************************************************************************)
LEMMA EnqueueKeepsInvariant ==
  ASSUME CheckerInv, NEW h \in Hops, Enqueue(h),
         client \in {"open", "chain"}, client' \in {"open", "chain"},
         hop' \in 1..(MaxHops + 1), client' = "chain" => hop' <= MaxHops
  PROVE  CheckerInv'
<1>1. /\ jobs' \in Seq(Jobs) /\ Len(jobs') = Len(jobs) + 1
      /\ pending' = pending + 1 /\ pending' \in Nat
      /\ submitted' \in 1..MaxJobs
      /\ worker' \in {worker, "ready"} /\ (worker' # worker => worker = "waiting")
      /\ InFlight' = InFlight
      /\ UNCHANGED <<results, running, opts, job, using>>
  BY EnqueueGrowsTheQueue
<1>2. CheckerTypeOK'
  BY <1>1, CheckerAssumption DEF CheckerInv, CheckerTypeOK
<1>3. PendingIsTrue'
  <2>1. pending = Len(jobs) + Len(InFlight)
    BY DEF CheckerInv, PendingIsTrue
  <2>2. Len(jobs) \in Nat /\ Len(InFlight) \in Nat
    BY Lengths DEF CheckerInv
  <2>3. QED
    BY <1>1, <2>1, <2>2 DEF PendingIsTrue
<1>4. QED
  BY <1>2, <1>3 DEF CheckerInv, WorkerJoined

(***************************************************************************)
(* Every step keeps the invariant.                                         *)
(***************************************************************************)
LEMMA CheckerStep ==
  ASSUME CheckerInv, [CheckerNext]_checkerVars
  PROVE  CheckerInv'
<1> USE DEF CheckerInv, WorkerJoined
<1>0. CheckerTypeOK /\ Len(jobs) \in Nat /\ MaxHops \in Nat \ {0}
  BY Lengths, CheckerAssumption
<1>1. CASE Submit
  <2>1. /\ client = "open" /\ Enqueue(Whole) /\ Whole \in Hops
        /\ UNCHANGED <<client, hop>> /\ hop \in 1..(MaxHops + 1)
    BY <1>1, <1>0 DEF Submit, Whole, Hops, CheckerTypeOK
  <2>2. QED
    BY <2>1, EnqueueKeepsInvariant
<1>2. CASE SubmitChain
  BY <1>0, <1>2 DEF SubmitChain, CheckerTypeOK, PendingIsTrue, InFlight, workerVars
<1>3. CASE SubmitHop
  <2>1. client = "chain" /\ Enqueue(hop) /\ hop \in Hops
    BY <1>3, <1>0 DEF SubmitHop, Hops, CheckerTypeOK
  <2>2. /\ hop' \in 1..(MaxHops + 1)
        /\ client' \in {"chain", "open"} /\ (client' = "chain" => hop' <= MaxHops)
    BY <1>3, <1>0 DEF SubmitHop, CheckerTypeOK
  <2>3. QED
    BY <2>1, <2>2, EnqueueKeepsInvariant
<1>4. CASE SkipHop
  <2>1. /\ hop' \in 1..(MaxHops + 1) /\ client = "chain"
        /\ client' \in {"chain", "open"} /\ (client' = "chain" => hop' <= MaxHops)
    BY <1>4, <1>0 DEF SkipHop, CheckerTypeOK
  <2>2. QED
    BY <1>0, <1>4, <2>1 DEF SkipHop, CheckerTypeOK, PendingIsTrue, InFlight, workerVars
<1>5. CASE Poll
  <2>1. results' \in Seq(Jobs)
    BY <1>0, <1>5, HeadTailProperties DEF Poll, CheckerTypeOK
  <2>2. QED
    BY <1>0, <1>5, <2>1 DEF Poll, CheckerTypeOK, PendingIsTrue, InFlight, workerVars
<1>6. CASE \E o \in Options : SetOpts(o)
  BY <1>0, <1>6 DEF SetOpts, CheckerTypeOK, PendingIsTrue, InFlight, workerVars
<1>7. CASE Take
  <2>1. worker = "ready" /\ UNCHANGED <<results, pending, running, opts, client, hop, submitted>>
    BY <1>7 DEF Take
  <2>2. CASE ~running /\ worker' = "gone" /\ UNCHANGED <<jobs, job, using>>
    BY <1>0, <2>1, <2>2 DEF CheckerTypeOK, PendingIsTrue, InFlight
  <2>3. CASE running /\ jobs = <<>> /\ worker' = "waiting" /\ UNCHANGED <<jobs, job, using>>
    BY <1>0, <2>1, <2>3 DEF CheckerTypeOK, PendingIsTrue, InFlight
  <2>4. CASE /\ running /\ jobs # <<>>
             /\ worker' = "probing" /\ job' = Head(jobs) /\ jobs' = Tail(jobs)
             /\ using' = opts
    <3>1. job' \in Jobs /\ jobs' \in Seq(Jobs) /\ Len(jobs') = Len(jobs) - 1
      BY <1>0, <2>4, HeadTailProperties DEF CheckerTypeOK
    <3>2. job' # NoJob
      BY <3>1, NoJobIsNoJob
    <3>3. CheckerTypeOK'
      BY <1>0, <2>1, <2>4, <3>1, <3>2 DEF CheckerTypeOK
    <3>4. PendingIsTrue'
      BY <1>0, <2>1, <2>4, <3>1, <3>3, Lengths DEF PendingIsTrue, InFlight
    <3>5. QED
      BY <2>1, <2>4, <3>3, <3>4
  <2>5. QED
    BY <1>7, <2>2, <2>3, <2>4 DEF Take
<1>8. CASE SpuriousWake
  BY <1>0, <1>8 DEF SpuriousWake, CheckerTypeOK, PendingIsTrue, InFlight
<1>9. CASE Answer
  <2>1. /\ worker = "probing" /\ worker' = "ready" /\ job' = NoJob /\ job \in Jobs
        /\ client # "freed"
        /\ UNCHANGED <<jobs, running, opts, using, client, hop, submitted>>
    BY <1>0, <1>9 DEF Answer, CheckerTypeOK
  <2>2. results' \in Seq(Jobs)
    BY <1>0, <1>9, <2>1, AppendProperties DEF Answer, CheckerTypeOK
  <2>3. pending = Len(jobs) + 1 /\ pending' = pending - 1
    <3>1. pending = Len(jobs) + 1 /\ pending > 0
      <4>1. pending = Len(jobs) + Len(InFlight)
        BY <2>1 DEF PendingIsTrue
      <4>2. Len(InFlight) = 1
        BY <1>0, <2>1, Lengths
      <4>3. QED
        BY <1>0, <4>1, <4>2
    <3>2. pending' = IF pending > 0 THEN pending - 1 ELSE pending
      BY <1>9 DEF Answer
    <3>3. QED
      BY <3>1, <3>2
  <2>4. CheckerTypeOK'
    BY <1>0, <2>1, <2>2, <2>3 DEF CheckerTypeOK
  <2>5. PendingIsTrue'
    BY <1>0, <2>1, <2>3 DEF PendingIsTrue, InFlight
  <2>6. QED
    BY <2>1, <2>4, <2>5
<1>10. CASE Destroy
  BY <1>0, <1>10 DEF Destroy, Wake, CheckerTypeOK, PendingIsTrue, InFlight
<1>11. CASE Joined
  <2>1. jobs' \in Seq(Jobs) /\ results' \in Seq(Jobs)
    BY <1>11, EmptySeq DEF Joined
  <2>2. QED
    BY <1>0, <1>11, <2>1 DEF Joined, CheckerTypeOK, PendingIsTrue, InFlight, workerVars
<1>12. CASE UNCHANGED checkerVars
  BY <1>0, <1>12 DEF checkerVars, CheckerTypeOK, PendingIsTrue, InFlight
<1>13. QED
  BY <1>1, <1>2, <1>3, <1>4, <1>5, <1>6, <1>7, <1>8, <1>9, <1>10, <1>11, <1>12
     DEF CheckerNext

\* A new checker satisfies the invariant.
LEMMA CheckerStarts == CheckerInit => CheckerInv
<1>1. <<>> \in Seq(Jobs)
  BY EmptySeq
<1>2. QED
  BY <1>1, CheckerAssumption, NoJobIsNoJob
     DEF CheckerInit, CheckerInv, CheckerTypeOK, PendingIsTrue, WorkerJoined, InFlight

\* The invariant of which the theorems below are parts.
LEMMA CheckerInvariant == CheckerSpec => []CheckerInv
BY CheckerStarts, CheckerStep, PTL DEF CheckerSpec

-----------------------------------------------------------------------------
(***************************************************************************)
(* Type correctness: the worker holds a job exactly while it probes, and   *)
(* runs until the client lets go (checker_worker, pmx_checker_destroy).    *)
(***************************************************************************)
THEOREM CheckerTypeCorrect == CheckerSpec => []CheckerTypeOK
BY CheckerInvariant, PTL DEF CheckerInv

(***************************************************************************)
(* pmx_checker_pending counts exactly what is queued or being probed, for  *)
(* any number of checks and also when results are lost for want of memory. *)
(***************************************************************************)
THEOREM PendingIsAlwaysTrue == CheckerSpec => []PendingIsTrue
BY CheckerInvariant, PTL DEF CheckerInv

(***************************************************************************)
(* Once destroy has begun the worker starts no further job: all it can do  *)
(* is finish the one in its hands (checker_worker's test of running).      *)
(***************************************************************************)
THEOREM BacklogIsAlwaysAbandoned == CheckerSpec => BacklogIsAbandoned
<1>1. ASSUME CheckerInv, [CheckerNext]_checkerVars
      PROVE  client = "joining" /\ job' # job => job' = NoJob
  <2>1. client = "joining" => ~running
    BY <1>1 DEF CheckerInv, CheckerTypeOK
  <2>2. QED
    BY <1>1, <2>1
       DEF CheckerNext, checkerVars, workerVars, Submit, SubmitChain, SubmitHop, SkipHop,
           Poll, SetOpts, Take, SpuriousWake, Answer, Destroy, Joined, Enqueue
<1>2. QED
  BY <1>1, CheckerInvariant, PTL DEF CheckerSpec, BacklogIsAbandoned

-----------------------------------------------------------------------------
\* The refinement: a check is waiting for its answer while it is probed or queued.
Asked == IF client = "freed" THEN <<>> ELSE InFlight \o jobs

\* One critical section of submit is one question.
LEMMA EnqueueAsks ==
  ASSUME CheckerInv, NEW h \in Hops, Enqueue(h), client # "freed", client' # "freed"
  PROVE  Promise!Ask(h)
<1>1. /\ [n |-> submitted', hop |-> h] \in Jobs
      /\ jobs' = Append(jobs, [n |-> submitted', hop |-> h])
      /\ submitted' = submitted + 1 /\ InFlight' = InFlight /\ results' = results
  BY EnqueueGrowsTheQueue
<1>2. submitted < MaxJobs
  BY DEF Enqueue
<1>3. jobs \in Seq(Jobs) /\ InFlight \in Seq(Jobs)
  BY Lengths DEF CheckerInv, CheckerTypeOK
<1>4. InFlight' \o jobs' = Append(InFlight \o jobs, [n |-> submitted', hop |-> h])
  BY <1>1, <1>3, EndOfQueue
<1>5. QED
  BY <1>1, <1>2, <1>4 DEF Promise!Ask

(***************************************************************************)
(* Every step of the checker is a step of the promise, or invisible to it. *)
(***************************************************************************)
LEMMA CheckerStepKeepsPromise ==
  ASSUME CheckerInv, [CheckerNext]_checkerVars
  PROVE  [Promise!PromiseNext]_(Promise!promiseVars)
<1>0. CheckerTypeOK /\ jobs \in Seq(Jobs) /\ results \in Seq(Jobs)
  BY DEF CheckerInv, CheckerTypeOK
<1>1. CASE Submit
  <2>1. client = "open" /\ client' = client /\ Enqueue(Whole) /\ Whole \in Hops
    BY <1>1, CheckerAssumption DEF Submit, Whole, Hops
  <2>2. Promise!Ask(Whole)
    BY <2>1, EnqueueAsks
  <2>3. QED
    BY <2>1, <2>2 DEF Promise!PromiseNext
<1>2. CASE SubmitHop
  <2>1. /\ client = "chain" /\ client' \in {"chain", "open"} /\ Enqueue(hop)
        /\ hop \in Hops
    BY <1>0, <1>2, CheckerAssumption DEF SubmitHop, Hops, CheckerTypeOK
  <2>2. Promise!Ask(hop)
    BY <2>1, EnqueueAsks
  <2>3. QED
    BY <2>1, <2>2 DEF Promise!PromiseNext
<1>3. CASE SubmitChain \/ SkipHop \/ (\E o \in Options : SetOpts(o)) \/ SpuriousWake \/ Destroy
  BY <1>0, <1>3
     DEF SubmitChain, SkipHop, SetOpts, SpuriousWake, Destroy, Wake, CheckerTypeOK,
         InFlight, workerVars, Promise!promiseVars
<1>4. CASE Poll
  BY <1>4 DEF Poll, Promise!PromiseNext, Promise!Read, InFlight, workerVars
<1>5. CASE Take
  <2>1. worker = "ready" /\ UNCHANGED <<results, client, submitted>>
    BY <1>5 DEF Take
  <2>2. Asked' = Asked
    <3>1. CASE UNCHANGED <<jobs, job>> /\ worker' # "probing"
      BY <2>1, <3>1 DEF Asked, InFlight
    <3>2. CASE jobs # <<>> /\ worker' = "probing" /\ job' = Head(jobs) /\ jobs' = Tail(jobs)
      <4>1. <<Head(jobs)>> \o Tail(jobs) = jobs /\ <<>> \o jobs = jobs
        BY <1>0, <3>2, FrontPutBack, ConcatEmptySeq
      <4>2. QED
        BY <2>1, <3>2, <4>1 DEF Asked, InFlight
    <3>3. QED
      BY <1>5, <3>1, <3>2 DEF Take
  <2>3. QED
    BY <2>1, <2>2 DEF Asked, Promise!promiseVars
<1>6. CASE Answer
  <2>1. /\ worker = "probing" /\ worker' = "ready" /\ job \in Jobs
        /\ client # "freed" /\ UNCHANGED <<jobs, client, submitted>>
        /\ results' = Append(results, job) \/ (MemoryMayFail /\ UNCHANGED results)
    BY <1>6 DEF Answer, CheckerInv, CheckerTypeOK, WorkerJoined
  <2>2. /\ <<job>> \o jobs # <<>> /\ <<>> \o jobs = jobs
        /\ Head(<<job>> \o jobs) = job /\ Tail(<<job>> \o jobs) = jobs
    BY <1>0, <2>1, FrontOfQueue, ConcatEmptySeq
  <2>3. /\ InFlight \o jobs = <<job>> \o jobs
        /\ InFlight' \o jobs' = jobs
    BY <2>1, <2>2 DEF InFlight
  <2>4. Promise!Give \/ Promise!Lose
    BY <2>1, <2>2, <2>3 DEF Promise!Give, Promise!Lose
  <2>5. QED
    BY <2>4 DEF Promise!PromiseNext
<1>7. CASE Joined
  BY <1>7 DEF Joined, Promise!PromiseNext, Promise!Close
<1>8. CASE UNCHANGED checkerVars
  BY <1>8 DEF checkerVars, InFlight, Promise!promiseVars
<1>9. QED
  BY <1>1, <1>2, <1>3, <1>4, <1>5, <1>6, <1>7, <1>8 DEF CheckerNext

(***************************************************************************)
(* The checker implements its promise (pmx_checker.h): one answer at most  *)
(* per check, in the order asked, for the hop it was asked about, lost     *)
(* only for want of memory, forgotten only by destroy.                     *)
(***************************************************************************)
THEOREM CheckerKeepsItsPromise == CheckerSpec => ImplementsCheckerPromise
<1>1. CheckerInit => Promise!PromiseInit
  <2>1. <<>> \o <<>> = <<>>
    BY EmptySeq, ConcatEmptySeq
  <2>2. QED
    BY <2>1 DEF CheckerInit, Promise!PromiseInit, InFlight
<1>2. QED
  BY <1>1, CheckerInvariant, CheckerStepKeepsPromise, PTL
     DEF CheckerSpec, ImplementsCheckerPromise, Promise!PromiseSpec

=============================================================================

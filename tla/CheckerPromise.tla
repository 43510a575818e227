---------------------------- MODULE CheckerPromise ----------------------------
(***************************************************************************)
(* What the checker promises its one client (pmx_checker.h): checks are    *)
(* answered one at a time, in the order they were asked for, each at most  *)
(* once; answers are read in the order they were given.  An answer is lost *)
(* only when there is no memory for it.  Closing forgets everything.       *)
(***************************************************************************)
EXTENDS Naturals, Sequences

CONSTANTS Hops, MaxAsked, MayLose

VARIABLES
  total,     \* checks asked for so far
  asked,     \* waiting for an answer, in order
  answered,  \* given, not yet read
  open

promiseVars == <<total, asked, answered, open>>

PromiseInit == total = 0 /\ asked = <<>> /\ answered = <<>> /\ open = TRUE

\* A check is known by the order it was asked in, and says which hop it is for.
Ask(hop) ==
  /\ open /\ total < MaxAsked
  /\ total' = total + 1
  /\ asked' = Append(asked, [n |-> total', hop |-> hop])
  /\ UNCHANGED <<answered, open>>

Give ==
  /\ open /\ asked # <<>>
  /\ asked' = Tail(asked)
  /\ answered' = Append(answered, Head(asked))
  /\ UNCHANGED <<total, open>>

Lose ==
  /\ MayLose /\ open /\ asked # <<>>
  /\ asked' = Tail(asked)
  /\ UNCHANGED <<total, answered, open>>

Read ==
  /\ open /\ answered # <<>>
  /\ answered' = Tail(answered)
  /\ UNCHANGED <<total, asked, open>>

Close ==
  /\ open /\ open' = FALSE
  /\ asked' = <<>> /\ answered' = <<>>
  /\ UNCHANGED total

PromiseNext == (\E hop \in Hops : Ask(hop)) \/ Give \/ Lose \/ Read \/ Close

PromiseSpec == PromiseInit /\ [][PromiseNext]_promiseVars
=============================================================================

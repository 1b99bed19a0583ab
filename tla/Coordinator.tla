------------------------------ MODULE Coordinator ------------------------------
(***************************************************************************)
(* The coordinator shared by every Batch of an Executor                    *)
(* (core/tools/coordinator.go, core/tools/resource.go).  It hands out the  *)
(* submission order (tickets), the callback permits and the resource       *)
(* claims of tool calls.  Every operation below runs under coordinator.mu  *)
(* and is one action; a caller that has to wait sits in `waiters' (acquire,*)
(* acquirePermit) or in stage "extending" (extend) until a later           *)
(* evaluation of its predicate succeeds.                                   *)
(*                                                                         *)
(* The callers are the goroutines of Batch.runCall, one per ticket, and    *)
(* the goroutines inside Executor.Start that call a Planner under a permit.*)
(* `stage' is where each of them stands.                                   *)
(***************************************************************************)
EXTENDS Integers, FiniteSets, SequencesExt

CONSTANTS
  Resources,         \* the resource names claims are made on
  Parallel,          \* Config.MaxParallel, the number of callback permits
  MaxTicket,         \* math.MaxUint64 in the code: the end of the ticket space
  Planners,          \* the goroutines that may be inside Executor.callPlan
  BatchShapes,       \* the prepared batches that may be registered
  ActivationClaims   \* the claim sets an Activator may return

Tickets == 0 .. MaxTicket - 1

Callers == Tickets \cup Planners

(***************************************************************************)
(* A normalized claim set gives each resource its strongest access:        *)
(* 0 no claim, 1 AccessRead, 2 AccessWrite.                                *)
(***************************************************************************)
Access == 0 .. 2

Claims == [Resources -> Access]

NoClaims == [r \in Resources |-> 0]

Kinds == {"rejected", "activator", "plain"}

PreparedCall == [kind : Kinds, static : Claims]

ASSUME ConstantsAssumption ==
  /\ Parallel \in Nat \ {0}
  /\ MaxTicket \in Nat
  /\ Planners \cap Int = {}
  /\ IsFiniteSet(Planners)
  /\ BatchShapes \subseteq Seq(PreparedCall) \ {<<>>}
  /\ ActivationClaims \subseteq Claims

VARIABLES
  next,      \* next assignable ticket
  frontier,  \* first ticket whose activation has not been discovered
  pending,   \* activators whose final claims are unknown
  static,    \* the claims each registered call was planned with
  final,     \* complete claims; NoClaims where the code has no entry
  released,  \* tickets whose call is over
  holders,   \* the domain of coordinator.held
  held,      \* the claims of each holder
  inUse,     \* permits in use
  waiters,   \* the callers queued in acquireWaiter, oldest first
  stage      \* what each caller is doing

vars == <<next, frontier, pending, static, final, released, holders, held,
          inUse, waiters, stage>>

claimVars == <<next, frontier, pending, static, final, released>>

Stages == {"free", "ready", "waiting", "leaving", "activating", "extending",
           "running", "done"}

--------------------------------------------------------------------------------
(***************************************************************************)
(* Claims.                                                                 *)
(***************************************************************************)

\* Two claim sets conflict when they name one resource and one of them writes.
ClaimsConflict(a, b) ==
  \E r \in Resources : a[r] # 0 /\ b[r] # 0 /\ (a[r] = 2 \/ b[r] = 2)

\* Activation claims may add and upgrade; a static write may not be weakened.
MayExtend(base, extra) == ~ \E r \in Resources : base[r] = 2 /\ extra[r] = 1

\* normalizeClaims(base ++ extra): the strongest access on each resource.
ExtendClaims(base, extra) ==
  [r \in Resources |-> IF extra[r] > base[r] THEN extra[r] ELSE base[r]]

(***************************************************************************)
(* A claim set is free for a ticket when nobody else holds a conflicting   *)
(* one and no earlier unreleased call reserved one.                        *)
(***************************************************************************)
ClaimsFreeExcept(t, claims) ==
  /\ \A o \in holders \ {t} : ~ ClaimsConflict(held[o], claims)
  /\ \A o \in (0 .. t - 1) \ released : ~ ClaimsConflict(final[o], claims)

\* Mutant: a call may be granted beyond the discovery frontier.
CanGrantBeyondFrontier(c) ==
  /\ inUse < Parallel
  /\ c \in Planners \/ (c \in Tickets /\ ClaimsFreeExcept(c, static[c]))

CanGrant(c) ==
  /\ inUse < Parallel
  /\ \/ c \in Planners
     \/ /\ c \in Tickets
        /\ c <= frontier
        /\ ClaimsFreeExcept(c, static[c])

\* The i-th entry of queue q is the oldest one that can be granted.
Grantable(q, i) ==
  /\ CanGrant(q[i])
  /\ \A j \in 1 .. i - 1 : ~ CanGrant(q[j])

(***************************************************************************)
(* advanceFrontierLocked: move to the first pending ticket, or to next.    *)
(***************************************************************************)
AdvanceFrontier(nxt, pend) ==
  frontier' \in {f \in frontier .. nxt :
                   /\ f = nxt \/ f \in pend
                   /\ \A g \in frontier .. f - 1 : g \notin pend}

--------------------------------------------------------------------------------
(***************************************************************************)
(* registerBatch: allocation and classification of a whole batch.  A       *)
(* locally rejected call is released at once so that it cannot pin the     *)
(* frontier.                                                               *)
(***************************************************************************)
RegisterBatch(batch) ==
  LET new(t)  == t \in next .. next + Len(batch) - 1
      call(t) == batch[t - next + 1]
      is(t, k) == new(t) /\ call(t).kind = k
  IN
  /\ next <= MaxTicket - Len(batch)
  /\ next' = next + Len(batch)
  /\ pending' = pending \cup {t \in Tickets : is(t, "activator")}
  /\ released' = released \cup {t \in Tickets : is(t, "rejected")}
  /\ static' = [t \in Tickets |-> IF new(t) THEN call(t).static ELSE static[t]]
  /\ final' = [t \in Tickets |-> IF is(t, "plain") THEN call(t).static ELSE final[t]]
  /\ stage' = [c \in Callers |->
                 IF c \in Tickets /\ new(c)
                 THEN IF call(c).kind = "rejected" THEN "done" ELSE "ready"
                 ELSE stage[c]]
  /\ AdvanceFrontier(next', pending')
  /\ UNCHANGED <<holders, held, inUse, waiters>>

\* A granted caller owns a permit and, with a ticket, its static claims.
Grant(c) ==
  /\ inUse' = inUse + 1
  /\ IF c \in Planners
     THEN /\ stage' = [stage EXCEPT ![c] = "running"]
          /\ UNCHANGED <<holders, held>>
     ELSE /\ stage' = [stage EXCEPT ![c] = IF c \in pending THEN "activating" ELSE "running"]
          /\ holders' = holders \cup {c}
          /\ held' = [held EXCEPT ![c] = static[c]]

\* acquire and acquirePermit: queue, and take the permit at once if possible.
Acquire(c) ==
  LET q == Append(waiters, c) IN
  /\ stage[c] = "ready"
  /\ \/ /\ Grantable(q, Len(q))
        /\ Grant(c)
        /\ UNCHANGED waiters
     \/ /\ ~ Grantable(q, Len(q))
        /\ waiters' = q
        /\ stage' = [stage EXCEPT ![c] = "waiting"]
        /\ UNCHANGED <<holders, held, inUse>>
  /\ UNCHANGED claimVars

\* A queued waiter woken by signalLocked finds its predicate true.
Wake(c) ==
  \E i \in 1 .. Len(waiters) :
    /\ waiters[i] = c
    /\ Grantable(waiters, i)
    /\ waiters' = RemoveAt(waiters, i)
    /\ Grant(c)
    /\ UNCHANGED claimVars

\* The waiter's context is done: it leaves the queue without a permit.
CancelWait(c) ==
  \E i \in 1 .. Len(waiters) :
    /\ waiters[i] = c
    /\ waiters' = RemoveAt(waiters, i)
    /\ stage' = [stage EXCEPT ![c] = IF c \in Planners THEN "ready" ELSE "leaving"]
    /\ UNCHANGED <<holders, held, inUse>>
    /\ UNCHANGED claimVars

\* releasePermit, after a Planner returned.
ReleasePermit(p) ==
  /\ p \in Planners
  /\ stage[p] = "running"
  /\ inUse' = IF inUse > 0 THEN inUse - 1 ELSE inUse
  /\ stage' = [stage EXCEPT ![p] = "ready"]
  /\ UNCHANGED <<holders, held, waiters>>
  /\ UNCHANGED claimVars

\* discover: the activation's complete claims are registered before extend.
Discover(t, extra) ==
  /\ t \in Tickets
  /\ stage[t] = "activating"
  /\ t \in pending
  /\ MayExtend(static[t], extra)
  /\ final' = [final EXCEPT ![t] = ExtendClaims(static[t], extra)]
  /\ pending' = pending \ {t}
  /\ stage' = [stage EXCEPT ![t] = "extending"]
  /\ AdvanceFrontier(next, pending')
  /\ UNCHANGED <<next, static, released, holders, held, inUse, waiters>>

\* Mutant: extend does not wait for conflicting claims.
ExtendUnchecked(t) ==
  /\ t \in Tickets
  /\ stage[t] = "extending"
  /\ held' = [held EXCEPT ![t] = final[t]]
  /\ stage' = [stage EXCEPT ![t] = "running"]
  /\ UNCHANGED <<holders, inUse, waiters>>
  /\ UNCHANGED claimVars

\* extend: replace the held static set by the complete one.
Extend(t) ==
  /\ t \in Tickets
  /\ stage[t] = "extending"
  /\ ClaimsFreeExcept(t, final[t])
  /\ held' = [held EXCEPT ![t] = final[t]]
  /\ stage' = [stage EXCEPT ![t] = "running"]
  /\ UNCHANGED <<holders, inUse, waiters>>
  /\ UNCHANGED claimVars

\* The ticket is over; permits tells how many permits the call gives back.
EndTicket(t, permits) ==
  /\ t \in Tickets
  /\ stage[t] \in {"ready", "leaving", "activating", "extending", "running"}
  /\ stage' = [stage EXCEPT ![t] = "done"]
  /\ holders' = holders \ {t}
  /\ inUse' = IF inUse >= permits THEN inUse - permits ELSE inUse
  /\ pending' = pending \ {t}
  /\ released' = released \cup {t}
  /\ AdvanceFrontier(next, pending')
  /\ UNCHANGED <<next, static, final, held, waiters>>

\* Mutant: a call that never acquired gives back a permit too.
ReleaseAlways(t) == EndTicket(t, 1)

(***************************************************************************)
(* release, reached from every exit of runCall: before acquire and after a *)
(* cancelled wait (no permit held), after a failed activation or a         *)
(* cancelled extend, and after the callback.                               *)
(***************************************************************************)
Release(t) == EndTicket(t, IF t \in holders THEN 1 ELSE 0)

--------------------------------------------------------------------------------
Init ==
  /\ next = 0
  /\ frontier = 0
  /\ pending = {}
  /\ static = [t \in Tickets |-> NoClaims]
  /\ final = [t \in Tickets |-> NoClaims]
  /\ released = {}
  /\ holders = {}
  /\ held = [t \in Tickets |-> NoClaims]
  /\ inUse = 0
  /\ waiters = <<>>
  /\ stage = [c \in Callers |-> IF c \in Planners THEN "ready" ELSE "free"]

Next ==
  \/ \E batch \in BatchShapes : RegisterBatch(batch)
  \/ \E c \in Callers : Acquire(c) \/ Wake(c) \/ CancelWait(c)
  \/ \E p \in Planners : ReleasePermit(p)
  \/ \E t \in Tickets :
       \/ \E extra \in ActivationClaims : Discover(t, extra)
       \/ Extend(t)
       \/ Release(t)

Spec == Init /\ [][Next]_vars

(***************************************************************************)
(* The goroutines run: a registered call reaches acquire, a waiter woken   *)
(* by signalLocked re-evaluates its predicate, and callbacks return        *)
(* (Activate, Run, Execute and Plan are the tools' obligation).  Nothing   *)
(* obliges a context to be cancelled.                                      *)
(***************************************************************************)
ActivationReturns(t) ==
  \/ \E extra \in ActivationClaims : Discover(t, extra)
  \/ stage[t] = "activating" /\ Release(t)

Fairness ==
  /\ \A c \in Callers : WF_vars(Wake(c))
  /\ \A p \in Planners : WF_vars(ReleasePermit(p))
  /\ \A t \in Tickets :
       /\ WF_vars(Acquire(t))
       /\ WF_vars(ActivationReturns(t))
       /\ WF_vars(Extend(t))
       /\ WF_vars(stage[t] \in {"running", "leaving"} /\ Release(t))

FairSpec == Spec /\ Fairness

--------------------------------------------------------------------------------
(***************************************************************************)
(* Properties.                                                             *)
(***************************************************************************)

TypeOK ==
  /\ next \in 0 .. MaxTicket
  /\ frontier \in 0 .. next
  /\ pending \in SUBSET Tickets
  /\ static \in [Tickets -> Claims]
  /\ final \in [Tickets -> Claims]
  /\ released \in SUBSET Tickets
  /\ holders \in SUBSET Tickets
  /\ held \in [Tickets -> Claims]
  /\ inUse \in Nat
  /\ waiters \in Seq(Callers)
  /\ stage \in [Callers -> Stages]

\* No two calls hold conflicting claims at once (acquire and extend both
\* refuse a conflicting grant).
MutualExclusion ==
  \A s, t \in holders : s # t => ~ ClaimsConflict(held[s], held[t])

\* Conflicting calls run in submission order across batches: when a call runs,
\* every earlier call whose complete claims conflict with its own is over,
\* although the earlier call's claims may have been discovered late.
ConflictsRunInTicketOrder ==
  \A e, t \in Tickets :
    /\ e < t
    /\ stage[t] = "running"
    /\ ClaimsConflict(final[e], final[t])
    => e \in released

\* The goroutines inside a Planner callback.
Planning == {p \in Planners : stage[p] = "running"}

\* Permits never leak and are never over-issued, whatever path a call leaves
\* by: the counter equals the callers inside a callback or blocked in extend.
PermitsExact ==
  /\ inUse = Cardinality(holders) + Cardinality(Planning)
  /\ inUse <= Parallel

\* The frontier is the first undiscovered activator, and no call beyond it has
\* been let in: a late discovery can still claim anything not yet held.
FrontierGuards ==
  /\ frontier = next \/ frontier \in pending
  /\ \A t \in pending : frontier <= t /\ t < next
  /\ \A t \in holders : t <= frontier

(***************************************************************************)
(* The strengthening that makes the safety properties inductive.           *)
(***************************************************************************)

\* A caller's stage agrees with the coordinator's sets.
StageInv ==
  \A t \in Tickets :
    /\ stage[t] = "free" <=> t >= next
    /\ stage[t] = "done" <=> t \in released
    /\ stage[t] \in {"activating", "extending", "running"} <=> t \in holders
    /\ stage[t] = "activating" => t \in pending
    /\ stage[t] \in {"extending", "running", "done"} => t \notin pending
    /\ stage[t] = "running" => held[t] = final[t]
    /\ stage[t] \in {"ready", "waiting"} /\ t \notin pending => final[t] = static[t]

\* The queue holds each waiting caller once and nobody else.
QueueInv ==
  /\ \A i \in 1 .. Len(waiters) : stage[waiters[i]] = "waiting"
  /\ \A i, j \in 1 .. Len(waiters) : i # j => waiters[i] # waiters[j]

\* What a call holds never conflicts with what an earlier live call reserved.
NoOvertaking ==
  \A e, t \in Tickets :
    e < t /\ t \in holders /\ e \notin released => ~ ClaimsConflict(final[e], held[t])

Inv ==
  TypeOK /\ FrontierGuards /\ StageInv /\ QueueInv /\ NoOvertaking /\ MutualExclusion

\* Every permit is held by a call that waits in extend, and somebody queues.
PermitDeadlock ==
  /\ waiters # <<>>
  /\ Cardinality({t \in Tickets : stage[t] = "extending"}) = Parallel

\* "gives permit requests FIFO fairness without forcing an unrelated ready call
\* to queue behind an earlier resource-blocked call" (coordinator.go:168): a
\* permit request in the queue is granted or withdrawn in the end.
PermitRequestsServed ==
  \A c \in Callers : (stage[c] = "waiting") ~> (stage[c] # "waiting")
================================================================================

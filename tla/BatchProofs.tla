------------------------------ MODULE BatchProofs ------------------------------
(***************************************************************************)
(* Theorems about the coordinator, for every set of resources, number of   *)
(* permits, ticket space, batch shape and activation result; then about    *)
(* the batches over it: every step of a batch is a step of the             *)
(* coordinator, so that what holds of the coordinator holds of the         *)
(* batches, and the events, slots and errors of a batch agree, for any     *)
(* number of batches, calls, permits and tickets.                          *)
(***************************************************************************)
EXTENDS Batch, SequenceTheorems, FiniteSetTheorems, TLAPS

(***************************************************************************)
(* The coordinator.                                                        *)
(***************************************************************************)

\* Dropping one entry of a queue yields a queue of the remaining entries.
LEMMA RemoveAtProperties ==
  ASSUME NEW S, NEW q \in Seq(S), NEW i \in 1 .. Len(q)
  PROVE  /\ RemoveAt(q, i) \in Seq(S)
         /\ Len(RemoveAt(q, i)) = Len(q) - 1
         /\ \A j \in 1 .. Len(q) - 1 :
              RemoveAt(q, i)[j] = IF j < i THEN q[j] ELSE q[j + 1]
<1>1. Len(q) \in Nat /\ i \in Nat
  BY LenProperties
<1>2. \A j \in 1 .. Len(q) : q[j] \in S
  BY ElementOfSeq
<1> DEFINE a == SubSeq(q, 1, i - 1)
           b == SubSeq(q, i + 1, Len(q))
<1>3. /\ a \in Seq(S)
      /\ Len(a) = i - 1
      /\ \A j \in 1 .. i - 1 : a[j] = q[j]
  <2>1. \A j \in 1 .. i - 1 : q[j] \in S
    BY <1>1, <1>2
  <2> QED BY <1>1, <2>1, SubSeqProperties, 1 \in Int, i - 1 \in Int
<1>4. /\ b \in Seq(S)
      /\ Len(b) = Len(q) - i
      /\ \A j \in 1 .. Len(q) - i : b[j] = q[i + j]
  <2>1. \A j \in i + 1 .. Len(q) : q[j] \in S
    BY <1>1, <1>2
  <2>2. i + 1 \in Int /\ Len(q) \in Int
    BY <1>1
  <2>3. /\ b \in Seq(S)
        /\ Len(b) = IF i + 1 <= Len(q) THEN Len(q) - (i + 1) + 1 ELSE 0
        /\ \A j \in 1 .. Len(q) - (i + 1) + 1 : b[j] = q[i + 1 + j - 1]
    BY <2>1, <2>2, SubSeqProperties
  <2> QED BY <1>1, <2>3
<1> HIDE DEF a, b
<1>5. /\ a \o b \in Seq(S)
      /\ Len(a \o b) = Len(a) + Len(b)
      /\ \A j \in 1 .. Len(a) + Len(b) :
           (a \o b)[j] = IF j <= Len(a) THEN a[j] ELSE b[j - Len(a)]
  BY <1>3, <1>4, ConcatProperties
<1>6. RemoveAt(q, i) = a \o b
  BY DEF RemoveAt, a, b
<1>7. Len(a) + Len(b) = Len(q) - 1
  <2>1. (i - 1) + (Len(q) - i) = Len(q) - 1
    BY <1>1
  <2> QED BY <2>1, <1>3, <1>4
<1>8. \A j \in 1 .. Len(q) - 1 :
        (a \o b)[j] = IF j <= i - 1 THEN a[j] ELSE b[j - (i - 1)]
  BY <1>3, <1>5, <1>7
<1>9. ASSUME NEW j \in 1 .. Len(q) - 1
      PROVE  RemoveAt(q, i)[j] = IF j < i THEN q[j] ELSE q[j + 1]
  <2>1. CASE j < i
    <3>1. j \in 1 .. i - 1
      BY <1>1, <2>1
    <3> QED BY <1>1, <1>3, <1>6, <1>8, <2>1, <3>1
  <2>2. CASE ~ (j < i)
    <3>1. j - (i - 1) \in 1 .. Len(q) - i
      BY <1>1, <2>2
    <3>2. i + (j - (i - 1)) = j + 1 /\ ~ (j <= i - 1)
      BY <1>1, <2>2
    <3>3. b[j - (i - 1)] = q[j + 1]
      BY <1>4, <3>1, <3>2
    <3>4. (a \o b)[j] = b[j - (i - 1)]
      BY <1>8, <3>2
    <3> QED BY <1>6, <2>2, <3>3, <3>4
  <2> QED BY <2>1, <2>2
<1>10. QED
  BY <1>5, <1>6, <1>7, <1>9

\* advanceFrontierLocked moves forward to the first pending ticket.
LEMMA FrontierAdvances ==
  ASSUME NEW n \in Nat, NEW P \in SUBSET Nat,
         frontier \in Nat,
         \A t \in P : frontier <= t /\ t < n,
         AdvanceFrontier(n, P)
  PROVE  /\ frontier' \in Nat
         /\ frontier <= frontier'
         /\ frontier' <= n
         /\ frontier' = n \/ frontier' \in P
         /\ \A t \in P : frontier' <= t
  BY DEF AdvanceFrontier

\* What a registered batch looks like.
LEMMA BatchProperties ==
  ASSUME NEW batch \in BatchShapes
  PROVE  /\ Len(batch) \in Nat
         /\ Len(batch) >= 1
         /\ \A i \in 1 .. Len(batch) : batch[i] \in PreparedCall
<1>1. batch \in Seq(PreparedCall) /\ batch # <<>>
  BY ConstantsAssumption
<1>2. Len(batch) \in Nat /\ \A i \in 1 .. Len(batch) : batch[i] \in PreparedCall
  BY <1>1, LenProperties, ElementOfSeq
<1>3. Len(batch) # 0
  BY <1>1, EmptySeq
<1> QED BY <1>2, <1>3

\* Tickets are naturals and planners are not tickets.
LEMMA CallerProperties ==
  /\ Tickets \subseteq Nat
  /\ \A t \in Tickets : t < MaxTicket
  /\ \A t \in Nat : t < MaxTicket => t \in Tickets
  /\ Tickets \cap Planners = {}
  BY ConstantsAssumption DEF Tickets

\* Queueing a caller.
LEMMA AppendCaller ==
  ASSUME NEW c \in Callers, waiters \in Seq(Callers)
  PROVE  /\ Append(waiters, c) \in Seq(Callers)
         /\ Len(Append(waiters, c)) = Len(waiters) + 1
         /\ Len(waiters) \in Nat
         /\ \A i \in 1 .. Len(waiters) : Append(waiters, c)[i] = waiters[i]
         /\ Append(waiters, c)[Len(waiters) + 1] = c
  BY AppendProperties, LenProperties

\* Conflict is symmetric, and a call without claims conflicts with nobody.
LEMMA ConflictProperties ==
  /\ \A a, b : ClaimsConflict(a, b) => ClaimsConflict(b, a)
  /\ \A b : ~ ClaimsConflict(NoClaims, b)
  BY DEF ClaimsConflict, NoClaims

--------------------------------------------------------------------------------
\* The initial state satisfies the inductive invariant.
LEMMA InitInv == Init => Inv
<1> SUFFICES ASSUME Init PROVE Inv
  OBVIOUS
<1> USE DEF Init
<1>1. NoClaims \in Claims
  BY DEF NoClaims, Claims, Access
<1>2. TypeOK
  BY <1>1, ConstantsAssumption, EmptySeq DEF TypeOK, Callers, Stages
<1>3. FrontierGuards /\ MutualExclusion /\ NoOvertaking
  BY DEF FrontierGuards, MutualExclusion, NoOvertaking
<1>4. StageInv
  BY CallerProperties DEF StageInv, Callers
<1>5. QueueInv
  BY EmptySeq DEF QueueInv
<1> QED BY <1>2, <1>3, <1>4, <1>5 DEF Inv

\* registerBatch: new tickets lie beyond every holder.
LEMMA RegisterBatchInv ==
  ASSUME Inv, NEW batch \in BatchShapes, RegisterBatch(batch)
  PROVE  Inv'
<1> DEFINE n == next + Len(batch)
<1> USE DEF Inv
<1>1. /\ Len(batch) \in Nat /\ Len(batch) >= 1
      /\ \A i \in 1 .. Len(batch) : batch[i] \in PreparedCall
  BY BatchProperties
<1>2. /\ next \in Nat /\ frontier \in Nat /\ MaxTicket \in Nat
      /\ next' = n /\ n \in Nat /\ n <= MaxTicket /\ next < n
  BY <1>1, ConstantsAssumption DEF TypeOK, RegisterBatch
<1>3. \A t \in Tickets : t \in next .. n - 1 => batch[t - next + 1] \in PreparedCall
  BY <1>1, <1>2, CallerProperties
<1>4. \A t \in pending' : t \in Nat /\ frontier <= t /\ t < n
  <2>1. \A t \in pending : t \in Nat /\ frontier <= t /\ t < next
    BY <1>2, CallerProperties DEF FrontierGuards, TypeOK
  <2>2. \A t \in pending' : t \in pending \/ (t \in Nat /\ next <= t /\ t < n)
    <3>1. pending' \subseteq pending \cup {t \in Tickets : t \in next .. next + Len(batch) - 1}
      BY Zenon DEF RegisterBatch
    <3>2. ASSUME NEW t, t \in next .. next + Len(batch) - 1
          PROVE  t \in Nat /\ next <= t /\ t < n
      BY <1>1, <1>2, <3>2
    <3> HIDE DEF n
    <3> QED BY <3>1, <3>2
  <2>3. frontier <= next
    BY <1>2 DEF TypeOK
  <2> QED BY <1>2, <2>1, <2>2, <2>3
<1>5. /\ frontier' \in Nat /\ frontier <= frontier' /\ frontier' <= n
      /\ frontier' = n \/ frontier' \in pending'
      /\ \A t \in pending' : frontier' <= t
  <2>1. AdvanceFrontier(n, pending')
    BY <1>2 DEF RegisterBatch
  <2>2. pending' \in SUBSET Nat
    BY <1>4
  <2> QED BY <1>2, <1>4, <2>1, <2>2, FrontierAdvances
<1>6. TypeOK'
  <2>1. static' \in [Tickets -> Claims] /\ final' \in [Tickets -> Claims]
    BY <1>1, <1>2, <1>3, CallerProperties DEF RegisterBatch, TypeOK, PreparedCall
  <2>2. stage' \in [Callers -> Stages]
    BY DEF RegisterBatch, TypeOK, Stages
  <2>3. pending' \in SUBSET Tickets /\ released' \in SUBSET Tickets
    BY DEF RegisterBatch, TypeOK
  <2> QED BY <1>2, <1>5, <2>1, <2>2, <2>3 DEF RegisterBatch, TypeOK
<1>7. FrontierGuards'
  BY <1>2, <1>4, <1>5, CallerProperties DEF RegisterBatch, FrontierGuards, TypeOK
<1>8. \A t \in Tickets : t < next =>
        /\ static'[t] = static[t] /\ final'[t] = final[t] /\ stage'[t] = stage[t]
        /\ t \in pending' <=> t \in pending
        /\ t \in released' <=> t \in released
  BY <1>1, <1>2, CallerProperties DEF RegisterBatch, TypeOK, Callers
<1>9. StageInv'
  <2> SUFFICES ASSUME NEW t \in Tickets PROVE StageInv!(t)'
    BY DEF StageInv
  <2>0. t \in Nat /\ t \in Callers /\ holders' = holders /\ held' = held
    BY CallerProperties DEF RegisterBatch, Callers
  <2>1. CASE t < next
    BY <1>2, <1>8, <2>0, <2>1 DEF StageInv
  <2>2. CASE t >= next /\ t < n
    <3>1. t \in next .. n - 1
      BY <1>2, <2>0, <2>2
    <3>2. /\ stage'[t] = IF batch[t - next + 1].kind = "rejected" THEN "done" ELSE "ready"
          /\ t \in pending' <=> batch[t - next + 1].kind = "activator" \/ t \in pending
          /\ t \in released' <=> batch[t - next + 1].kind = "rejected" \/ t \in released
          /\ static'[t] = batch[t - next + 1].static
          /\ batch[t - next + 1].kind = "plain" => final'[t] = batch[t - next + 1].static
      BY <1>2, <2>0, <3>1 DEF RegisterBatch
    <3>3. stage[t] = "free" /\ t \notin released /\ t \notin holders /\ t \notin pending
      BY <1>2, <2>0, <2>2 DEF StageInv, FrontierGuards
    <3>4. batch[t - next + 1].kind \in Kinds
      BY <1>3, <3>1 DEF PreparedCall
    <3> QED BY <1>2, <2>0, <2>2, <3>2, <3>3, <3>4 DEF Kinds
  <2>3. CASE t >= n
    <3>1. stage'[t] = stage[t] /\ (t \in pending' <=> t \in pending)
          /\ (t \in released' <=> t \in released) /\ static'[t] = static[t]
          /\ final'[t] = final[t] /\ t >= next
      BY <1>1, <1>2, <2>0, <2>3 DEF RegisterBatch
    <3> QED BY <1>2, <2>0, <2>3, <3>1 DEF StageInv
  <2> QED BY <1>2, <2>0, <2>1, <2>2, <2>3
<1>10. \A t \in holders : t \in Tickets /\ t < next
  BY <1>2, CallerProperties DEF StageInv, TypeOK
<1>11. QueueInv'
  <2>1. waiters' = waiters
    BY DEF RegisterBatch
  <2>2. ASSUME NEW i \in 1 .. Len(waiters) PROVE stage'[waiters[i]] = "waiting"
    <3>1. waiters[i] \in Callers /\ stage[waiters[i]] = "waiting"
      BY ElementOfSeq DEF QueueInv, TypeOK
    <3>2. waiters[i] \in Tickets => waiters[i] < next
      <4>1. \A t \in Tickets : stage[t] = "waiting" => t < next
        BY <1>2, CallerProperties DEF StageInv
      <4> QED BY <3>1, <4>1
    <3> QED BY <1>2, <3>1, <3>2, CallerProperties DEF RegisterBatch
  <2> QED BY <2>1, <2>2 DEF QueueInv
<1>12. NoOvertaking' /\ MutualExclusion'
  <2>1. holders' = holders /\ held' = held
    BY DEF RegisterBatch
  <2>2. \A e, t \in Tickets : t \in holders /\ e < t => e < next
    BY <1>2, <1>10, CallerProperties
  <2>3. NoOvertaking'
    BY <1>8, <2>1, <2>2 DEF NoOvertaking
  <2> QED BY <2>1, <2>3 DEF MutualExclusion
<1> QED BY <1>6, <1>7, <1>9, <1>11, <1>12

\* A grant is refused unless the claims conflict with no holder and no earlier
\* reservation, so it preserves everything but the queue.
LEMMA GrantInv ==
  ASSUME Inv, NEW c \in Callers, stage[c] \in {"ready", "waiting"},
         CanGrant(c), Grant(c), UNCHANGED claimVars
  PROVE  /\ inUse' \in Nat
         /\ holders' \in SUBSET Tickets
         /\ held' \in [Tickets -> Claims]
         /\ stage' \in [Callers -> Stages]
         /\ \A d \in Callers \ {c} : stage'[d] = stage[d]
         /\ FrontierGuards' /\ StageInv' /\ NoOvertaking' /\ MutualExclusion'
<1> USE DEF Inv, claimVars
<1>1. CASE c \in Planners
  <2>1. c \notin Tickets
    BY <1>1, CallerProperties
  <2>2. \A t \in Tickets : stage'[t] = stage[t]
    BY <1>1, <2>1 DEF Grant, TypeOK, Callers
  <2> QED BY <1>1, <2>1, <2>2 DEF Grant, TypeOK, Stages, FrontierGuards, StageInv,
                                 NoOvertaking, MutualExclusion
<1>2. CASE c \notin Planners
  <2>1. c \in Tickets
    BY <1>2 DEF Callers
  <2>2. c <= frontier /\ ClaimsFreeExcept(c, static[c])
    BY <1>2 DEF CanGrant
  <2>3. /\ holders' = holders \cup {c}
        /\ held' = [held EXCEPT ![c] = static[c]]
        /\ stage' = [stage EXCEPT ![c] = IF c \in pending THEN "activating" ELSE "running"]
        /\ inUse' = inUse + 1
    BY <1>2 DEF Grant
  <2>4. c \notin holders /\ c \notin released /\ static[c] \in Claims
    BY <2>1 DEF StageInv, TypeOK
  <2>5. /\ inUse' \in Nat /\ holders' \in SUBSET Tickets /\ held' \in [Tickets -> Claims]
        /\ stage' \in [Callers -> Stages]
        /\ \A d \in Callers \ {c} : stage'[d] = stage[d]
        /\ stage'[c] = IF c \in pending THEN "activating" ELSE "running"
        /\ held'[c] = static[c]
        /\ \A t \in Tickets \ {c} : held'[t] = held[t] /\ stage'[t] = stage[t]
    BY <2>1, <2>3, <2>4 DEF TypeOK, Stages, Callers
  <2>6. FrontierGuards'
    BY <2>2, <2>3 DEF FrontierGuards
  <2>7. StageInv'
    <3> SUFFICES ASSUME NEW t \in Tickets PROVE StageInv!(t)'
      BY DEF StageInv
    <3>1. CASE t = c
      BY <2>1, <2>3, <2>4, <2>5, <3>1 DEF StageInv
    <3>2. CASE t # c
      BY <2>1, <2>3, <2>4, <2>5, <3>2 DEF StageInv
    <3> QED BY <3>1, <3>2
  <2>8. NoOvertaking'
    <3> SUFFICES ASSUME NEW e \in Tickets, NEW t \in Tickets,
                        e < t, t \in holders', e \notin released'
                 PROVE  ~ ClaimsConflict(final'[e], held'[t])
      BY DEF NoOvertaking
    <3>1. CASE t = c
      <4>1. e \in (0 .. t - 1) \ released
        BY CallerProperties
      <4> QED BY <2>2, <2>5, <3>1, <4>1 DEF ClaimsFreeExcept
    <3>2. CASE t # c
      BY <2>3, <2>5, <3>2 DEF NoOvertaking
    <3> QED BY <3>1, <3>2
  <2>9. MutualExclusion'
    <3> SUFFICES ASSUME NEW a \in holders', NEW b \in holders', a # b
                 PROVE  ~ ClaimsConflict(held'[a], held'[b])
      BY DEF MutualExclusion
    <3>0. holders' \subseteq Tickets /\ holders \subseteq Tickets
      BY <2>5 DEF TypeOK
    <3>1. CASE b = c
      <4>1. a \in holders \ {c}
        BY <2>3, <3>1
      <4>2. ~ ClaimsConflict(held[a], static[c])
        BY <2>2, <4>1 DEF ClaimsFreeExcept
      <4> QED BY <2>5, <3>0, <3>1, <4>1, <4>2
    <3>2. CASE a = c
      <4>1. b \in holders \ {c}
        BY <2>3, <3>2
      <4>2. ~ ClaimsConflict(held[b], static[c])
        BY <2>2, <4>1 DEF ClaimsFreeExcept
      <4>3. ~ ClaimsConflict(static[c], held[b])
        BY <4>2, ConflictProperties
      <4> QED BY <2>5, <3>0, <3>2, <4>1, <4>3
    <3>3. CASE a # c /\ b # c
      BY <2>3, <2>5, <3>0, <3>3 DEF MutualExclusion
    <3> QED BY <3>1, <3>2, <3>3
  <2> QED BY <2>5, <2>6, <2>7, <2>8, <2>9
<1> QED BY <1>1, <1>2

\* acquire and acquirePermit.
LEMMA AcquireInv ==
  ASSUME Inv, NEW c \in Callers, Acquire(c)
  PROVE  Inv'
<1> USE DEF Inv
<1> DEFINE q == Append(waiters, c)
<1>0. /\ stage[c] = "ready" /\ UNCHANGED claimVars /\ waiters \in Seq(Callers)
      /\ stage \in [Callers -> Stages]
  BY DEF Acquire, TypeOK
<1>1. /\ q \in Seq(Callers) /\ Len(q) = Len(waiters) + 1 /\ Len(waiters) \in Nat
      /\ \A i \in 1 .. Len(waiters) : q[i] = waiters[i]
      /\ q[Len(q)] = c
  BY <1>0, AppendCaller
<1>2. \A i \in 1 .. Len(waiters) : waiters[i] \in Callers \ {c}
  <2> TAKE i \in 1 .. Len(waiters)
  <2>1. waiters[i] \in Callers /\ stage[waiters[i]] = "waiting"
    BY <1>0, ElementOfSeq DEF QueueInv
  <2> QED BY <1>0, <2>1
<1>3. CASE Grantable(q, Len(q)) /\ Grant(c) /\ UNCHANGED waiters
  <2>1. CanGrant(c)
    BY <1>1, <1>3 DEF Grantable
  <2>2. /\ inUse' \in Nat /\ holders' \in SUBSET Tickets /\ held' \in [Tickets -> Claims]
        /\ stage' \in [Callers -> Stages]
        /\ \A d \in Callers \ {c} : stage'[d] = stage[d]
        /\ FrontierGuards' /\ StageInv' /\ NoOvertaking' /\ MutualExclusion'
    BY <1>0, <1>3, <2>1, GrantInv
  <2>3. QueueInv'
    BY <1>2, <1>3, <2>2 DEF QueueInv
  <2>4. TypeOK'
    BY <1>0, <1>3, <2>2 DEF TypeOK, claimVars
  <2> QED BY <2>2, <2>3, <2>4
<1>4. CASE /\ waiters' = q
           /\ stage' = [stage EXCEPT ![c] = "waiting"]
           /\ UNCHANGED <<holders, held, inUse>>
  <2>1. /\ stage' \in [Callers -> Stages] /\ stage'[c] = "waiting"
        /\ \A d \in Callers \ {c} : stage'[d] = stage[d]
    BY <1>0, <1>4 DEF Stages
  <2>2. TypeOK'
    BY <1>0, <1>1, <1>4, <2>1 DEF TypeOK, claimVars
  <2>3. StageInv'
    <3> SUFFICES ASSUME NEW t \in Tickets PROVE StageInv!(t)'
      BY DEF StageInv
    <3>1. t \in Callers
      BY DEF Callers
    <3>2. CASE t = c
      BY <1>0, <1>4, <2>1, <3>2 DEF StageInv, claimVars
    <3>3. CASE t # c
      BY <1>0, <1>4, <2>1, <3>1, <3>3 DEF StageInv, claimVars
    <3> QED BY <3>2, <3>3
  <2>4. QueueInv'
    <3>1. \A i \in 1 .. Len(q) : i \in 1 .. Len(waiters) \/ i = Len(q)
      BY <1>1
    <3>2. \A i \in 1 .. Len(q) : stage'[q[i]] = "waiting"
      <4> TAKE i \in 1 .. Len(q)
      <4>1. CASE i \in 1 .. Len(waiters)
        BY <1>1, <1>2, <2>1, <4>1 DEF QueueInv
      <4>2. CASE i = Len(q)
        BY <1>1, <2>1, <4>2
      <4> QED BY <3>1, <4>1, <4>2
    <3>3. \A i, j \in 1 .. Len(q) : i # j => q[i] # q[j]
      <4> TAKE i, j \in 1 .. Len(q)
      <4>1. CASE i \in 1 .. Len(waiters) /\ j \in 1 .. Len(waiters)
        BY <1>1, <4>1 DEF QueueInv
      <4>2. CASE i = Len(q) \/ j = Len(q)
        BY <1>1, <1>2, <3>1, <4>2
      <4> QED BY <3>1, <4>1, <4>2
    <3> QED BY <1>4, <3>2, <3>3 DEF QueueInv
  <2> QED BY <1>0, <1>4, <2>2, <2>3, <2>4
          DEF FrontierGuards, NoOvertaking, MutualExclusion, claimVars
<1> QED BY <1>3, <1>4 DEF Acquire

\* Taking the i-th waiter out leaves the other waiting callers, each once.
LEMMA DequeueInv ==
  ASSUME Inv, NEW i \in 1 .. Len(waiters), NEW c \in Callers, waiters[i] = c,
         waiters' = RemoveAt(waiters, i),
         \A d \in Callers \ {c} : stage'[d] = stage[d]
  PROVE  waiters' \in Seq(Callers) /\ QueueInv'
<1> USE DEF Inv
<1>1. waiters \in Seq(Callers) /\ Len(waiters) \in Nat
  BY LenProperties DEF TypeOK
<1>2. /\ waiters' \in Seq(Callers)
      /\ Len(waiters') = Len(waiters) - 1
      /\ \A j \in 1 .. Len(waiters) - 1 :
           waiters'[j] = IF j < i THEN waiters[j] ELSE waiters[j + 1]
  BY <1>1, RemoveAtProperties
<1> DEFINE old(j) == IF j < i THEN j ELSE j + 1
<1>3. \A j \in 1 .. Len(waiters) - 1 :
        /\ old(j) \in 1 .. Len(waiters) /\ old(j) # i
        /\ waiters'[j] = waiters[old(j)]
  BY <1>1, <1>2
<1>4. \A j, k \in 1 .. Len(waiters) - 1 : j # k => old(j) # old(k)
  BY <1>1
<1>5. \A j \in 1 .. Len(waiters) : waiters[j] \in Callers /\ stage[waiters[j]] = "waiting"
  BY <1>1, ElementOfSeq DEF QueueInv
<1> HIDE DEF old
<1>6. \A j \in 1 .. Len(waiters) - 1 : stage'[waiters'[j]] = "waiting"
  BY <1>3, <1>5 DEF QueueInv
<1>7. \A j, k \in 1 .. Len(waiters) - 1 : j # k => waiters'[j] # waiters'[k]
  BY <1>3, <1>4 DEF QueueInv
<1> QED BY <1>2, <1>6, <1>7 DEF QueueInv

\* A woken waiter is granted.
LEMMA WakeInv ==
  ASSUME Inv, NEW c \in Callers, Wake(c)
  PROVE  Inv'
<1> USE DEF Inv
<1>1. PICK i \in 1 .. Len(waiters) :
        /\ waiters[i] = c /\ Grantable(waiters, i)
        /\ waiters' = RemoveAt(waiters, i) /\ Grant(c) /\ UNCHANGED claimVars
  BY DEF Wake
<1>2. CanGrant(c) /\ stage[c] = "waiting"
  BY <1>1 DEF Grantable, QueueInv
<1>3. /\ inUse' \in Nat /\ holders' \in SUBSET Tickets /\ held' \in [Tickets -> Claims]
      /\ stage' \in [Callers -> Stages]
      /\ \A d \in Callers \ {c} : stage'[d] = stage[d]
      /\ FrontierGuards' /\ StageInv' /\ NoOvertaking' /\ MutualExclusion'
  BY <1>1, <1>2, GrantInv
<1>4. waiters' \in Seq(Callers) /\ QueueInv'
  BY <1>1, <1>3, DequeueInv
<1> QED BY <1>1, <1>3, <1>4 DEF TypeOK, claimVars

\* A caller that moves without touching the coordinator's claim state.
LEMMA MoveInv ==
  ASSUME Inv, NEW c \in Callers, NEW to \in {"ready", "leaving"},
         stage' = [stage EXCEPT ![c] = to],
         c \in Tickets => to = "leaving" /\ stage[c] = "waiting",
         UNCHANGED <<claimVars, holders, held>>
  PROVE  /\ FrontierGuards' /\ StageInv' /\ NoOvertaking' /\ MutualExclusion'
         /\ stage' \in [Callers -> Stages]
         /\ \A d \in Callers \ {c} : stage'[d] = stage[d]
<1> USE DEF Inv, claimVars
<1>1. /\ stage' \in [Callers -> Stages] /\ stage'[c] = to
      /\ \A d \in Callers \ {c} : stage'[d] = stage[d]
  BY DEF TypeOK, Stages
<1>2. StageInv'
  <2> SUFFICES ASSUME NEW t \in Tickets PROVE StageInv!(t)'
    BY DEF StageInv
  <2>1. CASE t = c
    BY <1>1, <2>1 DEF StageInv
  <2>2. CASE t # c
    BY <1>1, <2>2 DEF StageInv, Callers
  <2> QED BY <2>1, <2>2
<1> QED BY <1>1, <1>2 DEF FrontierGuards, NoOvertaking, MutualExclusion

\* A cancelled waiter leaves the queue.
LEMMA CancelWaitInv ==
  ASSUME Inv, NEW c \in Callers, CancelWait(c)
  PROVE  Inv'
<1> USE DEF Inv
<1>1. PICK i \in 1 .. Len(waiters) :
        /\ waiters[i] = c
        /\ waiters' = RemoveAt(waiters, i)
        /\ stage' = [stage EXCEPT ![c] = IF c \in Planners THEN "ready" ELSE "leaving"]
        /\ UNCHANGED <<holders, held, inUse>> /\ UNCHANGED claimVars
  BY DEF CancelWait
<1>2. stage[c] = "waiting"
  BY <1>1 DEF QueueInv
<1>3. /\ FrontierGuards' /\ StageInv' /\ NoOvertaking' /\ MutualExclusion'
      /\ stage' \in [Callers -> Stages]
      /\ \A d \in Callers \ {c} : stage'[d] = stage[d]
  <2>1. CASE c \in Planners
    BY <1>1, <1>2, <2>1, MoveInv, CallerProperties
  <2>2. CASE c \notin Planners
    BY <1>1, <1>2, <2>2, MoveInv, CallerProperties
  <2> QED BY <2>1, <2>2
<1>4. waiters' \in Seq(Callers) /\ QueueInv'
  BY <1>1, <1>3, DequeueInv
<1> QED BY <1>1, <1>3, <1>4 DEF TypeOK, claimVars

\* releasePermit touches no claim.
LEMMA ReleasePermitInv ==
  ASSUME Inv, NEW p \in Planners, ReleasePermit(p)
  PROVE  Inv'
<1> USE DEF Inv
<1>1. p \in Callers /\ p \notin Tickets
  BY CallerProperties DEF Callers
<1>2. /\ FrontierGuards' /\ StageInv' /\ NoOvertaking' /\ MutualExclusion'
      /\ stage' \in [Callers -> Stages]
      /\ \A d \in Callers \ {p} : stage'[d] = stage[d]
  BY <1>1, MoveInv DEF ReleasePermit
<1>3. \A i \in 1 .. Len(waiters) : waiters[i] \in Callers \ {p}
  <2> TAKE i \in 1 .. Len(waiters)
  <2>1. waiters[i] \in Callers /\ stage[waiters[i]] = "waiting"
    BY ElementOfSeq DEF QueueInv, TypeOK
  <2> QED BY <2>1 DEF ReleasePermit
<1>4. QueueInv'
  BY <1>2, <1>3 DEF QueueInv, ReleasePermit
<1> QED BY <1>2, <1>4 DEF TypeOK, claimVars, ReleasePermit

\* A ticket outside the queue changes its stage: the queue is untouched.
LEMMA QueueUntouched ==
  ASSUME Inv, NEW t \in Tickets, stage[t] # "waiting", waiters' = waiters,
         \A d \in Callers \ {t} : stage'[d] = stage[d]
  PROVE  QueueInv'
<1> USE DEF Inv
<1>1. \A i \in 1 .. Len(waiters) : waiters[i] \in Callers \ {t}
  <2> TAKE i \in 1 .. Len(waiters)
  <2>1. waiters[i] \in Callers /\ stage[waiters[i]] = "waiting"
    BY ElementOfSeq DEF QueueInv, TypeOK
  <2> QED BY <2>1
<1> QED BY <1>1 DEF QueueInv

\* discover: no later call holds anything while an activator is pending.
LEMMA DiscoverInv ==
  ASSUME Inv, NEW t \in Tickets, NEW extra \in ActivationClaims, Discover(t, extra)
  PROVE  Inv'
<1> USE DEF Inv
<1>1. extra \in Claims /\ static[t] \in Claims
  BY ConstantsAssumption DEF TypeOK
<1>2. ExtendClaims(static[t], extra) \in Claims
  BY <1>1 DEF ExtendClaims, Claims, Access
<1>3. /\ final' \in [Tickets -> Claims]
      /\ \A o \in Tickets \ {t} : final'[o] = final[o]
      /\ stage' \in [Callers -> Stages] /\ stage'[t] = "extending"
      /\ \A d \in Callers \ {t} : stage'[d] = stage[d]
      /\ \A d \in Tickets \ {t} : stage'[d] = stage[d]
      /\ UNCHANGED <<next, static, released, holders, held, inUse, waiters>>
      /\ pending' = pending \ {t} /\ stage[t] = "activating" /\ t \in pending
  BY <1>2 DEF Discover, TypeOK, Callers, Stages
<1>4. /\ frontier' \in Nat /\ frontier <= frontier' /\ frontier' <= next
      /\ frontier' = next \/ frontier' \in pending'
      /\ \A o \in pending' : frontier' <= o
  <2>1. /\ next \in Nat /\ frontier \in Nat /\ pending' \in SUBSET Nat
        /\ \A o \in pending' : frontier <= o /\ o < next
        /\ AdvanceFrontier(next, pending')
    BY <1>3, CallerProperties, ConstantsAssumption DEF TypeOK, FrontierGuards, Discover
  <2> QED BY <2>1, FrontierAdvances
<1>5. TypeOK'
  BY <1>3, <1>4, ConstantsAssumption DEF TypeOK
<1>6. FrontierGuards'
  BY <1>3, <1>4, CallerProperties DEF FrontierGuards, TypeOK
<1>7. StageInv'
  <2> SUFFICES ASSUME NEW o \in Tickets PROVE StageInv!(o)'
    BY DEF StageInv
  <2>1. CASE o = t
    BY <1>3, <2>1 DEF StageInv
  <2>2. CASE o # t
    BY <1>3, <2>2 DEF StageInv
  <2> QED BY <2>1, <2>2
<1>8. QueueInv'
  BY <1>3, QueueUntouched
<1>9. NoOvertaking'
  <2> SUFFICES ASSUME NEW e \in Tickets, NEW u \in Tickets,
                      e < u, u \in holders, e \notin released
               PROVE  ~ ClaimsConflict(final'[e], held[u])
    BY <1>3 DEF NoOvertaking
  <2>1. e # t
    BY <1>3, CallerProperties DEF FrontierGuards, TypeOK
  <2> QED BY <1>3, <2>1 DEF NoOvertaking
<1>10. MutualExclusion'
  BY <1>3 DEF MutualExclusion
<1> QED BY <1>5, <1>6, <1>7, <1>8, <1>9, <1>10

\* extend: the complete set is held only once it is free.
LEMMA ExtendInv ==
  ASSUME Inv, NEW t \in Tickets, Extend(t)
  PROVE  Inv'
<1> USE DEF Inv
<1>1. /\ held' \in [Tickets -> Claims] /\ held'[t] = final[t]
      /\ \A o \in Tickets \ {t} : held'[o] = held[o]
      /\ stage' \in [Callers -> Stages] /\ stage'[t] = "running"
      /\ \A d \in Callers \ {t} : stage'[d] = stage[d]
      /\ \A d \in Tickets \ {t} : stage'[d] = stage[d]
      /\ UNCHANGED <<next, frontier, pending, static, final, released, holders, inUse, waiters>>
      /\ stage[t] = "extending" /\ ClaimsFreeExcept(t, final[t])
  BY DEF Extend, TypeOK, Callers, Stages, claimVars
<1>2. TypeOK'
  BY <1>1 DEF TypeOK
<1>3. FrontierGuards'
  BY <1>1 DEF FrontierGuards
<1>4. StageInv'
  <2> SUFFICES ASSUME NEW o \in Tickets PROVE StageInv!(o)'
    BY DEF StageInv
  <2>1. CASE o = t
    BY <1>1, <2>1 DEF StageInv
  <2>2. CASE o # t
    BY <1>1, <2>2 DEF StageInv
  <2> QED BY <2>1, <2>2
<1>5. QueueInv'
  BY <1>1, QueueUntouched
<1>6. NoOvertaking'
  <2> SUFFICES ASSUME NEW e \in Tickets, NEW u \in Tickets,
                      e < u, u \in holders, e \notin released
               PROVE  ~ ClaimsConflict(final[e], held'[u])
    BY <1>1 DEF NoOvertaking
  <2>1. CASE u = t
    <3>1. e \in (0 .. t - 1) \ released
      BY <2>1, CallerProperties
    <3> QED BY <1>1, <2>1, <3>1 DEF ClaimsFreeExcept
  <2>2. CASE u # t
    BY <1>1, <2>2 DEF NoOvertaking
  <2> QED BY <2>1, <2>2
<1>7. MutualExclusion'
  <2> SUFFICES ASSUME NEW a \in holders, NEW b \in holders, a # b
               PROVE  ~ ClaimsConflict(held'[a], held'[b])
    BY <1>1 DEF MutualExclusion
  <2>0. holders \subseteq Tickets
    BY DEF TypeOK
  <2>1. CASE b = t
    <3>1. ~ ClaimsConflict(held[a], final[t])
      BY <1>1, <2>1 DEF ClaimsFreeExcept
    <3> QED BY <1>1, <2>0, <2>1, <3>1
  <2>2. CASE a = t
    <3>1. ~ ClaimsConflict(held[b], final[t])
      BY <1>1, <2>2 DEF ClaimsFreeExcept
    <3>2. ~ ClaimsConflict(final[t], held[b])
      BY <3>1, ConflictProperties
    <3> QED BY <1>1, <2>0, <2>2, <3>2
  <2>3. CASE a # t /\ b # t
    BY <1>1, <2>0, <2>3 DEF MutualExclusion
  <2> QED BY <2>1, <2>2, <2>3
<1> QED BY <1>2, <1>3, <1>4, <1>5, <1>6, <1>7

\* release only shrinks what is held and reserved.
LEMMA ReleaseInv ==
  ASSUME Inv, NEW t \in Tickets, Release(t)
  PROVE  Inv'
<1> USE DEF Inv
<1>1. /\ stage' \in [Callers -> Stages] /\ stage'[t] = "done"
      /\ \A d \in Callers \ {t} : stage'[d] = stage[d]
      /\ \A d \in Tickets \ {t} : stage'[d] = stage[d]
      /\ stage[t] \in {"ready", "leaving", "activating", "extending", "running"}
      /\ holders' = holders \ {t} /\ pending' = pending \ {t}
      /\ released' = released \cup {t}
      /\ UNCHANGED <<next, static, final, held, waiters>>
      /\ inUse' \in Nat
  BY DEF Release, EndTicket, TypeOK, Callers, Stages
<1>2. /\ frontier' \in Nat /\ frontier <= frontier' /\ frontier' <= next
      /\ frontier' = next \/ frontier' \in pending'
      /\ \A o \in pending' : frontier' <= o
  <2>1. /\ next \in Nat /\ frontier \in Nat /\ pending' \in SUBSET Nat
        /\ \A o \in pending' : frontier <= o /\ o < next
        /\ AdvanceFrontier(next, pending')
    BY <1>1, CallerProperties, ConstantsAssumption DEF TypeOK, FrontierGuards, Release, EndTicket
  <2> QED BY <2>1, FrontierAdvances
<1>3. TypeOK'
  BY <1>1, <1>2, ConstantsAssumption DEF TypeOK
<1>4. FrontierGuards'
  BY <1>1, <1>2, CallerProperties DEF FrontierGuards, TypeOK
<1>5. StageInv'
  <2> SUFFICES ASSUME NEW o \in Tickets PROVE StageInv!(o)'
    BY DEF StageInv
  <2>1. CASE o = t
    BY <1>1, <2>1 DEF StageInv
  <2>2. CASE o # t
    BY <1>1, <2>2 DEF StageInv
  <2> QED BY <2>1, <2>2
<1>6. QueueInv'
  BY <1>1, QueueUntouched
<1>7. NoOvertaking' /\ MutualExclusion'
  BY <1>1 DEF NoOvertaking, MutualExclusion
<1> QED BY <1>3, <1>4, <1>5, <1>6, <1>7

--------------------------------------------------------------------------------
\* The invariant is inductive: one lemma per operation of the coordinator.
LEMMA InvStep ==
  ASSUME Inv, [Next]_vars
  PROVE  Inv'
<1>1. CASE UNCHANGED vars
  BY <1>1 DEF vars, Inv, TypeOK, FrontierGuards, StageInv, QueueInv, NoOvertaking,
              MutualExclusion
<1>2. ASSUME NEW batch \in BatchShapes, RegisterBatch(batch) PROVE Inv'
  BY <1>2, RegisterBatchInv
<1>3. ASSUME NEW c \in Callers, Acquire(c) \/ Wake(c) \/ CancelWait(c) PROVE Inv'
  BY <1>3, AcquireInv, WakeInv, CancelWaitInv
<1>4. ASSUME NEW p \in Planners, ReleasePermit(p) PROVE Inv'
  BY <1>4, ReleasePermitInv
<1>5. ASSUME NEW t \in Tickets, NEW extra \in ActivationClaims, Discover(t, extra)
      PROVE  Inv'
  BY <1>5, DiscoverInv
<1>6. ASSUME NEW t \in Tickets, Extend(t) \/ Release(t) PROVE Inv'
  BY <1>6, ExtendInv, ReleaseInv
<1> QED BY <1>1, <1>2, <1>3, <1>4, <1>5, <1>6 DEF Next

\* The invariant holds in every reachable state of the coordinator.
THEOREM Invariance == Spec => []Inv
BY InitInv, InvStep, PTL DEF Spec

\* The coordinator's state keeps its types in every reachable state; in particular
\* the discovery frontier never passes the next ticket (advanceFrontierLocked).
THEOREM TypeCorrect == Spec => []TypeOK
<1>1. Inv => TypeOK  BY DEF Inv
<1> QED BY <1>1, Invariance, PTL

\* Two calls never hold conflicting claims (coordinator.held).
THEOREM ClaimsAreExclusive == Spec => []MutualExclusion
<1>1. Inv => MutualExclusion
  BY DEF Inv
<1> QED BY <1>1, Invariance, PTL

\* Conflicting calls run in the order Batch.Next submitted them.
THEOREM TicketOrder == Spec => []ConflictsRunInTicketOrder
<1>1. Inv => ConflictsRunInTicketOrder
  <2> SUFFICES ASSUME Inv, NEW e \in Tickets, NEW t \in Tickets, e < t,
                      stage[t] = "running", ClaimsConflict(final[e], final[t])
               PROVE  e \in released
    BY DEF ConflictsRunInTicketOrder
  <2>1. t \in holders /\ held[t] = final[t]
    BY DEF Inv, StageInv
  <2> QED BY <2>1 DEF Inv, NoOvertaking
<1> QED BY <1>1, Invariance, PTL

\* The discovery frontier is exact and nobody is let in beyond it.
THEOREM FrontierSound == Spec => []FrontierGuards
<1>1. Inv => FrontierGuards
  BY DEF Inv
<1> QED BY <1>1, Invariance, PTL

\* The sets permits are counted by are finite.
LEMMA FinitePermits ==
  ASSUME Inv
  PROVE  /\ IsFiniteSet(holders) /\ Cardinality(holders) \in Nat
         /\ IsFiniteSet(Planning) /\ Cardinality(Planning) \in Nat
<1>1. IsFiniteSet(Tickets)
  BY FS_Interval, ConstantsAssumption DEF Tickets
<1>2. holders \in SUBSET Tickets /\ Planning \in SUBSET Planners
  BY DEF Inv, TypeOK, Planning
<1> QED BY <1>1, <1>2, FS_Subset, FS_CardinalityType, ConstantsAssumption

\* A grant adds exactly one permit holder.
LEMMA GrantPermits ==
  ASSUME Inv, PermitsExact, NEW c \in Callers, stage[c] \in {"ready", "waiting"},
         CanGrant(c), Grant(c)
  PROVE  PermitsExact'
<1>1. /\ IsFiniteSet(holders) /\ Cardinality(holders) \in Nat
      /\ IsFiniteSet(Planning) /\ Cardinality(Planning) \in Nat
  BY FinitePermits
<1>2. inUse \in Nat /\ inUse < Parallel /\ Parallel \in Nat /\ inUse' = inUse + 1
  BY ConstantsAssumption DEF CanGrant, Grant, Inv, TypeOK
<1>3. CASE c \in Planners
  <2>1. c \notin Planning /\ holders' = holders /\ Planning' = Planning \cup {c}
    BY <1>3 DEF Grant, Planning, Inv, TypeOK, Callers
  <2>2. Cardinality(Planning') = Cardinality(Planning) + 1
    BY <1>1, <2>1, FS_AddElement
  <2> QED BY <1>1, <1>2, <2>1, <2>2 DEF PermitsExact
<1>4. CASE c \notin Planners
  <2>1. /\ c \notin holders /\ holders' = holders \cup {c} /\ Planning' = Planning
    <3>1. c \in Tickets /\ holders' = holders \cup {c}
      BY <1>4 DEF Grant, Callers
    <3>2. c \notin holders
      BY <3>1 DEF Inv, StageInv
    <3>3. \A p \in Planners : stage'[p] = stage[p]
      BY <1>4 DEF Grant, Inv, TypeOK, Callers
    <3> QED BY <3>1, <3>2, <3>3 DEF Planning
  <2>2. Cardinality(holders') = Cardinality(holders) + 1
    BY <1>1, <2>1, FS_AddElement
  <2> QED BY <1>1, <1>2, <2>1, <2>2 DEF PermitsExact
<1> QED BY <1>3, <1>4

\* Permits are conserved on every path: none leaks, none is issued twice.
THEOREM PermitConservation == Spec => []PermitsExact
<1>1. Init => PermitsExact
  <2> SUFFICES ASSUME Init PROVE PermitsExact
    OBVIOUS
  <2>1. holders = {} /\ Planning = {} /\ inUse = 0
    BY DEF Init, Planning, Callers
  <2> QED BY <2>1, FS_EmptySet, ConstantsAssumption DEF PermitsExact
<1>2. Inv /\ PermitsExact /\ [Next]_vars => PermitsExact'
  <2> SUFFICES ASSUME Inv, PermitsExact, [Next]_vars PROVE PermitsExact'
    OBVIOUS
  <2>0. /\ IsFiniteSet(holders) /\ Cardinality(holders) \in Nat
        /\ IsFiniteSet(Planning) /\ Cardinality(Planning) \in Nat
        /\ Parallel \in Nat /\ inUse \in Nat
    BY FinitePermits, ConstantsAssumption DEF Inv, TypeOK
  <2>1. ASSUME UNCHANGED <<inUse, holders>>, Planning' = Planning PROVE PermitsExact'
    BY <2>1 DEF PermitsExact
  <2>2. CASE UNCHANGED vars
    BY <2>1, <2>2 DEF vars, Planning
  <2>3. ASSUME NEW batch \in BatchShapes, RegisterBatch(batch) PROVE PermitsExact'
    <3>1. Planning' = Planning
      BY <2>3, CallerProperties DEF RegisterBatch, Planning, Callers
    <3> QED BY <2>1, <2>3, <3>1 DEF RegisterBatch
  <2>4. ASSUME NEW c \in Callers, Acquire(c) PROVE PermitsExact'
    <3>1. CASE Grant(c) /\ Grantable(Append(waiters, c), Len(Append(waiters, c)))
      <4>1. CanGrant(c)
        BY <3>1, AppendCaller DEF Grantable, Inv, TypeOK
      <4> QED BY <2>4, <3>1, <4>1, GrantPermits DEF Acquire
    <3>2. CASE stage' = [stage EXCEPT ![c] = "waiting"] /\ UNCHANGED <<holders, held, inUse>>
      <4>1. Planning' = Planning
        BY <2>4, <3>2 DEF Acquire, Planning, Inv, TypeOK, Callers
      <4> QED BY <2>1, <3>2, <4>1
    <3> QED BY <2>4, <3>1, <3>2 DEF Acquire
  <2>5. ASSUME NEW c \in Callers, Wake(c) PROVE PermitsExact'
    BY <2>5, GrantPermits DEF Wake, Grantable, Inv, QueueInv
  <2>6. ASSUME NEW c \in Callers, CancelWait(c) PROVE PermitsExact'
    <3>1. stage[c] = "waiting" /\ UNCHANGED <<inUse, holders>>
      BY <2>6 DEF CancelWait, Inv, QueueInv
    <3>2. Planning' = Planning
      BY <2>6, <3>1, CallerProperties DEF CancelWait, Planning, Inv, TypeOK, Callers
    <3> QED BY <2>1, <3>1, <3>2
  <2>7. ASSUME NEW p \in Planners, ReleasePermit(p) PROVE PermitsExact'
    <3>1. p \in Planning /\ Planning' = Planning \ {p} /\ holders' = holders
      BY <2>7 DEF ReleasePermit, Planning, Inv, TypeOK, Callers
    <3>2. Cardinality(Planning') = Cardinality(Planning) - 1 /\ Cardinality(Planning) # 0
      BY <2>0, <3>1, FS_RemoveElement, FS_EmptySet
    <3>3. inUse > 0 /\ inUse' = inUse - 1
      BY <2>0, <2>7, <3>2 DEF ReleasePermit, PermitsExact
    <3> QED BY <2>0, <3>1, <3>2, <3>3 DEF PermitsExact
  <2>8. ASSUME NEW t \in Tickets, NEW extra \in ActivationClaims, Discover(t, extra)
        PROVE  PermitsExact'
    <3>1. Planning' = Planning
      BY <2>8, CallerProperties DEF Discover, Planning, Inv, TypeOK, Callers
    <3> QED BY <2>1, <2>8, <3>1 DEF Discover
  <2>9. ASSUME NEW t \in Tickets, Extend(t) PROVE PermitsExact'
    <3>1. Planning' = Planning
      BY <2>9, CallerProperties DEF Extend, Planning, Inv, TypeOK, Callers
    <3> QED BY <2>1, <2>9, <3>1 DEF Extend
  <2>10. ASSUME NEW t \in Tickets, Release(t) PROVE PermitsExact'
    <3>1. Planning' = Planning /\ holders' = holders \ {t}
      BY <2>10, CallerProperties DEF Release, EndTicket, Planning, Inv, TypeOK, Callers
    <3>2. CASE t \in holders
      <4>1. Cardinality(holders') = Cardinality(holders) - 1 /\ Cardinality(holders) # 0
        BY <2>0, <3>1, <3>2, FS_RemoveElement, FS_EmptySet
      <4>2. inUse > 0 /\ inUse' = inUse - 1
        BY <2>0, <2>10, <3>2, <4>1 DEF Release, EndTicket, PermitsExact
      <4> QED BY <2>0, <3>1, <4>1, <4>2 DEF PermitsExact
    <3>3. CASE t \notin holders
      <4>1. holders' = holders /\ inUse' = inUse
        BY <2>0, <2>10, <3>1, <3>3 DEF Release, EndTicket
      <4> QED BY <2>1, <3>1, <4>1
    <3> QED BY <3>2, <3>3
  <2> QED BY <2>2, <2>3, <2>4, <2>5, <2>6, <2>7, <2>8, <2>9, <2>10 DEF Next
<1> QED BY <1>1, <1>2, Invariance, PTL DEF Spec

(***************************************************************************)
(* Batches over the coordinator.                                           *)
(***************************************************************************)

SlotStates == {"pending", "running", "finished", "failed", "skipped"}
Terminal == {"finished", "failed", "skipped"}
Events == [kind : {"started", "finished", "failed"}, index : Nat]
Fatal == [index : Nat, ctx : BOOLEAN]
Errors == {<<>>, <<"context">>, <<"register">>} \cup ({"fatal"} \X Nat)
Flags == [Planners -> BOOLEAN]
Counts == [Planners -> Nat]

BTypeOK ==
  /\ phase \in [Planners -> {"starting", "prepared", "refused"}]
  /\ disp \in [Planners -> {"none", "registering", "spawning", "done"}]
  /\ calls \in [Planners -> Seq(PreparedCall)]
  /\ checked \in [Planners -> SUBSET Nat]
  /\ started \in Flags /\ closed \in Flags /\ cancelled \in Flags /\ parentDone \in Flags
  /\ drained \in Flags /\ closeDone \in Flags
  /\ planned \in Counts /\ spawned \in Counts /\ base \in Counts /\ recv \in Counts
  /\ chanClosed \in Counts
  /\ DOMAIN slots = Planners /\ \A b \in Planners : slots[b] \in [Indices(b) -> SlotStates]
  /\ fatals \in [Planners -> SUBSET Fatal]
  /\ err \in [Planners -> Errors]
  /\ log \in [Planners -> Seq(Events)]

\* The calls are what Start made of one of the workloads.
ShapesInv == \E w \in Requested : \A b \in Planners : calls[b] \in Outcomes(w[b])

\* Where Start, Next, dispatch and Close of a batch stand.
ControlInv(b) ==
  /\ planned[b] <= Size(b) /\ spawned[b] <= Size(b)
  /\ started[b] \/ closed[b] => phase[b] = "prepared"
  /\ phase[b] \in {"starting", "prepared"} => calls[b] # <<>>
  /\ disp[b] # "none" => started[b]
  /\ closed[b] => started[b] /\ cancelled[b]
  /\ chanClosed[b] = IF started[b] /\ disp[b] \in {"none", "done"} THEN 1 ELSE 0
  /\ drained[b] => chanClosed[b] = 1
  /\ closeDone[b] => closed[b] /\ disp[b] \in {"none", "done"}

\* A Planner waits or runs only for the call Start is at.
PlanInv(b) ==
  /\ stage[b] \in {"ready", "waiting", "running"}
  /\ stage[b] # "ready" => Preparing(b) /\ HasPlanner(calls[b][planned[b] + 1])

\* The batch has tickets.
Registered(b) == disp[b] = "spawning" \/ (disp[b] = "done" /\ err[b] # <<"register">>)

\* The tickets of a batch are its own.
TicketsInv ==
  /\ \A b \in Planners : Registered(b) => base[b] + Size(b) <= next
  /\ \A b, c \in Planners :
       b # c /\ Registered(b) /\ Registered(c) =>
         base[b] + Size(b) <= base[c] \/ base[c] + Size(c) <= base[b]

\* Where a call stands in runCall, in the coordinator and in its slot.
CallOK(b, i) ==
  LET k == Ticket(b, i)
  IN /\ i > spawned[b] =>
          /\ slots[b][i] = "pending"
          /\ stage[k] = IF calls[b][i].kind = "rejected" THEN "done" ELSE "ready"
     /\ i <= spawned[b] =>
          /\ stage[k] \in {"ready", "waiting", "leaving", "activating", "extending"} =>
               slots[b][i] = "pending"
          /\ stage[k] = "running" => slots[b][i] \in {"pending", "running"}
          /\ stage[k] = "done" => slots[b][i] \in Terminal
     /\ stage[k] # "free"
     /\ stage[k] = "leaving" => CtxDone(b)

CallsInv(b) ==
  /\ Registered(b) => \A i \in Indices(b) : CallOK(b, i)
  /\ ~ Registered(b) /\ chanClosed[b] = 0 => \A i \in Indices(b) : slots[b][i] = "pending"
  /\ ~ Registered(b) => log[b] = <<>> /\ fatals[b] = {}
  /\ disp[b] \in {"none", "registering"} => spawned[b] = 0
  /\ ~ Registered(b) /\ chanClosed[b] = 1 => \A i \in Indices(b) : slots[b][i] = "skipped"
  /\ disp[b] = "done" /\ Registered(b) =>
       /\ spawned[b] = Size(b)
       /\ \A i \in Indices(b) : stage[Ticket(b, i)] = "done"

\* The log l tells that call i was k.
Has(l, i, k) == \E j \in 1 .. Len(l) : l[j] = Event(k, i)

\* Every event is sent at most once, finished after started, and only one ends a call.
LogOK(l, n) ==
  /\ \A j \in 1 .. Len(l) : l[j].index \in 1 .. n
  /\ \A j, k \in 1 .. Len(l) : l[j] = l[k] => j = k
  /\ \A j \in 1 .. Len(l) : l[j].kind = "finished" =>
       \E k \in 1 .. j - 1 : l[k] = Event("started", l[j].index)
  /\ \A i \in 1 .. n : ~ (Has(l, i, "finished") /\ Has(l, i, "failed"))

\* The events of call i are those its slot tells.
EventsOK(b, i) ==
  /\ Has(log[b], i, "finished") <=> slots[b][i] = "finished"
  /\ Has(log[b], i, "failed") <=> slots[b][i] = "failed"
  /\ slots[b][i] = "pending" => ~ Has(log[b], i, "started")
  /\ slots[b][i] = "running" => Has(log[b], i, "started")
  /\ slots[b][i] = "skipped" /\ ~ closed[b] => ~ Has(log[b], i, "started")

LogInv(b) == LogOK(log[b], Size(b)) /\ \A i \in Indices(b) : EventsOK(b, i)

\* Err, led by call n, joins the failures of the failed calls.
Accounted(b, n) ==
  LET pool == IF OwnFailures(b) # {} THEN OwnFailures(b) ELSE FailedCalls(b)
  IN  /\ {f.index : f \in fatals[b]} = FailedCalls(b)
      /\ n \in pool
      /\ \A i \in pool : n <= i

\* A call that does not finish has a cause, and Err knows it.
CauseInv(b) ==
  /\ cancelled[b] => closed[b] \/ fatals[b] # {}
  /\ Registered(b) => \A i \in Indices(b) :
       slots[b][i] \in {"failed", "skipped"} => parentDone[b] \/ closed[b] \/ fatals[b] # {}
  /\ disp[b] # "done" => err[b] \in {<<>>, <<"context">>}
  /\ disp[b] \in {"registering", "spawning"} \/ ~ started[b] => err[b] = <<>>
  /\ disp[b] = "done" /\ err[b] = <<>> /\ ~ closed[b] =>
       \A i \in Indices(b) : slots[b][i] = "finished"
  /\ disp[b] = "none" /\ started[b] => closed[b] \/ err[b] = <<"context">>

\* Every failed call has left its failure, and Err tells exactly those.
AccountInv(b) ==
  /\ disp[b] = "done" /\ err[b] = <<>> => fatals[b] = {}
  /\ \A i \in Indices(b) : slots[b][i] = "failed" => \E f \in fatals[b] : f.index = i
  /\ \A f \in fatals[b] :
       f.index \in Indices(b) /\ (slots[b][f.index] = "failed" \/ parentDone[b])
  /\ err[b] = <<"context">> => parentDone[b]
  /\ err[b] # <<>> /\ err[b][1] = "fatal" => Accounted(b, err[b][2])

BatchInv(b) == /\ ControlInv(b) /\ PlanInv(b) /\ CallsInv(b) /\ LogInv(b)
               /\ CauseInv(b) /\ AccountInv(b)

BInv == Inv /\ BTypeOK /\ ShapesInv /\ TicketsInv /\ \A b \in Planners : BatchInv(b)


--------------------------------------------------------------------------------
\* Sizes are numbers, and the ticket of a call of a registered batch is a ticket
\* below next (dispatch hands out base + i).
LEMMA TicketFacts ==
  ASSUME Inv, BTypeOK, TicketsInv, NEW b \in Planners
  PROVE  /\ Size(b) \in Nat /\ base[b] \in Nat /\ Indices(b) \subseteq Nat
         /\ next \in Nat /\ next <= MaxTicket
         /\ Registered(b) => \A i \in Indices(b) :
              /\ Ticket(b, i) \in Tickets /\ Ticket(b, i) < next
              /\ Ticket(b, i) >= base[b] /\ Ticket(b, i) < base[b] + Size(b)
<1>1. Size(b) \in Nat
  BY LenProperties DEF BTypeOK, Size
<1>2. base[b] \in Nat /\ next \in Nat /\ next <= MaxTicket
  BY ConstantsAssumption DEF BTypeOK, Counts, Inv, TypeOK
<1>3. Registered(b) => base[b] + Size(b) <= next
  BY DEF TicketsInv
<1> QED BY <1>1, <1>2, <1>3, ConstantsAssumption DEF Indices, Ticket, Tickets

\* Two calls have two tickets, in one batch or in two.
LEMMA TicketsDiffer ==
  ASSUME Inv, BTypeOK, TicketsInv, NEW b \in Planners, NEW c \in Planners,
         Registered(b), Registered(c), NEW i \in Indices(b), NEW j \in Indices(c),
         b # c \/ i # j
  PROVE  Ticket(b, i) # Ticket(c, j)
<1>1. CASE b = c
  <2>1. base[b] \in Nat /\ i \in Nat /\ j \in Nat
    BY <1>1, TicketFacts
  <2> QED BY <1>1, <2>1 DEF Ticket
<1>2. CASE b # c
  <2>1. \/ base[b] + Size(b) <= base[c]
        \/ base[c] + Size(c) <= base[b]
    BY <1>2 DEF TicketsInv
  <2>2. /\ Ticket(b, i) \in Nat /\ Ticket(b, i) >= base[b] /\ Ticket(b, i) < base[b] + Size(b)
        /\ Ticket(c, j) \in Nat /\ Ticket(c, j) >= base[c] /\ Ticket(c, j) < base[c] + Size(c)
    BY TicketFacts, CallerProperties
  <2>3. base[b] \in Nat /\ base[c] \in Nat /\ Size(b) \in Nat /\ Size(c) \in Nat
    BY TicketFacts
  <2> QED BY <2>1, <2>2, <2>3
<1> QED BY <1>1, <1>2

\* What Start makes of a call sequence has its length, so a batch with calls
\* comes from a workload with calls and is a batch the coordinator may be given.
LEMMA CallsAreShapes ==
  ASSUME ShapesInv, NEW b \in Planners, calls[b] # <<>>
  PROVE  calls[b] \in BatchShapes
<1>1. PICK w \in Requested : \A c \in Planners : calls[c] \in Outcomes(w[c])
  BY DEF ShapesInv
<1>2. w[b] \in Seq(PreparedCall)
  BY RequestedAssumption
<1>3. CASE w[b] = <<>>
  <2>1. PICK R \in SUBSET (1 .. Len(w[b])) : calls[b] =
          [i \in 1 .. Len(w[b]) |->
             IF i \in R THEN [w[b][i] EXCEPT !.kind = "rejected"] ELSE w[b][i]]
    BY <1>1 DEF Outcomes
  <2>2. 1 .. Len(w[b]) = {}
    BY <1>3
  <2>3. calls[b] = <<>>
    BY <2>1, <2>2
  <2> QED BY <2>3
<1>4. CASE w[b] # <<>>
  BY <1>1, <1>4, RequestedAssumption
<1> QED BY <1>3, <1>4

\* A call step acts on a ticket of the coordinator.
LEMMA LiveTicket ==
  ASSUME BInv, NEW b \in Planners, NEW i \in Indices(b), Live(b, i)
  PROVE  /\ Registered(b) /\ Ticket(b, i) \in Tickets /\ Ticket(b, i) \in Callers
         /\ CallOK(b, i) /\ i \in Nat /\ i <= spawned[b]
<1>1. Registered(b)
  BY DEF Live, Registered
<1>2. Ticket(b, i) \in Tickets /\ i \in Nat
  BY <1>1, TicketFacts DEF BInv
<1>3. CallOK(b, i)
  BY <1>1 DEF BInv, BatchInv, CallsInv
<1> QED BY <1>1, <1>2, <1>3 DEF Callers, Live

\* The steps of runCall on the coordinator.
LEMMA CallStepRefines ==
  ASSUME BInv, NEW b \in Planners, NEW i \in Indices(b), CallStep(b, i)
  PROVE  [Next]_vars
<1> DEFINE k == Ticket(b, i)
<1>1. Live(b, i)
  BY DEF CallStep, SkipCall, AcquireCall, WakeCall, CancelWaiting, Activated, NotActivated,
         ExtendCall, ExtendCancelled, BeginCallback, CallbackReturns
<1>2. k \in Tickets /\ k \in Callers
  BY <1>1, LiveTicket
<1>3. ASSUME Release(k) PROVE Next
  BY <1>2, <1>3 DEF Next
<1>4. \A x : Fail(b, i, x) => Release(k)
  BY DEF Fail, EndFailed
<1>5. \A x : Cancelled(b, i, x) => Release(k)
  BY DEF Cancelled
<1>6. CASE SkipCall(b, i) \/ NotActivated(b, i) \/ ExtendCancelled(b, i)
  BY <1>3, <1>4, <1>5, <1>6 DEF SkipCall, NotActivated, ExtendCancelled
<1>7. CASE CallbackReturns(b, i)
  BY <1>3, <1>4, <1>5, <1>7 DEF CallbackReturns
<1>8. CASE AcquireCall(b, i) \/ WakeCall(b, i) \/ CancelWaiting(b, i)
  BY <1>2, <1>8 DEF AcquireCall, WakeCall, CancelWaiting, Next
<1>9. CASE \E extra \in ActivationClaims : Activated(b, i, extra)
  BY <1>2, <1>9 DEF Activated, Next
<1>10. CASE ExtendCall(b, i)
  BY <1>2, <1>10 DEF ExtendCall, Next
<1>11. CASE BeginCallback(b, i)
  BY <1>11 DEF BeginCallback
<1> QED BY <1>6, <1>7, <1>8, <1>9, <1>10, <1>11 DEF CallStep

\* The steps of Start, Next, dispatch and Close on the coordinator.
LEMMA StepRefines == ASSUME BInv, [BNext]_allVars PROVE [Next]_vars
<1>1. CASE UNCHANGED allVars
  BY <1>1 DEF allVars
<1> SUFFICES ASSUME NEW b \in Planners,
                    \/ StartStep(b)
                    \/ NextFirst(b) \/ NextReceive(b)
                    \/ DispatchStep(b)
                    \/ \E i \in Indices(b) : CallStep(b, i)
                    \/ CloseBatch(b) \/ CloseReturns(b)
                    \/ ParentCancelled(b)
             PROVE  [Next]_vars
  BY <1>1 DEF BNext
<1>2. b \in Callers
  BY DEF Callers
<1>3. CASE StartStep(b)
  <2>1. CASE Preflight(b)
    BY <2>1 DEF Preflight
  <2>2. CASE PlanAcquire(b) \/ PlanWake(b)
    BY <1>2, <2>2 DEF PlanAcquire, PlanWake, Next
  <2>3. CASE PlanReturns(b)
    BY <2>3 DEF PlanReturns, Next
  <2>4. CASE StartCancelled(b)
    BY <1>2, <2>4 DEF StartCancelled, Next
  <2> QED BY <1>3, <2>1, <2>2, <2>3, <2>4 DEF StartStep
<1>4. CASE DispatchStep(b)
  <2>1. CASE Register(b)
    <3>1. calls[b] # <<>>
      BY <2>1 DEF Register, BInv, BatchInv, ControlInv
    <3>2. calls[b] \in BatchShapes
      BY <3>1, CallsAreShapes DEF BInv
    <3>3. RegisterBatch(calls[b]) \/ UNCHANGED vars
      BY <2>1 DEF Register, vars
    <3> QED BY <3>2, <3>3 DEF Next
  <2>2. CASE Spawn(b) \/ DispatchEnds(b)
    BY <2>2 DEF Spawn, DispatchEnds
  <2> QED BY <1>4, <2>1, <2>2 DEF DispatchStep
<1>5. CASE NextFirst(b) \/ NextReceive(b)
  BY <1>5 DEF NextFirst, NextReceive
<1>6. CASE CloseBatch(b) \/ CloseReturns(b) \/ ParentCancelled(b)
  BY <1>6 DEF CloseBatch, CloseReturns, ParentCancelled
<1>7. CASE \E i \in Indices(b) : CallStep(b, i)
  BY <1>7, CallStepRefines
<1> QED BY <1>3, <1>4, <1>5, <1>6, <1>7


--------------------------------------------------------------------------------
\* pickFatal returns one of the fatal errors, and a genuine one if there is one:
\* the least index exists although nothing bounds the number of calls.
LEMMA FatalPicked ==
  ASSUME NEW F \in SUBSET Fatal, F # {}
  PROVE  /\ PickFatal(F) \in F
         /\ (\E f \in F : ~ f.ctx) =>
              /\ ~ PickFatal(F).ctx
              /\ \A f \in F : ~ f.ctx => PickFatal(F).index <= f.index
         /\ (\A f \in F : f.ctx) => \A f \in F : PickFatal(F).index <= f.index
<1> DEFINE genuine == {e \in F : ~ e.ctx}
           pool == IF genuine # {} THEN genuine ELSE F
           idx == {e.index : e \in pool}
<1>1. pool # {} /\ pool \subseteq F
  OBVIOUS
<1>2. idx # {} /\ idx \subseteq Nat
  BY <1>1 DEF Fatal
<1>3. PICK m \in idx : \A n \in idx : m <= n
  <2> DEFINE below == OpToRel(<, Nat)
  <2>0. IsWellFoundedOn(below, Nat)
    BY NatLessThanWellFounded
  <2>1. \A n, m \in Nat : n < m => <<n, m>> \in below
    BY DEF OpToRel
  <2> HIDE DEF below, idx
  <2>2. \E m \in idx : \A n \in idx : ~ (<<n, m>> \in below)
    BY <1>2, <2>0, WFMin
  <2>3. PICK m \in idx : \A n \in idx : ~ (<<n, m>> \in below)
    BY <2>2
  <2>4. \A n \in idx : n \in Nat /\ m \in Nat /\ ~ (n < m)
    BY <1>2, <2>1, <2>3
  <2>5. \A n \in idx : m <= n
    BY <2>4
  <2> QED BY <2>5
<1>4. \E e \in pool : \A o \in pool : e.index <= o.index
  BY <1>3
<1>5. PickFatal(F) \in pool /\ \A o \in pool : PickFatal(F).index <= o.index
  BY <1>4 DEF PickFatal
<1> QED BY <1>1, <1>5

\* Counting up keeps the types of a batch's counters.
LEMMA CountsKept ==
  ASSUME BTypeOK, NEW b \in Planners
  PROVE  /\ [planned EXCEPT ![b] = planned[b] + 1] \in Counts
         /\ [spawned EXCEPT ![b] = spawned[b] + 1] \in Counts
         /\ [recv EXCEPT ![b] = recv[b] + 1] \in Counts
         /\ [chanClosed EXCEPT ![b] = chanClosed[b] + 1] \in Counts
         /\ next \in Nat => [base EXCEPT ![b] = next] \in Counts
<1>1. /\ planned \in Counts /\ spawned \in Counts /\ recv \in Counts
      /\ chanClosed \in Counts /\ base \in Counts
  BY DEF BTypeOK
<1> QED BY <1>1 DEF Counts


\* While no call fails and Err does not name one, the account stands.
LEMMA AccountKept ==
  ASSUME NEW b \in Planners, BatchInv(b), Indices(b)' = Indices(b), fatals'[b] = fatals[b],
         parentDone[b] => parentDone'[b],
         \A i \in Indices(b) : slots'[b][i] = "failed" <=> slots[b][i] = "failed",
         err'[b] = err[b] \/ err'[b] = <<"register">> \/ (err'[b] = <<"context">> /\ parentDone'[b]),
         disp'[b] = "done" /\ err'[b] = <<>> => disp[b] = "done" /\ err[b] = <<>>
  PROVE  AccountInv(b)'
<1>1. AccountInv(b)
  BY DEF BatchInv
<1>2. FailedCalls(b)' = FailedCalls(b) /\ OwnFailures(b)' = OwnFailures(b)
  BY DEF FailedCalls, OwnFailures
<1>3. \A n : Accounted(b, n) => Accounted(b, n)'
  BY <1>2 DEF Accounted
<1>4. /\ disp'[b] = "done" /\ err'[b] = <<>> => fatals'[b] = {}
      /\ \A i \in Indices(b) : slots'[b][i] = "failed" => \E f \in fatals'[b] : f.index = i
      /\ \A f \in fatals'[b] :
           f.index \in Indices(b) /\ (slots'[b][f.index] = "failed" \/ parentDone'[b])
  BY <1>1 DEF AccountInv
<1>5. <<"register">> # <<"context">> /\ <<"register">>[1] # "fatal" /\ <<"context">>[1] # "fatal"
  OBVIOUS
<1>6. err'[b] = <<"context">> => parentDone'[b]
  BY <1>1, <1>5 DEF AccountInv
<1>7. err'[b] # <<>> /\ err'[b][1] = "fatal" => Accounted(b, err[b][2])' /\ err'[b] = err[b]
  BY <1>1, <1>3, <1>5 DEF AccountInv
<1>8. err'[b] # <<>> /\ err'[b][1] = "fatal" => Accounted(b, err[b][2])'
  BY <1>7
<1> QED BY <1>4, <1>6, <1>8 DEF AccountInv

--------------------------------------------------------------------------------
\* What the batch c owns.
View(c) ==
  <<phase[c], planned[c], checked[c], calls[c], started[c], closed[c], cancelled[c],
    parentDone[c], disp[c], spawned[c], base[c], slots[c], fatals[c], err[c], log[c],
    recv[c], chanClosed[c], drained[c], closeDone[c]>>

\* The slots of every batch are slots.
SlotsOK == DOMAIN slots = Planners /\ \A b \in Planners : slots[b] \in [Indices(b) -> SlotStates]

\* A step of batch b keeps the types and leaves the other batches' variables alone.
Owns(b) == BTypeOK' /\ \A c \in Planners \ {b} : View(c)' = View(c)

\* Skipping what is pending, or setting the slot of one call, gives slots.
LEMMA SlotsKept ==
  ASSUME BTypeOK, NEW b \in Planners, UNCHANGED calls
  PROVE  /\ slots' = slots => SlotsOK'
         /\ slots' = [slots EXCEPT ![b] = SkipAll(slots[b])] => SlotsOK'
         /\ \A i \in Indices(b), s \in SlotStates :
              slots' = [slots EXCEPT ![b][i] = s] => SlotsOK'
<1>1. \A c \in Planners : Indices(c)' = Indices(c)
  BY DEF Indices, Size
<1>2. DOMAIN slots = Planners /\ \A c \in Planners : slots[c] \in [Indices(c) -> SlotStates]
  BY DEF BTypeOK
<1>3. SkipAll(slots[b]) \in [Indices(b) -> SlotStates]
  BY <1>2 DEF SkipAll, SlotStates
<1> QED BY <1>1, <1>2, <1>3 DEF SlotsOK

\* The steps of Next, Close and the caller's context are the batch's own.
LEMMA CallerOwns ==
  ASSUME BInv, NEW b \in Planners,
         \/ NextFirst(b) \/ NextReceive(b)
         \/ CloseBatch(b) \/ CloseReturns(b) \/ ParentCancelled(b)
  PROVE  Owns(b)
<1> USE DEF BTypeOK, Flags
<1>1. BTypeOK
  BY DEF BInv
<1>2. CASE NextFirst(b)
  <2>1. SlotsOK'
    BY <1>1, <1>2, SlotsKept DEF NextFirst
  <2>2. started' \in Flags /\ drained' \in Flags
    BY <1>1, <1>2 DEF NextFirst
  <2>3. chanClosed' \in Counts
    BY <1>1, <1>2, CountsKept DEF NextFirst
  <2>4. err' \in [Planners -> Errors]
    BY <1>1, <1>2 DEF NextFirst, Errors
  <2>5. disp' \in [Planners -> {"none", "registering", "spawning", "done"}]
    BY <1>1, <1>2 DEF NextFirst
  <2>6. BTypeOK'
    BY <1>1, <1>2, <2>1, <2>2, <2>3, <2>4, <2>5 DEF NextFirst, SlotsOK
  <2>7. \A c \in Planners \ {b} : View(c)' = View(c)
    BY <1>1, <1>2 DEF NextFirst, View, Counts
  <2> QED BY <2>6, <2>7 DEF Owns
<1>3. CASE NextReceive(b)
  <2>1. recv' \in Counts /\ drained' \in Flags
    <3>1. recv' = recv \/ recv' = [recv EXCEPT ![b] = recv[b] + 1]
      BY <1>3 DEF NextReceive
    <3>2. drained' = drained \/ drained' = [drained EXCEPT ![b] = TRUE]
      BY <1>3 DEF NextReceive
    <3>3. recv' \in Counts
      BY <1>1, <3>1, CountsKept
    <3>4. drained' \in Flags
      BY <1>1, <3>2
    <3> QED BY <3>3, <3>4
  <2>2. SlotsOK'
    BY <1>1, <1>3, SlotsKept DEF NextReceive
  <2>3. BTypeOK'
    BY <1>1, <1>3, <2>1, <2>2 DEF NextReceive, SlotsOK
  <2>4. \A c \in Planners \ {b} : View(c)' = View(c)
    BY <1>1, <1>3 DEF NextReceive, View, Counts
  <2> QED BY <2>3, <2>4 DEF Owns
<1>4. CASE CloseBatch(b)
  <2>1. SlotsOK'
    BY <1>1, <1>4, SlotsKept DEF CloseBatch
  <2>2. closed' \in Flags /\ cancelled' \in Flags /\ started' \in Flags
    BY <1>1, <1>4 DEF CloseBatch
  <2>3. closeDone' \in Flags
    BY <1>1, <1>4 DEF CloseBatch
  <2>4. chanClosed' \in Counts
    <3>1. chanClosed' = chanClosed \/ chanClosed' = [chanClosed EXCEPT ![b] = chanClosed[b] + 1]
      BY <1>4 DEF CloseBatch
    <3> QED BY <1>1, <3>1, CountsKept
  <2>5. BTypeOK'
    BY <1>1, <1>4, <2>1, <2>2, <2>3, <2>4 DEF CloseBatch, SlotsOK
  <2>6. \A c \in Planners \ {b} : View(c)' = View(c)
    BY <1>1, <1>4 DEF CloseBatch, View, Counts
  <2> QED BY <2>5, <2>6 DEF Owns
<1>5. CASE CloseReturns(b) \/ ParentCancelled(b)
  <2>1. BTypeOK'
    BY <1>1, <1>5 DEF CloseReturns, ParentCancelled, Indices, Size
  <2>2. \A c \in Planners \ {b} : View(c)' = View(c)
    BY <1>1, <1>5 DEF CloseReturns, ParentCancelled, View, Counts
  <2> QED BY <2>1, <2>2 DEF Owns
<1> QED BY <1>2, <1>3, <1>4, <1>5


\* Start's steps are the batch's own.
LEMMA StartOwns ==
  ASSUME BInv, NEW b \in Planners, StartStep(b)
  PROVE  Owns(b)
<1> USE DEF BTypeOK, Flags
<1>0. BTypeOK
  BY DEF BInv
<1>1. ASSUME UNCHANGED batchVars PROVE Owns(b)
  <2>1. BTypeOK'
    BY <1>0, <1>1 DEF batchVars, ctlVars, Indices, Size
  <2>2. \A c \in Planners : View(c)' = View(c)
    BY <1>1 DEF batchVars, ctlVars, View, Counts
  <2> QED BY <2>1, <2>2 DEF Owns
<1>2. ASSUME Refuse(b) PROVE Owns(b)
  <2>1. BTypeOK'
    BY <1>0, <1>2 DEF Refuse, Indices, Size
  <2>2. \A c \in Planners \ {b} : View(c)' = View(c)
    BY <1>0, <1>2 DEF Refuse, View, Counts
  <2> QED BY <2>1, <2>2 DEF Owns
<1>3. ASSUME NEW call \in PreparedCall, planned[b] + 1 \in 1 .. Len(calls[b]), Classify(b, call)
      PROVE Owns(b)
  <2>0. calls[b] \in Seq(PreparedCall)
    BY <1>0
  <2> DEFINE s == [calls[b] EXCEPT ![planned[b] + 1] = call]
  <2>1. s \in Seq(PreparedCall) /\ Len(s) = Len(calls[b])
    BY <1>3, <2>0, ExceptSeq
  <2>2. calls' = [calls EXCEPT ![b] = s]
    BY <1>3 DEF Classify
  <2> HIDE DEF s
  <2>3. /\ calls' \in [Planners -> Seq(PreparedCall)]
        /\ \A c \in Planners : Len(calls'[c]) = Len(calls[c])
        /\ \A c \in Planners \ {b} : calls'[c] = calls[c]
    BY <1>0, <2>1, <2>2
  <2>4. \A c \in Planners : Indices(c)' = Indices(c)
    BY <2>3 DEF Indices, Size
  <2>5. phase' \in [Planners -> {"starting", "prepared", "refused"}]
    BY <1>0, <1>3 DEF Classify
  <2>6. planned' \in Counts
    BY <1>0, <1>3, CountsKept DEF Classify
  <2>7. BTypeOK'
    BY <1>0, <1>3, <2>3, <2>4, <2>5, <2>6 DEF Classify
  <2>8. \A c \in Planners \ {b} : View(c)' = View(c)
    BY <1>0, <1>3, <2>3 DEF Classify, View, Counts
  <2> QED BY <2>7, <2>8 DEF Owns
<1>4. ASSUME Preparing(b)
      PROVE  /\ planned[b] + 1 \in 1 .. Len(calls[b])
             /\ calls[b][planned[b] + 1] \in PreparedCall
             /\ [calls[b][planned[b] + 1] EXCEPT !.kind = "rejected"] \in PreparedCall
  <2>1. planned[b] + 1 \in 1 .. Len(calls[b]) /\ calls[b] \in Seq(PreparedCall)
    BY <1>0, <1>4, LenProperties DEF Preparing, Size, Counts
  <2>2. calls[b][planned[b] + 1] \in PreparedCall
    BY <2>1, ElementOfSeq
  <2> QED BY <2>1, <2>2 DEF PreparedCall, Kinds
<1>5. CASE Preflight(b)
  BY <1>3, <1>4, <1>5 DEF Preflight
<1>6. CASE PlanAcquire(b) \/ PlanWake(b)
  BY <1>1, <1>6 DEF PlanAcquire, PlanWake
<1>7. CASE PlanReturns(b)
  <2>1. Preparing(b)
    BY <1>7 DEF PlanReturns, ReleasePermit, BInv, BatchInv, PlanInv
  <2> QED BY <1>2, <1>3, <1>4, <1>7, <2>1 DEF PlanReturns
<1>8. CASE StartCancelled(b)
  BY <1>2, <1>8 DEF StartCancelled
<1> QED BY <1>5, <1>6, <1>7, <1>8 DEF StartStep

\* The dispatcher's steps are the batch's own.
LEMMA DispatchOwns ==
  ASSUME BInv, NEW b \in Planners, DispatchStep(b)
  PROVE  Owns(b)
<1> USE DEF BTypeOK, Flags
<1>0. BTypeOK
  BY DEF BInv
<1>1. CASE Register(b)
  <2>0. next \in Nat
    BY TicketFacts DEF BInv
  <2>1. SlotsOK'
    BY <1>0, <1>1, SlotsKept DEF Register
  <2>2. chanClosed' \in Counts
    <3>1. chanClosed' = chanClosed \/ chanClosed' = [chanClosed EXCEPT ![b] = chanClosed[b] + 1]
      BY <1>1 DEF Register
    <3> QED BY <1>0, <3>1, CountsKept
  <2>3. base' \in Counts
    <3>1. base' = base \/ base' = [base EXCEPT ![b] = next]
      BY <1>1 DEF Register
    <3> QED BY <1>0, <2>0, <3>1, CountsKept
  <2>4. err' \in [Planners -> Errors]
    BY <1>0, <1>1 DEF Register, Errors
  <2>5. disp' \in [Planners -> {"none", "registering", "spawning", "done"}]
    BY <1>0, <1>1 DEF Register
  <2>6. BTypeOK'
    BY <1>0, <1>1, <2>1, <2>2, <2>3, <2>4, <2>5 DEF Register, SlotsOK
  <2>7. \A c \in Planners \ {b} : View(c)' = View(c)
    BY <1>0, <1>1 DEF Register, View, Counts
  <2> QED BY <2>6, <2>7 DEF Owns
<1>2. CASE Spawn(b)
  <2> DEFINE i == spawned[b] + 1
  <2>0. i \in Nat /\ i \in Indices(b)
    BY <1>0, <1>2, TicketFacts DEF Spawn, BInv, Indices, Counts
  <2>1. SlotsOK'
    BY <1>0, <1>2, <2>0, SlotsKept DEF Spawn, EmitRejected, SlotStates
  <2>2. spawned' \in Counts
    BY <1>0, <1>2, CountsKept DEF Spawn
  <2>3. log' \in [Planners -> Seq(Events)]
    <3>1. <<Event("started", i), Event("finished", i)>> \in Seq(Events)
      BY <2>0 DEF Event, Events
    <3>2. log[b] \o <<Event("started", i), Event("finished", i)>> \in Seq(Events)
      BY <1>0, <3>1, ConcatProperties
    <3> QED BY <1>0, <1>2, <3>2 DEF Spawn, EmitRejected
  <2>4. BTypeOK'
    BY <1>0, <1>2, <2>1, <2>2, <2>3 DEF Spawn, SlotsOK
  <2>5. \A c \in Planners \ {b} : View(c)' = View(c)
    BY <1>0, <1>2 DEF Spawn, EmitRejected, View, Counts
  <2> QED BY <2>4, <2>5 DEF Owns
<1>3. CASE DispatchEnds(b)
  <2>1. SlotsOK'
    BY <1>0, <1>3, SlotsKept DEF DispatchEnds
  <2>2. chanClosed' \in Counts
    BY <1>0, <1>3, CountsKept DEF DispatchEnds
  <2>3. disp' \in [Planners -> {"none", "registering", "spawning", "done"}]
    BY <1>0, <1>3 DEF DispatchEnds
  <2>4. err' \in [Planners -> Errors]
    <3>1. fatals[b] # {} => PickFatal(fatals[b]).index \in Nat
      <4>1. fatals[b] \subseteq Fatal
        BY <1>0
      <4> QED BY <4>1, FatalPicked DEF Fatal
    <3> DEFINE e == IF parentDone[b] THEN <<"context">>
                    ELSE IF fatals[b] # {} THEN <<"fatal", PickFatal(fatals[b]).index>> ELSE err[b]
    <3>2. e \in Errors
      BY <1>0, <3>1 DEF Errors
    <3>3. err' = [err EXCEPT ![b] = e]
      BY <1>3 DEF DispatchEnds
    <3> HIDE DEF e
    <3> QED BY <1>0, <3>2, <3>3
  <2>5. BTypeOK'
    BY <1>0, <1>3, <2>1, <2>2, <2>3, <2>4 DEF DispatchEnds, SlotsOK
  <2>6. \A c \in Planners \ {b} : View(c)' = View(c)
    BY <1>0, <1>3 DEF DispatchEnds, View, Counts
  <2> QED BY <2>5, <2>6 DEF Owns
<1> QED BY <1>1, <1>2, <1>3 DEF DispatchStep


--------------------------------------------------------------------------------
(***************************************************************************)
(* A step of runCall is one of three: it moves on inside the coordinator,  *)
(* it begins the callback, or it ends the call.                            *)
(***************************************************************************)
CtlSame ==
  UNCHANGED <<phase, planned, calls, started, closed, parentDone, disp, spawned, base, recv,
              chanClosed, drained, closeDone, err>>

\* The call moves to a later stage before its callback.
Moved(b, i, s) ==
  /\ CtlSame /\ UNCHANGED <<cancelled, slots, fatals, log>>
  /\ checked' = checked \/ checked' = [checked EXCEPT ![b] = checked[b] \cup {i}]
  /\ slots[b][i] = "pending"
  /\ s \in {"waiting", "leaving", "activating", "extending", "running"}
  /\ s = "leaving" => CtxDone(b)
  /\ stage' = [stage EXCEPT ![Ticket(b, i)] = s]

\* What the end x of call i writes to the log.
Logged(b, i, x) ==
  \/ /\ x = "skipped" /\ UNCHANGED log
     /\ CtxDone(b) /\ (slots[b][i] = "pending" \/ closed[b])
  \/ /\ x = "failed"
     /\ log' = [log EXCEPT ![b] = Append(log[b], Event("failed", i))]
  \/ /\ x = "finished" /\ slots[b][i] = "running"
     /\ log' = [log EXCEPT ![b] = Append(log[b], Event("finished", i))]
  \/ /\ x = "finished" /\ slots[b][i] = "pending"
     /\ log' = [log EXCEPT ![b] = log[b] \o <<Event("started", i), Event("finished", i)>>]

\* The call ends with slot x and leaves the fatal errors F.
Ended(b, i, x, F) ==
  /\ CtlSame /\ UNCHANGED checked
  /\ x \in Terminal /\ F \in SUBSET Fatal
  /\ slots[b][i] \in {"pending", "running"}
  /\ stage' = [stage EXCEPT ![Ticket(b, i)] = "done"]
  /\ slots' = [slots EXCEPT ![b][i] = x]
  /\ fatals' = [fatals EXCEPT ![b] = fatals[b] \cup F]
  /\ Logged(b, i, x)
  /\ \A f \in F : f.index = i
  /\ x = "failed" => F # {}
  /\ F # {} => x = "failed" \/ parentDone[b]
  /\ \/ UNCHANGED cancelled
     \/ cancelled' = [cancelled EXCEPT ![b] = TRUE] /\ F # {}

\* acquire, its wake-up and its cancellation move the caller from one stage to another.
LEMMA CallerMoves ==
  ASSUME Inv, NEW c \in Callers
  PROVE  /\ Acquire(c) => /\ stage[c] = "ready"
                          /\ \E s \in {"waiting", "activating", "running"} :
                               /\ c \in Planners => s # "activating"
                               /\ stage' = [stage EXCEPT ![c] = s]
         /\ Wake(c) => /\ stage[c] = "waiting"
                       /\ \E s \in {"activating", "running"} :
                            /\ c \in Planners => s # "activating"
                            /\ stage' = [stage EXCEPT ![c] = s]
         /\ CancelWait(c) => /\ stage[c] = "waiting"
                             /\ stage' = [stage EXCEPT ![c] =
                                            IF c \in Planners THEN "ready" ELSE "leaving"]
<1>1. Grant(c) => \E s \in {"activating", "running"} :
                    /\ c \in Planners => s # "activating"
                    /\ stage' = [stage EXCEPT ![c] = s]
  BY DEF Grant
<1>2. \A i \in 1 .. Len(waiters) : waiters[i] = c => stage[c] = "waiting"
  BY DEF Inv, QueueInv
<1> QED BY <1>1, <1>2 DEF Acquire, Wake, CancelWait

\* Every step of runCall is one of the three.
LEMMA CallStepForms ==
  ASSUME BInv, NEW b \in Planners, NEW i \in Indices(b), CallStep(b, i)
  PROVE  \/ \E s \in Stages : Moved(b, i, s)
         \/ BeginCallback(b, i)
         \/ \E x \in Terminal, F \in SUBSET Fatal : Ended(b, i, x, F)
<1> DEFINE k == Ticket(b, i)
<1>1. Live(b, i)
  BY DEF CallStep, SkipCall, AcquireCall, WakeCall, CancelWaiting, Activated, NotActivated,
         ExtendCall, ExtendCancelled, BeginCallback, CallbackReturns
<1>2. /\ k \in Tickets /\ k \in Callers /\ CallOK(b, i) /\ i \in Nat /\ i <= spawned[b]
      /\ k \notin Planners
  BY <1>1, LiveTicket, CallerProperties
<1>3. /\ stage[k] \in {"ready", "waiting", "leaving", "activating", "extending"} =>
           slots[b][i] = "pending"
      /\ stage[k] = "running" => slots[b][i] \in {"pending", "running"}
      /\ stage[k] = "leaving" => CtxDone(b)
  BY <1>2 DEF CallOK
<1>4. BTypeOK /\ Inv /\ fatals \in [Planners -> SUBSET Fatal]
  BY DEF BInv, BTypeOK
<1>5. [fatals EXCEPT ![b] = fatals[b] \cup {}] = fatals
  BY <1>4
<1>6. Release(k) => /\ stage' = [stage EXCEPT ![k] = "done"]
                    /\ stage[k] \in {"ready", "leaving", "activating", "extending", "running"}
  BY DEF Release, EndTicket
<1>7. \A x \in BOOLEAN : [index |-> i, ctx |-> x] \in Fatal
  BY <1>2 DEF Fatal
<1>8. ASSUME NEW x \in BOOLEAN, Fail(b, i, x)
      PROVE  Ended(b, i, "failed", {[index |-> i, ctx |-> x]})
  <2>1. Release(k) /\ UNCHANGED checked /\ CtlSame
    BY <1>8 DEF Fail, EndFailed, CtlSame
  <2>2. /\ slots' = [slots EXCEPT ![b][i] = "failed"]
        /\ fatals' = [fatals EXCEPT ![b] = fatals[b] \cup {[index |-> i, ctx |-> x]}]
        /\ cancelled' = [cancelled EXCEPT ![b] = TRUE]
    BY <1>8 DEF Fail, EndFailed
  <2>3. Logged(b, i, "failed")
    BY <1>8 DEF Fail, EndFailed, Logged
  <2> QED BY <1>3, <1>6, <1>7, <2>1, <2>2, <2>3 DEF Ended, Terminal
<1>9. ASSUME NEW ran \in BOOLEAN, Cancelled(b, i, ran), CtxDone(b),
             ran => closed[b], ran \/ slots[b][i] = "pending"
      PROVE  \E x \in Terminal, F \in SUBSET Fatal : Ended(b, i, x, F)
  <2> DEFINE x == IF ran /\ (parentDone[b] \/ ~ closed[b]) THEN "failed" ELSE "skipped"
             F == IF parentDone[b] THEN {[index |-> i, ctx |-> TRUE]} ELSE {}
  <2>1. Release(k) /\ UNCHANGED <<checked, cancelled>> /\ CtlSame
    BY <1>9 DEF Cancelled, ctlVars, CtlSame
  <2>2. x \in Terminal /\ F \in SUBSET Fatal
    BY <1>7 DEF Terminal
  <2>3. slots' = [slots EXCEPT ![b][i] = x]
    BY <1>9 DEF Cancelled
  <2>4. fatals' = [fatals EXCEPT ![b] = fatals[b] \cup F]
    BY <1>5, <1>9 DEF Cancelled
  <2>5. Logged(b, i, x)
    BY <1>9 DEF Cancelled, Logged
  <2>6. /\ x = "failed" => F # {}
        /\ F # {} => parentDone[b]
        /\ \A f \in F : f.index = i
    <3>1. CASE parentDone[b]
      <4>1. F = {[index |-> i, ctx |-> TRUE]}
        BY <3>1
      <4>2. [index |-> i, ctx |-> TRUE].index = i
        OBVIOUS
      <4> HIDE DEF F, x
      <4>3. F # {} /\ \A f \in F : f.index = i
        BY <4>1, <4>2, Zenon
      <4> QED BY <3>1, <4>3
    <3>2. CASE ~ parentDone[b]
      <4>1. F = {}
        BY <3>2
      <4>2. ~ (ran /\ ~ closed[b])
        BY <1>9
      <4> QED BY <3>2, <4>1, <4>2
    <3> QED BY <3>1, <3>2
  <2>7. Ended(b, i, x, F)
    BY <1>3, <1>6, <2>1, <2>2, <2>3, <2>4, <2>5, <2>6 DEF Ended
  <2> QED BY <2>2, <2>7
<1>10. Fail(b, i, TRUE) \/ Fail(b, i, FALSE) =>
         \E x \in Terminal, F \in SUBSET Fatal : Ended(b, i, x, F)
  BY <1>7, <1>8 DEF Terminal
<1>11. CASE SkipCall(b, i)
  <2>1. Ended(b, i, "skipped", {})
    <3>1. Release(k) /\ CtlSame /\ UNCHANGED <<checked, cancelled, log, fatals>>
      BY <1>11 DEF SkipCall, SkipSlot, ctlVars, CtlSame
    <3>2. slots' = [slots EXCEPT ![b][i] = "skipped"]
      BY <1>11 DEF SkipCall, SkipSlot
    <3>3. stage[k] \in {"ready", "leaving"} /\ CtxDone(b)
      BY <1>3, <1>11 DEF SkipCall
    <3> QED BY <1>3, <1>5, <1>6, <3>1, <3>2, <3>3 DEF Ended, Logged, Terminal
  <2> QED BY <2>1 DEF Terminal
<1>12. CASE NotActivated(b, i)
  <2>1. stage[k] = "activating" /\ slots[b][i] = "pending"
    BY <1>3, <1>12 DEF NotActivated
  <2>2. ASSUME EmitRejected(b, i), Release(k), UNCHANGED <<ctlVars, fatals>>
        PROVE  Ended(b, i, "finished", {})
    <3>1. CtlSame /\ UNCHANGED <<checked, cancelled, fatals>>
      BY <2>2 DEF ctlVars, CtlSame
    <3>2. slots' = [slots EXCEPT ![b][i] = "finished"] /\ Logged(b, i, "finished")
      BY <2>1, <2>2 DEF EmitRejected, Logged
    <3> QED BY <1>5, <1>6, <2>1, <2>2, <3>1, <3>2 DEF Ended, Terminal
  <2>3. CtxDone(b) /\ Cancelled(b, i, FALSE) =>
          \E x \in Terminal, F \in SUBSET Fatal : Ended(b, i, x, F)
    BY <1>9, <2>1
  <2> QED BY <1>10, <1>12, <2>2, <2>3 DEF NotActivated, Terminal
<1>13. CASE ExtendCancelled(b, i)
  <2>1. stage[k] = "extending" /\ slots[b][i] = "pending" /\ CtxDone(b)
    BY <1>3, <1>13 DEF ExtendCancelled
  <2>2. Cancelled(b, i, FALSE) => \E x \in Terminal, F \in SUBSET Fatal : Ended(b, i, x, F)
    BY <1>9, <2>1
  <2> QED BY <1>10, <1>13, <2>2 DEF ExtendCancelled
<1>14. CASE CallbackReturns(b, i)
  <2>1. stage[k] = "running" /\ slots[b][i] = "running"
    BY <1>14 DEF CallbackReturns
  <2>2. closed[b] => CtxDone(b)
    BY DEF BInv, BatchInv, ControlInv, CtxDone
  <2>3. ASSUME slots' = [slots EXCEPT ![b][i] = "finished"],
               log' = [log EXCEPT ![b] = Append(log[b], Event("finished", i))],
               Release(k), UNCHANGED <<ctlVars, fatals>>
        PROVE  Ended(b, i, "finished", {})
    <3>1. CtlSame /\ UNCHANGED <<checked, cancelled, fatals>>
      BY <2>3 DEF ctlVars, CtlSame
    <3>2. Logged(b, i, "finished")
      BY <2>1, <2>3 DEF Logged
    <3> QED BY <1>5, <1>6, <2>1, <2>3, <3>1, <3>2 DEF Ended, Terminal
  <2>4. closed[b] /\ Cancelled(b, i, TRUE) =>
          \E x \in Terminal, F \in SUBSET Fatal : Ended(b, i, x, F)
    BY <1>9, <2>2
  <2> QED BY <1>10, <1>14, <2>3, <2>4 DEF CallbackReturns, Terminal
<1>15. CASE AcquireCall(b, i) \/ WakeCall(b, i) \/ CancelWaiting(b, i)
  <2>1. CtlSame /\ UNCHANGED <<cancelled, slots, fatals, log, checked>>
    BY <1>15 DEF AcquireCall, WakeCall, CancelWaiting, batchVars, ctlVars, CtlSame
  <2>2. /\ stage[k] \in {"ready", "waiting"}
        /\ \E s \in {"waiting", "activating", "running", "leaving"} :
             /\ stage' = [stage EXCEPT ![k] = s]
             /\ s = "leaving" => CtxDone(b)
    BY <1>2, <1>4, <1>15, CallerMoves DEF AcquireCall, WakeCall, CancelWaiting
  <2>3. slots[b][i] = "pending"
    BY <1>3, <2>2
  <2> QED BY <2>1, <2>2, <2>3 DEF Moved, Stages
<1>16. CASE \E extra \in ActivationClaims : Activated(b, i, extra)
  <2>1. PICK extra \in ActivationClaims : Activated(b, i, extra)
    BY <1>16
  <2>2. CtlSame /\ UNCHANGED <<cancelled, slots, fatals, log>>
    BY <2>1 DEF Activated, CtlSame
  <2>3. checked' = checked \/ checked' = [checked EXCEPT ![b] = checked[b] \cup {i}]
    BY <2>1 DEF Activated
  <2>4. stage[k] = "activating" /\ stage' = [stage EXCEPT ![k] = "extending"]
    BY <2>1 DEF Activated, Discover
  <2>5. Moved(b, i, "extending")
    BY <1>3, <2>2, <2>3, <2>4 DEF Moved
  <2> QED BY <2>5 DEF Stages
<1>17. CASE ExtendCall(b, i)
  <2>1. CtlSame /\ UNCHANGED <<cancelled, slots, fatals, log, checked>>
    BY <1>17 DEF ExtendCall, batchVars, ctlVars, CtlSame
  <2>2. stage[k] = "extending" /\ stage' = [stage EXCEPT ![k] = "running"]
    BY <1>17 DEF ExtendCall, Extend
  <2>3. Moved(b, i, "running")
    BY <1>3, <2>1, <2>2 DEF Moved
  <2> QED BY <2>3 DEF Stages
<1> QED BY <1>11, <1>12, <1>13, <1>14, <1>15, <1>16, <1>17 DEF CallStep


\* The steps of a call are the batch's own.
LEMMA CallOwns ==
  ASSUME BInv, NEW b \in Planners, NEW i \in Indices(b), CallStep(b, i)
  PROVE  Owns(b)
<1> USE DEF BTypeOK, Flags
<1>0. BTypeOK /\ i \in Nat /\ log[b] \in Seq(Events)
  BY TicketFacts DEF BInv
<1>1. \A k \in {"started", "finished", "failed"} : Event(k, i) \in Events
  BY <1>0 DEF Event, Events
<1>2. \A k \in {"started", "finished", "failed"} : Append(log[b], Event(k, i)) \in Seq(Events)
  BY <1>0, <1>1, AppendProperties
<1>3. CASE \E s \in Stages : Moved(b, i, s)
  <2>1. checked' \in [Planners -> SUBSET Nat]
    <3>1. checked[b] \cup {i} \in SUBSET Nat
      BY <1>0
    <3>2. checked' = checked \/ checked' = [checked EXCEPT ![b] = checked[b] \cup {i}]
      BY <1>3 DEF Moved
    <3> HIDE DEF Flags
    <3> QED BY <1>0, <3>1, <3>2
  <2>2. SlotsOK'
    BY <1>0, <1>3, SlotsKept DEF Moved, CtlSame
  <2>3. BTypeOK'
    BY <1>0, <1>3, <2>1, <2>2 DEF Moved, CtlSame, SlotsOK
  <2>4. \A c \in Planners \ {b} : View(c)' = View(c)
    BY <1>0, <1>3 DEF Moved, CtlSame, View
  <2> QED BY <2>3, <2>4 DEF Owns
<1>4. CASE BeginCallback(b, i)
  <2>1. SlotsOK'
    BY <1>0, <1>4, SlotsKept DEF BeginCallback, ctlVars, SlotStates
  <2>2. log' \in [Planners -> Seq(Events)]
    BY <1>0, <1>2, <1>4 DEF BeginCallback
  <2>3. BTypeOK'
    BY <1>0, <1>4, <2>1, <2>2 DEF BeginCallback, ctlVars, SlotsOK
  <2>4. \A c \in Planners \ {b} : View(c)' = View(c)
    BY <1>0, <1>4 DEF BeginCallback, ctlVars, View
  <2> QED BY <2>3, <2>4 DEF Owns
<1>5. ASSUME NEW x \in Terminal, NEW F \in SUBSET Fatal, Ended(b, i, x, F)
      PROVE  Owns(b)
  <2>1. SlotsOK'
    BY <1>0, <1>5, SlotsKept DEF Ended, CtlSame, SlotStates, Terminal
  <2>2. log' \in [Planners -> Seq(Events)]
    <3>1. <<Event("started", i), Event("finished", i)>> \in Seq(Events)
      BY <1>1
    <3>2. log[b] \o <<Event("started", i), Event("finished", i)>> \in Seq(Events)
      BY <1>0, <3>1, ConcatProperties
    <3>3. Logged(b, i, x)
      BY <1>5 DEF Ended
    <3> QED BY <1>0, <1>2, <3>2, <3>3 DEF Logged
  <2>3. fatals' \in [Planners -> SUBSET Fatal]
    BY <1>0, <1>5 DEF Ended
  <2>4. cancelled' \in Flags
    BY <1>0, <1>5 DEF Ended
  <2>5. BTypeOK'
    BY <1>0, <1>5, <2>1, <2>2, <2>3, <2>4 DEF Ended, CtlSame, SlotsOK
  <2>6. \A c \in Planners \ {b} : View(c)' = View(c)
    BY <1>0, <1>5 DEF Ended, Logged, CtlSame, View
  <2> QED BY <2>5, <2>6 DEF Owns
<1> QED BY <1>3, <1>4, <1>5, CallStepForms

--------------------------------------------------------------------------------
\* The callers whose stage a step of batch b may change.
Touches(b) ==
  {b} \cup {t \in Tickets : t >= next}
      \cup {Ticket(b, i) : i \in {j \in Indices(b) : Registered(b)}}

StepOf(b) ==
  \/ StartStep(b) \/ NextFirst(b) \/ NextReceive(b) \/ DispatchStep(b)
  \/ \E i \in Indices(b) : CallStep(b, i)
  \/ CloseBatch(b) \/ CloseReturns(b) \/ ParentCancelled(b)

\* A step of batch b moves its own planner, its own tickets and new tickets only.
LEMMA StageTouched ==
  ASSUME BInv, NEW b \in Planners, StepOf(b)
  PROVE  \A d \in Callers \ Touches(b) : stage'[d] = stage[d]
<1>0. Inv /\ b \in Callers /\ b \in Touches(b) /\ stage \in [Callers -> Stages]
  BY DEF BInv, Inv, TypeOK, Callers, Touches
<1>1. ASSUME UNCHANGED vars PROVE \A d \in Callers : stage'[d] = stage[d]
  BY <1>1 DEF vars
<1>2. ASSUME NEW c \in Touches(b), NEW s, stage' = [stage EXCEPT ![c] = s]
      PROVE  \A d \in Callers \ Touches(b) : stage'[d] = stage[d]
  BY <1>0, <1>2
<1>3. CASE StartStep(b)
  <2>1. CASE Preflight(b)
    BY <1>1, <2>1 DEF Preflight
  <2>2. CASE PlanAcquire(b) \/ PlanWake(b)
    BY <1>0, <1>2, <2>2, CallerMoves DEF PlanAcquire, PlanWake
  <2>3. CASE PlanReturns(b)
    BY <1>0, <1>2, <2>3 DEF PlanReturns, ReleasePermit
  <2>4. CASE StartCancelled(b)
    BY <1>0, <1>1, <1>2, <2>4, CallerMoves DEF StartCancelled
  <2> QED BY <1>3, <2>1, <2>2, <2>3, <2>4 DEF StartStep
<1>4. CASE DispatchStep(b)
  <2>1. CASE Register(b)
    <3>1. CASE RegisterBatch(calls[b])
      <4>1. \A d \in Callers : d \notin Tickets \/ ~ (d \in next .. next + Len(calls[b]) - 1) =>
              stage'[d] = stage[d]
        BY <3>1 DEF RegisterBatch
      <4>2. \A d \in Tickets : d \in next .. next + Len(calls[b]) - 1 => d >= next
        OBVIOUS
      <4> QED BY <4>1, <4>2 DEF Touches
    <3>2. CASE UNCHANGED vars
      BY <1>1, <3>2
    <3> QED BY <2>1, <3>1, <3>2 DEF Register, vars
  <2>2. CASE Spawn(b) \/ DispatchEnds(b)
    BY <1>1, <2>2 DEF Spawn, DispatchEnds
  <2> QED BY <1>4, <2>1, <2>2 DEF DispatchStep
<1>5. ASSUME NEW i \in Indices(b), CallStep(b, i)
      PROVE  \A d \in Callers \ Touches(b) : stage'[d] = stage[d]
  <2>1. Live(b, i)
    BY <1>5 DEF CallStep, SkipCall, AcquireCall, WakeCall, CancelWaiting, Activated, NotActivated,
         ExtendCall, ExtendCancelled, BeginCallback, CallbackReturns
  <2>2. Ticket(b, i) \in Touches(b)
    BY <2>1, LiveTicket DEF Touches
  <2>3. CASE BeginCallback(b, i)
    BY <1>1, <2>3 DEF BeginCallback
  <2>4. CASE \E s \in Stages : Moved(b, i, s)
    BY <1>2, <2>2, <2>4 DEF Moved
  <2>5. CASE \E x \in Terminal, F \in SUBSET Fatal : Ended(b, i, x, F)
    BY <1>2, <2>2, <2>5 DEF Ended
  <2> QED BY <1>5, <2>3, <2>4, <2>5, CallStepForms
<1>6. CASE NextFirst(b) \/ NextReceive(b) \/ CloseBatch(b) \/ CloseReturns(b) \/ ParentCancelled(b)
  BY <1>1, <1>6 DEF NextFirst, NextReceive, CloseBatch, CloseReturns, ParentCancelled
<1> QED BY <1>3, <1>4, <1>5, <1>6 DEF StepOf

\* A batch whose variables and stages stay keeps its invariant.
LEMMA ViewKeeps ==
  ASSUME BInv, NEW c \in Planners, View(c)' = View(c), stage'[c] = stage[c],
         Registered(c) => \A i \in Indices(c) : stage'[Ticket(c, i)] = stage[Ticket(c, i)]
  PROVE  BatchInv(c)'
<1>0. BatchInv(c)
  BY DEF BInv
<1>1. /\ phase'[c] = phase[c] /\ planned'[c] = planned[c] /\ calls'[c] = calls[c]
      /\ started'[c] = started[c] /\ closed'[c] = closed[c] /\ cancelled'[c] = cancelled[c]
      /\ parentDone'[c] = parentDone[c] /\ disp'[c] = disp[c] /\ spawned'[c] = spawned[c]
      /\ base'[c] = base[c] /\ slots'[c] = slots[c] /\ fatals'[c] = fatals[c] /\ err'[c] = err[c]
      /\ log'[c] = log[c] /\ chanClosed'[c] = chanClosed[c] /\ drained'[c] = drained[c]
      /\ closeDone'[c] = closeDone[c]
  BY DEF View
<1>2. /\ Size(c)' = Size(c) /\ Indices(c)' = Indices(c) /\ Registered(c)' = Registered(c)
      /\ CtxDone(c)' = CtxDone(c) /\ \A i : Ticket(c, i)' = Ticket(c, i)
  BY <1>1 DEF Size, Indices, Registered, CtxDone, Ticket
<1>3. ControlInv(c)'
  BY <1>0, <1>1, <1>2 DEF BatchInv, ControlInv
<1>4. PlanInv(c)'
  BY <1>0, <1>1, <1>2 DEF BatchInv, PlanInv, Preparing, HasPlanner
<1>5. CallsInv(c)'
  BY <1>0, <1>1, <1>2 DEF BatchInv, CallsInv, CallOK
<1>6. LogInv(c)'
  BY <1>0, <1>1, <1>2 DEF BatchInv, LogInv, EventsOK
<1>7. CauseInv(c)'
  BY <1>0, <1>1, <1>2 DEF BatchInv, CauseInv
<1>8. AccountInv(c)'
  BY <1>0, <1>1, <1>2, AccountKept
<1> QED BY <1>3, <1>4, <1>5, <1>6, <1>7, <1>8 DEF BatchInv


--------------------------------------------------------------------------------
\* Only Start changes the calls of a batch, one at a time, and only to reject it.
LEMMA CallsKept ==
  ASSUME BInv, NEW b \in Planners, StepOf(b)
  PROVE  /\ Size(b)' = Size(b) /\ ShapesInv'
         /\ ~ StartStep(b) => UNCHANGED calls
<1>0. calls \in [Planners -> Seq(PreparedCall)] /\ planned[b] \in Nat
  BY DEF BInv, BTypeOK, Counts
<1>1. ASSUME UNCHANGED calls PROVE Size(b)' = Size(b) /\ ShapesInv'
  BY <1>1 DEF BInv, ShapesInv, Size
<1>2. ASSUME NEW call, Preparing(b), Classify(b, call),
             \/ call = calls[b][planned[b] + 1]
             \/ call = [calls[b][planned[b] + 1] EXCEPT !.kind = "rejected"]
      PROVE Size(b)' = Size(b) /\ ShapesInv'
  <2> DEFINE m == planned[b] + 1
             s == calls[b]
             s2 == [s EXCEPT ![m] = call]
  <2>1. s \in Seq(PreparedCall) /\ m \in 1 .. Len(s) /\ DOMAIN s = 1 .. Len(s)
    BY <1>0, <1>2, LenProperties DEF Preparing, Size
  <2>2. s[m] \in PreparedCall /\ call \in PreparedCall
    <3>1. s[m] \in PreparedCall
      BY <2>1, ElementOfSeq
    <3> QED BY <1>2, <3>1 DEF PreparedCall, Kinds
  <2>3. s2 \in Seq(PreparedCall) /\ Len(s2) = Len(s)
    BY <2>1, <2>2, ExceptSeq
  <2>4. calls' = [calls EXCEPT ![b] = s2]
    BY <1>2 DEF Classify
  <2>5. PICK w \in Requested : \A c \in Planners : calls[c] \in Outcomes(w[c])
    BY DEF BInv, ShapesInv
  <2>6. PICK R \in SUBSET (1 .. Len(w[b])) :
          s = [i \in 1 .. Len(w[b]) |->
                 IF i \in R THEN [w[b][i] EXCEPT !.kind = "rejected"] ELSE w[b][i]]
    BY <2>5 DEF Outcomes
  <2>7. w[b] \in Seq(PreparedCall) /\ Len(w[b]) \in Nat /\ Len(s) \in Nat
    BY <2>1, <2>5, RequestedAssumption, LenProperties
  <2>8. DOMAIN s = 1 .. Len(w[b]) /\ m \in 1 .. Len(w[b])
    BY <2>1, <2>6
  <2>9. \E R2 \in SUBSET (1 .. Len(w[b])) :
          s2 = [i \in 1 .. Len(w[b]) |->
                  IF i \in R2 THEN [w[b][i] EXCEPT !.kind = "rejected"] ELSE w[b][i]]
    <3>1. CASE call = s[m]
      <4>1. s2 = s
        BY <2>1, <3>1
      <4> QED BY <2>6, <4>1
    <3>2. CASE call = [s[m] EXCEPT !.kind = "rejected"]
      <4>1. w[b][m] \in PreparedCall
        BY <2>7, <2>8, ElementOfSeq
      <4>2. s[m] = w[b][m] \/ s[m] = [w[b][m] EXCEPT !.kind = "rejected"]
        BY <2>6, <2>8
      <4>3. call = [w[b][m] EXCEPT !.kind = "rejected"]
        BY <3>2, <4>1, <4>2 DEF PreparedCall
      <4>4. \A i \in 1 .. Len(w[b]) : s2[i] =
              IF i \in R \cup {m} THEN [w[b][i] EXCEPT !.kind = "rejected"] ELSE w[b][i]
        BY <2>6, <2>8, <4>3
      <4>5. s2 = [i \in 1 .. Len(w[b]) |->
                    IF i \in R \cup {m} THEN [w[b][i] EXCEPT !.kind = "rejected"] ELSE w[b][i]]
        BY <2>8, <4>4
      <4> QED BY <2>8, <4>5
    <3> QED BY <1>2, <3>1, <3>2
  <2>10. s2 \in Outcomes(w[b])
    BY <2>9 DEF Outcomes
  <2> HIDE DEF s2
  <2>11. \A c \in Planners : calls'[c] \in Outcomes(w[c])
    BY <1>0, <2>4, <2>5, <2>10
  <2>12. Size(b)' = Size(b)
    BY <1>0, <2>3, <2>4 DEF Size
  <2> QED BY <2>11, <2>12 DEF ShapesInv
<1>3. CASE StartStep(b)
  <2>1. CASE Preflight(b)
    BY <1>2, <1>3, <2>1 DEF Preflight
  <2>2. CASE PlanAcquire(b) \/ PlanWake(b)
    BY <1>1, <1>3, <2>2 DEF PlanAcquire, PlanWake, batchVars, ctlVars
  <2>3. CASE PlanReturns(b)
    <3>1. Preparing(b)
      BY <2>3 DEF PlanReturns, ReleasePermit, BInv, BatchInv, PlanInv
    <3>2. Refuse(b) => UNCHANGED calls
      BY DEF Refuse
    <3> QED BY <1>1, <1>2, <1>3, <2>3, <3>1, <3>2 DEF PlanReturns
  <2>4. CASE StartCancelled(b)
    BY <1>1, <1>3, <2>4 DEF StartCancelled, Refuse
  <2> QED BY <1>3, <2>1, <2>2, <2>3, <2>4 DEF StartStep
<1>4. ASSUME ~ StartStep(b) PROVE UNCHANGED calls
  <2>1. CASE DispatchStep(b)
    BY <2>1 DEF DispatchStep, Register, Spawn, DispatchEnds
  <2>2. ASSUME NEW i \in Indices(b), CallStep(b, i) PROVE UNCHANGED calls
    BY <2>2, CallStepForms DEF Moved, BeginCallback, Ended, CtlSame, ctlVars
  <2>3. CASE NextFirst(b) \/ NextReceive(b) \/ CloseBatch(b) \/ CloseReturns(b)
             \/ ParentCancelled(b)
    BY <2>3 DEF NextFirst, NextReceive, CloseBatch, CloseReturns, ParentCancelled
  <2> QED BY <1>4, <2>1, <2>2, <2>3 DEF StepOf
<1> QED BY <1>1, <1>3, <1>4

\* Only a registration takes tickets, and only a registration gives a batch tickets.
LEMMA NextKept ==
  ASSUME BInv, NEW b \in Planners, StepOf(b), ~ (Register(b) /\ RegisterBatch(calls[b]))
  PROVE  /\ next' = next /\ base' = base
         /\ Registered(b)' => Registered(b)
<1> USE DEF claimVars
<1>0. BTypeOK
  BY DEF BInv
<1>1. \A c : Acquire(c) \/ Wake(c) \/ CancelWait(c) \/ ReleasePermit(c) => next' = next
  BY DEF Acquire, Wake, CancelWait, ReleasePermit
<1>2. ASSUME UNCHANGED vars PROVE next' = next
  BY <1>2 DEF vars
<1>3. ASSUME disp' = disp, err' = err PROVE Registered(b)' => Registered(b)
  BY <1>3 DEF Registered
<1>4. CASE StartStep(b)
  <2>1. CASE Preflight(b)
    BY <1>2, <1>3, <2>1 DEF Preflight, Classify
  <2>2. CASE PlanAcquire(b) \/ PlanWake(b)
    BY <1>1, <1>3, <2>2 DEF PlanAcquire, PlanWake, batchVars, ctlVars
  <2>3. CASE PlanReturns(b)
    BY <1>1, <1>3, <2>3 DEF PlanReturns, Refuse, Classify
  <2>4. CASE StartCancelled(b)
    BY <1>1, <1>2, <1>3, <2>4 DEF StartCancelled, Refuse
  <2> QED BY <1>4, <2>1, <2>2, <2>3, <2>4 DEF StartStep
<1>5. CASE Register(b)
  <2>1. /\ err' = [err EXCEPT ![b] = <<"register">>] /\ base' = base /\ UNCHANGED vars
        /\ disp' = [disp EXCEPT ![b] = "done"]
    BY <1>5 DEF Register
  <2>2. err'[b] = <<"register">> /\ disp'[b] = "done"
    BY <1>0, <2>1 DEF BTypeOK
  <2> QED BY <1>2, <2>1, <2>2 DEF Registered
<1>6. CASE Spawn(b)
  BY <1>2, <1>3, <1>6 DEF Spawn
<1>7. CASE DispatchEnds(b)
  <2>1. Registered(b)
    BY <1>7 DEF DispatchEnds, Registered
  <2> QED BY <1>2, <1>7, <2>1 DEF DispatchEnds
<1>8. ASSUME NEW i \in Indices(b), CallStep(b, i)
      PROVE  next' = next /\ base' = base /\ (Registered(b)' => Registered(b))
  <2>1. base' = base /\ disp' = disp /\ err' = err
    BY <1>8, CallStepForms DEF Moved, BeginCallback, Ended, CtlSame, ctlVars
  <2>2. \A t : Release(t) => next' = next
    BY DEF Release, EndTicket
  <2>3. \A x : Fail(b, i, x) \/ Cancelled(b, i, x) => next' = next
    BY <2>2 DEF Fail, EndFailed, Cancelled
  <2>4. next' = next
    <3>1. CASE SkipCall(b, i) \/ NotActivated(b, i) \/ ExtendCancelled(b, i) \/ CallbackReturns(b, i)
      BY <2>2, <2>3, <3>1 DEF SkipCall, NotActivated, ExtendCancelled, CallbackReturns
    <3>2. CASE AcquireCall(b, i) \/ WakeCall(b, i) \/ CancelWaiting(b, i)
      BY <1>1, <3>2 DEF AcquireCall, WakeCall, CancelWaiting
    <3>3. CASE \E extra \in ActivationClaims : Activated(b, i, extra)
      BY <3>3 DEF Activated, Discover
    <3>4. CASE ExtendCall(b, i)
      BY <3>4 DEF ExtendCall, Extend
    <3>5. CASE BeginCallback(b, i)
      BY <1>2, <3>5 DEF BeginCallback
    <3> QED BY <1>8, <3>1, <3>2, <3>3, <3>4, <3>5 DEF CallStep
  <2> QED BY <1>3, <2>1, <2>4
<1>9. CASE NextFirst(b)
  <2>1. disp'[b] \in {"none", "registering"}
    <3>1. disp[b] = "none"
      BY <1>9, <1>0 DEF BInv, BatchInv, ControlInv, NextFirst
    <3>2. disp' = disp \/ disp' = [disp EXCEPT ![b] = "registering"]
      BY <1>9 DEF NextFirst
    <3> QED BY <1>0, <3>1, <3>2 DEF BTypeOK
  <2> QED BY <1>2, <1>9, <2>1 DEF NextFirst, Registered
<1>10. CASE NextReceive(b) \/ CloseBatch(b) \/ CloseReturns(b) \/ ParentCancelled(b)
  BY <1>2, <1>3, <1>10 DEF NextReceive, CloseBatch, CloseReturns, ParentCancelled
<1> QED BY <1>4, <1>5, <1>6, <1>7, <1>8, <1>9, <1>10 DEF StepOf, DispatchStep


\* Every step of a batch is its own.
LEMMA StepOwns == ASSUME BInv, NEW b \in Planners, StepOf(b) PROVE Owns(b)
  BY CallerOwns, StartOwns, DispatchOwns, CallOwns DEF StepOf

\* A step of one batch does not disturb another.
LEMMA OthersKeep ==
  ASSUME BInv, NEW b \in Planners, StepOf(b), NEW c \in Planners, c # b
  PROVE  BatchInv(c)'
<1>1. View(c)' = View(c)
  BY StepOwns DEF Owns
<1>2. c \in Callers \ Touches(b)
  <2>1. c \notin Tickets
    BY CallerProperties
  <2>2. Registered(b) => \A i \in Indices(b) : Ticket(b, i) \in Tickets
    BY TicketFacts DEF BInv
  <2> QED BY <2>1, <2>2 DEF Touches, Callers
<1>3. ASSUME Registered(c), NEW i \in Indices(c) PROVE Ticket(c, i) \in Callers \ Touches(b)
  <2>1. Ticket(c, i) \in Tickets /\ Ticket(c, i) < next /\ next \in Nat
    BY <1>3, TicketFacts DEF BInv
  <2>2. Ticket(c, i) \in Nat /\ Ticket(c, i) # b
    BY <2>1, CallerProperties
  <2>3. Registered(b) => \A j \in Indices(b) : Ticket(b, j) # Ticket(c, i)
    BY <1>3, TicketsDiffer DEF BInv
  <2>4. ~ (Ticket(c, i) >= next)
    BY <2>1, <2>2
  <2> QED BY <2>1, <2>2, <2>3, <2>4 DEF Touches, Callers
<1> QED BY <1>1, <1>2, <1>3, StageTouched, ViewKeeps

\* Tickets are handed out in order, and a batch is registered once.
LEMMA TicketsKept ==
  ASSUME BInv, NEW b \in Planners, StepOf(b)
  PROVE  TicketsInv'
<1>0. /\ next \in Nat /\ next' \in Nat
      /\ \A c \in Planners : Size(c) \in Nat /\ base[c] \in Nat
  <2>1. Inv'
    BY StepRefines, InvStep DEF BInv, BNext, StepOf
  <2> QED BY <2>1, TicketFacts, ConstantsAssumption DEF BInv, Inv, TypeOK
<1>1. \A c \in Planners \ {b} : /\ base'[c] = base[c] /\ Size(c)' = Size(c)
                                /\ Registered(c)' = Registered(c)
  BY StepOwns DEF Owns, View, Size, Registered
<1>2. CASE Register(b) /\ RegisterBatch(calls[b])
  <2>1. next' = next + Size(b)
    BY <1>2 DEF RegisterBatch, Size
  <2>2. Size(b)' = Size(b) /\ (Registered(b)' => base'[b] = next)
    <3>1. calls' = calls /\ err' \in [Planners -> Errors] /\ base' \in [Planners -> Nat]
      BY <1>2, StepOwns DEF Register, Owns, BTypeOK, Counts
    <3>2. base' = [base EXCEPT ![b] = next] \/ err' = [err EXCEPT ![b] = <<"register">>]
      BY <1>2 DEF Register
    <3>3. next <= MaxTicket - Size(b)
      BY <1>2 DEF RegisterBatch, Size
    <3>4. base' = [base EXCEPT ![b] = next]
      BY <1>0, <1>2, <3>3, ConstantsAssumption DEF Register
    <3>5. base \in [Planners -> Nat]
      BY DEF BInv, BTypeOK, Counts
    <3> QED BY <3>1, <3>4, <3>5 DEF Size
  <2> QED BY <1>0, <1>1, <2>1, <2>2 DEF BInv, TicketsInv
<1>3. CASE ~ (Register(b) /\ RegisterBatch(calls[b]))
  <2>1. next' = next /\ base' = base /\ (Registered(b)' => Registered(b))
    BY <1>3, NextKept
  <2>2. Size(b)' = Size(b)
    BY CallsKept
  <2> QED BY <1>0, <1>1, <2>1, <2>2 DEF BInv, TicketsInv
<1> QED BY <1>2, <1>3


--------------------------------------------------------------------------------
\* One more event, not sent before and in its turn, keeps a log in order.
LEMMA LogAppend ==
  ASSUME NEW n \in Nat, NEW l \in Seq(Events), LogOK(l, n), NEW i \in 1 .. n,
         NEW k \in {"started", "finished", "failed"}, ~ Has(l, i, k),
         k = "finished" => Has(l, i, "started") /\ ~ Has(l, i, "failed"),
         k = "failed" => ~ Has(l, i, "finished")
  PROVE  /\ Append(l, Event(k, i)) \in Seq(Events)
         /\ LogOK(Append(l, Event(k, i)), n)
         /\ \A j, q : Has(Append(l, Event(k, i)), j, q) <=> Has(l, j, q) \/ (j = i /\ q = k)
<1> DEFINE e == Event(k, i)
           m == Append(l, e)
           L == Len(l)
<1>1. L \in Nat /\ e \in Events /\ e.index = i /\ e.kind = k
  BY LenProperties DEF Event, Events
<1>2. /\ m \in Seq(Events) /\ Len(m) = L + 1 /\ m[L + 1] = e
      /\ \A j \in 1 .. L : m[j] = l[j]
  BY <1>1, AppendProperties
<1> HIDE DEF m
<1>3. 1 .. L + 1 = (1 .. L) \cup {L + 1}
  BY <1>1
<1>4. \A j, q : Event(q, j) = e <=> j = i /\ q = k
  BY DEF Event
<1>5. \A j, q : Has(m, j, q) <=> Has(l, j, q) \/ (j = i /\ q = k)
  <2> SUFFICES ASSUME NEW j, NEW q PROVE Has(m, j, q) <=> Has(l, j, q) \/ (j = i /\ q = k)
    OBVIOUS
  <2>1. Has(m, j, q) <=> \E p \in 1 .. L + 1 : m[p] = Event(q, j)
    BY <1>2 DEF Has
  <2>2. Has(l, j, q) <=> \E p \in 1 .. L : m[p] = Event(q, j)
    BY <1>2 DEF Has
  <2>3. m[L + 1] = Event(q, j) <=> j = i /\ q = k
    BY <1>2, <1>4
  <2> QED BY <1>3, <2>1, <2>2, <2>3
<1>6. \A p \in 1 .. L : l[p] # e
  BY DEF Has
<1>7. LogOK(m, n)
  <2>1. \A p \in 1 .. Len(m) : m[p].index \in 1 .. n
    BY <1>1, <1>2, <1>3 DEF LogOK
  <2>2. \A p, r \in 1 .. Len(m) : m[p] = m[r] => p = r
    BY <1>1, <1>2, <1>3, <1>6 DEF LogOK
  <2>3. ASSUME NEW p \in 1 .. Len(m), m[p].kind = "finished"
        PROVE  \E r \in 1 .. p - 1 : m[r] = Event("started", m[p].index)
    <3>1. CASE p \in 1 .. L
      <4>1. PICK r \in 1 .. p - 1 : l[r] = Event("started", l[p].index)
        BY <1>2, <2>3, <3>1 DEF LogOK
      <4>2. r \in 1 .. L
        BY <1>1, <3>1, <4>1
      <4> QED BY <1>2, <3>1, <4>1, <4>2
    <3>2. CASE p = L + 1
      <4>1. PICK r \in 1 .. L : l[r] = Event("started", i)
        BY <1>1, <1>2, <2>3, <3>2 DEF Has
      <4>2. r \in 1 .. p - 1
        BY <1>1, <3>2, <4>1
      <4> QED BY <1>1, <1>2, <3>2, <4>1, <4>2
    <3> QED BY <1>2, <1>3, <3>1, <3>2
  <2>4. \A j \in 1 .. n : ~ (Has(m, j, "finished") /\ Has(m, j, "failed"))
    BY <1>5 DEF LogOK
  <2> QED BY <2>1, <2>2, <2>3, <2>4 DEF LogOK
<1> QED BY <1>2, <1>5, <1>7 DEF m

\* The two events of a call that is answered without running keep a log in order.
LEMMA LogRejected ==
  ASSUME NEW n \in Nat, NEW l \in Seq(Events), LogOK(l, n), NEW i \in 1 .. n,
         ~ Has(l, i, "started"), ~ Has(l, i, "finished"), ~ Has(l, i, "failed")
  PROVE  LET m == l \o <<Event("started", i), Event("finished", i)>>
         IN  /\ LogOK(m, n)
             /\ \A j, q : Has(m, j, q) <=>
                  Has(l, j, q) \/ (j = i /\ q \in {"started", "finished"})
<1> DEFINE s == Event("started", i)
           f == Event("finished", i)
           a == Append(l, s)
           c == Append(a, f)
<1>1. s \in Events /\ f \in Events /\ Len(l) \in Nat
  BY LenProperties DEF Event, Events
<1>2. /\ a \in Seq(Events) /\ LogOK(a, n)
      /\ \A j, q : Has(a, j, q) <=> Has(l, j, q) \/ (j = i /\ q = "started")
  BY LogAppend
<1> HIDE DEF a
<1>3. /\ c \in Seq(Events) /\ LogOK(c, n)
      /\ \A j, q : Has(c, j, q) <=> Has(a, j, q) \/ (j = i /\ q = "finished")
  BY <1>2, LogAppend
<1>4. c = l \o <<s, f>>
  <2>1. <<s, f>> \in Seq(Events) /\ Len(<<s, f>>) = 2
    BY <1>1
  <2>2. /\ l \o <<s, f>> \in Seq(Events) /\ Len(l \o <<s, f>>) = Len(l) + 2
        /\ \A j \in 1 .. Len(l) + 2 : (l \o <<s, f>>)[j] =
             IF j <= Len(l) THEN l[j] ELSE <<s, f>>[j - Len(l)]
    BY <2>1, ConcatProperties
  <2>3. /\ Len(a) = Len(l) + 1 /\ a[Len(l) + 1] = s
        /\ \A j \in 1 .. Len(l) : a[j] = l[j]
    BY <1>1, AppendProperties DEF a
  <2>4. /\ Len(c) = Len(l) + 2 /\ c[Len(l) + 2] = f
        /\ \A j \in 1 .. Len(l) + 1 : c[j] = a[j]
    BY <1>1, <1>2, <2>3, AppendProperties
  <2>5. \A j \in 1 .. Len(c) : c[j] = (l \o <<s, f>>)[j]
    BY <1>1, <2>2, <2>3, <2>4
  <2> QED BY <1>3, <2>2, <2>4, <2>5, SeqEqual
<1> QED BY <1>2, <1>3, <1>4

\* No call has more than two events: started, and finished or failed.
LEMMA LogBounded ==
  ASSUME NEW n \in Nat, NEW l \in Seq(Events), LogOK(l, n)
  PROVE  Len(l) <= 2 * n
<1> DEFINE S == 1 .. Len(l)
           T == (1 .. n) \X (1 .. 2)
           f == [j \in S |-> <<l[j].index, IF l[j].kind = "started" THEN 1 ELSE 2>>]
<1>1. Len(l) \in Nat /\ \A j \in S : l[j] \in Events
  BY LenProperties, ElementOfSeq
<1>2. f \in [S -> T]
  BY DEF LogOK
<1>3. \A j, k \in S : f[j] = f[k] => j = k
  <2> SUFFICES ASSUME NEW j \in S, NEW k \in S, f[j] = f[k] PROVE j = k
    OBVIOUS
  <2>1. /\ l[j].index = l[k].index /\ l[j].index \in 1 .. n
        /\ l[j].kind = "started" <=> l[k].kind = "started"
    BY DEF LogOK
  <2>2. /\ l[j] = Event(l[j].kind, l[j].index) /\ l[k] = Event(l[k].kind, l[k].index)
        /\ l[j].kind \in {"started", "finished", "failed"}
        /\ l[k].kind \in {"started", "finished", "failed"}
    BY <1>1 DEF Events, Event
  <2>3. l[j].kind = l[k].kind
    <3>1. Has(l, l[j].index, l[j].kind) /\ Has(l, l[j].index, l[k].kind)
      BY <2>1, <2>2 DEF Has
    <3>2. ~ (Has(l, l[j].index, "finished") /\ Has(l, l[j].index, "failed"))
      BY <2>1 DEF LogOK
    <3> QED BY <2>1, <2>2, <3>1, <3>2
  <2> QED BY <2>1, <2>2, <2>3 DEF LogOK
<1> HIDE DEF f
<1>4. /\ IsFiniteSet(1 .. n) /\ Cardinality(1 .. n) = n
      /\ IsFiniteSet(1 .. 2) /\ Cardinality(1 .. 2) = 2
      /\ Cardinality(1 .. Len(l)) = Len(l)
  <2>1. \A a \in Nat : IsFiniteSet(1 .. a) /\ Cardinality(1 .. a) = a
    <3> TAKE a \in Nat
    <3>1. /\ IsFiniteSet(1 .. a)
          /\ Cardinality(1 .. a) = IF 1 > a THEN 0 ELSE a - 1 + 1
      BY FS_Interval
    <3> QED BY <3>1
  <2> QED BY <1>1, <2>1
<1>5. IsFiniteSet(T) /\ Cardinality(T) = Cardinality(1 .. n) * Cardinality(1 .. 2)
  <2> DEFINE A == 1 .. n
             B == 1 .. 2
  <2>1. IsFiniteSet(A) /\ IsFiniteSet(B)
    BY <1>4
  <2> HIDE DEF A, B
  <2>2. IsFiniteSet(A \X B) /\ Cardinality(A \X B) = Cardinality(A) * Cardinality(B)
    BY <2>1, FS_Product
  <2> QED BY <2>2 DEF A, B
<1>6. Cardinality(S) <= Cardinality(T)
  <2> HIDE DEF S, T
  <2>1. f \in Injection(S, T)
    BY <1>2, <1>3 DEF Injection, IsInjective
  <2> QED BY <1>5, <2>1, FS_Injection
<1> QED BY <1>1, <1>4, <1>5, <1>6


--------------------------------------------------------------------------------
(***************************************************************************)
(* A batch's own steps keep its invariant.                                 *)
(***************************************************************************)

\* Start's steps touch neither the slots nor the events: nothing has begun.
LEMMA StartKeeps ==
  ASSUME BInv, NEW b \in Planners, StartStep(b)
  PROVE  BatchInv(b)'
<1>0. BTypeOK /\ BatchInv(b) /\ Inv
  BY DEF BInv
<1>1. Size(b)' = Size(b) /\ Indices(b)' = Indices(b) /\ Size(b) \in Nat
  BY CallsKept, TicketFacts DEF StepOf, Indices, BInv
<1>2. Preparing(b)
  <2>1. Wake(b) => stage[b] = "waiting"
    BY <1>0, CallerMoves DEF Callers
  <2> QED BY <1>0, <2>1 DEF StartStep, Preflight, PlanAcquire, PlanWake, PlanReturns, StartCancelled,
                            ReleasePermit, BatchInv, PlanInv
<1>3. /\ ~ started[b] /\ ~ closed[b] /\ ~ closeDone[b] /\ disp[b] = "none" /\ ~ Registered(b)
      /\ chanClosed[b] = 0 /\ ~ drained[b] /\ calls[b] # <<>> /\ planned[b] < Size(b)
  BY <1>0, <1>2 DEF BTypeOK, Flags, BatchInv, ControlInv, Registered, Preparing
<1>4. UNCHANGED <<checked, started, closed, cancelled, parentDone, disp, spawned, base, recv,
                  chanClosed, drained, closeDone, err, slots, fatals, log>>
  BY DEF StartStep, Preflight, PlanAcquire, PlanWake, PlanReturns, StartCancelled, Classify, Refuse,
         batchVars, ctlVars
<1>5. /\ planned'[b] \in Nat /\ planned'[b] <= Size(b)
      /\ phase'[b] = "starting" => planned'[b] < Size(b)
  <2>1. ASSUME NEW call, Classify(b, call)
        PROVE  planned'[b] = planned[b] + 1 /\ (planned[b] + 1 = Size(b) => phase'[b] = "prepared")
    BY <1>0, <2>1 DEF BTypeOK, Counts, Classify
  <2>2. Refuse(b) => planned' = planned /\ phase'[b] = "refused"
    BY <1>0 DEF BTypeOK, Refuse
  <2>3. UNCHANGED batchVars => planned' = planned
    BY DEF batchVars, ctlVars
  <2>4. \/ \E call : Classify(b, call)
        \/ Refuse(b) \/ UNCHANGED batchVars
    BY DEF StartStep, Preflight, PlanAcquire, PlanWake, PlanReturns, StartCancelled
  <2>5. planned[b] \in Nat
    BY <1>0 DEF BTypeOK, Counts
  <2>6. planned'[b] = planned[b] + 1 => planned'[b] <= Size(b)
    BY <1>1, <1>3, <2>5
  <2> QED BY <1>1, <1>3, <2>1, <2>2, <2>3, <2>4, <2>5, <2>6
<1>6. ControlInv(b)'
  <2>1. calls'[b] # <<>>
    <3>1. calls[b] \in Seq(PreparedCall) /\ calls'[b] \in Seq(PreparedCall)
      BY StartOwns DEF BInv, BTypeOK, Owns
    <3>2. Len(calls[b]) # 0
      BY <1>3, <3>1, EmptySeq
    <3> QED BY <1>1, <3>2, EmptySeq DEF Size
  <2> QED BY <1>0, <1>1, <1>3, <1>4, <1>5, <2>1 DEF BatchInv, ControlInv
<1>7. PlanInv(b)'
  <2>0. b \in Callers /\ stage \in [Callers -> Stages]
    BY <1>0 DEF Callers, Inv, TypeOK
  <2>1. CASE Preflight(b)
    <3>1. stage[b] = "ready"
      BY <1>0, <2>1 DEF Preflight, BatchInv, PlanInv
    <3> QED BY <2>1, <3>1 DEF Preflight, vars, PlanInv
  <2>2. CASE PlanAcquire(b) \/ PlanWake(b)
    <3>1. UNCHANGED batchVars
      BY <2>2 DEF PlanAcquire, PlanWake
    <3>2. calls' = calls /\ planned' = planned /\ phase' = phase
      BY <3>1 DEF batchVars, ctlVars
    <3>3. HasPlanner(calls[b][planned[b] + 1])
      <4>1. CASE PlanAcquire(b)
        BY <4>1 DEF PlanAcquire
      <4>2. CASE PlanWake(b)
        <5>1. stage[b] = "waiting"
          BY <1>0, <2>0, <4>2, CallerMoves DEF PlanWake
        <5> QED BY <1>0, <5>1 DEF BatchInv, PlanInv
      <4> QED BY <2>2, <4>1, <4>2
    <3>4. stage'[b] \in {"waiting", "running"}
      BY <1>0, <2>0, <2>2, CallerMoves DEF PlanAcquire, PlanWake
    <3> QED BY <1>2, <3>2, <3>3, <3>4 DEF PlanInv, Preparing, Size, HasPlanner
  <2>3. CASE PlanReturns(b)
    <3>1. stage'[b] = "ready"
      BY <2>0, <2>3 DEF PlanReturns, ReleasePermit
    <3> QED BY <3>1 DEF PlanInv
  <2>4. CASE StartCancelled(b)
    <3>1. stage'[b] = "ready"
      BY <1>0, <2>0, <2>4, CallerMoves DEF StartCancelled, vars
    <3> QED BY <3>1 DEF PlanInv
  <2> QED BY <2>1, <2>2, <2>3, <2>4 DEF StartStep
<1>8. CallsInv(b)'
  BY <1>0, <1>1, <1>3, <1>4 DEF BatchInv, CallsInv, Registered
<1>9. LogInv(b)'
  BY <1>0, <1>1, <1>4 DEF BatchInv, LogInv, EventsOK
<1>10. CauseInv(b)'
  BY <1>0, <1>1, <1>3, <1>4 DEF BatchInv, CauseInv, Registered
<1>11. AccountInv(b)'
  BY <1>0, <1>1, <1>4, AccountKept
<1> QED BY <1>6, <1>7, <1>8, <1>9, <1>10, <1>11 DEF BatchInv

\* SkipAll skips what is pending and nothing else.
LEMMA SkipAllSlots ==
  ASSUME BTypeOK, NEW b \in Planners
  PROVE  \A i \in Indices(b) : SkipAll(slots[b])[i] =
           IF slots[b][i] = "pending" THEN "skipped" ELSE slots[b][i]
<1>1. DOMAIN slots[b] = Indices(b)
  BY DEF BTypeOK
<1> QED BY <1>1 DEF SkipAll

\* The first Next: nothing is registered yet.
LEMMA NextFirstKeeps ==
  ASSUME BInv, NEW b \in Planners, NextFirst(b)
  PROVE  BatchInv(b)'
<1>0. BTypeOK /\ BatchInv(b)
  BY DEF BInv
<1>1. Size(b)' = Size(b) /\ Indices(b)' = Indices(b)
  BY DEF NextFirst, Size, Indices
<1>2. /\ UNCHANGED <<phase, planned, checked, calls, closed, cancelled, parentDone, spawned, base,
                     recv, closeDone, fatals, log, stage>>
      /\ started'[b] = TRUE /\ phase[b] = "prepared" /\ ~ started[b]
  BY <1>0 DEF NextFirst, vars, BTypeOK, Flags
<1>3. /\ ~ closed[b] /\ ~ closeDone[b] /\ disp[b] = "none" /\ ~ Registered(b)
      /\ chanClosed[b] = 0 /\ ~ drained[b] /\ err[b] = <<>> /\ log[b] = <<>> /\ fatals[b] = {}
      /\ spawned[b] = 0 /\ \A i \in Indices(b) : slots[b][i] = "pending"
  BY <1>0, <1>2 DEF BTypeOK, Flags, BatchInv, ControlInv, CallsInv, CauseInv, Registered
<1>4. \/ /\ slots' = slots /\ err' = err /\ chanClosed' = chanClosed /\ drained' = drained
         /\ disp'[b] = "registering"
      \/ /\ \A i \in Indices(b) : slots'[b][i] = "skipped"
         /\ err'[b] = <<"context">> /\ chanClosed'[b] = 1 /\ drained'[b] = TRUE /\ disp' = disp
  <2>1. CASE CtxDone(b)
    <3>1. slots'[b] = SkipAll(slots[b])
      BY <1>0, <2>1 DEF NextFirst, BTypeOK
    <3>2. \A i \in Indices(b) : slots'[b][i] = "skipped"
      BY <1>0, <1>3, <3>1, SkipAllSlots
    <3>3. chanClosed'[b] = 1
      BY <1>0, <1>3, <2>1 DEF NextFirst, BTypeOK, Counts
    <3>4. err'[b] = <<"context">> /\ drained'[b] = TRUE /\ disp' = disp
      BY <1>0, <2>1 DEF NextFirst, BTypeOK, Flags
    <3> QED BY <3>2, <3>3, <3>4
  <2>2. CASE ~ CtxDone(b)
    BY <1>0, <2>2 DEF NextFirst, BTypeOK
  <2> QED BY <2>1, <2>2
<1>5. disp'[b] \in {"none", "registering"} /\ ~ Registered(b)'
  BY <1>3, <1>4 DEF Registered
<1>6. ControlInv(b)'
  BY <1>0, <1>1, <1>2, <1>3, <1>4 DEF BatchInv, ControlInv
<1>7. PlanInv(b)'
  BY <1>0, <1>1, <1>2 DEF BatchInv, PlanInv, Preparing, HasPlanner
<1>8. CallsInv(b)'
  BY <1>0, <1>1, <1>2, <1>3, <1>4, <1>5 DEF BatchInv, CallsInv
<1>9. LogInv(b)'
  <2>1. \A i, k : ~ Has(log[b], i, k)
    BY <1>3, EmptySeq DEF Has
  <2>2. \A i \in Indices(b) : slots'[b][i] \in {"pending", "skipped"}
    BY <1>3, <1>4
  <2> QED BY <1>0, <1>1, <1>2, <2>1, <2>2 DEF BatchInv, LogInv, EventsOK
<1>10. CauseInv(b)'
  BY <1>0, <1>1, <1>2, <1>3, <1>4, <1>5 DEF BatchInv, CauseInv
<1>11. AccountInv(b)'
  <2>1. parentDone[b] \/ ~ CtxDone(b)
    BY <1>0, <1>3 DEF CtxDone, BatchInv, CauseInv
  <2>2. err'[b] = err[b] \/ (err'[b] = <<"context">> /\ parentDone'[b])
    BY <1>0, <1>2, <2>1 DEF NextFirst, BTypeOK
  <2>3. disp'[b] # "done"
    BY <1>5
  <2>4. \A i \in Indices(b) : slots'[b][i] # "failed" /\ slots[b][i] # "failed"
    BY <1>3, <1>4
  <2> QED BY <1>0, <1>1, <1>2, <2>2, <2>3, <2>4, AccountKept
<1> QED BY <1>6, <1>7, <1>8, <1>9, <1>10, <1>11 DEF BatchInv


\* A context that is done stays done; Close and a reader change nothing of the calls.
LEMMA FlagsKeep ==
  ASSUME BInv, NEW b \in Planners, BTypeOK',
         UNCHANGED <<phase, planned, calls, started, disp, spawned, base, chanClosed, err,
                     slots, fatals, log, stage>>,
         closed[b] => closed'[b], parentDone[b] => parentDone'[b], cancelled[b] => cancelled'[b],
         closed'[b] => started[b] /\ cancelled'[b] /\ phase[b] = "prepared",
         cancelled'[b] => cancelled[b] \/ closed'[b],
         drained'[b] => chanClosed[b] = 1,
         closeDone'[b] => closed'[b] /\ disp[b] \in {"none", "done"}
  PROVE  BatchInv(b)'
<1>0. BatchInv(b)
  BY DEF BInv
<1>1. /\ Size(b)' = Size(b) /\ Indices(b)' = Indices(b) /\ Registered(b)' = Registered(b)
      /\ \A i : Ticket(b, i)' = Ticket(b, i)
  BY DEF Size, Indices, Registered, Ticket
<1>2. CtxDone(b) => CtxDone(b)'
  BY DEF CtxDone
<1>3. ControlInv(b)'
  BY <1>0, <1>1 DEF BatchInv, ControlInv
<1>4. PlanInv(b)'
  BY <1>0, <1>1 DEF BatchInv, PlanInv, Preparing, HasPlanner
<1>5. CallsInv(b)'
  BY <1>0, <1>1, <1>2 DEF BatchInv, CallsInv, CallOK
<1>6. LogInv(b)'
  BY <1>0, <1>1 DEF BatchInv, LogInv, EventsOK
<1>7. CauseInv(b)'
  BY <1>0, <1>1 DEF BatchInv, CauseInv
<1>8. AccountInv(b)'
  BY <1>0, <1>1, AccountKept
<1> QED BY <1>3, <1>4, <1>5, <1>6, <1>7, <1>8 DEF BatchInv

\* A Close that finds the batch unstarted ends it: nothing was registered.
LEMMA CloseUnstartedKeeps ==
  ASSUME BInv, NEW b \in Planners, CloseBatch(b), ~ started[b]
  PROVE  BatchInv(b)'
<1>0. BTypeOK /\ BatchInv(b)
  BY DEF BInv
<1>1. Size(b)' = Size(b) /\ Indices(b)' = Indices(b)
  BY DEF CloseBatch, Size, Indices
<1>2. /\ UNCHANGED <<phase, planned, checked, calls, parentDone, disp, spawned, base, recv, drained,
                     err, fatals, log, stage>>
      /\ started'[b] = TRUE /\ closed'[b] = TRUE /\ cancelled'[b] = TRUE
      /\ phase[b] = "prepared"
  BY <1>0 DEF CloseBatch, vars, BTypeOK, Flags
<1>3. /\ disp[b] = "none" /\ ~ Registered(b)
      /\ chanClosed[b] = 0 /\ ~ drained[b] /\ err[b] = <<>> /\ log[b] = <<>> /\ fatals[b] = {}
      /\ spawned[b] = 0 /\ \A i \in Indices(b) : slots[b][i] = "pending"
  BY <1>0, <1>2 DEF BTypeOK, Flags, BatchInv, ControlInv, CallsInv, CauseInv, Registered
<1>4. \A i \in Indices(b) : slots'[b][i] = "skipped"
  <2>1. slots'[b] = SkipAll(slots[b])
    BY <1>0 DEF CloseBatch, BTypeOK
  <2> QED BY <1>0, <1>3, <2>1, SkipAllSlots
<1>5. chanClosed'[b] = 1 /\ ~ Registered(b)'
  <2>1. chanClosed' = [chanClosed EXCEPT ![b] = chanClosed[b] + 1]
    BY DEF CloseBatch
  <2> QED BY <1>0, <1>2, <1>3, <2>1 DEF BTypeOK, Counts, Registered
<1>6. ControlInv(b)'
  BY <1>0, <1>1, <1>2, <1>3, <1>5 DEF BatchInv, ControlInv
<1>7. PlanInv(b)'
  BY <1>0, <1>1, <1>2 DEF BatchInv, PlanInv, Preparing, HasPlanner
<1>8. CallsInv(b)'
  BY <1>0, <1>1, <1>2, <1>3, <1>4, <1>5 DEF BatchInv, CallsInv
<1>9. LogInv(b)'
  <2>1. \A i, k : ~ Has(log[b], i, k)
    BY <1>3, EmptySeq DEF Has
  <2> QED BY <1>0, <1>1, <1>2, <1>4, <2>1 DEF BatchInv, LogInv, EventsOK
<1>10. CauseInv(b)'
  BY <1>0, <1>1, <1>2, <1>3, <1>5 DEF BatchInv, CauseInv
<1>11. AccountInv(b)'
  BY <1>0, <1>1, <1>2, <1>3, <1>4, <1>5, AccountKept
<1> QED BY <1>6, <1>7, <1>8, <1>9, <1>10, <1>11 DEF BatchInv

\* The reader, Close and the caller's context.
LEMMA CallerKeeps ==
  ASSUME BInv, NEW b \in Planners,
         NextReceive(b) \/ CloseBatch(b) \/ CloseReturns(b) \/ ParentCancelled(b)
  PROVE  BatchInv(b)'
<1>0. BTypeOK /\ BTypeOK' /\ ControlInv(b)
  BY CallerOwns DEF BInv, Owns, BatchInv
<1>1. CASE NextReceive(b)
  <2>1. UNCHANGED <<phase, planned, calls, started, disp, spawned, base, chanClosed, err,
                    slots, fatals, log, stage, closed, parentDone, cancelled, closeDone>>
    BY <1>1 DEF NextReceive, vars
  <2>2. drained'[b] => chanClosed[b] = 1
    <3>1. drained' = drained \/ chanClosed[b] > 0
      BY <1>1 DEF NextReceive
    <3> QED BY <1>0, <3>1 DEF ControlInv
  <2> QED BY <1>0, <2>1, <2>2, FlagsKeep DEF ControlInv
<1>2. CASE CloseBatch(b) /\ started[b]
  <2>1. UNCHANGED <<phase, planned, calls, disp, spawned, base, chanClosed, err,
                    slots, fatals, log, stage, parentDone, closeDone, drained>>
    BY <1>2 DEF CloseBatch, vars
  <2>2. closed'[b] = TRUE /\ cancelled'[b] = TRUE /\ phase[b] = "prepared"
    BY <1>0, <1>2 DEF CloseBatch, BTypeOK, Flags
  <2>3. started' = started
    BY <1>0, <1>2 DEF CloseBatch, BTypeOK, Flags
  <2> QED BY <1>0, <1>2, <2>1, <2>2, <2>3, FlagsKeep DEF ControlInv
<1>3. CASE CloseBatch(b) /\ ~ started[b]
  BY <1>3, CloseUnstartedKeeps
<1>4. CASE CloseReturns(b)
  <2>1. UNCHANGED <<phase, planned, calls, started, disp, spawned, base, chanClosed, err,
                    slots, fatals, log, stage, closed, parentDone, cancelled, drained>>
    BY <1>4 DEF CloseReturns, vars
  <2>2. closed[b] /\ disp[b] \in {"none", "done"}
    BY <1>4 DEF CloseReturns
  <2> QED BY <1>0, <2>1, <2>2, FlagsKeep DEF ControlInv
<1>5. CASE ParentCancelled(b)
  <2>1. UNCHANGED <<phase, planned, calls, started, disp, spawned, base, chanClosed, err,
                    slots, fatals, log, stage, closed, cancelled, drained, closeDone>>
    BY <1>5 DEF ParentCancelled, vars
  <2>2. parentDone'[b]
    BY <1>0, <1>5 DEF ParentCancelled, BTypeOK, Flags
  <2> QED BY <1>0, <2>1, <2>2, FlagsKeep DEF ControlInv
<1> QED BY <1>1, <1>2, <1>3, <1>4, <1>5

\* dispatch registers the batch, or finds the ticket space exhausted.
LEMMA RegisterKeeps ==
  ASSUME BInv, NEW b \in Planners, Register(b)
  PROVE  BatchInv(b)'
<1>0. BTypeOK /\ BatchInv(b) /\ Inv
  BY DEF BInv
<1>1. Size(b)' = Size(b) /\ Indices(b)' = Indices(b) /\ Indices(b) = 1 .. Len(calls[b])
  BY DEF Register, Size, Indices
<1>2. /\ UNCHANGED <<phase, planned, calls, started, closed, cancelled, parentDone, spawned,
                     drained, closeDone, fatals, log>>
      /\ disp[b] = "registering"
  BY DEF Register
<1>3. /\ started[b] /\ ~ closeDone[b] /\ ~ Registered(b)
      /\ chanClosed[b] = 0 /\ ~ drained[b] /\ err[b] = <<>> /\ log[b] = <<>> /\ fatals[b] = {}
      /\ spawned[b] = 0 /\ \A i \in Indices(b) : slots[b][i] = "pending"
  BY <1>0, <1>2 DEF BTypeOK, Flags, BatchInv, ControlInv, CallsInv, CauseInv, Registered
<1>4. \A i, k : ~ Has(log[b], i, k)
  BY <1>3, EmptySeq DEF Has
<1>5. stage'[b] = stage[b]
  <2>1. b \in Callers /\ b \notin Tickets
    BY CallerProperties DEF Callers
  <2> QED BY <2>1 DEF Register, RegisterBatch, vars
<1>6. PlanInv(b)'
  BY <1>0, <1>1, <1>2, <1>5 DEF BatchInv, PlanInv, Preparing, HasPlanner
<1>7. CASE /\ RegisterBatch(calls[b]) /\ base' = [base EXCEPT ![b] = next]
           /\ disp' = [disp EXCEPT ![b] = "spawning"] /\ UNCHANGED <<slots, err, chanClosed>>
  <2>1. disp'[b] = "spawning" /\ base'[b] = next /\ Registered(b)'
    BY <1>0, <1>7 DEF BTypeOK, Counts, Registered
  <2>2. ControlInv(b)'
    BY <1>0, <1>1, <1>2, <1>3, <1>7, <2>1 DEF BatchInv, ControlInv
  <2>3. ASSUME NEW i \in Indices(b) PROVE CallOK(b, i)'
    <3> DEFINE k == next + i - 1
    <3>1. Len(calls[b]) \in Nat /\ next \in Nat /\ i \in 1 .. Len(calls[b])
      BY <1>0, <1>1, LenProperties, TicketFacts DEF BTypeOK, BInv
    <3>2. next <= MaxTicket - Len(calls[b])
      BY <1>7 DEF RegisterBatch
    <3>3. /\ k \in Tickets /\ k \in Callers /\ k \in next .. next + Len(calls[b]) - 1
          /\ k - next + 1 = i
      BY <3>1, <3>2, ConstantsAssumption DEF Tickets, Callers
    <3>4. stage'[k] = IF calls[b][i].kind = "rejected" THEN "done" ELSE "ready"
      BY <1>7, <3>3 DEF RegisterBatch
    <3>5. Ticket(b, i)' = k
      BY <2>1 DEF Ticket
    <3>6. i > spawned[b] /\ ~ (i <= spawned[b])
      BY <1>3, <3>1
    <3> QED BY <1>2, <1>3, <1>7, <3>4, <3>5, <3>6 DEF CallOK
  <2>4. CallsInv(b)'
    BY <1>1, <2>1, <2>3 DEF CallsInv
  <2>5. LogInv(b)'
    BY <1>0, <1>1, <1>2, <1>7 DEF BatchInv, LogInv, EventsOK
  <2>6. CauseInv(b)'
    BY <1>0, <1>1, <1>2, <1>3, <1>7, <2>1 DEF BatchInv, CauseInv
  <2>7. AccountInv(b)'
    BY <1>0, <1>1, <1>2, <1>7, <2>1, AccountKept
  <2> QED BY <1>6, <2>2, <2>4, <2>5, <2>6, <2>7 DEF BatchInv
<1>8. CASE /\ err' = [err EXCEPT ![b] = <<"register">>]
           /\ slots' = [slots EXCEPT ![b] = SkipAll(slots[b])]
           /\ chanClosed' = [chanClosed EXCEPT ![b] = chanClosed[b] + 1]
           /\ disp' = [disp EXCEPT ![b] = "done"]
  <2>1. /\ err'[b] = <<"register">> /\ disp'[b] = "done" /\ chanClosed'[b] = 1
        /\ slots'[b] = SkipAll(slots[b])
    BY <1>0, <1>3, <1>8 DEF BTypeOK, Counts
  <2>2. \A i \in Indices(b) : slots'[b][i] = "skipped"
    BY <1>0, <1>3, <2>1, SkipAllSlots
  <2>3. ~ Registered(b)'
    BY <2>1 DEF Registered
  <2>4. ControlInv(b)'
    BY <1>0, <1>1, <1>2, <1>3, <2>1 DEF BatchInv, ControlInv
  <2>5. CallsInv(b)'
    BY <1>1, <1>2, <1>3, <2>1, <2>2, <2>3 DEF CallsInv
  <2>6. LogInv(b)'
    BY <1>0, <1>1, <1>2, <1>4, <2>2 DEF BatchInv, LogInv, EventsOK
  <2>7. CauseInv(b)'
    BY <1>0, <1>1, <1>2, <1>3, <2>1, <2>3 DEF BatchInv, CauseInv
  <2>8. AccountInv(b)'
    <3>1. err'[b] = <<"register">> /\ err'[b] # <<>>
      BY <2>1
    <3>2. \A i \in Indices(b) : slots'[b][i] # "failed" /\ slots[b][i] # "failed"
      BY <1>3, <2>2
    <3> QED BY <1>0, <1>1, <1>2, <3>1, <3>2, AccountKept
  <2> QED BY <1>6, <2>4, <2>5, <2>6, <2>7, <2>8 DEF BatchInv
<1> QED BY <1>7, <1>8 DEF Register


\* dispatch hands out one more call: a rejected one is answered at once.
LEMMA SpawnKeeps ==
  ASSUME BInv, NEW b \in Planners, Spawn(b)
  PROVE  BatchInv(b)'
<1>0. BTypeOK /\ BatchInv(b)
  BY DEF BInv
<1> SUFFICES ASSUME NEW i \in Nat, i = spawned[b] + 1 PROVE BatchInv(b)'
  <2>1. spawned[b] + 1 \in Nat
    BY <1>0 DEF BTypeOK, Counts
  <2> QED BY <2>1
<1>1. /\ Size(b)' = Size(b) /\ Indices(b)' = Indices(b) /\ Indices(b) = 1 .. Size(b)
      /\ Size(b) \in Nat /\ spawned[b] \in Nat /\ spawned'[b] = i /\ i \in Indices(b)
      /\ i <= Size(b)
  <2>1. Size(b) \in Nat /\ spawned[b] \in Nat /\ spawned'[b] = spawned[b] + 1
    BY <1>0, TicketFacts DEF BInv, BTypeOK, Counts, Spawn
  <2> QED BY <2>1 DEF Spawn, Size, Indices
<1>2. /\ UNCHANGED <<phase, planned, calls, started, closed, cancelled, parentDone, disp, base,
                     chanClosed, drained, closeDone, err, fatals, stage>>
      /\ disp[b] = "spawning" /\ Registered(b) /\ Registered(b)'
  BY DEF Spawn, vars, Registered
<1>3. CallOK(b, i) /\ slots[b][i] = "pending"
      /\ stage[Ticket(b, i)] = IF calls[b][i].kind = "rejected" THEN "done" ELSE "ready"
  BY <1>0, <1>1, <1>2 DEF BatchInv, CallsInv, CallOK
<1>4. /\ \A j \in Indices(b) : j # i => slots'[b][j] = slots[b][j]
      /\ slots'[b][i] = IF calls[b][i].kind = "rejected" THEN "finished" ELSE "pending"
  <2>1. CASE calls[b][i].kind = "rejected"
    <3>1. slots' = [slots EXCEPT ![b][i] = "finished"]
      BY <2>1 DEF Spawn, EmitRejected
    <3> QED BY <1>0, <1>1, <2>1, <3>1 DEF BTypeOK
  <2>2. CASE calls[b][i].kind # "rejected"
    <3>1. slots' = slots
      BY <2>2 DEF Spawn
    <3> QED BY <1>3, <2>2, <3>1
  <2> QED BY <2>1, <2>2
<1>5. ControlInv(b)'
  BY <1>0, <1>1, <1>2 DEF BatchInv, ControlInv
<1>6. PlanInv(b)'
  BY <1>0, <1>1, <1>2 DEF BatchInv, PlanInv, Preparing, HasPlanner
<1>7. \A j \in Indices(b) : CallOK(b, j)'
  <2>1. \A j : Ticket(b, j)' = Ticket(b, j)
    BY <1>2 DEF Ticket
  <2>2. CtxDone(b)' = CtxDone(b)
    BY <1>2 DEF CtxDone
  <2>3. CallOK(b, i)'
    <3>1. ~ (i > spawned'[b])
      BY <1>1
    <3> QED BY <1>2, <1>3, <1>4, <2>1, <2>2, <3>1 DEF CallOK, Terminal
  <2>4. ASSUME NEW j \in Indices(b), j # i PROVE CallOK(b, j)'
    <3>1. CallOK(b, j)
      BY <1>0, <1>2 DEF BatchInv, CallsInv
    <3>2. /\ j > spawned'[b] => j > spawned[b]
          /\ j <= spawned'[b] => j <= spawned[b]
      BY <1>1, <2>4
    <3>3. slots'[b][j] = slots[b][j]
      BY <1>4, <2>4
    <3> QED BY <1>2, <2>1, <2>2, <3>1, <3>2, <3>3 DEF CallOK
  <2> QED BY <2>3, <2>4
<1>8. CallsInv(b)'
  BY <1>1, <1>2, <1>7 DEF CallsInv
<1>9. LogInv(b)'
  <2>0. /\ LogOK(log[b], Size(b)) /\ \A j \in Indices(b) : EventsOK(b, j)
        /\ log[b] \in Seq(Events)
    BY <1>0 DEF BatchInv, LogInv, BTypeOK
  <2>1. CASE calls[b][i].kind = "rejected"
    <3> DEFINE m == log[b] \o <<Event("started", i), Event("finished", i)>>
    <3>1. log'[b] = m
      BY <1>0, <2>1 DEF Spawn, EmitRejected, BTypeOK
    <3>2. ~ Has(log[b], i, "started") /\ ~ Has(log[b], i, "finished") /\ ~ Has(log[b], i, "failed")
      BY <1>1, <1>3, <2>0 DEF EventsOK
    <3>3. /\ LogOK(m, Size(b))
          /\ \A j, q : Has(m, j, q) <=> Has(log[b], j, q) \/ (j = i /\ q \in {"started", "finished"})
      BY <1>1, <2>0, <3>2, LogRejected
    <3> HIDE DEF m
    <3>4. \A j \in Indices(b) : EventsOK(b, j)'
      BY <1>2, <1>4, <2>0, <2>1, <3>1, <3>2, <3>3 DEF EventsOK
    <3> QED BY <1>1, <3>1, <3>3, <3>4 DEF LogInv
  <2>2. CASE calls[b][i].kind # "rejected"
    <3>1. log' = log /\ slots' = slots
      BY <2>2 DEF Spawn
    <3> QED BY <1>1, <1>2, <2>0, <3>1 DEF LogInv, EventsOK
  <2> QED BY <2>1, <2>2
<1>10. CauseInv(b)'
  <2>1. \A j \in Indices(b) : slots'[b][j] \in {"failed", "skipped"} =>
          slots[b][j] \in {"failed", "skipped"}
    BY <1>4
  <2> QED BY <1>0, <1>1, <1>2, <2>1 DEF BatchInv, CauseInv
<1>11. AccountInv(b)'
  BY <1>0, <1>1, <1>2, <1>3, <1>4, AccountKept
<1> QED BY <1>5, <1>6, <1>8, <1>9, <1>10, <1>11 DEF BatchInv

\* workers.Wait returned: every call is over and has its outcome, and Err is settled.
LEMMA DispatchEndsKeeps ==
  ASSUME BInv, NEW b \in Planners, DispatchEnds(b)
  PROVE  BatchInv(b)'
<1>0. BTypeOK /\ BatchInv(b)
  BY DEF BInv
<1>1. Size(b)' = Size(b) /\ Indices(b)' = Indices(b) /\ Indices(b) = 1 .. Size(b) /\ Size(b) \in Nat
  BY TicketFacts DEF DispatchEnds, Size, Indices, BInv
<1>2. /\ UNCHANGED <<phase, planned, calls, started, closed, cancelled, parentDone, spawned, base,
                     drained, closeDone, fatals, log, stage>>
      /\ disp[b] = "spawning" /\ Registered(b) /\ spawned[b] = Size(b)
      /\ \A i \in Indices(b) : stage[Ticket(b, i)] = "done"
  BY DEF DispatchEnds, vars, Registered
<1>3. /\ started[b] /\ ~ closeDone[b] /\ chanClosed[b] = 0 /\ ~ drained[b] /\ err[b] = <<>>
  BY <1>0, <1>2 DEF BTypeOK, Flags, BatchInv, ControlInv, CauseInv
<1>4. \A i \in Indices(b) : CallOK(b, i) /\ slots[b][i] \in Terminal
  BY <1>0, <1>1, <1>2 DEF BatchInv, CallsInv, CallOK
<1>5. disp'[b] = "done" /\ chanClosed'[b] = 1 /\ slots'[b] = SkipAll(slots[b])
  BY <1>0, <1>3 DEF DispatchEnds, BTypeOK, Counts
<1>6. \A i \in Indices(b) : slots'[b][i] = slots[b][i]
  BY <1>0, <1>4, <1>5, SkipAllSlots DEF Terminal
<1>7. err'[b] = IF parentDone[b] THEN <<"context">>
                ELSE IF fatals[b] # {} THEN <<"fatal", PickFatal(fatals[b]).index>> ELSE <<>>
  BY <1>0, <1>3 DEF DispatchEnds, BTypeOK
<1>8. Registered(b)'
  BY <1>5, <1>7 DEF Registered
<1>9. ControlInv(b)'
  BY <1>0, <1>1, <1>2, <1>3, <1>5 DEF BatchInv, ControlInv
<1>10. PlanInv(b)'
  BY <1>0, <1>1, <1>2 DEF BatchInv, PlanInv, Preparing, HasPlanner
<1>11. CallsInv(b)'
  <2>1. \A j : Ticket(b, j)' = Ticket(b, j)
    BY <1>2 DEF Ticket
  <2>2. CtxDone(b)' = CtxDone(b)
    BY <1>2 DEF CtxDone
  <2>3. \A i \in Indices(b) : CallOK(b, i)'
    BY <1>2, <1>4, <1>6, <2>1, <2>2 DEF CallOK
  <2> QED BY <1>1, <1>2, <1>5, <1>8, <2>1, <2>3 DEF CallsInv
<1>12. LogInv(b)'
  BY <1>0, <1>1, <1>2, <1>6 DEF BatchInv, LogInv, EventsOK
<1>13. CauseInv(b)'
  <2>3. err'[b] = <<>> /\ ~ closed[b] => \A i \in Indices(b) : slots[b][i] = "finished"
    <3>1. err'[b] = <<>> => ~ parentDone[b] /\ fatals[b] = {}
      <4>1. \A x : <<x>> # <<>> /\ <<"fatal", x>> # <<>>
        OBVIOUS
      <4> QED BY <1>7, <4>1
    <3> QED BY <1>0, <1>2, <1>4, <3>1 DEF BatchInv, CauseInv, Terminal
  <2>4. /\ cancelled[b] => closed[b] \/ fatals[b] # {}
        /\ \A i \in Indices(b) : slots[b][i] \in {"failed", "skipped"} =>
             parentDone[b] \/ closed[b] \/ fatals[b] # {}
    BY <1>0, <1>2 DEF BatchInv, CauseInv
  <2> QED BY <1>1, <1>2, <1>3, <1>5, <1>6, <2>3, <2>4 DEF CauseInv
<1>14. AccountInv(b)'
  <2>1. ASSUME ~ parentDone[b], fatals[b] # {}
        PROVE  Accounted(b, PickFatal(fatals[b]).index)
    <3>1. fatals[b] \in SUBSET Fatal
      BY <1>0 DEF BTypeOK
    <3>2. {f.index : f \in fatals[b]} = FailedCalls(b)
      BY <1>0, <2>1 DEF BatchInv, AccountInv, FailedCalls
    <3>3. CASE OwnFailures(b) # {}
      <4>1. \E f \in fatals[b] : ~ f.ctx
        BY <3>3 DEF OwnFailures
      <4>2. PickFatal(fatals[b]).index \in OwnFailures(b)
        BY <2>1, <3>1, <4>1, FatalPicked DEF OwnFailures
      <4>3. \A i \in OwnFailures(b) : PickFatal(fatals[b]).index <= i
        BY <2>1, <3>1, <4>1, FatalPicked DEF OwnFailures
      <4> QED BY <3>2, <3>3, <4>2, <4>3 DEF Accounted
    <3>4. CASE OwnFailures(b) = {}
      <4>1. \A f \in fatals[b] : f.ctx
        BY <3>4 DEF OwnFailures
      <4>2. PickFatal(fatals[b]) \in fatals[b]
        BY <2>1, <3>1, FatalPicked
      <4>3. \A f \in fatals[b] : PickFatal(fatals[b]).index <= f.index
        BY <2>1, <3>1, <4>1, FatalPicked
      <4>4. PickFatal(fatals[b]).index \in FailedCalls(b)
        BY <3>2, <4>2
      <4>5. \A i \in FailedCalls(b) : PickFatal(fatals[b]).index <= i
        BY <3>2, <4>3
      <4> QED BY <3>2, <3>4, <4>4, <4>5 DEF Accounted
    <3> QED BY <3>3, <3>4
  <2>2. err'[b] # <<>> /\ err'[b][1] = "fatal" => Accounted(b, err'[b][2])
    <3>1. CASE parentDone[b]
      <4>1. err'[b][1] = "context"
        BY <1>7, <3>1
      <4> QED BY <4>1
    <3>2. CASE ~ parentDone[b] /\ fatals[b] # {}
      <4>1. err'[b] = <<"fatal", PickFatal(fatals[b]).index>>
        BY <1>7, <3>2
      <4>2. err'[b][2] = PickFatal(fatals[b]).index
        BY <4>1
      <4> QED BY <2>1, <3>2, <4>2
    <3>3. CASE ~ parentDone[b] /\ fatals[b] = {}
      <4>1. err'[b] = <<>>
        BY <1>7, <3>3
      <4> QED BY <4>1
    <3> QED BY <3>1, <3>2, <3>3
  <2>3. /\ \A i \in Indices(b) : slots[b][i] = "failed" => \E f \in fatals[b] : f.index = i
        /\ \A f \in fatals[b] :
             f.index \in Indices(b) /\ (slots[b][f.index] = "failed" \/ parentDone[b])
    BY <1>0 DEF BatchInv, AccountInv
  <2>4. err'[b] = <<>> => fatals[b] = {}
    <3>1. \A x : <<x>> # <<>> /\ <<"fatal", x>> # <<>>
      OBVIOUS
    <3> QED BY <1>7, <3>1
  <2>5. err'[b] = <<"context">> => parentDone[b]
    <3>1. \A n : <<"context">> # <<"fatal", n>> /\ <<"context">> # <<>>
      OBVIOUS
    <3> QED BY <1>7, <3>1
  <2>6. \A n : Accounted(b, n) => Accounted(b, n)'
    <3>1. FailedCalls(b)' = FailedCalls(b) /\ OwnFailures(b)' = OwnFailures(b)
      BY <1>1, <1>2, <1>6 DEF FailedCalls, OwnFailures
    <3> QED BY <1>2, <3>1 DEF Accounted
  <2>7. err'[b] # <<>> /\ err'[b][1] = "fatal" => Accounted(b, err[b][2])'
    BY <2>2, <2>6
  <2> QED BY <1>1, <1>2, <1>5, <1>6, <2>3, <2>4, <2>5, <2>7 DEF AccountInv
<1> QED BY <1>9, <1>10, <1>11, <1>12, <1>13, <1>14 DEF BatchInv

\* A call step leaves the planner and the other calls' tickets where they are.
LEMMA OtherCalls ==
  ASSUME BInv, NEW b \in Planners, NEW i \in Indices(b), Live(b, i), NEW s,
         stage' = [stage EXCEPT ![Ticket(b, i)] = s]
  PROVE  /\ stage'[b] = stage[b] /\ stage'[Ticket(b, i)] = s
         /\ \A j \in Indices(b) : j # i => stage'[Ticket(b, j)] = stage[Ticket(b, j)]
<1>1. /\ Registered(b) /\ Ticket(b, i) \in Tickets /\ b \notin Tickets /\ b \in Callers
      /\ Tickets \subseteq Callers /\ stage \in [Callers -> Stages]
  BY LiveTicket, CallerProperties DEF Callers, BInv, Inv, TypeOK
<1>2. \A j \in Indices(b) : Ticket(b, j) \in Tickets /\ (j # i => Ticket(b, j) # Ticket(b, i))
  BY <1>1, TicketFacts, TicketsDiffer DEF BInv
<1> QED BY <1>1, <1>2

\* A call that moves on before its callback.
LEMMA MovedKeeps ==
  ASSUME BInv, NEW b \in Planners, NEW i \in Indices(b), Live(b, i), NEW s, Moved(b, i, s)
  PROVE  BatchInv(b)'
<1>0. BatchInv(b) /\ CallOK(b, i) /\ Registered(b) /\ i <= spawned[b] /\ i \in Nat
  BY LiveTicket DEF BInv
<1>1. /\ UNCHANGED <<phase, planned, calls, started, closed, parentDone, disp, spawned, base,
                     chanClosed, drained, closeDone, err, cancelled, slots, fatals, log>>
      /\ slots[b][i] = "pending" /\ (s = "leaving" => CtxDone(b))
      /\ s \in {"waiting", "leaving", "activating", "extending", "running"}
  BY DEF Moved, CtlSame
<1>2. /\ Size(b)' = Size(b) /\ Indices(b)' = Indices(b) /\ Registered(b)' = Registered(b)
      /\ CtxDone(b)' = CtxDone(b) /\ \A j : Ticket(b, j)' = Ticket(b, j)
  BY <1>1 DEF Size, Indices, Registered, CtxDone, Ticket
<1>3. /\ stage'[b] = stage[b] /\ stage'[Ticket(b, i)] = s
      /\ \A j \in Indices(b) : j # i => stage'[Ticket(b, j)] = stage[Ticket(b, j)]
  BY OtherCalls DEF Moved
<1>4. ControlInv(b)'
  BY <1>0, <1>1, <1>2 DEF BatchInv, ControlInv
<1>5. PlanInv(b)'
  BY <1>0, <1>1, <1>2, <1>3 DEF BatchInv, PlanInv, Preparing, HasPlanner
<1>6. CallsInv(b)'
  <2>1. disp[b] = "spawning"
    BY DEF Live
  <2>2. CallOK(b, i)'
    <3>1. ~ (i > spawned[b])
      BY <1>0 DEF BInv, BTypeOK, Counts
    <3> QED BY <1>1, <1>2, <1>3, <3>1 DEF CallOK
  <2>3. \A j \in Indices(b) : j # i => CallOK(b, j)'
    BY <1>0, <1>1, <1>2, <1>3 DEF BatchInv, CallsInv, CallOK
  <2> QED BY <1>0, <1>1, <1>2, <2>1, <2>2, <2>3 DEF CallsInv
<1>7. LogInv(b)'
  BY <1>0, <1>1, <1>2 DEF BatchInv, LogInv, EventsOK
<1>8. CauseInv(b)'
  BY <1>0, <1>1, <1>2 DEF BatchInv, CauseInv
<1>9. AccountInv(b)'
  BY <1>0, <1>1, <1>2, AccountKept
<1> QED BY <1>4, <1>5, <1>6, <1>7, <1>8, <1>9 DEF BatchInv


\* A slot changes: what the other slots and their events say stays.
LEMMA SlotSet ==
  ASSUME BTypeOK, NEW b \in Planners, NEW i \in Indices(b), NEW x,
         slots' = [slots EXCEPT ![b][i] = x]
  PROVE  slots'[b][i] = x /\ \A j \in Indices(b) : j # i => slots'[b][j] = slots[b][j]
  BY DEF BTypeOK

\* The callback begins: the call is reported as started.
LEMMA BeginKeeps ==
  ASSUME BInv, NEW b \in Planners, NEW i \in Indices(b), BeginCallback(b, i)
  PROVE  BatchInv(b)'
<1>0. /\ BatchInv(b) /\ CallOK(b, i) /\ Registered(b) /\ i <= spawned[b] /\ i \in Nat /\ BTypeOK
      /\ Live(b, i)
  BY LiveTicket DEF BInv, BeginCallback
<1>1. /\ UNCHANGED <<phase, planned, calls, started, closed, parentDone, disp, spawned, base,
                     chanClosed, drained, closeDone, err, cancelled, fatals, stage>>
      /\ slots[b][i] = "pending" /\ stage[Ticket(b, i)] = "running"
  BY DEF BeginCallback, ctlVars, vars
<1>2. /\ Size(b)' = Size(b) /\ Indices(b)' = Indices(b) /\ Registered(b)' = Registered(b)
      /\ CtxDone(b)' = CtxDone(b) /\ \A j : Ticket(b, j)' = Ticket(b, j)
  BY <1>1 DEF Size, Indices, Registered, CtxDone, Ticket
<1>3. slots'[b][i] = "running" /\ \A j \in Indices(b) : j # i => slots'[b][j] = slots[b][j]
  BY <1>0, SlotSet DEF BeginCallback
<1>4. ControlInv(b)'
  BY <1>0, <1>1, <1>2 DEF BatchInv, ControlInv
<1>5. PlanInv(b)'
  BY <1>0, <1>1, <1>2 DEF BatchInv, PlanInv, Preparing, HasPlanner
<1>6. CallsInv(b)'
  <2>1. disp[b] = "spawning"
    BY <1>0 DEF Live
  <2>2. CallOK(b, i)'
    <3>1. ~ (i > spawned[b])
      BY <1>0 DEF BTypeOK, Counts
    <3> QED BY <1>1, <1>2, <1>3, <3>1 DEF CallOK
  <2>3. \A j \in Indices(b) : j # i => CallOK(b, j)'
    BY <1>0, <1>1, <1>2, <1>3 DEF BatchInv, CallsInv, CallOK
  <2> QED BY <1>0, <1>1, <1>2, <2>1, <2>2, <2>3 DEF CallsInv
<1>7. LogInv(b)'
  <2> DEFINE m == Append(log[b], Event("started", i))
  <2>0. /\ LogOK(log[b], Size(b)) /\ \A j \in Indices(b) : EventsOK(b, j)
        /\ log[b] \in Seq(Events) /\ log'[b] = m /\ Size(b) \in Nat /\ i \in 1 .. Size(b)
    BY <1>0, TicketFacts DEF BatchInv, LogInv, BTypeOK, BeginCallback, Indices, BInv
  <2>1. ~ Has(log[b], i, "started")
    BY <1>1, <2>0 DEF EventsOK
  <2>2. /\ LogOK(m, Size(b))
        /\ \A j, q : Has(m, j, q) <=> Has(log[b], j, q) \/ (j = i /\ q = "started")
    BY <2>0, <2>1, LogAppend
  <2> HIDE DEF m
  <2>3. \A j \in Indices(b) : EventsOK(b, j)'
    BY <1>1, <1>3, <2>0, <2>2 DEF EventsOK
  <2> QED BY <1>2, <2>0, <2>2, <2>3 DEF LogInv
<1>8. CauseInv(b)'
  <2>1. \A j \in Indices(b) : slots'[b][j] \in {"failed", "skipped"} =>
          slots[b][j] \in {"failed", "skipped"}
    BY <1>3
  <2>2. disp[b] = "spawning"
    BY <1>0 DEF Live
  <2> QED BY <1>0, <1>1, <1>2, <2>1, <2>2 DEF BatchInv, CauseInv
<1>9. AccountInv(b)'
  BY <1>0, <1>1, <1>2, <1>3, AccountKept
<1> QED BY <1>4, <1>5, <1>6, <1>7, <1>8, <1>9 DEF BatchInv

\* The call ends: its slot, its events and its error agree.
LEMMA EndedKeeps ==
  ASSUME BInv, NEW b \in Planners, NEW i \in Indices(b), Live(b, i), NEW x, NEW F,
         Ended(b, i, x, F)
  PROVE  BatchInv(b)'
<1>0. /\ BatchInv(b) /\ CallOK(b, i) /\ Registered(b) /\ i <= spawned[b] /\ i \in Nat /\ BTypeOK
      /\ disp[b] = "spawning"
  BY LiveTicket DEF BInv, Live
<1>1. /\ UNCHANGED <<phase, planned, calls, started, closed, parentDone, disp, spawned, base,
                     chanClosed, drained, closeDone, err>>
      /\ slots[b][i] \in {"pending", "running"} /\ x \in Terminal
  BY DEF Ended, CtlSame
<1>2. /\ Size(b)' = Size(b) /\ Indices(b)' = Indices(b) /\ Registered(b)' = Registered(b)
      /\ \A j : Ticket(b, j)' = Ticket(b, j)
  BY <1>1 DEF Size, Indices, Registered, Ticket
<1>3. slots'[b][i] = x /\ \A j \in Indices(b) : j # i => slots'[b][j] = slots[b][j]
  BY <1>0, SlotSet DEF Ended
<1>4. /\ stage'[b] = stage[b] /\ stage'[Ticket(b, i)] = "done"
      /\ \A j \in Indices(b) : j # i => stage'[Ticket(b, j)] = stage[Ticket(b, j)]
  BY OtherCalls DEF Ended
<1>5. /\ fatals'[b] = fatals[b] \cup F
      /\ cancelled[b] => cancelled'[b]
      /\ cancelled'[b] => cancelled[b] \/ F # {}
      /\ x = "failed" => F # {}
      /\ F # {} => x = "failed" \/ parentDone[b]
      /\ \A f \in F : f.index = i
  <2>1. fatals'[b] = fatals[b] \cup F
    BY <1>0 DEF Ended, BTypeOK
  <2>2. UNCHANGED cancelled \/ (cancelled'[b] = TRUE /\ F # {})
    BY <1>0 DEF Ended, BTypeOK, Flags
  <2> QED BY <2>1, <2>2 DEF Ended
<1>6. ControlInv(b)'
  BY <1>0, <1>1, <1>2, <1>5 DEF BatchInv, ControlInv
<1>7. PlanInv(b)'
  BY <1>0, <1>1, <1>2, <1>4 DEF BatchInv, PlanInv, Preparing, HasPlanner
<1>8. CallsInv(b)'
  <2>1. CtxDone(b) => CtxDone(b)'
    BY <1>1, <1>5 DEF CtxDone
  <2>2. CallOK(b, i)'
    <3>1. ~ (i > spawned[b])
      BY <1>0 DEF BTypeOK, Counts
    <3> QED BY <1>1, <1>2, <1>3, <1>4, <3>1 DEF CallOK
  <2>3. \A j \in Indices(b) : j # i => CallOK(b, j)'
    BY <1>0, <1>1, <1>2, <1>3, <1>4, <2>1 DEF BatchInv, CallsInv, CallOK
  <2> QED BY <1>0, <1>1, <1>2, <2>2, <2>3 DEF CallsInv
<1>9. LogInv(b)'
  <2>0. /\ LogOK(log[b], Size(b)) /\ \A j \in Indices(b) : EventsOK(b, j)
        /\ log \in [Planners -> Seq(Events)] /\ log[b] \in Seq(Events)
        /\ Size(b) \in Nat /\ i \in 1 .. Size(b)
    BY <1>0, TicketFacts DEF BatchInv, LogInv, BTypeOK, Indices, BInv
  <2>1. /\ EventsOK(b, i) /\ ~ Has(log[b], i, "finished") /\ ~ Has(log[b], i, "failed")
        /\ slots[b][i] = "running" <=> Has(log[b], i, "started")
    BY <1>1, <2>0 DEF EventsOK
  <2>2. CASE x = "skipped" /\ log' = log /\ (slots[b][i] = "pending" \/ closed[b])
    <3>1. \A j \in Indices(b) : EventsOK(b, j)'
      BY <1>1, <1>3, <2>0, <2>1, <2>2 DEF EventsOK
    <3> QED BY <1>2, <2>0, <2>2, <3>1 DEF LogInv
  <2>3. ASSUME NEW k \in {"finished", "failed"}, x = k,
               log' = [log EXCEPT ![b] = Append(log[b], Event(k, i))],
               k = "finished" => slots[b][i] = "running"
        PROVE  LogInv(b)'
    <3> DEFINE m == Append(log[b], Event(k, i))
    <3>1. log'[b] = m
      BY <2>0, <2>3
    <3>2. /\ LogOK(m, Size(b))
          /\ \A j, q : Has(m, j, q) <=> Has(log[b], j, q) \/ (j = i /\ q = k)
      BY <2>0, <2>1, <2>3, LogAppend
    <3> HIDE DEF m
    <3>3. \A j \in Indices(b) : EventsOK(b, j)'
      <4>1. ASSUME NEW j \in Indices(b), j # i PROVE EventsOK(b, j)'
        <5>1. /\ slots'[b][j] = slots[b][j] /\ EventsOK(b, j)
              /\ \A q : Has(m, j, q) <=> Has(log[b], j, q)
          BY <1>3, <2>0, <3>2, <4>1
        <5> QED BY <1>1, <3>1, <5>1 DEF EventsOK
      <4>2. EventsOK(b, i)'
        <5>1. slots'[b][i] = k /\ Has(m, i, k)
          BY <1>3, <2>3, <3>2
        <5>2. /\ k = "finished" => ~ Has(m, i, "failed")
              /\ k = "failed" => ~ Has(m, i, "finished")
          BY <2>1, <3>2
        <5> QED BY <3>1, <5>1, <5>2 DEF EventsOK
      <4> QED BY <4>1, <4>2
    <3> QED BY <1>2, <2>0, <3>1, <3>2, <3>3 DEF LogInv
  <2>4. CASE /\ x = "finished" /\ slots[b][i] = "pending"
             /\ log' = [log EXCEPT ![b] =
                          log[b] \o <<Event("started", i), Event("finished", i)>>]
    <3> DEFINE m == log[b] \o <<Event("started", i), Event("finished", i)>>
    <3>1. log'[b] = m
      BY <2>0, <2>4
    <3>2. /\ LogOK(m, Size(b))
          /\ \A j, q : Has(m, j, q) <=> Has(log[b], j, q) \/ (j = i /\ q \in {"started", "finished"})
      BY <2>0, <2>1, <2>4, LogRejected
    <3> HIDE DEF m
    <3>3. \A j \in Indices(b) : EventsOK(b, j)'
      BY <1>1, <1>3, <2>0, <2>1, <2>4, <3>1, <3>2 DEF EventsOK
    <3> QED BY <1>2, <2>0, <3>1, <3>2, <3>3 DEF LogInv
  <2> QED BY <2>2, <2>3, <2>4 DEF Ended, Logged
<1>10. CauseInv(b)'
  <2>1. x = "skipped" => CtxDone(b)
    BY DEF Ended, Logged
  <2>2. cancelled[b] => closed[b] \/ fatals[b] # {}
    BY <1>0 DEF BatchInv, CauseInv
  <2>3. x \in {"failed", "skipped"} => parentDone[b] \/ closed[b] \/ fatals'[b] # {}
    BY <1>5, <2>1, <2>2 DEF CtxDone
  <2>4. \A j \in Indices(b) : slots'[b][j] \in {"failed", "skipped"} =>
          parentDone[b] \/ closed[b] \/ fatals'[b] # {}
    BY <1>0, <1>3, <1>5, <2>3 DEF BatchInv, CauseInv
  <2>5. cancelled'[b] => closed[b] \/ fatals'[b] # {}
    BY <1>5, <2>2
  <2>6. err[b] = <<>>
    BY <1>0 DEF BatchInv, CauseInv
  <2> QED BY <1>0, <1>1, <1>2, <2>4, <2>5, <2>6 DEF CauseInv
<1>11. AccountInv(b)'
  <2>7. \A j \in Indices(b) : slots'[b][j] = "failed" => \E f \in fatals'[b] : f.index = j
    <3>1. \A j \in Indices(b) : slots[b][j] = "failed" => \E f \in fatals[b] : f.index = j
      BY <1>0 DEF BatchInv, AccountInv
    <3> QED BY <1>3, <1>5, <3>1
  <2>8. \A f \in fatals'[b] :
          f.index \in Indices(b) /\ (slots'[b][f.index] = "failed" \/ parentDone[b])
    <3>1. \A f \in fatals[b] :
            f.index \in Indices(b) /\ (slots[b][f.index] = "failed" \/ parentDone[b])
      BY <1>0 DEF BatchInv, AccountInv
    <3> QED BY <1>1, <1>3, <1>5, <3>1
  <2>9. err'[b] = <<>>
    BY <1>0, <1>1 DEF BatchInv, CauseInv
  <2>10. <<"context">> # <<>>
    OBVIOUS
  <2> QED BY <1>0, <1>1, <1>2, <2>7, <2>8, <2>9, <2>10 DEF AccountInv
<1> QED BY <1>6, <1>7, <1>8, <1>9, <1>10, <1>11 DEF BatchInv

\* Every step of a batch keeps its invariant.
LEMMA OwnKeeps ==
  ASSUME BInv, NEW b \in Planners, StepOf(b)
  PROVE  BatchInv(b)'
<1>1. ASSUME NEW i \in Indices(b), CallStep(b, i) PROVE BatchInv(b)'
  <2>1. Live(b, i)
    BY <1>1 DEF CallStep, SkipCall, AcquireCall, WakeCall, CancelWaiting, Activated, NotActivated,
         ExtendCall, ExtendCancelled, BeginCallback, CallbackReturns
  <2> QED BY <1>1, <2>1, CallStepForms, MovedKeeps, BeginKeeps, EndedKeeps
<1> QED BY <1>1, StartKeeps, NextFirstKeeps, CallerKeeps, RegisterKeeps, SpawnKeeps,
          DispatchEndsKeeps DEF StepOf, DispatchStep

--------------------------------------------------------------------------------
\* The initial state satisfies the inductive invariant.
LEMMA BatchInit == BInit => BInv
<1> SUFFICES ASSUME BInit PROVE BInv
  OBVIOUS
<1>1. Inv
  BY InitInv DEF BInit
<1>2. calls \in Requested /\ calls \in [Planners -> Seq(PreparedCall)]
  BY RequestedAssumption DEF BInit
<1>3. BTypeOK
  <2>1. \A b \in Planners : calls[b] \in Seq(PreparedCall) /\ log[b] = <<>> /\ err[b] = <<>>
    BY <1>2 DEF BInit
  <2>2. log \in [Planners -> Seq(Events)]
    BY EmptySeq DEF BInit
  <2>3. err \in [Planners -> Errors]
    BY DEF BInit, Errors
  <2>4. DOMAIN slots = Planners /\ \A b \in Planners : slots[b] \in [Indices(b) -> SlotStates]
    BY DEF BInit, SlotStates
  <2>5. planned \in Counts /\ spawned \in Counts /\ base \in Counts /\ recv \in Counts
        /\ chanClosed \in Counts
    BY DEF BInit, Counts
  <2>6. started \in Flags /\ closed \in Flags /\ cancelled \in Flags /\ parentDone \in Flags
        /\ drained \in Flags /\ closeDone \in Flags
    BY DEF BInit, Flags
  <2>7. /\ phase \in [Planners -> {"starting", "prepared", "refused"}]
        /\ disp \in [Planners -> {"none", "registering", "spawning", "done"}]
        /\ checked \in [Planners -> SUBSET Nat] /\ fatals \in [Planners -> SUBSET Fatal]
    BY DEF BInit
  <2> QED BY <1>2, <2>2, <2>3, <2>4, <2>5, <2>6, <2>7 DEF BTypeOK
<1>4. ShapesInv
  <2> SUFFICES ASSUME NEW b \in Planners PROVE calls[b] \in Outcomes(calls[b])
    BY <1>2 DEF ShapesInv
  <2>1. calls[b] \in Seq(PreparedCall)
    BY <1>2
  <2>2. calls[b] = [i \in 1 .. Len(calls[b]) |->
                      IF i \in {} THEN [calls[b][i] EXCEPT !.kind = "rejected"] ELSE calls[b][i]]
    BY <2>1, LenProperties
  <2>3. \E R \in SUBSET (1 .. Len(calls[b])) :
          calls[b] = [i \in 1 .. Len(calls[b]) |->
                        IF i \in R THEN [calls[b][i] EXCEPT !.kind = "rejected"] ELSE calls[b][i]]
    <3>1. {} \in SUBSET (1 .. Len(calls[b]))
      OBVIOUS
    <3> QED BY <2>2, <3>1
  <2> QED BY <2>3 DEF Outcomes
<1>5. \A b \in Planners : ~ Registered(b)
  BY DEF BInit, Registered
<1>6. ASSUME NEW b \in Planners PROVE BatchInv(b)
  <2>1. Size(b) \in Nat
    BY <1>2, LenProperties DEF Size
  <2>2. /\ planned[b] = 0 /\ spawned[b] = 0 /\ ~ started[b] /\ ~ closed[b] /\ ~ cancelled[b]
        /\ disp[b] = "none" /\ chanClosed[b] = 0 /\ ~ drained[b] /\ ~ closeDone[b]
        /\ log[b] = <<>> /\ fatals[b] = {} /\ err[b] = <<>>
        /\ phase[b] = IF calls[b] = <<>> THEN "refused" ELSE "starting"
        /\ \A i \in Indices(b) : slots[b][i] = "pending"
    BY DEF BInit
  <2>3. \A i, k : ~ Has(log[b], i, k)
    BY <2>2, EmptySeq DEF Has
  <2>4. LogInv(b)
    BY <2>2, <2>3, EmptySeq DEF LogInv, LogOK, EventsOK
  <2>5. stage[b] = "ready"
    BY DEF BInit, Init, Callers
  <2>6. ControlInv(b) /\ PlanInv(b)
    BY <2>1, <2>2, <2>5 DEF ControlInv, PlanInv
  <2>7. CallsInv(b)
    BY <1>5, <2>2 DEF CallsInv
  <2>8. CauseInv(b)
    BY <1>5, <2>2 DEF CauseInv
  <2>9. AccountInv(b)
    BY <2>2 DEF AccountInv
  <2> QED BY <2>4, <2>6, <2>7, <2>8, <2>9 DEF BatchInv
<1> QED BY <1>1, <1>3, <1>4, <1>5, <1>6 DEF BInv, TicketsInv

\* Every step of the system keeps the inductive invariant.
LEMMA BatchStep == ASSUME BInv, [BNext]_allVars PROVE BInv'
<1>1. Inv'
  BY StepRefines, InvStep DEF BInv
<1>2. CASE UNCHANGED allVars
  <2>1. \A c \in Planners : View(c)' = View(c)
    BY <1>2 DEF allVars, batchVars, ctlVars, View
  <2>2. stage' = stage /\ next' = next /\ calls' = calls /\ base' = base /\ disp' = disp /\ err' = err
    BY <1>2 DEF allVars, batchVars, ctlVars, vars
  <2>3. \A c \in Planners : BatchInv(c)'
    BY <2>1, <2>2, ViewKeeps
  <2>4. BTypeOK'
    BY <1>2 DEF BInv, BTypeOK, allVars, batchVars, ctlVars, Indices, Size
  <2>5. ShapesInv' /\ TicketsInv'
    BY <2>2 DEF BInv, ShapesInv, TicketsInv, Registered, Size
  <2> QED BY <1>1, <2>3, <2>4, <2>5 DEF BInv
<1>3. ASSUME NEW b \in Planners, StepOf(b) PROVE BInv'
  <2>1. BTypeOK'
    BY <1>3, StepOwns DEF Owns
  <2>2. ShapesInv' /\ TicketsInv'
    BY <1>3, CallsKept, TicketsKept
  <2>3. \A c \in Planners : BatchInv(c)'
    BY <1>3, OwnKeeps, OthersKeep
  <2> QED BY <1>1, <2>1, <2>2, <2>3 DEF BInv
<1> QED BY <1>2, <1>3 DEF BNext, StepOf

\* The inductive invariant of the batches holds in every reachable state.
THEOREM BatchInvariant == BSpec => []BInv
BY BatchInit, BatchStep, PTL DEF BSpec

\* Every step of a batch is a step of the coordinator or leaves it alone.
LEMMA BatchesUseTheCoordinator == BSpec => Spec
<1>1. BInit => Init
  BY DEF BInit
<1>2. BInv /\ [BNext]_allVars => [Next]_vars
  BY StepRefines
<1> QED BY <1>1, <1>2, BatchInvariant, PTL DEF BSpec, Spec

\* What the coordinator promises holds however the batches of an executor are
\* started, read, cancelled and closed: conflicting calls exclude each other, run in
\* submission order, and no permit leaks.
THEOREM BatchesKeepOrder ==
  BSpec => [](MutualExclusion /\ ConflictsRunInTicketOrder /\ PermitsExact)
BY BatchesUseTheCoordinator, ClaimsAreExclusive, TicketOrder, PermitConservation, PTL

\* Close leaves nothing of the batch behind (Batch.Close waits for dispatch).
THEOREM CloseWaitsForAll == BSpec => []CloseLeavesNothing
<1>1. BInv => CloseLeavesNothing
  <2> SUFFICES ASSUME BInv, NEW b \in Planners, closeDone[b]
               PROVE  /\ disp[b] \in {"none", "done"}
                      /\ disp[b] = "done" /\ err[b] # <<"register">> =>
                           \A i \in Indices(b) :
                             Ticket(b, i) \in released /\ Ticket(b, i) \notin holders
    BY DEF CloseLeavesNothing
  <2>1. disp[b] \in {"none", "done"}
    BY DEF BInv, BatchInv, ControlInv
  <2>2. ASSUME disp[b] = "done", err[b] # <<"register">>, NEW i \in Indices(b)
        PROVE  Ticket(b, i) \in released /\ Ticket(b, i) \notin holders
    <3>1. Registered(b) /\ stage[Ticket(b, i)] = "done"
      BY <2>2 DEF BInv, BatchInv, CallsInv, Registered
    <3>2. Ticket(b, i) \in Tickets
      BY <3>1, TicketFacts DEF BInv
    <3> QED BY <3>1, <3>2 DEF BInv, Inv, StageInv
  <2> QED BY <2>1, <2>2
<1> QED BY <1>1, BatchInvariant, PTL

\* Err accounts for the failures of a batch of any size (NoErrorMeansComplete,
\* ErrNamesFailures, ContextMeansCaller): it is nil only when none failed, and joins
\* the failures of exactly the failed calls, led as pickFatal chooses.
THEOREM ErrIsAccount == BSpec => []ErrAccountsForFailures
<1>1. BInv => ErrAccountsForFailures
  <2> SUFFICES ASSUME BInv PROVE NoErrorMeansComplete /\ ErrNamesFailures /\ ContextMeansCaller
    BY DEF ErrAccountsForFailures
  <2>1. ASSUME NEW b \in Planners, drained[b], err[b] = <<>>, NEW i \in Indices(b)
        PROVE  slots[b][i] = "finished" \/ (closed[b] /\ slots[b][i] = "skipped")
    <3>1. chanClosed[b] = 1 /\ started[b] /\ disp[b] \in {"none", "done"}
      BY <2>1 DEF BInv, BatchInv, ControlInv
    <3>2. <<"context">> # <<>> /\ <<"register">> # <<>>
      OBVIOUS
    <3>3. CASE ~ closed[b]
      <4>1. disp[b] = "done"
        BY <2>1, <3>1, <3>2, <3>3 DEF BInv, BatchInv, CauseInv
      <4> QED BY <2>1, <3>3, <4>1 DEF BInv, BatchInv, CauseInv
    <3>4. CASE closed[b] /\ disp[b] = "none"
      <4>1. ~ Registered(b)
        BY <3>4 DEF Registered
      <4> QED BY <2>1, <3>1, <3>4, <4>1 DEF BInv, BatchInv, CallsInv
    <3>5. CASE closed[b] /\ disp[b] = "done"
      <4>1. Registered(b)
        BY <2>1, <3>2, <3>5 DEF Registered
      <4>2. slots[b][i] \in Terminal
        <5>1. stage[Ticket(b, i)] = "done" /\ spawned[b] = Size(b) /\ CallOK(b, i)
          BY <2>1, <3>5, <4>1 DEF BInv, BatchInv, CallsInv
        <5>2. i <= spawned[b]
          BY <5>1, TicketFacts DEF BInv, Indices
        <5> QED BY <5>1, <5>2 DEF CallOK
      <4>3. slots[b][i] # "failed"
        BY <2>1, <3>5 DEF BInv, BatchInv, AccountInv
      <4> QED BY <3>5, <4>2, <4>3 DEF Terminal
    <3> QED BY <3>1, <3>3, <3>4, <3>5
  <2>2. ErrNamesFailures
    BY DEF BInv, BatchInv, AccountInv, ErrNamesFailures, Accounted
  <2>3. ContextMeansCaller
    BY DEF BInv, BatchInv, AccountInv, ContextMeansCaller
  <2> QED BY <2>1, <2>2, <2>3 DEF NoErrorMeansComplete
<1> QED BY <1>1, BatchInvariant, PTL

\* The channel, its events and the slots agree (ChannelClosedOnceAtEnd,
\* SendNeverBlocks, EventsMatchSlots), for batches of any size.
THEOREM EventsAreSound == BSpec => []EventStreamSound
<1>1. BInv => ChannelClosedOnceAtEnd
  <2> SUFFICES ASSUME BInv, NEW b \in Planners
               PROVE  /\ chanClosed[b] <= 1
                      /\ chanClosed[b] = 1 =>
                           /\ disp[b] \in {"none", "done"}
                           /\ \A i \in Indices(b) : slots[b][i] \in {"finished", "failed", "skipped"}
                           /\ disp[b] = "done" /\ err[b] # <<"register">> =>
                                \A i \in Indices(b) : Ticket(b, i) \in released
    BY DEF ChannelClosedOnceAtEnd
  <2>1. chanClosed[b] <= 1
    BY DEF BInv, BatchInv, ControlInv
  <2>2. ASSUME chanClosed[b] = 1 PROVE started[b] /\ disp[b] \in {"none", "done"}
    BY <2>2 DEF BInv, BatchInv, ControlInv
  <2>3. ASSUME chanClosed[b] = 1, NEW i \in Indices(b)
        PROVE  slots[b][i] \in {"finished", "failed", "skipped"}
    <3>1. CASE ~ Registered(b)
      BY <2>3, <3>1 DEF BInv, BatchInv, CallsInv
    <3>2. CASE Registered(b)
      <4>1. disp[b] = "done"
        BY <2>2, <2>3, <3>2 DEF Registered
      <4>2. stage[Ticket(b, i)] = "done" /\ spawned[b] = Size(b) /\ CallOK(b, i)
        BY <3>2, <4>1 DEF BInv, BatchInv, CallsInv
      <4>3. i <= spawned[b]
        BY <4>2, TicketFacts DEF BInv, Indices
      <4> QED BY <4>2, <4>3 DEF CallOK, Terminal
    <3> QED BY <3>1, <3>2
  <2>4. ASSUME disp[b] = "done", err[b] # <<"register">>, NEW i \in Indices(b)
        PROVE  Ticket(b, i) \in released
    <3>1. Registered(b) /\ stage[Ticket(b, i)] = "done"
      BY <2>4 DEF BInv, BatchInv, CallsInv, Registered
    <3>2. Ticket(b, i) \in Tickets
      BY <3>1, TicketFacts DEF BInv
    <3> QED BY <3>1, <3>2 DEF BInv, Inv, StageInv
  <2> QED BY <2>1, <2>2, <2>3, <2>4
<1>2. BInv => SendNeverBlocks
  <2> SUFFICES ASSUME BInv, NEW b \in Planners PROVE Len(log[b]) <= 2 * Size(b) + 1
    BY DEF SendNeverBlocks
  <2>1. /\ LogOK(log[b], Size(b)) /\ log[b] \in Seq(Events) /\ Size(b) \in Nat
        /\ Len(log[b]) \in Nat
    BY TicketFacts, LenProperties DEF BInv, BatchInv, LogInv, BTypeOK
  <2>2. Len(log[b]) <= 2 * Size(b)
    BY <2>1, LogBounded
  <2> QED BY <2>1, <2>2
<1>3. BInv => EventsMatchSlots
  <2> SUFFICES ASSUME BInv, NEW b \in Planners, NEW i \in Indices(b)
               PROVE  /\ slots[b][i] = "finished" =>
                           Cardinality(Sent(b, i, "finished")) = 1 /\ Sent(b, i, "failed") = {}
                      /\ slots[b][i] = "failed" =>
                           Cardinality(Sent(b, i, "failed")) = 1 /\ Sent(b, i, "finished") = {}
                      /\ slots[b][i] \in {"pending", "running", "skipped"} =>
                           Sent(b, i, "finished") \cup Sent(b, i, "failed") = {}
                      /\ slots[b][i] = "skipped" /\ ~ closed[b] => Sent(b, i, "started") = {}
                      /\ \A j \in Sent(b, i, "finished") : \E k \in Sent(b, i, "started") : k < j
    BY DEF EventsMatchSlots
  <2>1. LogOK(log[b], Size(b)) /\ EventsOK(b, i) /\ Len(log[b]) \in Nat
    BY LenProperties DEF BInv, BatchInv, LogInv, BTypeOK
  <2>2. \A k : Sent(b, i, k) = {} <=> ~ Has(log[b], i, k)
    BY DEF Sent, Has
  <2>3. ASSUME NEW k, Has(log[b], i, k) PROVE Cardinality(Sent(b, i, k)) = 1
    <3>1. PICK j \in 1 .. Len(log[b]) : log[b][j] = Event(k, i)
      BY <2>3 DEF Has
    <3>2. Sent(b, i, k) = {j}
      BY <2>1, <3>1 DEF Sent, LogOK
    <3> QED BY <3>2, FS_Singleton
  <2>4. ASSUME NEW j \in Sent(b, i, "finished") PROVE \E k \in Sent(b, i, "started") : k < j
    <3>1. j \in 1 .. Len(log[b]) /\ log[b][j] = Event("finished", i)
      BY <2>4 DEF Sent
    <3>2. log[b][j].kind = "finished" /\ log[b][j].index = i
      BY <3>1 DEF Event
    <3>3. PICK k \in 1 .. j - 1 : log[b][k] = Event("started", i)
      BY <2>1, <3>1, <3>2 DEF LogOK
    <3>4. k \in 1 .. Len(log[b]) /\ k < j
      BY <2>1, <3>1, <3>3
    <3> QED BY <3>3, <3>4 DEF Sent
  <2> QED BY <2>1, <2>2, <2>3, <2>4 DEF EventsOK
<1>4. BInv => EventStreamSound
  BY <1>1, <1>2, <1>3 DEF EventStreamSound
<1> QED BY <1>4, BatchInvariant, PTL
================================================================================

-------------------------- MODULE SessionManagerProofs --------------------------
(***************************************************************************)
(* Theorems about SessionManager for every set of sessions, clients,       *)
(* closers and operations.                                                 *)
(***************************************************************************)
EXTENDS SessionManager, FiniteSetTheorems, SequenceTheorems, TLAPS

Stages == {"idle", "entered", "leased", "loaded", "releasing", "leaving"}

MTypeOK ==
  /\ saved \in [IDs -> Record \cup {Absent}]
  /\ open \in BOOLEAN
  /\ closes \in Nat
  /\ active \in Nat
  /\ closing \in BOOLEAN
  /\ closeDone \in BOOLEAN
  /\ closeErr \in {"none", "ok", "error"}
  /\ closer \in [Closers -> {"idle", "awaiting", "draining", "publishing", "returned"}]
  /\ result \in [Closers -> {"none", "ok", "error"}]
  /\ entry \in [IDs -> Locks \cup {NoLock}]
  /\ token \in SUBSET Locks
  /\ refs \in [Locks -> SUBSET Clients]
  /\ pc \in [Clients -> Stages]
  /\ op \in [Clients -> Ops]
  /\ lease \in [Clients -> [IDs -> {"none", "waiting", "held", "dropping"}]]
  /\ lock \in [Clients -> [IDs -> Locks \cup {NoLock}]]
  /\ work \in [Clients -> Record \cup {Absent}]
  /\ outcome \in [Clients -> {"none", "ok", "failed", "uncertain", "closed"}]

Inside == {p \in Clients : pc[p] # "idle"}

\* drainClose: active counts the clients inside; the store is closed once, by
\* the caller of Close that found closing unset, when nobody is inside.
GateInv ==
  /\ IsFiniteSet(Inside)
  /\ active = Cardinality(Inside)
  /\ open <=> closes = 0
  /\ closes \in {0, 1}
  /\ closes = 1 => closing /\ Inside = {}
  /\ \A p \in Clients : outcome[p] # "closed"

CloserInv ==
  /\ ~ closing => \A k \in Closers : closer[k] = "idle"
  /\ closeDone => closing /\ closes = 1 /\ closeErr # "none"
  /\ \A k \in Closers :
       /\ closer[k] = "draining" => closes = 0 /\ ~ closeDone
       /\ closer[k] = "publishing" => closes = 1 /\ ~ closeDone /\ result[k] # "none"
       /\ closer[k] = "returned" => closeDone /\ result[k] = closeErr
  /\ \A j, k \in Closers :
       closer[j] \in {"draining", "publishing"} /\ closer[k] \in {"draining", "publishing"} => j = k

\* What the lock table, the references and the leases have to do with each
\* other: no two IDs share a lock object, a reference belongs to a lease.
TableInv ==
  /\ \A p \in Clients : \A id \in IDs :
       lease[p][id] # "none" =>
         entry[id] # NoLock /\ lock[p][id] = entry[id] /\ p \in refs[entry[id]]
  /\ \A l \in Locks : \A p \in refs[l] : \E id \in IDs : lease[p][id] # "none" /\ lock[p][id] = l
  /\ \A i, j \in IDs : entry[i] # NoLock /\ entry[i] = entry[j] => i = j
  /\ \A id \in IDs : entry[id] # NoLock => refs[entry[id]] # {}

\* The token of a lock that is in the table is in its channel or with one holder.
TokenInv ==
  /\ \A p, q \in Clients : \A id \in IDs :
       lease[p][id] = "held" /\ lease[q][id] = "held" => p = q
  /\ \A p \in Clients : \A id \in IDs : lease[p][id] = "held" => entry[id] \notin token

\* Where a client may have leases, and where it has all it needs.
StageOK(p) ==
  /\ \A id \in IDs : lease[p][id] # "none" => id \in Needed(op[p])
  /\ pc[p] \in {"idle", "leaving"} => \A id \in IDs : lease[p][id] = "none"
  /\ pc[p] = "entered" /\ op[p].kind # "get" => \E id \in Needed(op[p]) : lease[p][id] # "held"
  /\ pc[p] \in {"leased", "loaded"} => \A id \in Needed(op[p]) : lease[p][id] = "held"
  /\ pc[p] = "entered" /\ op[p].kind = "get" => \A id \in IDs : lease[p][id] = "none"

StageInv == \A p \in Clients : StageOK(p)

\* A record that was loaded is still what is stored.
WorkInv ==
  \A p \in Clients :
    pc[p] = "loaded" => Loads(op[p]) /\ work[p] = saved[op[p].src] /\ work[p] # Absent

MInv == MTypeOK /\ GateInv /\ CloserInv /\ TableInv /\ TokenInv /\ StageInv /\ WorkInv

--------------------------------------------------------------------------------
(***************************************************************************)
(* Which IDs and locks an action is about.                                 *)
(***************************************************************************)

\* An operation leases one or two IDs of the store.
LEMMA NeededIDs ==
  ASSUME MTypeOK, NEW p \in Clients
  PROVE  /\ op[p] \in Ops /\ op[p].id \in IDs /\ op[p].src \in IDs
         /\ Needed(op[p]) \subseteq IDs
  BY ManagerAssumption DEF MTypeOK, Needed

\* acquireTwo always finds the next ID to lease.
LEMMA NextIDProperties ==
  ASSUME MTypeOK, StageInv, NEW p \in Clients, pc[p] = "entered", op[p].kind # "get"
  PROVE  /\ NextID(p) \in Needed(op[p])
         /\ NextID(p) \in IDs
         /\ lease[p][NextID(p)] # "held"
<1> DEFINE S == {id \in Needed(op[p]) : lease[p][id] # "held"}
<1>1. op[p].id \in Nat /\ op[p].src \in Nat /\ Needed(op[p]) \subseteq IDs
  BY NeededIDs, SessionsAssumption
<1>2. S # {}
  BY DEF StageInv, StageOK
<1>3. \E x \in S : \A y \in S : x <= y
  <2>1. S \subseteq {op[p].id, op[p].src}
    BY DEF Needed
  <2>2. CASE op[p].id <= op[p].src
    BY <1>1, <1>2, <2>1, <2>2
  <2>3. CASE op[p].src <= op[p].id
    BY <1>1, <1>2, <2>1, <2>3
  <2> QED BY <1>1, <2>2, <2>3
<1>4. NextID(p) \in S
  BY <1>3 DEF NextID, Min
<1> QED BY <1>1, <1>4

\* The release functions run in the reverse order; there is always a last one.
LEMMA LastLeaseProperties ==
  ASSUME MTypeOK, StageInv, NEW p \in Clients, \E i \in IDs : lease[p][i] # "none"
  PROVE  Max({i \in IDs : lease[p][i] # "none"}) \in IDs
<1> DEFINE S == {i \in IDs : lease[p][i] # "none"}
<1>1. op[p].id \in Nat /\ op[p].src \in Nat
  BY NeededIDs, SessionsAssumption
<1>2. S # {} /\ S \subseteq {op[p].id, op[p].src}
  BY DEF StageInv, StageOK, Needed
<1>3. \E x \in S : \A y \in S : x >= y
  <2>2. CASE op[p].id <= op[p].src
    BY <1>1, <1>2, <2>2
  <2>3. CASE op[p].src <= op[p].id
    BY <1>1, <1>2, <2>3
  <2> QED BY <1>1, <2>2, <2>3
<1>4. Max(S) \in S
  BY <1>3 DEF Max
<1> QED BY <1>4

\* acquire can always make a new lock: the ones in use belong to other IDs.
LEMMA FreeLock ==
  ASSUME MTypeOK, TableInv, NEW id \in IDs, entry[id] = NoLock
  PROVE  \E l \in Locks : refs[l] = {}
<1> SUFFICES ASSUME \A l \in Locks : refs[l] # {}
             PROVE  FALSE
  OBVIOUS
<1> DEFINE J == {i \in IDs : entry[i] # NoLock}
           f == [i \in J |-> entry[i]]
<1>1. \A l \in Locks : \E i \in J : f[i] = l
  <2> TAKE l \in Locks
  <2>1. PICK p \in refs[l] : TRUE
    OBVIOUS
  <2>2. PICK i \in IDs : lease[p][i] # "none" /\ lock[p][i] = l
    BY <2>1 DEF TableInv
  <2>3. p \in Clients
    BY <2>1 DEF MTypeOK
  <2>4. entry[i] = l /\ entry[i] # NoLock
    BY <2>2, <2>3 DEF TableInv
  <2> QED BY <2>4
<1>2. f \in [J -> Locks]
  BY DEF MTypeOK
<1>3. f \in Surjection(J, Locks)
  BY <1>1, <1>2 DEF Surjection
<1>4. J \in SUBSET (IDs \ {id})
  OBVIOUS
<1>5. IsFiniteSet(IDs) /\ IsFiniteSet(Locks) /\ Cardinality(IDs) <= Cardinality(Locks)
  BY ManagerAssumption
<1>6. IsFiniteSet(IDs \ {id}) /\ Cardinality(IDs \ {id}) = Cardinality(IDs) - 1
  BY <1>5, FS_RemoveElement
<1>7. IsFiniteSet(J) /\ Cardinality(J) <= Cardinality(IDs \ {id})
  BY <1>4, <1>6, FS_Subset
<1>8. Cardinality(Locks) <= Cardinality(J)
  <2> HIDE DEF f, J
  <2> QED BY <1>3, <1>7, FS_Surjection
<1>9. Cardinality(IDs) \in Nat /\ Cardinality(J) \in Nat /\ Cardinality(Locks) \in Nat
  BY <1>5, <1>7, FS_CardinalityType
<1> QED BY <1>5, <1>6, <1>7, <1>8, <1>9

--------------------------------------------------------------------------------
(***************************************************************************)
(* The leases.                                                             *)
(***************************************************************************)

\* Only acquire and release touch the lock table.
LEMMA LeaseSteps ==
  ASSUME [MNext]_mvars
  PROVE  \/ UNCHANGED leaseVars
         \/ \E p \in Clients : \/ CountRef(p) \/ TakeToken(p) \/ CancelAcquire(p)
                               \/ ReturnToken(p) \/ DropRef(p)
<1>1. CASE UNCHANGED mvars
  BY <1>1 DEF mvars
<1>2. ASSUME NEW p \in Clients, NEW o \in Ops, Enter(p, o)
      PROVE  UNCHANGED leaseVars
  BY <1>2 DEF Enter
<1>3. ASSUME NEW p \in Clients, Storing(p)
      PROVE  UNCHANGED leaseVars
  BY <1>3 DEF Storing, GetSession, Load, CreateSession, DeleteSession, ForkSession,
              PatchSession, AppendSession, AppendAt, Commit
<1>4. ASSUME NEW p \in Clients, Released(p) \/ Leave(p)
      PROVE  UNCHANGED leaseVars
  BY <1>4 DEF Released, Leave
<1>5. ASSUME NEW k \in Closers, CloseCalled(k) \/ Closing(k)
      PROVE  UNCHANGED leaseVars
  BY <1>5 DEF CloseCalled, Closing, StoreClose, CallStoreClose, PublishClose, CloseAwaited
<1> QED BY <1>1, <1>2, <1>3, <1>4, <1>5 DEF MNext, Acquiring, Releasing

\* What acquire's first part does, with its lock object named.
CountsRef(p, id, l) ==
  /\ lease[p][id] = "none" /\ pc[p] = "entered" /\ id \in Needed(op[p])
  /\ IF entry[id] # NoLock THEN l = entry[id] ELSE refs[l] = {}
  /\ entry' = [entry EXCEPT ![id] = l]
  /\ token' = IF entry[id] = NoLock THEN token \cup {l} ELSE token
  /\ refs' = [refs EXCEPT ![l] = @ \cup {p}]
  /\ lock' = [lock EXCEPT ![p][id] = l]
  /\ lease' = [lease EXCEPT ![p][id] = "waiting"]

\* acquire finds a lock of the ID or makes a free one, and counts itself on it.
LEMMA CountRefEffect ==
  ASSUME MInv, NEW p \in Clients, CountRef(p)
  PROVE  \E id \in IDs, l \in Locks : CountsRef(p, id, l)
<1> USE DEF MInv
<1>1. pc[p] = "entered" /\ op[p].kind # "get"
  BY DEF CountRef
<1>2. NextID(p) \in IDs /\ NextID(p) \in Needed(op[p])
  BY <1>1, NextIDProperties
<1> DEFINE id == NextID(p)
           l == IF entry[id] # NoLock THEN entry[id] ELSE CHOOSE free \in Locks : refs[free] = {}
<1>3. l \in Locks /\ IF entry[id] # NoLock THEN l = entry[id] ELSE refs[l] = {}
  <2>1. CASE entry[id] # NoLock
    BY <1>2, <2>1 DEF MTypeOK
  <2>2. CASE entry[id] = NoLock
    BY <1>2, <2>2, FreeLock
  <2> QED BY <2>1, <2>2
<1>4. /\ lease[p][id] = "none"
      /\ entry' = [entry EXCEPT ![id] = l]
      /\ token' = IF entry[id] = NoLock THEN token \cup {l} ELSE token
      /\ refs' = [refs EXCEPT ![l] = @ \cup {p}]
      /\ lock' = [lock EXCEPT ![p][id] = l]
      /\ lease' = [lease EXCEPT ![p][id] = "waiting"]
  BY DEF CountRef
<1> HIDE DEF id, l
<1>5. CountsRef(p, id, l)
  BY <1>1, <1>2, <1>3, <1>4 DEF id, CountsRef
<1> QED BY <1>2, <1>3, <1>5 DEF id

\* The two actions that drop a reference do it for a lease they have.
LEMMA DropEffect ==
  ASSUME MInv, NEW p \in Clients, CancelAcquire(p) \/ DropRef(p)
  PROVE  \E id \in IDs :
           /\ lease[p][id] \in {"waiting", "dropping"}
           /\ ReleaseRef(p, id)
           /\ token' = token
  BY NextIDProperties DEF MInv, CancelAcquire, DropRef

\* The table keeps, for each ID, the one lock its references are on.
LEMMA TableStep ==
  ASSUME MInv, [MNext]_mvars
  PROVE  TableInv'
<1> USE DEF MInv, MTypeOK
<1>1. CASE UNCHANGED leaseVars
  BY <1>1 DEF leaseVars, TableInv
<1>2. ASSUME NEW p \in Clients, CountRef(p)
      PROVE  TableInv'
  <2>1. PICK id \in IDs, l \in Locks : CountsRef(p, id, l)
    BY <1>2, CountRefEffect
  <2> USE <2>1 DEF CountsRef
  <2>2. \A j \in IDs : j # id => entry[j] # l
    <3>1. CASE entry[id] # NoLock
      BY <2>1, <3>1 DEF TableInv
    <3>2. CASE entry[id] = NoLock
      <4> SUFFICES ASSUME NEW j \in IDs, entry[j] = l
                   PROVE  FALSE
        OBVIOUS
      <4>1. entry[j] # NoLock
        BY ManagerAssumption
      <4>2. refs[entry[j]] # {}
        BY <4>1 DEF TableInv
      <4> QED BY <3>2, <4>2
    <3> QED BY <3>1, <3>2
  <2>3. \A q \in Clients : \A j \in IDs :
          lease'[q][j] # "none" =>
            entry'[j] # NoLock /\ lock'[q][j] = entry'[j] /\ q \in refs'[entry'[j]]
    <3> SUFFICES ASSUME NEW q \in Clients, NEW j \in IDs, lease'[q][j] # "none"
                 PROVE  entry'[j] # NoLock /\ lock'[q][j] = entry'[j] /\ q \in refs'[entry'[j]]
      OBVIOUS
    <3>1. CASE q = p /\ j = id
      BY <2>1, <3>1, ManagerAssumption
    <3>2. CASE ~ (q = p /\ j = id)
      <4>1. lease[q][j] # "none" /\ lock'[q][j] = lock[q][j]
        BY <2>1, <3>2
      <4>2. entry[j] # NoLock /\ lock[q][j] = entry[j] /\ q \in refs[entry[j]] /\ entry[j] \in Locks
        BY <4>1 DEF TableInv
      <4>3. entry'[j] = entry[j]
        BY <2>1, <4>2
      <4>4. q \in refs'[entry[j]]
        BY <2>1, <4>2
      <4> QED BY <4>1, <4>2, <4>3, <4>4
    <3> QED BY <3>1, <3>2
  <2>4. \A k \in Locks : \A q \in refs'[k] : \E j \in IDs : lease'[q][j] # "none" /\ lock'[q][j] = k
    <3> SUFFICES ASSUME NEW k \in Locks, NEW q \in refs'[k]
                 PROVE  \E j \in IDs : lease'[q][j] # "none" /\ lock'[q][j] = k
      OBVIOUS
    <3>1. CASE k = l /\ q = p
      <4>1. lease'[p][id] # "none" /\ lock'[p][id] = l
        BY <2>1
      <4> QED BY <3>1, <4>1
    <3>2. CASE ~ (k = l /\ q = p)
      <4>1. q \in refs[k]
        BY <2>1, <3>2
      <4>2. PICK j \in IDs : lease[q][j] # "none" /\ lock[q][j] = k
        BY <4>1 DEF TableInv
      <4>3. q \in Clients /\ ~ (q = p /\ j = id)
        BY <2>1, <4>1, <4>2
      <4>4. lease'[q][j] # "none" /\ lock'[q][j] = k
        BY <2>1, <4>2, <4>3
      <4> QED BY <4>4
    <3> QED BY <3>1, <3>2
  <2>5. \A i, j \in IDs : entry'[i] # NoLock /\ entry'[i] = entry'[j] => i = j
    BY <2>1, <2>2 DEF TableInv
  <2>6. \A j \in IDs : entry'[j] # NoLock => refs'[entry'[j]] # {}
    <3> SUFFICES ASSUME NEW j \in IDs, entry'[j] # NoLock
                 PROVE  refs'[entry'[j]] # {}
      OBVIOUS
    <3>1. CASE j = id
      BY <3>1
    <3>2. CASE j # id
      <4>1. entry'[j] = entry[j] /\ entry[j] \in Locks /\ refs[entry[j]] # {}
        BY <3>2 DEF TableInv
      <4> QED BY <4>1
    <3> QED BY <3>1, <3>2
  <2> QED BY <2>3, <2>4, <2>5, <2>6 DEF TableInv
<1>3. ASSUME NEW p \in Clients, TakeToken(p) \/ ReturnToken(p)
      PROVE  TableInv'
  <2>1. PICK id \in IDs : \E new \in {"held", "dropping"} :
          lease[p][id] # "none" /\ lease' = [lease EXCEPT ![p][id] = new]
    BY <1>3, NextIDProperties, LastLeaseProperties DEF TakeToken, ReturnToken
  <2>2. UNCHANGED <<entry, refs, lock>>
    BY <1>3 DEF TakeToken, ReturnToken
  <2>3. \A q \in Clients : \A j \in IDs : lease'[q][j] # "none" <=> lease[q][j] # "none"
    BY <2>1
  <2> QED BY <2>2, <2>3 DEF TableInv
<1>4. ASSUME NEW p \in Clients, CancelAcquire(p) \/ DropRef(p)
      PROVE  TableInv'
  <2>1. PICK id \in IDs : lease[p][id] \in {"waiting", "dropping"} /\ ReleaseRef(p, id)
    BY <1>4, DropEffect
  <2> DEFINE l == entry[id]
  <2>2. l \in Locks /\ lock[p][id] = l /\ p \in refs[l]
    BY <2>1 DEF TableInv
  <2>3. /\ refs' = [refs EXCEPT ![l] = @ \ {p}]
        /\ entry' = IF refs[l] = {p} THEN [entry EXCEPT ![id] = NoLock] ELSE entry
        /\ lease' = [lease EXCEPT ![p][id] = "none"]
        /\ lock' = [lock EXCEPT ![p][id] = NoLock]
    BY <2>1, <2>2 DEF ReleaseRef, DropReference
  <2>4. \A j \in IDs : j # id => entry[j] # l
    BY <2>2 DEF TableInv
  <2> HIDE DEF l
  <2>5. \A q \in Clients : \A j \in IDs :
          lease'[q][j] # "none" =>
            entry'[j] # NoLock /\ lock'[q][j] = entry'[j] /\ q \in refs'[entry'[j]]
    <3> SUFFICES ASSUME NEW q \in Clients, NEW j \in IDs, lease'[q][j] # "none"
                 PROVE  entry'[j] # NoLock /\ lock'[q][j] = entry'[j] /\ q \in refs'[entry'[j]]
      OBVIOUS
    <3>1. ~ (q = p /\ j = id) /\ lease[q][j] # "none" /\ lock'[q][j] = lock[q][j]
      BY <2>3
    <3>2. entry[j] \in Locks /\ lock[q][j] = entry[j] /\ q \in refs[entry[j]]
      BY <3>1 DEF TableInv
    <3>3. q # p \/ entry[j] # l
      BY <2>4, <3>1
    <3>4. q \in refs'[entry[j]]
      BY <2>2, <2>3, <3>2, <3>3
    <3>5. entry'[j] = entry[j]
      BY <2>2, <2>3, <3>2, <3>1 DEF l
    <3> QED BY <3>1, <3>2, <3>4, <3>5, ManagerAssumption
  <2>6. \A k \in Locks : \A q \in refs'[k] : \E j \in IDs : lease'[q][j] # "none" /\ lock'[q][j] = k
    <3> SUFFICES ASSUME NEW k \in Locks, NEW q \in refs'[k]
                 PROVE  \E j \in IDs : lease'[q][j] # "none" /\ lock'[q][j] = k
      OBVIOUS
    <3>1. q \in refs[k] /\ q \in Clients /\ ~ (k = l /\ q = p)
      BY <2>2, <2>3
    <3>2. PICK j \in IDs : lease[q][j] # "none" /\ lock[q][j] = k
      BY <3>1 DEF TableInv
    <3>3. ~ (q = p /\ j = id)
      BY <2>2, <3>1, <3>2
    <3>4. lease'[q][j] # "none" /\ lock'[q][j] = k
      BY <2>3, <3>1, <3>2, <3>3
    <3> QED BY <3>4
  <2>7. \A i, j \in IDs : entry'[i] # NoLock /\ entry'[i] = entry'[j] => i = j
    BY <2>3 DEF TableInv
  <2>8. \A j \in IDs : entry'[j] # NoLock => refs'[entry'[j]] # {}
    <3> SUFFICES ASSUME NEW j \in IDs, entry'[j] # NoLock
                 PROVE  refs'[entry'[j]] # {}
      OBVIOUS
    <3>1. entry'[j] = entry[j] /\ entry[j] \in Locks /\ refs[entry[j]] # {}
      BY <2>3 DEF TableInv
    <3>2. CASE j = id
      BY <2>2, <2>3, <3>1, <3>2 DEF l
    <3>3. CASE j # id
      BY <2>3, <2>4, <3>1, <3>3
    <3> QED BY <3>2, <3>3
  <2> QED BY <2>5, <2>6, <2>7, <2>8 DEF TableInv
<1> QED BY <1>1, <1>2, <1>3, <1>4, LeaseSteps

\* A lock's token is out exactly while one client holds its lease.
LEMMA TokenStep ==
  ASSUME MInv, [MNext]_mvars
  PROVE  TokenInv'
<1> USE DEF MInv, MTypeOK
<1>1. CASE UNCHANGED leaseVars
  BY <1>1 DEF leaseVars, TokenInv
<1>2. ASSUME NEW p \in Clients, CountRef(p)
      PROVE  TokenInv'
  <2>1. PICK id \in IDs, l \in Locks : CountsRef(p, id, l)
    BY <1>2, CountRefEffect
  <2>2. \A q \in Clients : \A j \in IDs : lease'[q][j] = "held" => lease[q][j] = "held"
    BY <2>1 DEF CountsRef
  <2>3. \A q \in Clients : \A j \in IDs : lease[q][j] = "held" => entry'[j] \notin token'
    <3> SUFFICES ASSUME NEW q \in Clients, NEW j \in IDs, lease[q][j] = "held"
                 PROVE  entry'[j] \notin token'
      OBVIOUS
    <3>1. entry[j] # NoLock /\ entry[j] \notin token /\ refs[entry[j]] # {} /\ entry[j] \in Locks
      BY DEF TableInv, TokenInv
    <3>2. entry'[j] = entry[j]
      BY <2>1, <3>1 DEF CountsRef
    <3>3. entry[id] = NoLock => entry[j] # l
      BY <2>1, <3>1 DEF CountsRef
    <3> QED BY <2>1, <3>1, <3>2, <3>3 DEF CountsRef
  <2> QED BY <2>2, <2>3 DEF TokenInv
<1>3. ASSUME NEW p \in Clients, TakeToken(p)
      PROVE  TokenInv'
  <2> DEFINE id == NextID(p)
  <2>1. /\ id \in IDs /\ lease[p][id] = "waiting" /\ entry[id] \in token /\ entry' = entry
        /\ token' = token \ {entry[id]} /\ lease' = [lease EXCEPT ![p][id] = "held"]
    <3>1. id \in IDs
      BY <1>3, NextIDProperties DEF TakeToken
    <3>2. lease[p][id] = "waiting" /\ lock[p][id] = entry[id]
      BY <1>3, <3>1 DEF TakeToken, TableInv
    <3> QED BY <1>3, <3>1, <3>2 DEF TakeToken
  <2> HIDE DEF id
  <2>2. \A q \in Clients : lease[q][id] # "held"
    BY <2>1 DEF TokenInv
  <2>3. \A q \in Clients : \A j \in IDs :
          lease'[q][j] = "held" => (q = p /\ j = id) \/ lease[q][j] = "held"
    BY <2>1
  <2> QED BY <2>1, <2>2, <2>3 DEF TokenInv
<1>4. ASSUME NEW p \in Clients, ReturnToken(p)
      PROVE  TokenInv'
  <2>1. PICK id \in IDs : /\ lease[p][id] = "held"
                          /\ token' = token \cup {lock[p][id]}
                          /\ lease' = [lease EXCEPT ![p][id] = "dropping"]
    BY <1>4, LastLeaseProperties DEF ReturnToken
  <2>2. entry' = entry /\ lock[p][id] = entry[id] /\ entry[id] # NoLock
    BY <1>4, <2>1 DEF ReturnToken, TableInv
  <2>3. \A q \in Clients : \A j \in IDs : lease'[q][j] = "held" => lease[q][j] = "held" /\ j # id
    BY <2>1 DEF TokenInv
  <2>4. \A j \in IDs : j # id => entry[j] # entry[id]
    BY <2>2 DEF TableInv
  <2> QED BY <2>1, <2>2, <2>3, <2>4 DEF TokenInv
<1>5. ASSUME NEW p \in Clients, CancelAcquire(p) \/ DropRef(p)
      PROVE  TokenInv'
  <2>1. PICK id \in IDs : /\ lease[p][id] \in {"waiting", "dropping"}
                          /\ ReleaseRef(p, id) /\ token' = token
    BY <1>5, DropEffect
  <2>2. \A q \in Clients : \A j \in IDs :
          lease'[q][j] = "held" => lease[q][j] = "held"
    BY <2>1 DEF ReleaseRef, DropReference
  <2>3. \A j \in IDs : entry'[j] \in {entry[j], NoLock}
    BY <2>1 DEF ReleaseRef, DropReference
  <2>4. NoLock \notin token
    BY ManagerAssumption
  <2>5. \A q \in Clients : \A j \in IDs : lease'[q][j] = "held" => entry'[j] \notin token
    BY <2>2, <2>3, <2>4 DEF TokenInv
  <2> QED BY <2>1, <2>2, <2>5 DEF TokenInv
<1> QED BY <1>1, <1>2, <1>3, <1>4, <1>5, LeaseSteps

\* A client has, at each stage of a method, exactly the leases that stage needs.
LEMMA StageStep ==
  ASSUME MInv, [MNext]_mvars
  PROVE  StageInv'
<1> USE DEF MInv, MTypeOK
<1>1. CASE UNCHANGED mvars
  BY <1>1 DEF mvars, leaseVars, StageInv, StageOK, Needed
<1>2. ASSUME NEW p \in Clients, NEW o \in Ops, Enter(p, o)
      PROVE  StageInv'
  <2>1. \A id \in IDs : lease[p][id] = "none"
    BY <1>2 DEF Enter, StageInv, StageOK
  <2>2. Needed(o) \subseteq IDs /\ Needed(o) # {}
    BY ManagerAssumption DEF Needed
  <2>3. /\ lease' = lease /\ op' = [op EXCEPT ![p] = o]
        /\ \E s \in {"entered", "leaving"} : pc' = [pc EXCEPT ![p] = s]
    BY <1>2 DEF Enter, Goto, leaseVars
  <2> SUFFICES ASSUME NEW q \in Clients
               PROVE  StageOK(q)'
    BY DEF StageInv
  <2>4. CASE q = p
    BY <2>1, <2>2, <2>3, <2>4 DEF StageOK
  <2>5. CASE q # p
    BY <2>3, <2>5 DEF StageInv, StageOK
  <2> QED BY <2>4, <2>5
<1>3. ASSUME NEW p \in Clients, CountRef(p)
      PROVE  StageInv'
  <2>1. PICK id \in IDs, l \in Locks : CountsRef(p, id, l)
    BY <1>3, CountRefEffect
  <2>2. pc' = pc /\ op' = op /\ op[p].kind # "get"
    BY <1>3 DEF CountRef
  <2> QED BY <2>1, <2>2 DEF CountsRef, StageInv, StageOK
<1>4. ASSUME NEW p \in Clients, TakeToken(p)
      PROVE  StageInv'
  <2> DEFINE id == NextID(p)
  <2>1. /\ id \in IDs /\ id \in Needed(op[p]) /\ lease' = [lease EXCEPT ![p][id] = "held"]
        /\ pc' = [pc EXCEPT ![p] = IF \A i \in Needed(op[p]) \ {id} : lease[p][i] = "held"
                                   THEN "leased" ELSE "entered"]
        /\ op' = op /\ pc[p] = "entered" /\ op[p].kind # "get"
    BY <1>4, NextIDProperties DEF TakeToken, Goto
  <2>2. Needed(op[p]) \subseteq IDs
    BY NeededIDs
  <2> HIDE DEF id
  <2> QED BY <2>1, <2>2 DEF StageInv, StageOK
<1>5. ASSUME NEW p \in Clients, CancelAcquire(p) \/ DropRef(p)
      PROVE  StageInv'
  <2>1. PICK id \in IDs : /\ lease[p][id] \in {"waiting", "dropping"}
                          /\ ReleaseRef(p, id) /\ token' = token
    BY <1>5, DropEffect
  <2>2. op' = op /\ pc' = [pc EXCEPT ![p] = "releasing"]
    BY <1>5 DEF CancelAcquire, DropRef, Goto
  <2>3. lease' = [lease EXCEPT ![p][id] = "none"]
    BY <2>1 DEF ReleaseRef, DropReference
  <2> QED BY <2>2, <2>3, NeededIDs DEF StageInv, StageOK
<1>6. ASSUME NEW p \in Clients, ReturnToken(p)
      PROVE  StageInv'
  <2>1. PICK id \in IDs : lease[p][id] = "held" /\ lease' = [lease EXCEPT ![p][id] = "dropping"]
    BY <1>6, LastLeaseProperties DEF ReturnToken
  <2>2. op' = op /\ pc' = pc /\ pc[p] = "releasing"
    BY <1>6 DEF ReturnToken
  <2> QED BY <2>1, <2>2, NeededIDs DEF StageInv, StageOK
<1>7. ASSUME NEW p \in Clients, Storing(p)
      PROVE  StageInv'
  <2>1. UNCHANGED <<lease, op>>
    BY <1>7 DEF Storing, GetSession, Load, CreateSession, DeleteSession, ForkSession,
                PatchSession, AppendSession, AppendAt, Commit, leaseVars
  <2>2. \/ pc[p] = "entered" /\ op[p].kind = "get" /\ pc' = [pc EXCEPT ![p] = "leaving"]
        \/ pc[p] \in {"leased", "loaded"} /\ \E s \in {"loaded", "releasing"} : pc' = [pc EXCEPT ![p] = s]
    BY <1>7 DEF Storing, GetSession, Load, CreateSession, DeleteSession, ForkSession,
                PatchSession, AppendSession, AppendAt, Commit, Goto
  <2> SUFFICES ASSUME NEW q \in Clients
               PROVE  StageOK(q)'
    BY DEF StageInv
  <2>3. CASE q = p
    BY <2>1, <2>2, <2>3 DEF StageInv, StageOK
  <2>4. CASE q # p
    BY <2>1, <2>2, <2>4 DEF StageInv, StageOK
  <2> QED BY <2>3, <2>4
<1>8. ASSUME NEW p \in Clients, Released(p)
      PROVE  StageInv'
  BY <1>8 DEF Released, Goto, leaseVars, StageInv, StageOK
<1>9. ASSUME NEW p \in Clients, Leave(p)
      PROVE  StageInv'
  BY <1>9 DEF Leave, Goto, leaseVars, StageInv, StageOK
<1>10. ASSUME NEW k \in Closers, CloseCalled(k) \/ Closing(k)
       PROVE  StageInv'
  <2>1. UNCHANGED <<lease, pc, op>>
    BY <1>10 DEF CloseCalled, Closing, StoreClose, CallStoreClose, PublishClose, CloseAwaited, leaseVars
  <2> QED BY <2>1 DEF StageInv, StageOK
<1> QED BY <1>1, <1>2, <1>3, <1>4, <1>5, <1>6, <1>7, <1>8, <1>9, <1>10
           DEF MNext, Acquiring, Releasing

--------------------------------------------------------------------------------
(***************************************************************************)
(* The records.                                                            *)
(***************************************************************************)

\* What the writes of a session compute from it are sessions again.
LEMMA RecordTypes ==
  ASSUME NEW r \in Record, NEW m \in Clients, NEW src \in IDs, NEW now \in Times
  PROVE  /\ Fresh(now) \in Record
         /\ Append1(r, m, now) \in Record
         /\ Patched(r, m, now) \in Record
         /\ Forked(r, src, now) \in Record
         /\ Record \subseteq Record \cup {Absent}
<1>1. Stamp(r, now) \in Times
  BY DEF Stamp, Record
<1>2. Append(r.msgs, m) \in Seq(Clients)
  BY AppendProperties DEF Record
<1>3. Append1(r, m, now) \in Record
  BY <1>1, <1>2 DEF Append1, Record
<1>4. Patched(r, m, now) \in Record
  BY <1>1 DEF Patched, Record
<1>5. Forked(r, src, now) \in Record
  BY DEF Forked, Record
<1>6. <<>> \in Seq(Clients)
  BY EmptySeq
<1>7. Fresh(now) \in Record
  BY <1>6 DEF Fresh, Record
<1> QED BY <1>3, <1>4, <1>5, <1>7

\* What a client that has loaded goes on from.
LEMMA LoadedRecord ==
  ASSUME MInv, NEW p \in Clients, pc[p] = "loaded"
  PROVE  work[p] \in Record
  BY DEF MInv, MTypeOK, WorkInv

\* What a client's store call may do: it writes the session it is for, and it
\* has loaded only what is stored.
LEMMA StoringEffect ==
  ASSUME MInv, NEW p \in Clients, Storing(p)
  PROVE  /\ UNCHANGED <<open, lifeVars, leaseVars, op>>
         /\ \/ saved' = saved
            \/ /\ pc[p] \in {"leased", "loaded"}
               /\ \E r \in Record \cup {Absent} : saved' = [saved EXCEPT ![op[p].id] = r]
         /\ \E what \in {"none", "ok", "failed", "uncertain", "closed"} :
              /\ outcome' = [outcome EXCEPT ![p] = what]
              /\ open => what # "closed"
         /\ \E r \in Record \cup {Absent} : work' = [work EXCEPT ![p] = r]
         /\ \/ pc' = [pc EXCEPT ![p] = "releasing"] \/ pc' = [pc EXCEPT ![p] = "leaving"]
            \/ /\ pc' = [pc EXCEPT ![p] = "loaded"] /\ pc[p] = "leased" /\ Loads(op[p])
               /\ saved' = saved /\ saved[op[p].src] # Absent
               /\ work' = [work EXCEPT ![p] = saved[op[p].src]]
         /\ pc[p] # "idle"
<1> USE DEF MInv
<1>1. op[p].id \in IDs /\ op[p].src \in IDs
  BY NeededIDs
<1>2. outcome = [outcome EXCEPT ![p] = outcome[p]] /\ work = [work EXCEPT ![p] = work[p]]
  BY DEF MTypeOK
<1>3. /\ outcome[p] \in {"none", "ok", "failed", "uncertain", "closed"} /\ outcome[p] # "closed"
      /\ work[p] \in Record \cup {Absent} /\ Absent \in Record \cup {Absent}
  BY DEF MTypeOK, GateInv
<1>4. CASE GetSession(p)
  BY <1>2, <1>3, <1>4 DEF GetSession, StoreUnchanged, Return, Goto
<1>5. CASE Load(p)
  <2>1. saved[op[p].src] \in Record \cup {Absent}
    BY <1>1 DEF MTypeOK
  <2> QED BY <1>2, <1>3, <1>5, <2>1 DEF Load, StoreUnchanged, Return, Goto, Exists
<1>6. ASSUME NEW r \in Record, NEW x \in BOOLEAN, pc[p] \in {"leased", "loaded"},
             Commit(p, op[p].id, r, x)
      PROVE  /\ UNCHANGED <<open, lifeVars, leaseVars, op>>
             /\ saved' = saved \/ \E rec \in Record \cup {Absent} : saved' = [saved EXCEPT ![op[p].id] = rec]
             /\ \E what \in {"none", "ok", "failed", "uncertain", "closed"} :
                  /\ outcome' = [outcome EXCEPT ![p] = what]
                  /\ open => what # "closed"
             /\ work' = [work EXCEPT ![p] = Absent]
             /\ pc' = [pc EXCEPT ![p] = "releasing"]
  BY <1>6 DEF Commit, Put, Write, StoreUnchanged, Return, Goto
<1>7. CASE CreateSession(p)
  <2>1. PICK now \in Times : Commit(p, op[p].id, Fresh(now), TRUE)
    BY <1>7 DEF CreateSession
  <2>2. Fresh(now) \in Record /\ pc[p] = "leased"
    BY <1>7, EmptySeq DEF CreateSession, Fresh, Record
  <2> QED BY <1>3, <1>6, <2>1, <2>2
<1>8. CASE DeleteSession(p)
  BY <1>2, <1>3, <1>8 DEF DeleteSession, Write, StoreUnchanged, Return, Goto
<1>9. CASE ForkSession(p)
  <2>1. PICK now \in Times : Commit(p, op[p].id, Forked(work[p], op[p].src, now), TRUE)
    BY <1>9 DEF ForkSession
  <2>2. pc[p] = "loaded"
    BY <1>9 DEF ForkSession
  <2>3. Forked(work[p], op[p].src, now) \in Record
    BY <1>1, <2>2, LoadedRecord, RecordTypes
  <2> QED BY <1>3, <1>6, <2>1, <2>2, <2>3
<1>10. CASE PatchSession(p)
  <2>1. PICK now \in Times : Commit(p, op[p].id, Patched(work[p], p, now), FALSE)
    BY <1>10 DEF PatchSession
  <2>2. pc[p] = "loaded"
    BY <1>10 DEF PatchSession
  <2>3. Patched(work[p], p, now) \in Record
    BY <1>1, <2>2, LoadedRecord, RecordTypes
  <2> QED BY <1>3, <1>6, <2>1, <2>2, <2>3
<1>11. ASSUME NEW now \in Times, Commit(p, op[p].id, Append1(work[p], p, now), FALSE), pc[p] = "loaded"
       PROVE  Append1(work[p], p, now) \in Record
  BY <1>1, <1>11, LoadedRecord, RecordTypes
<1>12. CASE AppendSession(p)
  <2>1. PICK now \in Times : Commit(p, op[p].id, Append1(work[p], p, now), FALSE)
    BY <1>12 DEF AppendSession
  <2>2. pc[p] = "loaded"
    BY <1>12 DEF AppendSession
  <2> QED BY <1>3, <1>6, <1>11, <2>1, <2>2
<1>13. CASE AppendAt(p)
  <2>1. pc[p] = "loaded"
    BY <1>13 DEF AppendAt
  <2>2. CASE \E now \in Times : Commit(p, op[p].id, Append1(work[p], p, now), FALSE)
    <3>1. PICK now \in Times : Commit(p, op[p].id, Append1(work[p], p, now), FALSE)
      BY <2>2
    <3> QED BY <1>3, <1>6, <1>11, <2>1, <3>1
  <2>3. CASE ~ \E now \in Times : Commit(p, op[p].id, Append1(work[p], p, now), FALSE)
    BY <1>3, <1>13, <2>1, <2>3 DEF AppendAt, StoreUnchanged, Return, Goto
  <2> QED BY <2>2, <2>3
<1> QED BY <1>4, <1>5, <1>7, <1>8, <1>9, <1>10, <1>12, <1>13 DEF Storing

\* Nobody else writes a session that a client has loaded: both hold its lease.
LEMMA WorkStep ==
  ASSUME MInv, [MNext]_mvars
  PROVE  WorkInv'
<1> USE DEF MInv
<1> SUFFICES ASSUME NEW q \in Clients, pc'[q] = "loaded"
             PROVE  Loads(op'[q]) /\ work'[q] = saved'[op'[q].src] /\ work'[q] # Absent
  BY DEF WorkInv
<1>1. CASE /\ UNCHANGED <<saved, work>> /\ pc[q] = "loaded" /\ op'[q] = op[q]
  BY <1>1 DEF WorkInv
<1>2. CASE UNCHANGED mvars
  BY <1>1, <1>2 DEF mvars
<1>3. ASSUME NEW p \in Clients, NEW o \in Ops, Enter(p, o)
      PROVE  /\ UNCHANGED <<saved, work>> /\ pc[q] = "loaded" /\ op'[q] = op[q]
  BY <1>3 DEF Enter, Goto, MTypeOK
<1>4. ASSUME NEW p \in Clients, Acquiring(p)
      PROVE  /\ UNCHANGED <<saved, work>> /\ pc[q] = "loaded" /\ op'[q] = op[q]
  BY <1>4 DEF Acquiring, CountRef, TakeToken, CancelAcquire, Goto, MTypeOK
<1>5. ASSUME NEW p \in Clients, Releasing(p)
      PROVE  /\ UNCHANGED <<saved, work>> /\ pc[q] = "loaded" /\ op'[q] = op[q]
  BY <1>5 DEF Releasing, ReturnToken, DropRef, Released, Leave, Goto, MTypeOK
<1>6. ASSUME NEW k \in Closers, CloseCalled(k) \/ Closing(k)
      PROVE  /\ UNCHANGED <<saved, work>> /\ pc[q] = "loaded" /\ op'[q] = op[q]
  BY <1>6 DEF CloseCalled, Closing, StoreClose, CallStoreClose, PublishClose, CloseAwaited
<1>7. ASSUME NEW p \in Clients, Storing(p)
      PROVE  Loads(op'[q]) /\ work'[q] = saved'[op'[q].src] /\ work'[q] # Absent
  <2>1. op' = op /\ \E r \in Record \cup {Absent} : work' = [work EXCEPT ![p] = r]
    BY <1>7, StoringEffect
  <2>2. \/ pc' = [pc EXCEPT ![p] = "releasing"] \/ pc' = [pc EXCEPT ![p] = "leaving"]
        \/ /\ pc' = [pc EXCEPT ![p] = "loaded"] /\ Loads(op[p])
           /\ saved' = saved /\ saved[op[p].src] # Absent
           /\ work' = [work EXCEPT ![p] = saved[op[p].src]]
    BY <1>7, StoringEffect
  <2>3. CASE q = p
    BY <2>1, <2>2, <2>3 DEF MTypeOK
  <2>4. CASE q # p
    <3>1. pc[q] = "loaded" /\ work'[q] = work[q]
      BY <2>1, <2>2, <2>4 DEF MTypeOK
    <3>2. /\ op[q].src \in IDs /\ op[q].src \in Needed(op[q])
          /\ op[p].id \in IDs /\ op[p].id \in Needed(op[p])
      BY NeededIDs DEF Needed
    <3>3. lease[q][op[q].src] = "held"
      BY <3>1, <3>2 DEF StageInv, StageOK
    <3>4. saved'[op[q].src] = saved[op[q].src]
      <4>1. CASE saved' = saved
        BY <4>1
      <4>2. CASE /\ pc[p] \in {"leased", "loaded"}
                 /\ \E r \in Record \cup {Absent} : saved' = [saved EXCEPT ![op[p].id] = r]
        <5>1. lease[p][op[p].id] = "held"
          BY <3>2, <4>2 DEF StageInv, StageOK
        <5>2. op[p].id # op[q].src
          BY <2>4, <3>2, <3>3, <5>1 DEF TokenInv
        <5> QED BY <3>2, <4>2, <5>2 DEF MTypeOK
      <4> QED BY <1>7, <4>1, <4>2, StoringEffect
    <3> QED BY <2>1, <3>1, <3>4 DEF WorkInv
  <2> QED BY <2>3, <2>4
<1> QED BY <1>1, <1>2, <1>3, <1>4, <1>5, <1>6, <1>7 DEF MNext

--------------------------------------------------------------------------------
(***************************************************************************)
(* The gate.                                                               *)
(***************************************************************************)

\* How a step moves the clients in and out, which is what active counts.
LEMMA InsideStep ==
  ASSUME MInv, [MNext]_mvars
  PROVE  /\ IsFiniteSet(Inside') /\ active' = Cardinality(Inside') /\ active' \in Nat
         /\ closing => Inside' \subseteq Inside
<1> USE DEF MInv
<1>0. IsFiniteSet(Inside) /\ active = Cardinality(Inside) /\ active \in Nat
  BY DEF GateInv, MTypeOK
<1>1. CASE active' = active /\ Inside' = Inside
  BY <1>0, <1>1
<1>2. CASE UNCHANGED mvars
  BY <1>1, <1>2 DEF mvars, lifeVars, Inside
<1>3. ASSUME NEW p \in Clients, NEW o \in Ops, Enter(p, o)
      PROVE  /\ IsFiniteSet(Inside') /\ active' = Cardinality(Inside') /\ active' \in Nat
             /\ ~ closing
  <2>1. Inside' = Inside \cup {p} /\ p \notin Inside
    BY <1>3 DEF Enter, Goto, Inside, MTypeOK
  <2>2. active' = active + 1 /\ ~ closing
    BY <1>3 DEF Enter
  <2> QED BY <1>0, <2>1, <2>2, FS_AddElement
<1>4. ASSUME NEW p \in Clients, Leave(p)
      PROVE  /\ IsFiniteSet(Inside') /\ active' = Cardinality(Inside') /\ active' \in Nat
             /\ Inside' \subseteq Inside
  <2>1. Inside' = Inside \ {p} /\ p \in Inside
    BY <1>4 DEF Leave, Goto, Inside, MTypeOK
  <2>2. active' = active - 1
    BY <1>4 DEF Leave
  <2>3. IsFiniteSet(Inside') /\ active' = Cardinality(Inside')
    BY <1>0, <2>1, <2>2, FS_RemoveElement
  <2> QED BY <2>1, <2>3, FS_CardinalityType
<1>5. ASSUME NEW p \in Clients, NEW s \in Stages \ {"idle"}, pc[p] # "idle", pc' = [pc EXCEPT ![p] = s]
      PROVE  Inside' = Inside
  BY <1>5 DEF Inside, MTypeOK
<1>6. ASSUME NEW p \in Clients, Acquiring(p)
      PROVE  active' = active /\ Inside' = Inside
  BY <1>5, <1>6 DEF Acquiring, CountRef, TakeToken, CancelAcquire, Goto, lifeVars, Stages, Inside
<1>7. ASSUME NEW p \in Clients, Storing(p)
      PROVE  active' = active /\ Inside' = Inside
  BY <1>5, <1>7, StoringEffect DEF lifeVars, Stages
<1>8. ASSUME NEW p \in Clients, ReturnToken(p) \/ DropRef(p) \/ Released(p)
      PROVE  active' = active /\ Inside' = Inside
  BY <1>5, <1>8 DEF ReturnToken, DropRef, Released, Goto, lifeVars, Stages, Inside
<1>9. ASSUME NEW k \in Closers, CloseCalled(k) \/ Closing(k)
      PROVE  active' = active /\ Inside' = Inside
  BY <1>9 DEF CloseCalled, Closing, StoreClose, CallStoreClose, PublishClose, CloseAwaited, Inside
<1> QED BY <1>1, <1>2, <1>3, <1>4, <1>6, <1>7, <1>8, <1>9 DEF MNext, Releasing

\* Who changes what the gate is about besides active.
LEMMA ClientsKeepGate ==
  ASSUME MInv, NEW p \in Clients,
         (\E o \in Ops : Enter(p, o)) \/ Acquiring(p) \/ Storing(p) \/ Releasing(p)
  PROVE  /\ UNCHANGED <<open, closes, closing, closeDone, closeErr, closer, result>>
         /\ \A q \in Clients : outcome'[q] # "closed"
         /\ outcome' \in [Clients -> {"none", "ok", "failed", "uncertain", "closed"}]
<1> USE DEF MInv, MTypeOK
<1>1. CASE \E o \in Ops : Enter(p, o)
  BY <1>1 DEF Enter, Return, GateInv
<1>2. CASE Acquiring(p)
  BY <1>2 DEF Acquiring, CountRef, TakeToken, CancelAcquire, Return, lifeVars, GateInv
<1>3. CASE Storing(p)
  <2>1. UNCHANGED <<open, lifeVars>>
    BY <1>3, StoringEffect
  <2>2. open
    BY <1>3, StoringEffect DEF GateInv, Inside
  <2>3. \E what \in {"none", "ok", "failed", "uncertain"} : outcome' = [outcome EXCEPT ![p] = what]
    BY <1>3, <2>2, StoringEffect
  <2> QED BY <2>1, <2>3 DEF lifeVars, GateInv
<1>4. CASE Releasing(p)
  BY <1>4 DEF Releasing, ReturnToken, DropRef, Released, Leave, Return, lifeVars, GateInv
<1> QED BY <1>1, <1>2, <1>3, <1>4

\* active counts the clients inside, and the store closes when none is.
LEMMA GateStep ==
  ASSUME MInv, [MNext]_mvars
  PROVE  GateInv'
<1> USE DEF MInv
<1>1. /\ IsFiniteSet(Inside') /\ active' = Cardinality(Inside')
      /\ closing => Inside' \subseteq Inside
  BY InsideStep
<1>2. CASE UNCHANGED mvars
  BY <1>2 DEF mvars, lifeVars, GateInv, Inside
<1>3. ASSUME NEW p \in Clients,
             (\E o \in Ops : Enter(p, o)) \/ Acquiring(p) \/ Storing(p) \/ Releasing(p)
      PROVE  GateInv'
  BY <1>1, <1>3, ClientsKeepGate DEF GateInv
<1>4. ASSUME NEW k \in Closers, CloseCalled(k) \/ PublishClose(k) \/ CloseAwaited(k)
      PROVE  GateInv'
  BY <1>1, <1>4 DEF CloseCalled, PublishClose, CloseAwaited, GateInv, MTypeOK
<1>5. ASSUME NEW k \in Closers, StoreClose(k)
      PROVE  GateInv'
  <2>1. Inside = {} /\ Inside' = Inside
    BY <1>5, FS_EmptySet DEF StoreClose, CallStoreClose, GateInv, Inside
  <2>2. closes = 0 /\ closing
    BY <1>5 DEF StoreClose, CallStoreClose, CloserInv, MTypeOK
  <2>3. closes' = 1 /\ ~ open' /\ closing' /\ outcome' = outcome
    BY <1>5, <2>2 DEF StoreClose, CallStoreClose
  <2> QED BY <1>1, <2>1, <2>3 DEF GateInv
<1> QED BY <1>2, <1>3, <1>4, <1>5 DEF MNext, Closing

\* One caller of Close runs Store.Close; the others take its result.
LEMMA CloserStep ==
  ASSUME MInv, [MNext]_mvars
  PROVE  CloserInv'
<1> USE DEF MInv, MTypeOK
<1>1. CASE UNCHANGED mvars
  BY <1>1 DEF mvars, lifeVars, CloserInv
<1>2. ASSUME NEW p \in Clients,
             (\E o \in Ops : Enter(p, o)) \/ Acquiring(p) \/ Storing(p) \/ Releasing(p)
      PROVE  CloserInv'
  BY <1>2, ClientsKeepGate DEF CloserInv
<1>3. ASSUME NEW k \in Closers, CloseCalled(k)
      PROVE  CloserInv'
  BY <1>3 DEF CloseCalled, CloserInv, GateInv
<1>4. ASSUME NEW k \in Closers, StoreClose(k)
      PROVE  CloserInv'
  BY <1>4 DEF StoreClose, CallStoreClose, CloserInv, GateInv
<1>5. ASSUME NEW k \in Closers, PublishClose(k)
      PROVE  CloserInv'
  BY <1>5 DEF PublishClose, CloserInv, GateInv
<1>6. ASSUME NEW k \in Closers, CloseAwaited(k)
      PROVE  CloserInv'
  BY <1>6 DEF CloseAwaited, CloserInv, GateInv
<1> QED BY <1>1, <1>2, <1>3, <1>4, <1>5, <1>6 DEF MNext, Closing

--------------------------------------------------------------------------------
(***************************************************************************)
(* The invariant.                                                          *)
(***************************************************************************)

\* Every step keeps the type invariant.
LEMMA TypeStep ==
  ASSUME MInv, [MNext]_mvars
  PROVE  MTypeOK'
<1> USE DEF MInv, MTypeOK
<1>1. CASE UNCHANGED mvars
  BY <1>1 DEF mvars, lifeVars, leaseVars
<1>2. active' \in Nat
  BY InsideStep
<1>3. ASSUME NEW p \in Clients, NEW o \in Ops, Enter(p, o)
      PROVE  MTypeOK'
  <2>1. \E s \in Stages : pc' = [pc EXCEPT ![p] = s]
    BY <1>3 DEF Enter, Goto, Stages
  <2>2. outcome' = outcome \/ outcome' = [outcome EXCEPT ![p] = "failed"]
    BY <1>3 DEF Enter, Return
  <2>3. /\ op' = [op EXCEPT ![p] = o] /\ UNCHANGED <<leaseVars, work>>
        /\ UNCHANGED <<saved, open, closes, closing, closeDone, closeErr, closer, result>>
    BY <1>3 DEF Enter
  <2>4. pc' \in [Clients -> Stages]
    BY <2>1
  <2>5. outcome' \in [Clients -> {"none", "ok", "failed", "uncertain", "closed"}]
    BY <2>2
  <2> QED BY <1>2, <2>3, <2>4, <2>5 DEF leaseVars
<1>4. ASSUME NEW p \in Clients, CountRef(p)
      PROVE  MTypeOK'
  <2>1. PICK id \in IDs, l \in Locks : CountsRef(p, id, l)
    BY <1>4, CountRefEffect
  <2>2. /\ entry' \in [IDs -> Locks \cup {NoLock}]
        /\ token' \in SUBSET Locks
        /\ refs' \in [Locks -> SUBSET Clients]
        /\ lease' \in [Clients -> [IDs -> {"none", "waiting", "held", "dropping"}]]
        /\ lock' \in [Clients -> [IDs -> Locks \cup {NoLock}]]
    BY <2>1 DEF CountsRef
  <2>3. UNCHANGED <<saved, open, lifeVars, pc, op, work, outcome>>
    BY <1>4 DEF CountRef
  <2> QED BY <2>2, <2>3 DEF lifeVars
<1>5. ASSUME NEW p \in Clients, TakeToken(p)
      PROVE  MTypeOK'
  BY <1>5, NextIDProperties DEF TakeToken, Goto, lifeVars, Stages
<1>6. ASSUME NEW p \in Clients, CancelAcquire(p) \/ DropRef(p)
      PROVE  MTypeOK'
  <2>1. PICK id \in IDs : /\ lease[p][id] \in {"waiting", "dropping"}
                          /\ ReleaseRef(p, id) /\ token' = token
    BY <1>6, DropEffect
  <2>2. lock[p][id] \in Locks
    BY <2>1 DEF TableInv
  <2>3. /\ entry' \in [IDs -> Locks \cup {NoLock}]
        /\ refs' \in [Locks -> SUBSET Clients]
        /\ lease' \in [Clients -> [IDs -> {"none", "waiting", "held", "dropping"}]]
        /\ lock' \in [Clients -> [IDs -> Locks \cup {NoLock}]]
    BY <2>1, <2>2 DEF ReleaseRef, DropReference
  <2>4. /\ pc' = pc \/ \E s \in Stages : pc' = [pc EXCEPT ![p] = s]
        /\ outcome' = outcome \/ outcome' = [outcome EXCEPT ![p] = "failed"]
        /\ UNCHANGED <<saved, open, lifeVars, op, work>>
    BY <1>6 DEF CancelAcquire, DropRef, Goto, Return, Stages
  <2>5. pc' \in [Clients -> Stages]
    BY <2>4
  <2>6. outcome' \in [Clients -> {"none", "ok", "failed", "uncertain", "closed"}]
    BY <2>4
  <2> QED BY <2>1, <2>3, <2>4, <2>5, <2>6 DEF lifeVars
<1>7. ASSUME NEW p \in Clients, ReturnToken(p)
      PROVE  MTypeOK'
  <2>1. PICK id \in IDs : /\ lease[p][id] = "held"
                          /\ token' = token \cup {lock[p][id]}
                          /\ lease' = [lease EXCEPT ![p][id] = "dropping"]
    BY <1>7, LastLeaseProperties DEF ReturnToken
  <2>2. lock[p][id] = entry[id] /\ entry[id] # NoLock
    BY <2>1 DEF TableInv
  <2>3. UNCHANGED <<saved, open, lifeVars, entry, refs, lock, pc, op, work, outcome>>
    BY <1>7 DEF ReturnToken
  <2> QED BY <2>1, <2>2, <2>3 DEF lifeVars
<1>8. ASSUME NEW p \in Clients, Storing(p)
      PROVE  MTypeOK'
  <2>1. UNCHANGED <<open, lifeVars, leaseVars, op>>
    BY <1>8, StoringEffect
  <2>2. saved' \in [IDs -> Record \cup {Absent}]
    BY <1>8, StoringEffect
  <2>3. outcome' \in [Clients -> {"none", "ok", "failed", "uncertain", "closed"}]
    BY <1>8, ClientsKeepGate
  <2>4. work' \in [Clients -> Record \cup {Absent}]
    BY <1>8, StoringEffect
  <2>5. pc' \in [Clients -> Stages]
    <3>1. \E s \in Stages : pc' = [pc EXCEPT ![p] = s]
      BY <1>8, StoringEffect DEF Stages
    <3> QED BY <3>1
  <2> QED BY <2>1, <2>2, <2>3, <2>4, <2>5 DEF lifeVars, leaseVars
<1>9. ASSUME NEW p \in Clients, Released(p)
      PROVE  MTypeOK'
  BY <1>9 DEF Released, Goto, lifeVars, leaseVars, Stages
<1>10. ASSUME NEW p \in Clients, Leave(p)
       PROVE  MTypeOK'
  <2>1. NoOp \in Ops
    BY ManagerAssumption DEF NoOp
  <2> QED BY <1>2, <1>10, <2>1 DEF Leave, Goto, Return, leaseVars, Stages
<1>11. ASSUME NEW k \in Closers, CloseCalled(k) \/ Closing(k)
       PROVE  MTypeOK'
  <2>1. UNCHANGED <<saved, active, leaseVars, pc, op, work, outcome>>
    BY <1>11 DEF CloseCalled, Closing, StoreClose, CallStoreClose, PublishClose, CloseAwaited
  <2>2. /\ open' \in BOOLEAN /\ closes' \in Nat /\ closing' \in BOOLEAN /\ closeDone' \in BOOLEAN
        /\ closeErr' \in {"none", "ok", "error"}
    <3>1. CASE CloseCalled(k)
      BY <3>1 DEF CloseCalled
    <3>2. CASE StoreClose(k)
      <4>1. closes' = closes + 1
        BY <3>2 DEF StoreClose, CallStoreClose
      <4>2. closes' \in Nat
        BY <4>1
      <4>3. open' = FALSE /\ UNCHANGED <<closing, closeDone, closeErr>>
        BY <3>2, Zenon DEF StoreClose, CallStoreClose
      <4> QED BY <4>2, <4>3, Zenon
    <3>3. CASE PublishClose(k)
      BY <3>3 DEF PublishClose
    <3>4. CASE CloseAwaited(k)
      BY <3>4 DEF CloseAwaited
    <3> QED BY <1>11, <3>1, <3>2, <3>3, <3>4 DEF Closing
  <2>3. \E s \in {"idle", "awaiting", "draining", "publishing", "returned"} :
          closer' = [closer EXCEPT ![k] = s]
    BY <1>11 DEF CloseCalled, Closing, StoreClose, CallStoreClose, PublishClose, CloseAwaited
  <2>4. result' = result \/ \E e \in {"none", "ok", "error"} : result' = [result EXCEPT ![k] = e]
    BY <1>11 DEF CloseCalled, Closing, StoreClose, CallStoreClose, PublishClose, CloseAwaited
  <2>5. closer' \in [Closers -> {"idle", "awaiting", "draining", "publishing", "returned"}]
    BY <2>3
  <2>6. result' \in [Closers -> {"none", "ok", "error"}]
    BY <2>4
  <2> QED BY <2>1, <2>2, <2>5, <2>6 DEF leaseVars
<1> QED BY <1>1, <1>3, <1>4, <1>5, <1>6, <1>7, <1>8, <1>9, <1>10, <1>11
           DEF MNext, Acquiring, Releasing

\* A new manager has no locks, no clients inside and no Close.
LEMMA MInvInit == MInit => MInv
<1> SUFFICES ASSUME MInit
             PROVE  MInv
  OBVIOUS
<1>1. NoOp \in Ops
  BY ManagerAssumption DEF NoOp
<1>2. MTypeOK
  BY <1>1 DEF MInit, SInit, MTypeOK, Stages
<1>3. Inside = {}
  BY DEF MInit, Inside
<1>4. GateInv
  BY <1>3, FS_EmptySet DEF MInit, SInit, GateInv
<1>5. CloserInv /\ TableInv /\ TokenInv /\ WorkInv
  BY DEF MInit, CloserInv, TableInv, TokenInv, WorkInv
<1>6. StageInv
  BY DEF MInit, StageInv, StageOK
<1> QED BY <1>2, <1>4, <1>5, <1>6 DEF MInv

\* The conjuncts of MInv are inductive together.
LEMMA MInvStep == MInv /\ [MNext]_mvars => MInv'
  BY TypeStep, GateStep, CloserStep, TableStep, TokenStep, StageStep, WorkStep DEF MInv

\* The lock table, the leases, the gate and the loaded records stay in step
\* through every interleaving of clients, cancellations and Close.
THEOREM ManagerInvariant == MSpec => []MInv
  BY MInvInit, MInvStep, PTL DEF MSpec

\* Manager.acquire and releaseRef: at most one holder per session, and an
\* entry in the table exactly while somebody refers to it.
THEOREM LeasesAreSound == MSpec => []LeasesSound
<1>1. MInv => LeasesSound
  <2> SUFFICES ASSUME MInv
               PROVE  LeasesSound
    OBVIOUS
  <2> USE DEF MInv
  <2>1. LeaseExclusive
    BY DEF TokenInv, LeaseExclusive
  <2>2. ASSUME NEW id \in IDs, entry[id] # NoLock
        PROVE  \E p \in Clients : lease[p][id] # "none"
    <3>1. entry[id] \in Locks /\ refs[entry[id]] # {}
      BY <2>2 DEF MTypeOK, TableInv
    <3>2. PICK p \in refs[entry[id]] : TRUE
      BY <3>1
    <3>3. p \in Clients
      BY <3>1 DEF MTypeOK
    <3>4. PICK j \in IDs : lease[p][j] # "none" /\ lock[p][j] = entry[id]
      BY <3>1, <3>2 DEF TableInv
    <3>5. j = id
      BY <2>2, <3>3, <3>4 DEF TableInv
    <3> QED BY <3>3, <3>4, <3>5
  <2>3. LockTableExact
    BY <2>2 DEF TableInv, LockTableExact
  <2> QED BY <2>1, <2>3 DEF LeasesSound
<1> QED BY <1>1, ManagerInvariant, PTL

\* drainClose.close: the store is closed once, when no method is inside, and
\* every caller of Close gets that one result.
THEOREM CloseIsSound == MSpec => []CloseSound
<1>1. MInv => CloseSound
  <2> SUFFICES ASSUME MInv
               PROVE  CloseSound
    OBVIOUS
  <2> USE DEF MInv
  <2>1. DrainedBeforeClose
    BY DEF GateInv, Inside, DrainedBeforeClose
  <2>2. CloseResultShared
    BY DEF CloserInv, GateInv, CloseResultShared
  <2> QED BY <2>1, <2>2 DEF CloseSound
<1> QED BY <1>1, ManagerInvariant, PTL

--------------------------------------------------------------------------------
(***************************************************************************)
(* The atomic sessions.                                                    *)
(***************************************************************************)

\* A commit is one step of the abstract sessions, or none.
LEMMA CommitImplements ==
  ASSUME MInv, NEW p \in Clients, NEW r, NEW x \in BOOLEAN, Commit(p, op[p].id, r, x)
  PROVE  UNCHANGED svars \/ (open /\ Write(op[p].id, r) /\ (x <=> ~ Exists(op[p].id)) /\ open' = open)
  BY DEF Commit, Put, StoreUnchanged, svars

\* What a client does in the store is a write of the abstract sessions, or none.
LEMMA StoringImplements ==
  ASSUME MInv, NEW p \in Clients, Storing(p)
  PROVE  [SNext]_svars
<1> USE DEF MInv
<1>1. op[p].id \in IDs /\ op[p].src \in IDs /\ (op[p].kind # "fork" => op[p].src = op[p].id)
  BY NeededIDs, ManagerAssumption
<1>2. pc[p] = "loaded" => work[p] = saved[op[p].src] /\ Exists(op[p].src)
  BY DEF WorkInv, Exists
<1>3. CASE GetSession(p) \/ Load(p)
  BY <1>3 DEF GetSession, Load, StoreUnchanged, svars
<1>4. CASE CreateSession(p)
  <2>1. PICK now \in Times : Commit(p, op[p].id, Fresh(now), TRUE)
    BY <1>4 DEF CreateSession
  <2>2. UNCHANGED svars \/ (open /\ Create(op[p].id, Fresh(now)) /\ open' = open)
    BY <2>1, CommitImplements DEF Create
  <2> QED BY <1>1, <2>2 DEF SNext
<1>5. CASE DeleteSession(p)
  <2>1. UNCHANGED svars \/ (open /\ Delete(op[p].id) /\ open' = open)
    BY <1>5 DEF DeleteSession, StoreUnchanged, Delete, svars
  <2> QED BY <1>1, <2>1 DEF SNext
<1>6. CASE ForkSession(p)
  <2>1. PICK now \in Times : Commit(p, op[p].id, Forked(work[p], op[p].src, now), TRUE)
    BY <1>6 DEF ForkSession
  <2>2. pc[p] = "loaded"
    BY <1>6 DEF ForkSession
  <2>3. UNCHANGED svars \/ (open /\ Fork(op[p].src, op[p].id, now) /\ open' = open)
    BY <1>2, <2>1, <2>2, CommitImplements DEF Fork, Create
  <2> QED BY <1>1, <2>3 DEF SNext
<1>7. CASE PatchSession(p)
  <2>1. PICK now \in Times : Commit(p, op[p].id, Patched(work[p], p, now), FALSE)
    BY <1>7 DEF PatchSession
  <2>2. pc[p] = "loaded" /\ op[p].src = op[p].id
    BY <1>1, <1>7 DEF PatchSession
  <2>3. UNCHANGED svars \/ (open /\ Patch(op[p].id, p, now) /\ open' = open)
    BY <1>2, <2>1, <2>2, CommitImplements DEF Patch
  <2> QED BY <1>1, <2>3 DEF SNext
<1>8. ASSUME NEW now \in Times, Commit(p, op[p].id, Append1(work[p], p, now), FALSE),
             pc[p] = "loaded", op[p].kind # "fork"
      PROVE  [SNext]_svars
  <2>1. UNCHANGED svars \/ (open /\ AppendMessage(op[p].id, p, now) /\ open' = open)
    BY <1>1, <1>2, <1>8, CommitImplements DEF AppendMessage
  <2> QED BY <1>1, <2>1 DEF SNext
<1>9. CASE AppendSession(p)
  BY <1>8, <1>9 DEF AppendSession
<1>10. CASE AppendAt(p)
  <2>1. pc[p] = "loaded" /\ op[p].kind # "fork"
    BY <1>10 DEF AppendAt
  <2>2. CASE \E now \in Times : Commit(p, op[p].id, Append1(work[p], p, now), FALSE)
    BY <1>8, <2>1, <2>2
  <2>3. CASE ~ \E now \in Times : Commit(p, op[p].id, Append1(work[p], p, now), FALSE)
    BY <1>10, <2>3 DEF AppendAt, StoreUnchanged, svars
  <2> QED BY <2>2, <2>3
<1> QED BY <1>3, <1>4, <1>5, <1>6, <1>7, <1>9, <1>10 DEF Storing

\* Every step of the manager is a step of the abstract sessions, or none.
LEMMA StepImplements ==
  ASSUME MInv, [MNext]_mvars
  PROVE  [SNext]_svars
<1>1. CASE UNCHANGED mvars
  BY <1>1 DEF mvars, svars
<1>2. ASSUME NEW p \in Clients, (\E o \in Ops : Enter(p, o)) \/ Acquiring(p) \/ Releasing(p)
      PROVE  UNCHANGED svars
  BY <1>2 DEF Enter, Acquiring, CountRef, TakeToken, CancelAcquire,
              Releasing, ReturnToken, DropRef, Released, Leave, svars
<1>3. ASSUME NEW k \in Closers, CloseCalled(k) \/ PublishClose(k) \/ CloseAwaited(k)
      PROVE  UNCHANGED svars
  BY <1>3 DEF CloseCalled, PublishClose, CloseAwaited, svars
<1>4. ASSUME NEW k \in Closers, StoreClose(k)
      PROVE  [SNext]_svars
  <2>1. open
    BY <1>4 DEF StoreClose, CallStoreClose, MInv, CloserInv, GateInv
  <2> QED BY <1>4, <2>1 DEF StoreClose, CallStoreClose, SNext
<1> QED BY <1>1, <1>2, <1>3, <1>4, StoringImplements DEF MNext, Closing

\* The Manager implements Sessions: although a load and the save that follows
\* are separate store calls, every write is one atomic step on what is stored
\* (Manager.apply, Fork, Create, Delete under their leases).
THEOREM ManagerIsAtomic == MSpec => AtomicSessions
<1>1. MInit => SInit
  BY DEF MInit
<1>2. MInv /\ [MNext]_mvars => [SNext]_svars
  BY StepImplements
<1> QED BY <1>1, <1>2, ManagerInvariant, PTL DEF MSpec, AtomicSessions, SSpec

\* What an atomic step may do to a session that lives on.
Grows(id) ==
  Exists(id) /\ saved'[id] # Absent =>
    /\ Len(saved'[id].msgs) >= Len(saved[id].msgs)
    /\ SubSeq(saved'[id].msgs, 1, Len(saved[id].msgs)) = saved[id].msgs
    /\ saved'[id].updated >= saved[id].updated

\* Each write keeps the transcript as a prefix and does not turn UpdatedAt back.
LEMMA WritesGrow ==
  ASSUME NEW r \in Record, NEW m \in Clients, NEW now \in Times,
         NEW w \in {r, Append1(r, m, now), Patched(r, m, now)}
  PROVE  /\ Len(w.msgs) >= Len(r.msgs)
         /\ SubSeq(w.msgs, 1, Len(r.msgs)) = r.msgs
         /\ w.updated >= r.updated
<1> DEFINE s == r.msgs
<1>1. s \in Seq(Clients) /\ Len(s) \in Nat /\ r.updated \in Nat /\ now \in Nat
  BY SessionsAssumption, LenProperties DEF Record
<1>2. SubSeq(s, 1, Len(s)) = s
  BY <1>1, SubSeqFull
<1>3. CASE w = r
  BY <1>1, <1>2, <1>3
<1>4. CASE w = Patched(r, m, now)
  <2>1. w.msgs = s /\ w.updated = Stamp(r, now)
    BY <1>4 DEF Patched, Record
  <2> QED BY <1>1, <1>2, <2>1 DEF Stamp
<1>5. CASE w = Append1(r, m, now)
  <2>1. w.msgs = Append(s, m) /\ w.updated = Stamp(r, now)
    BY <1>5 DEF Append1, Record
  <2>2. Len(Append(s, m)) = Len(s) + 1 /\ Append(s, m) \in Seq(Clients)
    BY <1>1, AppendProperties
  <2>3. SubSeq(Append(s, m), 1, Len(s)) = s
    <3>1. \A i \in 1 .. Len(s) : Append(s, m)[i] = s[i]
      BY <1>1, AppendProperties
    <3>2. /\ SubSeq(Append(s, m), 1, Len(s)) \in Seq(Clients)
          /\ Len(SubSeq(Append(s, m), 1, Len(s))) = Len(s)
          /\ \A i \in 1 .. Len(s) : SubSeq(Append(s, m), 1, Len(s))[i] = Append(s, m)[i]
      BY <1>1, <2>2
    <3> QED BY <1>1, <3>1, <3>2, SeqEqual
  <2> QED BY <1>1, <2>1, <2>2, <2>3 DEF Stamp
<1> QED BY <1>3, <1>4, <1>5

\* While a session lives its transcript only grows and UpdatedAt does not
\* decrease, whatever the clock does and whoever writes (Manager.apply).
THEOREM SessionsGrow == MSpec => SessionsOnlyGrow
<1>1. ASSUME MInv, [SNext]_svars, NEW id \in IDs
      PROVE  Grows(id)
  <2> SUFFICES ASSUME Exists(id), saved'[id] # Absent
               PROVE  /\ Len(saved'[id].msgs) >= Len(saved[id].msgs)
                      /\ SubSeq(saved'[id].msgs, 1, Len(saved[id].msgs)) = saved[id].msgs
                      /\ saved'[id].updated >= saved[id].updated
    BY DEF Grows
  <2>1. saved \in [IDs -> Record \cup {Absent}] /\ saved[id] \in Record
    BY <1>1 DEF MInv, MTypeOK, Exists
  <2>2. \/ saved'[id] = saved[id]
        \/ \E m \in Clients, now \in Times :
             saved'[id] \in {Append1(saved[id], m, now), Patched(saved[id], m, now)}
    BY <1>1, <2>1 DEF SNext, svars, Create, Write, AppendMessage, Patch, Fork, Delete, Exists
  <2>3. CASE saved'[id] = saved[id]
    <3>1. saved[id].msgs \in Seq(Clients) /\ saved[id].updated \in Nat
      BY <2>1, SessionsAssumption DEF Record
    <3> QED BY <2>3, <3>1, SubSeqFull, LenProperties
  <2>4. CASE \E m \in Clients, now \in Times :
               saved'[id] \in {Append1(saved[id], m, now), Patched(saved[id], m, now)}
    BY <2>1, <2>4, WritesGrow
  <2> QED BY <2>2, <2>3, <2>4
<1>2. MInv /\ [MNext]_mvars => [\A id \in IDs : Grows(id)]_mvars
  BY <1>1, StepImplements
<1>3. [][\A id \in IDs : Grows(id)]_mvars => SessionsOnlyGrow
  BY PTL DEF SessionsOnlyGrow, Grows
<1> QED BY <1>2, <1>3, ManagerInvariant, PTL DEF MSpec
================================================================================

----------------------------- MODULE SessionManager -----------------------------
(***************************************************************************)
(* The session Manager (runtime/sessions/manager.go, manager_ops.go,       *)
(* lifecycle.go) over a Store whose calls are atomic (memory.go; file.go   *)
(* publishes with one link, rename or unlink).                             *)
(*                                                                         *)
(* A client is a goroutine inside a Manager method.  It enters the drain   *)
(* gate, takes the per-ID leases its operation needs, loads, computes the  *)
(* next record, saves, gives the leases back and leaves.  Every lock,      *)
(* channel and store operation is a step of its own.  Close stops          *)
(* admission, waits for the clients and closes the store.                  *)
(***************************************************************************)
EXTENDS Sessions, FiniteSets, FiniteSetsExt

CONSTANTS
  Locks,     \* names for *sessionLock objects; a collected one is reused
  NoLock,    \* no entry in Manager.locks
  Closers,   \* the goroutines that call Manager.Close
  Ops        \* the operations clients call

ASSUME ManagerAssumption ==
  /\ NoLock \notin Locks
  /\ Ops # {}
  /\ Ops \subseteq [kind : {"create", "get", "append", "appendAt", "patch", "fork", "delete"},
                    id : IDs, src : IDs, at : 0 .. MaxLen]
  /\ \A o \in Ops : o.kind # "fork" => o.src = o.id   \* only Fork names two sessions
  /\ IsFiniteSet(IDs) /\ IsFiniteSet(Locks)
  /\ Cardinality(IDs) <= Cardinality(Locks)           \* a new lock can always be made

VARIABLES
  closes,    \* how often Store.Close ran
  active,    \* drainClose.active
  closing,   \* drainClose.closing
  closeDone, \* drainClose.closeDone is closed
  closeErr,  \* drainClose.closeErr
  closer,    \* where each caller of Close stands
  result,    \* what each caller of Close got
  entry,     \* Manager.locks
  token,     \* the locks whose token is in the channel
  refs,      \* the clients counted by sessionLock.refs
  pc,        \* where each client stands
  op,        \* the operation each client performs
  lease,     \* each client's progress with the lease of each ID
  lock,      \* the *sessionLock each client uses for each ID
  work,      \* the record each client loaded
  outcome    \* what each operation is about to return; "failed" is any error
             \* other than ErrClosed and ErrCommitUncertain

lifeVars == <<closes, active, closing, closeDone, closeErr, closer, result>>
leaseVars == <<entry, token, refs, lease, lock>>
mvars == <<saved, open, lifeVars, leaseVars, pc, op, work, outcome>>

\* Mutant: Fork leases the child only.
NeededTarget(o) == {o.id}

\* acquire and acquireTwo: the IDs an operation leases.
Needed(o) == {o.id, o.src}

\* The operation of a client that is in no method.
NoOp == CHOOSE o \in Ops : TRUE

Loads(o) == o.kind \in {"append", "appendAt", "patch", "fork"}

Goto(p, where) == pc' = [pc EXCEPT ![p] = where]

Return(p, what) == outcome' = [outcome EXCEPT ![p] = what]

--------------------------------------------------------------------------------
(***************************************************************************)
(* The drain gate.                                                         *)
(***************************************************************************)

\* Manager.enter, and the checks of the arguments that follow it.  Once closing
\* is set enter returns ErrClosed and changes nothing.
Enter(p, o) ==
  /\ pc[p] = "idle"
  /\ ~ closing
  /\ active' = active + 1
  /\ op' = [op EXCEPT ![p] = o]
  /\ \/ Goto(p, "entered") /\ UNCHANGED outcome
     \/ Goto(p, "leaving") /\ Return(p, "failed")
  /\ UNCHANGED <<saved, open, closes, closing, closeDone, closeErr, closer, result>>
  /\ UNCHANGED <<leaseVars, work>>

Leave(p) ==
  /\ pc[p] = "leaving"
  /\ active' = active - 1
  /\ Goto(p, "idle")
  /\ Return(p, "none")
  /\ op' = [op EXCEPT ![p] = NoOp]
  /\ UNCHANGED <<saved, open, closes, closing, closeDone, closeErr, closer, result>>
  /\ UNCHANGED <<leaseVars, work>>

\* drainClose.close: the first caller stops admission, the others wait for it.
CloseCalled(k) ==
  /\ closer[k] = "idle"
  /\ closer' = [closer EXCEPT ![k] = IF closing THEN "awaiting" ELSE "draining"]
  /\ closing' = TRUE
  /\ UNCHANGED <<saved, open, closes, active, closeDone, closeErr, result>>
  /\ UNCHANGED <<leaseVars, pc, op, work, outcome>>

CallStoreClose(k) ==
  /\ closer[k] = "draining"
  /\ closes' = closes + 1
  /\ open' = FALSE
  /\ closer' = [closer EXCEPT ![k] = "publishing"]
  /\ \E e \in {"ok", "error"} : result' = [result EXCEPT ![k] = e]
  /\ UNCHANGED <<saved, active, closing, closeDone, closeErr>>
  /\ UNCHANGED <<leaseVars, pc, op, work, outcome>>

\* Mutant: Close does not wait for the methods inside.
StoreCloseUndrained(k) == CallStoreClose(k)

\* active is 0: Store.Close runs outside the mutex and may report an error.
StoreClose(k) == active = 0 /\ CallStoreClose(k)

PublishClose(k) ==
  /\ closer[k] = "publishing"
  /\ closeErr' = result[k]
  /\ closeDone' = TRUE
  /\ closer' = [closer EXCEPT ![k] = "returned"]
  /\ UNCHANGED <<saved, open, closes, active, closing, result>>
  /\ UNCHANGED <<leaseVars, pc, op, work, outcome>>

CloseAwaited(k) ==
  /\ closer[k] = "awaiting"
  /\ closeDone
  /\ result' = [result EXCEPT ![k] = closeErr]
  /\ closer' = [closer EXCEPT ![k] = "returned"]
  /\ UNCHANGED <<saved, open, closes, active, closing, closeDone, closeErr>>
  /\ UNCHANGED <<leaseVars, pc, op, work, outcome>>

--------------------------------------------------------------------------------
(***************************************************************************)
(* The per-ID leases.                                                      *)
(***************************************************************************)

\* Mutant: the source is leased before the child, whatever their order.
NextIDSourceFirst(p) == IF lease[p][op[p].src] # "held" THEN op[p].src ELSE op[p].id

\* The next ID to lease: acquireTwo takes the smaller one first.
NextID(p) == Min({id \in Needed(op[p]) : lease[p][id] # "held"})

\* acquire's first part: find or make the lock object and count a reference.
CountRef(p) ==
  LET id == NextID(p)
      l  == IF entry[id] # NoLock THEN entry[id]
            ELSE CHOOSE free \in Locks : refs[free] = {}
  IN
  /\ pc[p] = "entered"
  /\ op[p].kind # "get"
  /\ lease[p][id] = "none"
  /\ entry' = [entry EXCEPT ![id] = l]
  /\ token' = IF entry[id] = NoLock THEN token \cup {l} ELSE token
  /\ refs' = [refs EXCEPT ![l] = @ \cup {p}]
  /\ lock' = [lock EXCEPT ![p][id] = l]
  /\ lease' = [lease EXCEPT ![p][id] = "waiting"]
  /\ UNCHANGED <<saved, open, lifeVars, pc, op, work, outcome>>

\* The token is received; the last lease lets the operation go on.
TakeToken(p) ==
  LET id == NextID(p) IN
  /\ pc[p] = "entered"
  /\ op[p].kind # "get"
  /\ lease[p][id] = "waiting"
  /\ lock[p][id] \in token
  /\ token' = token \ {lock[p][id]}
  /\ lease' = [lease EXCEPT ![p][id] = "held"]
  /\ Goto(p, IF \A i \in Needed(op[p]) \ {id} : lease[p][i] = "held" THEN "leased" ELSE "entered")
  /\ UNCHANGED <<saved, open, lifeVars, entry, refs, lock, op, work, outcome>>

\* gone tells whether the entry is deleted.
DropReference(p, id, gone) ==
  /\ refs' = [refs EXCEPT ![lock[p][id]] = @ \ {p}]
  /\ entry' = IF gone THEN [entry EXCEPT ![id] = NoLock] ELSE entry
  /\ lease' = [lease EXCEPT ![p][id] = "none"]
  /\ lock' = [lock EXCEPT ![p][id] = NoLock]

\* Mutant: the entry is deleted under other references.
ReleaseRefEager(p, id) == DropReference(p, id, entry[id] = lock[p][id])

\* releaseRef: the entry goes with its last reference.
ReleaseRef(p, id) ==
  DropReference(p, id, refs[lock[p][id]] = {p} /\ entry[id] = lock[p][id])

\* The context is done first: the reference is dropped, an earlier lease released.
CancelAcquire(p) ==
  LET id == NextID(p) IN
  /\ pc[p] = "entered"
  /\ op[p].kind # "get"
  /\ lease[p][id] = "waiting"
  /\ ReleaseRef(p, id)
  /\ Goto(p, "releasing")
  /\ Return(p, "failed")
  /\ UNCHANGED <<saved, open, lifeVars, token, op, work>>

\* The release function: the token goes back first, then the reference.
ReturnToken(p) ==
  LET id == Max({i \in IDs : lease[p][i] # "none"}) IN
  /\ pc[p] = "releasing"
  /\ \E i \in IDs : lease[p][i] # "none"
  /\ lease[p][id] = "held"
  /\ token' = token \cup {lock[p][id]}
  /\ lease' = [lease EXCEPT ![p][id] = "dropping"]
  /\ UNCHANGED <<saved, open, lifeVars, entry, refs, lock, pc, op, work, outcome>>

DropRef(p) ==
  \E id \in IDs :
    /\ pc[p] = "releasing"
    /\ lease[p][id] = "dropping"
    /\ ReleaseRef(p, id)
    /\ UNCHANGED <<saved, open, lifeVars, token, pc, op, work, outcome>>

Released(p) ==
  /\ pc[p] = "releasing"
  /\ \A id \in IDs : lease[p][id] = "none"
  /\ Goto(p, "leaving")
  /\ UNCHANGED <<saved, open, lifeVars, leaseVars, op, work, outcome>>

--------------------------------------------------------------------------------
(***************************************************************************)
(* The store calls.  Each may also fail for a reason of its own (context,  *)
(* I/O) without any effect, and a FileStore write may take effect and      *)
(* still report ErrCommitUncertain.                                        *)
(***************************************************************************)

StoreUnchanged(p, what) == UNCHANGED saved /\ Return(p, what)

\* Get, and a Patch without changes: load without a lease.
GetSession(p) ==
  /\ pc[p] = "entered"
  /\ op[p].kind = "get"
  /\ \E e \in {"ok", "failed"} :
       StoreUnchanged(p, IF ~ open THEN "closed"
                         ELSE IF Exists(op[p].src) THEN e ELSE "failed")
  /\ Goto(p, "leaving")
  /\ UNCHANGED <<open, lifeVars, leaseVars, op, work>>

\* apply and Fork load under the lease.
Load(p) ==
  /\ pc[p] = "leased"
  /\ Loads(op[p])
  /\ \/ /\ open /\ Exists(op[p].src)
        /\ work' = [work EXCEPT ![p] = saved[op[p].src]]
        /\ Goto(p, "loaded")
        /\ UNCHANGED outcome
     \/ /\ Return(p, IF open THEN "failed" ELSE "closed")
        /\ Goto(p, "releasing")
        /\ UNCHANGED work
  /\ UNCHANGED <<saved, open, lifeVars, leaseVars, op>>

\* validateCommit, marshalSession and Store.Create (exclusive) or Store.Save,
\* which needs a record to replace.  MaxLen only bounds the state space.
Put(p, id, record, exclusive) ==
  \/ /\ open
     /\ Len(record.msgs) <= MaxLen
     /\ exclusive <=> ~ Exists(id)
     /\ Write(id, record)
     /\ \E e \in {"ok", "uncertain"} : Return(p, e)
  \/ StoreUnchanged(p, IF open THEN "failed" ELSE "closed")

Commit(p, id, record, exclusive) ==
  /\ Put(p, id, record, exclusive)
  /\ Goto(p, "releasing")
  /\ UNCHANGED <<open, lifeVars, leaseVars, op>>
  /\ work' = [work EXCEPT ![p] = Absent]

CreateSession(p) ==
  /\ pc[p] = "leased"
  /\ op[p].kind = "create"
  /\ \E now \in Times : Commit(p, op[p].id, Fresh(now), TRUE)

DeleteSession(p) ==
  /\ pc[p] = "leased"
  /\ op[p].kind = "delete"
  /\ \/ /\ open /\ Exists(op[p].id)
        /\ Write(op[p].id, Absent)
        /\ \E e \in {"ok", "uncertain"} : Return(p, e)
     \/ StoreUnchanged(p, IF open THEN "failed" ELSE "closed")
  /\ Goto(p, "releasing")
  /\ UNCHANGED <<open, lifeVars, leaseVars, op, work>>

ForkSession(p) ==
  /\ pc[p] = "loaded"
  /\ op[p].kind = "fork"
  /\ \E now \in Times : Commit(p, op[p].id, Forked(work[p], op[p].src, now), TRUE)

PatchSession(p) ==
  /\ pc[p] = "loaded"
  /\ op[p].kind = "patch"
  /\ \E now \in Times : Commit(p, op[p].id, Patched(work[p], p, now), FALSE)

AppendSession(p) ==
  /\ pc[p] = "loaded"
  /\ op[p].kind = "append"
  /\ \E now \in Times : Commit(p, op[p].id, Append1(work[p], p, now), FALSE)

\* AppendAt: the transcript must still have the length the caller saw.
AppendAt(p) ==
  /\ pc[p] = "loaded"
  /\ op[p].kind = "appendAt"
  /\ \/ /\ Len(work[p].msgs) = op[p].at
        /\ \E now \in Times : Commit(p, op[p].id, Append1(work[p], p, now), FALSE)
     \/ /\ Len(work[p].msgs) # op[p].at
        /\ StoreUnchanged(p, "failed")
        /\ Goto(p, "releasing")
        /\ work' = [work EXCEPT ![p] = Absent]
        /\ UNCHANGED <<open, lifeVars, leaseVars, op>>

--------------------------------------------------------------------------------
MInit ==
  /\ SInit
  /\ closes = 0 /\ active = 0 /\ closing = FALSE /\ closeDone = FALSE /\ closeErr = "none"
  /\ closer = [k \in Closers |-> "idle"]
  /\ result = [k \in Closers |-> "none"]
  /\ entry = [id \in IDs |-> NoLock]
  /\ token = {}
  /\ refs = [l \in Locks |-> {}]
  /\ pc = [p \in Clients |-> "idle"]
  /\ op = [p \in Clients |-> NoOp]
  /\ lease = [p \in Clients |-> [id \in IDs |-> "none"]]
  /\ lock = [p \in Clients |-> [id \in IDs |-> NoLock]]
  /\ work = [p \in Clients |-> Absent]
  /\ outcome = [p \in Clients |-> "none"]

Acquiring(p) == CountRef(p) \/ TakeToken(p) \/ CancelAcquire(p)

Storing(p) ==
  \/ GetSession(p) \/ Load(p) \/ CreateSession(p) \/ DeleteSession(p) \/ ForkSession(p)
  \/ PatchSession(p) \/ AppendSession(p) \/ AppendAt(p)

Releasing(p) == ReturnToken(p) \/ DropRef(p) \/ Released(p) \/ Leave(p)

Closing(k) == StoreClose(k) \/ PublishClose(k) \/ CloseAwaited(k)

MNext ==
  \/ \E p \in Clients : (\E o \in Ops : Enter(p, o)) \/ Acquiring(p) \/ Storing(p) \/ Releasing(p)
  \/ \E k \in Closers : CloseCalled(k) \/ Closing(k)

MSpec == MInit /\ [][MNext]_mvars

(***************************************************************************)
(* Methods run to their end and store calls return.  A channel serves its  *)
(* receivers in the order they came, hence strong fairness for the token.  *)
(* Nobody is obliged to call a method, to cancel or to close.              *)
(***************************************************************************)
MFairness ==
  /\ \A p \in Clients :
       /\ WF_mvars(CountRef(p)) /\ SF_mvars(TakeToken(p))
       /\ WF_mvars(Storing(p)) /\ WF_mvars(Releasing(p))
  /\ \A k \in Closers : WF_mvars(Closing(k))

MFairSpec == MSpec /\ MFairness

--------------------------------------------------------------------------------
(***************************************************************************)
(* Properties.                                                             *)
(***************************************************************************)

\* One lease per ID at a time, although lock objects are dropped and remade
\* while clients come and go (acquire, releaseRef).
LeaseExclusive ==
  \A p, q \in Clients : \A id \in IDs :
    lease[p][id] = "held" /\ lease[q][id] = "held" => p = q

\* The lock table holds an entry exactly while somebody references it, so it
\* neither leaks entries nor forgets one that is in use.
LockTableExact ==
  \A id \in IDs :
    /\ entry[id] # NoLock <=> \E p \in Clients : lease[p][id] # "none"
    /\ \A p \in Clients : lease[p][id] # "none" =>
         lock[p][id] = entry[id] /\ p \in refs[entry[id]]

\* A lease is exclusive because the table always names the one lock object
\* that the holder and everybody waiting behind it refer to.
LeasesSound == LeaseExclusive /\ LockTableExact

\* Close reaches the store once, when no method is inside, so no admitted
\* operation ever finds the store closed.
DrainedBeforeClose ==
  /\ closes <= 1
  /\ closes > 0 => \A p \in Clients : pc[p] = "idle"
  /\ \A p \in Clients : outcome[p] # "closed"

\* Every caller of Close gets the result of the one Store.Close.
CloseResultShared ==
  \A j, k \in Closers :
    closer[j] = "returned" /\ closer[k] = "returned" =>
      result[j] = result[k] /\ result[j] # "none" /\ ~ open

\* Close drains first, closes once and tells every caller the same.
CloseSound == DrainedBeforeClose /\ CloseResultShared

\* A transcript only grows and UpdatedAt never decreases while a session lives,
\* whatever the clock does (apply).
SessionsOnlyGrow ==
  [][\A id \in IDs :
       Exists(id) /\ saved'[id] # Absent =>
         /\ Len(saved'[id].msgs) >= Len(saved[id].msgs)
         /\ SubSeq(saved'[id].msgs, 1, Len(saved[id].msgs)) = saved[id].msgs
         /\ saved'[id].updated >= saved[id].updated]_mvars

\* The Manager implements the atomic sessions: every write is one atomic step
\* on what is stored then, so "concurrent updates to the same session never lose
\* messages" (sessions/doc.go:10) although load and save are separate calls.
AtomicSessions == SSpec

\* No wait among leases is circular: every admitted method returns.
MethodsReturn == \A p \in Clients : (pc[p] # "idle") ~> (pc[p] = "idle")

\* Every call of Close returns.
CloseReturns == \A k \in Closers : (closer[k] # "idle") ~> (closer[k] = "returned")

\* Neither methods nor Close wait for each other for ever: Close waits for the
\* methods inside, none of which waits for Close.
ManagerReturns == MethodsReturn /\ CloseReturns
================================================================================

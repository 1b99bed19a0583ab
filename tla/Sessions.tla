-------------------------------- MODULE Sessions --------------------------------
(***************************************************************************)
(* What the session layer promises (runtime/sessions/doc.go, store.go,     *)
(* manager_ops.go): each write of a session is one atomic step from the    *)
(* record that is stored to the next one, and nothing changes once the     *)
(* store is closed.  Module SessionManager shows how the Manager keeps     *)
(* this promise with a load and a save that are separate store calls.      *)
(***************************************************************************)
EXTENDS Integers, Sequences

CONSTANTS
  IDs,       \* the session IDs, ordered like their strings: integers above 0
  Clients,   \* the goroutines that call the Manager; also the messages they append
  MaxLen,    \* messages a record has room for (the record size limits)
  Times,     \* the readings of the wall clock
  Absent,    \* "no such session"
  Nobody     \* metadata that nobody has patched yet

ASSUME SessionsAssumption ==
  /\ IDs \subseteq Nat \ {0}
  /\ MaxLen \in Nat
  /\ Times \subseteq Nat
  /\ Nobody \notin Clients

\* A session: its parent (0 without one), transcript, metadata and UpdatedAt.
Record == [parent : IDs \cup {0}, msgs : Seq(Clients), meta : Clients \cup {Nobody},
           updated : Times]

ASSUME AbsentAssumption == Absent \notin Record

VARIABLES
  saved,   \* the stored record of each ID
  open     \* the store is not closed

svars == <<saved, open>>

Exists(id) == saved[id] # Absent

\* Mutant: an update takes the clock as it is.
StampNow(record, now) == now

\* An update may not move UpdatedAt backwards when the clock does.
Stamp(record, now) == IF now > record.updated THEN now ELSE record.updated

Write(id, record) == saved' = [saved EXCEPT ![id] = record]

Create(id, record) == ~ Exists(id) /\ Write(id, record)

Fresh(now) == [parent |-> 0, msgs |-> <<>>, meta |-> Nobody, updated |-> now]

Append1(record, m, now) ==
  [record EXCEPT !.msgs = Append(@, m), !.updated = Stamp(record, now)]

Patched(record, m, now) ==
  [record EXCEPT !.meta = m, !.updated = Stamp(record, now)]

Forked(record, src, now) == [record EXCEPT !.parent = src, !.updated = now]

AppendMessage(id, m, now) == Exists(id) /\ Write(id, Append1(saved[id], m, now))

Patch(id, m, now) == Exists(id) /\ Write(id, Patched(saved[id], m, now))

Fork(src, id, now) ==
  /\ src # id
  /\ Exists(src)
  /\ Create(id, Forked(saved[src], src, now))

Delete(id) == Exists(id) /\ Write(id, Absent)

SInit == saved = [id \in IDs |-> Absent] /\ open = TRUE

SNext ==
  \/ /\ open
     /\ \E id \in IDs :
          \/ \E now \in Times : Create(id, Fresh(now))
          \/ \E m \in Clients, now \in Times : AppendMessage(id, m, now) \/ Patch(id, m, now)
          \/ \E src \in IDs, now \in Times : Fork(src, id, now)
          \/ Delete(id)
     /\ UNCHANGED open
  \/ open /\ open' = FALSE /\ UNCHANGED saved

SSpec == SInit /\ [][SNext]_svars
================================================================================

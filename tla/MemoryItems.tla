------------------------------ MODULE MemoryItems ------------------------------
(***************************************************************************)
(* Long-term memory: MemoryService, the memory routes and                  *)
(* PostgresMemoryRepository.  Contents, kinds and confidences are data no  *)
(* property tells apart; no caller sets an expiry.                         *)
(***************************************************************************)
EXTENDS Integers, FiniteSets

CONSTANTS
    Memories,       \* identifiers of memory items, one per POST /memory
    Scopes,         \* MemoryScope
    Absent          \* no row, no filter

ASSUME MemoryAssumption == Absent \notin Scopes /\ IsFiniteSet(Memories)

VARIABLES
    memories,   \* rows of memory_items, those of open transactions included
    remember,   \* the answer of each POST /memory
    clock       \* now() of the latest transaction

mvars == <<memories, remember, clock>>

Row == [scope : Scopes, updated_at : Nat, committed : BOOLEAN, deleted : BOOLEAN]

ASSUME AbsentAssumption == Absent \notin Row

Answers == {"none", "open", "created", "unavailable"}

MemoryInit ==
    /\ memories = [m \in Memories |-> Absent]
    /\ remember = [m \in Memories |-> "none"]
    /\ clock = 0

\* _insert_memory: updated_at is the start of the transaction.
BeginRemember(m) ==
    /\ remember[m] = "none"
    /\ clock' = clock + 1
    /\ \E scope \in Scopes :
          memories' = [memories EXCEPT ![m] =
                          [scope |-> scope, updated_at |-> clock + 1,
                           committed |-> FALSE, deleted |-> FALSE]]
    /\ remember' = [remember EXCEPT ![m] = "open"]

\* The commit makes the row visible; its answer may be lost.
CommitRemember(m) ==
    /\ remember[m] = "open"
    /\ memories' = [memories EXCEPT ![m].committed = TRUE]
    /\ \E answer \in {"created", "unavailable"} :
          remember' = [remember EXCEPT ![m] = answer]
    /\ UNCHANGED clock

\* 503, and the transaction is rolled back.
RememberFails(m) ==
    /\ remember[m] = "open"
    /\ memories' = [memories EXCEPT ![m] = Absent]
    /\ remember' = [remember EXCEPT ![m] = "unavailable"]
    /\ UNCHANGED clock

Stored(m) == memories[m] # Absent /\ memories[m].committed

\* _soft_delete_memory of an item somebody has listed; a deleted row is never
\* read again, so its new updated_at is left out.
Forget(m) ==
    /\ Stored(m)
    /\ ~memories[m].deleted
    /\ memories' = [memories EXCEPT ![m].deleted = TRUE]
    /\ UNCHANGED <<remember, clock>>

\* Seeded defect: deleted rows are not filtered.
ActiveOrDeleted(scope) ==
    {m \in Memories : Stored(m) /\ scope \in {Absent, memories[m].scope}}

\* The rows _list_active_memory selects before its limit.
Active(scope) ==
    {m \in Memories : /\ Stored(m)
                      /\ ~memories[m].deleted
                      /\ scope \in {Absent, memories[m].scope}}

\* Seeded defect: the limit is applied before the deleted rows are filtered.
ListLimitedFirst(scope, limit) ==
    {m \in Active(scope) :
        Cardinality({n \in ActiveOrDeleted(scope) :
                        memories[n].updated_at > memories[m].updated_at}) < limit}

\* list_active: order by updated_at desc, limited.
ListActive(scope, limit) ==
    {m \in Active(scope) :
        Cardinality({n \in Active(scope) :
                        memories[n].updated_at > memories[m].updated_at}) < limit}

RememberStep(m) == BeginRemember(m) \/ CommitRemember(m) \/ RememberFails(m)

MemoryNext == \E m \in Memories : RememberStep(m) \/ Forget(m)

\* Every row has the time its own transaction began, and is kept exactly when
\* that transaction is open or committed.
MemoryTypeOK ==
    /\ memories \in [Memories -> Row \cup {Absent}]
    /\ remember \in [Memories -> Answers]
    /\ clock \in Nat
    /\ \A m \in Memories :
          /\ memories[m] # Absent => memories[m].updated_at \in 1 .. clock
          /\ remember[m] = "none" => memories[m] = Absent
          /\ remember[m] = "open" => memories[m] # Absent /\ ~memories[m].committed
          /\ remember[m] = "created" => Stored(m)
================================================================================

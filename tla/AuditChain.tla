----------------------------- MODULE AuditChain -----------------------------
(***************************************************************************)
(* The hash chain of apps/compliance under concurrent appends.             *)
(*                                                                         *)
(* append_audit_event runs inside the caller's transaction (a wallet       *)
(* service, a login, a KYC change), any number of times.  It reads the     *)
(* last row, locks it, and inserts the next one.  The row it reads is the  *)
(* last of a READ COMMITTED snapshot taken BEFORE it waits for the lock,   *)
(* so another transaction may append in between; an empty chain has no row *)
(* to lock at all.  What then keeps the chain in one piece are the unique  *)
(* constraints on sequence and hash.                                       *)
(***************************************************************************)
EXTENDS Integers

CONSTANTS
    Workers,     \* transactions that append
    NoWorker,
    Payloads,    \* canonical payloads
    Digests,     \* values of the hash columns
    Genesis,     \* GENESIS_HASH
    Digest,      \* sha256 of a previous hash and a payload
    MaxRows      \* bound on the rows, committed or not

VARIABLES
    log,         \* the committed AuditLog rows
    rowLock,     \* the worker holding FOR UPDATE on the row of a sequence
    pc, seen,    \* a worker's place, and the sequence of the tail it read
    draft        \* the rows of a transaction that has not committed

vars == <<log, rowLock, pc, seen, draft>>

ASSUME DigestAssumption ==
    /\ Genesis \in Digests
    /\ Digest \in [Digests -> [Payloads -> Digests]]

ASSUME BoundAssumption == NoWorker \notin Workers /\ MaxRows \in Nat

Sequence == 1 .. MaxRows

Row == [sequence: Sequence, payload: Payloads,
        previous: Digests, hash: Digests]

-----------------------------------------------------------------------------
(***************************************************************************)
(* verify_audit_chain.  It walks the rows in the order of their sequence   *)
(* and stops at the first one that is not linked to the row before it.     *)
(***************************************************************************)
Linked(rows, r) ==
    /\ \/ r.sequence = 1 /\ r.previous = Genesis
       \/ \E s \in rows : r.sequence = s.sequence + 1 /\ r.previous = s.hash
    /\ r.hash = Digest[r.previous][r.payload]

Verified(rows) == \A r \in rows : Linked(rows, r)

-----------------------------------------------------------------------------
(***************************************************************************)
(* append_audit_event inside a transaction.                                *)
(***************************************************************************)
\* A transaction sees the committed rows and its own.
Visible(w) == log \cup draft[w]

\* The first row of order_by("-sequence"): the highest sequence, 0 if none.
IsTail(rows, n) ==
    \/ rows = {} /\ n = 0
    \/ /\ \E r \in rows : r.sequence = n
       /\ \A r \in rows : r.sequence <= n

\* Fault: the sequence of the tail is used again.
NextRowSameSequence(w, p) ==
    LET previous == IF seen[w] = 0
                    THEN Genesis
                    ELSE (CHOOSE r \in Visible(w) : r.sequence = seen[w]).hash
    IN  [sequence |-> seen[w], payload |-> p, previous |-> previous,
         hash |-> Digest[previous][p]]

\* The row after the tail that the worker read.
NextRow(w, p) ==
    LET previous == IF seen[w] = 0
                    THEN Genesis
                    ELSE (CHOOSE r \in Visible(w) : r.sequence = seen[w]).hash
    IN  [sequence |-> seen[w] + 1, payload |-> p, previous |-> previous,
         hash |-> Digest[previous][p]]

\* Fault: sequence is an index without unique=True.
ClashOfHash(r, s) == r.hash = s.hash

\* Two rows that the unique constraints do not admit together.
Clash(r, s) == r.sequence = s.sequence \/ r.hash = s.hash

\* Commit and rollback free the locks of the transaction.
Finish(w) ==
    /\ pc' = [pc EXCEPT ![w] = "idle"]
    /\ seen' = [seen EXCEPT ![w] = 0]
    /\ draft' = [draft EXCEPT ![w] = {}]
    /\ rowLock' = [n \in Sequence |-> IF rowLock[n] = w
                                      THEN NoWorker ELSE rowLock[n]]

Begin(w) ==
    /\ pc[w] = "idle"
    /\ pc' = [pc EXCEPT ![w] = "open"]
    /\ UNCHANGED <<log, rowLock, seen, draft>>

ReadTail(w) ==
    /\ pc[w] = "open"
    /\ \E n \in 0 .. (MaxRows - 1) :
           /\ IsTail(Visible(w), n)
           /\ seen' = [seen EXCEPT ![w] = n]
    /\ pc' = [pc EXCEPT ![w] = "lock"]
    /\ UNCHANGED <<log, rowLock, draft>>

\* After the wait the row is the one read before it, however far the chain
\* has grown: a locked row that did not change is not looked for again.
LockTail(w) ==
    /\ pc[w] = "lock"
    /\ seen[w] # 0 => rowLock[seen[w]] \in {NoWorker, w}
    /\ rowLock' = IF seen[w] = 0 THEN rowLock
                  ELSE [rowLock EXCEPT ![seen[w]] = w]
    /\ pc' = [pc EXCEPT ![w] = "insert"]
    /\ UNCHANGED <<log, seen, draft>>

\* The insertion waits for a clashing row of another transaction to be
\* committed or rolled back.
Insert(w) ==
    /\ pc[w] = "insert"
    /\ \E p \in Payloads :
           /\ \A v \in Workers : \A r \in draft[v] : ~Clash(r, NextRow(w, p))
           /\ \A r \in log : ~Clash(r, NextRow(w, p))
           /\ draft' = [draft EXCEPT ![w] = @ \cup {NextRow(w, p)}]
    /\ pc' = [pc EXCEPT ![w] = "open"]
    /\ UNCHANGED <<log, rowLock, seen>>

\* Fault: the insertion of the same row is tried again.
ConflictRetrying(w) ==
    /\ pc[w] = "insert"
    /\ \E p \in Payloads : \E r \in Visible(w) : Clash(r, NextRow(w, p))
    /\ UNCHANGED vars

\* IntegrityError: nobody catches it, the enclosing transaction is undone.
Conflict(w) ==
    /\ pc[w] = "insert"
    /\ \E p \in Payloads : \E r \in Visible(w) : Clash(r, NextRow(w, p))
    /\ Finish(w)
    /\ UNCHANGED log

Commit(w) ==
    /\ pc[w] = "open"
    /\ log' = log \cup draft[w]
    /\ Finish(w)

\* Any later statement of the transaction fails, or its worker is lost.
Abort(w) ==
    /\ pc[w] # "idle"
    /\ Finish(w)
    /\ UNCHANGED log

Init ==
    /\ log = {}
    /\ rowLock = [n \in Sequence |-> NoWorker]
    /\ pc = [w \in Workers |-> "idle"]
    /\ seen = [w \in Workers |-> 0]
    /\ draft = [w \in Workers |-> {}]

Work(w) ==
    \/ ReadTail(w) \/ LockTail(w) \/ Insert(w) \/ Conflict(w) \/ Commit(w)

Next == \E w \in Workers : Begin(w) \/ Work(w) \/ Abort(w)

Spec == Init /\ [][Next]_vars

\* PostgreSQL serves the waiters of a row lock, and of an insertion, in turn.
Fairness ==
    \A w \in Workers : /\ WF_vars(Work(w))
                       /\ SF_vars(LockTail(w))
                       /\ SF_vars(Insert(w) \/ Conflict(w))

FairSpec == Spec /\ Fairness

-----------------------------------------------------------------------------
(***************************************************************************)
(* Properties.                                                             *)
(***************************************************************************)
TypeOK ==
    /\ log \subseteq Row
    /\ rowLock \in [Sequence -> Workers \cup {NoWorker}]
    /\ pc \in [Workers -> {"idle", "open", "lock", "insert"}]
    /\ seen \in [Workers -> 0 .. MaxRows]
    /\ draft \in [Workers -> SUBSET Row]

\* Whatever transactions append at once, verify_audit_chain accepts the
\* committed chain and no sequence is taken twice.
ChainValid ==
    /\ Verified(log)
    /\ \A r, s \in log : r.sequence = s.sequence => r = s

\* A committed row stays, and a transaction only ever adds rows behind all
\* the rows committed before it, though it read the tail before it waited.
GrowsAtTheEnd ==
    [][/\ log \subseteq log'
       /\ \A r \in log' \ log : \A s \in log : s.sequence < r.sequence]_log

\* No append waits for ever: neither on the tail nor on another insertion.
EveryAppendEnds == \A w \in Workers : pc[w] # "idle" ~> pc[w] = "idle"
=============================================================================

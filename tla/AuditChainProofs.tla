-------------------------- MODULE AuditChainProofs --------------------------
(***************************************************************************)
(* Proofs about AuditChain for any number of transactions, payloads and    *)
(* rows, and any digest function.                                          *)
(*                                                                         *)
(* The argument: the rows a transaction sees have no gap (Gapless), so the *)
(* row after a stale tail is already taken by a committed row or by        *)
(* another transaction's.  Hence only one transaction has uncommitted rows *)
(* (OneAppender), they are all behind the committed chain (Behind), and    *)
(* committing them extends it by linked rows (Chained).                    *)
(***************************************************************************)
EXTENDS AuditChain, TLAPS

Unique ==
    \A v, w \in Workers : \A r \in Visible(v), s \in Visible(w) :
        r.sequence = s.sequence => r = s

UniqueLog == \A r, s \in log : r.sequence = s.sequence => r = s

Chained == Verified(log) /\ \A w \in Workers : Verified(Visible(w))

\* Every sequence up to that of a row is there.
Full(rows) == \A r \in rows : \A n \in 1 .. r.sequence :
                  \E s \in rows : s.sequence = n

Gapless == Full(log) /\ \A w \in Workers : Full(Visible(w))

OneAppender ==
    \A v, w \in Workers : draft[v] # {} /\ draft[w] # {} => v = w

Behind ==
    \A w \in Workers : \A r \in draft[w], s \in log : s.sequence < r.sequence

SeenInv ==
    \A w \in Workers : pc[w] \in {"lock", "insert"} =>
        /\ seen[w] < MaxRows
        /\ seen[w] # 0 => \E r \in Visible(w) : r.sequence = seen[w]

IInv ==
    /\ TypeOK /\ SeenInv
    /\ Unique /\ UniqueLog
    /\ Chained /\ Gapless
    /\ OneAppender /\ Behind

-----------------------------------------------------------------------------
(***************************************************************************)
(* Lemmas.                                                                 *)
(***************************************************************************)
LEMMA VisibleRows ==
    ASSUME TypeOK, NEW w \in Workers
    PROVE  Visible(w) \subseteq Row
  BY DEF TypeOK, Visible

\* A row stays linked when rows are added.
LEMMA LinkedMonotone ==
    ASSUME NEW R, NEW S, R \subseteq S, NEW r, Linked(R, r)
    PROVE  Linked(S, r)
  BY DEF Linked

\* The row an append inserts: typed, behind the row it read, and linked.
LEMMA NextRowFacts ==
    ASSUME TypeOK, SeenInv, NEW w \in Workers, pc[w] = "insert",
           NEW p \in Payloads
    PROVE  /\ NextRow(w, p) \in Row
           /\ NextRow(w, p).sequence = seen[w] + 1
           /\ Linked(Visible(w), NextRow(w, p))
  <1> DEFINE q == CHOOSE r \in Visible(w) : r.sequence = seen[w]
             prev == IF seen[w] = 0 THEN Genesis ELSE q.hash
  <1>1. seen[w] \in 0 .. MaxRows /\ seen[w] < MaxRows /\ MaxRows \in Nat
    BY BoundAssumption DEF TypeOK, SeenInv
  <1>2. seen[w] + 1 \in Sequence
    BY <1>1 DEF Sequence
  <1>3. ASSUME seen[w] # 0
        PROVE  q \in Visible(w) /\ q.sequence = seen[w] /\ q \in Row
    <2>1. \E r \in Visible(w) : r.sequence = seen[w]
      BY <1>3 DEF SeenInv
    <2>2. q \in Visible(w) /\ q.sequence = seen[w]
      BY <2>1
    <2>3. QED  BY <2>2, VisibleRows
  <1>4. prev \in Digests
    BY <1>3, DigestAssumption DEF Row
  <1>5. Digest[prev][p] \in Digests
    BY <1>4, DigestAssumption
  <1>6. NextRow(w, p) = [sequence |-> seen[w] + 1, payload |-> p,
                         previous |-> prev, hash |-> Digest[prev][p]]
    BY DEF NextRow
  <1> HIDE DEF prev
  <1>7. NextRow(w, p) \in Row
    BY <1>2, <1>4, <1>5, <1>6 DEF Row
  <1>8. \/ seen[w] + 1 = 1 /\ prev = Genesis
        \/ \E s \in Visible(w) : seen[w] + 1 = s.sequence + 1 /\ prev = s.hash
    <2>1. CASE seen[w] = 0
      BY <1>1, <2>1 DEF prev
    <2>2. CASE seen[w] # 0
      <3>1. q \in Visible(w) /\ q.sequence = seen[w]
        BY <1>3, <2>2
      <3>2. prev = q.hash
        BY <2>2 DEF prev
      <3> HIDE DEF q
      <3>3. QED  BY <3>1, <3>2
    <2>3. QED  BY <2>1, <2>2
  <1>9. Linked(Visible(w), NextRow(w, p))
    BY <1>6, <1>8 DEF Linked
  <1>10. NextRow(w, p).sequence = seen[w] + 1
    BY <1>6
  <1>11. QED  BY <1>7, <1>9, <1>10

\* The end of a transaction leaves its worker idle and without rows.
LEMMA FinishFacts ==
    ASSUME TypeOK, NEW w \in Workers, Finish(w)
    PROVE  /\ rowLock' \in [Sequence -> Workers \cup {NoWorker}]
           /\ pc' \in [Workers -> {"idle", "open", "lock", "insert"}]
           /\ seen' \in [Workers -> 0 .. MaxRows]
           /\ draft' \in [Workers -> SUBSET Row]
           /\ draft'[w] = {} /\ pc'[w] = "idle"
           /\ \A v \in Workers \ {w} : /\ draft'[v] = draft[v]
                                       /\ pc'[v] = pc[v]
                                       /\ seen'[v] = seen[v]
  BY BoundAssumption DEF TypeOK, Finish

LEMMA InitInv == Init => IInv
  <1> SUFFICES ASSUME Init PROVE IInv
    OBVIOUS
  <1>1. TypeOK
    BY BoundAssumption DEF Init, TypeOK
  <1>2. \A w \in Workers : Visible(w) = {}
    BY DEF Init, Visible
  <1>3. QED
    BY <1>1, <1>2 DEF Init, IInv, SeenInv, Unique, UniqueLog, Chained,
                      Verified, Gapless, Full, OneAppender, Behind

-----------------------------------------------------------------------------
(***************************************************************************)
(* Every step preserves IInv.                                              *)
(***************************************************************************)
\* The invariant depends on the rows that can be seen and on the tails read.
LEMMA RowsUnchanged ==
    ASSUME IInv, TypeOK', SeenInv', log' = log, draft' = draft
    PROVE  IInv'
  <1>1. \A w \in Workers : Visible(w)' = Visible(w)
    BY DEF Visible
  <1>2. Unique' /\ UniqueLog' /\ OneAppender' /\ Behind'
    BY <1>1 DEF IInv, Unique, UniqueLog, OneAppender, Behind
  <1>3. Chained' /\ Gapless'
    BY <1>1 DEF IInv, Chained, Verified, Gapless, Linked, Full
  <1>4. QED  BY <1>2, <1>3 DEF IInv

\* A rollback drops the rows of one transaction.
LEMMA RollbackStep ==
    ASSUME IInv, NEW w \in Workers, Finish(w), log' = log
    PROVE  IInv'
  <1>1. TypeOK /\ SeenInv /\ Unique /\ UniqueLog /\ Chained /\ Gapless
          /\ OneAppender /\ Behind
    BY DEF IInv
  <1>2. /\ draft'[w] = {} /\ pc'[w] = "idle"
        /\ \A v \in Workers \ {w} :
               draft'[v] = draft[v] /\ pc'[v] = pc[v] /\ seen'[v] = seen[v]
    BY <1>1, FinishFacts
  <1>3. TypeOK'
    BY <1>1, FinishFacts DEF TypeOK
  <1>4. Visible(w)' = log /\ \A v \in Workers \ {w} : Visible(v)' = Visible(v)
    BY <1>2 DEF Visible
  <1>5. \A v \in Workers : Visible(v)' \subseteq Visible(v)
    BY <1>2 DEF Visible
  <1>6. SeenInv'
    BY <1>1, <1>2, <1>4 DEF SeenInv
  <1>7. Unique' /\ UniqueLog'
    BY <1>1, <1>5 DEF Unique, UniqueLog
  <1>8. Verified(log)' /\ Full(log)'
    BY <1>1 DEF Chained, Gapless, Verified, Full, Linked
  <1>9. \A v \in Workers : Verified(Visible(v))' /\ Full(Visible(v))'
    <2>1. TAKE v \in Workers
    <2>2. CASE v = w
      BY <1>4, <1>8, <2>2 DEF Verified, Full, Linked
    <2>3. CASE v # w
      BY <1>1, <1>4, <2>3 DEF Chained, Gapless, Verified, Full, Linked
    <2>4. QED  BY <2>2, <2>3
  <1>10. OneAppender' /\ Behind'
    BY <1>1, <1>2 DEF OneAppender, Behind
  <1>11. QED
    BY <1>3, <1>6, <1>7, <1>8, <1>9, <1>10 DEF IInv, Chained, Gapless

\* The inserted row is behind the committed chain, and nobody else has rows.
LEMMA InsertedBehind ==
    ASSUME IInv, NEW w \in Workers, pc[w] = "insert", NEW p \in Payloads,
           \A v \in Workers : \A r \in draft[v] : ~Clash(r, NextRow(w, p)),
           \A r \in log : ~Clash(r, NextRow(w, p))
    PROVE  /\ \A s \in log : s.sequence < NextRow(w, p).sequence
           /\ \A v \in Workers \ {w} : draft[v] = {}
  <1> DEFINE n == seen[w] + 1
  <1>1. TypeOK /\ SeenInv /\ Gapless /\ OneAppender /\ Behind
    BY DEF IInv
  <1>2. NextRow(w, p).sequence = n /\ n \in 1 .. MaxRows
    <2>1. seen[w] \in 0 .. MaxRows /\ seen[w] < MaxRows /\ MaxRows \in Nat
      BY <1>1, BoundAssumption DEF TypeOK, SeenInv
    <2>2. QED  BY <1>1, <2>1, NextRowFacts
  <1>3. \A v \in Workers : \A r \in Visible(v) : r.sequence # n
    BY <1>2 DEF Visible, Clash
  <1>4. \A r \in log : r.sequence # n
    BY <1>2 DEF Clash
  <1> HIDE DEF n
  <1>5. ASSUME NEW s \in log PROVE s.sequence < n
    <2>1. s.sequence \in 1 .. MaxRows
      BY <1>1 DEF TypeOK, Row, Sequence
    <2>2. ~(n \in 1 .. s.sequence)
      BY <1>1, <1>4 DEF Gapless, Full
    <2>3. QED  BY <1>2, <2>1, <2>2
  <1>6. ASSUME NEW v \in Workers, v # w, draft[v] # {} PROVE FALSE
    <2>1. draft[w] = {}
      BY <1>1, <1>6 DEF OneAppender
    <2>2. PICK r \in draft[v] : TRUE
      BY <1>6
    <2>3. r \in Visible(v) /\ r.sequence \in 1 .. MaxRows
      BY <1>1, <2>2 DEF TypeOK, Row, Sequence, Visible
    <2>4. n <= r.sequence
      <3>1. CASE seen[w] = 0
        BY <2>3, <3>1 DEF n
      <3>2. CASE seen[w] # 0
        <4>1. PICK q \in log : q.sequence = seen[w]
          BY <1>1, <2>1, <3>2 DEF SeenInv, Visible
        <4>2. q.sequence < r.sequence
          BY <1>1, <2>2 DEF Behind
        <4>3. seen[w] \in Int
          BY <1>1 DEF TypeOK
        <4>4. QED  BY <2>3, <4>1, <4>2, <4>3 DEF n
      <3>3. QED  BY <3>1, <3>2
    <2>5. n \in 1 .. r.sequence
      BY <1>2, <2>3, <2>4
    <2>6. QED  BY <1>1, <1>3, <2>3, <2>5 DEF Gapless, Full
  <1>7. QED  BY <1>2, <1>5, <1>6

LEMMA InsertStep ==
    ASSUME IInv, NEW w \in Workers, Insert(w)
    PROVE  IInv'
  <1>1. TypeOK /\ SeenInv /\ Unique /\ UniqueLog /\ Chained /\ Gapless
          /\ OneAppender /\ Behind
    BY DEF IInv
  <1>2. PICK p \in Payloads :
          /\ \A v \in Workers : \A r \in draft[v] : ~Clash(r, NextRow(w, p))
          /\ \A r \in log : ~Clash(r, NextRow(w, p))
          /\ draft' = [draft EXCEPT ![w] = @ \cup {NextRow(w, p)}]
    BY DEF Insert
  <1> DEFINE new == NextRow(w, p)
             n == seen[w] + 1
  <1>3. /\ new \in Row /\ new.sequence = n /\ Linked(Visible(w), new)
    BY <1>1, NextRowFacts DEF Insert
  <1>4. /\ \A s \in log : s.sequence < new.sequence
        /\ \A v \in Workers \ {w} : draft[v] = {}
    BY <1>2, InsertedBehind DEF Insert
  <1>5. \A v \in Workers : \A r \in Visible(v) : r.sequence # new.sequence
    BY <1>2 DEF Visible, Clash
  <1> HIDE DEF new
  <1>6. /\ log' = log
        /\ draft' \in [Workers -> SUBSET Row]
        /\ draft'[w] = draft[w] \cup {new}
        /\ \A v \in Workers \ {w} : draft'[v] = {}
    BY <1>1, <1>2, <1>3, <1>4 DEF TypeOK, Insert, new
  <1>7. /\ Visible(w)' = Visible(w) \cup {new}
        /\ \A v \in Workers \ {w} : Visible(v)' = log /\ Visible(v) = log
    BY <1>4, <1>6 DEF Visible
  <1>8. TypeOK'
    BY <1>1, <1>6 DEF TypeOK, Insert
  <1>9. SeenInv'
    BY <1>1, <1>7 DEF SeenInv, Insert, TypeOK
  <1>10. Unique' /\ UniqueLog'
    <2>1. \A v \in Workers : Visible(v)' \subseteq Visible(w) \cup {new}
      BY <1>7 DEF Visible
    <2>2. QED  BY <1>1, <1>5, <1>6, <2>1 DEF Unique, UniqueLog
  <1>11. Chained'
    <2>1. \A r \in Visible(w) \cup {new} : Linked(Visible(w) \cup {new}, r)
      BY <1>1, <1>3, LinkedMonotone DEF Chained, Verified
    <2>2. Verified(Visible(w))' /\ Verified(log)'
      BY <1>1, <1>6, <1>7, <2>1 DEF Chained, Verified, Linked
    <2>3. QED  BY <1>6, <1>7, <2>2 DEF Chained, Verified, Linked
  <1>12. Gapless'
    <2>1. n \in Nat /\ seen[w] \in Nat
      BY <1>1, BoundAssumption DEF TypeOK
    <2>2. ASSUME NEW m \in 1 .. new.sequence
          PROVE  \E s \in Visible(w) \cup {new} : s.sequence = m
      <3>1. CASE m = n
        BY <1>3, <3>1
      <3>2. CASE m # n
        <4>1. m \in 1 .. seen[w] /\ seen[w] # 0
          BY <1>3, <2>1, <3>2
        <4>2. PICK r \in Visible(w) : r.sequence = seen[w]
          BY <1>1, <4>1 DEF SeenInv, Insert
        <4>3. QED  BY <1>1, <4>1, <4>2 DEF Gapless, Full
      <3>3. QED  BY <3>1, <3>2
    <2>3. Full(Visible(w))' /\ Full(log)'
      BY <1>1, <1>6, <1>7, <2>2 DEF Gapless, Full
    <2>4. QED  BY <1>6, <1>7, <2>3 DEF Gapless, Full
  <1>13. OneAppender' /\ Behind'
    BY <1>1, <1>4, <1>6 DEF OneAppender, Behind
  <1>14. QED
    BY <1>8, <1>9, <1>10, <1>11, <1>12, <1>13 DEF IInv

LEMMA CommitStep ==
    ASSUME IInv, NEW w \in Workers, Commit(w)
    PROVE  IInv'
  <1>1. TypeOK /\ SeenInv /\ Unique /\ UniqueLog /\ Chained /\ Gapless
          /\ OneAppender /\ Behind
    BY DEF IInv
  <1>2. /\ draft'[w] = {} /\ pc'[w] = "idle"
        /\ draft' \in [Workers -> SUBSET Row]
        /\ \A v \in Workers \ {w} :
               draft'[v] = draft[v] /\ pc'[v] = pc[v] /\ seen'[v] = seen[v]
    BY <1>1, FinishFacts DEF Commit
  <1>3. log' = Visible(w)
    BY DEF Commit, Visible
  <1>4. TypeOK'
    BY <1>1, <1>2, <1>3, FinishFacts, VisibleRows DEF TypeOK, Commit
  <1>5. CASE draft[w] = {}
    <2>1. log' = log
      BY <1>3, <1>5 DEF Visible
    <2>2. QED  BY <2>1, RollbackStep DEF Commit
  <1>6. CASE draft[w] # {}
    <2>1. \A v \in Workers \ {w} : draft[v] = {}
      BY <1>1, <1>6 DEF OneAppender
    <2>2. \A v \in Workers : draft'[v] = {}
      BY <1>2, <2>1
    <2>3. \A v \in Workers : Visible(v)' = Visible(w)
      BY <1>3, <2>2 DEF Visible
    <2>4. \A v \in Workers \ {w} : Visible(v) \subseteq Visible(w)
      BY <2>1 DEF Visible
    <2>5. SeenInv'
      BY <1>1, <1>2, <2>3, <2>4 DEF SeenInv
    <2>6. Unique' /\ UniqueLog'
      BY <1>1, <1>3, <2>3 DEF Unique, UniqueLog
    <2>7. Chained'
      BY <1>1, <1>3, <2>3 DEF Chained, Verified, Linked
    <2>8. Gapless'
      BY <1>1, <1>3, <2>3 DEF Gapless, Full
    <2>9. OneAppender' /\ Behind'
      BY <2>2 DEF OneAppender, Behind
    <2>10. QED
      BY <1>4, <2>5, <2>6, <2>7, <2>8, <2>9 DEF IInv
  <1>7. QED  BY <1>5, <1>6

LEMMA NextInv == IInv /\ [Next]_vars => IInv'
  <1> SUFFICES ASSUME IInv, [Next]_vars PROVE IInv'
    OBVIOUS
  <1>0. TypeOK /\ SeenInv
    BY DEF IInv
  <1>1. CASE UNCHANGED vars
    <2>1. TypeOK'
      BY <1>0, <1>1 DEF vars, TypeOK
    <2>2. SeenInv'
      BY <1>0, <1>1 DEF vars, SeenInv, Visible
    <2>3. QED  BY <1>1, <2>1, <2>2, RowsUnchanged DEF vars
  <1>2. ASSUME NEW w \in Workers, Begin(w) PROVE IInv'
    <2>1. TypeOK'
      BY <1>0, <1>2 DEF TypeOK, Begin
    <2>2. SeenInv'
      BY <1>0, <1>2 DEF SeenInv, Begin, TypeOK, Visible
    <2>3. QED  BY <1>2, <2>1, <2>2, RowsUnchanged DEF Begin
  <1>3. ASSUME NEW w \in Workers, ReadTail(w) PROVE IInv'
    <2>1. PICK n \in 0 .. (MaxRows - 1) :
            IsTail(Visible(w), n) /\ seen' = [seen EXCEPT ![w] = n]
      BY <1>3 DEF ReadTail
    <2>2. n \in 0 .. MaxRows /\ n < MaxRows
      BY BoundAssumption
    <2>3. TypeOK'
      BY <1>0, <1>3, <2>1, <2>2 DEF TypeOK, ReadTail
    <2>4. SeenInv'
      BY <1>0, <1>3, <2>1, <2>2 DEF SeenInv, ReadTail, TypeOK, Visible, IsTail
    <2>5. QED  BY <1>3, <2>3, <2>4, RowsUnchanged DEF ReadTail
  <1>4. ASSUME NEW w \in Workers, LockTail(w) PROVE IInv'
    <2>1. TypeOK'
      BY <1>0, <1>4 DEF TypeOK, LockTail
    <2>2. SeenInv'
      BY <1>0, <1>4 DEF SeenInv, LockTail, TypeOK, Visible
    <2>3. QED  BY <1>4, <2>1, <2>2, RowsUnchanged DEF LockTail
  <1>5. ASSUME NEW w \in Workers, Insert(w) PROVE IInv'
    BY <1>5, InsertStep
  <1>6. ASSUME NEW w \in Workers, Conflict(w) PROVE IInv'
    BY <1>6, RollbackStep DEF Conflict
  <1>7. ASSUME NEW w \in Workers, Commit(w) PROVE IInv'
    BY <1>7, CommitStep
  <1>8. ASSUME NEW w \in Workers, Abort(w) PROVE IInv'
    BY <1>8, RollbackStep DEF Abort
  <1>9. QED
    BY <1>1, <1>2, <1>3, <1>4, <1>5, <1>6, <1>7, <1>8 DEF Next, Work

-----------------------------------------------------------------------------
(***************************************************************************)
(* Theorems.                                                               *)
(***************************************************************************)
THEOREM Invariance == Spec => []IInv
  BY InitInv, NextInv, PTL DEF Spec

\* The tables and the local state of append_audit_event keep their types.
THEOREM TypeCorrect == Spec => []TypeOK
  <1>1. IInv => TypeOK  BY DEF IInv
  <1>2. QED  BY <1>1, Invariance, PTL

\* However transactions interleave, verify_audit_chain accepts the chain.
THEOREM ChainStaysValid == Spec => []ChainValid
  <1>1. IInv => ChainValid  BY DEF IInv, ChainValid, Chained, UniqueLog
  <1>2. QED  BY <1>1, Invariance, PTL

\* Committed rows stay and new ones come behind them, although the sequence
\* of a new row is computed from a tail read before the wait for its lock.
THEOREM GrowthAtTheEnd == Spec => GrowsAtTheEnd
  <1> DEFINE A == /\ log \subseteq log'
                  /\ \A r \in log' \ log : \A s \in log : s.sequence < r.sequence
  <1>1. IInv /\ [Next]_vars => [A]_log
    <2> SUFFICES ASSUME IInv, [Next]_vars, log' # log PROVE A
      OBVIOUS
    <2>1. PICK w \in Workers : Commit(w)
      BY DEF Next, Work, vars, Begin, ReadTail, LockTail, Insert, Conflict, Abort
    <2>2. QED  BY <2>1 DEF Commit, IInv, Behind
  <1>2. QED  BY <1>1, Invariance, PTL DEF Spec, GrowsAtTheEnd

=============================================================================

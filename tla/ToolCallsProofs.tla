-------------------------- MODULE ToolCallsProofs --------------------------
(***************************************************************************)
(* Proofs about ToolCalls, for any finite set of calls, any features, any  *)
(* number of slots and connections.                                        *)
(***************************************************************************)
EXTENDS ToolCallsInv, FiniteSetTheorems, TLAPS

\* The calls that hold a slot can be counted.
LEMMA HoldersFinite ==
    /\ IsFiniteSet(Holders)
    /\ Cardinality(Holders) \in Nat
<1>1. IsFiniteSet(Holders)
  BY CallsAssumption, FS_Subset DEF Holders
<1>2. QED
  BY <1>1, FS_CardinalityType

\* A call that gets a slot adds one holder (Source.Acquire).
LEMMA AddHolder ==
    ASSUME NEW c \in Calls, pc \in [Calls -> PCs], pc[c] = "queued",
           pc' = [pc EXCEPT ![c] = "admitted"]
    PROVE  Cardinality(Holders') = Cardinality(Holders) + 1
<1>1. Holders' = Holders \cup {c} /\ c \notin Holders
  BY DEF Holders
<1>2. QED
  BY <1>1, HoldersFinite, FS_AddElement

\* A call that is answered removes one (the release function of Acquire).
LEMMA RemoveHolder ==
    ASSUME NEW c \in Calls, pc \in [Calls -> PCs], pc[c] = "returning",
           pc' = [pc EXCEPT ![c] = "done"]
    PROVE  /\ Cardinality(Holders') = Cardinality(Holders) - 1
           /\ Cardinality(Holders) > 0
<1>1. Holders' = Holders \ {c} /\ c \in Holders
  BY DEF Holders
<1>2. Cardinality(Holders') = Cardinality(Holders) - 1
  BY <1>1, HoldersFinite, FS_RemoveElement
<1>3. Cardinality(Holders) # 0
  BY <1>1, HoldersFinite, FS_EmptySet
<1>4. QED
  BY <1>2, <1>3, HoldersFinite

\* Every other step keeps the set of holders.
LEMMA SameHolders ==
    ASSUME NEW c \in Calls, NEW p, pc \in [Calls -> PCs],
           pc' = [pc EXCEPT ![c] = p],
           pc[c] \in {"idle", "queued", "done"} <=> p \in {"idle", "queued", "done"}
    PROVE  Holders' = Holders
  BY DEF Holders

\* What the invariant says of one call depends on nothing but its own state.
LEMMA OtherCalls ==
    ASSUME NEW d \in Calls, CallInv(d),
           pc'[d] = pc[d], kind'[d] = kind[d], result'[d] = result[d],
           conn'[d] = conn[d], tx'[d] = tx[d], todo'[d] = todo[d],
           wire'[d] = wire[d], applied'[d] = applied[d]
    PROVE  CallInv(d)'
  BY DEF CallInv, TxInv, ConnInv, WireInv, ResultInv, KindInv

\* The invariant is inductive: every step of a call, of its clients, of its
\* context and of MySQL preserves the types, the account of the slots, what
\* the invariant says of the call, and what it says of the others.
THEOREM Inductive == IInv /\ [Next]_vars => IInv'
<1> SUFFICES ASSUME IInv, [Next]_vars PROVE IInv'
  OBVIOUS
<1> USE DEF IInv
<1>1. ASSUME NEW c \in Calls, NEW k \in Requests, Submit(c, k) PROVE IInv'
  <2>1. TypeOK'
    BY <1>1, RequestsAssumption DEF Submit, Goto, contextVars, dbVars,
       serverVars, TypeOK, PCs
  <2>2. SlotsAccounted'
    BY <1>1, SameHolders, HoldersFinite DEF Submit, Goto, contextVars, dbVars,
       serverVars, SlotsAccounted, TypeOK, PCs, Executing
  <2>3. CallInv(c)'
    BY <1>1, RequestsAssumption DEF Submit, Goto, dbVars, serverVars, TypeOK,
       CallInv, TxInv, ConnInv, WireInv, ResultInv, KindInv, Left, Executing
  <2>4. ASSUME NEW d \in Calls, d # c PROVE CallInv(d)'
    BY <1>1, <2>4, OtherCalls DEF Submit, Goto, dbVars, serverVars
  <2>5. QED
    BY <2>1, <2>2, <2>3, <2>4
<1>2. ASSUME NEW c \in Calls, Cancel(c) PROVE IInv'
  <2>1. TypeOK'
    BY <1>2 DEF Cancel, callVars, dbVars, serverVars, TypeOK
  <2>2. SlotsAccounted'
    BY <1>2 DEF Cancel, callVars, dbVars, serverVars, SlotsAccounted, TypeOK,
       PCs, Executing, Holders
  <2>3. CallInv(c)'
    BY <1>2 DEF Cancel, callVars, dbVars, serverVars, CallInv, TxInv, ConnInv,
       WireInv, ResultInv, KindInv
  <2>4. ASSUME NEW d \in Calls, d # c PROVE CallInv(d)'
    BY <1>2, <2>4, OtherCalls DEF Cancel, callVars, dbVars, serverVars
  <2>5. QED
    BY <2>1, <2>2, <2>3, <2>4
<1>3. ASSUME NEW c \in Calls, Expire(c) PROVE IInv'
  <2>1. TypeOK'
    BY <1>3 DEF Expire, callVars, dbVars, serverVars, TypeOK
  <2>2. SlotsAccounted'
    BY <1>3 DEF Expire, callVars, dbVars, serverVars, SlotsAccounted, TypeOK,
       PCs, Executing, Holders
  <2>3. CallInv(c)'
    BY <1>3 DEF Expire, callVars, dbVars, serverVars, CallInv, TxInv, ConnInv,
       WireInv, ResultInv, KindInv
  <2>4. ASSUME NEW d \in Calls, d # c PROVE CallInv(d)'
    BY <1>3, <2>4, OtherCalls DEF Expire, callVars, dbVars, serverVars
  <2>5. QED
    BY <2>1, <2>2, <2>3, <2>4
<1>4. ASSUME NEW c \in Calls, Acquire(c) PROVE IInv'
  <2>1. TypeOK'
    BY <1>4, MaxConcurrencyAssumption DEF Acquire, Goto, contextVars, dbVars,
       serverVars, TypeOK, PCs
  <2>2. SlotsAccounted'
    BY <1>4, AddHolder, HoldersFinite DEF Acquire, Goto, contextVars, dbVars,
       serverVars, SlotsAccounted, TypeOK, PCs, Executing
  <2>3. CallInv(c)'
    BY <1>4 DEF Acquire, Goto, dbVars, serverVars, CallInv, TxInv, ConnInv,
       WireInv, ResultInv, KindInv, Left, Executing
  <2>4. ASSUME NEW d \in Calls, d # c PROVE CallInv(d)'
    BY <1>4, <2>4, OtherCalls DEF Acquire, Goto, dbVars, serverVars
  <2>5. QED
    BY <2>1, <2>2, <2>3, <2>4
<1>5. ASSUME NEW c \in Calls, AcquireCancelled(c) PROVE IInv'
  <2>1. TypeOK'
    BY <1>5 DEF AcquireCancelled, Goto, contextVars, dbVars, serverVars,
       TypeOK, PCs
  <2>2. SlotsAccounted'
    BY <1>5, SameHolders, HoldersFinite DEF AcquireCancelled, Goto,
       contextVars, dbVars, serverVars, SlotsAccounted, TypeOK, PCs, Executing
  <2>3. CallInv(c)'
    BY <1>5 DEF AcquireCancelled, Goto, dbVars, serverVars, TypeOK, CallInv,
       TxInv, ConnInv, WireInv, ResultInv, KindInv, Left
  <2>4. ASSUME NEW d \in Calls, d # c PROVE CallInv(d)'
    BY <1>5, <2>4, OtherCalls DEF AcquireCancelled, Goto, dbVars, serverVars
  <2>5. QED
    BY <2>1, <2>2, <2>3, <2>4
<1>6. ASSUME NEW c \in Calls, Reject(c) PROVE IInv'
  <2>1. TypeOK'
    BY <1>6 DEF Reject, Goto, Leave, contextVars, dbVars, serverVars, TypeOK,
       PCs, Executing
  <2>2. SlotsAccounted'
    BY <1>6, SameHolders, HoldersFinite DEF Reject, Goto, Leave, contextVars,
       dbVars, serverVars, SlotsAccounted, TypeOK, PCs, Executing
  <2>3. CallInv(c)'
    BY <1>6 DEF Reject, Goto, Leave, dbVars, serverVars, TypeOK, CallInv,
       TxInv, ConnInv, WireInv, ResultInv, KindInv, Left
  <2>4. ASSUME NEW d \in Calls, d # c PROVE CallInv(d)'
    BY <1>6, <2>4, OtherCalls DEF Reject, Goto, Leave, dbVars, serverVars
  <2>5. QED
    BY <2>1, <2>2, <2>3, <2>4
<1>7. ASSUME NEW c \in Calls, ListNothing(c) PROVE IInv'
  <2>1. TypeOK'
    BY <1>7 DEF ListNothing, Goto, Leave, contextVars, dbVars, serverVars,
       TypeOK, PCs, Executing
  <2>2. SlotsAccounted'
    BY <1>7, SameHolders, HoldersFinite DEF ListNothing, Goto, Leave,
       contextVars, dbVars, serverVars, SlotsAccounted, TypeOK, PCs, Executing
  <2>3. CallInv(c)'
    BY <1>7 DEF ListNothing, Goto, Leave, dbVars, serverVars, TypeOK, CallInv,
       TxInv, ConnInv, WireInv, ResultInv, KindInv, Left, Effectful
  <2>4. ASSUME NEW d \in Calls, d # c PROVE CallInv(d)'
    BY <1>7, <2>4, OtherCalls DEF ListNothing, Goto, Leave, dbVars, serverVars
  <2>5. QED
    BY <2>1, <2>2, <2>3, <2>4
<1>8. ASSUME NEW c \in Calls, Admit(c) PROVE IInv'
  <2>1. TypeOK'
    BY <1>8 DEF Admit, Goto, contextVars, serverVars, TypeOK, PCs, Executing,
       Statements
  <2>2. SlotsAccounted'
    BY <1>8, SameHolders, HoldersFinite DEF Admit, Goto, contextVars,
       serverVars, SlotsAccounted, TypeOK, PCs, Executing
  <2>3. CallInv(c)'
    BY <1>8 DEF Admit, Goto, serverVars, TypeOK, CallInv, TxInv, ConnInv,
       WireInv, ResultInv, KindInv, Left, Effectful, Accepted, Registered,
       Statements
  <2>4. ASSUME NEW d \in Calls, d # c PROVE CallInv(d)'
    BY <1>8, <2>4, OtherCalls DEF Admit, Goto, serverVars
  <2>5. QED
    BY <2>1, <2>2, <2>3, <2>4
<1>9. ASSUME NEW c \in Calls, Return(c) PROVE IInv'
  <2>1. Cardinality(Holders) > 0
    BY <1>9, RemoveHolder DEF Return, Goto, TypeOK
  <2>2. TypeOK'
    BY <1>9, MaxConcurrencyAssumption, <2>1 DEF Return, Goto, contextVars,
       dbVars, serverVars, TypeOK, PCs, SlotsAccounted
  <2>3. SlotsAccounted'
    BY <1>9, RemoveHolder, HoldersFinite DEF Return, Goto, contextVars,
       dbVars, serverVars, SlotsAccounted, TypeOK, PCs, Executing
  <2>4. CallInv(c)'
    BY <1>9 DEF Return, Goto, dbVars, serverVars, TypeOK, TxStates, CallInv,
       TxInv, ConnInv, WireInv, ResultInv, KindInv, Left
  <2>5. ASSUME NEW d \in Calls, d # c PROVE CallInv(d)'
    BY <1>9, <2>5, OtherCalls DEF Return, Goto, dbVars, serverVars
  <2>6. QED
    BY <2>2, <2>3, <2>4, <2>5
<1>10. ASSUME NEW c \in Calls, GetConn(c) PROVE IInv'
  <2>1. TypeOK'
    BY <1>10 DEF GetConn, Goto, contextVars, serverVars, TypeOK, PCs,
       Executing, Pools, PoolOf
  <2>2. SlotsAccounted'
    BY <1>10, SameHolders, HoldersFinite DEF GetConn, Goto, contextVars,
       serverVars, SlotsAccounted, TypeOK, PCs, Executing
  <2>3. CallInv(c)'
    BY <1>10 DEF GetConn, Goto, serverVars, TypeOK, CallInv, TxInv, ConnInv,
       WireInv, ResultInv, KindInv, Left, Executing
  <2>4. ASSUME NEW d \in Calls, d # c PROVE CallInv(d)'
    BY <1>10, <2>4, OtherCalls DEF GetConn, Goto, serverVars
  <2>5. QED
    BY <2>1, <2>2, <2>3, <2>4
<1>11. ASSUME NEW c \in Calls, ConnFail(c) PROVE IInv'
  <2>1. TypeOK'
    BY <1>11 DEF ConnFail, Goto, Leave, contextVars, dbVars, serverVars,
       TypeOK, PCs, Executing, ErrorOf
  <2>2. SlotsAccounted'
    BY <1>11, SameHolders, HoldersFinite DEF ConnFail, Goto, Leave,
       contextVars, dbVars, serverVars, SlotsAccounted, TypeOK, PCs, Executing
  <2>3. CallInv(c)'
    BY <1>11 DEF ConnFail, Goto, Leave, dbVars, serverVars, TypeOK, CallInv,
       TxInv, ConnInv, WireInv, ResultInv, KindInv, Left, Executing,
       Effectful, ErrorOf
  <2>4. ASSUME NEW d \in Calls, d # c PROVE CallInv(d)'
    BY <1>11, <2>4, OtherCalls DEF ConnFail, Goto, Leave, dbVars, serverVars
  <2>5. QED
    BY <2>1, <2>2, <2>3, <2>4
<1>12. ASSUME NEW c \in Calls, BadConn(c) PROVE IInv'
  <2>1. TypeOK'
    BY <1>12 DEF BadConn, Goto, Release, contextVars, serverVars, TypeOK, PCs,
       Executing
  <2>2. SlotsAccounted'
    BY <1>12, SameHolders, HoldersFinite DEF BadConn, Goto, Release,
       contextVars, serverVars, SlotsAccounted, TypeOK, PCs, Executing
  <2>3. CallInv(c)'
    BY <1>12 DEF BadConn, Goto, Release, serverVars, TypeOK, CallInv, TxInv,
       ConnInv, WireInv, ResultInv, KindInv, Left, Executing
  <2>4. ASSUME NEW d \in Calls, d # c PROVE CallInv(d)'
    BY <1>12, <2>4, OtherCalls DEF BadConn, Goto, Release, serverVars
  <2>5. QED
    BY <2>1, <2>2, <2>3, <2>4
<1>13. ASSUME NEW c \in Calls, Begin(c) PROVE IInv'
  <2>1. TypeOK'
    BY <1>13 DEF Begin, Goto, contextVars, serverVars, TypeOK, PCs, Executing,
       TxStates
  <2>2. SlotsAccounted'
    BY <1>13, SameHolders, HoldersFinite DEF Begin, Goto, contextVars,
       serverVars, SlotsAccounted, TypeOK, PCs, Executing
  <2>3. CallInv(c)'
    BY <1>13 DEF Begin, Goto, serverVars, TypeOK, CallInv, TxInv, ConnInv,
       WireInv, ResultInv, KindInv, Left, Executing
  <2>4. ASSUME NEW d \in Calls, d # c PROVE CallInv(d)'
    BY <1>13, <2>4, OtherCalls DEF Begin, Goto, serverVars
  <2>5. QED
    BY <2>1, <2>2, <2>3, <2>4
<1>14. ASSUME NEW c \in Calls, Watch(c) PROVE IInv'
  <2>1. TypeOK'
    BY <1>14 DEF Watch, Goto, contextVars, dbVars, serverVars, TypeOK, PCs, Executing, TxStates
  <2>2. SlotsAccounted'
    BY <1>14, SameHolders, HoldersFinite DEF Watch, Goto, contextVars, dbVars,
       serverVars, SlotsAccounted, TypeOK, PCs, Executing
  <2>3. CallInv(c)'
    BY <1>14 DEF Watch, Goto, dbVars, serverVars, TypeOK, CallInv,
       TxInv, ConnInv, WireInv, ResultInv, KindInv, Left, Executing, Commits, Transactional
  <2>4. ASSUME NEW d \in Calls, d # c PROVE CallInv(d)'
    BY <1>14, <2>4, OtherCalls DEF Watch, Goto, dbVars, serverVars
  <2>5. QED
    BY <2>1, <2>2, <2>3, <2>4
<1>15. ASSUME NEW c \in Calls, Send(c) PROVE IInv'
  <2>1. TypeOK'
    BY <1>15 DEF Send, Goto, contextVars, dbVars, TypeOK, PCs, Executing
  <2>2. SlotsAccounted'
    BY <1>15, SameHolders, HoldersFinite DEF Send, Goto, contextVars, dbVars,
       SlotsAccounted, TypeOK, PCs, Executing
  <2>3. CallInv(c)'
    BY <1>15 DEF Send, Goto, dbVars, TypeOK, CallInv, TxInv, ConnInv, WireInv,
       ResultInv, KindInv, Left, Executing, Effectful
  <2>4. ASSUME NEW d \in Calls, d # c PROVE CallInv(d)'
    BY <1>15, <2>4, OtherCalls DEF Send, Goto, dbVars
  <2>5. QED
    BY <2>1, <2>2, <2>3, <2>4
<1>16. ASSUME NEW c \in Calls, SendFail(c) PROVE IInv'
  <2>1. TypeOK'
    BY <1>16 DEF SendFail, Goto, Leave, Release, contextVars, serverVars,
       TypeOK, PCs, Executing, ErrorOf
  <2>2. SlotsAccounted'
    BY <1>16, SameHolders, HoldersFinite DEF SendFail, Goto, Leave, Release,
       contextVars, serverVars, SlotsAccounted, TypeOK, PCs, Executing
  <2>3. CallInv(c)'
    BY <1>16 DEF SendFail, Goto, Leave, Release, serverVars, TypeOK, CallInv,
       TxInv, ConnInv, WireInv, ResultInv, KindInv, Left, Executing,
       Effectful, ErrorOf
  <2>4. ASSUME NEW d \in Calls, d # c PROVE CallInv(d)'
    BY <1>16, <2>4, OtherCalls DEF SendFail, Goto, Leave, Release, serverVars
  <2>5. QED
    BY <2>1, <2>2, <2>3, <2>4
<1>17. ASSUME NEW c \in Calls, Start(c) PROVE IInv'
  <2>1. TypeOK'
    BY <1>17 DEF Start, Goto, contextVars, dbVars, serverVars, TypeOK, PCs,
       Executing
  <2>2. SlotsAccounted'
    BY <1>17, SameHolders, HoldersFinite DEF Start, Goto, contextVars, dbVars,
       serverVars, SlotsAccounted, TypeOK, PCs, Executing
  <2>3. CallInv(c)'
    BY <1>17 DEF Start, Goto, dbVars, serverVars, CallInv, TxInv, ConnInv,
       WireInv, ResultInv, KindInv, Left, Executing
  <2>4. ASSUME NEW d \in Calls, d # c PROVE CallInv(d)'
    BY <1>17, <2>4, OtherCalls DEF Start, Goto, dbVars, serverVars
  <2>5. QED
    BY <2>1, <2>2, <2>3, <2>4
<1>18. ASSUME NEW c \in Calls, StartFail(c) PROVE IInv'
  <2>1. TypeOK'
    BY <1>18 DEF StartFail, Goto, Leave, contextVars, dbVars, serverVars,
       TypeOK, PCs, Executing
  <2>2. SlotsAccounted'
    BY <1>18, SameHolders, HoldersFinite DEF StartFail, Goto, Leave,
       contextVars, dbVars, serverVars, SlotsAccounted, TypeOK, PCs, Executing
  <2>3. CallInv(c)'
    BY <1>18 DEF StartFail, Goto, Leave, dbVars, serverVars, TypeOK, CallInv,
       TxInv, ConnInv, WireInv, ResultInv, KindInv, Left
  <2>4. ASSUME NEW d \in Calls, d # c PROVE CallInv(d)'
    BY <1>18, <2>4, OtherCalls DEF StartFail, Goto, Leave, dbVars, serverVars
  <2>5. QED
    BY <2>1, <2>2, <2>3, <2>4
<1>19. ASSUME NEW c \in Calls, RunOk(c) PROVE IInv'
  <2>1. TypeOK'
    BY <1>19 DEF RunOk, Goto, contextVars, dbVars, serverVars, TypeOK, PCs,
       Executing
  <2>2. SlotsAccounted'
    BY <1>19, SameHolders, HoldersFinite DEF RunOk, Goto, contextVars, dbVars,
       serverVars, SlotsAccounted, TypeOK, PCs, Executing
  <2>3. CallInv(c)'
    BY <1>19 DEF RunOk, Goto, dbVars, serverVars, CallInv, TxInv, ConnInv,
       WireInv, ResultInv, KindInv, Left, Executing
  <2>4. ASSUME NEW d \in Calls, d # c PROVE CallInv(d)'
    BY <1>19, <2>4, OtherCalls DEF RunOk, Goto, dbVars, serverVars
  <2>5. QED
    BY <2>1, <2>2, <2>3, <2>4
<1>20. ASSUME NEW c \in Calls, ExecOk(c) PROVE IInv'
  <2>1. TypeOK'
    BY <1>20 DEF ExecOk, Goto, Leave, Release, contextVars, serverVars,
       TypeOK, PCs, Executing
  <2>2. SlotsAccounted'
    BY <1>20, SameHolders, HoldersFinite DEF ExecOk, Goto, Leave, Release,
       contextVars, serverVars, SlotsAccounted, TypeOK, PCs, Executing
  <2>3. CallInv(c)'
    BY <1>20 DEF ExecOk, Goto, Leave, Release, serverVars, TypeOK, CallInv,
       TxInv, ConnInv, WireInv, ResultInv, KindInv, Left, Effectful
  <2>4. ASSUME NEW d \in Calls, d # c PROVE CallInv(d)'
    BY <1>20, <2>4, OtherCalls DEF ExecOk, Goto, Leave, Release, serverVars
  <2>5. QED
    BY <2>1, <2>2, <2>3, <2>4
<1>21. ASSUME NEW c \in Calls, RunFail(c) PROVE IInv'
  <2>1. TypeOK'
    BY <1>21 DEF RunFail, Goto, Leave, contextVars, serverVars, TypeOK, PCs,
       Executing, ErrorOf
  <2>2. SlotsAccounted'
    BY <1>21, SameHolders, HoldersFinite DEF RunFail, Goto, Leave,
       contextVars, serverVars, SlotsAccounted, TypeOK, PCs, Executing
  <2>3. CallInv(c)'
    BY <1>21 DEF RunFail, Goto, Leave, serverVars, TypeOK, CallInv, TxInv,
       ConnInv, WireInv, ResultInv, KindInv, Left, Executing, Effectful,
       ErrorOf
  <2>4. ASSUME NEW d \in Calls, d # c PROVE CallInv(d)'
    BY <1>21, <2>4, OtherCalls DEF RunFail, Goto, Leave, serverVars
  <2>5. QED
    BY <2>1, <2>2, <2>3, <2>4
<1>22. ASSUME NEW c \in Calls, Resend(c) PROVE IInv'
  <2>1. TypeOK'
    BY <1>22 DEF Resend, Goto, Release, contextVars, TypeOK, PCs, Executing
  <2>2. SlotsAccounted'
    BY <1>22, SameHolders, HoldersFinite DEF Resend, Goto, Release,
       contextVars, SlotsAccounted, TypeOK, PCs, Executing
  <2>3. CallInv(c)'
    BY <1>22 DEF Resend, Goto, Release, TypeOK, CallInv, TxInv, ConnInv,
       WireInv, ResultInv, KindInv, Left, Transactional
  <2>4. ASSUME NEW d \in Calls, d # c PROVE CallInv(d)'
    BY <1>22, <2>4, OtherCalls DEF Resend, Goto, Release
  <2>5. QED
    BY <2>1, <2>2, <2>3, <2>4
<1>23. ASSUME NEW c \in Calls, ReadOk(c) PROVE IInv'
  <2>1. TypeOK'
    BY <1>23 DEF ReadOk, Goto, Leave, contextVars, serverVars, TypeOK, PCs,
       Executing
  <2>2. SlotsAccounted'
    BY <1>23, SameHolders, HoldersFinite DEF ReadOk, Goto, Leave, contextVars,
       serverVars, SlotsAccounted, TypeOK, PCs, Executing
  <2>3. CallInv(c)'
    <3>1. CASE todo[c] > 1
      BY <1>23, <3>1 DEF ReadOk, Goto, serverVars, TypeOK, CallInv, TxInv,
         ConnInv, WireInv, ResultInv, KindInv, Left, Executing, Transactional
    <3>2. CASE ~(todo[c] > 1)
      BY <1>23, <3>2 DEF ReadOk, Goto, Leave, serverVars, TypeOK, CallInv,
         TxInv, ConnInv, WireInv, ResultInv, KindInv, Left, Effectful, Commits
    <3>3. QED
      BY <3>1, <3>2
  <2>4. ASSUME NEW d \in Calls, d # c PROVE CallInv(d)'
    BY <1>23, <2>4, OtherCalls DEF ReadOk, Goto, Leave, serverVars, TypeOK
  <2>5. QED
    BY <2>1, <2>2, <2>3, <2>4
<1>24. ASSUME NEW c \in Calls, ReadToCommit(c) PROVE IInv'
  <2>1. TypeOK'
    BY <1>24 DEF ReadToCommit, Goto, contextVars, dbVars, serverVars, TypeOK,
       PCs, Executing
  <2>2. SlotsAccounted'
    BY <1>24, SameHolders, HoldersFinite DEF ReadToCommit, Goto, contextVars,
       dbVars, serverVars, SlotsAccounted, TypeOK, PCs, Executing
  <2>3. CallInv(c)'
    BY <1>24 DEF ReadToCommit, Goto, dbVars, serverVars, CallInv, TxInv,
       ConnInv, WireInv, ResultInv, KindInv, Left, Executing, Commits,
       Transactional
  <2>4. ASSUME NEW d \in Calls, d # c PROVE CallInv(d)'
    BY <1>24, <2>4, OtherCalls DEF ReadToCommit, Goto, dbVars, serverVars
  <2>5. QED
    BY <2>1, <2>2, <2>3, <2>4
<1>25. ASSUME NEW c \in Calls, ReadFail(c) PROVE IInv'
  <2>1. TypeOK'
    BY <1>25 DEF ReadFail, Goto, Leave, contextVars, serverVars, TypeOK, PCs,
       Executing
  <2>2. SlotsAccounted'
    BY <1>25, SameHolders, HoldersFinite DEF ReadFail, Goto, Leave,
       contextVars, serverVars, SlotsAccounted, TypeOK, PCs, Executing
  <2>3. CallInv(c)'
    BY <1>25 DEF ReadFail, Goto, Leave, serverVars, TypeOK, CallInv, TxInv,
       ConnInv, WireInv, ResultInv, KindInv, Left
  <2>4. ASSUME NEW d \in Calls, d # c PROVE CallInv(d)'
    BY <1>25, <2>4, OtherCalls DEF ReadFail, Goto, Leave, serverVars
  <2>5. QED
    BY <2>1, <2>2, <2>3, <2>4
<1>26. ASSUME NEW c \in Calls, CheckCommit(c) PROVE IInv'
  <2>1. TypeOK'
    BY <1>26 DEF CheckCommit, Goto, contextVars, dbVars, serverVars, TypeOK, PCs, Executing, TxStates
  <2>2. SlotsAccounted'
    BY <1>26, SameHolders, HoldersFinite DEF CheckCommit, Goto, contextVars, dbVars,
       serverVars, SlotsAccounted, TypeOK, PCs, Executing
  <2>3. CallInv(c)'
    BY <1>26 DEF CheckCommit, Goto, dbVars, serverVars, TypeOK, CallInv,
       TxInv, ConnInv, WireInv, ResultInv, KindInv, Left, Executing, Commits, Transactional
  <2>4. ASSUME NEW d \in Calls, d # c PROVE CallInv(d)'
    BY <1>26, <2>4, OtherCalls DEF CheckCommit, Goto, dbVars, serverVars
  <2>5. QED
    BY <2>1, <2>2, <2>3, <2>4
<1>27. ASSUME NEW c \in Calls, Claim(c) PROVE IInv'
  <2>1. TypeOK'
    BY <1>27 DEF Claim, Goto, contextVars, dbVars, serverVars, TypeOK, PCs, Executing, TxStates
  <2>2. SlotsAccounted'
    BY <1>27, SameHolders, HoldersFinite DEF Claim, Goto, contextVars, dbVars,
       serverVars, SlotsAccounted, TypeOK, PCs, Executing
  <2>3. CallInv(c)'
    BY <1>27 DEF Claim, Goto, dbVars, serverVars, TypeOK, CallInv,
       TxInv, ConnInv, WireInv, ResultInv, KindInv, Left, Executing, Commits, Transactional
  <2>4. ASSUME NEW d \in Calls, d # c PROVE CallInv(d)'
    BY <1>27, <2>4, OtherCalls DEF Claim, Goto, dbVars, serverVars
  <2>5. QED
    BY <2>1, <2>2, <2>3, <2>4
<1>28. ASSUME NEW c \in Calls, Commit(c) PROVE IInv'
  <2>1. TypeOK'
    BY <1>28 DEF Commit, callVars, contextVars, dbVars, TypeOK
  <2>2. SlotsAccounted'
    BY <1>28 DEF Commit, callVars, contextVars, dbVars, SlotsAccounted,
       TypeOK, PCs, Executing, Holders
  <2>3. CallInv(c)'
    BY <1>28 DEF Commit, callVars, dbVars, TypeOK, CallInv, TxInv,
       ConnInv, WireInv, ResultInv, KindInv, Left, Executing, Commits, Effectful
  <2>4. ASSUME NEW d \in Calls, d # c PROVE CallInv(d)'
    BY <1>28, <2>4, OtherCalls DEF Commit, callVars, dbVars
  <2>5. QED
    BY <2>1, <2>2, <2>3, <2>4
<1>29. ASSUME NEW c \in Calls, CommitRefused(c) PROVE IInv'
  <2>1. TypeOK'
    BY <1>29 DEF CommitRefused, Goto, Leave, contextVars, dbVars, serverVars,
       TypeOK, PCs, Executing
  <2>2. SlotsAccounted'
    BY <1>29, SameHolders, HoldersFinite DEF CommitRefused, Goto, Leave,
       contextVars, dbVars, serverVars, SlotsAccounted, TypeOK, PCs, Executing
  <2>3. CallInv(c)'
    BY <1>29 DEF CommitRefused, Goto, Leave, dbVars, serverVars, TypeOK,
       CallInv, TxInv, ConnInv, WireInv, ResultInv, KindInv, Left, Executing,
       Effectful, Commits
  <2>4. ASSUME NEW d \in Calls, d # c PROVE CallInv(d)'
    BY <1>29, <2>4, OtherCalls DEF CommitRefused, Goto, Leave, dbVars,
       serverVars
  <2>5. QED
    BY <2>1, <2>2, <2>3, <2>4
<1>30. ASSUME NEW c \in Calls, CommitOk(c) PROVE IInv'
  <2>1. TypeOK'
    BY <1>30 DEF CommitOk, Goto, Leave, Release, contextVars, serverVars,
       TypeOK, PCs, Executing, TxStates
  <2>2. SlotsAccounted'
    BY <1>30, SameHolders, HoldersFinite DEF CommitOk, Goto, Leave, Release,
       contextVars, serverVars, SlotsAccounted, TypeOK, PCs, Executing
  <2>3. CallInv(c)'
    BY <1>30 DEF CommitOk, Goto, Leave, Release, serverVars, TypeOK, CallInv,
       TxInv, ConnInv, WireInv, ResultInv, KindInv, Left
  <2>4. ASSUME NEW d \in Calls, d # c PROVE CallInv(d)'
    BY <1>30, <2>4, OtherCalls DEF CommitOk, Goto, Leave, Release, serverVars
  <2>5. QED
    BY <2>1, <2>2, <2>3, <2>4
<1>31. ASSUME NEW c \in Calls, CommitFail(c) PROVE IInv'
  <2>1. TypeOK'
    BY <1>31 DEF CommitFail, Goto, Leave, Release, contextVars, serverVars,
       TypeOK, PCs, Executing, TxStates
  <2>2. SlotsAccounted'
    BY <1>31, SameHolders, HoldersFinite DEF CommitFail, Goto, Leave, Release,
       contextVars, serverVars, SlotsAccounted, TypeOK, PCs, Executing
  <2>3. CallInv(c)'
    BY <1>31 DEF CommitFail, Goto, Leave, Release, serverVars, TypeOK,
       CallInv, TxInv, ConnInv, WireInv, ResultInv, KindInv, Left, Executing,
       Effectful, Commits
  <2>4. ASSUME NEW d \in Calls, d # c PROVE CallInv(d)'
    BY <1>31, <2>4, OtherCalls DEF CommitFail, Goto, Leave, Release,
       serverVars
  <2>5. QED
    BY <2>1, <2>2, <2>3, <2>4
<1>32. ASSUME NEW c \in Calls, Rollback(c) PROVE IInv'
  <2>1. TypeOK'
    BY <1>32 DEF Rollback, Goto, contextVars, serverVars, TypeOK, PCs,
       Executing, TxStates
  <2>2. SlotsAccounted'
    BY <1>32, SameHolders, HoldersFinite DEF Rollback, Goto, contextVars,
       serverVars, SlotsAccounted, TypeOK, PCs, Executing
  <2>3. CallInv(c)'
    BY <1>32 DEF Rollback, Goto, serverVars, TypeOK, CallInv, TxInv, ConnInv,
       WireInv, ResultInv, KindInv, Left
  <2>4. ASSUME NEW d \in Calls, d # c PROVE CallInv(d)'
    BY <1>32, <2>4, OtherCalls DEF Rollback, Goto, serverVars
  <2>5. QED
    BY <2>1, <2>2, <2>3, <2>4
<1>33. ASSUME NEW c \in Calls, AwaitDone(c) PROVE IInv'
  <2>1. TypeOK'
    BY <1>33 DEF AwaitDone, callVars, contextVars, serverVars, TypeOK,
       TxStates
  <2>2. SlotsAccounted'
    BY <1>33 DEF AwaitDone, callVars, contextVars, serverVars, SlotsAccounted,
       TypeOK, PCs, Executing, Holders
  <2>3. CallInv(c)'
    BY <1>33 DEF AwaitDone, callVars, serverVars, CallInv, TxInv, ConnInv,
       WireInv, ResultInv, KindInv
  <2>4. ASSUME NEW d \in Calls, d # c PROVE CallInv(d)'
    BY <1>33, <2>4, OtherCalls DEF AwaitDone, callVars, serverVars
  <2>5. QED
    BY <2>1, <2>2, <2>3, <2>4
<1>34. ASSUME NEW c \in Calls, RollbackEnd(c) PROVE IInv'
  <2>1. TypeOK'
    BY <1>34 DEF RollbackEnd, Release, contextVars, serverVars, TypeOK, PCs,
       Executing, TxStates
  <2>2. SlotsAccounted'
    BY <1>34, SameHolders DEF RollbackEnd, Release, contextVars, serverVars,
       SlotsAccounted, TypeOK, PCs, Executing
  <2>3. CallInv(c)'
    BY <1>34 DEF RollbackEnd, Release, serverVars, TypeOK, CallInv, TxInv,
       ConnInv, WireInv, ResultInv, KindInv, Left
  <2>4. ASSUME NEW d \in Calls, d # c PROVE CallInv(d)'
    BY <1>34, <2>4, OtherCalls DEF RollbackEnd, Release, serverVars
  <2>5. QED
    BY <2>1, <2>2, <2>3, <2>4
<1>35. ASSUME NEW c \in Calls, ServerApply(c) PROVE IInv'
  <2>1. TypeOK'
    BY <1>35 DEF ServerApply, callVars, contextVars, dbVars, TypeOK
  <2>2. SlotsAccounted'
    BY <1>35 DEF ServerApply, callVars, contextVars, dbVars, SlotsAccounted,
       TypeOK, PCs, Executing, Holders
  <2>3. CallInv(c)'
    BY <1>35 DEF ServerApply, callVars, dbVars, TypeOK, CallInv, TxInv,
       ConnInv, WireInv, ResultInv, KindInv
  <2>4. ASSUME NEW d \in Calls, d # c PROVE CallInv(d)'
    BY <1>35, <2>4, OtherCalls DEF ServerApply, callVars, dbVars
  <2>5. QED
    BY <2>1, <2>2, <2>3, <2>4
<1>36. ASSUME NEW c \in Calls, ServerRefuse(c) PROVE IInv'
  <2>1. TypeOK'
    BY <1>36 DEF ServerRefuse, callVars, contextVars, dbVars, TypeOK
  <2>2. SlotsAccounted'
    BY <1>36 DEF ServerRefuse, callVars, contextVars, dbVars, SlotsAccounted,
       TypeOK, PCs, Executing, Holders
  <2>3. CallInv(c)'
    BY <1>36 DEF ServerRefuse, callVars, dbVars, CallInv, TxInv, ConnInv,
       WireInv, ResultInv, KindInv
  <2>4. ASSUME NEW d \in Calls, d # c PROVE CallInv(d)'
    BY <1>36, <2>4, OtherCalls DEF ServerRefuse, callVars, dbVars
  <2>5. QED
    BY <2>1, <2>2, <2>3, <2>4
<1>37. CASE UNCHANGED vars
  BY <1>37 DEF vars, callVars, contextVars, dbVars, serverVars, TypeOK, SlotsAccounted, Holders, CallInv, TxInv, ConnInv, WireInv, ResultInv, KindInv
<1>38. QED
  BY <1>1, <1>2, <1>3, <1>4, <1>5, <1>6, <1>7, <1>8, <1>9, <1>10, <1>11,
     <1>12, <1>13, <1>14, <1>15, <1>16, <1>17, <1>18, <1>19, <1>20, <1>21,
     <1>22, <1>23, <1>24, <1>25, <1>26, <1>27, <1>28, <1>29, <1>30, <1>31,
     <1>32, <1>33, <1>34, <1>35, <1>36, <1>37
     DEF Next, CallStep, SlotStep, ConnStep, StatementStep, EndStep, ServerStep

-----------------------------------------------------------------------------
(* What follows from the invariant: the safety properties, and that ToolCalls *)
(* implements AtomicCalls.                                                    *)

\* Every reachable state satisfies the inductive invariant.
THEOREM Invariance == Spec => []IInv
<1>1. Init => IInv
  <2> SUFFICES ASSUME Init PROVE IInv
    OBVIOUS
  <2>1. TypeOK
    BY MaxConcurrencyAssumption DEF Init, TypeOK, PCs, Kinds, TxStates
  <2>2. SlotsAccounted
    <3>1. Holders = {}
      BY DEF Init, Holders
    <3>2. QED
      BY <3>1, FS_EmptySet DEF Init, SlotsAccounted
  <2>3. ASSUME NEW c \in Calls PROVE CallInv(c)
    BY DEF Init, CallInv, TxInv, ConnInv, WireInv, ResultInv, KindInv, Left,
           Executing, Effectful
  <2>4. QED
    BY <2>1, <2>2, <2>3 DEF IInv
<1>2. QED
  BY <1>1, Inductive, PTL DEF Spec

\* The variables keep their types; in particular the limiter never holds more
\* slots than its capacity and never fewer than none.
THEOREM TypeCorrect == Spec => []TypeOK
<1>1. IInv => TypeOK
  BY DEF IInv
<1>2. QED
  BY <1>1, Invariance, PTL

\* No slot leaks and none is given back twice (Source.Acquire, guarded).
THEOREM SlotsNeverLeak == Spec => []SlotsAccounted
<1>1. IInv => SlotsAccounted
  BY DEF IInv
<1>2. QED
  BY <1>1, Invariance, PTL

\* A connection is in use only under a slot or by a background rollback.
THEOREM ConnsUnderSlots == Spec => []ConnUnderSlot
<1>1. IInv => ConnUnderSlot
  BY DEF IInv, CallInv, TxInv, ConnInv, ConnUnderSlot, Holders, Left, TypeOK
<1>2. QED
  BY <1>1, Invariance, PTL

\* A call waiting for a connection holds none.
THEOREM NoCallHoldsAndWaits == Spec => []NoHoldAndWait
<1>1. IInv => NoHoldAndWait
  BY DEF IInv, CallInv, ConnInv, NoHoldAndWait
<1>2. QED
  BY <1>1, Invariance, PTL

\* An answered call has left no transaction open.
THEOREM NoTxLeftOpen == Spec => []NoOpenTxAfterAnswer
<1>1. IInv => NoOpenTxAfterAnswer
  BY DEF IInv, CallInv, TxInv, NoOpenTxAfterAnswer
<1>2. QED
  BY <1>1, Invariance, PTL

\* An acknowledged write has been applied.
THEOREM AcknowledgedIsApplied == Spec => []AckedIsApplied
<1>1. IInv => AckedIsApplied
  BY DEF IInv, CallInv, WireInv, ResultInv, AckedIsApplied
<1>2. QED
  BY <1>1, Invariance, PTL

\* A call that failed for certain has no effect, and will have none.
THEOREM FailureIsFinal == Spec => []FailedIsNeverApplied
<1>1. IInv => FailedIsNeverApplied
  BY DEF IInv, CallInv, WireInv, ResultInv, FailedIsNeverApplied
<1>2. QED
  BY <1>1, Invariance, PTL

\* No retry of database/sql applies a statement again.
THEOREM NothingIsAppliedTwice == Spec => []AppliedAtMostOnce
<1>1. IInv => AppliedAtMostOnce
  BY DEF IInv, CallInv, WireInv, AppliedAtMostOnce
<1>2. QED
  BY <1>1, Invariance, PTL

\* Only what the configuration enables is applied.
THEOREM EffectsAreEnabled == Spec => []OnlyEnabledEffects
<1>1. IInv => OnlyEnabledEffects
  BY DEF IInv, CallInv, WireInv, OnlyEnabledEffects
<1>2. QED
  BY <1>1, Invariance, PTL

-----------------------------------------------------------------------------
(* Refinement. *)

\* Only these steps change what the abstract specification sees of a call.
LEMMA StutteringSteps ==
    ASSUME TypeOK, NEW c \in Calls,
           \/ Cancel(c) \/ Expire(c)
           \/ Acquire(c) \/ Reject(c) \/ ListNothing(c) \/ Admit(c)
           \/ ConnStep(c) \/ StatementStep(c) \/ EndStep(c)
           \/ AwaitDone(c) \/ RollbackEnd(c) \/ ServerRefuse(c)
    PROVE  UNCHANGED <<kind, Status, applied>>
<1>1. UNCHANGED <<kind, applied>>
  BY DEF Cancel, Expire, Acquire, Reject, ListNothing, Admit, ConnStep, StatementStep,
         EndStep, AwaitDone, RollbackEnd, ServerRefuse, GetConn, ConnFail,
         BadConn, Begin, Watch, Send, SendFail, Start, StartFail, RunOk, ExecOk,
         RunFail, Resend, ReadOk, ReadToCommit, ReadFail,
         CheckCommit, Claim, Commit, CommitRefused, CommitOk, CommitFail, Rollback, callVars, serverVars
<1>2. ASSUME NEW d \in Calls
      PROVE  /\ pc'[d] = "idle" <=> pc[d] = "idle"
             /\ pc'[d] = "done" <=> pc[d] = "done"
             /\ pc[d] = "done" => result'[d] = result[d]
  <2>1. CASE Cancel(c) \/ Expire(c) \/ AwaitDone(c) \/ ServerRefuse(c)
    BY <2>1 DEF Cancel, Expire, AwaitDone, ServerRefuse, callVars
  <2>2. CASE Acquire(c) \/ Reject(c) \/ ListNothing(c) \/ Admit(c)
    BY <2>2 DEF Acquire, Reject, ListNothing, Admit, Goto, Leave, TypeOK
  <2>3. CASE ConnStep(c)
    BY <2>3 DEF ConnStep, GetConn, ConnFail, BadConn, Begin, Watch, Send, SendFail,
                Goto, Leave, TypeOK
  <2>4. CASE StatementStep(c)
    BY <2>4 DEF StatementStep, Start, StartFail, RunOk, ExecOk, RunFail,
                Resend, ReadOk, ReadToCommit, ReadFail, Goto, Leave, TypeOK
  <2>5. CASE EndStep(c)
    BY <2>5 DEF EndStep, CheckCommit, Claim, Commit, CommitRefused,
                CommitOk, CommitFail, Rollback, callVars, Goto, Leave, TypeOK
  <2>6. CASE RollbackEnd(c)
    BY <2>6 DEF RollbackEnd, TypeOK
  <2>7. QED
    BY <2>1, <2>2, <2>3, <2>4, <2>5, <2>6
<1>3. Status' = Status
  BY <1>2 DEF Status
<1>4. QED
  BY <1>1, <1>3

\* A call that is made is made in AtomicCalls too (the handlers registered by
\* NewServer).
LEMMA SubmitStep ==
    ASSUME TypeOK, NEW c \in Calls, NEW k \in Requests, Submit(c, k)
    PROVE  Abstract!Submit(c, k)
<1>1. Status[c] = "idle" /\ Status' = [Status EXCEPT ![c] = "pending"]
  BY DEF Submit, Goto, Status, TypeOK
<1>2. QED
  BY <1>1 DEF Submit, Abstract!Submit, serverVars

\* A call that gives up waiting for a slot is answered "failed": it has had no
\* effect (Source.Acquire).
LEMMA AcquireCancelledStep ==
    ASSUME IInv, NEW c \in Calls, AcquireCancelled(c)
    PROVE  Abstract!AnswerFailed(c)
<1>1. Status[c] = "pending" /\ Status' = [Status EXCEPT ![c] = "failed"]
  BY DEF AcquireCancelled, Goto, Status, IInv, TypeOK
<1>2. applied[c] = 0
  BY DEF AcquireCancelled, IInv, CallInv, WireInv, Left
<1>3. QED
  BY <1>1, <1>2 DEF AcquireCancelled, Abstract!AnswerFailed, Abstract!Answer,
                    serverVars

\* A handler that returns answers as AtomicCalls allows (guarded).
LEMMA ReturnStep ==
    ASSUME IInv, NEW c \in Calls, Return(c)
    PROVE  Abstract!AnswerOk(c) \/ Abstract!AnswerFailed(c) \/ Abstract!AnswerInDoubt(c)
<1>1. Abstract!Answer(c, result[c])
  <2>1. Status[c] = "pending" /\ Status' = [Status EXCEPT ![c] = result[c]]
    BY DEF Return, Goto, Status, IInv, TypeOK
  <2>2. QED
    BY <2>1 DEF Return, Abstract!Answer, serverVars
<1>2. result[c] \in {"ok", "failed", "inDoubt"}
  BY DEF Return, IInv, TypeOK, CallInv, ResultInv, Left
<1>3. CASE result[c] = "ok"
  BY <1>1, <1>3 DEF IInv, CallInv, ResultInv, WireInv, Effectful,
                    Abstract!AnswerOk, Abstract!Effectful
<1>4. CASE result[c] = "failed"
  BY <1>1, <1>4 DEF IInv, CallInv, ResultInv, WireInv, Abstract!AnswerFailed
<1>5. CASE result[c] = "inDoubt"
  BY <1>1, <1>5 DEF IInv, CallInv, ResultInv, Effectful,
                    Abstract!AnswerInDoubt, Abstract!Enabled, Abstract!Effectful
<1>6. QED
  BY <1>2, <1>3, <1>4, <1>5

\* What MySQL makes durable it makes durable once, for an enabled kind, and
\* before the answer or after an answer in doubt.
LEMMA ApplyStep ==
    ASSUME IInv, NEW c \in Calls, ServerApply(c)
    PROVE  Abstract!Apply(c)
<1>1. Status' = Status
  BY DEF ServerApply, Status, callVars
<1>2. Status[c] \in {"pending", "inDoubt"}
  BY DEF ServerApply, IInv, TypeOK, CallInv, WireInv, ResultInv, Left,
         Effectful, Executing, Status
<1>3. applied[c] = 0 /\ kind[c] \in Abstract!Enabled
  BY DEF ServerApply, IInv, CallInv, WireInv, Effectful, Abstract!Enabled,
         Abstract!Effectful
<1>4. QED
  BY <1>1, <1>2, <1>3 DEF ServerApply, Abstract!Apply, callVars, IInv, TypeOK

\* The calls of a datasource keep the promise of AtomicCalls: every step
\* submits, applies or answers a call as AtomicCalls allows, or changes
\* nothing a client can see.
THEOREM Implements == Spec => ImplementsAtomicCalls
<1>1. Init => Abstract!Init
  BY DEF Init, Abstract!Init, Status
<1>2. IInv /\ [Next]_vars => [Abstract!Next]_(<<kind, Status, applied>>)
  <2> SUFFICES ASSUME IInv, [Next]_vars
               PROVE  Abstract!Next \/ UNCHANGED <<kind, Status, applied>>
    OBVIOUS
  <2>1. ASSUME NEW c \in Calls, NEW k \in Requests, Submit(c, k)
        PROVE  Abstract!Next
    BY <2>1, SubmitStep DEF IInv, Abstract!Next
  <2>2. ASSUME NEW c \in Calls, AcquireCancelled(c)
        PROVE  Abstract!Next
    BY <2>2, AcquireCancelledStep DEF Abstract!Next
  <2>3. ASSUME NEW c \in Calls, Return(c)
        PROVE  Abstract!Next
    BY <2>3, ReturnStep DEF Abstract!Next
  <2>4. ASSUME NEW c \in Calls, ServerApply(c)
        PROVE  Abstract!Next
    BY <2>4, ApplyStep DEF Abstract!Next
  <2>5. ASSUME NEW c \in Calls,
               \/ Cancel(c) \/ Expire(c)
               \/ Acquire(c) \/ Reject(c) \/ ListNothing(c) \/ Admit(c)
               \/ ConnStep(c) \/ StatementStep(c) \/ EndStep(c)
               \/ AwaitDone(c) \/ RollbackEnd(c) \/ ServerRefuse(c)
        PROVE  UNCHANGED <<kind, Status, applied>>
    BY <2>5, StutteringSteps DEF IInv
  <2>6. CASE UNCHANGED vars
    BY <2>6 DEF vars, callVars, serverVars, Status
  <2>7. QED
    BY <2>1, <2>2, <2>3, <2>4, <2>5, <2>6
       DEF Next, CallStep, SlotStep, ServerStep
<1>3. QED
  BY <1>1, <1>2, Invariance, PTL
     DEF Spec, ImplementsAtomicCalls, Abstract!Spec, Abstract!absVars

-----------------------------------------------------------------------------
(* A call revoked in time. *)

\* What stays true of a call once its context is done and it has no request on
\* its way: it is not where the context has been looked at for the last time.
Revoked(c) ==
    /\ ContextDone(c)
    /\ applied[c] = 0
    /\ wire[c] = "none"
    /\ pc[c] \notin {"watched", "checked", "committing"}

\* Steps of another call, and of its clients and MySQL, do not concern it.
LEMMA RevokedElsewhere ==
    ASSUME NEW c \in Calls, Revoked(c),
           pc'[c] = pc[c], wire'[c] = wire[c], applied'[c] = applied[c],
           cancelled \subseteq cancelled', expired \subseteq expired'
    PROVE  Revoked(c)'
  BY DEF Revoked, ContextDone

\* No step brings a revoked call behind the last look at its context: not the
\* slot it may still get, not the retries on other connections, not the
\* statement that is already running (guarded, Exec, ExecDDL, Call).
LEMMA StaysRevoked ==
    ASSUME IInv, [Next]_vars, NEW c \in Calls, Revoked(c)
    PROVE  Revoked(c)'
<1> USE DEF IInv
<1>1. CASE UNCHANGED vars
  BY <1>1, RevokedElsewhere DEF vars, callVars, contextVars, serverVars
<1>2. ASSUME NEW d \in Calls, NEW k \in Requests, Submit(d, k) PROVE Revoked(c)'
  <2>1. CASE d = c
    BY <1>2, <2>1 DEF Submit, Goto, contextVars, serverVars, Revoked, ContextDone, TypeOK
  <2>2. CASE d # c
    BY <1>2, <2>2, RevokedElsewhere DEF Submit, Goto, contextVars, serverVars, TypeOK
  <2>3. QED
    BY <2>1, <2>2
<1>3. ASSUME NEW d \in Calls, Cancel(d) \/ Expire(d) \/ AwaitDone(d) PROVE Revoked(c)'
  BY <1>3, RevokedElsewhere DEF Cancel, Expire, AwaitDone, callVars, contextVars, serverVars
<1>4. ASSUME NEW d \in Calls, RollbackEnd(d) PROVE Revoked(c)'
  BY <1>4 DEF RollbackEnd, contextVars, serverVars, Revoked, ContextDone, TypeOK
<1>5. ASSUME NEW d \in Calls, ServerStep(d) PROVE Revoked(c)'
  BY <1>5 DEF ServerStep, ServerApply, ServerRefuse, callVars, contextVars, Revoked,
              ContextDone, TypeOK
<1>6. ASSUME NEW d \in Calls, SlotStep(d) PROVE Revoked(c)'
  BY <1>6 DEF SlotStep, Acquire, AcquireCancelled, Reject, ListNothing, Admit, Return,
              Goto, Leave, contextVars, serverVars, Revoked, ContextDone, TypeOK
<1>7. ASSUME NEW d \in Calls, ConnStep(d) PROVE Revoked(c)'
  <2>1. CASE d = c
    BY <1>7, <2>1 DEF ConnStep, GetConn, ConnFail, BadConn, Begin, Watch, Send, SendFail,
              Goto, Leave, contextVars, serverVars, Revoked, ContextDone, TypeOK
  <2>2. CASE d # c
    BY <1>7, <2>2 DEF ConnStep, GetConn, ConnFail, BadConn, Begin, Watch, Send, SendFail,
              Goto, Leave, contextVars, serverVars, Revoked, ContextDone, TypeOK
  <2>3. QED
    BY <2>1, <2>2
<1>8. ASSUME NEW d \in Calls, StatementStep(d) PROVE Revoked(c)'
  <2>1. CASE d = c
    BY <1>8, <2>1 DEF StatementStep, Start, StartFail, RunOk, ExecOk, RunFail, Resend,
              ReadOk, ReadToCommit, ReadFail, Goto, Leave, contextVars, serverVars,
              Revoked, ContextDone, TypeOK
  <2>2. CASE d # c
    BY <1>8, <2>2 DEF StatementStep, Start, StartFail, RunOk, ExecOk, RunFail, Resend,
              ReadOk, ReadToCommit, ReadFail, Goto, Leave, contextVars, serverVars,
              Revoked, ContextDone, TypeOK
  <2>3. QED
    BY <2>1, <2>2
<1>9. ASSUME NEW d \in Calls, EndStep(d) PROVE Revoked(c)'
  <2>1. CASE d = c
    BY <1>9, <2>1 DEF EndStep, CheckCommit, Claim, Commit, CommitRefused, CommitOk,
              CommitFail, Rollback, Goto, Leave, callVars, contextVars, serverVars,
              Revoked, ContextDone, TypeOK
  <2>2. CASE d # c
    BY <1>9, <2>2 DEF EndStep, CheckCommit, Claim, Commit, CommitRefused, CommitOk,
              CommitFail, Rollback, Goto, Leave, callVars, contextVars, serverVars,
              Revoked, ContextDone, TypeOK
  <2>3. QED
    BY <2>1, <2>2
<1>10. QED
  BY <1>1, <1>2, <1>3, <1>4, <1>5, <1>6, <1>7, <1>8, <1>9 DEF Next, CallStep

\* A call revoked in time has no effect, ever: the revocation need not meet the
\* transaction, and no path back to a connection sends the request again.
THEOREM RevocationIsFinal == Spec => RevokedInTime
<1> SUFFICES ASSUME NEW c \in Calls
             PROVE  Spec => [](ContextDone(c) /\ Revocable(c) =>
                                   [](applied[c] = 0 /\ wire[c] = "none"))
  BY DEF RevokedInTime
<1>1. IInv /\ ContextDone(c) /\ Revocable(c) => Revoked(c)
  BY DEF IInv, CallInv, WireInv, Revocable, Revoked, Left, Transactional
<1>2. IInv /\ [Next]_vars /\ Revoked(c) => Revoked(c)'
  BY StaysRevoked
<1>3. Revoked(c) => applied[c] = 0 /\ wire[c] = "none"
  BY DEF Revoked
<1>4. QED
  BY <1>1, <1>2, <1>3, Invariance, PTL DEF Spec
=============================================================================

--------------------------- MODULE InventoryProofs ---------------------------
(***************************************************************************)
(* Proofs about Inventory, for any branches, variants, calls, requests,    *)
(* pods and initial stock.  Four invariants, each inductive relative to    *)
(* the ones before it:                                                     *)
(*   1. TypeOK with HandlerState: what a handler holds at each await;      *)
(*   2. LockInv: who holds a row lock, and who must hold one;              *)
(*   3. EnvelopeInv: committed and in-memory quantities stay between floor *)
(*      and ceiling, and a transfer that inserts still finds no row;       *)
(*   4. BooksInv: rows and movements differ by what the requests under way *)
(*      have stored and not yet recorded, or recorded and not yet stored.  *)
(* and the refinement of StockLedger, step by step (5).                    *)
(***************************************************************************)
EXTENDS Inventory, SumLemmas, TLAPS

\* What a handler has loaded, and for which call, when it waits at pc[r].
HandlerState ==
    \A r \in Request :
        /\ pc[r] \in InFlight \cup {"done"} => call[r] \in Call
        /\ pc[r] \in {"save", "record"} => call[r].op \in {"create", "adjust", "update"}
        /\ pc[r] = "record" => call[r].op # "update"
        /\ pc[r] = "save" /\ call[r].op = "update" => mem[r][FromKey(call[r])] # None
        /\ pc[r] \in {"load"} \cup InTransaction /\ call[r].op = "transfer" =>
               call[r].branch # call[r].to
        /\ pc[r] \in InTransaction =>
               /\ call[r].op = "transfer"
               /\ mem[r][FromKey(call[r])] # None
               /\ mem[r][FromKey(call[r])].quantity >= call[r].qty

\* The other direction of LocksOfOpenTransfers.
TransfersHoldLocks ==
    \A r \in Request :
        /\ pc[r] \in HasLockedFrom => lock[FromKey(call[r])] = r
        /\ pc[r] \in HasLockedTo => lock[ToKey(call[r])] = r

LockInv == LocksOfOpenTransfers /\ TransfersHoldLocks

MemInEnvelope ==
    \A r \in Request, k \in Key : mem[r][k] # None =>
        floor[k] <= mem[r][k].quantity /\ mem[r][k].quantity <= ceiling[k]

InsertsStillAbsent ==
    \A r \in Request :
        pc[r] \in HasLockedTo /\ mem[r][ToKey(call[r])] = None =>
            rows[ToKey(call[r])] = None

EnvelopeInv == StockEnvelope /\ MemInEnvelope /\ InsertsStillAbsent
-----------------------------------------------------------------------------
(* Every call names rows of the table and satisfies its DTO.               *)
LEMMA CallTyped ==
    ASSUME NEW c \in Call
    PROVE  c \in CallType /\ ValidCall(c) /\ FromKey(c) \in Key /\ ToKey(c) \in Key
  BY CallAssumption DEF ValidCall, CallType, FromKey, ToKey, Key

(* A row has a quantity, and no row counts as none in stock.               *)
LEMMA QuantityTyped ==
    ASSUME NEW row \in Row \cup {None}
    PROVE  QuantityOf(row) \in Nat
  BY DEF QuantityOf, Row

(* An omitted field keeps the default, a given one replaces it.            *)
LEMMA GivenTyped ==
    ASSUME NEW S, NEW field \in S \cup {None}, NEW default \in S
    PROVE  Given(field, default) \in S
  BY DEF Given

(* What create, adjustStock and update save is a row, as adjustStock       *)
(* clamps, and its quantity lies between what the loaded quantity and the  *)
(* change asked for allow.                                                 *)
LEMMA SavedTyped ==
    ASSUME NEW c \in Call, NEW row \in Row \cup {None},
           c.op \in {"create", "adjust", "update"},
           c.op = "update" => row # None
    PROVE  /\ Saved(c, row) \in Row
           /\ c.op # "update" =>
                /\ c.qty \in Int
                /\ Saved(c, row).quantity >= QuantityOf(row) + AtMostZero(c.qty)
                /\ Saved(c, row).quantity <= QuantityOf(row) + AtLeastZero(c.qty)
  <1>1. ValidCall(c) /\ c.min \in Int \cup {None} /\ c.qty \in Int \cup {None}
    BY CallTyped DEF CallType
  <1> USE DEF QuantityOf, AtMostZero, AtLeastZero
  <1>2. CASE c.op = "create"
    <2>1. Saved(c, row) = Created(c, row) /\ c.qty \in Nat
      BY <1>1, <1>2 DEF Saved, ValidCall
    <2>2. CASE row = None
      <3>1. Given(c.min, 0) \in Int
        BY <1>1, GivenTyped
      <3>2. NewRow(c.qty, Given(c.min, 0)) \in Row
        BY <2>1, <3>1 DEF NewRow, Row
      <3>3. QED
        BY <1>2, <2>1, <2>2, <3>2 DEF Created, NewRow
    <2>3. CASE row \in Row
      <3>1. Given(c.min, row.minThreshold) \in Int
        BY <1>1, <2>3, GivenTyped DEF Row
      <3>2. row.quantity + c.qty \in Nat /\ row.quantity \in Nat
        BY <2>1, <2>3 DEF Row
      <3>3. row # None
        BY <2>3, NoneAssumption
      <3> DEFINE q == row.quantity + c.qty
                 m == Given(c.min, row.minThreshold)
      <3>4. /\ q \in Nat /\ m \in Int
            /\ Saved(c, row) = [row EXCEPT !.quantity = q, !.minThreshold = m]
        BY <2>1, <3>1, <3>2, <3>3 DEF Created
      <3> HIDE DEF q, m
      <3>5. Saved(c, row) \in Row /\ Saved(c, row).quantity = q
        BY ONLY <2>3, <3>4 DEF Row
      <3>6. QED
        BY <1>2, <2>1, <3>2, <3>3, <3>5 DEF q
    <2>4. QED
      BY <2>2, <2>3
  <1>3. CASE c.op = "adjust"
    <2> DEFINE inv == IF row = None THEN NewRow(0, 10) ELSE row
    <2>1. Saved(c, row) = [inv EXCEPT !.quantity = AtLeastZero(inv.quantity + c.qty)]
      BY <1>3 DEF Saved, Adjusted
    <2>2. c.qty \in Int
      BY <1>1, <1>3 DEF ValidCall
    <2>3. inv \in Row /\ inv.quantity = QuantityOf(row) /\ inv.quantity \in Nat
      BY DEF NewRow, Row
    <2>4. AtLeastZero(inv.quantity + c.qty) \in Nat
      BY <2>2, <2>3
    <2> HIDE DEF inv
    <2> DEFINE q == AtLeastZero(inv.quantity + c.qty)
    <2>5. q \in Nat /\ Saved(c, row) = [inv EXCEPT !.quantity = q]
      BY <2>1, <2>4
    <2>6. /\ q >= QuantityOf(row) + AtMostZero(c.qty)
          /\ q <= QuantityOf(row) + AtLeastZero(c.qty)
      BY <2>2, <2>3
    <2> HIDE DEF q
    <2>7. Saved(c, row) \in Row /\ Saved(c, row).quantity = q
      BY ONLY <2>3, <2>5 DEF Row
    <2>8. QED
      BY <1>3, <2>2, <2>6, <2>7
  <1>4. CASE c.op = "update"
    <2>1. Saved(c, row) = Updated(c, row) /\ row \in Row
      BY <1>4 DEF Saved
    <2>2. Given(c.qty, row.quantity) \in Nat /\ Given(c.min, row.minThreshold) \in Int
      BY <1>1, <1>4, <2>1, GivenTyped DEF ValidCall, Row
    <2> DEFINE q == Given(c.qty, row.quantity)
               m == Given(c.min, row.minThreshold)
    <2>3. /\ q \in Nat /\ m \in Int
          /\ Saved(c, row) = [row EXCEPT !.quantity = q, !.minThreshold = m]
      BY <2>1, <2>2 DEF Updated
    <2> HIDE DEF q, m
    <2>4. Saved(c, row) \in Row
      BY ONLY <2>1, <2>3 DEF Row
    <2>5. QED
      BY <1>4, <2>4
  <1>5. QED
    BY <1>2, <1>3, <1>4
(* A transfer takes exactly qty from a row that has it.                    *)
LEMMA TransferOutTyped ==
    ASSUME NEW c \in Call, c.qty \in Nat, NEW row \in Row, row.quantity >= c.qty
    PROVE  /\ TransferredOut(c, row) \in Row
           /\ TransferredOut(c, row).quantity = row.quantity - c.qty
  BY DEF TransferredOut, Row

(* It gives exactly qty to the other row, a missing one counting as empty. *)
LEMMA TransferInTyped ==
    ASSUME NEW c \in Call, c.qty \in Nat, NEW row \in Row \cup {None}
    PROVE  /\ TransferredIn(c, row) \in Row
           /\ TransferredIn(c, row).quantity = QuantityOf(row) + c.qty
  <1> DEFINE to == IF row = None THEN NewRow(0, 0) ELSE row
             q == to.quantity + c.qty
  <1>1. to \in Row /\ to.quantity = QuantityOf(row)
    BY DEF NewRow, Row, QuantityOf
  <1>2. q \in Nat /\ TransferredIn(c, row) = [to EXCEPT !.quantity = q]
    BY <1>1 DEF TransferredIn, Row
  <1>3. q = QuantityOf(row) + c.qty
    BY <1>1
  <1> HIDE DEF to, q
  <1>4. QED
    BY ONLY <1>1, <1>2, <1>3 DEF Row
-----------------------------------------------------------------------------
(* 1. TypeOK and HandlerState                                              *)

HandlerInv == TypeOK /\ HandlerState

(* Nothing has been called yet, and the table is the initial one.          *)
LEMMA HandlerInvInit == Init => HandlerInv
  <1> SUFFICES ASSUME Init PROVE HandlerInv
    OBVIOUS
  <1>1. \A k \in Key : QuantityOf(Stock0[k]) \in Int
    BY StockAssumption, QuantityTyped
  <1>2. NoRows \in [Key -> Row \cup {None}] /\ NoRows \in [Key -> Request \cup {None}]
    BY DEF NoRows
  <1>3. TypeOK
    BY <1>1, <1>2, StockAssumption DEF Init, TypeOK, PC
  <1>4. HandlerState
    BY DEF Init, HandlerState, InFlight, InTransaction
  <1>5. QED
    BY <1>3, <1>4 DEF HandlerInv

(* Every step of a handler leaves every handler with what its next await   *)
(* relies on; saves store rows, transfers never a negative quantity.       *)
LEMMA HandlerInvStep == HandlerInv /\ [Next]_vars => HandlerInv'
  <1> SUFFICES ASSUME HandlerInv, [Next]_vars PROVE HandlerInv'
    OBVIOUS
  <1> USE DEF HandlerInv, TypeOK, HandlerState, PC, InFlight, InTransaction, Ended,
              history, Goto
  <1>1. ASSUME NEW r \in Request, Receive(r)
        PROVE  HandlerInv'
    <2>1. PICK c \in Call :
            /\ call' = [call EXCEPT ![r] = c]
            /\ pc' = [pc EXCEPT ![r] = IF Admitted(c) THEN "load" ELSE "rejected"]
      BY <1>1 DEF Receive
    <2>2. Admitted(c) /\ c.op = "transfer" => c.branch # c.to
      BY DEF Admitted
    <2>3. QED
      BY <1>1, <2>1, <2>2, NoneAssumption DEF Receive
  <1>2. ASSUME NEW r \in Request, Load(r)
        PROVE  HandlerInv'
    <2>1. FromKey(call[r]) \in Key
      BY <1>2, CallTyped DEF Load
    <2>2. call[r].op = "update" /\ UpdateAllowed(call[r], rows[FromKey(call[r])]) =>
            rows[FromKey(call[r])] # None
      BY DEF UpdateAllowed
    <2>3. call[r] \in Call /\ pc[r] = "load"
      BY <1>2 DEF Load
    <2>4. CASE pc' = [pc EXCEPT ![r] = "save"]
      <3>1. /\ mem' = [mem EXCEPT ![r][FromKey(call[r])] = rows[FromKey(call[r])]]
            /\ call[r].op \in {"create", "adjust", "update"}
            /\ call[r].op = "update" => rows[FromKey(call[r])] # None
            /\ UNCHANGED <<rows, lock, conns, audit, call, floor, ceiling, overwritten>>
        BY <1>2, <2>2, <2>3, <2>4 DEF Load
      <3>2. mem' \in [Request -> [Key -> Row \cup {None}]]
        BY <2>1, <3>1
      <3>3. mem'[r][FromKey(call[r])] = rows[FromKey(call[r])]
        BY <2>1, <3>1
      <3>4. \A q \in Request : q # r => mem'[q] = mem[q]
        BY <3>1
      <3>5. QED
        BY <2>3, <2>4, <3>1, <3>2, <3>3, <3>4
    <2>5. CASE pc' = [pc EXCEPT ![r] = "rejected"]
      BY <1>2, <2>3, <2>5 DEF Load
    <2>6. QED
      BY <1>2, <2>4, <2>5 DEF Load
  <1>3. ASSUME NEW r \in Request, WaitForRow(r)
        PROVE  HandlerInv'
    BY <1>3 DEF WaitForRow
  <1>4. ASSUME NEW r \in Request, Save(r)
        PROVE  HandlerInv'
    <2> DEFINE c == call[r]
               k == FromKey(c)
               saved == Saved(c, mem[r][k])
    <2>1. c \in Call /\ k \in Key /\ pc[r] = "save"
      BY <1>4, CallTyped DEF Save
    <2>2. saved \in Row /\ (c.op # "update" => c.qty \in Int)
      BY <2>1, SavedTyped
    <2>3. saved.quantity \in Int
      BY <2>2 DEF Row
    <2>4. c.op # "update" => AtMostZero(c.qty) \in Int /\ AtLeastZero(c.qty) \in Int
      BY <2>2 DEF AtMostZero, AtLeastZero
    <2>5. rows' \in [Key -> Row \cup {None}]
      BY <1>4, <2>1, <2>2 DEF Save
    <2>6. floor' \in [Key -> Int] /\ ceiling' \in [Key -> Int]
      BY <1>4, <2>1, <2>3, <2>4 DEF Save
    <2>7. overwritten' \in SUBSET Key
      BY <1>4, <2>1 DEF Save, Unseen
    <2>8. QED
      BY <1>4, <2>1, <2>5, <2>6, <2>7, ZenonT(30) DEF Save
  <1>5. ASSUME NEW r \in Request, SaveRefused(r)
        PROVE  HandlerInv'
    BY <1>5 DEF SaveRefused
  <1>6. ASSUME NEW r \in Request, RecordMovement(r)
        PROVE  HandlerInv'
    <2> DEFINE c == call[r]
               k == FromKey(c)
    <2>1. c \in Call /\ k \in Key
      BY <1>6, CallTyped DEF RecordMovement
    <2>2. Saved(c, mem[r][k]) \in Row /\ QuantityOf(mem[r][k]) \in Int
      BY <1>6, <2>1, SavedTyped, QuantityTyped DEF RecordMovement
    <2>3. Saved(c, mem[r][k]).quantity \in Int
      BY <2>2 DEF Row
    <2>4. audit' \in [Key -> Int]
      BY <1>6, <2>1, <2>2, <2>3 DEF RecordMovement
    <2>5. QED
      BY <1>6, <2>1, <2>4 DEF RecordMovement
  <1>7. ASSUME NEW r \in Request, TransferLoadFrom(r)
        PROVE  HandlerInv'
    <2> DEFINE c == call[r]
               k == FromKey(c)
    <2>1. c \in Call /\ k \in Key /\ c.qty \in Nat \ {0}
      BY <1>7, CallTyped DEF TransferLoadFrom, ValidCall
    <2>2. QuantityOf(rows[k]) >= c.qty => rows[k] # None /\ rows[k].quantity >= c.qty
      BY <2>1 DEF QuantityOf
    <2>3. QED
      BY <1>7, <2>1, <2>2 DEF TransferLoadFrom
  <1>8. ASSUME NEW r \in Request, TransferSaveFrom(r)
        PROVE  HandlerInv'
    <2>1. FromKey(call[r]) \in Key
      BY <1>8, CallTyped DEF TransferSaveFrom
    <2>2. QED
      BY <1>8, <2>1 DEF TransferSaveFrom
  <1>9. ASSUME NEW r \in Request, TransferLoadTo(r)
        PROVE  HandlerInv'
    <2>1. FromKey(call[r]) \in Key /\ ToKey(call[r]) \in Key
      BY <1>9, CallTyped DEF TransferLoadTo
    <2>2. FromKey(call[r]) # ToKey(call[r])
      BY <1>9 DEF TransferLoadTo, FromKey, ToKey
    <2>3. QED
      BY <1>9, <2>1, <2>2 DEF TransferLoadTo
  <1>10. ASSUME NEW r \in Request, TransferSaveTo(r)
         PROVE  HandlerInv'
    <2>1. ToKey(call[r]) \in Key
      BY <1>10, CallTyped DEF TransferSaveTo
    <2>2. QED
      BY <1>10, <2>1 DEF TransferSaveTo
  <1>11. ASSUME NEW r \in Request, TransferRecordOut(r) \/ TransferRecordIn(r)
         PROVE  HandlerInv'
    <2>1. call[r] \in Call /\ call[r].qty \in Int
      BY <1>11, CallTyped
         DEF TransferRecordOut, TransferRecordIn, TransferRecord, ValidCall
    <2>2. \A k \in Key, n \in Int : [audit EXCEPT ![k] = @ + n] \in [Key -> Int]
      OBVIOUS
    <2>3. audit' \in [Key -> Int]
      BY <1>11, <2>1, <2>2, CallTyped DEF TransferRecordOut, TransferRecordIn, TransferRecord
    <2>4. QED
      BY <1>11, <2>1, <2>3, ZenonT(30) DEF TransferRecordOut, TransferRecordIn, TransferRecord
  <1>12. ASSUME NEW r \in Request, TransferCommit(r)
         PROVE  HandlerInv'
    <2> DEFINE c == call[r]
               f == FromKey(c)
               t == ToKey(c)
    <2>1. c \in Call /\ f \in Key /\ t \in Key /\ c.qty \in Nat \ {0}
      BY <1>12, CallTyped DEF TransferCommit, ValidCall
    <2>2. mem[r][f] \in Row /\ mem[r][f].quantity >= c.qty
      BY <1>12, <2>1 DEF TransferCommit
    <2>3. TransferredOut(c, mem[r][f]) \in Row
      BY <2>1, <2>2, TransferOutTyped
    <2>4. TransferredIn(c, mem[r][t]) \in Row
      BY <2>1, TransferInTyped
    <2>5. rows' \in [Key -> Row \cup {None}]
      BY <1>12, <2>1, <2>3, <2>4 DEF TransferCommit
    <2>6. floor' \in [Key -> Int] /\ ceiling' \in [Key -> Int]
      BY <1>12, <2>1 DEF TransferCommit
    <2>7. overwritten' \in SUBSET Key /\ lock' \in [Key -> Request \cup {None}]
      BY <1>12, <2>1 DEF TransferCommit, Unseen, Unlocked
    <2>8. QED
      BY <1>12, <2>1, <2>5, <2>6, <2>7, ZenonT(30) DEF TransferCommit
  <1>13. ASSUME NEW r \in Request, Fail(r)
         PROVE  HandlerInv'
    BY <1>13 DEF Fail, Unlocked
  <1>14. ASSUME NEW r \in Request, LowStockCheckLoad(r)
         PROVE  HandlerInv'
    <2>1. mem'[r] \in [Key -> Row \cup {None}]
      BY <1>14 DEF LowStockCheckLoad
    <2>2. QED
      BY <1>14, <2>1 DEF LowStockCheckLoad
  <1>15. ASSUME NEW r \in Request, NEW k \in Key, LowStockCheckSave(r, k)
         PROVE  HandlerInv'
    <2>1. mem[r][k] \in Row
      BY <1>15 DEF LowStockCheckSave
    <2>2. [mem[r][k] EXCEPT !.lowStockAlertSent = TRUE] \in Row
      BY <2>1 DEF Row
    <2>3. rows' \in [Key -> Row \cup {None}]
      BY <1>15, <2>2 DEF LowStockCheckSave
    <2>4. overwritten' \in SUBSET Key
      BY <1>15 DEF LowStockCheckSave, Unseen
    <2>5. QED
      BY <1>15, <2>3, <2>4 DEF LowStockCheckSave
  <1>16. ASSUME NEW r \in Request, ResetAlerts(r)
         PROVE  HandlerInv'
    <2>1. \A row \in Row : [row EXCEPT !.lowStockAlertSent = FALSE] \in Row
      BY DEF Row
    <2>2. rows' \in [Key -> Row \cup {None}]
      BY <1>16, <2>1 DEF ResetAlerts, Flagged
    <2>3. QED
      BY <1>16, <2>2 DEF ResetAlerts
  <1>17. CASE UNCHANGED vars
    BY <1>17 DEF vars
  <1>18. ASSUME NEW r \in Request, TransferAborted(r)
         PROVE  HandlerInv'
    BY <1>13, <1>18 DEF TransferAborted
  <1>19. QED
    BY <1>1, <1>2, <1>3, <1>4, <1>5, <1>6, <1>7, <1>8, <1>9, <1>10, <1>11, <1>12,
       <1>13, <1>14, <1>15, <1>16, <1>17, <1>18 DEF Next, Handle

(***************************************************************************)
(* Every reachable state is well typed: in particular no interleaving and  *)
(* no failure stores a negative quantity, though adjustStock and transfer  *)
(* check and subtract outside of the database.                             *)
(***************************************************************************)
THEOREM TypeCorrect == Spec => []TypeOK
  <1>1. Spec => []HandlerInv
    BY HandlerInvInit, HandlerInvStep, PTL DEF Spec
  <1>2. HandlerInv => TypeOK
    BY DEF HandlerInv
  <1>3. QED
    BY <1>1, <1>2, PTL
-----------------------------------------------------------------------------
(* 2. Row locks                                                            *)

(* No lock is held to begin with.                                          *)
LEMMA LockInvInit == Init => LockInv
  BY NoneAssumption
     DEF Init, NoRows, LockInv, LocksOfOpenTransfers, TransfersHoldLocks, HasLockedFrom,
         HasLockedTo, InTransaction, Key

(* Locks are taken by the two saves of a transfer when the row is free and *)
(* released, both at once, by its commit or its rollback.                  *)
LEMMA LockInvStep == HandlerInv /\ LockInv /\ [Next]_vars => LockInv'
  <1> SUFFICES ASSUME HandlerInv, LockInv, [Next]_vars PROVE LockInv'
    OBVIOUS
  <1> USE DEF LockInv, LocksOfOpenTransfers, TransfersHoldLocks, HasLockedFrom,
              HasLockedTo, InTransaction, Goto, history
  <1>1. \A r \in Request : pc[r] \in InTransaction =>
            /\ call[r] \in Call /\ call[r] # None /\ call[r].op = "transfer"
            /\ FromKey(call[r]) \in Key /\ ToKey(call[r]) \in Key
            /\ FromKey(call[r]) # ToKey(call[r])
    BY CallTyped, NoneAssumption
       DEF HandlerInv, HandlerState, InFlight, FromKey, ToKey
  <1>2. pc \in [Request -> PC] /\ lock \in [Key -> Request \cup {None}]
        /\ call \in [Request -> Call \cup {None}]
    BY DEF HandlerInv, TypeOK
  <1>3. ASSUME NEW r \in Request, Receive(r)
        PROVE  LockInv'
    BY <1>2, <1>3, NoneAssumption DEF Receive
  <1>4. ASSUME NEW r \in Request,
               \/ Load(r) \/ WaitForRow(r) \/ Save(r) \/ SaveRefused(r)
               \/ RecordMovement(r) \/ LowStockCheckLoad(r) \/ ResetAlerts(r)
               \/ \E k \in Key : LowStockCheckSave(r, k)
        PROVE  LockInv'
    <2> DEFINE Outside ==
            /\ pc[r] \notin InTransaction /\ pc'[r] \notin InTransaction
            /\ \A q \in Request : q # r => pc'[q] = pc[q]
            /\ UNCHANGED <<lock, call>>
    <2>1. Load(r) \/ WaitForRow(r) \/ Save(r) => Outside
      BY <1>2 DEF Load, WaitForRow, Save
    <2>2. SaveRefused(r) \/ RecordMovement(r) \/ LowStockCheckLoad(r) \/ ResetAlerts(r)
            => Outside
      BY <1>2 DEF SaveRefused, RecordMovement, LowStockCheckLoad, ResetAlerts
    <2>3. ASSUME NEW k \in Key, LowStockCheckSave(r, k)
          PROVE  Outside
      BY <1>2, <2>3 DEF LowStockCheckSave
    <2>4. Outside
      BY <1>4, <2>1, <2>2, <2>3
    <2> HIDE DEF Outside
    <2>5. QED
      BY <2>4 DEF Outside
  <1>5. ASSUME NEW r \in Request, TransferLoadFrom(r)
        PROVE  LockInv'
    BY <1>2, <1>5 DEF TransferLoadFrom
  <1>6. ASSUME NEW r \in Request, TransferSaveFrom(r)
        PROVE  LockInv'
    BY <1>1, <1>2, <1>6, NoneAssumption DEF TransferSaveFrom
  <1>7. ASSUME NEW r \in Request, TransferLoadTo(r)
        PROVE  LockInv'
    BY <1>2, <1>7 DEF TransferLoadTo
  <1>8. ASSUME NEW r \in Request, TransferSaveTo(r)
        PROVE  LockInv'
    BY <1>1, <1>2, <1>8, NoneAssumption DEF TransferSaveTo
  <1>9. ASSUME NEW r \in Request, TransferRecordOut(r) \/ TransferRecordIn(r)
        PROVE  LockInv'
    BY <1>2, <1>9 DEF TransferRecordOut, TransferRecordIn, TransferRecord
  <1>10. ASSUME NEW r \in Request, NEW l \in {"done", "failed"},
                lock' = Unlocked(r), pc' = [pc EXCEPT ![r] = l], UNCHANGED call
         PROVE  LockInv'
    <2>1. \A q \in Request : q # r => pc'[q] = pc[q]
      BY <1>2, <1>10
    <2>2. pc'[r] \notin InTransaction
      BY <1>2, <1>10
    <2>3. \A k \in Key : lock'[k] = IF lock[k] = r THEN None ELSE lock[k]
      BY <1>10 DEF Unlocked
    <2>4. None \notin Request
      BY NoneAssumption
    <2>5. LocksOfOpenTransfers'
      BY <1>10, <2>1, <2>3, <2>4
    <2>6. TransfersHoldLocks'
      <3> SUFFICES ASSUME NEW q \in Request, pc'[q] \in InTransaction
                   PROVE  /\ pc'[q] \in HasLockedFrom => lock'[FromKey(call[q])] = q
                          /\ pc'[q] \in HasLockedTo => lock'[ToKey(call[q])] = q
        BY <1>10
      <3>1. q # r /\ pc[q] = pc'[q]
        BY <2>1, <2>2
      <3>2. QED
        BY <1>1, <2>3, <3>1
    <2>7. QED
      BY <2>5, <2>6
  <1>11. ASSUME NEW r \in Request, TransferCommit(r) \/ Fail(r) \/ TransferAborted(r)
         PROVE  LockInv'
    BY <1>10, <1>11 DEF TransferCommit, Fail, TransferAborted
  <1>12. CASE UNCHANGED vars
    BY <1>12 DEF vars
  <1>13. QED
    BY <1>3, <1>4, <1>5, <1>6, <1>7, <1>8, <1>9, <1>11, <1>12 DEF Next, Handle

(***************************************************************************)
(* No request that has ended, however it ended, keeps a row locked.        *)
(***************************************************************************)
THEOREM NoLeakedLocks == Spec => []LocksOfOpenTransfers
  <1>1. Spec => []HandlerInv
    BY HandlerInvInit, HandlerInvStep, PTL DEF Spec
  <1>2. Spec => []LockInv
    BY <1>1, LockInvInit, LockInvStep, PTL DEF Spec
  <1>3. LockInv => LocksOfOpenTransfers
    BY DEF LockInv
  <1>4. QED
    BY <1>2, <1>3, PTL
-----------------------------------------------------------------------------
(* 3. Quantities                                                           *)

(* Floor and ceiling start at the initial quantities.                      *)
LEMMA EnvelopeInvInit == Init => EnvelopeInv
  <1> SUFFICES ASSUME Init PROVE EnvelopeInv
    OBVIOUS
  <1>1. \A k \in Key : QuantityOf(Stock0[k]) \in Nat
    BY StockAssumption, QuantityTyped
  <1>2. StockEnvelope
    BY <1>1 DEF Init, StockEnvelope
  <1>3. MemInEnvelope /\ InsertsStillAbsent
    BY DEF Init, MemInEnvelope, InsertsStillAbsent, NoRows, HasLockedTo
  <1>4. QED
    BY <1>2, <1>3 DEF EnvelopeInv

(* The envelope only widens and every handler computes from a quantity     *)
(* inside it, however old: so what it stores is inside the envelope that   *)
(* its own change widened.  A transfer may insert the receiving row only   *)
(* because it holds the row's lock since it was seen to be missing.        *)
LEMMA EnvelopeInvStep ==
    HandlerInv /\ LockInv /\ EnvelopeInv /\ [Next]_vars => EnvelopeInv'
  <1> SUFFICES ASSUME HandlerInv, LockInv, EnvelopeInv, [Next]_vars
               PROVE  EnvelopeInv'
    OBVIOUS
  <1> USE DEF Goto, history

  <1>1. /\ rows \in [Key -> Row \cup {None}]
        /\ lock \in [Key -> Request \cup {None}]
        /\ pc \in [Request -> PC]
        /\ call \in [Request -> Call \cup {None}]
        /\ mem \in [Request -> [Key -> Row \cup {None}]]
        /\ floor \in [Key -> Int] /\ ceiling \in [Key -> Int]
    BY DEF HandlerInv, TypeOK
  <1>2. /\ \A k \in Key : QuantityOf(rows[k]) \in Nat
        /\ \A r \in Request, k \in Key : QuantityOf(mem[r][k]) \in Nat
    BY <1>1, QuantityTyped
  <1>3. \A k \in Key : rows[k] # None =>
            /\ rows[k] \in Row /\ rows[k].quantity \in Nat
            /\ floor[k] <= rows[k].quantity /\ rows[k].quantity <= ceiling[k]
    BY <1>1 DEF EnvelopeInv, StockEnvelope, QuantityOf, Row
  <1>4. \A r \in Request, k \in Key : mem[r][k] # None =>
            /\ mem[r][k] \in Row /\ mem[r][k].quantity \in Nat
            /\ floor[k] <= mem[r][k].quantity /\ mem[r][k].quantity <= ceiling[k]
    BY <1>1 DEF EnvelopeInv, MemInEnvelope, Row
  (* Steps that store nothing: what a handler loads comes from the table. *)
  <1>5. ASSUME UNCHANGED <<rows, floor, ceiling>>,
               \A q \in Request, k \in Key : mem'[q][k] \in {mem[q][k], rows[k], None},
               InsertsStillAbsent'
        PROVE  EnvelopeInv'
    <2>1. StockEnvelope'
      BY <1>5 DEF EnvelopeInv, StockEnvelope, QuantityOf
    <2>2. MemInEnvelope'
      BY <1>3, <1>4, <1>5 DEF MemInEnvelope
    <2>3. QED
      BY <1>5, <2>1, <2>2 DEF EnvelopeInv
  (* Steps that store something and load nothing new. *)
  <1>6. ASSUME \A k \in Key : floor'[k] <= floor[k] /\ ceiling[k] <= ceiling'[k],
               floor' \in [Key -> Int], ceiling' \in [Key -> Int],
               \A q \in Request, k \in Key : mem'[q][k] \in {mem[q][k], None},
               StockEnvelope', InsertsStillAbsent'
        PROVE  EnvelopeInv'
    <2>1. MemInEnvelope'
      <3> SUFFICES ASSUME NEW q \in Request, NEW k \in Key, mem'[q][k] # None
                   PROVE  /\ floor'[k] <= mem'[q][k].quantity
                          /\ mem'[q][k].quantity <= ceiling'[k]
        BY DEF MemInEnvelope
      <3>1. mem'[q][k] = mem[q][k]
        BY <1>6
      <3>2. QED
        BY <1>1, <1>4, <1>6, <3>1
    <2>2. QED
      BY <1>6, <2>1 DEF EnvelopeInv
  <1>7. ASSUME NEW r \in Request,
               \/ Receive(r) \/ WaitForRow(r) \/ SaveRefused(r) \/ RecordMovement(r)
               \/ Fail(r) \/ TransferAborted(r) \/ TransferSaveFrom(r)
               \/ TransferRecordOut(r) \/ TransferRecordIn(r)
        PROVE  EnvelopeInv'
    <2>1. UNCHANGED <<rows, floor, ceiling, mem>>
      BY <1>7 DEF Receive, WaitForRow, SaveRefused, RecordMovement, Fail, TransferAborted,
                  TransferSaveFrom, TransferRecordOut, TransferRecordIn, TransferRecord
    <2>2. \A q \in Request : pc'[q] \in HasLockedTo =>
              pc[q] \in HasLockedTo /\ call'[q] = call[q]
      BY <1>1, <1>7
         DEF Receive, WaitForRow, SaveRefused, RecordMovement, Fail, TransferAborted,
             TransferSaveFrom, TransferRecordOut, TransferRecordIn, TransferRecord, HasLockedTo
    <2>3. InsertsStillAbsent'
      BY <2>1, <2>2 DEF EnvelopeInv, InsertsStillAbsent
    <2>4. QED
      BY <1>5, <2>1, <2>3
  <1>8. ASSUME NEW r \in Request,
               \/ Load(r) \/ TransferLoadFrom(r) \/ TransferLoadTo(r) \/ LowStockCheckLoad(r)
        PROVE  EnvelopeInv'
    <2>1. UNCHANGED <<rows, floor, ceiling, call>>
      BY <1>8 DEF Load, TransferLoadFrom, TransferLoadTo, LowStockCheckLoad
    <2>2. \A q \in Request, k \in Key : mem'[q][k] \in {mem[q][k], rows[k], None}
      <3>1. pc[r] \in {"load", "loadTo"} => call[r] \in Call
        BY DEF HandlerInv, HandlerState, InFlight, InTransaction
      <3>2. pc[r] \in {"load", "loadTo"} => FromKey(call[r]) \in Key /\ ToKey(call[r]) \in Key
        BY <3>1, CallTyped
      <3>3. QED
        BY <1>1, <1>8, <3>2 DEF Load, TransferLoadFrom, TransferLoadTo, LowStockCheckLoad
    <2>3. pc'[r] \notin HasLockedTo /\ \A q \in Request : q # r =>
              pc'[q] = pc[q] /\ mem'[q] = mem[q]
      BY <1>1, <1>8
         DEF Load, TransferLoadFrom, TransferLoadTo, LowStockCheckLoad, HasLockedTo
    <2>4. InsertsStillAbsent'
      BY <2>1, <2>3 DEF EnvelopeInv, InsertsStillAbsent
    <2>5. QED
      BY <1>5, <2>1, <2>2, <2>4
  <1>9. ASSUME NEW r \in Request, TransferSaveTo(r)
        PROVE  EnvelopeInv'
    <2>1. UNCHANGED <<rows, floor, ceiling, mem, call>> /\ ~Duplicate(r, ToKey(call[r]))
      BY <1>9 DEF TransferSaveTo
    <2>2. \A q \in Request : q # r => pc'[q] = pc[q]
      BY <1>1, <1>9 DEF TransferSaveTo
    <2>3. InsertsStillAbsent'
      BY <2>1, <2>2 DEF EnvelopeInv, InsertsStillAbsent, Duplicate
    <2>4. QED
      BY <1>5, <2>1, <2>3
  <1>10. ASSUME NEW r \in Request, Save(r)
         PROVE  EnvelopeInv'
    <2> DEFINE c == call[r]
               k == FromKey(c)
               q == Saved(c, mem[r][k]).quantity
               m == QuantityOf(mem[r][k])
    <2>1. /\ c \in Call /\ k \in Key /\ c.op \in {"create", "adjust", "update"}
          /\ c.op = "update" => mem[r][k] # None
          /\ lock[k] = None
      BY <1>10, CallTyped DEF Save, HandlerInv, HandlerState, InFlight
    <2>2. /\ Saved(c, mem[r][k]) \in Row /\ q \in Nat /\ m \in Nat
          /\ c.op # "update" =>
                c.qty \in Int /\ q >= m + AtMostZero(c.qty) /\ q <= m + AtLeastZero(c.qty)
      BY <1>1, <1>2, <2>1, SavedTyped DEF Row
    <2>3. floor[k] <= m /\ m <= ceiling[k]
      <3>1. CASE mem[r][k] # None
        BY <1>4, <2>1, <3>1 DEF QuantityOf
      <3>2. CASE mem[r][k] = None
        BY <1>10, <2>1, <3>2 DEF Save, Duplicate, EnvelopeInv, StockEnvelope, QuantityOf
      <3>3. QED
        BY <3>1, <3>2
    <2> DEFINE lo == IF c.op = "update" /\ q < floor[k] THEN q
                     ELSE IF c.op = "update" THEN floor[k]
                     ELSE floor[k] + AtMostZero(c.qty)
               hi == IF c.op = "update" /\ q > ceiling[k] THEN q
                     ELSE IF c.op = "update" THEN ceiling[k]
                     ELSE ceiling[k] + AtLeastZero(c.qty)
    <2>4. floor' = [floor EXCEPT ![k] = lo] /\ ceiling' = [ceiling EXCEPT ![k] = hi]
      BY <1>1, <1>10, <2>1 DEF Save
    <2>5. floor[k] \in Int /\ ceiling[k] \in Int
      BY <1>1, <2>1
    <2> HIDE DEF k, q, m
    <2>6. /\ lo \in Int /\ lo <= floor[k] /\ lo <= q
          /\ hi \in Int /\ ceiling[k] <= hi /\ q <= hi
      BY <2>2, <2>3, <2>5 DEF AtMostZero, AtLeastZero
    <2> HIDE DEF lo, hi
    <2>7. /\ floor' \in [Key -> Int] /\ ceiling' \in [Key -> Int]
          /\ floor'[k] = lo /\ ceiling'[k] = hi
          /\ \A j \in Key : j # k => floor'[j] = floor[j] /\ ceiling'[j] = ceiling[j]
          /\ \A j \in Key : floor'[j] <= floor[j] /\ ceiling[j] <= ceiling'[j]
      BY <1>1, <2>1, <2>4, <2>6
    <2>8. /\ rows' = [rows EXCEPT ![k] = Saved(c, mem[r][k])]
          /\ UNCHANGED <<mem, call, lock>>
          /\ \A p \in Request : p # r => pc'[p] = pc[p]
          /\ pc'[r] \notin HasLockedTo
      BY <1>1, <1>10 DEF Save, HasLockedTo, k
    <2>9. StockEnvelope'
      <3> SUFFICES ASSUME NEW j \in Key
                   PROVE  floor'[j] <= QuantityOf(rows'[j])
                          /\ QuantityOf(rows'[j]) <= ceiling'[j]
        BY DEF StockEnvelope, QuantityOf
      <3>1. CASE j = k
        BY <1>1, <2>1, <2>2, <2>6, <2>7, <2>8, <3>1, NoneAssumption DEF QuantityOf, q
      <3>2. CASE j # k
        BY <1>1, <2>7, <2>8, <3>2 DEF EnvelopeInv, StockEnvelope
      <3>3. QED
        BY <3>1, <3>2
    <2>10. InsertsStillAbsent'
      <3>1. \A p \in Request : pc[p] \in HasLockedTo => ToKey(call[p]) # k
        BY <2>1, NoneAssumption DEF LockInv, TransfersHoldLocks, k
      <3>2. QED
        BY <1>1, <2>8, <3>1 DEF EnvelopeInv, InsertsStillAbsent
    <2>11. QED
      BY <1>6, <2>7, <2>8, <2>9, <2>10
  <1>11. ASSUME NEW r \in Request, TransferCommit(r)
         PROVE  EnvelopeInv'
    <2> DEFINE c == call[r]
               f == FromKey(c)
               t == ToKey(c)
               out == TransferredOut(c, mem[r][f])
               in == TransferredIn(c, mem[r][t])
    <2>1. /\ c \in Call /\ f \in Key /\ t \in Key /\ f # t
          /\ c.qty \in Nat /\ pc[r] = "commit"
          /\ mem[r][f] \in Row /\ mem[r][f].quantity >= c.qty
      BY <1>1, <1>11, CallTyped
         DEF TransferCommit, ValidCall, HandlerInv, HandlerState, InFlight, InTransaction,
             FromKey, ToKey
    <2>2. /\ out \in Row /\ out.quantity = mem[r][f].quantity - c.qty
          /\ in \in Row /\ in.quantity = QuantityOf(mem[r][t]) + c.qty
      BY <1>1, <2>1, TransferOutTyped, TransferInTyped
    <2>3. floor[t] <= QuantityOf(mem[r][t]) /\ QuantityOf(mem[r][t]) <= ceiling[t]
      <3>1. CASE mem[r][t] # None
        BY <1>4, <2>1, <3>1 DEF QuantityOf
      <3>2. CASE mem[r][t] = None
        BY <2>1, <3>2
           DEF EnvelopeInv, InsertsStillAbsent, StockEnvelope, QuantityOf, HasLockedTo
      <3>3. QED
        BY <3>1, <3>2
    <2>4. floor[f] <= mem[r][f].quantity /\ mem[r][f].quantity <= ceiling[f]
          /\ mem[r][f].quantity \in Nat
      BY <1>4, <2>1, NoneAssumption
    <2>5. /\ floor' = [floor EXCEPT ![f] = floor[f] - c.qty]
          /\ ceiling' = [ceiling EXCEPT ![t] = ceiling[t] + c.qty]
          /\ rows' = [rows EXCEPT ![f] = out, ![t] = in]
          /\ UNCHANGED <<mem, call>>
      BY <1>11 DEF TransferCommit
    <2>6. /\ floor[f] \in Int /\ ceiling[f] \in Int /\ floor[t] \in Int /\ ceiling[t] \in Int
          /\ QuantityOf(mem[r][t]) \in Nat
      BY <1>1, <1>2, <2>1
    <2>7. /\ \A p \in Request : p # r => pc'[p] = pc[p]
          /\ pc'[r] \notin HasLockedTo
      BY <1>1, <1>11 DEF TransferCommit, HasLockedTo
    <2> HIDE DEF f, t, out, in
    <2>8. /\ floor' \in [Key -> Int] /\ ceiling' \in [Key -> Int]
          /\ \A j \in Key : floor'[j] <= floor[j] /\ ceiling[j] <= ceiling'[j]
          /\ floor'[f] <= out.quantity /\ out.quantity <= ceiling'[f]
          /\ floor'[t] <= in.quantity /\ in.quantity <= ceiling'[t]
          /\ \A j \in Key : j # f => floor'[j] = floor[j]
          /\ \A j \in Key : j # t => ceiling'[j] = ceiling[j]
      BY <1>1, <2>1, <2>2, <2>3, <2>4, <2>5, <2>6
    <2>9. /\ rows'[f] = out /\ rows'[t] = in
          /\ \A j \in Key : j # f /\ j # t => rows'[j] = rows[j]
      BY <1>1, <2>1, <2>5
    <2>10. StockEnvelope'
      <3> SUFFICES ASSUME NEW j \in Key
                   PROVE  floor'[j] <= QuantityOf(rows'[j])
                          /\ QuantityOf(rows'[j]) <= ceiling'[j]
        BY DEF StockEnvelope, QuantityOf
      <3>1. out # None /\ in # None
        BY <2>2, NoneAssumption
      <3>2. CASE j = f \/ j = t
        BY <2>8, <2>9, <3>1, <3>2 DEF QuantityOf
      <3>3. CASE j # f /\ j # t
        BY <1>1, <2>8, <2>9, <3>3 DEF EnvelopeInv, StockEnvelope
      <3>4. QED
        BY <3>2, <3>3
    <2>11. InsertsStillAbsent'
      <3> SUFFICES ASSUME NEW p \in Request, pc'[p] \in HasLockedTo,
                          mem[p][ToKey(call[p])] = None
                   PROVE  rows'[ToKey(call[p])] = None
        BY <2>5 DEF InsertsStillAbsent
      <3>1. p # r /\ pc[p] \in HasLockedTo
        BY <2>7
      <3>2. lock[f] = r /\ lock[t] = r /\ lock[ToKey(call[p])] = p
        BY <2>1, <3>1 DEF LockInv, TransfersHoldLocks, HasLockedFrom, HasLockedTo,
                          InTransaction, f, t
      <3>3. call[p] \in Call
        BY <3>1 DEF HandlerInv, HandlerState, HasLockedTo, InFlight, InTransaction
      <3>4. ToKey(call[p]) \in Key /\ ToKey(call[p]) # f /\ ToKey(call[p]) # t
        BY <3>1, <3>2, <3>3, CallTyped
      <3>5. QED
        BY <2>9, <3>1, <3>4 DEF EnvelopeInv, InsertsStillAbsent
    <2>12. QED
      BY <1>6, <2>5, <2>8, <2>10, <2>11
  <1>12. ASSUME NEW r \in Request, NEW k \in Key, LowStockCheckSave(r, k)
         PROVE  EnvelopeInv'
    <2> DEFINE saved == [mem[r][k] EXCEPT !.lowStockAlertSent = TRUE]
    <2>1. mem[r][k] \in Row /\ mem[r][k].quantity \in Nat /\ lock[k] = None
          /\ floor[k] <= mem[r][k].quantity /\ mem[r][k].quantity <= ceiling[k]
      BY <1>4, <1>12 DEF LowStockCheckSave
    <2>2. saved \in Row /\ saved.quantity = mem[r][k].quantity
      BY <2>1 DEF Row
    <2>3. /\ rows' = [rows EXCEPT ![k] = saved]
          /\ UNCHANGED <<floor, ceiling, call>>
          /\ pc'[r] \notin HasLockedTo
          /\ \A p \in Request : p # r => pc'[p] = pc[p] /\ mem'[p] = mem[p]
          /\ \A p \in Request, j \in Key : mem'[p][j] \in {mem[p][j], None}
      BY <1>1, <1>12 DEF LowStockCheckSave, HasLockedTo
    <2> HIDE DEF saved
    <2>4. StockEnvelope'
      <3> SUFFICES ASSUME NEW j \in Key
                   PROVE  floor[j] <= QuantityOf(rows'[j]) /\ QuantityOf(rows'[j]) <= ceiling[j]
        BY <2>3 DEF StockEnvelope, QuantityOf
      <3>1. CASE j = k
        BY <1>1, <2>1, <2>2, <2>3, <3>1, NoneAssumption DEF QuantityOf
      <3>2. CASE j # k
        BY <1>1, <2>3, <3>2 DEF EnvelopeInv, StockEnvelope
      <3>3. QED
        BY <3>1, <3>2
    <2>5. InsertsStillAbsent'
      <3>1. \A p \in Request : pc[p] \in HasLockedTo => ToKey(call[p]) # k
        BY <2>1, NoneAssumption DEF LockInv, TransfersHoldLocks
      <3>2. QED
        BY <1>1, <2>3, <3>1 DEF EnvelopeInv, InsertsStillAbsent
    <2>6. /\ floor' \in [Key -> Int] /\ ceiling' \in [Key -> Int]
          /\ \A j \in Key : floor'[j] <= floor[j] /\ ceiling[j] <= ceiling'[j]
      BY <1>1, <2>3
    <2>7. QED
      BY <1>6, <2>3, <2>4, <2>5, <2>6
  <1>13. ASSUME NEW r \in Request, ResetAlerts(r)
         PROVE  EnvelopeInv'
    <2>1. /\ rows' = [k \in Key |->
                IF k \in Flagged THEN [rows[k] EXCEPT !.lowStockAlertSent = FALSE]
                ELSE rows[k]]
          /\ UNCHANGED <<floor, ceiling, mem, call>>
          /\ pc'[r] \notin HasLockedTo
          /\ \A p \in Request : p # r => pc'[p] = pc[p]
      BY <1>1, <1>13 DEF ResetAlerts, HasLockedTo
    <2>2. \A row \in Row :
            LET off == [row EXCEPT !.lowStockAlertSent = FALSE]
            IN  off \in Row /\ off.quantity = row.quantity
      BY DEF Row
    <2>3. \A k \in Key : /\ rows'[k] = None <=> rows[k] = None
                         /\ QuantityOf(rows'[k]) = QuantityOf(rows[k])
      <3> SUFFICES ASSUME NEW k \in Key
                   PROVE  /\ rows'[k] = None <=> rows[k] = None
                          /\ QuantityOf(rows'[k]) = QuantityOf(rows[k])
        OBVIOUS
      <3>1. CASE k \in Flagged
        <4>1. /\ rows[k] \in Row /\ rows[k] # None
              /\ rows'[k] = [rows[k] EXCEPT !.lowStockAlertSent = FALSE]
          BY <1>1, <2>1, <3>1 DEF Flagged
        <4>2. rows'[k] \in Row /\ rows'[k].quantity = rows[k].quantity
          BY <2>2, <4>1
        <4>3. QED
          BY <4>1, <4>2, NoneAssumption DEF QuantityOf
      <3>2. CASE k \notin Flagged
        BY <2>1, <3>2
      <3>3. QED
        BY <3>1, <3>2
    <2>4. StockEnvelope'
      BY <1>1, <2>1, <2>3 DEF EnvelopeInv, StockEnvelope, QuantityOf
    <2>5. InsertsStillAbsent'
      <3> SUFFICES ASSUME NEW p \in Request, pc'[p] \in HasLockedTo,
                          mem[p][ToKey(call[p])] = None
                   PROVE  rows'[ToKey(call[p])] = None
        BY <2>1 DEF InsertsStillAbsent
      <3>1. p # r /\ pc[p] \in HasLockedTo
        BY <2>1
      <3>2. ToKey(call[p]) \in Key
        BY <3>1, CallTyped DEF HandlerInv, HandlerState, HasLockedTo, InFlight, InTransaction
      <3>3. QED
        BY <2>3, <3>1, <3>2 DEF EnvelopeInv, InsertsStillAbsent
    <2>6. /\ floor' \in [Key -> Int] /\ ceiling' \in [Key -> Int]
          /\ \A j \in Key : floor'[j] <= floor[j] /\ ceiling[j] <= ceiling'[j]
      BY <1>1, <2>1
    <2>7. QED
      BY <1>6, <2>1, <2>4, <2>5, <2>6
  <1>14. CASE UNCHANGED vars
    BY <1>14 DEF vars, EnvelopeInv, StockEnvelope, MemInEnvelope, InsertsStillAbsent, QuantityOf
  <1>15. QED
    BY <1>7, <1>8, <1>9, <1>10, <1>11, <1>12, <1>13, <1>14 DEF Next, Handle

(***************************************************************************)
(* However the requests interleave and fail, no stock is invented: a row   *)
(* stays between what the committed requests took from and added to it.    *)
(***************************************************************************)
THEOREM EnvelopeHolds == Spec => []StockEnvelope
  <1>1. Spec => []HandlerInv
    BY HandlerInvInit, HandlerInvStep, PTL DEF Spec
  <1>2. Spec => []LockInv
    BY <1>1, LockInvInit, LockInvStep, PTL DEF Spec
  <1>3. Spec => []EnvelopeInv
    BY <1>1, <1>2, EnvelopeInvInit, EnvelopeInvStep, PTL DEF Spec
  <1>4. EnvelopeInv => StockEnvelope
    BY DEF EnvelopeInv
  <1>5. QED
    BY <1>3, <1>4, PTL
-----------------------------------------------------------------------------
(* 4. The books                                                            *)

Owed(k) == [r \in Request |-> Owing(pc[r], call[r], mem[r][k], k)]

Started == {r \in Request : pc[r] # "new"}

Excused(k) ==
    \/ k \in overwritten
    \/ \E r \in Request : Touches(r, k) /\ (pc[r] = "failed" \/ call[r].op = "update")

Balanced(k) ==
    QuantityOf(rows[k]) = QuantityOf(Stock0[k]) + audit[k] + SumFunctionOnSet(Owed(k), Started)

BooksInv ==
    /\ IsFiniteSet(Started)
    /\ \A r \in Request : pc[r] = "new" => call[r] = None
    /\ \A k \in Key : Excused(k) \/ Balanced(k)

(* A request owes a number.                                                *)
LEMMA OwingTyped ==
    ASSUME NEW p, NEW c, NEW row \in Row \cup {None}, NEW k \in Key,
           p \in {"record", "moveIn", "commit"} => c \in Call,
           p = "record" => c.op \in {"create", "adjust"},
           p \in {"moveIn", "commit"} => c.op = "transfer"
    PROVE  Owing(p, c, row, k) \in Int
  <1>1. CASE p = "record"
    <2>1. Saved(c, row) \in Row
      BY <1>1, SavedTyped
    <2>2. Saved(c, row).quantity \in Int /\ QuantityOf(row) \in Int
      BY <2>1, QuantityTyped DEF Row
    <2>3. QED
      BY <1>1, <2>2 DEF Owing
  <1>2. CASE p \in {"moveIn", "commit"}
    <2>1. c.qty \in Int
      BY <1>2, CallTyped DEF ValidCall
    <2>2. QED
      BY <1>2, <2>1 DEF Owing
  <1>3. CASE p \notin {"record", "moveIn", "commit"}
    BY <1>3 DEF Owing
  <1>4. QED
    BY <1>1, <1>2, <1>3

LEMMA OwedTyped ==
    ASSUME HandlerInv, NEW k \in Key
    PROVE  \A r \in Request : Owed(k)[r] \in Int
  <1> SUFFICES ASSUME NEW r \in Request PROVE Owing(pc[r], call[r], mem[r][k], k) \in Int
    BY DEF Owed
  <1>1. mem[r][k] \in Row \cup {None}
    BY DEF HandlerInv, TypeOK
  <1>2. /\ pc[r] \in {"record", "moveIn", "commit"} => call[r] \in Call
        /\ pc[r] = "record" => call[r].op \in {"create", "adjust"}
        /\ pc[r] \in {"moveIn", "commit"} => call[r].op = "transfer"
    BY DEF HandlerInv, HandlerState, InFlight, InTransaction
  <1>3. QED
    BY <1>1, <1>2, OwingTyped

LEMMA OwedTypedNext ==
    ASSUME HandlerInv', NEW k \in Key
    PROVE  \A r \in Request : Owed(k)'[r] \in Int
  <1> SUFFICES ASSUME NEW r \in Request PROVE Owing(pc'[r], call'[r], mem'[r][k], k) \in Int
    BY DEF Owed
  <1>1. mem'[r][k] \in Row \cup {None}
    BY DEF HandlerInv, TypeOK
  <1>2. /\ pc'[r] \in {"record", "moveIn", "commit"} => call'[r] \in Call
        /\ pc'[r] = "record" => call'[r].op \in {"create", "adjust"}
        /\ pc'[r] \in {"moveIn", "commit"} => call'[r].op = "transfer"
    BY DEF HandlerInv, HandlerState, InFlight, InTransaction
  <1>3. QED
    BY <1>1, <1>2, OwingTyped

(* One request moves: the books stay balanced if the change of the row is  *)
(* the change of its movements and of what the request owes.               *)
LEMMA BooksOfOne ==
    ASSUME HandlerInv, HandlerInv', BooksInv, NEW r \in Request,
           pc[r] # "new", pc'[r] # "new",
           \A q \in Request : q # r => pc'[q] = pc[q] /\ call'[q] = call[q] /\ mem'[q] = mem[q],
           NEW k \in Key, ~Excused(k),
           QuantityOf(rows'[k]) - QuantityOf(rows[k])
               = (audit'[k] - audit[k]) + (Owed(k)'[r] - Owed(k)[r])
    PROVE  Started' = Started /\ Balanced(k)'
  <1>1. Started' = Started
    BY DEF Started
  <1>2. \A q \in Request : Owed(k)[q] \in Int /\ Owed(k)'[q] \in Int
    BY OwedTyped, OwedTypedNext
  <1>3. \A q \in Request : q # r => Owed(k)'[q] = Owed(k)[q]
    BY DEF Owed
  <1> DEFINE g == Owed(k)
             h == Owed(k)'
             S == Started
  <1>4. /\ IsFiniteSet(S) /\ r \in S /\ S \subseteq Request
        /\ \A q \in S : g[q] \in Int /\ h[q] \in Int
        /\ \A q \in S \ {r} : g[q] = h[q]
    BY <1>2, <1>3 DEF BooksInv, Started
  <1>5. /\ QuantityOf(rows[k]) \in Int /\ QuantityOf(rows'[k]) \in Int /\ audit[k] \in Int
        /\ audit'[k] \in Int /\ QuantityOf(Stock0[k]) \in Int
    BY QuantityTyped, StockAssumption DEF HandlerInv, TypeOK
  <1>6. QuantityOf(rows[k]) = QuantityOf(Stock0[k]) + audit[k] + SumFunctionOnSet(g, S)
    BY DEF BooksInv, Balanced
  <1>7. QuantityOf(rows'[k]) - QuantityOf(rows[k]) = (audit'[k] - audit[k]) + (h[r] - g[r])
    OBVIOUS
  <1> HIDE DEF g, h, S
  <1>8. SumFunctionOnSet(h, S) = SumFunctionOnSet(g, S) + (h[r] - g[r])
    BY <1>4, SumChangesByOne
  <1>9. SumFunctionOnSet(g, S) \in Int /\ g[r] \in Int /\ h[r] \in Int
    BY <1>4, SumIsInt
  <1>10. QuantityOf(rows'[k]) = QuantityOf(Stock0[k]) + audit'[k] + SumFunctionOnSet(h, S)
    BY <1>5, <1>6, <1>7, <1>8, <1>9
  <1>11. Balanced(k)'
    BY <1>1, <1>10 DEF Balanced, QuantityOf, h, S
  <1>12. QED
    BY <1>1, <1>11

(* An excuse stays one.                                                    *)
LEMMA ExcusesStay ==
    ASSUME HandlerInv, BooksInv, NEW r \in Request, pc[r] # "failed", pc[r] = "new" \/ call'[r] = call[r],
           \A q \in Request : q # r => pc'[q] = pc[q] /\ call'[q] = call[q],
           overwritten \subseteq overwritten', NEW k \in Key, Excused(k)
    PROVE  Excused(k)'
  <1>1. CASE k \in overwritten
    BY <1>1 DEF Excused
  <1>2. ASSUME NEW q \in Request, Touches(q, k), pc[q] = "failed" \/ call[q].op = "update"
        PROVE  Excused(k)'
    <2>1. call'[q] = call[q] /\ (pc[q] = "failed" => pc'[q] = "failed")
      BY <1>2 DEF Touches, BooksInv
    <2>2. QED
      BY <1>2, <2>1 DEF Excused, Touches
  <1>3. QED
    BY <1>1, <1>2 DEF Excused

(* Before its first record a request owes nothing, and neither does it     *)
(* after its last.                                                         *)
LEMMA OwesNothing ==
    ASSUME NEW r \in Request, NEW k \in Key
    PROVE  /\ pc[r] \notin {"record", "moveIn", "commit"} => Owed(k)[r] = 0
           /\ pc'[r] \notin {"record", "moveIn", "commit"} => Owed(k)'[r] = 0
  BY DEF Owed, Owing

LEMMA BooksInvInit == Init => BooksInv
  <1> SUFFICES ASSUME Init PROVE BooksInv
    OBVIOUS
  <1>1. Started = {} /\ IsFiniteSet(Started)
    BY FS_EmptySet DEF Init, Started
  <1>2. \A k \in Key : QuantityOf(Stock0[k]) \in Int
    BY StockAssumption, QuantityTyped
  <1>3. \A k \in Key : Balanced(k)
    BY <1>1, <1>2, SumEmpty DEF Init, Balanced
  <1>4. QED
    BY <1>1, <1>3 DEF Init, BooksInv

(* A request that is received owes nothing yet.                            *)
LEMMA BooksOfNew ==
    ASSUME HandlerInv, HandlerInv', BooksInv, NEW r \in Request, Receive(r)
    PROVE  BooksInv'
  <1>1. PICK c \in Call :
          /\ call' = [call EXCEPT ![r] = c]
          /\ pc' = [pc EXCEPT ![r] = IF Admitted(c) THEN "load" ELSE "rejected"]
    BY DEF Receive, Goto
  <1>2. /\ pc[r] = "new" /\ pc'[r] \in {"load", "rejected"}
        /\ \A q \in Request : q # r => pc'[q] = pc[q] /\ call'[q] = call[q]
        /\ UNCHANGED <<rows, audit, mem, overwritten>>
    BY <1>1 DEF Receive, HandlerInv, TypeOK, history
  <1>3. Started' = Started \cup {r} /\ r \notin Started
    BY <1>2 DEF Started
  <1>4. IsFiniteSet(Started) /\ IsFiniteSet(Started')
    BY <1>3, FS_AddElement DEF BooksInv
  <1>5. ASSUME NEW k \in Key, Balanced(k) PROVE Balanced(k)'
    <2> DEFINE g == Owed(k)
               h == Owed(k)'
               S == Started
               T == Started'
    <2>1. \A q \in Request : h[q] \in Int
      BY OwedTypedNext
    <2>2. h[r] = 0 /\ \A q \in Request : q # r => h[q] = g[q]
      BY <1>2, OwesNothing DEF Owed
    <2>3. /\ r \in T /\ T \ {r} = S /\ IsFiniteSet(S) /\ IsFiniteSet(T)
          /\ \A q \in T : h[q] \in Int
          /\ \A q \in S : g[q] = h[q]
      BY <1>2, <1>3, <1>4, <2>1, <2>2 DEF Started
    <2> HIDE DEF g, h, S, T
    <2>4. SumFunctionOnSet(h, T) = h[r] + SumFunctionOnSet(h, S)
      BY <2>3, SumOfOne
    <2>5. SumFunctionOnSet(g, S) = SumFunctionOnSet(h, S)
      BY <2>3, SumEqual
    <2>6. SumFunctionOnSet(h, S) \in Int
      BY <2>3, SumIsInt
    <2>7. SumFunctionOnSet(h, T) = SumFunctionOnSet(g, S)
      BY <2>2, <2>4, <2>5, <2>6
    <2>8. QED
      BY <1>2, <1>5, <2>7 DEF Balanced, g, h, S, T
  <1>6. \A k \in Key : Excused(k) => Excused(k)'
    BY <1>2, ExcusesStay
  <1>7. \A q \in Request : pc'[q] = "new" => call'[q] = None
    BY <1>2 DEF BooksInv
  <1>8. QED
    BY <1>4, <1>5, <1>6, <1>7 DEF BooksInv

(* What a step of one request must do for the books to stay right.         *)
Books(r) ==
    \A k \in Key :
        \/ Excused(k) \/ Excused(k)'
        \/ QuantityOf(rows'[k]) - QuantityOf(rows[k])
               = (audit'[k] - audit[k]) + (Owed(k)'[r] - Owed(k)[r])

LEMMA BooksOfStep ==
    ASSUME HandlerInv, HandlerInv', BooksInv, NEW r \in Request,
           pc[r] \in InFlight, pc'[r] # "new", UNCHANGED call,
           \A q \in Request : q # r => pc'[q] = pc[q] /\ mem'[q] = mem[q],
           overwritten \subseteq overwritten', Books(r)
    PROVE  BooksInv'
  <1>1. pc[r] # "new" /\ pc[r] # "failed"
    BY DEF InFlight, InTransaction
  <1>2. Started' = Started
    BY <1>1 DEF Started
  <1>3. ASSUME NEW k \in Key PROVE Excused(k)' \/ Balanced(k)'
    <2>1. Excused(k) => Excused(k)'
      BY <1>1, ExcusesStay
    <2>2. CASE Excused(k) \/ Excused(k)'
      BY <2>1, <2>2
    <2>3. CASE ~Excused(k) /\ ~Excused(k)'
      BY <1>1, <2>3, BooksOfOne DEF Books
    <2>4. QED
      BY <2>2, <2>3
  <1>4. \A q \in Request : pc'[q] = "new" => call'[q] = None
    BY <1>1 DEF BooksInv
  <1>5. QED
    BY <1>2, <1>3, <1>4 DEF BooksInv

(* Every step keeps the books, or leaves an excuse.                        *)
LEMMA BooksInvStep == HandlerInv /\ HandlerInv' /\ BooksInv /\ [Next]_vars => BooksInv'
  <1> SUFFICES ASSUME HandlerInv, HandlerInv', BooksInv, [Next]_vars
               PROVE  BooksInv'
    OBVIOUS
  <1> USE DEF Goto, history
  <1>1. /\ rows \in [Key -> Row \cup {None}]
        /\ audit \in [Key -> Int]
        /\ pc \in [Request -> PC]
        /\ mem \in [Request -> [Key -> Row \cup {None}]]
    BY DEF HandlerInv, TypeOK
  <1>2. /\ \A k \in Key : QuantityOf(rows[k]) \in Nat /\ QuantityOf(rows'[k]) \in Nat
        /\ \A r \in Request, k \in Key : QuantityOf(mem[r][k]) \in Nat
    BY QuantityTyped DEF HandlerInv, TypeOK
  <1>3. \A r \in Request : pc[r] \in InFlight =>
          call[r] \in Call /\ FromKey(call[r]) \in Key /\ ToKey(call[r]) \in Key
    BY CallTyped DEF HandlerInv, HandlerState
  (* Steps that change no quantity and no movement, of a request that owes nothing. *)
  <1>4. ASSUME NEW r \in Request, UNCHANGED audit,
               \A k \in Key : QuantityOf(rows'[k]) = QuantityOf(rows[k]),
               pc[r] \notin {"record", "moveIn", "commit"},
               pc'[r] \notin {"record", "moveIn", "commit"}
        PROVE  Books(r)
    BY <1>1, <1>2, <1>4, OwesNothing DEF Books
  <1>5. ASSUME NEW r \in Request,
               \/ Load(r) \/ WaitForRow(r) \/ SaveRefused(r) \/ TransferLoadFrom(r)
               \/ TransferSaveFrom(r) \/ TransferLoadTo(r) \/ TransferSaveTo(r)
               \/ LowStockCheckLoad(r)
        PROVE  BooksInv'
    <2>1. /\ UNCHANGED <<rows, audit, call, overwritten>>
          /\ pc[r] \in InFlight \ {"record", "moveIn", "commit"}
          /\ \A q \in Request : q # r => pc'[q] = pc[q] /\ mem'[q] = mem[q]
          /\ pc'[r] \notin {"new", "record", "moveIn", "commit"}
      BY <1>1, <1>5 DEF Load, WaitForRow, SaveRefused, TransferLoadFrom, TransferSaveFrom,
                        TransferLoadTo, TransferSaveTo, LowStockCheckLoad, InFlight, InTransaction
    <2>2. Books(r)
      BY <1>4, <2>1 DEF QuantityOf
    <2>3. QED
      BY <2>1, <2>2, BooksOfStep
  <1>6. ASSUME NEW r \in Request, ResetAlerts(r)
        PROVE  BooksInv'
    <2>1. /\ UNCHANGED <<audit, call, mem, overwritten>>
          /\ pc[r] = "load" /\ pc'[r] = "done"
          /\ \A q \in Request : q # r => pc'[q] = pc[q]
      BY <1>1, <1>6 DEF ResetAlerts
    <2>2. \A row \in Row :
            LET off == [row EXCEPT !.lowStockAlertSent = FALSE]
            IN  off \in Row /\ off.quantity = row.quantity
      BY DEF Row
    <2>3. ASSUME NEW k \in Key PROVE QuantityOf(rows'[k]) = QuantityOf(rows[k])
      <3> DEFINE off == [rows[k] EXCEPT !.lowStockAlertSent = FALSE]
      <3>1. rows'[k] = rows[k] \/ (rows[k] \in Row /\ rows'[k] = off)
        BY <1>1, <1>6 DEF ResetAlerts, Flagged
      <3>2. rows[k] \in Row => off \in Row /\ off.quantity = rows[k].quantity
        BY <2>2
      <3> HIDE DEF off
      <3>3. QED
        BY <3>1, <3>2, NoneAssumption DEF QuantityOf
    <2>4. Books(r)
      BY <1>4, <2>1, <2>3
    <2>5. QED
      BY <2>1, <2>4, BooksOfStep DEF InFlight
  <1>7. ASSUME NEW r \in Request, NEW k \in Key, LowStockCheckSave(r, k)
        PROVE  BooksInv'
    <2> DEFINE saved == [mem[r][k] EXCEPT !.lowStockAlertSent = TRUE]
    <2>1. /\ UNCHANGED <<audit, call>> /\ overwritten' = overwritten \cup Unseen(r, {k})
          /\ pc[r] = "alert" /\ pc'[r] \in {"done", "alert"}
          /\ \A q \in Request : q # r => pc'[q] = pc[q] /\ mem'[q] = mem[q]
          /\ rows' = [rows EXCEPT ![k] = saved]
      BY <1>1, <1>7 DEF LowStockCheckSave
    <2>2. mem[r][k] \in Row
      BY <1>1, <1>7 DEF LowStockCheckSave
    <2>3. saved \in Row /\ saved.quantity = mem[r][k].quantity
      BY <2>2 DEF Row
    <2> HIDE DEF saved
    <2>4. QuantityOf(saved) = QuantityOf(mem[r][k])
      BY <2>2, <2>3, NoneAssumption DEF QuantityOf
    <2>5. QuantityOf(mem[r][k]) # QuantityOf(rows[k]) => k \in overwritten'
      BY <2>1 DEF Unseen
    <2>6. \A j \in Key : Owed(j)[r] = 0 /\ Owed(j)'[r] = 0
      BY <2>1, OwesNothing
    <2>7. \A j \in Key : rows'[j] = IF j = k THEN saved ELSE rows[j]
      BY <1>1, <2>1
    <2>8. \A j \in Key : j \in overwritten' \/ QuantityOf(rows'[j]) - QuantityOf(rows[j]) = 0
      BY <1>2, <2>4, <2>5, <2>7
    <2>9. \A j \in Key : audit'[j] - audit[j] = 0
      BY <1>1, <2>1
    <2>10. Books(r)
      BY <2>6, <2>8, <2>9 DEF Books, Excused
    <2>11. QED
      BY <2>1, <2>10, BooksOfStep DEF InFlight
  <1>8. ASSUME NEW r \in Request, Save(r)
        PROVE  BooksInv'
    <2> DEFINE c == call[r]
               k == FromKey(c)
               saved == Saved(c, mem[r][k])
    <2>1. /\ c \in Call /\ k \in Key /\ pc[r] = "save"
          /\ c.op \in {"create", "adjust", "update"}
          /\ c.op = "update" => mem[r][k] # None
      BY <1>3, <1>8 DEF Save, HandlerInv, HandlerState, InFlight
    <2>2. /\ UNCHANGED <<audit, call, mem>> /\ overwritten' = overwritten \cup Unseen(r, {k})
          /\ pc'[r] = IF c.op = "update" THEN "done" ELSE "record"
          /\ \A q \in Request : q # r => pc'[q] = pc[q]
          /\ rows' = [rows EXCEPT ![k] = saved]
      BY <1>1, <1>8 DEF Save
    <2>3. saved \in Row /\ saved # None /\ saved.quantity \in Nat
      BY <1>1, <2>1, SavedTyped, NoneAssumption DEF Row
    <2>4. \A j \in Key : Owed(j)[r] = 0
      BY <2>1, OwesNothing
    <2>5. \A j \in Key : Owed(j)'[r] =
            IF c.op # "update" /\ j = k THEN saved.quantity - QuantityOf(mem[r][k]) ELSE 0
      BY <2>2 DEF Owed, Owing, QuantityOf
    <2>6. c.op = "update" => Excused(k)
      BY <2>1, NoneAssumption DEF Excused, Touches
    <2>7. QuantityOf(mem[r][k]) # QuantityOf(rows[k]) => k \in overwritten'
      BY <2>1, <2>2 DEF Unseen
    <2> HIDE DEF saved, k, c
    <2>8. QuantityOf(rows'[k]) = saved.quantity /\ \A j \in Key : j # k => rows'[j] = rows[j]
      BY <1>1, <2>1, <2>2, <2>3 DEF QuantityOf
    <2>9. \A j \in Key : j # k => QuantityOf(rows'[j]) - QuantityOf(rows[j]) = 0
      BY <1>2, <2>8
    <2>10. \A j \in Key : audit'[j] - audit[j] = 0
      BY <1>1, <2>2
    <2>11. ASSUME NEW j \in Key, ~Excused(j), ~Excused(j)'
           PROVE  QuantityOf(rows'[j]) - QuantityOf(rows[j])
                    = (audit'[j] - audit[j]) + (Owed(j)'[r] - Owed(j)[r])
      <3>1. CASE j # k
        BY <2>4, <2>5, <2>9, <2>10, <3>1
      <3>2. CASE j = k
        <4>1. QuantityOf(mem[r][k]) = QuantityOf(rows[k]) /\ c.op # "update"
          BY <2>6, <2>7, <2>11, <3>2 DEF Excused
        <4>2. Owed(j)'[r] = saved.quantity - QuantityOf(rows[k]) /\ Owed(j)[r] = 0
          BY <2>4, <2>5, <3>2, <4>1
        <4>3. QED
          BY <1>2, <2>1, <2>3, <2>8, <2>10, <3>2, <4>2
      <3>3. QED
        BY <3>1, <3>2
    <2>12. Books(r)
      BY <2>11 DEF Books
    <2>13. QED
      BY <2>1, <2>2, <2>12, BooksOfStep DEF InFlight
  <1>9. ASSUME NEW r \in Request, RecordMovement(r)
        PROVE  BooksInv'
    <2> DEFINE c == call[r]
               k == FromKey(c)
               change == Saved(c, mem[r][k]).quantity - QuantityOf(mem[r][k])
    <2>1. /\ c \in Call /\ k \in Key /\ pc[r] = "record"
          /\ UNCHANGED <<rows, call, mem, overwritten>>
          /\ pc'[r] = "done" /\ \A q \in Request : q # r => pc'[q] = pc[q]
          /\ audit' = [audit EXCEPT ![k] = @ + change]
      BY <1>1, <1>3, <1>9 DEF RecordMovement, InFlight
    <2>2. \A j \in Key : Owed(j)[r] = IF j = k THEN change ELSE 0
      BY <2>1 DEF Owed, Owing
    <2>3. \A j \in Key : Owed(j)'[r] = 0 /\ Owed(j)[r] \in Int
      BY <2>1, OwesNothing, OwedTyped
    <2> HIDE DEF change, k
    <2>4. change \in Int /\ \A j \in Key : audit'[j] = IF j = k THEN audit[j] + change ELSE audit[j]
      BY <1>1, <2>1, <2>2, <2>3
    <2>5. \A j \in Key : QuantityOf(rows'[j]) - QuantityOf(rows[j]) = 0
      BY <1>2, <2>1
    <2>6. \A j \in Key : (audit'[j] - audit[j]) + (Owed(j)'[r] - Owed(j)[r]) = 0
      BY <1>1, <2>2, <2>3, <2>4
    <2>7. Books(r)
      BY <2>5, <2>6 DEF Books
    <2>8. QED
      BY <2>1, <2>7, BooksOfStep DEF InFlight
  <1>10. ASSUME NEW r \in Request, TransferRecordOut(r) \/ TransferRecordIn(r)
         PROVE  BooksInv'
    <2> DEFINE c == call[r]
               f == FromKey(c)
               t == ToKey(c)
    <2>1. /\ c \in Call /\ f \in Key /\ t \in Key /\ f # t /\ c.qty \in Nat
          /\ pc[r] \in {"moveOut", "moveIn"}
      BY <1>3, <1>10, CallTyped
         DEF TransferRecordOut, TransferRecordIn, TransferRecord, HandlerInv, HandlerState,
             InFlight, InTransaction, FromKey, ToKey, ValidCall
    <2>2. /\ UNCHANGED <<rows, call, mem, overwritten>>
          /\ \A q \in Request : q # r => pc'[q] = pc[q]
      BY <1>1, <1>10 DEF TransferRecordOut, TransferRecordIn, TransferRecord
    <2>3. \/ /\ pc[r] = "moveOut" /\ pc'[r] = "moveIn"
             /\ audit' = [audit EXCEPT ![f] = @ + (-c.qty)]
          \/ /\ pc[r] = "moveIn" /\ pc'[r] = "commit"
             /\ audit' = [audit EXCEPT ![t] = @ + c.qty]
      BY <1>1, <1>10 DEF TransferRecordOut, TransferRecordIn, TransferRecord
    <2>4. ASSUME NEW j \in Key
          PROVE  (audit'[j] - audit[j]) + (Owed(j)'[r] - Owed(j)[r]) = 0
      <3>1. CASE pc[r] = "moveOut"
        <4>1. /\ Owed(j)[r] = 0 /\ Owed(j)'[r] = IF j = f THEN c.qty ELSE 0
              /\ audit'[j] = IF j = f THEN audit[j] + (-c.qty) ELSE audit[j]
          BY <1>1, <2>1, <2>2, <2>3, <3>1 DEF Owed, Owing
        <4> HIDE DEF f
        <4>2. QED
          BY <1>1, <2>1, <4>1
      <3>2. CASE pc[r] = "moveIn"
        <4>1. /\ Owed(j)[r] = IF j = f THEN c.qty ELSE 0
              /\ Owed(j)'[r] = IF j = f THEN c.qty ELSE IF j = t THEN -c.qty ELSE 0
              /\ audit'[j] = IF j = t THEN audit[j] + c.qty ELSE audit[j]
          BY <1>1, <2>1, <2>2, <2>3, <3>2 DEF Owed, Owing
        <4> HIDE DEF f, t
        <4>2. QED
          BY <1>1, <2>1, <4>1
      <3>3. QED
        BY <2>1, <3>1, <3>2
    <2>5. \A j \in Key : QuantityOf(rows'[j]) - QuantityOf(rows[j]) = 0
      BY <1>2, <2>2
    <2>6. Books(r)
      BY <2>4, <2>5 DEF Books
    <2>7. QED
      BY <2>1, <2>2, <2>3, <2>6, BooksOfStep DEF InFlight, InTransaction
  <1>11. ASSUME NEW r \in Request, TransferCommit(r)
         PROVE  BooksInv'
    <2> DEFINE c == call[r]
               f == FromKey(c)
               t == ToKey(c)
               out == TransferredOut(c, mem[r][f])
               in == TransferredIn(c, mem[r][t])
    <2>1. /\ c \in Call /\ f \in Key /\ t \in Key /\ f # t
          /\ c.qty \in Nat /\ pc[r] = "commit"
          /\ mem[r][f] \in Row /\ mem[r][f].quantity >= c.qty
      <3>1. pc[r] = "commit" /\ c \in Call
        BY <1>3, <1>11 DEF TransferCommit, InFlight, InTransaction
      <3>2. /\ c.op = "transfer" /\ c.branch # c.to
            /\ mem[r][f] # None /\ mem[r][f].quantity >= c.qty
        BY <3>1 DEF HandlerInv, HandlerState, InTransaction
      <3>3. f \in Key /\ t \in Key /\ ValidCall(c)
        BY <3>1, CallTyped
      <3>4. f # t /\ c.qty \in Nat
        BY <3>2, <3>3 DEF FromKey, ToKey, ValidCall
      <3>5. mem[r][f] \in Row
        BY <1>1, <3>2, <3>3
      <3>6. QED
        BY <3>1, <3>2, <3>3, <3>4, <3>5
    <2>2. /\ out \in Row /\ out.quantity = mem[r][f].quantity - c.qty
          /\ in \in Row /\ in.quantity = QuantityOf(mem[r][t]) + c.qty
      BY <1>1, <2>1, TransferOutTyped, TransferInTyped
    <2>3. /\ UNCHANGED <<audit, call, mem>> /\ overwritten' = overwritten \cup Unseen(r, {f, t})
          /\ pc'[r] = "done" /\ \A q \in Request : q # r => pc'[q] = pc[q]
          /\ rows' = [rows EXCEPT ![f] = out, ![t] = in]
      BY <1>1, <1>11 DEF TransferCommit
    <2>4. \A j \in Key : /\ Owed(j)[r] = IF j = f THEN c.qty ELSE IF j = t THEN -c.qty ELSE 0
                         /\ Owed(j)'[r] = 0
      BY <2>1, <2>3, OwesNothing DEF Owed, Owing
    <2>5. \A j \in {f, t} : QuantityOf(mem[r][j]) # QuantityOf(rows[j]) => j \in overwritten'
      BY <2>3 DEF Unseen
    <2>6. mem[r][f].quantity = QuantityOf(mem[r][f])
      BY <2>1, NoneAssumption DEF QuantityOf
    <2> HIDE DEF f, t, out, in
    <2>7. /\ rows'[f] = out /\ rows'[t] = in
          /\ \A j \in Key : j # f /\ j # t => rows'[j] = rows[j]
      BY <1>1, <2>1, <2>3
    <2>8. /\ QuantityOf(rows'[f]) = QuantityOf(mem[r][f]) - c.qty
          /\ QuantityOf(rows'[t]) = QuantityOf(mem[r][t]) + c.qty
      BY <2>2, <2>6, <2>7, NoneAssumption DEF QuantityOf
    <2>9. \A j \in Key : audit'[j] - audit[j] = 0
      BY <1>1, <2>3
    <2>10. ASSUME NEW j \in Key, ~Excused(j)'
           PROVE  QuantityOf(rows'[j]) - QuantityOf(rows[j])
                    = (audit'[j] - audit[j]) + (Owed(j)'[r] - Owed(j)[r])
      <3>1. j \in {f, t} => QuantityOf(mem[r][j]) = QuantityOf(rows[j])
        BY <2>5, <2>10 DEF Excused
      <3>2. CASE j = f
        <4>1. QuantityOf(rows'[j]) = QuantityOf(rows[j]) - c.qty
              /\ Owed(j)'[r] = 0 /\ Owed(j)[r] = c.qty /\ audit'[j] - audit[j] = 0
          BY <2>4, <2>8, <2>9, <3>1, <3>2
        <4>2. QED
          BY <1>2, <2>1, <4>1
      <3>3. CASE j = t
        <4>1. QuantityOf(rows'[j]) = QuantityOf(rows[j]) + c.qty
              /\ Owed(j)'[r] = 0 /\ Owed(j)[r] = -c.qty /\ audit'[j] - audit[j] = 0
          BY <2>1, <2>4, <2>8, <2>9, <3>1, <3>3
        <4>2. QED
          BY <1>2, <2>1, <4>1
      <3>4. CASE j # f /\ j # t
        <4>1. rows'[j] = rows[j] /\ Owed(j)'[r] = 0 /\ Owed(j)[r] = 0 /\ audit'[j] - audit[j] = 0
          BY <2>4, <2>7, <2>9, <3>4
        <4>2. QED
          BY <1>2, <4>1
      <3>5. QED
        BY <3>2, <3>3, <3>4
    <2>11. Books(r)
      BY <2>10 DEF Books
    <2>12. QED
      BY <2>1, <2>3, <2>11, BooksOfStep DEF InFlight, InTransaction
  <1>12. ASSUME NEW r \in Request, Fail(r)
         PROVE  BooksInv'
    <2>1. /\ UNCHANGED <<rows, audit, call, mem, overwritten>>
          /\ pc[r] \in InFlight /\ pc'[r] = "failed"
          /\ \A q \in Request : q # r => pc'[q] = pc[q]
      BY <1>1, <1>12 DEF Fail
    <2>2. ASSUME NEW k \in Key, ~Excused(k)'
          PROVE  Owed(k)[r] = 0 /\ Owed(k)'[r] = 0
      <3>1. call[r] # None
        BY <1>3, <2>1, NoneAssumption
      <3>2. k # FromKey(call[r]) /\ k # ToKey(call[r])
        BY <2>1, <2>2, <3>1 DEF Excused, Touches
      <3>3. QED
        BY <2>1, <3>2 DEF Owed, Owing
    <2>3. \A k \in Key : QuantityOf(rows'[k]) - QuantityOf(rows[k]) = 0 /\ audit'[k] - audit[k] = 0
      BY <1>1, <1>2, <2>1
    <2>4. Books(r)
      BY <2>2, <2>3 DEF Books
    <2>5. QED
      BY <2>1, <2>4, BooksOfStep
  <1>13. CASE UNCHANGED vars
    <2>1. Started' = Started /\ (\A k \in Key : Excused(k)' <=> Excused(k))
      BY <1>13 DEF vars, Started, Excused, Touches
    <2>2. \A k \in Key : Owed(k)' = Owed(k)
      BY <1>13 DEF vars, Owed
    <2>3. \A k \in Key : Balanced(k) => Balanced(k)'
      BY <1>13, <2>1, <2>2 DEF vars, Balanced, QuantityOf
    <2>4. QED
      BY <1>13, <2>1, <2>3 DEF vars, BooksInv
  <1>14. ASSUME NEW r \in Request, Receive(r)
         PROVE  BooksInv'
    BY <1>14, BooksOfNew
  <1>15. ASSUME NEW r \in Request, TransferAborted(r)
         PROVE  BooksInv'
    BY <1>12, <1>15 DEF TransferAborted
  <1>16. QED
    BY <1>5, <1>6, <1>7, <1>8, <1>9, <1>10, <1>11, <1>12, <1>13, <1>14, <1>15 DEF Next, Handle

(***************************************************************************)
(* Once the requests on a row have ended, its movements add up to the      *)
(* change of its stock, however many requests there were and however they  *)
(* interleaved, unless a save overwrote a quantity its handler had not     *)
(* seen, a request on the row failed half-way or update() set it.          *)
(***************************************************************************)
THEOREM AuditTrailHolds == Spec => []AuditTrailExplained
  <1>1. Spec => []HandlerInv
    BY HandlerInvInit, HandlerInvStep, PTL DEF Spec
  <1>2. Spec => []BooksInv
    BY <1>1, BooksInvInit, BooksInvStep, PTL DEF Spec
  <1>3. HandlerInv /\ BooksInv => AuditTrailExplained
    <2> SUFFICES ASSUME HandlerInv, BooksInv, NEW k \in Key, Quiet(k), ~Excused(k)
                 PROVE  QuantityOf(rows[k]) = QuantityOf(Stock0[k]) + audit[k]
      BY DEF AuditTrailExplained, Excused
    <2>1. ASSUME NEW r \in Started PROVE Owed(k)[r] = 0
      <3>1. pc[r] \in {"record", "moveIn", "commit"} => call[r] # None
        BY NoneAssumption DEF HandlerInv, HandlerState, InFlight, InTransaction, Started
      <3>2. pc[r] \in {"record", "moveIn", "commit"} => ~Touches(r, k)
        BY DEF Quiet, Ended, Started
      <3>3. QED
        BY <3>1, <3>2 DEF Owed, Owing, Touches, Started
    <2>2. SumFunctionOnSet(Owed(k), Started) = 0
      BY <2>1, SumOfZeroes DEF BooksInv
    <2>3. QuantityOf(Stock0[k]) + audit[k] \in Int
      BY StockAssumption, QuantityTyped DEF HandlerInv, TypeOK
    <2>4. Balanced(k)
      BY DEF BooksInv
    <2>5. QED
      BY <2>2, <2>3, <2>4 DEF Balanced
  <1>4. QED
    BY <1>1, <1>2, <1>3, PTL
-----------------------------------------------------------------------------
(* 5. The refinement of StockLedger                                        *)

\* Only the low-stock check walks a list.
AlertState == \A r \in Request : pc[r] = "alert" => call[r].op = "lowStockCheck"

(* A list is loaded by the low-stock check only, whose call stays.         *)
LEMMA AlertStateStep == HandlerInv /\ AlertState /\ [Next]_vars => AlertState'
  <1> SUFFICES ASSUME HandlerInv, AlertState, [Next]_vars, NEW q \in Request, pc'[q] = "alert"
               PROVE  call'[q].op = "lowStockCheck"
    BY DEF AlertState
  <1> USE DEF HandlerInv, TypeOK, Goto, history
  <1>1. ASSUME NEW r \in Request, LowStockCheckLoad(r)
        PROVE  call'[q].op = "lowStockCheck"
    BY <1>1 DEF LowStockCheckLoad, AlertState
  <1>2. ASSUME NEW r \in Request, NEW k \in Key, LowStockCheckSave(r, k)
        PROVE  call'[q].op = "lowStockCheck"
    BY <1>2 DEF LowStockCheckSave, AlertState
  <1>3. ASSUME pc[q] = "alert", call'[q] = call[q]
        PROVE  call'[q].op = "lowStockCheck"
    BY <1>3 DEF AlertState
  <1>4. ASSUME NEW r \in Request, Receive(r)
        PROVE  call'[q].op = "lowStockCheck"
    <2>1. pc'[r] # "alert" /\ \A x \in Request : x # r => pc'[x] = pc[x] /\ call'[x] = call[x]
      BY <1>4 DEF Receive
    <2>2. QED
      BY <1>3, <2>1
  <1>5. ASSUME NEW r \in Request, WaitForRow(r)
        PROVE  call'[q].op = "lowStockCheck"
    BY <1>3, <1>5 DEF WaitForRow
  <1>6. ASSUME UNCHANGED call, NEW r \in Request, NEW p, p # "alert", pc' = [pc EXCEPT ![r] = p]
        PROVE  call'[q].op = "lowStockCheck"
    BY <1>3, <1>6
  <1>7. ASSUME NEW r \in Request,
               \/ Load(r) \/ Save(r) \/ SaveRefused(r) \/ RecordMovement(r)
               \/ TransferLoadFrom(r) \/ TransferSaveFrom(r) \/ TransferLoadTo(r)
               \/ TransferSaveTo(r) \/ TransferRecordOut(r) \/ TransferRecordIn(r)
               \/ TransferCommit(r) \/ TransferAborted(r) \/ ResetAlerts(r) \/ Fail(r)
        PROVE  call'[q].op = "lowStockCheck"
    <2>1. /\ UNCHANGED call
          /\ \E p \in {"save", "rejected", "done", "record", "failed", "saveFrom", "loadTo",
                       "saveTo", "moveOut", "moveIn", "commit"} : pc' = [pc EXCEPT ![r] = p]
      BY <1>7 DEF Load, Save, SaveRefused, RecordMovement, TransferLoadFrom, TransferSaveFrom,
                  TransferLoadTo, TransferSaveTo, TransferRecordOut, TransferRecordIn,
                  TransferRecord, TransferCommit, TransferAborted, ResetAlerts, Fail
    <2>2. QED
      BY <1>6, <2>1
  <1>8. CASE UNCHANGED vars
    BY <1>3, <1>8 DEF vars
  <1>9. QED
    BY <1>1, <1>2, <1>4, <1>5, <1>7, <1>8 DEF Next, Handle

(* A step of one request is one of that request in the ledger, too.        *)
LEMMA LedgerOfOne ==
    ASSUME NEW r \in Request, NEW p, NEW v, NEW d, UNCHANGED call,
           \A q \in Request : q # r => pc'[q] = pc[q] /\ mem'[q] = mem[q],
           PhaseOf(pc'[r]) = p, View(r)' = v, Debt(r)' = d
    PROVE  /\ Ledger!Goto(r, p) /\ Ledger!Sees(r, v) /\ Ledger!Owes(r, d)
           /\ UNCHANGED Orders
  <1>1. Ledger!Goto(r, p)
    BY DEF Phases, Ledger!Goto
  <1>2. \A q \in Request : q # r => View(q)' = View(q) /\ Debt(q)' = Debt(q)
    BY DEF View, SeenBy, Debt
  <1>3. Ledger!Sees(r, v)
    BY <1>2 DEF Views, Ledger!Sees
  <1>4. Ledger!Owes(r, d)
    BY <1>2 DEF Debts, Ledger!Owes
  <1>5. UNCHANGED Orders
    BY DEF Orders
  <1>6. QED
    BY <1>1, <1>3, <1>4, <1>5

(* What does not change for the request that moves does not change at all. *)
LEMMA LedgerStays ==
    ASSUME NEW r \in Request
    PROVE  /\ \A p : p = PhaseOf(pc[r]) /\ Ledger!Goto(r, p) => UNCHANGED Phases
           /\ \A v : v = View(r) /\ Ledger!Sees(r, v) => UNCHANGED Views
           /\ \A d : d = Debt(r) /\ Ledger!Owes(r, d) => UNCHANGED Debts
  BY DEF Phases, Views, Debts, Ledger!Goto, Ledger!Sees, Ledger!Owes

(* Where nothing is seen, and where nothing is owed.                       *)
LEMMA NothingSeen ==
    ASSUME NEW r \in Request
    PROVE  /\ pc[r] \notin {"save", "alert"} \cup InTransaction => View(r) = Ledger!NoView
           /\ pc'[r] \notin {"save", "alert"} \cup InTransaction => View(r)' = Ledger!NoView
           /\ pc[r] \notin {"record", "moveIn", "commit"} => Debt(r) = Ledger!NoDebt
           /\ pc'[r] \notin {"record", "moveIn", "commit"} => Debt(r)' = Ledger!NoDebt
  <1>1. pc[r] \notin {"save", "alert"} \cup InTransaction => SeenBy(r) = {}
    BY DEF SeenBy, InTransaction, HasLockedTo
  <1>2. pc'[r] \notin {"save", "alert"} \cup InTransaction => SeenBy(r)' = {}
    BY DEF SeenBy, InTransaction, HasLockedTo
  <1>3. QED
    BY <1>1, <1>2 DEF View, Debt, Owing, Ledger!NoView, Ledger!NoDebt

LEMMA LedgerInit == Init => Ledger!Init
  <1> SUFFICES ASSUME Init PROVE Ledger!Init
    OBVIOUS
  <1>1. Quantities \in [Key -> Nat]
    BY StockAssumption, QuantityTyped DEF Init, Quantities
  <1>2. audit = Ledger!NoDebt
    BY DEF Init, Ledger!NoDebt
  <1>3. Phases = [r \in Request |-> "new"] /\ Orders = [r \in Request |-> None]
    BY DEF Init, Phases, Orders, PhaseOf
  <1>4. \A r \in Request : View(r) = Ledger!NoView /\ Debt(r) = Ledger!NoDebt
    BY NothingSeen DEF Init, InTransaction
  <1>5. Views = [r \in Request |-> Ledger!NoView] /\ Debts = [r \in Request |-> Ledger!NoDebt]
    BY <1>4 DEF Views, Debts
  <1>6. QED
    BY <1>1, <1>2, <1>3, <1>5 DEF Ledger!Init

(* What the ledger shows of a request.                                     *)
LEMMA LedgerShows ==
    ASSUME NEW r \in Request
    PROVE  /\ Phases[r] = PhaseOf(pc[r]) /\ Views[r] = View(r) /\ Debts[r] = Debt(r)
           /\ call[r] \in Call => Orders[r] = OrderOf(call[r])
  BY NoneAssumption DEF Phases, Views, Debts, Orders

(* A request that ends without storing or recording anything.              *)
LEMMA LedgerLeaves ==
    ASSUME NEW r \in Request, UNCHANGED call,
           \A q \in Request : q # r => pc'[q] = pc[q] /\ mem'[q] = mem[q],
           pc[r] \in InFlight, pc'[r] \in Ended, UNCHANGED <<Quantities, audit>>
    PROVE  Ledger!Leave(r)
  <1>1. PhaseOf(pc[r]) \in {"open", "stored"} /\ PhaseOf(pc'[r]) = "over"
    BY DEF PhaseOf, InFlight, InTransaction, Ended
  <1>2. View(r)' = Ledger!NoView /\ Debt(r)' = Ledger!NoDebt
    BY NothingSeen DEF Ended, InTransaction
  <1>3. /\ Ledger!Goto(r, "over") /\ Ledger!Sees(r, Ledger!NoView)
        /\ Ledger!Owes(r, Ledger!NoDebt) /\ UNCHANGED Orders
    BY <1>1, <1>2, LedgerOfOne
  <1>4. QED
    BY <1>1, <1>3, LedgerShows DEF Ledger!Leave

(* A request that takes or waits for a lock or a connection only.          *)
LEMMA LedgerWaits ==
    ASSUME NEW r \in Request, UNCHANGED <<call, mem, audit, rows>>,
           \A q \in Request : q # r => pc'[q] = pc[q],
           \/ pc'[r] = pc[r]
           \/ pc[r] = "saveFrom" /\ pc'[r] = "loadTo"
           \/ pc[r] = "saveTo" /\ pc'[r] = "moveOut"
    PROVE  UNCHANGED Ledger!vars
  <1>1. PhaseOf(pc'[r]) = PhaseOf(pc[r])
    BY DEF PhaseOf, Ended
  <1>2. SeenBy(r)' = SeenBy(r)
    BY DEF SeenBy, InTransaction, HasLockedTo
  <1>3. View(r)' = View(r) /\ Debt(r)' = Debt(r)
    BY <1>2 DEF View, Debt, Owing
  <1>4. UNCHANGED <<Phases, Orders, Views, Debts>>
    BY <1>1, <1>3, LedgerOfOne, LedgerStays
  <1>5. UNCHANGED Quantities
    BY DEF Quantities
  <1>6. QED
    BY <1>4, <1>5 DEF Ledger!vars

(* A row stored is a quantity stored.                                      *)
LEMMA LedgerStores ==
    ASSUME HandlerInv, NEW k \in Key, NEW row \in Row, rows' = [rows EXCEPT ![k] = row]
    PROVE  Quantities' = [Quantities EXCEPT ![k] = row.quantity]
  <1>1. QuantityOf(row) = row.quantity
    BY NoneAssumption DEF QuantityOf
  <1>2. rows'[k] = row /\ \A j \in Key : j # k => rows'[j] = rows[j]
    BY DEF HandlerInv, TypeOK
  <1>3. \A j \in Key : QuantityOf(rows'[j]) = IF j = k THEN row.quantity ELSE QuantityOf(rows[j])
    BY <1>1, <1>2
  <1>4. QED
    BY ONLY <1>3, k \in Key DEF Quantities

(* Rows loaded are quantities seen, on top of those seen before.           *)
LEMMA LedgerSees ==
    ASSUME NEW r \in Request, UNCHANGED <<rows, audit, call>>,
           \A q \in Request : q # r => pc'[q] = pc[q] /\ mem'[q] = mem[q],
           PhaseOf(pc[r]) = "open", PhaseOf(pc'[r]) = "open",
           {pc[r], pc'[r]} \cap {"record", "moveIn", "commit"} = {},
           NEW K \in SUBSET Key, SeenBy(r)' = SeenBy(r) \cup K,
           \A k \in K : mem'[r][k] = rows[k],
           \A k \in SeenBy(r) \ K : mem'[r][k] = mem[r][k]
    PROVE  Ledger!See(r, K)
  <1> DEFINE v == [k \in Key |-> IF k \in K THEN Quantities[k] ELSE View(r)[k]]
  <1>1. \A k \in Key :
          /\ Quantities[k] = QuantityOf(rows[k])
          /\ View(r)[k] = IF k \in SeenBy(r) THEN QuantityOf(mem[r][k]) ELSE None
          /\ v[k] = IF k \in K THEN Quantities[k] ELSE View(r)[k]
    BY DEF Quantities, View
  <1>2. View(r)' = v
    <2>1. \A k \in Key : v[k] = IF k \in SeenBy(r)' THEN QuantityOf(mem'[r][k]) ELSE None
      <3>1. ASSUME NEW k \in Key, k \in K
            PROVE  v[k] = QuantityOf(mem'[r][k]) /\ k \in SeenBy(r)'
        <4>1. mem'[r][k] = rows[k]
          BY <3>1
        <4>2. QED
          BY <1>1, <3>1, <4>1
      <3>2. ASSUME NEW k \in Key, k \notin K
            PROVE  v[k] = IF k \in SeenBy(r)' THEN QuantityOf(mem'[r][k]) ELSE None
        <4>1. /\ k \in SeenBy(r) => mem'[r][k] = mem[r][k]
              /\ k \in SeenBy(r)' <=> k \in SeenBy(r)
          BY <3>2
        <4>2. QED
          BY <1>1, <3>2, <4>1
      <3>3. QED
        BY <3>1, <3>2
    <2>2. v = [k \in Key |-> v[k]]
      OBVIOUS
    <2> HIDE DEF v
    <2>3. QED
      BY <2>1, <2>2 DEF View
  <1> HIDE DEF v
  <1>3. Debt(r) = Ledger!NoDebt /\ Debt(r)' = Ledger!NoDebt
    BY NothingSeen
  <1>4. Ledger!Sees(r, v) /\ UNCHANGED <<Phases, Debts, Orders>>
    BY <1>2, <1>3, LedgerOfOne, LedgerStays
  <1>5. UNCHANGED Quantities
    BY DEF Quantities
  <1>6. QED
    BY <1>4, <1>5, LedgerShows DEF Ledger!See, v

(* What create, adjustStock and update save of the quantity they loaded.   *)
LEMMA SavedIs ==
    ASSUME NEW c \in Call, NEW row \in Row \cup {None}
    PROVE  /\ c.op \in {"create", "adjust"} =>
                Saved(c, row).quantity =
                    IF QuantityOf(row) + c.qty > 0 THEN QuantityOf(row) + c.qty ELSE 0
           /\ c.op = "update" /\ row # None =>
                Saved(c, row).quantity = IF c.qty = None THEN QuantityOf(row) ELSE c.qty
  <1>1. ValidCall(c) /\ QuantityOf(row) \in Nat
    BY CallTyped, QuantityTyped
  <1>2. ASSUME NEW q \in Nat, NEW m, NEW w \in Row
        PROVE  /\ [w EXCEPT !.quantity = q, !.minThreshold = m].quantity = q
               /\ [w EXCEPT !.quantity = q].quantity = q
    BY DEF Row
  <1>3. CASE c.op = "create"
    <2>1. c.qty \in Nat /\ Saved(c, row) = Created(c, row)
      BY <1>1, <1>3 DEF Saved, ValidCall
    <2>2. Created(c, row).quantity = QuantityOf(row) + c.qty
      <3>1. CASE row = None
        BY <2>1, <3>1 DEF Created, NewRow, QuantityOf
      <3>2. CASE row \in Row /\ row # None
        <4>1. row.quantity + c.qty \in Nat
          BY <2>1, <3>2 DEF Row
        <4>2. Created(c, row) = [row EXCEPT !.quantity = row.quantity + c.qty,
                                           !.minThreshold = Given(c.min, row.minThreshold)]
          BY <3>2 DEF Created
        <4>3. QED
          BY <1>2, <3>2, <4>1, <4>2 DEF QuantityOf
      <3>3. QED
        BY <3>1, <3>2
    <2>3. QED
      BY <1>1, <1>3, <2>1, <2>2
  <1>4. CASE c.op = "adjust"
    <2> DEFINE inv == IF row = None THEN NewRow(0, 10) ELSE row
               n == QuantityOf(row) + c.qty
    <2>1. c.qty \in Int /\ inv \in Row /\ inv.quantity = QuantityOf(row)
      BY <1>1, <1>4 DEF ValidCall, NewRow, Row, QuantityOf
    <2>2. Saved(c, row) = [inv EXCEPT !.quantity = AtLeastZero(inv.quantity + c.qty)]
      BY <1>4 DEF Saved, Adjusted
    <2>3. n \in Int /\ AtLeastZero(n) \in Nat /\ AtLeastZero(n) = (IF n > 0 THEN n ELSE 0)
      BY <1>1, <2>1 DEF AtLeastZero
    <2> HIDE DEF inv
    <2>4. Saved(c, row).quantity = AtLeastZero(n)
      BY <1>2, <2>1, <2>2, <2>3
    <2>5. QED
      BY <1>4, <2>3, <2>4
  <1>5. CASE c.op = "update" /\ row # None
    <2>1. c.qty \in Nat \cup {None} /\ row \in Row /\ QuantityOf(row) = row.quantity
      BY <1>1, <1>5 DEF ValidCall, QuantityOf
    <2> DEFINE q == Given(c.qty, row.quantity)
               m == Given(c.min, row.minThreshold)
    <2>2. q \in Nat /\ Saved(c, row) = [row EXCEPT !.quantity = q, !.minThreshold = m]
      BY <1>1, <1>5, <2>1 DEF Saved, Updated, Given
    <2>3. q = IF c.qty = None THEN QuantityOf(row) ELSE c.qty
      BY <2>1 DEF Given
    <2> HIDE DEF q, m
    <2>4. QED
      BY <1>2, <1>5, <2>1, <2>2, <2>3
  <1>6. QED
    BY <1>3, <1>4, <1>5

(* Every step is a step of the ledger, or changes nothing the ledger shows. *)
LEMMA LedgerStep ==
    HandlerInv /\ HandlerInv' /\ AlertState /\ [Next]_vars => [Ledger!Next]_Ledger!vars
  <1> SUFFICES ASSUME HandlerInv, HandlerInv', AlertState, [Next]_vars
               PROVE  Ledger!Next \/ UNCHANGED Ledger!vars
    OBVIOUS
  <1> USE DEF Goto, history
  <1>1. /\ rows \in [Key -> Row \cup {None}]
        /\ audit \in [Key -> Int]
        /\ pc \in [Request -> PC]
        /\ call \in [Request -> Call \cup {None}]
        /\ mem \in [Request -> [Key -> Row \cup {None}]]
    BY DEF HandlerInv, TypeOK
  <1>2. \A r \in Request : pc[r] \in InFlight =>
          /\ call[r] \in Call /\ FromKey(call[r]) \in Key /\ ToKey(call[r]) \in Key
          /\ Orders[r] = OrderOf(call[r])
    BY CallTyped, LedgerShows DEF HandlerInv, HandlerState
  <1>3. \A r \in Request :
          /\ Ledger!Leave(r) => Ledger!Next
          /\ Ledger!Store(r) => Ledger!Next
          /\ Ledger!Enter(r) => Ledger!Next
          /\ Ledger!Set(r) => Ledger!Next
          /\ Ledger!Move(r) => Ledger!Next
          /\ \A K \in SUBSET Key : Ledger!See(r, K) => Ledger!Next
          /\ \A k \in Key : Ledger!Rewrite(r, k) => Ledger!Next
    BY DEF Ledger!Next
  <1>4. ASSUME NEW r \in Request, Receive(r)
        PROVE  Ledger!Next
    <2>1. PICK c \in Call :
            /\ call' = [call EXCEPT ![r] = c]
            /\ pc' = [pc EXCEPT ![r] = IF Admitted(c) THEN "load" ELSE "rejected"]
      BY <1>4 DEF Receive
    <2>2. /\ pc[r] = "new" /\ pc'[r] \in {"load", "rejected"} /\ call'[r] = c /\ c # None
          /\ \A q \in Request : q # r => pc'[q] = pc[q] /\ call'[q] = call[q]
          /\ UNCHANGED <<rows, audit, mem>>
      BY <1>1, <1>4, <2>1, NoneAssumption DEF Receive
    <2>3. Orders' = [Orders EXCEPT ![r] = OrderOf(c)]
      BY <2>2 DEF Orders
    <2>4. PhaseOf(pc'[r]) \in {"open", "over"} /\ Phases' = [Phases EXCEPT ![r] = PhaseOf(pc'[r])]
      BY <2>2 DEF Phases, PhaseOf, Ended
    <2>5. Views' = Views /\ Debts' = Debts
      <3>1. \A q \in Request : View(q)' = View(q) /\ Debt(q)' = Debt(q)
        <4>1. View(r)' = View(r) /\ Debt(r)' = Debt(r)
          BY <2>2, NothingSeen DEF InTransaction
        <4>2. \A q \in Request : q # r => View(q)' = View(q) /\ Debt(q)' = Debt(q)
          BY <2>2 DEF View, SeenBy, Debt
        <4>3. QED
          BY <4>1, <4>2
      <3>2. QED
        BY <3>1 DEF Views, Debts
    <2>6. Phases[r] = "new"
      BY <2>2 DEF Phases, PhaseOf
    <2>7. UNCHANGED Quantities
      BY <2>2 DEF Quantities
    <2>8. Ledger!Begin(r, OrderOf(c))
      BY <2>2, <2>3, <2>4, <2>5, <2>6, <2>7 DEF Ledger!Begin, Ledger!Goto
    <2>9. QED
      BY <2>8 DEF Ledger!Next
  <1>5. ASSUME NEW r \in Request, Load(r)
        PROVE  Ledger!Next
    <2> DEFINE c == call[r]
               k == FromKey(c)
    <2>1. /\ c \in Call /\ k \in Key /\ pc[r] = "load" /\ pc[r] \in InFlight
          /\ UNCHANGED <<rows, audit, call, Quantities>>
      BY <1>2, <1>5 DEF Load, InFlight, Quantities
    <2>2. CASE pc' = [pc EXCEPT ![r] = "rejected"]
      <3>1. mem' = mem /\ pc'[r] \in Ended /\ \A q \in Request : q # r => pc'[q] = pc[q]
        BY <1>1, <1>5, <2>2 DEF Load, Ended
      <3>2. QED
        BY <1>3, <2>1, <3>1, LedgerLeaves
    <2>3. CASE pc' = [pc EXCEPT ![r] = "save"] /\ mem' = [mem EXCEPT ![r][k] = rows[k]]
      <3>1. /\ pc'[r] = "save"
            /\ \A q \in Request : q # r => pc'[q] = pc[q] /\ mem'[q] = mem[q]
            /\ mem'[r][k] = rows[k]
        BY <1>1, <2>1, <2>3
      <3>2. PhaseOf(pc[r]) = "open" /\ PhaseOf(pc'[r]) = "open"
        BY <2>1, <3>1 DEF PhaseOf, Ended
      <3>3. SeenBy(r) = {} /\ SeenBy(r)' = {k}
        BY <2>1, <3>1 DEF SeenBy, InTransaction, HasLockedTo
      <3>4. Ledger!See(r, {k})
        BY <2>1, <3>1, <3>2, <3>3, LedgerSees
      <3>5. QED
        BY <1>3, <2>1, <3>4
    <2>4. QED
      BY <1>5, <2>2, <2>3 DEF Load
  <1>6. ASSUME NEW r \in Request,
               WaitForRow(r) \/ TransferSaveFrom(r) \/ TransferSaveTo(r)
        PROVE  UNCHANGED Ledger!vars
    <2>1. /\ UNCHANGED <<call, mem, audit, rows>>
          /\ \A q \in Request : q # r => pc'[q] = pc[q]
          /\ \/ pc'[r] = pc[r]
             \/ pc[r] = "saveFrom" /\ pc'[r] = "loadTo"
             \/ pc[r] = "saveTo" /\ pc'[r] = "moveOut"
      BY <1>1, <1>6 DEF WaitForRow, TransferSaveFrom, TransferSaveTo
    <2>2. QED
      BY <2>1, LedgerWaits
  <1>7. ASSUME NEW r \in Request,
               SaveRefused(r) \/ Fail(r) \/ TransferAborted(r) \/ ResetAlerts(r)
        PROVE  Ledger!Next
    <2>1. /\ UNCHANGED <<call, mem, audit>>
          /\ \A q \in Request : q # r => pc'[q] = pc[q]
          /\ pc[r] \in InFlight /\ pc'[r] \in Ended
      BY <1>1, <1>7 DEF SaveRefused, Fail, TransferAborted, ResetAlerts, InFlight, Ended
    <2>2. \A k \in Key : QuantityOf(rows'[k]) = QuantityOf(rows[k])
      <3>1. CASE SaveRefused(r) \/ Fail(r) \/ TransferAborted(r)
        BY <3>1 DEF SaveRefused, Fail, TransferAborted
      <3>2. CASE ResetAlerts(r)
        BY <1>1, <3>2, NoneAssumption DEF ResetAlerts, Flagged, QuantityOf, Row
      <3>3. QED
        BY <1>7, <3>1, <3>2
    <2>3. UNCHANGED Quantities
      BY <2>2 DEF Quantities
    <2>4. QED
      BY <1>3, <2>1, <2>3, LedgerLeaves
  <1>8. ASSUME NEW r \in Request, TransferLoadFrom(r)
        PROVE  Ledger!Next
    <2> DEFINE k == FromKey(call[r])
    <2>1. /\ k \in Key /\ pc[r] = "load" /\ pc[r] \in InFlight
          /\ UNCHANGED <<rows, audit, call, Quantities>>
      BY <1>2, <1>8 DEF TransferLoadFrom, InFlight, Quantities
    <2>2. CASE pc' = [pc EXCEPT ![r] = "rejected"]
      <3>1. mem' = mem /\ pc'[r] \in Ended /\ \A q \in Request : q # r => pc'[q] = pc[q]
        BY <1>1, <1>8, <2>2 DEF TransferLoadFrom, Ended
      <3>2. QED
        BY <1>3, <2>1, <3>1, LedgerLeaves
    <2>3. CASE pc' = [pc EXCEPT ![r] = "saveFrom"] /\ mem' = [mem EXCEPT ![r][k] = rows[k]]
      <3>1. /\ pc'[r] = "saveFrom"
            /\ \A q \in Request : q # r => pc'[q] = pc[q] /\ mem'[q] = mem[q]
            /\ mem'[r][k] = rows[k]
        BY <1>1, <2>1, <2>3
      <3>2. PhaseOf(pc[r]) = "open" /\ PhaseOf(pc'[r]) = "open"
        BY <2>1, <3>1 DEF PhaseOf, Ended
      <3>3. SeenBy(r) = {} /\ SeenBy(r)' = {k}
        BY <2>1, <3>1 DEF SeenBy, InTransaction, HasLockedTo
      <3>4. Ledger!See(r, {k})
        BY <2>1, <3>1, <3>2, <3>3, LedgerSees
      <3>5. QED
        BY <1>3, <2>1, <3>4
    <2>4. QED
      BY <1>8, <2>2, <2>3 DEF TransferLoadFrom
  <1>9. ASSUME NEW r \in Request, TransferLoadTo(r)
        PROVE  Ledger!Next
    <2> DEFINE f == FromKey(call[r])
               k == ToKey(call[r])
    <2>1. /\ f \in Key /\ k \in Key /\ f # k /\ pc[r] = "loadTo" /\ pc'[r] = "saveTo"
          /\ mem' = [mem EXCEPT ![r][k] = rows[k]]
          /\ UNCHANGED <<rows, audit, call>>
      BY <1>1, <1>2, <1>9
         DEF TransferLoadTo, InFlight, InTransaction, HandlerInv, HandlerState, FromKey, ToKey
    <2>2. /\ \A q \in Request : q # r => pc'[q] = pc[q] /\ mem'[q] = mem[q]
          /\ mem'[r][k] = rows[k] /\ mem'[r][f] = mem[r][f]
      BY <1>1, <1>9, <2>1 DEF TransferLoadTo
    <2>3. PhaseOf(pc[r]) = "open" /\ PhaseOf(pc'[r]) = "open"
      BY <2>1 DEF PhaseOf, Ended
    <2>4. SeenBy(r) = {f} /\ SeenBy(r)' = {f} \cup {k}
      BY <2>1 DEF SeenBy, InTransaction, HasLockedTo
    <2>5. Ledger!See(r, {k})
      BY <2>1, <2>2, <2>3, <2>4, LedgerSees
    <2>6. QED
      BY <1>3, <2>1, <2>5
  <1>10. ASSUME NEW r \in Request, LowStockCheckLoad(r)
         PROVE  Ledger!Next
    <2> DEFINE low == [k \in Key |-> IF IsLow(rows[k]) THEN rows[k] ELSE None]
    <2>1. /\ pc[r] = "load" /\ pc[r] \in InFlight
          /\ mem' = [mem EXCEPT ![r] = low]
          /\ pc' = [pc EXCEPT ![r] = IF low = NoRows THEN "done" ELSE "alert"]
          /\ UNCHANGED <<rows, audit, call, Quantities>>
      BY <1>10 DEF LowStockCheckLoad, InFlight, Quantities
    <2>2. \A q \in Request : q # r => pc'[q] = pc[q] /\ mem'[q] = mem[q]
      BY <1>1, <2>1
    <2>3. CASE low = NoRows
      <3>1. pc'[r] \in Ended
        BY <1>1, <2>1, <2>3 DEF Ended
      <3>2. QED
        BY <1>3, <2>1, <2>2, <3>1, LedgerLeaves
    <2>4. CASE low # NoRows
      <3> DEFINE K == {k \in Key : IsLow(rows[k])}
      <3>1. pc'[r] = "alert" /\ mem'[r] = low
        BY <1>1, <2>1, <2>4
      <3>2. PhaseOf(pc[r]) = "open" /\ PhaseOf(pc'[r]) = "open"
        BY <2>1, <3>1 DEF PhaseOf, Ended
      <3>3. SeenBy(r) = {} /\ SeenBy(r)' = K
        BY <1>1, <2>1, <3>1, NoneAssumption DEF SeenBy, InTransaction, HasLockedTo, IsLow
      <3>4. \A k \in K : mem'[r][k] = rows[k]
        BY <3>1
      <3>5. Ledger!See(r, K)
        BY <2>1, <2>2, <3>1, <3>2, <3>3, <3>4, LedgerSees
      <3>6. QED
        BY <1>3, <3>5
    <2>5. QED
      BY <2>3, <2>4
  <1>11. ASSUME NEW r \in Request, Save(r)
         PROVE  Ledger!Next
    <2> DEFINE c == call[r]
               k == FromKey(c)
               o == OrderOf(c)
               q == QuantityOf(mem[r][k])
               n == Saved(c, mem[r][k]).quantity
    <2>1. /\ c \in Call /\ k \in Key /\ Orders[r] = o /\ o.from = k /\ o.qty = c.qty
          /\ pc[r] = "save" /\ c.op \in {"create", "adjust", "update"}
          /\ c.op = "update" => mem[r][k] # None
          /\ UNCHANGED <<audit, call, mem>>
          /\ \A x \in Request : x # r => pc'[x] = pc[x]
      BY <1>1, <1>2, <1>11 DEF Save, InFlight, HandlerInv, HandlerState, OrderOf
    <2>2. Saved(c, mem[r][k]) \in Row /\ rows' = [rows EXCEPT ![k] = Saved(c, mem[r][k])]
      BY <1>1, <1>11, <2>1, SavedTyped DEF Save
    <2>3. Quantities' = [Quantities EXCEPT ![k] = n]
      BY <2>1, <2>2, LedgerStores
    <2>4. q \in Nat /\ q # None /\ k \in SeenBy(r)
      BY <1>1, <2>1, QuantityTyped, NoneAssumption DEF SeenBy
    <2>5. Views[r][k] = q /\ Phases[r] = "open" /\ Debt(r) = Ledger!NoDebt
      BY <2>1, <2>4, LedgerShows, NothingSeen DEF View, PhaseOf, Ended
    <2>6. CASE c.op = "update"
      <3>1. pc'[r] = "done"
        BY <1>1, <1>11, <2>6 DEF Save
      <3>2. /\ PhaseOf(pc'[r]) = "over" /\ View(r)' = Ledger!NoView
            /\ Debt(r)' = Ledger!NoDebt
        BY <3>1, NothingSeen DEF PhaseOf, Ended, InTransaction
      <3>3. /\ Ledger!Goto(r, "over") /\ Ledger!Sees(r, Ledger!NoView)
            /\ UNCHANGED <<Orders, Debts>>
        BY <2>1, <2>5, <3>2, LedgerOfOne, LedgerStays
      <3>4. o.kind = "set" /\ n = (IF o.qty = None THEN Views[r][k] ELSE o.qty)
        BY <1>1, <2>1, <2>5, <2>6, SavedIs DEF OrderOf
      <3> HIDE DEF c, k, o, q, n
      <3>5. Ledger!Set(r)
        BY <2>1, <2>3, <2>4, <2>5, <3>3, <3>4 DEF Ledger!Set
      <3>6. QED
        BY <1>3, <3>5
    <2>7. CASE c.op \in {"create", "adjust"}
      <3>1. pc'[r] = "record"
        BY <1>1, <1>11, <2>7 DEF Save
      <3>2. PhaseOf(pc'[r]) = "stored" /\ View(r)' = Ledger!NoView
        BY <3>1, NothingSeen DEF PhaseOf, InTransaction
      <3>3. Debt(r)' = [Ledger!NoDebt EXCEPT ![k] = n - q]
        BY <2>1, <3>1 DEF Debt, Owing, Ledger!NoDebt
      <3>4. /\ Ledger!Goto(r, "stored") /\ Ledger!Sees(r, Ledger!NoView)
            /\ Ledger!Owes(r, [Ledger!NoDebt EXCEPT ![k] = n - q]) /\ UNCHANGED Orders
        BY <2>1, <3>2, <3>3, LedgerOfOne
      <3>5. o.kind = "change" /\ n = (IF q + o.qty > 0 THEN q + o.qty ELSE 0)
        BY <1>1, <2>1, <2>7, SavedIs DEF OrderOf
      <3> HIDE DEF c, k, o, q, n
      <3>6. Ledger!Changed(r) = n
        BY <2>1, <2>5, <3>5 DEF Ledger!Changed
      <3>7. Ledger!Store(r)
        BY <2>1, <2>3, <2>4, <2>5, <3>4, <3>5, <3>6 DEF Ledger!Store
      <3>8. QED
        BY <1>3, <3>7
    <2>8. QED
      BY <2>1, <2>6, <2>7
  <1>12. ASSUME NEW r \in Request, RecordMovement(r)
         PROVE  Ledger!Next
    <2> DEFINE c == call[r]
               k == FromKey(c)
               e == Saved(c, mem[r][k]).quantity - QuantityOf(mem[r][k])
    <2>1. /\ pc[r] = "record" /\ pc'[r] = "done"
          /\ audit' = [audit EXCEPT ![k] = @ + e]
          /\ UNCHANGED <<rows, call, mem>>
          /\ \A x \in Request : x # r => pc'[x] = pc[x]
          /\ c \in Call /\ k \in Key /\ Orders[r].from = k
      <3>1. pc[r] = "record" /\ pc' = [pc EXCEPT ![r] = "done"]
        BY <1>12 DEF RecordMovement
      <3>2. c \in Call /\ k \in Key /\ Orders[r].from = k
        <4>1. c \in Call /\ k \in Key /\ Orders[r] = OrderOf(c)
          BY <1>2, <3>1 DEF InFlight
        <4>2. OrderOf(c).from = k
          BY DEF OrderOf
        <4>3. QED
          BY <4>1, <4>2
      <3>3. audit' = [audit EXCEPT ![k] = @ + e] /\ UNCHANGED <<rows, call, mem>>
        BY <1>12 DEF RecordMovement
      <3>4. QED
        BY <1>1, <3>1, <3>2, <3>3
    <2>2. Debts[r][k] = e /\ Phases[r] = "stored"
      BY <2>1, LedgerShows DEF Debt, Owing, PhaseOf
    <2>3. /\ PhaseOf(pc'[r]) = "over" /\ Debt(r)' = Ledger!NoDebt
          /\ View(r) = Ledger!NoView /\ View(r)' = Ledger!NoView
      BY <2>1, NothingSeen DEF PhaseOf, Ended, InTransaction
    <2>4. /\ Ledger!Goto(r, "over") /\ Ledger!Owes(r, Ledger!NoDebt)
          /\ UNCHANGED <<Orders, Views, Quantities>>
      BY <2>1, <2>3, LedgerOfOne, LedgerStays DEF Quantities
    <2> HIDE DEF c, k, e
    <2>5. Ledger!Enter(r)
      BY <2>1, <2>2, <2>4 DEF Ledger!Enter
    <2>6. QED
      BY <1>3, <2>5
  (* What a transfer's handler knows at its last three awaits.             *)
  <1>13. ASSUME NEW r \in Request, pc[r] \in {"moveOut", "moveIn", "commit"}
         PROVE  /\ Orders[r] = OrderOf(call[r]) /\ Orders[r].kind = "move"
                /\ Orders[r].from = FromKey(call[r]) /\ Orders[r].to = ToKey(call[r])
                /\ Orders[r].qty = call[r].qty /\ call[r].qty \in Nat \ {0}
                /\ FromKey(call[r]) \in Key /\ ToKey(call[r]) \in Key
                /\ FromKey(call[r]) # ToKey(call[r])
                /\ mem[r][FromKey(call[r])] \in Row
                /\ mem[r][FromKey(call[r])].quantity >= call[r].qty
                /\ \A k \in {FromKey(call[r]), ToKey(call[r])} :
                       /\ Views[r][k] = QuantityOf(mem[r][k])
                       /\ QuantityOf(mem[r][k]) \in Nat /\ Views[r][k] # None
                /\ Phases[r] = "open"
    <2> DEFINE c == call[r]
    <2>1. /\ c \in Call /\ c.op = "transfer" /\ c.branch # c.to
          /\ FromKey(c) \in Key /\ ToKey(c) \in Key /\ Orders[r] = OrderOf(c)
          /\ mem[r][FromKey(c)] # None /\ mem[r][FromKey(c)].quantity >= c.qty
      BY <1>2, <1>13 DEF InFlight, InTransaction, HandlerInv, HandlerState
    <2>2. c.qty \in Nat \ {0} /\ FromKey(c) # ToKey(c)
      BY <2>1, CallTyped DEF ValidCall, FromKey, ToKey
    <2>3. mem[r][FromKey(c)] \in Row
      BY <1>1, <2>1
    <2>4. /\ OrderOf(c).kind = "move" /\ OrderOf(c).from = FromKey(c)
          /\ OrderOf(c).to = ToKey(c) /\ OrderOf(c).qty = c.qty
      BY <2>1 DEF OrderOf
    <2>5. FromKey(c) \in SeenBy(r) /\ ToKey(c) \in SeenBy(r)
      BY <1>13, <2>1 DEF SeenBy, InTransaction, HasLockedTo
    <2>6. \A k \in SeenBy(r) : Views[r][k] = QuantityOf(mem[r][k])
      BY LedgerShows DEF View, SeenBy
    <2>7. \A k \in Key : QuantityOf(mem[r][k]) \in Nat
      BY <1>1, QuantityTyped
    <2>8. Phases[r] = "open"
      BY <1>13, LedgerShows DEF PhaseOf, Ended
    <2>9. QED
      BY <2>1, <2>2, <2>3, <2>4, <2>5, <2>6, <2>7, <2>8, NoneAssumption
  <1>14. ASSUME NEW r \in Request, TransferRecordOut(r)
         PROVE  Ledger!Next
    <2> DEFINE f == FromKey(call[r])
               n == call[r].qty
    <2>1. /\ pc[r] = "moveOut" /\ pc'[r] = "moveIn"
          /\ audit' = [audit EXCEPT ![f] = @ + (-n)]
          /\ UNCHANGED <<rows, call, mem>>
          /\ \A x \in Request : x # r => pc'[x] = pc[x]
      BY <1>1, <1>14 DEF TransferRecordOut, TransferRecord
    <2>2. PhaseOf(pc[r]) = PhaseOf(pc'[r]) /\ SeenBy(r)' = SeenBy(r)
      BY <2>1 DEF PhaseOf, Ended, SeenBy, InTransaction, HasLockedTo
    <2>3. View(r)' = View(r)
      BY <2>1, <2>2 DEF View
    <2>4. Debt(r) = Ledger!NoDebt
      BY <2>1, NothingSeen
    <2>5. Debt(r)' = [Debts[r] EXCEPT ![f] = -(-n)]
      <3>1. /\ f \in Key /\ n \in Nat /\ -(-n) = n
            /\ Debts[r] = [k \in Key |-> 0]
        BY <1>13, <2>1, <2>4, LedgerShows DEF Ledger!NoDebt
      <3>2. Debt(r)' = [k \in Key |-> IF k = f THEN n ELSE 0]
        BY <2>1 DEF Debt, Owing
      <3> HIDE DEF f, n
      <3>3. QED
        BY <3>1, <3>2
    <2>6. /\ Ledger!Owes(r, [Debts[r] EXCEPT ![f] = -(-n)])
          /\ UNCHANGED <<Phases, Orders, Views, Quantities>>
      BY <2>1, <2>2, <2>3, <2>5, LedgerOfOne, LedgerStays DEF Quantities
    <2>7. Debts[r][f] = 0
      BY <1>13, <2>1, <2>4, LedgerShows DEF Ledger!NoDebt
    <2>8. Ledger!EnterMove(r, Orders[r].from, -Orders[r].qty)
      BY <1>13, <2>1, <2>6, <2>7 DEF Ledger!EnterMove
    <2>9. QED
      BY <2>8 DEF Ledger!Next
  <1>15. ASSUME NEW r \in Request, TransferRecordIn(r)
         PROVE  Ledger!Next
    <2> DEFINE f == FromKey(call[r])
               t == ToKey(call[r])
               n == call[r].qty
    <2>1. /\ pc[r] = "moveIn" /\ pc'[r] = "commit"
          /\ audit' = [audit EXCEPT ![t] = @ + n]
          /\ UNCHANGED <<rows, call, mem>>
          /\ \A x \in Request : x # r => pc'[x] = pc[x]
      BY <1>1, <1>15 DEF TransferRecordIn, TransferRecord
    <2>2. PhaseOf(pc[r]) = PhaseOf(pc'[r]) /\ SeenBy(r)' = SeenBy(r)
      BY <2>1 DEF PhaseOf, Ended, SeenBy, InTransaction, HasLockedTo
    <2>3. View(r)' = View(r)
      BY <2>1, <2>2 DEF View
    <2>4. t \in Key /\ f # t /\ Debts[r] = [k \in Key |-> IF k = f THEN n ELSE 0]
      BY <1>13, <2>1, LedgerShows DEF Debt, Owing
    <2>5. Debt(r)' = [Debts[r] EXCEPT ![t] = -n]
      <3>1. Debt(r)' = [k \in Key |-> IF k = f THEN n ELSE IF k = t THEN -n ELSE 0]
        BY <2>1 DEF Debt, Owing
      <3> HIDE DEF f, t, n
      <3>2. QED
        BY <2>4, <3>1
    <2>6. /\ Ledger!Owes(r, [Debts[r] EXCEPT ![t] = -n])
          /\ UNCHANGED <<Phases, Orders, Views, Quantities>>
      BY <2>1, <2>2, <2>3, <2>5, LedgerOfOne, LedgerStays DEF Quantities
    <2>7. Debts[r][t] = 0
      BY <2>4
    <2>8. Ledger!EnterMove(r, Orders[r].to, Orders[r].qty)
      BY <1>13, <2>1, <2>6, <2>7 DEF Ledger!EnterMove
    <2>9. QED
      BY <2>8 DEF Ledger!Next
  <1>16. ASSUME NEW r \in Request, TransferCommit(r)
         PROVE  Ledger!Next
    <2> DEFINE c == call[r]
               f == FromKey(c)
               t == ToKey(c)
               n == c.qty
               out == TransferredOut(c, mem[r][f])
               in == TransferredIn(c, mem[r][t])
    <2>1. /\ pc[r] = "commit" /\ pc'[r] = "done"
          /\ rows' = [rows EXCEPT ![f] = out, ![t] = in]
          /\ UNCHANGED <<audit, call, mem>>
          /\ \A x \in Request : x # r => pc'[x] = pc[x]
      BY <1>1, <1>16 DEF TransferCommit
    <2>2. /\ f \in Key /\ t \in Key /\ f # t /\ n \in Nat \ {0}
          /\ Orders[r].kind = "move" /\ Orders[r].from = f /\ Orders[r].to = t
          /\ Orders[r].qty = n /\ Phases[r] = "open"
          /\ Views[r][f] = QuantityOf(mem[r][f]) /\ Views[r][f] # None
          /\ Views[r][t] = QuantityOf(mem[r][t]) /\ Views[r][t] # None
          /\ mem[r][f] \in Row /\ mem[r][f].quantity >= n
      BY <1>13, <2>1
    <2>3. c \in Call /\ mem[r][t] \in Row \cup {None} /\ QuantityOf(mem[r][f]) = mem[r][f].quantity
      BY <1>1, <1>2, <2>1, <2>2, NoneAssumption DEF InFlight, InTransaction, QuantityOf
    <2>4. /\ out \in Row /\ out.quantity = Views[r][f] - n
          /\ in \in Row /\ in.quantity = Views[r][t] + n
      BY <2>2, <2>3, TransferOutTyped, TransferInTyped
    <2>5. QuantityOf(out) = Views[r][f] - n /\ QuantityOf(in) = Views[r][t] + n
      BY <2>4, NoneAssumption DEF QuantityOf
    <2>6. Quantities' = [Quantities EXCEPT ![f] = Views[r][f] - n, ![t] = Views[r][t] + n]
      <3> HIDE DEF c, f, t, n, out, in
      <3>1. \A k \in Key : rows'[k] = IF k = t THEN in ELSE IF k = f THEN out ELSE rows[k]
        BY <1>1, <2>1, <2>2
      <3>2. \A k \in Key : QuantityOf(rows'[k]) =
                IF k = t THEN Views[r][t] + n ELSE IF k = f THEN Views[r][f] - n
                ELSE QuantityOf(rows[k])
        BY <2>5, <3>1
      <3>3. QED
        BY ONLY <2>2, <3>2 DEF Quantities
    <2>7. Debts[r] = [Ledger!NoDebt EXCEPT ![f] = n, ![t] = -n]
      <3>1. Debts[r] = [k \in Key |-> IF k = f THEN n ELSE IF k = t THEN -n ELSE 0]
        BY <2>1, LedgerShows DEF Debt, Owing
      <3> HIDE DEF c, f, t, n
      <3>2. QED
        BY <2>2, <3>1 DEF Ledger!NoDebt
    <2>8. /\ PhaseOf(pc'[r]) = "over" /\ View(r)' = Ledger!NoView
          /\ Debt(r)' = Ledger!NoDebt
      BY <2>1, NothingSeen DEF PhaseOf, Ended, InTransaction
    <2>9. /\ Ledger!Goto(r, "over") /\ Ledger!Sees(r, Ledger!NoView)
          /\ Ledger!Owes(r, Ledger!NoDebt) /\ UNCHANGED Orders
      BY <2>1, <2>8, LedgerOfOne
    <2>10. Views[r][f] >= n
      BY <2>2, <2>3
    <2> HIDE DEF c, f, t, n, out, in
    <2>11. Ledger!Move(r)
      BY <2>1, <2>2, <2>6, <2>7, <2>9, <2>10 DEF Ledger!Move
    <2>12. QED
      BY <1>3, <2>11
  <1>17. ASSUME NEW r \in Request, NEW k \in Key, LowStockCheckSave(r, k)
         PROVE  Ledger!Next
    <2> DEFINE left == [mem[r] EXCEPT ![k] = None]
               row == [mem[r][k] EXCEPT !.lowStockAlertSent = TRUE]
    <2>1. /\ pc[r] = "alert" /\ mem[r][k] # None /\ mem[r][k] \in Row
          /\ rows' = [rows EXCEPT ![k] = row]
          /\ mem' = [mem EXCEPT ![r] = left]
          /\ pc' = [pc EXCEPT ![r] = IF left = NoRows THEN "done" ELSE "alert"]
          /\ UNCHANGED <<audit, call>>
      BY <1>1, <1>17 DEF LowStockCheckSave
    <2>2. /\ mem'[r] = left /\ pc'[r] = (IF left = NoRows THEN "done" ELSE "alert")
          /\ \A x \in Request : x # r => pc'[x] = pc[x] /\ mem'[x] = mem[x]
      BY <1>1, <2>1
    <2>3. row \in Row /\ row.quantity = mem[r][k].quantity
      BY <2>1 DEF Row
    <2>4. SeenBy(r) = {j \in Key : mem[r][j] # None} /\ Phases[r] = "open"
      BY <2>1, LedgerShows DEF SeenBy, InTransaction, HasLockedTo, PhaseOf, Ended
    <2>5. \A j \in Key : Views[r][j] = IF mem[r][j] # None THEN QuantityOf(mem[r][j]) ELSE None
      BY <2>4, LedgerShows DEF View
    <2>6. \A j \in Key : QuantityOf(mem[r][j]) \in Nat /\ QuantityOf(mem[r][j]) # None
      BY <1>1, QuantityTyped, NoneAssumption
    <2>7. Views[r][k] = mem[r][k].quantity /\ Views[r][k] # None
      BY <2>1, <2>5, <2>6 DEF QuantityOf
    <2>8. Quantities' = [Quantities EXCEPT ![k] = Views[r][k]]
      BY <2>1, <2>3, <2>7, LedgerStores
    <2> DEFINE seen == [Views[r] EXCEPT ![k] = None]
    <2>9. /\ Views[r] \in [Key -> Nat \cup {None}]
          /\ \A j \in Key : seen[j] = IF left[j] # None THEN QuantityOf(left[j]) ELSE None
      <3>1. Views[r] = View(r)
        BY LedgerShows
      <3>2. Views[r] \in [Key -> Nat \cup {None}]
        BY <2>6, <3>1 DEF View
      <3>3. \A j \in Key : left[j] = IF j = k THEN None ELSE mem[r][j]
        BY <1>1
      <3>4. QED
        BY <2>5, <3>2, <3>3
    <2>10. left = NoRows <=> seen = Ledger!NoView
      <3>1. left \in [Key -> Row \cup {None}] /\ seen \in [Key -> Nat \cup {None}]
        BY <1>1, <2>9
      <3>2. \A j \in Key : left[j] = None <=> seen[j] = None
        <4>1. ASSUME NEW j \in Key PROVE left[j] = None <=> seen[j] = None
          <5>1. left[j] \in Row \cup {None}
            BY <3>1
          <5>2. QuantityOf(left[j]) # None
            BY <5>1, QuantityTyped, NoneAssumption
          <5> HIDE DEF left, seen
          <5>3. QED
            BY <2>9, <5>2
        <4>2. QED
          BY <4>1
      <3> HIDE DEF left, seen
      <3>3. QED
        BY <3>1, <3>2 DEF NoRows, Ledger!NoView
    <2>11. SeenBy(r)' = {j \in Key : left[j] # None}
      <3>1. CASE left = NoRows
        <4>1. pc'[r] = "done" /\ \A j \in Key : left[j] = None
          BY <2>2, <3>1 DEF NoRows
        <4> HIDE DEF left
        <4>2. QED
          BY <4>1 DEF SeenBy, InTransaction, HasLockedTo
      <3>2. CASE left # NoRows
        <4> HIDE DEF left
        <4>1. QED
          BY <2>2, <3>2 DEF SeenBy, InTransaction, HasLockedTo
      <3>3. QED
        BY <3>1, <3>2
    <2>12. View(r)' = seen
      <3>1. seen = [j \in Key |-> IF left[j] # None THEN QuantityOf(left[j]) ELSE None]
        BY <2>9
      <3> HIDE DEF left, seen
      <3>2. QED
        BY <2>2, <2>11, <3>1 DEF View
    <2>13. Debt(r) = Ledger!NoDebt /\ Debt(r)' = Ledger!NoDebt
      BY <2>1, <2>2, NothingSeen
    <2>14. PhaseOf(pc'[r]) = IF seen = Ledger!NoView THEN "over" ELSE "open"
      BY <2>2, <2>10 DEF PhaseOf, Ended
    <2>15. /\ Ledger!Goto(r, IF seen = Ledger!NoView THEN "over" ELSE "open")
           /\ Ledger!Sees(r, seen) /\ UNCHANGED <<Orders, Debts>>
      <3> HIDE DEF left, seen
      <3>1. QED
        BY <2>1, <2>2, <2>12, <2>13, <2>14, LedgerOfOne, LedgerStays
    <2>16. Orders[r].kind = "keep"
      <3>1. call[r].op = "lowStockCheck" /\ Orders[r] = OrderOf(call[r])
        BY <1>2, <2>1 DEF AlertState, InFlight
      <3>2. QED
        BY <3>1 DEF OrderOf
    <2>17. Ledger!Rewrite(r, k)
      BY <2>1, <2>4, <2>7, <2>8, <2>15, <2>16 DEF Ledger!Rewrite
    <2>18. QED
      BY <1>3, <2>17
  <1>18. CASE UNCHANGED vars
    <2>1. UNCHANGED <<rows, audit, pc, call, mem>>
      BY <1>18 DEF vars
    <2>2. QED
      BY <2>1 DEF Ledger!vars, Quantities, Phases, Orders, Views, Debts, View, SeenBy, Debt
  <1>19. QED
    BY <1>4, <1>5, <1>6, <1>7, <1>8, <1>9, <1>10, <1>11, <1>12, <1>14, <1>15, <1>16,
       <1>17, <1>18 DEF Next, Handle

(***************************************************************************)
(* For any branches, variants, calls and requests, the inventory table and *)
(* its movements are a StockLedger: no interleaving, abort or failure lets *)
(* a handler store a quantity it did not compute from one it had seen,     *)
(* record another change than it stored, store or record twice, or move    *)
(* stock on one side only.                                                 *)
(***************************************************************************)
THEOREM InventoryKeepsLedger == Spec => LedgerIsKept
  <1>1. Init => AlertState
    BY DEF Init, AlertState
  <1>2. Spec => [](HandlerInv /\ AlertState)
    BY <1>1, HandlerInvInit, HandlerInvStep, AlertStateStep, PTL DEF Spec
  <1>3. QED
    BY <1>2, LedgerInit, LedgerStep, PTL DEF Spec, LedgerIsKept, Ledger!Spec
=============================================================================

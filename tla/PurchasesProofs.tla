--------------------------- MODULE PurchasesProofs ---------------------------
(***************************************************************************)
(* Proofs about Purchases, for any purchases, decisions, variants, workers *)
(* and initial stock.  OrdersInv says what a request holds at each await;  *)
(* CostInv and DecisionInv are inductive relative to it.  IInv adds where  *)
(* the jobs are and whose lines the workers have, from which ExactInv      *)
(* keeps the books of what purchases add to the stock.                     *)
(***************************************************************************)
EXTENDS Purchases, SumLemmas

OrdersTyped ==
    /\ status \in [Create -> Status \cup {None}]
    /\ deleted \in SUBSET Create
    /\ costPrice \in [Variant -> Create \cup {None}]
    /\ rowLock \in [Variant -> Create \cup {None}]
    /\ updated \in [Create -> Nat]
    /\ pc \in [Request -> {"new"} \cup InFlight \cup Ended]
    /\ decision \in [Decide -> [op : Op, purchase : Create] \cup {None}]
    /\ stale \in SUBSET Decide

CreateState ==
    \A r \in Create :
        /\ pc[r] \notin Deciding
        /\ pc[r] \in {"new", "update"} => status[r] = None
        /\ pc[r] = "new" => updated[r] = 0
        /\ pc[r] = "update" => updated[r] <= Len(Items[r])

DecideState ==
    \A r \in Decide :
        /\ pc[r] # "update"
        /\ pc[r] \in Deciding =>
              /\ decision[r] \in [op : Op, purchase : Create]
              /\ status[decision[r].purchase] # None

OrdersInv == OrdersTyped /\ CreateState /\ DecideState

\* A create that has updated an item still has its variant's row locked.
UpdatedAreLocked ==
    \A r \in Create : pc[r] = "update" =>
        \A n \in 1 .. updated[r] : rowLock[Items[r][n].variant] = r

CostInv == UpdatedAreLocked /\ CostPricesOfOnePurchase

\* What a request found when it read the purchase still holds, unless the
\* purchase has changed since.
Fresh(r) ==
    LET p == decision[r].purchase
        op == decision[r].op
    IN  /\ pc[r] = "add" => op \in {"complete", "cancel"}
        /\ pc[r] = "save" \/ op = "cancel" => Allowed(op, status[p]) /\ p \notin deleted

DecisionInv == \A r \in Decide \ stale : pc[r] \in Deciding => Fresh(r)
-----------------------------------------------------------------------------
(* The items of a purchase are a sequence of variants of the branch.       *)
LEMMA ItemsTyped ==
    ASSUME NEW r \in Create
    PROVE  /\ Len(Items[r]) \in Nat
           /\ DOMAIN Items[r] = 1 .. Len(Items[r])
           /\ \A n \in 1 .. Len(Items[r]) : Items[r][n].variant \in Variant
  <1> DEFINE Item == [variant : Variant, quantity : Nat \ {0}]
             items == Items[r]
  <1>1. items \in Seq(Item)
    BY PurchasesAssumption
  <1>2. \A i \in Item : i.variant \in Variant
    OBVIOUS
  <1> HIDE DEF Item, items
  <1>3. Len(items) \in Nat /\ DOMAIN items = 1 .. Len(items)
        /\ \A n \in 1 .. Len(items) : items[n] \in Item
    BY <1>1
  <1>4. QED
    BY <1>2, <1>3 DEF items

(* Creates and decisions are different requests, and None is neither.      *)
LEMMA RequestKinds ==
    /\ Create \cap Decide = {}
    /\ Request = Create \cup Decide
    /\ None \notin Create
  BY PurchasesAssumption

(* Whatever is not a step of a create or a decision leaves orders alone.   *)
LEMMA OrderSteps ==
    ASSUME [Next]_vars
    PROVE  \/ \E r \in Create :
                  Begin(r) \/ UpdateCostPrice(r) \/ CommitPurchase(r)
           \/ \E r \in Decide : Load(r) \/ SaveStatus(r) \/ SoftRemove(r) \/ Add(r)
           \/ \E r \in Request : Fail(r)
           \/ UNCHANGED purchaseVars
  BY RequestKinds DEF Next, vars, CreateStep, DecideStep, CreateAborted
-----------------------------------------------------------------------------
(* 1. OrdersInv                                                            *)

(* Nothing has been read, written or locked yet.                           *)
LEMMA OrdersInvInit == Init => OrdersInv
  BY RequestKinds
     DEF Init, OrdersInv, OrdersTyped, CreateState, DecideState, InFlight, Ended, Deciding

(* Every step of a request leaves it with what its next await needs.       *)
LEMMA OrdersInvStep ==
    ASSUME OrdersInv, [Next]_vars
    PROVE  OrdersInv'
  <1> USE DEF OrdersInv, OrdersTyped, CreateState, DecideState, InFlight, Ended, Deciding
  <1>1. ASSUME NEW r \in Create, Begin(r)
        PROVE  OrdersInv'
    BY <1>1, RequestKinds, ItemsTyped DEF Begin, Goto, orders, costs
  <1>2. ASSUME NEW r \in Create, UpdateCostPrice(r)
        PROVE  OrdersInv'
    BY <1>2, RequestKinds, ItemsTyped DEF UpdateCostPrice, orders
  <1>3. ASSUME NEW r \in Create, CommitPurchase(r)
        PROVE  OrdersInv'
    BY <1>3, RequestKinds DEF CommitPurchase, Goto, Unlocked, Status
  <1>4. ASSUME NEW r \in Decide, Load(r)
        PROVE  OrdersInv'
    <2>1. PICK op \in Op, p \in Create, l \in {"save", "add", "rejected"} :
              /\ status[p] # None
              /\ decision' = [decision EXCEPT ![r] = [op |-> op, purchase |-> p]]
              /\ pc' = [pc EXCEPT ![r] = l]
      BY <1>4 DEF Load, Goto, FirstStep
    <2>2. UNCHANGED <<status, deleted, costPrice, rowLock, updated, stale>>
      BY <1>4 DEF Load, orders, costs
    <2>3. [op |-> op, purchase |-> p] \in [op : Op, purchase : Create]
      OBVIOUS
    <2>4. OrdersTyped'
      BY <2>1, <2>2, <2>3, RequestKinds
    <2>5. CreateState'
      BY <2>1, <2>2, RequestKinds
    <2>6. DecideState'
      BY <2>1, <2>2, <2>3, RequestKinds
    <2>7. QED
      BY <2>4, <2>5, <2>6
  <1>5. ASSUME NEW r \in Decide, SaveStatus(r)
        PROVE  OrdersInv'
    <2>1. /\ decision[r] \in [op : Op, purchase : Create]
          /\ decision[r].purchase \in Create
          /\ status[decision[r].purchase] # None
          /\ Others(r) \in SUBSET Decide
      BY <1>5 DEF SaveStatus, Others
    <2>2. PICK s \in Status \ {None}, l \in {"add", "done"} :
              /\ status' = [status EXCEPT ![decision[r].purchase] = s]
              /\ pc' = [pc EXCEPT ![r] = l]
      BY <1>5, PurchasesAssumption DEF SaveStatus, Goto, Status
    <2>3. /\ deleted' = deleted \ {decision[r].purchase}
          /\ stale' = stale \cup Others(r)
          /\ UNCHANGED <<costPrice, rowLock, updated, decision>>
      BY <1>5 DEF SaveStatus, costs
    <2> HIDE DEF Status
    <2>4. OrdersTyped'
      BY <2>1, <2>2, <2>3, RequestKinds
    <2>5. CreateState'
      BY <2>1, <2>2, <2>3, RequestKinds
    <2>6. DecideState'
      BY <2>1, <2>2, <2>3, RequestKinds
    <2>7. QED
      BY <2>4, <2>5, <2>6
  <1>6. ASSUME NEW r \in Decide, SoftRemove(r)
        PROVE  OrdersInv'
    BY <1>6, RequestKinds DEF SoftRemove, Goto, costs, Others
  <1>7. ASSUME NEW r \in Decide, Add(r)
        PROVE  OrdersInv'
    BY <1>7, RequestKinds DEF Add, Goto, orders, costs
  <1>8. ASSUME NEW r \in Request, Fail(r)
        PROVE  OrdersInv'
    BY <1>8, RequestKinds DEF Fail, Goto, orders, Unlocked
  <1>9. CASE UNCHANGED purchaseVars
    BY <1>9 DEF purchaseVars
  <1>10. QED
    BY <1>1, <1>2, <1>3, <1>4, <1>5, <1>6, <1>7, <1>8, <1>9, OrderSteps
-----------------------------------------------------------------------------
(* 2. CostInv                                                              *)

(* Nothing is updated and no cost price is set.                            *)
LEMMA CostInvInit == Init => CostInv
  BY RequestKinds DEF Init, CostInv, UpdatedAreLocked, CostPricesOfOnePurchase

(* A purchase commits while it holds the rows of all its variants.         *)
LEMMA CostInvStep ==
    ASSUME OrdersInv, CostInv, [Next]_vars
    PROVE  CostInv'
  <1>1. OrdersTyped /\ CreateState /\ DecideState
    BY DEF OrdersInv
  <1>2. ASSUME UNCHANGED <<costPrice, rowLock, updated>>,
               \A q \in Create : pc'[q] = "update" => pc[q] = "update" \/ updated[q] = 0
        PROVE  CostInv'
    <2>1. UpdatedAreLocked'
      BY <1>2 DEF CostInv, UpdatedAreLocked
    <2>2. CostPricesOfOnePurchase'
      BY <1>2 DEF CostInv, CostPricesOfOnePurchase, VariantsOf
    <2>3. QED
      BY <2>1, <2>2 DEF CostInv
  <1>3. ASSUME NEW r \in Create, Begin(r)
        PROVE  CostInv'
    <2>1. /\ UNCHANGED <<costPrice, rowLock, updated>>
          /\ \A q \in Create : q # r => pc'[q] = pc[q]
          /\ pc[r] = "new"
      BY <1>1, <1>3, RequestKinds DEF Begin, Goto, costs, OrdersTyped
    <2>2. QED
      BY <1>1, <1>2, <2>1 DEF CreateState
  <1>4. ASSUME NEW r \in Create, UpdateCostPrice(r)
        PROVE  CostInv'
    <2> DEFINE n == updated[r] + 1
               v == Items[r][n].variant
    <2>1. /\ rowLock[v] = None
          /\ rowLock' = [rowLock EXCEPT ![v] = r]
          /\ updated' = [updated EXCEPT ![r] = n]
          /\ UNCHANGED <<costPrice, pc>>
          /\ updated[r] < Len(Items[r])
      BY <1>1, <1>4 DEF UpdateCostPrice, OrdersTyped
    <2>2. n \in 1 .. Len(Items[r]) /\ v \in Variant
      <3>1. Len(Items[r]) \in Nat /\ \A m \in 1 .. Len(Items[r]) : Items[r][m].variant \in Variant
        BY ItemsTyped
      <3>2. n \in 1 .. Len(Items[r])
        BY <1>1, <2>1, <3>1 DEF OrdersTyped
      <3>3. QED
        BY <3>1, <3>2
    <2>3. UpdatedAreLocked'
      <3> SUFFICES ASSUME NEW q \in Create, pc[q] = "update", NEW m \in 1 .. updated'[q]
                   PROVE  rowLock'[Items[q][m].variant] = q
        BY <2>1 DEF UpdatedAreLocked
      <3>1. CASE q = r /\ m = n
        BY <1>1, <2>1, <2>2, <3>1 DEF OrdersTyped
      <3>2. CASE ~(q = r /\ m = n)
        <4>1. m \in 1 .. updated[q]
          BY <1>1, <2>1, <2>2, <3>2 DEF OrdersTyped
        <4>2. rowLock[Items[q][m].variant] = q
          BY <4>1 DEF CostInv, UpdatedAreLocked
        <4>3. QED
          BY <1>1, <2>1, <4>2, RequestKinds DEF OrdersTyped
      <3>3. QED
        BY <3>1, <3>2
    <2>4. costPrice' = costPrice
      BY <2>1
    <2> HIDE DEF n, v
    <2>5. CostPricesOfOnePurchase'
      BY <2>4 DEF CostInv, CostPricesOfOnePurchase, VariantsOf
    <2>6. QED
      BY <2>3, <2>5 DEF CostInv
  <1>5. ASSUME NEW r \in Create, CommitPurchase(r)
        PROVE  CostInv'
    <2>1. /\ pc[r] = "update" /\ updated[r] = Len(Items[r])
          /\ costPrice' = [v \in Variant |-> IF rowLock[v] = r THEN r ELSE costPrice[v]]
          /\ rowLock' = Unlocked(r)
          /\ pc' = [pc EXCEPT ![r] = "done"]
          /\ UNCHANGED updated
      BY <1>5 DEF CommitPurchase, Goto
    <2>2. \A v \in Variant : rowLock[v] # r => v \notin VariantsOf(Items[r])
      BY <2>1, ItemsTyped DEF CostInv, UpdatedAreLocked, VariantsOf
    <2>3. CostPricesOfOnePurchase'
      <3> SUFFICES ASSUME NEW u \in Variant, NEW v \in Variant,
                          costPrice'[u] # None, costPrice'[v] # None,
                          costPrice'[u] # costPrice'[v]
                   PROVE  \E x \in {u, v}, p \in {costPrice'[u], costPrice'[v]} :
                              x \notin VariantsOf(Items[p])
        BY DEF CostPricesOfOnePurchase, VariantsOf
      <3>1. CASE rowLock[u] = r
        BY <2>1, <2>2, <3>1
      <3>2. CASE rowLock[v] = r
        BY <2>1, <2>2, <3>2
      <3>3. CASE rowLock[u] # r /\ rowLock[v] # r
        BY <2>1, <3>3 DEF CostInv, CostPricesOfOnePurchase
      <3>4. QED
        BY <3>1, <3>2, <3>3
    <2>4. UpdatedAreLocked'
      <3> SUFFICES ASSUME NEW q \in Create, pc'[q] = "update", NEW m \in 1 .. updated[q]
                   PROVE  rowLock'[Items[q][m].variant] = q
        BY <2>1 DEF UpdatedAreLocked
      <3>1. q # r /\ pc[q] = "update"
        BY <1>1, <2>1, RequestKinds DEF OrdersTyped
      <3>2. rowLock[Items[q][m].variant] = q
        BY <3>1 DEF CostInv, UpdatedAreLocked
      <3>3. Items[q][m].variant \in Variant
        BY <1>1, <3>1, ItemsTyped DEF OrdersTyped, CreateState
      <3>4. QED
        BY <2>1, <3>1, <3>2, <3>3 DEF Unlocked
    <2>5. QED
      BY <2>3, <2>4 DEF CostInv
  <1>6. ASSUME NEW r \in Decide, Load(r) \/ SaveStatus(r) \/ SoftRemove(r) \/ Add(r)
        PROVE  CostInv'
    <2>1. UNCHANGED <<costPrice, rowLock, updated>>
      BY <1>6 DEF Load, SaveStatus, SoftRemove, Add, costs
    <2>2. \A q \in Create : pc'[q] = pc[q]
      BY <1>1, <1>6, RequestKinds
         DEF Load, SaveStatus, SoftRemove, Add, Goto, OrdersTyped
    <2>3. QED
      BY <1>2, <2>1, <2>2
  <1>7. ASSUME NEW r \in Request, Fail(r)
        PROVE  CostInv'
    <2>1. /\ rowLock' = Unlocked(r)
          /\ pc' = [pc EXCEPT ![r] = "failed"]
          /\ UNCHANGED <<costPrice, updated>>
      BY <1>7 DEF Fail, Goto
    <2>2. UpdatedAreLocked'
      <3> SUFFICES ASSUME NEW q \in Create, pc'[q] = "update", NEW m \in 1 .. updated[q]
                   PROVE  rowLock'[Items[q][m].variant] = q
        BY <2>1 DEF UpdatedAreLocked
      <3>1. q # r /\ pc[q] = "update"
        BY <1>1, <2>1, RequestKinds DEF OrdersTyped
      <3>2. rowLock[Items[q][m].variant] = q
        BY <3>1 DEF CostInv, UpdatedAreLocked
      <3>3. Items[q][m].variant \in Variant
        BY <1>1, <3>1, ItemsTyped DEF OrdersTyped, CreateState
      <3>4. QED
        BY <2>1, <3>1, <3>2, <3>3 DEF Unlocked
    <2>3. CostPricesOfOnePurchase'
      BY <2>1 DEF CostInv, CostPricesOfOnePurchase, VariantsOf
    <2>4. QED
      BY <2>2, <2>3 DEF CostInv
  <1>8. CASE UNCHANGED purchaseVars
    BY <1>2, <1>8 DEF purchaseVars
  <1>9. QED
    BY <1>3, <1>4, <1>5, <1>6, <1>7, <1>8, OrderSteps

(***************************************************************************)
(* However creates interleave, deadlock and fail, the cost prices of two   *)
(* variants that two purchases both set come from the same purchase.       *)
(***************************************************************************)
THEOREM CostPricesNeverMix == Spec => []CostPricesOfOnePurchase
  <1>1. Spec => []OrdersInv
    BY OrdersInvInit, OrdersInvStep, PTL DEF Spec
  <1>2. Spec => []CostInv
    BY <1>1, CostInvInit, CostInvStep, PTL DEF Spec
  <1>3. CostInv => CostPricesOfOnePurchase
    BY DEF CostInv
  <1>4. QED
    BY <1>2, <1>3, PTL
-----------------------------------------------------------------------------
(* 3. DecisionInv                                                          *)

(* Nobody has read a purchase.                                             *)
LEMMA DecisionInvInit == Init => DecisionInv
  BY RequestKinds DEF Init, DecisionInv, Deciding

(* A step on a purchase marks as stale whoever else acts on it.            *)
LEMMA DecisionInvStep ==
    ASSUME OrdersInv, DecisionInv, [Next]_vars
    PROVE  DecisionInv'
  <1>1. OrdersTyped /\ CreateState /\ DecideState
    BY DEF OrdersInv
  <1> DEFINE P(q) == decision[q].purchase
  <1>2. ASSUME NEW q \in Decide \ stale, pc[q] \in Deciding,
               pc'[q] = pc[q], decision'[q] = decision[q],
               status'[P(q)] = status[P(q)], P(q) \in deleted' => P(q) \in deleted
        PROVE  Fresh(q)'
    BY <1>2 DEF DecisionInv, Fresh, Allowed
  <1>3. ASSUME NEW r \in Create, Begin(r) \/ UpdateCostPrice(r)
        PROVE  DecisionInv'
    <2>1. UNCHANGED <<status, deleted, decision, stale>>
          /\ \A q \in Decide : pc'[q] = pc[q]
      BY <1>1, <1>3, RequestKinds, ZenonT(30) DEF Begin, UpdateCostPrice, Goto, orders, OrdersTyped
    <2>2. QED
      BY <1>2, <2>1 DEF DecisionInv
  <1>4. ASSUME NEW r \in Create, CommitPurchase(r)
        PROVE  DecisionInv'
    <2>1. /\ UNCHANGED <<deleted, decision, stale>>
          /\ \A q \in Decide : pc'[q] = pc[q]
          /\ status' = [status EXCEPT ![r] = "pending"]
          /\ status[r] = None
      BY <1>1, <1>4, RequestKinds
         DEF CommitPurchase, Goto, orders, OrdersTyped, CreateState
    <2>2. \A q \in Decide : pc[q] \in Deciding => status'[P(q)] = status[P(q)]
      BY <1>1, <2>1 DEF DecideState, OrdersTyped
    <2>3. QED
      BY <1>2, <2>1, <2>2 DEF DecisionInv
  <1>5. ASSUME NEW r \in Decide, Load(r)
        PROVE  DecisionInv'
    <2>1. PICK op \in Op, p \in Create, access \in BOOLEAN :
              /\ p \notin deleted
              /\ decision' = [decision EXCEPT ![r] = [op |-> op, purchase |-> p]]
              /\ pc' = [pc EXCEPT ![r] = IF access /\ Allowed(op, status[p])
                                         THEN FirstStep(op) ELSE "rejected"]
      BY <1>5 DEF Load, Goto
    <2>2. UNCHANGED <<status, deleted, stale>>
      BY <1>5 DEF Load, orders
    <2>3. ASSUME pc'[r] \in Deciding
          PROVE  Fresh(r)'
      <3>1. decision'[r] = [op |-> op, purchase |-> p] /\ Allowed(op, status[p])
            /\ pc'[r] = FirstStep(op)
        BY <1>1, <2>1, <2>3, RequestKinds DEF OrdersTyped, Deciding
      <3>2. decision'[r].op = op /\ decision'[r].purchase = p
        BY <3>1
      <3>3. Allowed(op, status'[p]) /\ p \notin deleted'
        BY <2>1, <2>2, <3>1 DEF Allowed
      <3>4. pc'[r] = "add" => op \in {"complete", "cancel"}
        BY <3>1 DEF FirstStep
      <3>5. QED
        BY <3>2, <3>3, <3>4 DEF Fresh, Allowed
    <2>4. \A q \in Decide : q # r => pc'[q] = pc[q] /\ decision'[q] = decision[q]
      BY <1>1, <2>1, RequestKinds DEF OrdersTyped
    <2>5. QED
      BY <1>2, <2>2, <2>3, <2>4 DEF DecisionInv
  <1>6. ASSUME NEW r \in Decide, SaveStatus(r) \/ SoftRemove(r)
        PROVE  DecisionInv'
    <2>1. /\ pc[r] = "save" /\ stale' = stale \cup Others(r) /\ UNCHANGED decision
          /\ \A p \in Create : p # P(r) =>
                status'[p] = status[p] /\ (p \in deleted' => p \in deleted)
      BY <1>1, <1>6 DEF SaveStatus, SoftRemove, OrdersTyped
    <2>2. \A q \in Decide : q # r => pc'[q] = pc[q]
      BY <1>1, <1>6, RequestKinds DEF SaveStatus, SoftRemove, Goto, OrdersTyped
    <2>3. ASSUME NEW q \in Decide \ stale', q # r, pc'[q] \in Deciding
          PROVE  Fresh(q)'
      <3>1. pc[q] \in Deciding /\ q \notin stale /\ P(q) # P(r)
        BY <2>1, <2>2, <2>3 DEF Others
      <3>2. P(q) \in Create
        BY <1>1, <3>1 DEF DecideState
      <3>3. QED
        BY <1>2, <2>1, <2>2, <2>3, <3>1, <3>2
    <2>4. pc'[r] \in Deciding => pc'[r] = "add" /\ decision[r].op = "complete"
      BY <1>1, <1>6, RequestKinds DEF SaveStatus, SoftRemove, Goto, OrdersTyped, Deciding
    <2>5. pc'[r] \in Deciding => Fresh(r)'
      BY <2>1, <2>4 DEF Fresh
    <2>6. QED
      BY <2>3, <2>5 DEF DecisionInv
  <1>7. ASSUME NEW r \in Decide, Add(r)
        PROVE  DecisionInv'
    <2>1. /\ pc[r] = "add" /\ UNCHANGED <<status, deleted, decision, stale>>
          /\ pc'[r] = IF decision[r].op = "complete" THEN "done" ELSE "save"
          /\ \A q \in Decide : q # r => pc'[q] = pc[q]
      BY <1>1, <1>7, RequestKinds DEF Add, Goto, orders, OrdersTyped
    <2>2. r \notin stale /\ pc'[r] \in Deciding => Fresh(r)'
      BY <2>1 DEF DecisionInv, Fresh, Deciding, Allowed
    <2>3. QED
      BY <1>2, <2>1, <2>2 DEF DecisionInv
  <1>8. ASSUME NEW r \in Request, Fail(r)
        PROVE  DecisionInv'
    <2>1. /\ UNCHANGED <<status, deleted, decision, stale>>
          /\ \A q \in Decide : pc'[q] \in {pc[q], "failed"}
      BY <1>1, <1>8, RequestKinds DEF Fail, Goto, orders, OrdersTyped
    <2>2. QED
      BY <1>2, <2>1 DEF DecisionInv, Deciding
  <1>9. CASE UNCHANGED purchaseVars
    BY <1>2, <1>9 DEF purchaseVars, DecisionInv
  <1>10. QED
    BY <1>3, <1>4, <1>5, <1>6, <1>7, <1>8, <1>9, OrderSteps

(* Who reverses a decision has read the purchase before it was made.       *)
LEMMA ReversalsAreStale ==
    ASSUME OrdersInv, DecisionInv, [Next]_vars
    PROVE  FinalUnlessRaced
  <1>1. OrdersTyped /\ CreateState /\ DecideState
    BY DEF OrdersInv
  <1>2. ASSUME NEW r \in Create, CommitPurchase(r)
        PROVE  FinalUnlessRaced
    <2>1. /\ status' = [status EXCEPT ![r] = "pending"] /\ UNCHANGED deleted
          /\ status[r] = None
      BY <1>1, <1>2 DEF CommitPurchase, CreateState
    <2>2. QED
      BY <1>1, <2>1, PurchasesAssumption DEF FinalUnlessRaced, OrdersTyped, Status
  <1>3. ASSUME NEW r \in Decide, SaveStatus(r) \/ SoftRemove(r)
        PROVE  FinalUnlessRaced
    <2> DEFINE d == decision[r].purchase
    <2>1. /\ pc[r] = "save" /\ pc[r] \in Deciding
          /\ \A p \in Create : p # d =>
                status'[p] = status[p] /\ (p \in deleted' <=> p \in deleted)
          /\ SoftRemove(r) => deleted \subseteq deleted' /\ UNCHANGED status
                              /\ decision[r].op = "remove"
          /\ SaveStatus(r) => deleted' \subseteq deleted /\ decision[r].op # "remove"
      BY <1>1, <1>3 DEF SaveStatus, SoftRemove, OrdersTyped, Deciding
    <2>2. d \in Create /\ decision[r].op \in Op
      BY <1>1, <2>1 DEF DecideState
    <2>3. r \notin stale => Allowed(decision[r].op, status[d]) /\ d \notin deleted
      BY <2>1 DEF DecisionInv, Fresh
    <2>4. r \notin stale =>
              /\ ~(status[d] \in {"completed", "cancelled"} /\ status'[d] # status[d])
              /\ ~(status[d] = "completed" /\ d \in deleted' \ deleted)
              /\ d \notin deleted
      BY <1>3, <2>1, <2>2, <2>3 DEF Allowed, Op
    <2>5. QED
      BY <2>1, <2>4 DEF FinalUnlessRaced
  <1>4. ASSUME UNCHANGED orders
        PROVE  FinalUnlessRaced
    BY <1>4 DEF FinalUnlessRaced, orders
  <1>5. QED
    BY <1>2, <1>3, <1>4, OrderSteps
       DEF Begin, UpdateCostPrice, Load, Add, Fail, purchaseVars, orders

(***************************************************************************)
(* A completed or cancelled purchase only changes, a completed one is only *)
(* removed, and a removed one only comes back, by a request that overlaps  *)
(* with the one that decided.                                              *)
(***************************************************************************)
THEOREM DecisionsAreFinal == Spec => DecisionsFinalUnlessRaced
  <1>1. Spec => []OrdersInv
    BY OrdersInvInit, OrdersInvStep, PTL DEF Spec
  <1>2. Spec => []DecisionInv
    BY <1>1, DecisionInvInit, DecisionInvStep, PTL DEF Spec
  <1>3. OrdersInv /\ DecisionInv /\ [Next]_vars => [FinalUnlessRaced]_vars
    BY ReversalsAreStale
  <1>4. QED
    BY <1>1, <1>2, <1>3, PTL DEF Spec, DecisionsFinalUnlessRaced
-----------------------------------------------------------------------------
(* 4. Jobs and lines                                                       *)

\* Requests that have added their job, or may have before they failed.
Adders == Deciders("complete", {"done"}) \cup Deciders("cancel", {"save", "done", "failed"})

\* A request adds one job, which is in one place only and may still be run.
JobsInv ==
    /\ OnceEach(queue, active, None)
    /\ \A j \in Held(queue, active, None) : j.id \in Adders /\ stalls[j.id] <= MaxStalled
    /\ \A r \in Decide \ Adders : stalls[r] = 0

\* The lines a worker still has to process are some of its job's.
TodoInv ==
    \A w \in Worker : active[w] # None => VariantsOf(todo[w]) \subseteq VariantsOf(active[w].lines)

PathInv ==
    /\ \A r \in Decide : pc[r] = "add" => decision[r].op \in {"complete", "cancel"}
    /\ \A r \in Create : updated[r] <= Len(Items[r])

IInv == OrdersInv /\ PathInv /\ StockJobsTypeOK /\ JobsInv /\ TodoInv

(* Agents are finitely many, and None is nothing else.                     *)
LEMMA Kinds ==
    /\ Worker \subseteq Agent /\ IsFiniteSet(Agent) /\ IsFiniteSet(Decide)
    /\ None \notin Nat /\ None \notin Job /\ Decide \subseteq Request
  <1>1. IsFiniteSet(Agent) /\ Decide \subseteq Agent /\ Worker \subseteq Agent
    BY StockJobsAssumption, RequestKinds DEF Agent
  <1>2. IsFiniteSet(Decide)
    BY <1>1, FS_Subset
  <1>3. QED
    BY <1>1, <1>2, StockJobsAssumption, RequestKinds

(* What a decision can do in a step.                                       *)
LEMMA DecisionMoves ==
    ASSUME OrdersInv, PathInv, [Next]_vars, NEW r \in Decide
    PROVE  \/ UNCHANGED <<pc[r], decision[r]>>
           \/ /\ pc[r] = "new"
              /\ \/ pc'[r] = "rejected"
                 \/ pc'[r] = "save" /\ decision'[r].op # "cancel"
                 \/ pc'[r] = "add" /\ decision'[r].op = "cancel"
           \/ /\ pc[r] = "save" /\ decision'[r] = decision[r]
              /\ \/ pc'[r] = "add" /\ decision[r].op = "complete"
                 \/ pc'[r] = "done" /\ decision[r].op # "complete"
                 \/ pc'[r] = "failed"
           \/ /\ pc[r] = "add" /\ decision'[r] = decision[r]
              /\ pc'[r] = "failed" \/ Add(r)
  <1> DEFINE Goal ==
           \/ UNCHANGED <<pc[r], decision[r]>>
           \/ /\ pc[r] = "new"
              /\ \/ pc'[r] = "rejected"
                 \/ pc'[r] = "save" /\ decision'[r].op # "cancel"
                 \/ pc'[r] = "add" /\ decision'[r].op = "cancel"
           \/ /\ pc[r] = "save" /\ decision'[r] = decision[r]
              /\ \/ pc'[r] = "add" /\ decision[r].op = "complete"
                 \/ pc'[r] = "done" /\ decision[r].op # "complete"
                 \/ pc'[r] = "failed"
           \/ /\ pc[r] = "add" /\ decision'[r] = decision[r]
              /\ pc'[r] = "failed" \/ Add(r)
  <1>1. /\ r \in Request /\ r \notin Create /\ DOMAIN pc = Request /\ DOMAIN decision = Decide
        /\ pc[r] # "update"
    BY RequestKinds DEF OrdersInv, OrdersTyped, DecideState
  <1>2. ASSUME NEW q \in Create, Begin(q) \/ UpdateCostPrice(q) \/ CommitPurchase(q)
        PROVE  Goal
    <2>1. decision' = decision /\ pc'[r] = pc[r]
      BY <1>1, <1>2 DEF Begin, UpdateCostPrice, CommitPurchase, Goto
    <2>2. QED
      BY <2>1
  <1>3. ASSUME NEW q \in Decide, Load(q) PROVE Goal
    <2>1. PICK op \in Op, p \in Create, l \in {"save", "add", "rejected"} :
              /\ decision' = [decision EXCEPT ![q] = [op |-> op, purchase |-> p]]
              /\ pc' = [pc EXCEPT ![q] = l] /\ pc[q] = "new"
              /\ l = "add" => op = "cancel"
              /\ l = "save" => op # "cancel"
      BY <1>3 DEF Load, Goto, FirstStep
    <2>2. CASE q = r
      <3>1. decision'[r] = [op |-> op, purchase |-> p] /\ pc'[r] = l
        BY <1>1, <2>1, <2>2
      <3>2. decision'[r].op = op
        BY <3>1
      <3>3. QED
        BY <2>1, <2>2, <3>1, <3>2
    <2>3. CASE q # r
      BY <1>1, <2>1, <2>3
    <2>4. QED
      BY <2>2, <2>3
  <1>4. ASSUME NEW q \in Decide, SaveStatus(q) \/ SoftRemove(q) PROVE Goal
    <2>1. /\ decision' = decision /\ pc[q] = "save"
          /\ \/ pc' = [pc EXCEPT ![q] = "add"] /\ decision[q].op = "complete"
             \/ pc' = [pc EXCEPT ![q] = "done"] /\ decision[q].op # "complete"
      BY <1>4 DEF SaveStatus, SoftRemove, Goto
    <2>2. QED
      BY <1>1, <2>1
  <1>5. ASSUME NEW q \in Decide, Add(q) PROVE Goal
    <2>1. decision' = decision /\ pc[q] = "add" /\ \E l : pc' = [pc EXCEPT ![q] = l]
      BY <1>5 DEF Add, Goto
    <2>2. QED
      BY <1>1, <1>5, <2>1
  <1>6. ASSUME NEW q \in Request, Fail(q) PROVE Goal
    <2>1. decision' = decision /\ pc[q] \in InFlight /\ pc' = [pc EXCEPT ![q] = "failed"]
      BY <1>6 DEF Fail, Goto
    <2>2. QED
      BY <1>1, <2>1 DEF InFlight, Deciding
  <1>7. ASSUME UNCHANGED purchaseVars PROVE Goal
    BY <1>7 DEF purchaseVars
  <1>8. Goal
    BY <1>2, <1>3, <1>4, <1>5, <1>6, <1>7, OrderSteps
  <1>9. QED
    BY <1>8

(* Only completions and cancellations come to add a job; no create updates *)
(* more items than it has.                                                 *)
LEMMA PathInvStep ==
    ASSUME OrdersInv, PathInv, [Next]_vars
    PROVE  PathInv'
  <1>1. ASSUME NEW r \in Decide, pc'[r] = "add"
        PROVE  decision'[r].op \in {"complete", "cancel"}
    <2>1. Add(r) => pc'[r] # "add"
      BY RequestKinds DEF Add, Goto, OrdersInv, OrdersTyped
    <2>2. QED
      BY <1>1, <2>1, DecisionMoves DEF PathInv
  <1>2. ASSUME NEW r \in Create PROVE updated'[r] <= Len(Items[r])
    <2>1. \/ updated' = updated
          \/ \E q \in Create : updated[q] < Len(Items[q]) /\ updated' = [updated EXCEPT ![q] = @ + 1]
      BY OrderSteps DEF Begin, UpdateCostPrice, CommitPurchase, Load, SaveStatus, SoftRemove,
                        Add, Fail, purchaseVars, costs
    <2>2. updated \in [Create -> Nat] /\ Len(Items[r]) \in Nat
      BY ItemsTyped DEF OrdersInv, OrdersTyped
    <2>3. QED
      BY <2>1, <2>2 DEF PathInv
  <1>3. QED
    BY <1>1, <1>2 DEF PathInv

(* A request that has added its job remains one.                           *)
LEMMA AddersStay ==
    ASSUME OrdersInv, PathInv, [Next]_vars
    PROVE  /\ Adders \subseteq Adders'
           /\ \A r \in Decide : Add(r) => r \notin Adders /\ r \in Adders'
  <1>1. ASSUME NEW r \in Decide, Add(r) PROVE r \notin Adders /\ r \in Adders'
    <2>1. /\ pc[r] = "add" /\ decision' = decision
          /\ pc'[r] = IF decision[r].op = "complete" THEN "done" ELSE "save"
      BY <1>1, RequestKinds DEF Add, Goto, OrdersInv, OrdersTyped
    <2>2. /\ decision[r] \in [op : Op, purchase : Create] /\ decision[r] # None
          /\ decision[r].op \in {"complete", "cancel"}
      BY <2>1, PurchasesAssumption DEF OrdersInv, DecideState, Deciding, PathInv
    <2>3. QED
      BY <2>1, <2>2 DEF Adders, Deciders
  <1>2. ASSUME NEW r \in Adders PROVE r \in Adders'
    <2>1. r \in Decide /\ pc[r] # "new" /\ pc[r] # "add"
      BY DEF Adders, Deciders
    <2>2. QED
      BY <2>1, DecisionMoves DEF Adders, Deciders
  <1>3. QED
    BY <1>1, <1>2

(* Lines are worth what they change.                                       *)
Worth(v) == [l \in Line |-> IF l.variant = v THEN l.change ELSE 0]

(* The lines of a worker.                                                  *)
LEMMA LinesTyped ==
    ASSUME StockJobsTypeOK, NEW a \in Agent, todo[a] # <<>>
    PROVE  /\ Head(todo[a]) \in Line /\ Tail(todo[a]) \in Seq(Line)
           /\ Head(todo[a]).variant \in Variant /\ Head(todo[a]).change \in Int
           /\ VariantsOf(Tail(todo[a])) \subseteq VariantsOf(todo[a])
  <1>1. todo[a] \in Seq(Line)
    BY DEF StockJobsTypeOK
  <1>2. /\ Head(todo[a]) \in Line /\ Tail(todo[a]) \in Seq(Line)
        /\ Len(Tail(todo[a])) = Len(todo[a]) - 1
        /\ \A i \in 1 .. Len(Tail(todo[a])) : Tail(todo[a])[i] = todo[a][i + 1]
    BY <1>1, HeadTailProperties
  <1>3. /\ Len(todo[a]) \in Nat /\ DOMAIN todo[a] = 1 .. Len(todo[a])
        /\ DOMAIN Tail(todo[a]) = 1 .. Len(todo[a]) - 1
    BY <1>1, <1>2, LenProperties
  <1>4. \A n \in DOMAIN Tail(todo[a]) : n + 1 \in DOMAIN todo[a] /\ Tail(todo[a])[n] = todo[a][n + 1]
    BY <1>2, <1>3
  <1>5. QED
    BY <1>2, <1>4 DEF VariantsOf, Line

(* Jobs that wait or that a worker has.                                    *)
LEMMA HeldAreJobs ==
    ASSUME StockJobsTypeOK
    PROVE  /\ \A j \in Held(queue, active, None) : j \in Job /\ j.id \in Request /\ j.lines \in Seq(Line)
           /\ \A w \in Worker : active[w] # None => active[w] \in Held(queue, active, None)
  <1>1. \A n \in DOMAIN queue : queue[n] \in Job
    BY LenProperties, ElementOfSeq DEF StockJobsTypeOK
  <1>2. DOMAIN active = Worker /\ \A w \in DOMAIN active : active[w] \in Job \cup {None}
    BY DEF StockJobsTypeOK
  <1>3. QED
    BY <1>1, <1>2 DEF Held, Job

(* A job joins the queue at its end or at its head.                        *)
LEMMA QueueTypes ==
    ASSUME queue \in Seq(Job), NEW j \in Job
    PROVE  Append(queue, j) \in Seq(Job) /\ <<j>> \o queue \in Seq(Job)
  <1>1. <<j>> \in Seq(Job)
    OBVIOUS
  <1>2. QED
    BY <1>1, AppendProperties, ConcatProperties

(* A purchase's lines, in and out.                                         *)
LEMMA PurchasesAreLines ==
    ASSUME NEW p \in Create
    PROVE  /\ Receipt(p) \in Seq(Line) /\ Withdrawal(p) \in Seq(Line)
           /\ DOMAIN Receipt(p) = 1 .. Len(Items[p]) /\ DOMAIN Withdrawal(p) = 1 .. Len(Items[p])
           /\ \A n \in 1 .. Len(Items[p]) :
                 /\ Receipt(p)[n] \in Line /\ Withdrawal(p)[n] \in Line
                 /\ Receipt(p)[n].variant = Withdrawal(p)[n].variant
                 /\ Receipt(p)[n].change \in Nat
                 /\ Withdrawal(p)[n].change = -Receipt(p)[n].change
  <1> DEFINE Item == [variant : Variant, quantity : Nat \ {0}]
             items == Items[p]
             N == Len(items)
  <1>1. items \in Seq(Item)
    BY PurchasesAssumption
  <1>2. \A i \in Item : i.variant \in Variant /\ i.quantity \in Nat /\ -i.quantity \in Int
    OBVIOUS
  <1> HIDE DEF Item, items
  <1>3. N \in Nat /\ DOMAIN items = 1 .. N /\ \A n \in 1 .. N : items[n] \in Item
    BY <1>1, LenProperties, ElementOfSeq
  <1> HIDE DEF N
  <1>4. \A n \in 1 .. N : /\ items[n].variant \in Variant /\ items[n].quantity \in Nat
                          /\ -items[n].quantity \in Int
    BY <1>2, <1>3
  <1> DEFINE R == Receipt(p)
             W == Withdrawal(p)
  <1>5. /\ R = [n \in 1 .. N |-> [variant |-> items[n].variant, change |-> items[n].quantity]]
        /\ W = [n \in 1 .. N |-> [variant |-> items[n].variant, change |-> -items[n].quantity]]
    BY <1>3 DEF Receipt, Withdrawal, items
  <1>6. \A n \in 1 .. N :
            /\ [variant |-> items[n].variant, change |-> items[n].quantity] \in Line
            /\ [variant |-> items[n].variant, change |-> -items[n].quantity] \in Line
    BY <1>4 DEF Line
  <1> HIDE DEF R, W
  <1>7. R \in Seq(Line) /\ W \in Seq(Line) /\ DOMAIN R = 1 .. N /\ DOMAIN W = 1 .. N
    <2>1. R \in [1 .. N -> Line]
      BY <1>5, <1>6
    <2>2. W \in [1 .. N -> Line]
      BY <1>5, <1>6
    <2>3. \A f \in [1 .. N -> Line] : f \in Seq(Line) /\ DOMAIN f = 1 .. N
      BY <1>3
    <2>4. QED
      BY <2>1, <2>2, <2>3
  <1>8. \A n \in 1 .. N :
            /\ R[n] \in Line /\ W[n] \in Line /\ R[n].change \in Nat
            /\ R[n].variant = items[n].variant /\ W[n].variant = items[n].variant
            /\ R[n].change = items[n].quantity /\ W[n].change = -items[n].quantity
    BY <1>4, <1>5, <1>6
  <1>9. QED
    BY <1>3, <1>7, <1>8 DEF N, R, W, items

(* What they are worth.                                                    *)
LEMMA WorthOfPurchases ==
    ASSUME NEW p \in Create, NEW v \in Variant
    PROVE  /\ QuantityIn(p, v) \in Nat
           /\ Total(Worth(v), Receipt(p)) = QuantityIn(p, v)
           /\ Total(Worth(v), Withdrawal(p)) = -QuantityIn(p, v)
  <1> DEFINE N == Len(Items[p])
             R == Receipt(p)
             W == Withdrawal(p)
             r == [n \in 1 .. N |-> Worth(v)[R[n]]]
             w == [n \in 1 .. N |-> Worth(v)[W[n]]]
             z == [n \in 1 .. N |-> 0]
             q == [n \in 1 .. N |-> IF R[n].variant = v THEN R[n].change ELSE 0]
  <1>3. N \in Nat
    BY ItemsTyped
  <1>7. R \in Seq(Line) /\ W \in Seq(Line) /\ DOMAIN R = 1 .. N /\ DOMAIN W = 1 .. N
    BY PurchasesAreLines
  <1>8. \A n \in 1 .. N :
            /\ R[n] \in Line /\ W[n] \in Line /\ R[n].change \in Nat
            /\ R[n].variant = W[n].variant /\ W[n].change = -R[n].change
    BY PurchasesAreLines
  <1> HIDE DEF N, R, W
  <1>9. \A l \in Line : Worth(v)[l] = IF l.variant = v THEN l.change ELSE 0
    BY DEF Worth
  <1>10. \A n \in 1 .. N : r[n] = q[n] /\ q[n] \in Nat /\ w[n] = 0 - r[n] /\ z[n] = 0
    <2>1. ASSUME NEW n \in 1 .. N PROVE r[n] = q[n] /\ q[n] \in Nat /\ w[n] = 0 - r[n] /\ z[n] = 0
      <3>1. /\ r[n] = IF R[n].variant = v THEN R[n].change ELSE 0
            /\ w[n] = IF W[n].variant = v THEN W[n].change ELSE 0
        BY <1>8, <1>9
      <3>2. QED
        BY <1>8, <3>1
    <2>2. QED
      BY <2>1
  <1>11. Total(Worth(v), R) = SumFunction(r) /\ Total(Worth(v), W) = SumFunction(w)
    BY <1>7 DEF Total
  <1>12. QuantityIn(p, v) = SumFunction(q)
    BY <1>7 DEF QuantityIn, Change, R
  <1>13. r = q
    BY <1>10
  <1>14. q \in [1 .. N -> Nat] /\ q \in [1 .. N -> Int] /\ z \in [1 .. N -> Int]
         /\ DOMAIN w = 1 .. N /\ DOMAIN z = 1 .. N /\ DOMAIN q = 1 .. N
    BY <1>10
  <1> HIDE DEF r, w, z, q
  <1>15. IsFiniteSet(1 .. N)
    BY <1>3, FS_Interval
  <1>22. \A n \in 1 .. N : z[n] \in Int /\ q[n] \in Int /\ z[n] <= q[n] /\ w[n] = z[n] - q[n]
    BY <1>10
  <1>16. SumFunctionOnSet(z, 1 .. N) = 0
    BY <1>10, <1>15, SumOfZeroes
  <1>17. SumFunctionOnSet(z, 1 .. N) <= SumFunctionOnSet(q, 1 .. N)
    BY <1>15, <1>22, SumIsMonotone
  <1>18. SumFunctionOnSet(q, 1 .. N) \in Int
    BY <1>14, <1>15, SumIsInt
  <1>19. SumFunctionOnSet(w, 1 .. N) = SumFunctionOnSet(z, 1 .. N) - SumFunctionOnSet(q, 1 .. N)
    <2>1. PICK S : S = 1 .. N
      OBVIOUS
    <2>2. IsFiniteSet(S) /\ \A n \in S : z[n] \in Int /\ q[n] \in Int /\ w[n] = z[n] - q[n]
      BY <1>15, <1>22, <2>1, Zenon
    <2>3. SumFunctionOnSet(w, S) = SumFunctionOnSet(z, S) - SumFunctionOnSet(q, S)
      BY <2>2, SumSubtracts
    <2>4. QED
      BY <2>1, <2>3, Zenon
  <1>20. SumFunction(q) \in Nat /\ SumFunction(w) = -SumFunction(q)
    BY <1>14, <1>16, <1>17, <1>18, <1>19 DEF SumFunction
  <1>21. QED
    BY <1>11, <1>12, <1>13, <1>20 DEF R, W

(* Who changes jobs, lines and stock.                                      *)
LEMMA StockSteps ==
    ASSUME [Next]_vars
    PROVE  \/ UNCHANGED stockJobVars
           \/ \E r \in Decide : Add(r)
           \/ \E w \in Worker :
                 /\ UNCHANGED purchaseVars
                 /\ \/ AdjustLoad(w) \/ AdjustSave(w) \/ Take(w)
                    \/ SkipLine(w) \/ Finish(w) \/ Stalled(w)
  <1>1. CASE \E r \in Create : CreateStep(r)
    BY <1>1 DEF CreateStep, CreateAborted, Begin, UpdateCostPrice, CommitPurchase, Fail
  <1>2. CASE \E r \in Decide : Load(r) \/ DecideStep(r)
    BY <1>2 DEF DecideStep, Load, SaveStatus, SoftRemove
  <1>3. CASE \E r \in Request : Fail(r)
    BY <1>3 DEF Fail
  <1>4. CASE \E w \in Worker : (WorkerStep(w) \/ Stalled(w)) /\ UNCHANGED purchaseVars
    BY <1>4 DEF WorkerStep
  <1>5. CASE UNCHANGED vars
    BY <1>5 DEF vars
  <1>6. QED
    BY <1>1, <1>2, <1>3, <1>4, <1>5 DEF Next

(* Nothing is added, processed or stalled to begin with.                   *)
LEMMA IInvInit == Init => IInv
  <1> SUFFICES ASSUME Init PROVE IInv
    OBVIOUS
  <1>1. /\ stock = Stock0 /\ queue = <<>> /\ active = [w \in Worker |-> None]
        /\ todo = [a \in Agent |-> <<>>] /\ loaded = {} /\ seen = [a \in Agent |-> None]
        /\ stalls = [r \in Request |-> 0] /\ inexact = {}
    BY DEF Init, StockJobsInit
  <1>2. StockJobsTypeOK
    <2>1. <<>> \in Seq(Job) /\ <<>> \in Seq(Line) /\ 0 \in 0 .. MaxStalled + 1
      BY StockJobsAssumption
    <2>2. /\ todo \in [Agent -> Seq(Line)] /\ stalls \in [Request -> 0 .. MaxStalled + 1]
          /\ active \in [Worker -> Job \cup {None}] /\ seen \in [Agent -> Nat \cup {None}]
      BY <1>1, <2>1
    <2>3. QED
      BY <1>1, <2>1, <2>2, StockJobsAssumption DEF StockJobsTypeOK
  <1>3. PathInv
    <2>1. \A r \in Create : updated[r] = 0 /\ Len(Items[r]) \in Nat
      BY ItemsTyped DEF Init
    <2>2. \A r \in Decide : pc[r] = "new"
      BY Kinds DEF Init
    <2>3. QED
      BY <2>1, <2>2 DEF PathInv
  <1>4. JobsInv /\ TodoInv
    <2>1. DOMAIN queue = {}
      BY <1>1
    <2>2. Held(queue, active, None) = {} /\ OnceEach(queue, active, None)
      BY <1>1, <2>1 DEF Held, OnceEach
    <2>3. \A r \in Decide : stalls[r] = 0
      BY <1>1, Kinds
    <2>4. QED
      BY <1>1, <2>2, <2>3 DEF JobsInv, TodoInv
  <1>5. QED
    BY <1>2, <1>3, <1>4, OrdersInvInit DEF IInv

(* What a worker's step leaves behind.                                     *)
LEMMA WorkerTypes ==
    ASSUME StockJobsTypeOK, JobsInv, NEW w \in Worker,
           \/ AdjustLoad(w) \/ AdjustSave(w) \/ Take(w)
           \/ SkipLine(w) \/ Finish(w) \/ Stalled(w)
    PROVE  StockJobsTypeOK'
  <1>1. w \in Agent /\ None \notin Job /\ (todo[w] = <<>> => w \notin loaded)
    BY Kinds DEF StockJobsTypeOK
  <1>2. todo[w] # <<>> => /\ Head(todo[w]).variant \in Variant /\ Head(todo[w]).change \in Int
                          /\ Tail(todo[w]) \in Seq(Line)
    BY <1>1, LinesTyped
  <1>3. CASE AdjustLoad(w)
    BY <1>1, <1>2, <1>3 DEF AdjustLoad, StockJobsTypeOK
  <1>4. CASE AdjustSave(w)
    <2> DEFINE after == QuantityOf(seen[w]) + Head(todo[w]).change
               new == IF after > 0 THEN after ELSE 0
    <2>1. new \in Nat /\ todo[w] # <<>>
      BY <1>1, <1>2, <1>4 DEF AdjustSave, StockJobsTypeOK, QuantityOf
    <2> HIDE DEF new
    <2>2. /\ stock' = [stock EXCEPT ![Head(todo[w]).variant] = new]
          /\ todo' = [todo EXCEPT ![w] = Tail(@)]
          /\ loaded' = loaded \ {w}
          /\ seen' = [seen EXCEPT ![w] = None]
          /\ inexact' \subseteq inexact \cup {Head(todo[w]).variant}
          /\ UNCHANGED <<queue, active, stalls>>
      BY <1>4 DEF AdjustSave, new
    <2>3. QED
      BY <1>1, <1>2, <2>1, <2>2 DEF StockJobsTypeOK
  <1>5. CASE Take(w)
    <2>1. Head(queue) \in Job /\ Tail(queue) \in Seq(Job)
      BY <1>5, HeadTailProperties DEF Take, StockJobsTypeOK
    <2>2. Head(queue).lines \in Seq(Line)
      BY <2>1 DEF Job
    <2>3. QED
      BY <1>1, <1>5, <2>1, <2>2 DEF Take, StockJobsTypeOK
  <1>6. CASE SkipLine(w)
    BY <1>1, <1>2, <1>6 DEF SkipLine, StockJobsTypeOK
  <1>7. CASE Finish(w)
    BY <1>7 DEF Finish, StockJobsTypeOK
  <1>8. CASE Stalled(w)
    <2>1. active[w] # None /\ active[w] \in Held(queue, active, None)
      BY <1>8, HeldAreJobs DEF Stalled
    <2>2. PICK job \in Job : job = active[w]
      BY <2>1, HeldAreJobs
    <2>3. job.id \in Request /\ job.lines \in Seq(Line) /\ stalls[job.id] <= MaxStalled
      BY <2>1, <2>2, HeldAreJobs DEF JobsInv
    <2>4. VariantsOf(job.lines) \subseteq Variant
      <3>1. \A n \in DOMAIN job.lines : job.lines[n] \in Line
        BY <2>3, LenProperties, ElementOfSeq
      <3>2. QED
        BY <3>1 DEF VariantsOf, Line
    <2>5. <<job>> \o queue \in Seq(Job)
      BY QueueTypes DEF StockJobsTypeOK
    <2>6. stalls[job.id] + 1 \in 0 .. MaxStalled + 1 /\ <<>> \in Seq(Line)
      BY <2>3, StockJobsAssumption DEF StockJobsTypeOK
    <2>7. /\ active' = [active EXCEPT ![w] = None]
          /\ queue' \in {queue, <<job>> \o queue}
          /\ stalls' = [stalls EXCEPT ![job.id] = stalls[job.id] + 1]
          /\ inexact' = inexact \cup VariantsOf(job.lines)
          /\ stock' = stock
      BY <1>8, <2>2 DEF Stalled
    <2>8. \/ UNCHANGED <<todo, loaded, seen>>
          \/ /\ todo' = [todo EXCEPT ![w] = <<>>] /\ loaded' = loaded \ {w}
             /\ seen' = [seen EXCEPT ![w] = None]
      BY <1>8 DEF Stalled, Abandon
    <2>9. /\ stock' \in [Variant -> Nat \cup {None}] /\ queue' \in Seq(Job)
          /\ active' \in [Worker -> Job \cup {None}]
          /\ stalls' \in [Request -> 0 .. MaxStalled + 1] /\ inexact' \in SUBSET Variant
      BY <2>3, <2>4, <2>5, <2>6, <2>7 DEF StockJobsTypeOK
    <2>10. /\ todo' \in [Agent -> Seq(Line)] /\ loaded' \in SUBSET Agent
           /\ seen' \in [Agent -> Nat \cup {None}]
           /\ \A a \in loaded' : todo'[a] # <<>>
      BY <1>1, <2>6, <2>8, ZenonT(30) DEF StockJobsTypeOK
    <2>11. QED
      BY <2>9, <2>10 DEF StockJobsTypeOK
  <1>9. QED
    BY <1>3, <1>4, <1>5, <1>6, <1>7, <1>8

(* Jobs, lines and counts of stalls are what they are declared to be.      *)
LEMMA StockJobsStep ==
    ASSUME IInv, [Next]_vars
    PROVE  StockJobsTypeOK'
  <1>1. StockJobsTypeOK /\ JobsInv
    BY DEF IInv
  <1>2. CASE UNCHANGED stockJobVars
    BY <1>1, <1>2 DEF stockJobVars, StockJobsTypeOK
  <1>3. ASSUME NEW r \in Decide, Add(r) PROVE StockJobsTypeOK'
    <2>1. pc[r] = "add" /\ r \in Request
      BY <1>3, Kinds DEF Add
    <2>2. decision[r].purchase \in Create
      BY <2>1 DEF IInv, OrdersInv, DecideState, Deciding
    <2>3. \A lines \in Seq(Line) : [id |-> r, lines |-> lines] \in Job
      BY <2>1 DEF Job
    <2>4. PICK lines \in Seq(Line) : queue' = Append(queue, [id |-> r, lines |-> lines])
      BY <1>3, <2>2, PurchasesAreLines DEF Add, AddJob
    <2>5. queue' \in Seq(Job)
      BY <1>1, <2>3, <2>4, QueueTypes DEF StockJobsTypeOK
    <2>6. QED
      BY <1>1, <1>3, <2>5 DEF Add, StockJobsTypeOK
  <1>4. QED
    BY <1>1, <1>2, <1>3, StockSteps, WorkerTypes

(* Jobs that change hands or are gone.                                     *)
LEMMA JobsKept ==
    ASSUME JobsInv, Adders \subseteq Adders', stalls' = stalls,
           OnceEach(queue', active', None),
           Held(queue', active', None) \subseteq Held(queue, active, None)
    PROVE  JobsInv'
  BY DEF JobsInv

(* Only a request that adds its job, and only once, has one to run.        *)
LEMMA JobsInvStep ==
    ASSUME IInv, [Next]_vars
    PROVE  JobsInv'
  <1>1. StockJobsTypeOK /\ JobsInv /\ OrdersInv /\ PathInv
    BY DEF IInv
  <1>2. queue \in Seq(Job) /\ DOMAIN active = Worker /\ None \notin Job
    BY <1>1, Kinds DEF StockJobsTypeOK
  <1>3. OnceEach(queue, active, None)
    BY <1>1 DEF JobsInv
  <1>4. Adders \subseteq Adders' /\ \A r \in Decide : Add(r) => r \notin Adders /\ r \in Adders'
    BY <1>1, AddersStay
  <1>5. /\ \A j \in Held(queue, active, None) : j \in Job /\ j.id \in Request
        /\ \A w \in Worker : active[w] # None => active[w] \in Held(queue, active, None)
    BY <1>1, HeldAreJobs
  <1>6. ASSUME UNCHANGED <<queue, active, stalls>> PROVE JobsInv'
    BY <1>1, <1>4, <1>6 DEF JobsInv
  <1>7. ASSUME NEW r \in Decide, Add(r) PROVE JobsInv'
    <2>1. decision[r].purchase \in Create /\ r \in Request /\ r \notin Adders /\ r \in Adders'
      BY <1>1, <1>4, <1>7, Kinds DEF Add, OrdersInv, DecideState, Deciding
    <2>2. PICK lines \in Seq(Line) :
              /\ queue' = Append(queue, [id |-> r, lines |-> lines])
              /\ UNCHANGED <<active, stalls>>
      BY <1>7, <2>1, PurchasesAreLines DEF Add, AddJob
    <2>3. [id |-> r, lines |-> lines] \in Job
      BY <2>1 DEF Job
    <2>4. PICK j \in Job : j = [id |-> r, lines |-> lines] /\ j.id = r
      BY <2>3
    <2>5. \A i \in Held(queue, active, None) : i.id # j.id
      BY <1>1, <2>1, <2>4 DEF JobsInv
    <2>6. /\ OnceEach(Append(queue, j), active, None)
          /\ Held(Append(queue, j), active, None) \subseteq Held(queue, active, None) \cup {j}
      BY <1>2, <1>3, <2>5, HeldWhenAdded
    <2>7. /\ OnceEach(queue', active', None)
          /\ Held(queue', active', None) \subseteq Held(queue, active, None) \cup {j}
      BY <2>2, <2>4, <2>6, Zenon
    <2>8. stalls[r] = 0 /\ 0 <= MaxStalled
      BY <1>1, <2>1, StockJobsAssumption DEF JobsInv
    <2>9. QED
      BY <1>1, <1>4, <2>1, <2>2, <2>4, <2>7, <2>8 DEF JobsInv
  <1>8. ASSUME NEW w \in Worker, Take(w) PROVE JobsInv'
    <2>1. queue # <<>> /\ active[w] = None /\ active' = [active EXCEPT ![w] = Head(queue)]
          /\ queue' = Tail(queue) /\ stalls' = stalls
      BY <1>8 DEF Take
    <2>2. /\ OnceEach(Tail(queue), [active EXCEPT ![w] = Head(queue)], None)
          /\ Held(Tail(queue), [active EXCEPT ![w] = Head(queue)], None)
               \subseteq Held(queue, active, None)
      BY <1>2, <1>3, <2>1, HeldWhenTaken
    <2>3. /\ OnceEach(queue', active', None)
          /\ Held(queue', active', None) \subseteq Held(queue, active, None)
      BY <2>1, <2>2, Zenon
    <2>4. QED
      BY <1>1, <1>4, <2>1, <2>3, JobsKept
  <1>9. ASSUME NEW w \in Worker, active[w] # None
        PROVE  LET a == [active EXCEPT ![w] = None]
               IN  /\ OnceEach(queue, a, None)
                   /\ Held(queue, a, None) \subseteq Held(queue, active, None)
                   /\ \A j \in Held(queue, a, None) : j.id # active[w].id
    BY <1>2, <1>3, <1>9, HeldWhenDropped
  <1>10. ASSUME NEW w \in Worker, Finish(w) PROVE JobsInv'
    <2> DEFINE a == [active EXCEPT ![w] = None]
    <2>1. active[w] # None /\ active' = a /\ queue' = queue /\ stalls' = stalls
      BY <1>10 DEF Finish
    <2>2. OnceEach(queue, a, None) /\ Held(queue, a, None) \subseteq Held(queue, active, None)
      BY <1>9, <2>1
    <2> HIDE DEF a
    <2>3. /\ OnceEach(queue', active', None)
          /\ Held(queue', active', None) \subseteq Held(queue, active, None)
      BY <2>1, <2>2, Zenon
    <2>4. QED
      BY <1>1, <1>4, <2>1, <2>3, JobsKept
  <1>11. ASSUME NEW w \in Worker, Stalled(w) PROVE JobsInv'
    <2> DEFINE a == [active EXCEPT ![w] = None]
    <2>1. active[w] # None /\ active[w] \in Held(queue, active, None)
      BY <1>5, <1>11 DEF Stalled
    <2>2. PICK job \in Job : job = active[w]
      BY <1>5, <2>1
    <2>3. /\ active' = a
          /\ queue' = IF stalls[job.id] < MaxStalled THEN <<job>> \o queue ELSE queue
          /\ stalls' = [stalls EXCEPT ![job.id] = @ + 1]
      BY <1>11, <2>2 DEF Stalled
    <2>4. /\ OnceEach(queue, a, None) /\ Held(queue, a, None) \subseteq Held(queue, active, None)
          /\ \A j \in Held(queue, a, None) : j.id # job.id
      BY <1>9, <2>1, <2>2
    <2>5. job.id \in Request /\ job.id \in Adders /\ job.id \in Adders'
      BY <1>1, <1>4, <1>5, <2>1, <2>2 DEF JobsInv
    <2> HIDE DEF a
    <2>6. /\ stalls'[job.id] = stalls[job.id] + 1 /\ stalls[job.id] \in Nat
          /\ \A r \in Request \ {job.id} : stalls'[r] = stalls[r]
      BY <1>1, <2>3, <2>5 DEF StockJobsTypeOK
    <2>7. \A i \in Held(queue, a, None) : i.id \in Adders' /\ stalls'[i.id] <= MaxStalled
      <3>1. ASSUME NEW i \in Held(queue, a, None)
            PROVE  i.id \in Adders' /\ stalls'[i.id] <= MaxStalled
        <4>1. i \in Held(queue, active, None) /\ i.id # job.id
          BY <2>4
        <4>2. i.id \in Request /\ i.id \in Adders /\ stalls[i.id] <= MaxStalled
          BY <1>1, <1>5, <4>1 DEF JobsInv
        <4>3. stalls'[i.id] = stalls[i.id]
          BY <2>6, <4>1, <4>2
        <4>4. QED
          BY <1>4, <4>2, <4>3
      <3>2. QED
        BY <3>1
    <2>8. \A r \in Decide \ Adders' : stalls'[r] = 0
      BY <1>1, <1>4, <2>5, <2>6, Kinds DEF JobsInv
    <2>9. CASE ~(stalls[job.id] < MaxStalled)
      <3>1. queue' = queue
        BY <2>3, <2>9
      <3>2. OnceEach(queue', active', None) /\ Held(queue', active', None) = Held(queue, a, None)
        BY <2>3, <2>4, <3>1, Zenon
      <3>3. QED
        BY <2>7, <2>8, <3>2 DEF JobsInv
    <2>10. CASE stalls[job.id] < MaxStalled
      <3>1. /\ OnceEach(<<job>> \o queue, a, None)
            /\ Held(<<job>> \o queue, a, None) \subseteq Held(queue, a, None) \cup {job}
        BY <1>2, <2>4, HeldWhenAdded
      <3>2. queue' = <<job>> \o queue
        BY <2>3, <2>10
      <3>3. /\ OnceEach(queue', active', None)
            /\ Held(queue', active', None) \subseteq Held(queue, a, None) \cup {job}
        BY <2>3, <3>1, <3>2, Zenon
      <3>4. stalls'[job.id] <= MaxStalled
        BY <2>6, <2>10, StockJobsAssumption
      <3>5. QED
        BY <2>5, <2>7, <2>8, <3>3, <3>4 DEF JobsInv
    <2>11. QED
      BY <2>9, <2>10
  <1>12. ASSUME NEW w \in Worker, AdjustLoad(w) \/ AdjustSave(w) \/ SkipLine(w) PROVE JobsInv'
    BY <1>6, <1>12 DEF AdjustLoad, AdjustSave, SkipLine
  <1>13. CASE UNCHANGED stockJobVars
    BY <1>6, <1>13 DEF stockJobVars
  <1>14. QED
    BY <1>7, <1>8, <1>10, <1>11, <1>12, <1>13, StockSteps

(* Workers take whole jobs and get no other lines.                         *)
LEMMA TodoInvStep ==
    ASSUME IInv, [Next]_vars
    PROVE  TodoInv'
  <1>1. StockJobsTypeOK /\ TodoInv
    BY DEF IInv
  <1>2. /\ todo \in [Agent -> Seq(Line)] /\ DOMAIN active = Worker /\ VariantsOf(<<>>) = {}
        /\ \A w \in Worker : w \in Agent
    BY <1>1, Kinds DEF StockJobsTypeOK, VariantsOf
  <1>3. ASSUME \A w \in Worker : VariantsOf(todo'[w]) \subseteq VariantsOf(todo[w]),
               \A w \in Worker : active'[w] = None \/ active'[w] = active[w]
        PROVE  TodoInv'
    BY <1>1, <1>3 DEF TodoInv
  <1>4. ASSUME NEW w \in Worker, AdjustSave(w) \/ SkipLine(w) PROVE TodoInv'
    <2>1. todo[w] # <<>> /\ todo' = [todo EXCEPT ![w] = Tail(@)] /\ active' = active
      BY <1>1, <1>4 DEF AdjustSave, SkipLine, StockJobsTypeOK
    <2>2. VariantsOf(Tail(todo[w])) \subseteq VariantsOf(todo[w])
      BY <1>1, <1>2, <2>1, LinesTyped
    <2>3. todo'[w] = Tail(todo[w]) /\ \A x \in Worker \ {w} : todo'[x] = todo[x]
      BY <1>2, <2>1
    <2>4. \A x \in Worker : VariantsOf(todo'[x]) \subseteq VariantsOf(todo[x])
      BY <2>2, <2>3
    <2>5. QED
      BY <1>3, <2>1, <2>4
  <1>5. ASSUME NEW w \in Worker, Take(w) PROVE TodoInv'
    <2>1. /\ todo' = [todo EXCEPT ![w] = Head(queue).lines]
          /\ active' = [active EXCEPT ![w] = Head(queue)]
      BY <1>5 DEF Take
    <2>2. todo'[w] = Head(queue).lines /\ \A x \in Worker \ {w} : todo'[x] = todo[x]
      BY <1>2, <2>1
    <2>3. active'[w] = Head(queue) /\ \A x \in Worker \ {w} : active'[x] = active[x]
      BY <1>2, <2>1
    <2>4. QED
      BY <1>1, <2>2, <2>3 DEF TodoInv
  <1>6. ASSUME NEW w \in Worker, Finish(w) PROVE TodoInv'
    BY <1>2, <1>3, <1>6 DEF Finish
  <1>7. ASSUME NEW w \in Worker, Stalled(w) PROVE TodoInv'
    <2>1. /\ active' = [active EXCEPT ![w] = None]
          /\ todo' = todo \/ todo' = [todo EXCEPT ![w] = <<>>]
      BY <1>7 DEF Stalled, Abandon
    <2>2. \A x \in Worker : active'[x] = None \/ active'[x] = active[x]
      BY <1>2, <2>1
    <2>3. \A x \in Worker : todo'[x] = todo[x] \/ todo'[x] = <<>>
      BY <1>2, <2>1
    <2>4. \A x \in Worker : VariantsOf(todo'[x]) \subseteq VariantsOf(todo[x])
      BY <1>2, <2>3
    <2>5. QED
      BY <1>3, <2>2, <2>4
  <1>8. ASSUME NEW w \in Worker, AdjustLoad(w) PROVE TodoInv'
    BY <1>3, <1>8 DEF AdjustLoad
  <1>9. ASSUME NEW r \in Decide, Add(r) PROVE TodoInv'
    BY <1>3, <1>9 DEF Add
  <1>10. CASE UNCHANGED stockJobVars
    BY <1>3, <1>10 DEF stockJobVars
  <1>11. QED
    BY <1>4, <1>5, <1>6, <1>7, <1>8, <1>9, <1>10, StockSteps

(* The inductive invariant.                                                *)
LEMMA IInvHolds == Spec => []IInv
  <1>1. IInv /\ [Next]_vars => IInv'
    <2> SUFFICES ASSUME IInv, [Next]_vars PROVE IInv'
      OBVIOUS
    <2>1. OrdersInv /\ PathInv
      BY DEF IInv
    <2>2. OrdersInv' /\ PathInv'
      BY <2>1, OrdersInvStep, PathInvStep
    <2>3. StockJobsTypeOK' /\ JobsInv' /\ TodoInv'
      BY StockJobsStep, JobsInvStep, TodoInvStep
    <2>4. QED
      BY <2>2, <2>3 DEF IInv
  <1>2. QED
    BY <1>1, IInvInit, PTL DEF Spec

(***************************************************************************)
(* The orders, their transactions and the jobs that change the stock are   *)
(* what they are declared to be: no row is below zero, no job is handed to *)
(* a worker more often than BullMQ allows, no create updates more items    *)
(* than it has.                                                            *)
(***************************************************************************)
THEOREM TypeCorrect == Spec => []TypeOK
  <1>1. IInv => TypeOK
    BY DEF IInv, OrdersInv, OrdersTyped, PathInv, TypeOK
  <1>2. QED
    BY <1>1, IInvHolds, PTL
-----------------------------------------------------------------------------
(* 5. What the stock adds up to                                            *)

\* What the lines that wait or are with a worker will still add to v.
Left(v) == Outstanding(Worth(v), queue, todo)

\* What v will have come to when they are processed.
Balance(v) == QuantityOf(stock[v]) + Left(v)

\* Purchases received and withdrawn: what a request has added a job for.
Receivers == Deciders("complete", {"done"})
Withdrawers == Deciders("cancel", {"save", "done"})

Booked(v) ==
    [r \in Decide |->
        IF r \in Receivers THEN QuantityIn(decision[r].purchase, v)
        ELSE IF r \in Withdrawers THEN -QuantityIn(decision[r].purchase, v) ELSE 0]

HalfCancelled(v) ==
    \E r \in Deciders("cancel", {"failed"}) : QuantityIn(decision[r].purchase, v) > 0

\* The books agree with the balance of every row that nothing disturbed.
ExactInv ==
    \A v \in Variant \ inexact :
        HalfCancelled(v) \/ Balance(v) = QuantityOf(Stock0[v]) + SumFunction(Booked(v))

(* What lines are worth.                                                   *)
LEMMA WorthTyped ==
    ASSUME NEW v \in Variant
    PROVE  /\ Worth(v) \in [Line -> Int]
           /\ \A l \in Line : Worth(v)[l] = IF l.variant = v THEN l.change ELSE 0
           /\ \A s \in Seq(Line) : v \notin VariantsOf(s) => Total(Worth(v), s) = 0
  <1>1. \A l \in Line : l.change \in Int
    BY DEF Line
  <1>2. /\ Worth(v) \in [Line -> Int]
        /\ \A l \in Line : Worth(v)[l] = IF l.variant = v THEN l.change ELSE 0
    BY <1>1 DEF Worth
  <1>3. ASSUME NEW s \in Seq(Line), v \notin VariantsOf(s) PROVE Total(Worth(v), s) = 0
    <2>1. \A n \in DOMAIN s : s[n] \in Line /\ s[n].variant # v
      BY <1>3, LenProperties, ElementOfSeq DEF VariantsOf
    <2>2. \A n \in DOMAIN s : Worth(v)[s[n]] = 0
      BY <1>2, <2>1
    <2>3. QED
      BY <2>2, TotalOfZeroes
  <1>4. QED
    BY <1>2, <1>3

\* Jobs and lines, in the form the lemmas about them ask for.
LEMMA LinesOf ==
    ASSUME StockJobsTypeOK
    PROVE  /\ Lines(Agent, Line, Job, queue, todo) /\ DOMAIN todo = Agent
           /\ \A v \in Variant : Left(v) \in Int
  <1>1. Lines(Agent, Line, Job, queue, todo) /\ DOMAIN todo = Agent
    BY Kinds DEF StockJobsTypeOK, Job, Lines
  <1>2. ASSUME NEW v \in Variant PROVE Left(v) \in Int
    BY <1>1, WorthTyped, OutstandingIsInt DEF Left
  <1>3. QED
    BY <1>1, <1>2

\* After a step, by the jobs and lines it leaves.
LEMMA LeftNext ==
    ASSUME NEW v \in Variant
    PROVE  Left(v)' = Outstanding(Worth(v), queue', todo')
  <1>1. Worth(v)' = Worth(v)
    BY DEF Worth, Line
  <1>2. QED
    BY <1>1 DEF Left, Outstanding, Waiting, Running, Total

(* The books are kept in whole numbers.                                    *)
LEMMA BookedTyped ==
    ASSUME OrdersInv, NEW v \in Variant
    PROVE  /\ Booked(v) \in [Decide -> Int]
           /\ SumFunction(Booked(v)) \in Int
           /\ \A r \in Decide : decision[r] # None => decision[r].purchase \in Create
  <1>1. \A r \in Decide : decision[r] # None => decision[r].purchase \in Create
    BY DEF OrdersInv, OrdersTyped
  <1>2. \A p \in Create : QuantityIn(p, v) \in Int /\ -QuantityIn(p, v) \in Int
    BY WorthOfPurchases
  <1>3. \A r \in Receivers \cup Withdrawers : decision[r].purchase \in Create
    BY <1>1 DEF Receivers, Withdrawers, Deciders
  <1>4. Booked(v) \in [Decide -> Int]
    BY <1>2, <1>3 DEF Booked
  <1>5. QED
    BY <1>1, <1>4, Kinds, SumIsInt DEF SumFunction

(* A line that a worker has processed or skipped is no longer left.        *)
LEMMA LineDone ==
    ASSUME StockJobsTypeOK, StockJobsTypeOK', NEW w \in Worker, todo[w] # <<>>,
           todo'[w] = Tail(todo[w]), \A b \in Agent \ {w} : todo'[b] = todo[b],
           queue' = queue, NEW v \in Variant
    PROVE  Left(v)' = Left(v) - Worth(v)[Head(todo[w])]
  <1>1. w \in Agent /\ todo \in [Agent -> Seq(Line)] /\ todo' \in [Agent -> Seq(Line)]
    BY Kinds DEF StockJobsTypeOK
  <1>3. OneMoves(Agent, Line, todo, w, todo')
    BY <1>1 DEF OneMoves
  <1>4. Lines(Agent, Line, Job, queue, todo) /\ Worth(v) \in [Line -> Int]
    BY LinesOf, WorthTyped
  <1>5. ASSUME NEW val \in [Line -> Int], todo[w] # <<>>, todo'[w] = Tail(todo[w])
        PROVE  Outstanding(val, queue, todo') = Outstanding(val, queue, todo) - val[Head(todo[w])]
    <2>1. Lines(Agent, Line, Job, queue, todo)
      BY <1>4
    <2>2. QED
      BY <1>3, <1>5, <2>1, OutstandingWhenDone
  <1>6. QED
    BY <1>4, <1>5, LeftNext DEF Left

(* A worker that takes a job takes its lines over.                         *)
LEMMA JobTaken ==
    ASSUME StockJobsTypeOK, StockJobsTypeOK', NEW w \in Worker, Take(w), NEW v \in Variant
    PROVE  Left(v)' = Left(v)
  <1>1. w \in Agent /\ todo \in [Agent -> Seq(Line)] /\ todo' \in [Agent -> Seq(Line)]
    BY Kinds DEF StockJobsTypeOK
  <1>2. /\ queue # <<>> /\ todo[w] = <<>> /\ queue' = Tail(queue)
        /\ todo'[w] = Head(queue).lines /\ \A b \in Agent \ {w} : todo'[b] = todo[b]
    BY <1>1 DEF Take
  <1>3. OneMoves(Agent, Line, todo, w, todo')
    BY <1>1, <1>2 DEF OneMoves
  <1>4. Lines(Agent, Line, Job, queue, todo) /\ Worth(v) \in [Line -> Int]
    BY LinesOf, WorthTyped
  <1>5. Outstanding(Worth(v), Tail(queue), todo') = Outstanding(Worth(v), queue, todo)
    BY <1>2, <1>3, <1>4, OutstandingWhenTaken
  <1>6. QED
    BY <1>2, <1>5, LeftNext DEF Left

(* A job that stalls changes what is left of no other variant than its own *)
(* ones: its loop has lines of its job only.                               *)
LEMMA JobStalls ==
    ASSUME StockJobsTypeOK, StockJobsTypeOK', TodoInv, NEW w \in Worker, Stalled(w),
           NEW v \in Variant, v \notin inexact'
    PROVE  Left(v)' = Left(v)
  <1>1. w \in Agent /\ todo \in [Agent -> Seq(Line)] /\ todo' \in [Agent -> Seq(Line)]
    BY Kinds DEF StockJobsTypeOK
  <1>2. active[w] # None
    BY DEF Stalled
  <1>3. active[w] \in Held(queue, active, None)
    BY <1>2, HeldAreJobs
  <1>4. PICK job \in Job : job = active[w]
    BY <1>3, HeldAreJobs
  <1>5. job.lines \in Seq(Line)
    BY DEF Job
  <1>6. /\ queue' = queue \/ queue' = <<job>> \o queue
        /\ inexact' = inexact \cup VariantsOf(job.lines)
        /\ todo' = todo \/ todo' = [todo EXCEPT ![w] = <<>>]
    BY <1>4 DEF Stalled, Abandon
  <1>7. todo'[w] \in {todo[w], <<>>} /\ \A b \in Agent \ {w} : todo'[b] = todo[b]
    BY <1>1, <1>6
  <1>8. v \notin VariantsOf(job.lines) /\ v \notin VariantsOf(todo[w])
    BY <1>2, <1>4, <1>6 DEF TodoInv
  <1>9. /\ Lines(Agent, Line, Job, queue, todo) /\ Lines(Agent, Line, Job, queue', todo')
        /\ OneMoves(Agent, Line, todo, w, todo')
    BY <1>1, <1>7, Kinds DEF StockJobsTypeOK, Job, Lines, OneMoves
  <1>10. Worth(v) \in [Line -> Int]
    BY WorthTyped
  <1>11. /\ Outstanding(Worth(v), queue, todo') = Outstanding(Worth(v), queue, todo)
               + (Total(Worth(v), todo'[w]) - Total(Worth(v), todo[w]))
         /\ Total(Worth(v), todo'[w]) \in Int /\ Total(Worth(v), todo[w]) \in Int
    BY <1>9, <1>10, OutstandingWhenGiven
  <1>12. /\ Outstanding(Worth(v), queue', todo') = Outstanding(Worth(v), queue', todo)
               + (Outstanding(Worth(v), queue, todo') - Outstanding(Worth(v), queue, todo))
         /\ Outstanding(Worth(v), queue', todo) \in Int /\ Outstanding(Worth(v), queue, todo') \in Int
    BY <1>9, <1>10, OutstandingAddsUp
  <1>13. Total(Worth(v), todo[w]) = 0 /\ Total(Worth(v), todo'[w]) = 0
    <2>1. Total(Worth(v), todo[w]) = 0
      BY <1>1, <1>8, WorthTyped
    <2>2. QED
      BY <1>7, <2>1, TotalEmpty
  <1>14. Outstanding(Worth(v), queue', todo) = Outstanding(Worth(v), queue, todo)
    <2>1. CASE queue' = queue
      BY <2>1
    <2>2. CASE queue' = <<job>> \o queue
      <3>1. Total(Worth(v), job.lines) = 0
        BY <1>5, <1>8, WorthTyped
      <3>5. ASSUME NEW val \in [Line -> Int]
            PROVE  Outstanding(val, queue', todo) = Outstanding(val, queue, todo) + Total(val, job.lines)
        <4>1. Lines(Agent, Line, Job, queue, todo)
          BY <1>9
        <4>2. queue' = Append(queue, job) \/ queue' = <<job>> \o queue
          BY <2>2
        <4>3. QED
          BY <4>1, <4>2, OutstandingWhenAdded
      <3>2. Outstanding(Worth(v), queue', todo)
              = Outstanding(Worth(v), queue, todo) + Total(Worth(v), job.lines)
        BY <1>10, <3>5
      <3>3. Outstanding(Worth(v), queue, todo) \in Int
        BY LinesOf DEF Left
      <3>4. QED
        BY <3>1, <3>2, <3>3
    <2>3. QED
      BY <1>6, <2>1, <2>2
  <1>15. Left(v) = Outstanding(Worth(v), queue, todo) /\ Left(v) \in Int
    BY LinesOf DEF Left
  <1>16. Left(v)' = Outstanding(Worth(v), queue', todo')
    BY LeftNext
  <1>17. QED
    BY <1>11, <1>12, <1>13, <1>14, <1>15, <1>16

(* adjustStock stores what it loaded and the change, unless it clamps.     *)
LEMMA SaveStores ==
    ASSUME StockJobsTypeOK, NEW a \in Agent, AdjustSave(a)
    PROVE  LET l == Head(todo[a])
           IN  /\ l \in Line /\ l.variant \in Variant /\ l.change \in Int
               /\ \A v \in Variant \ {l.variant} : stock'[v] = stock[v]
               /\ l.variant \notin inexact' =>
                     QuantityOf(stock'[l.variant]) = QuantityOf(stock[l.variant]) + l.change
               /\ inexact \subseteq inexact'
  <1> DEFINE l == Head(todo[a])
             q == QuantityOf(seen[a])
             after == q + l.change
             new == IF after > 0 THEN after ELSE 0
  <1>1. l \in Line /\ l.variant \in Variant /\ l.change \in Int
    BY LinesTyped DEF AdjustSave, StockJobsTypeOK
  <1>2. q \in Nat /\ after \in Int /\ new \in Nat /\ None \notin Nat
    BY <1>1, Kinds DEF StockJobsTypeOK, QuantityOf
  <1>3. stock' = [stock EXCEPT ![l.variant] = new]
    BY DEF AdjustSave
  <1>4. inexact' = inexact \cup {u \in {l.variant} : after < 0 \/ q # QuantityOf(stock[l.variant])}
    BY DEF AdjustSave
  <1>5. after >= 0 => new = after
    BY <1>2
  <1>6. after = q + l.change
    OBVIOUS
  <1> HIDE DEF l, q, after, new
  <1>7. stock'[l.variant] = new /\ \A v \in Variant \ {l.variant} : stock'[v] = stock[v]
    BY <1>1, <1>3 DEF StockJobsTypeOK
  <1>8. QuantityOf(new) = new
    BY <1>2 DEF QuantityOf
  <1>9. l.variant \notin inexact' => after >= 0 /\ q = QuantityOf(stock[l.variant])
    BY <1>2, <1>4
  <1>10. l.variant \notin inexact' =>
             QuantityOf(stock'[l.variant]) = QuantityOf(stock[l.variant]) + l.change
    BY <1>5, <1>6, <1>7, <1>8, <1>9
  <1>11. QED
    BY <1>1, <1>4, <1>7, <1>10 DEF l

(* A worker's step moves what is left into the stock, and no more: a row's *)
(* balance changes only by a step that marks the row as inexact.           *)
LEMMA WorkerKeepsBalance ==
    ASSUME StockJobsTypeOK, StockJobsTypeOK', TodoInv, NEW w \in Worker,
           \/ AdjustLoad(w) \/ AdjustSave(w) \/ Take(w)
           \/ SkipLine(w) \/ Finish(w) \/ Stalled(w),
           NEW v \in Variant, v \notin inexact'
    PROVE  v \notin inexact /\ Balance(v)' = Balance(v)
  <1>1. w \in Agent /\ todo \in [Agent -> Seq(Line)] /\ stock[v] \in Nat \cup {None}
    BY Kinds DEF StockJobsTypeOK
  <1>2. Left(v) \in Int /\ QuantityOf(stock[v]) \in Int
    BY <1>1, LinesOf, Kinds DEF QuantityOf
  <1>3. ASSUME stock' = stock, Left(v)' = Left(v) PROVE Balance(v)' = Balance(v)
    BY <1>3 DEF Balance, QuantityOf
  <1>4. ASSUME queue' = queue, todo' = todo PROVE Left(v)' = Left(v)
    BY <1>4, LeftNext DEF Left
  <1>5. CASE AdjustLoad(w) \/ Finish(w)
    BY <1>3, <1>4, <1>5 DEF AdjustLoad, Finish
  <1>6. CASE Take(w)
    BY <1>3, <1>6, JobTaken DEF Take
  <1>7. CASE Stalled(w)
    <2>1. stock' = stock /\ inexact \subseteq inexact'
      BY <1>7 DEF Stalled
    <2>2. QED
      BY <1>3, <1>7, <2>1, JobStalls
  <1>8. ASSUME todo[w] # <<>>, todo' = [todo EXCEPT ![w] = Tail(@)], queue' = queue
        PROVE  /\ Left(v)' = Left(v) - Worth(v)[Head(todo[w])]
               /\ Head(todo[w]) \in Line
    <2>1. todo'[w] = Tail(todo[w]) /\ \A b \in Agent \ {w} : todo'[b] = todo[b]
      BY <1>1, <1>8
    <2>2. Left(v)' = Left(v) - Worth(v)[Head(todo[w])]
      BY <1>8, <2>1, LineDone
    <2>3. QED
      BY <1>1, <1>8, <2>2, LinesTyped
  <1>9. CASE SkipLine(w)
    <2>1. /\ todo[w] # <<>> /\ todo' = [todo EXCEPT ![w] = Tail(@)] /\ queue' = queue
          /\ stock' = stock /\ inexact' = inexact \cup {Head(todo[w]).variant}
      BY <1>9 DEF SkipLine
    <2>2. Left(v)' = Left(v) - Worth(v)[Head(todo[w])] /\ Head(todo[w]) \in Line
      BY <1>8, <2>1
    <2>3. Worth(v)[Head(todo[w])] = 0
      BY <2>1, <2>2, WorthTyped
    <2>4. QED
      BY <1>2, <1>3, <2>1, <2>2, <2>3
  <1>10. CASE AdjustSave(w)
    <2>1. todo[w] # <<>> /\ todo' = [todo EXCEPT ![w] = Tail(@)] /\ queue' = queue
      BY <1>10 DEF AdjustSave, StockJobsTypeOK
    <2>2. PICK l \in Line : l = Head(todo[w])
      BY <1>8, <2>1
    <2>3. /\ l.change \in Int /\ inexact \subseteq inexact'
          /\ \A u \in Variant \ {l.variant} : stock'[u] = stock[u]
          /\ l.variant \notin inexact' =>
                QuantityOf(stock'[l.variant]) = QuantityOf(stock[l.variant]) + l.change
      BY <1>1, <1>10, <2>2, SaveStores
    <2>4. Left(v)' = Left(v) - Worth(v)[l]
      BY <1>8, <2>1, <2>2
    <2>5. Worth(v)[l] = IF l.variant = v THEN l.change ELSE 0
      BY WorthTyped
    <2>6. Balance(v)' = QuantityOf(stock'[v]) + Left(v)'
      BY DEF Balance, QuantityOf
    <2>7. CASE l.variant = v
      <3>1. QuantityOf(stock'[v]) = QuantityOf(stock[v]) + l.change
        BY <2>3, <2>7
      <3>2. QED
        BY <1>2, <2>3, <2>4, <2>5, <2>6, <2>7, <3>1 DEF Balance
    <2>8. CASE l.variant # v
      <3>1. stock'[v] = stock[v]
        BY <2>3, <2>8
      <3>2. QED
        BY <1>2, <2>3, <2>4, <2>5, <2>6, <2>8, <3>1 DEF Balance
    <2>9. QED
      BY <2>7, <2>8
  <1>11. QED
    BY <1>5, <1>6, <1>7, <1>9, <1>10

(* A job that is added is booked as what its lines are worth.              *)
LEMMA AddIsBooked ==
    ASSUME IInv, IInv', NEW r \in Decide, Add(r), NEW v \in Variant
    PROVE  \E d \in Int :
              /\ Balance(v)' = Balance(v) + d
              /\ SumFunction(Booked(v))' = SumFunction(Booked(v)) + d
              /\ HalfCancelled(v) => HalfCancelled(v)'
  <1>1. StockJobsTypeOK /\ OrdersInv /\ PathInv /\ OrdersInv'
    BY DEF IInv
  <1>2. /\ pc[r] = "add" /\ decision' = decision /\ stock' = stock /\ todo' = todo
        /\ \A q \in Decide \ {r} : pc'[q] = pc[q]
        /\ pc'[r] = IF decision[r].op = "complete" THEN "done" ELSE "save"
    BY <1>1, Kinds DEF Add, Goto, OrdersInv, OrdersTyped
  <1>3. /\ decision[r] # None /\ decision[r].purchase \in Create
        /\ decision[r].op \in {"complete", "cancel"}
    <2>1. decision[r] \in [op : Op, purchase : Create]
      BY <1>1, <1>2 DEF OrdersInv, DecideState, Deciding
    <2>2. QED
      BY <1>1, <1>2, <2>1, PurchasesAssumption DEF PathInv
  <1>4. PICK p \in Create : p = decision[r].purchase
    BY <1>3
  <1> DEFINE lines == IF decision[r].op = "complete" THEN Receipt(p) ELSE Withdrawal(p)
             d == Total(Worth(v), lines)
  <1>5. queue' = Append(queue, [id |-> r, lines |-> lines])
    BY <1>2, <1>4 DEF Add, AddJob
  <1>6. lines \in Seq(Line)
    BY PurchasesAreLines
  <1>7. d = IF decision[r].op = "complete" THEN QuantityIn(p, v) ELSE -QuantityIn(p, v)
    BY WorthOfPurchases
  <1>8. QuantityIn(p, v) \in Int /\ QuantityIn(p, v)' = QuantityIn(p, v)
    <2>1. QuantityIn(p, v) \in Int
      BY WorthOfPurchases
    <2>2. QuantityIn(p, v)' = QuantityIn(p, v)
      BY DEF QuantityIn, Change, Receipt
    <2>3. QED
      BY <2>1, <2>2
  <1> HIDE DEF lines, d
  <1>9. d \in Int
    BY <1>7, <1>8
  <1>10. Left(v)' = Left(v) + d
    <2>1. [id |-> r, lines |-> lines] \in Job
      BY <1>6, Kinds DEF Job
    <2>2. PICK j \in Job : j = [id |-> r, lines |-> lines] /\ j.lines = lines
      BY <2>1
    <2>3. Lines(Agent, Line, Job, queue, todo)
      BY <1>1, LinesOf
    <2>4. queue' = Append(queue, j) \/ queue' = <<j>> \o queue
      BY <1>5, <2>2
    <2>5. ASSUME NEW val \in [Line -> Int]
          PROVE  Outstanding(val, queue', todo) = Outstanding(val, queue, todo) + Total(val, j.lines)
      BY <2>3, <2>4, OutstandingWhenAdded
    <2>6. QED
      BY <1>2, <2>2, <2>5, WorthTyped, LeftNext DEF Left, d
  <1>11. Balance(v)' = Balance(v) + d
    <2>1. Left(v) \in Int /\ stock[v] \in Nat \cup {None}
      BY <1>1, LinesOf DEF StockJobsTypeOK
    <2>2. QuantityOf(stock[v]) \in Int /\ QuantityOf(stock[v])' = QuantityOf(stock[v])
      BY <1>2, <2>1, Kinds DEF QuantityOf
    <2>3. QED
      BY <1>9, <1>10, <2>1, <2>2 DEF Balance
  <1>12. Booked(v) \in [Decide -> Int] /\ Booked(v)' \in [Decide -> Int] /\ IsFiniteSet(Decide)
    <2>1. Booked(v) \in [Decide -> Int]
      BY <1>1, BookedTyped
    <2>2. (OrdersInv => Booked(v) \in [Decide -> Int])'
      BY BookedTyped, PTL
    <2>3. QED
      BY <1>1, <2>1, <2>2, Kinds
  <1>13. \A q \in Decide \ {r} : Booked(v)'[q] = Booked(v)[q]
    BY <1>2 DEF Booked, Receivers, Withdrawers, Deciders, QuantityIn, Change, Receipt
  <1>14. Booked(v)[r] = 0 /\ Booked(v)'[r] = d
    BY <1>2, <1>3, <1>4, <1>7, <1>8 DEF Booked, Receivers, Withdrawers, Deciders
  <1>15. SumFunction(Booked(v)') = SumFunction(Booked(v)) + d
    <2>1. PICK f \in [Decide -> Int] : f = Booked(v)
      BY <1>12
    <2>2. PICK g \in [Decide -> Int] : g = Booked(v)'
      BY <1>12
    <2>3. \A q \in Decide \ {r} : f[q] = g[q]
      BY <1>13, <2>1, <2>2
    <2>4. SumFunction(g) = SumFunction(f) + (g[r] - f[r])
      BY <1>12, <2>3, SumFunctionChanges
    <2>5. QED
      BY <1>9, <1>14, <2>1, <2>2, <2>4
  <1>16. SumFunction(Booked(v))' = SumFunction(Booked(v)')
    OBVIOUS
  <1>17. HalfCancelled(v) => HalfCancelled(v)'
    BY <1>2 DEF HalfCancelled, Deciders, QuantityIn, Change, Receipt
  <1>18. QED
    BY <1>9, <1>11, <1>15, <1>16, <1>17

(* No other step changes the books, unless it leaves a cancellation half   *)
(* done.                                                                   *)
LEMMA BooksKept ==
    ASSUME OrdersInv, PathInv, [Next]_vars, \A r \in Decide : ~Add(r), NEW v \in Variant
    PROVE  HalfCancelled(v)' \/ (~HalfCancelled(v) /\ Booked(v)' = Booked(v))
  <1>1. \A p \in Create : QuantityIn(p, v) \in Nat
    BY WorthOfPurchases
  <1>2. \A r \in Decide : decision[r] # None => decision[r].purchase \in Create
    BY BookedTyped
  <1>3. ASSUME HalfCancelled(v) PROVE HalfCancelled(v)'
    <2>1. PICK r \in Decide : /\ decision[r] # None /\ decision[r].op = "cancel" /\ pc[r] = "failed"
                              /\ QuantityIn(decision[r].purchase, v) > 0
      BY <1>3 DEF HalfCancelled, Deciders
    <2>2. pc'[r] = pc[r] /\ decision'[r] = decision[r]
      BY <2>1, DecisionMoves
    <2>3. QuantityIn(decision[r].purchase, v)' = QuantityIn(decision[r].purchase, v)
      BY <2>2 DEF QuantityIn, Change, Receipt
    <2>4. QED
      BY <2>1, <2>2, <2>3 DEF HalfCancelled, Deciders
  <1>4. ASSUME ~HalfCancelled(v)', NEW r \in Decide PROVE Booked(v)'[r] = Booked(v)[r]
    <2>1. \/ UNCHANGED <<pc[r], decision[r]>>
          \/ /\ pc[r] = "new"
             /\ \/ pc'[r] = "rejected"
                \/ pc'[r] = "save" /\ decision'[r].op # "cancel"
                \/ pc'[r] = "add" /\ decision'[r].op = "cancel"
          \/ /\ pc[r] = "save" /\ decision'[r] = decision[r]
             /\ \/ pc'[r] = "add" /\ decision[r].op = "complete"
                \/ pc'[r] = "done" /\ decision[r].op # "complete"
                \/ pc'[r] = "failed"
          \/ /\ pc[r] = "add" /\ decision'[r] = decision[r] /\ pc'[r] = "failed"
      BY DecisionMoves
    <2>2. CASE UNCHANGED <<pc[r], decision[r]>>
      BY <2>2 DEF Booked, Receivers, Withdrawers, Deciders, QuantityIn, Change, Receipt
    <2>3. /\ Booked(v)[r] = IF r \in Receivers THEN QuantityIn(decision[r].purchase, v)
                            ELSE IF r \in Withdrawers THEN -QuantityIn(decision[r].purchase, v) ELSE 0
          /\ Booked(v)'[r] = IF r \in Receivers' THEN QuantityIn(decision[r].purchase, v)'
                             ELSE IF r \in Withdrawers' THEN -QuantityIn(decision[r].purchase, v)' ELSE 0
      BY DEF Booked
    <2>4. CASE pc[r] = "new" \/ pc[r] = "add"
      <3>1. r \notin Receivers /\ r \notin Withdrawers
        BY <2>4 DEF Receivers, Withdrawers, Deciders
      <3>2. CASE UNCHANGED <<pc[r], decision[r]>>
        BY <2>2, <3>2
      <3>3. CASE ~UNCHANGED <<pc[r], decision[r]>>
        <4>1. r \notin Receivers' /\ r \notin Withdrawers'
          BY <2>1, <2>4, <3>3 DEF Receivers, Withdrawers, Deciders
        <4>2. QED
          BY <2>3, <3>1, <4>1
      <3>4. QED
        BY <3>2, <3>3
    <2>5. CASE pc[r] = "save" /\ decision'[r] = decision[r] /\ ~UNCHANGED <<pc[r], decision[r]>>
      <3>1. QuantityIn(decision[r].purchase, v)' = QuantityIn(decision[r].purchase, v)
        BY <2>5 DEF QuantityIn, Change, Receipt
      <3>2. r \notin Receivers /\ r \notin Receivers'
        BY <2>1, <2>5 DEF Receivers, Deciders
      <3>3. pc'[r] # "failed" => (r \in Withdrawers' <=> r \in Withdrawers)
        BY <2>1, <2>5 DEF Withdrawers, Deciders
      <3>4. CASE pc'[r] # "failed"
        BY <2>3, <3>1, <3>2, <3>3, <3>4
      <3>5. CASE pc'[r] = "failed" /\ r \notin Withdrawers
        <4>1. r \notin Withdrawers'
          BY <3>5 DEF Withdrawers, Deciders
        <4>2. QED
          BY <2>3, <3>2, <3>5, <4>1
      <3>6. CASE pc'[r] = "failed" /\ r \in Withdrawers
        <4>1. r \notin Withdrawers' /\ decision[r] # None /\ decision[r].op = "cancel"
          BY <3>6 DEF Withdrawers, Deciders
        <4>2. ~(QuantityIn(decision[r].purchase, v) > 0)
          BY <1>4, <2>5, <3>1, <3>6, <4>1 DEF HalfCancelled, Deciders
        <4>3. QuantityIn(decision[r].purchase, v) = 0
          <5>1. QuantityIn(decision[r].purchase, v) \in Nat
            BY <1>1, <1>2, <4>1
          <5>2. QED
            BY <4>2, <5>1
        <4>4. Booked(v)'[r] = 0
          BY <2>3, <3>2, <4>1
        <4>5. Booked(v)[r] = -QuantityIn(decision[r].purchase, v)
          BY <2>3, <3>2, <3>6
        <4>6. -QuantityIn(decision[r].purchase, v) = 0
          <5>1. \A n \in Int : -n = 0 - n
            OBVIOUS
          <5>2. \A n \in Int : n = 0 => 0 - n = 0
            OBVIOUS
          <5>3. QuantityIn(decision[r].purchase, v) \in Int
            BY <4>3
          <5>4. QED
            BY <4>3, <5>1, <5>2, <5>3, Zenon
        <4>7. QED
          BY <4>4, <4>5, <4>6
      <3>7. QED
        BY <3>4, <3>5, <3>6
    <2>6. QED
      BY <2>1, <2>2, <2>4, <2>5
  <1>5. DOMAIN Booked(v) = Decide /\ DOMAIN Booked(v)' = Decide
    BY DEF Booked
  <1>6. ASSUME ~HalfCancelled(v)' PROVE Booked(v)' = Booked(v)
    <2>1. \A r \in Decide : Booked(v)'[r] = Booked(v)[r]
      BY <1>4, <1>6
    <2>2. QED
      BY <1>5, <2>1 DEF Booked
  <1>7. QED
    BY <1>3, <1>6

(* The books stay right.                                                   *)
LEMMA ExactInvStep ==
    ASSUME IInv, IInv', ExactInv, [Next]_vars
    PROVE  ExactInv'
  <1>1. StockJobsTypeOK /\ StockJobsTypeOK' /\ OrdersInv /\ PathInv /\ TodoInv
    BY DEF IInv
  <1>2. ASSUME \A v \in Variant : v \notin inexact' =>
                   \/ HalfCancelled(v)'
                   \/ Balance(v)' = QuantityOf(Stock0[v]) + SumFunction(Booked(v)')
        PROVE  ExactInv'
    BY <1>2 DEF ExactInv, QuantityOf
  <1>3. \A v \in Variant : /\ QuantityOf(Stock0[v]) \in Int
                           /\ SumFunction(Booked(v)) \in Int
    BY <1>1, Kinds, BookedTyped, StockJobsAssumption DEF QuantityOf
  <1>4. ASSUME NEW r \in Decide, Add(r) PROVE ExactInv'
    <2>1. inexact' = inexact
      BY <1>4 DEF Add
    <2>2. ASSUME NEW v \in Variant, v \notin inexact', ~HalfCancelled(v)'
          PROVE  Balance(v)' = QuantityOf(Stock0[v]) + SumFunction(Booked(v)')
      <3>1. PICK d \in Int : /\ Balance(v)' = Balance(v) + d
                             /\ SumFunction(Booked(v))' = SumFunction(Booked(v)) + d
                             /\ HalfCancelled(v) => HalfCancelled(v)'
        BY <1>4, AddIsBooked
      <3>2. Balance(v) = QuantityOf(Stock0[v]) + SumFunction(Booked(v))
        BY <2>1, <2>2, <3>1 DEF ExactInv
      <3>3. SumFunction(Booked(v))' = SumFunction(Booked(v)')
        OBVIOUS
      <3>4. QED
        BY <1>3, <3>1, <3>2, <3>3
    <2>3. QED
      BY <1>2, <2>2
  <1>5. CASE \A r \in Decide : ~Add(r)
    <2>1. ASSUME NEW v \in Variant, v \notin inexact'
          PROVE  v \notin inexact /\ Balance(v)' = Balance(v)
      <3>1. CASE UNCHANGED stockJobVars
        <4>1. queue' = queue /\ todo' = todo /\ stock' = stock /\ inexact' = inexact
          BY <3>1 DEF stockJobVars
        <4>2. Left(v)' = Left(v)
          BY <4>1, LeftNext DEF Left
        <4>3. QED
          BY <2>1, <4>1, <4>2 DEF Balance, QuantityOf
      <3>2. ASSUME NEW w \in Worker, \/ AdjustLoad(w) \/ AdjustSave(w) \/ Take(w)
                                     \/ SkipLine(w) \/ Finish(w) \/ Stalled(w)
            PROVE  v \notin inexact /\ Balance(v)' = Balance(v)
        BY <1>1, <2>1, <3>2, WorkerKeepsBalance
      <3>3. QED
        BY <1>5, <3>1, <3>2, StockSteps
    <2>2. ASSUME NEW v \in Variant, v \notin inexact', ~HalfCancelled(v)'
          PROVE  Balance(v)' = QuantityOf(Stock0[v]) + SumFunction(Booked(v)')
      <3>1. v \notin inexact /\ Balance(v)' = Balance(v)
        BY <2>1, <2>2
      <3>2. ~HalfCancelled(v) /\ Booked(v)' = Booked(v)
        BY <1>1, <1>5, <2>2, BooksKept
      <3>3. Balance(v) = QuantityOf(Stock0[v]) + SumFunction(Booked(v))
        BY <3>1, <3>2 DEF ExactInv
      <3>4. QED
        BY <3>1, <3>2, <3>3
    <2>3. QED
      BY <1>2, <2>2
  <1>6. QED
    BY <1>4, <1>5

(* Nothing is booked or left to begin with.                                *)
LEMMA ExactInvInit == Init => ExactInv
  <1> SUFFICES ASSUME Init, NEW v \in Variant
               PROVE  Balance(v) = QuantityOf(Stock0[v]) + SumFunction(Booked(v))
    BY DEF ExactInv
  <1>1. /\ stock = Stock0 /\ queue = <<>> /\ DOMAIN todo = Agent
        /\ \A a \in Agent : todo[a] = <<>>
    BY DEF Init, StockJobsInit
  <1>2. \A r \in Decide : pc[r] = "new"
    BY Kinds DEF Init
  <1>3. \A r \in Decide : Booked(v)[r] = 0
    BY <1>2 DEF Booked, Receivers, Withdrawers, Deciders
  <1>4. SumFunction(Booked(v)) = 0
    <2>1. DOMAIN Booked(v) = Decide
      BY DEF Booked
    <2>2. QED
      BY <1>3, <2>1, Kinds, SumOfZeroes DEF SumFunction
  <1>5. Outstanding(Worth(v), <<>>, todo) = 0
    BY <1>1, Kinds, NothingOutstanding
  <1>6. Left(v) = 0
    BY <1>1, <1>5 DEF Left
  <1>7. QuantityOf(Stock0[v]) \in Int
    BY StockJobsAssumption, Kinds DEF QuantityOf
  <1>8. QED
    BY <1>1, <1>4, <1>6, <1>7 DEF Balance

(* The books are right in every reachable state.                           *)
LEMMA BooksHold == Spec => [](IInv /\ ExactInv)
  <1>1. IInv /\ IInv' /\ ExactInv /\ [Next]_vars => ExactInv'
    BY ExactInvStep
  <1>2. Spec => []IInv
    BY IInvHolds
  <1>3. QED
    BY <1>1, <1>2, ExactInvInit, PTL DEF Spec

(***************************************************************************)
(* When all is quiet, a row that nothing disturbed holds what it held plus *)
(* what completed purchases received minus what cancelled ones withdrew,   *)
(* whatever the requests overlapped, the order their jobs were run in and  *)
(* the number of pods; only a cancellation that failed half-way may have   *)
(* withdrawn or not.                                                       *)
(***************************************************************************)
THEOREM StockIsExplained == Spec => []StockExplained
  <1>1. IInv /\ ExactInv => StockExplained
    <2> SUFFICES ASSUME IInv, ExactInv, Quiet, NEW v \in Variant \ inexact, ~HalfCancelled(v)
                 PROVE  QuantityOf(stock[v]) = QuantityOf(Stock0[v])
                          + Moved("complete", {"done"}, v) - Moved("cancel", {"done"}, v)
      BY DEF StockExplained, HalfCancelled
    <2> DEFINE R == Deciders("complete", {"done"})
               W == Deciders("cancel", {"done"})
               in == [r \in R |-> QuantityIn(decision[r].purchase, v)]
               out == [r \in W |-> QuantityIn(decision[r].purchase, v)]
               f == [r \in Decide |-> IF r \in R THEN in[r] ELSE 0]
               g == [r \in Decide |-> IF r \in W THEN out[r] ELSE 0]
    <2>1. OrdersInv /\ StockJobsTypeOK
      BY DEF IInv
    <2>2. \A r \in R \cup W : QuantityIn(decision[r].purchase, v) \in Int
      <3>1. \A r \in R \cup W : decision[r].purchase \in Create
        BY <2>1, BookedTyped DEF Deciders
      <3>2. QED
        BY <3>1, WorthOfPurchases
    <2>3. R \in SUBSET Decide /\ W \in SUBSET Decide /\ \A r \in R : r \notin W
      BY DEF Deciders
    <2>4. Receivers = R /\ Withdrawers = W
      <3>1. \A r \in Decide : pc[r] # "save"
        BY Kinds DEF Quiet, Ended
      <3>2. QED
        BY <3>1 DEF Receivers, Withdrawers, Deciders
    <2>5. Moved("complete", {"done"}, v) = SumFunction(in) /\ Moved("cancel", {"done"}, v) = SumFunction(out)
      BY DEF Moved
    <2>6. DOMAIN in = R /\ \A r \in R : in[r] = QuantityIn(decision[r].purchase, v)
      OBVIOUS
    <2>7. DOMAIN out = W /\ \A r \in W : out[r] = QuantityIn(decision[r].purchase, v)
      OBVIOUS
    <2>8. \A r \in Decide : Booked(v)[r] = IF r \in R THEN QuantityIn(decision[r].purchase, v)
                                           ELSE IF r \in W THEN -QuantityIn(decision[r].purchase, v) ELSE 0
      BY <2>4 DEF Booked
    <2> HIDE DEF R, W, in, out
    <2>9. f \in [Decide -> Int]
      BY <2>2, <2>3, <2>6
    <2>10. g \in [Decide -> Int]
      BY <2>2, <2>3, <2>7
    <2>11. \A r \in R : in[r] = f[r]
      BY <2>3
    <2>12. \A r \in Decide \ R : f[r] = 0
      OBVIOUS
    <2>13. \A r \in W : out[r] = g[r]
      BY <2>3
    <2>14. \A r \in Decide \ W : g[r] = 0
      OBVIOUS
    <2>15. \A r \in Decide : Booked(v)[r] = f[r] - g[r]
      BY <2>2, <2>3, <2>6, <2>7, <2>8
    <2> HIDE DEF f, g
    <2>16. SumFunction(in) = SumFunction(f) /\ SumFunction(f) \in Int
      BY <2>3, <2>6, <2>9, <2>11, <2>12, Kinds, SumFunctionRestricted
    <2>17. SumFunction(out) = SumFunction(g) /\ SumFunction(g) \in Int
      BY <2>3, <2>7, <2>10, <2>13, <2>14, Kinds, SumFunctionRestricted
    <2>18. SumFunction(Booked(v)) = SumFunction(f) - SumFunction(g)
      <3>1. DOMAIN Booked(v) = Decide
        BY DEF Booked
      <3>2. QED
        BY <2>9, <2>10, <2>15, <3>1, Kinds, SumFunctionSubtracts
    <2>19. Balance(v) = QuantityOf(stock[v])
      <3>1. queue = <<>> /\ DOMAIN todo = Agent /\ \A a \in Agent : todo[a] = <<>>
        BY <2>1 DEF Quiet, Idle, StockJobsTypeOK
      <3>2. Outstanding(Worth(v), <<>>, todo) = 0
        BY <3>1, Kinds, NothingOutstanding
      <3>3. Left(v) = 0
        BY <3>1, <3>2 DEF Left
      <3>4. QuantityOf(stock[v]) \in Int
        BY <2>1, Kinds DEF QuantityOf, StockJobsTypeOK
      <3>5. QED
        BY <3>3, <3>4 DEF Balance
    <2>20. QuantityOf(Stock0[v]) \in Int
      BY StockJobsAssumption, Kinds DEF QuantityOf
    <2>21. Balance(v) = QuantityOf(Stock0[v]) + SumFunction(Booked(v))
      BY DEF ExactInv
    <2>22. QED
      BY <2>5, <2>16, <2>17, <2>18, <2>19, <2>20, <2>21
  <1>2. QED
    BY <1>1, BooksHold, PTL
=============================================================================

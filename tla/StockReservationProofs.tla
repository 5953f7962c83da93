----------------------- MODULE StockReservationProofs -----------------------
(***************************************************************************)
(* Proofs about StockReservation, for any number of reservations and any   *)
(* quantities.  The sum of what reservations protect is the cardinality of *)
(* a set of units; the first lemmas say how it changes when one            *)
(* reservation changes, the theorems are inductions over the actions.      *)
(***************************************************************************)
EXTENDS StockReservation, FiniteSetTheorems, TLAPS

\* The quantity functions that Units counts.
Quantities == [Rsv -> 0 .. MaxQty]

\* A set of units is finite, and its size a natural number.
LEMMA UnitsFinite ==
    ASSUME NEW h, NEW S \in SUBSET Rsv
    PROVE  IsFiniteSet(Units(h, S)) /\ SumOver(h, S) \in Nat
<1>1. IsFiniteSet(S)
  BY FS_Subset, ReservationConstants
<1>2. IsFiniteSet(Qty)
  BY FS_Interval, ReservationConstants DEF Qty
<1>3. IsFiniteSet(S \X Qty)
  BY <1>1, <1>2, FS_Product
<1>4. IsFiniteSet(Units(h, S))
  <2>1. Units(h, S) \subseteq S \X Qty
    BY DEF Units
  <2> QED BY <1>3, <2>1, FS_Subset
<1> QED BY <1>4, FS_CardinalityType DEF SumOver

\* Two functions that agree on S have the same sum over S.
LEMMA SumAgree ==
    ASSUME NEW S \in SUBSET Rsv, NEW h, NEW g, \A x \in S : h[x] = g[x]
    PROVE  SumOver(h, S) = SumOver(g, S)
<1>1. Units(h, S) = Units(g, S)
  BY DEF Units
<1> QED BY <1>1 DEF SumOver

\* The units of one reservation, counted.
LEMMA OwnUnits ==
    ASSUME NEW h \in Quantities, NEW r \in Rsv
    PROVE  LET own == {r} \X (1 .. h[r]) IN IsFiniteSet(own) /\ Cardinality(own) = h[r]
<1> DEFINE Own  == {r} \X (1 .. h[r])
<1>1. h[r] \in 0 .. MaxQty /\ MaxQty \in Nat
  BY ReservationConstants DEF Quantities
<1>2. IsFiniteSet({r}) /\ Cardinality({r}) = 1
  BY FS_Singleton
<1>3. IsFiniteSet(1 .. h[r]) /\ Cardinality(1 .. h[r]) = h[r]
  <2>1. 1 \in Int /\ h[r] \in Int
    BY <1>1
  <2>2. IsFiniteSet(1 .. h[r]) /\ Cardinality(1 .. h[r]) = IF 1 > h[r] THEN 0 ELSE h[r] - 1 + 1
    BY <2>1, FS_Interval
  <2> QED BY <1>1, <2>2
<1>4. IsFiniteSet(Own) /\ Cardinality(Own) = Cardinality({r}) * Cardinality(1 .. h[r])
  BY <1>2, <1>3, FS_Product
<1>5. Cardinality(Own) = h[r]
  BY <1>1, <1>2, <1>3, <1>4
<1> QED BY <1>4, <1>5

\* One reservation's share can be taken out of the sum.
LEMMA SumSplit ==
    ASSUME NEW h \in Quantities, NEW r \in Rsv
    PROVE  SumOver(h, Rsv) = SumOver(h, Rsv \ {r}) + h[r]
<1> DEFINE Rest == Units(h, Rsv \ {r})
           Own  == {r} \X (1 .. h[r])
<1>1. h[r] \in 0 .. MaxQty /\ MaxQty \in Nat
  BY ReservationConstants DEF Quantities
<1>2. Units(h, Rsv) = Rest \cup Own
  <2>1. Units(h, Rsv) \subseteq Rest \cup Own
    BY <1>1 DEF Units, Qty
  <2>2. Rest \subseteq Units(h, Rsv)
    BY DEF Units
  <2>3. Own \subseteq Units(h, Rsv)
    BY <1>1 DEF Units, Qty
  <2> QED BY <2>1, <2>2, <2>3
<1>3. Rest \cap Own = {}
  BY DEF Units
<1>4. IsFiniteSet(Rest)
  BY UnitsFinite
<1>5. IsFiniteSet(Own) /\ Cardinality(Own) = h[r]
  BY OwnUnits
<1>6. Cardinality(Rest \cup Own) = Cardinality(Rest) + Cardinality(Own) - Cardinality(Rest \cap Own)
  BY <1>4, <1>5, FS_Union
<1>7. Cardinality(Rest \cap Own) = 0
  BY <1>3, FS_EmptySet
<1>8. Cardinality(Rest) \in Nat
  BY <1>4, FS_CardinalityType
<1> QED BY <1>1, <1>2, <1>5, <1>6, <1>7, <1>8 DEF SumOver

\* What happens to the sum when only r's share changes.
LEMMA SumChange ==
    ASSUME NEW h \in Quantities, NEW g \in Quantities, NEW r \in Rsv,
           \A x \in Rsv \ {r} : g[x] = h[x]
    PROVE  /\ SumOver(g, Rsv) = SumOver(h, Rsv \ {r}) + g[r]
           /\ SumOver(h, Rsv) = SumOver(h, Rsv \ {r}) + h[r]
           /\ SumOver(h, Rsv \ {r}) \in Nat
<1>1. SumOver(g, Rsv \ {r}) = SumOver(h, Rsv \ {r})
  BY SumAgree
<1> QED BY <1>1, SumSplit, UnitsFinite

----------------------------------------------------------------------------
(***************************************************************************)
(* Type correctness and the shape of reservations and transactions.  The   *)
(* shape says which reservations a transaction in flight can belong to:    *)
(* that is what confines the races to Stale.                               *)
(***************************************************************************)
Shape ==
    \A r \in Rsv :
        /\ rcons[r] <= rqty[r] /\ (r \notin Dispatch => shipped[r] = 0)
        /\ rstate[r] # "none" => rqty[r] > 0
        /\ tx[r] # "idle" => r \in Stale
        /\ tx[r] = "checked" => r \in Pos /\ rstate[r] = "none" /\ rqty[r] > 0
        /\ rstate[r] = "none" /\ tx[r] # "checked" => tx[r] = "idle"

Consistent == TypeOK /\ ReservationFollowsInvoice /\ Shape

\* No reservation exists initially, so the records agree.
LEMMA InitConsistent == Init => Consistent
BY ReservationConstants
   DEF Init, Consistent, TypeOK, ReservationFollowsInvoice, Shape, RState, Tx, Invoiced

\* Every step preserves the types and the shape, whatever the constants are.
LEMMA NextConsistent == Consistent /\ [Next]_vars => Consistent'
<1> SUFFICES ASSUME Consistent, [Next]_vars
             PROVE  Consistent'
  OBVIOUS
<1> USE ReservationConstants
<1> USE DEF Consistent, TypeOK, ReservationFollowsInvoice, Shape, RState, Tx, Qty, Invoiced
<1>1. CASE UNCHANGED vars
  BY <1>1 DEF vars
<1>2. ASSUME NEW r \in Rsv, NEW old \in Replaced, PosInsert(r, old) PROVE Consistent'
  BY <1>2 DEF PosInsert, Reserve, Replaced, Lapsed
<1>3. ASSUME NEW r \in Rsv, Lapse(r) PROVE Consistent'
  BY <1>3 DEF Lapse
<1>4. ASSUME NEW r \in Rsv, StartFinalize(r) PROVE Consistent'
  BY <1>4 DEF StartFinalize
<1>5. ASSUME NEW r \in Rsv, StartRepair(r) PROVE Consistent'
  BY <1>5 DEF StartRepair, Unfinalized
<1>6. ASSUME NEW r \in Rsv, Rollback(r) PROVE Consistent'
  BY <1>6 DEF Rollback
<1>7. ASSUME NEW r \in Rsv, r \notin Dispatch, IssueAll(r), Unfinalized(r) PROVE Consistent'
  BY <1>7 DEF IssueAll, CanIssue, Unfinalized
<1>8. ASSUME NEW r \in Rsv, Allocate(r), Unfinalized(r) PROVE Consistent'
  BY <1>8 DEF Allocate, Unfinalized
<1>9. ASSUME NEW r \in Rsv, NEW s \in {"expired", "released"}, Release(r, s) PROVE Consistent'
  BY <1>9 DEF Release
<1>10. ASSUME NEW r \in Rsv, NEW q \in Qty, NEW old \in Replaced, ReserveLocked(r, q, old)
       PROVE  Consistent'
  BY <1>10 DEF ReserveLocked, Reserve, Replaced, Lapsed
<1>11. ASSUME NEW r \in Rsv, NEW q \in Qty, PosCheck(r, q) PROVE Consistent'
  BY <1>11 DEF PosCheck
<1>12. ASSUME NEW r \in Rsv, NEW q \in Qty, NEW old \in Replaced, PosReserve(r, q, old)
       PROVE  Consistent'
  BY <1>12 DEF PosReserve, Reserve, Replaced, Lapsed
<1>13. ASSUME NEW r \in Rsv, NEW q \in Qty, SubmitDelivery(r, q) PROVE Consistent'
  BY <1>13 DEF SubmitDelivery, CanIssue, OpenQty, AtMost
<1>14. ASSUME NEW r \in Rsv, NEW q \in Qty, CancelDelivery(r, q) PROVE Consistent'
  BY <1>14 DEF CancelDelivery
<1>15. ASSUME NEW q \in Qty, Receive(q) \/ Issue(q) PROVE Consistent'
  BY <1>15 DEF Receive, Issue
<1>16. ASSUME NEW r \in Rsv, FinalizeImmediate(r) \/ RepairImmediate(r)
       PROVE  r \notin Dispatch /\ IssueAll(r) /\ Unfinalized(r)
  BY <1>16 DEF FinalizeImmediate, RepairImmediate, CanRepair, InTime, Unfinalized
<1>17. ASSUME NEW r \in Rsv, FinalizeDispatch(r) \/ RepairDispatch(r)
       PROVE  Allocate(r) /\ Unfinalized(r)
  BY <1>17 DEF FinalizeDispatch, RepairDispatch, CanRepair, InTime, Unfinalized
<1> QED
  BY <1>1, <1>2, <1>3, <1>4, <1>5, <1>6, <1>7, <1>8, <1>9, <1>10, <1>11, <1>12, <1>13,
     <1>14, <1>15, <1>16, <1>17 DEF Next

(***************************************************************************)
(* The reservation table keeps its types and agrees with the invoices on   *)
(* what was shipped, for every set of reservations and every race between  *)
(* their transactions.                                                     *)
(***************************************************************************)
THEOREM ReservationsConsistent == Spec => [](TypeOK /\ ReservationFollowsInvoice)
<1>1. Consistent => TypeOK /\ ReservationFollowsInvoice
  BY DEF Consistent
<1> QED BY InitConsistent, NextConsistent, <1>1, PTL DEF Spec

----------------------------------------------------------------------------
(***************************************************************************)
(* No over-reservation.  A step that touches reservation r changes only    *)
(* r's share of the sum, so each case compares r's new share and the new   *)
(* stock with the old ones (SumChange).                                    *)
(***************************************************************************)
\* A consistent reservation never holds a negative or an excessive quantity.
LEMMA HeldType == Consistent => Held \in Quantities
BY ReservationConstants
   DEF Consistent, TypeOK, Shape, Held, Quantities

\* Only r changes: then the sums are related through everyone else's.
LEMMA HeldChange ==
    ASSUME Consistent, Consistent', NEW r \in Rsv,
           \A x \in Rsv \ {r} : /\ rqty'[x] = rqty[x] /\ rcons'[x] = rcons[x]
                                 /\ \/ rstate'[x] = rstate[x]
                                    \/ rstate[x] = "lapsed" /\ rstate'[x] = "expired"
    PROVE  /\ Reserved' = ReservedByOthers(r) + Held'[r]
           /\ Reserved = ReservedByOthers(r) + Held[r]
           /\ ReservedByOthers(r) \in Nat
           /\ Held[r] \in Nat /\ Held'[r] \in Nat
<1>1. Held \in Quantities /\ Held' \in Quantities
  <2>1. Held' \in Quantities
    BY ReservationConstants
       DEF Consistent, TypeOK, Shape, Held, Quantities
  <2> QED BY <2>1, HeldType
<1>2. \A x \in Rsv \ {r} : Held'[x] = Held[x]
  BY DEF Held, Protects
<1>3. /\ SumOver(Held', Rsv) = SumOver(Held, Rsv \ {r}) + Held'[r]
      /\ SumOver(Held, Rsv) = SumOver(Held, Rsv \ {r}) + Held[r]
      /\ SumOver(Held, Rsv \ {r}) \in Nat
  BY <1>1, <1>2, SumChange
<1>4. Held[r] \in Nat /\ Held'[r] \in Nat
  BY <1>1, ReservationConstants DEF Quantities
<1>5. Reserved' = SumOver(Held', Rsv)
  BY DEF Reserved, SumOver, Units, Qty
<1> QED BY <1>3, <1>4, <1>5 DEF Reserved, ReservedByOthers

\* A step that leaves the reservations alone leaves the sum alone.
LEMMA HeldSame ==
    ASSUME UNCHANGED <<rstate, rqty, rcons>>
    PROVE  Reserved' = Reserved
<1>1. Held' = Held
  BY DEF Held, Protects
<1> QED BY <1>1 DEF Reserved, SumOver, Units, Qty

\* The sum of what is reserved is a number.
LEMMA ReservedNat == Reserved \in Nat
BY UnitsFinite DEF Reserved

\* Every operation keeps the promises covered by stock, if no old check of a
\* counter or dispatch order is acted on.
LEMMA NextCovered ==
    ASSUME RacesConfined, Consistent, Consistent', NoOverReservation, [Next]_vars
    PROVE  NoOverReservation'
<1> USE ReservationConstants, ReservedNat
<1> USE DEF NoOverReservation
<1>0. physical \in Nat /\ physical' \in Nat
  BY DEF Consistent, TypeOK
<1>t. \A x \in Rsv : /\ rqty[x] \in 0 .. MaxQty /\ rcons[x] \in 0 .. MaxQty
                     /\ rcons[x] <= rqty[x]
                     /\ rstate[x] \in {"none", "active", "lapsed", "expired", "released"} => rcons[x] = 0
                     /\ rstate[x] = "consumed" => rcons[x] = rqty[x]
                     /\ x \in Dispatch => rcons[x] = shipped[x]
  BY DEF Consistent, TypeOK, ReservationFollowsInvoice, Shape, Invoiced, RState
<1>f. /\ rstate \in [Rsv -> RState] /\ tx \in [Rsv -> Tx]
      /\ rqty \in [Rsv -> 0 .. MaxQty] /\ rcons \in [Rsv -> 0 .. MaxQty]
      /\ shipped \in [Rsv -> 0 .. MaxQty]
  BY DEF Consistent, TypeOK
<1>c. \A x \in Rsv : /\ tx[x] # "checked"
                     /\ x \in Dispatch => tx[x] = "idle"
                     /\ x \notin Pos \cap Stale
  BY DEF Consistent, TypeOK, Tx, Shape, RacesConfined
<1>h. \A x \in Rsv : /\ Held[x] = IF rstate[x] \in {"active", "allocated"} THEN rqty[x] - rcons[x] ELSE 0
                     /\ Held'[x] = IF rstate'[x] \in {"active", "allocated"} THEN rqty'[x] - rcons'[x] ELSE 0
  BY DEF Held, Protects
<1>1. CASE UNCHANGED vars
  BY <1>1, HeldSame DEF vars
<1>2. ASSUME NEW r \in Rsv, NEW old \in Replaced, PosInsert(r, old) PROVE NoOverReservation'
  <2>1. tx[r] # "checked"
    BY <1>2, <1>f, <1>c
  <2> QED BY <1>2, <2>1 DEF PosInsert
<1>3. ASSUME NEW r \in Rsv, Lapse(r) PROVE NoOverReservation'
  <2>1. Held'[r] = 0
    BY <1>3, <1>h, <1>f DEF Lapse
  <2> QED BY <1>0, <1>3, <1>f, <2>1, HeldChange DEF Lapse
<1>4. ASSUME NEW r \in Rsv, StartFinalize(r) \/ StartRepair(r) PROVE NoOverReservation'
  BY <1>4, HeldSame DEF StartFinalize, StartRepair
<1>5. ASSUME NEW r \in Rsv, Rollback(r) PROVE NoOverReservation'
  <2>1. rqty' = rqty
    <3>1. tx[r] # "checked"
      BY <1>5, <1>f, <1>c
    <3> QED BY <1>5, <3>1 DEF Rollback
  <2> QED BY <1>5, <2>1, HeldSame DEF Rollback
<1>6. ASSUME NEW r \in Rsv, IssueAll(r) PROVE NoOverReservation'
  <2>1. Held'[r] = 0
    BY <1>6, <1>h, <1>f DEF IssueAll
  <2> QED BY <1>0, <1>6, <1>f, <1>t, <2>1, HeldChange DEF IssueAll, CanIssue
<1>7. ASSUME NEW r \in Rsv, FinalizeDispatch(r) PROVE NoOverReservation'
  <2>1. rstate[r] = "active"
    BY <1>7, <1>t, <1>f, <1>c DEF FinalizeDispatch, InTime
  <2>2. Held'[r] = Held[r]
    BY <1>7, <1>h, <1>f, <2>1 DEF FinalizeDispatch, Allocate
  <2> QED BY <1>0, <1>7, <1>f, <2>2, HeldChange DEF FinalizeDispatch, Allocate
<1>8. ASSUME NEW r \in Rsv, RepairDispatch(r) PROVE NoOverReservation'
  <2>1. RepairCovered(r) /\ rcons[r] = 0
    <3>1. tx[r] = "idle"
      BY <1>8, <1>f, <1>c DEF RepairDispatch
    <3> QED BY <1>8, <1>t, <3>1 DEF RepairDispatch, CanRepair, Unfinalized
  <2>2. Held'[r] = rqty[r]
    BY <1>8, <1>h, <1>f, <1>t, <2>1 DEF RepairDispatch, Allocate
  <2> QED BY <1>0, <1>8, <1>f, <1>t, <2>1, <2>2, HeldChange DEF RepairDispatch, Allocate, RepairCovered
<1>9. ASSUME NEW r \in Rsv, NEW s \in {"expired", "released"}, Release(r, s) PROVE NoOverReservation'
  <2>1. Held'[r] = 0
    BY <1>9, <1>h, <1>f DEF Release
  <2> QED BY <1>0, <1>9, <1>f, <2>1, HeldChange DEF Release
<1>10. ASSUME NEW r \in Rsv, NEW q \in Qty, NEW old \in Replaced,
              ReserveLocked(r, q, old) \/ PosReserve(r, q, old)
       PROVE  NoOverReservation'
  <2>1. Held'[r] = q /\ Held[r] = 0
    BY <1>10, <1>h, <1>f, <1>t DEF ReserveLocked, PosReserve, Reserve, Qty
  <2>2. \A x \in Rsv \ {r} : /\ rqty'[x] = rqty[x] /\ rcons'[x] = rcons[x]
                             /\ \/ rstate'[x] = rstate[x]
                                \/ rstate[x] = "lapsed" /\ rstate'[x] = "expired"
    BY <1>10, <1>f DEF ReserveLocked, PosReserve, Reserve, Replaced, Lapsed
  <2> QED BY <1>0, <1>10, <2>1, <2>2, HeldChange DEF ReserveLocked, PosReserve, AvailableFor, Qty
<1>11. ASSUME NEW r \in Rsv, NEW q \in Qty, PosCheck(r, q) PROVE NoOverReservation'
  BY <1>11, <1>f, <1>c DEF PosCheck
<1>12. ASSUME NEW r \in Rsv, NEW q \in Qty, SubmitDelivery(r, q) PROVE NoOverReservation'
  <2>1. Held'[r] = Held[r] - q
    BY <1>12, <1>h, <1>f, <1>t DEF SubmitDelivery, Invoiced, OpenQty, AtMost, Qty
  <2> QED BY <1>0, <1>12, <1>f, <2>1, HeldChange DEF SubmitDelivery, Qty
<1>13. ASSUME NEW r \in Rsv, NEW q \in Qty, CancelDelivery(r, q) PROVE NoOverReservation'
  <2>1. Held'[r] = Held[r] + q
    BY <1>13, <1>h, <1>f, <1>t DEF CancelDelivery, Invoiced, Qty
  <2> QED BY <1>0, <1>13, <1>f, <2>1, HeldChange DEF CancelDelivery, Qty
<1>14. ASSUME NEW q \in Qty, Receive(q) \/ Issue(q) PROVE NoOverReservation'
  BY <1>0, <1>14, HeldSame DEF Receive, Issue, Qty
<1>15. ASSUME NEW r \in Rsv, FinalizeImmediate(r) \/ RepairImmediate(r) PROVE IssueAll(r)
  BY <1>15 DEF FinalizeImmediate, RepairImmediate
<1> QED
  BY <1>1, <1>2, <1>3, <1>4, <1>5, <1>6, <1>7, <1>8, <1>9, <1>10, <1>11, <1>12, <1>13,
     <1>14, <1>15 DEF Next

(***************************************************************************)
(* When only customer pick-up orders act on old checks, stock is never     *)
(* promised twice: whatever the number of orders, their quantities and the *)
(* interleaving of checkouts, payments, expiries, deliveries, cancelled    *)
(* deliveries and repairs, physical stock covers every reservation.        *)
(***************************************************************************)
THEOREM StockNeverOverReserved ==
    ASSUME RacesConfined
    PROVE  Spec => []NoOverReservation
<1> DEFINE IInv == Consistent /\ NoOverReservation
<1>1. Init => IInv
  <2> SUFFICES ASSUME Init PROVE NoOverReservation
    BY InitConsistent
  <2>1. Units(Held, Rsv) = {}
    BY ReservationConstants DEF Init, Units, Held, Protects, Qty
  <2> QED BY <2>1, FS_EmptySet DEF NoOverReservation, Reserved, SumOver, Init
<1>2. IInv /\ [Next]_vars => IInv'
  BY NextConsistent, NextCovered
<1>3. IInv => NoOverReservation
  OBVIOUS
<1> QED BY <1>1, <1>2, <1>3, PTL DEF Spec

----------------------------------------------------------------------------
\* What one reservation protects is part of what all of them protect.
LEMMA ShareInSum ==
    ASSUME NEW h \in Quantities, NEW S \in SUBSET Rsv, NEW r \in S
    PROVE  h[r] <= SumOver(h, S)
<1> DEFINE Own == {r} \X (1 .. h[r])
<1>1. h[r] \in 0 .. MaxQty /\ MaxQty \in Nat
  BY ReservationConstants DEF Quantities
<1>2. Own \subseteq Units(h, S)
  BY <1>1 DEF Units, Qty
<1>3. IsFiniteSet(Units(h, S)) /\ SumOver(h, S) \in Nat
  BY UnitsFinite
<1>4. Cardinality(Own) = h[r]
  BY OwnUnits
<1>5. Cardinality(Own) <= Cardinality(Units(h, S))
  BY <1>2, <1>3, FS_Subset
<1> QED BY <1>4, <1>5 DEF SumOver

\* Goods leave only for the order that they are reserved for, or from what
\* nobody has reserved.
LEMMA IssueSpares ==
    ASSUME Consistent, Consistent', Next, physical' < physical, NEW r \in Rsv,
           Held'[r] = Held[r], Held[r] > 0
    PROVE  Held[r] <= physical'
<1> USE ReservationConstants
<1>t. /\ physical \in Nat /\ physical' \in Nat /\ Held \in Quantities
      /\ Held[r] \in Nat /\ Reserved \in Nat /\ Held[r] <= Reserved
  <2>1. physical \in Nat /\ physical' \in Nat /\ Held \in Quantities
    BY HeldType DEF Consistent, TypeOK
  <2>2. Held[r] \in Nat
    BY <2>1 DEF Quantities
  <2> QED BY <2>1, <2>2, ReservedNat, ShareInSum DEF Reserved
<1>h. Held'[r] = IF rstate'[r] \in {"active", "allocated"} THEN rqty'[r] - rcons'[r] ELSE 0
  BY DEF Held, Protects
<1>1. ASSUME NEW q \in Rsv \ {r}, physical' >= ReservedByOthers(q) PROVE Held[r] <= physical'
  <2>1. r \in Rsv \ {q} /\ Rsv \ {q} \in SUBSET Rsv
    OBVIOUS
  <2>2. Held[r] <= SumOver(Held, Rsv \ {q}) /\ SumOver(Held, Rsv \ {q}) \in Nat
    BY <1>t, <2>1, ShareInSum, UnitsFinite
  <2> QED BY <1>1, <1>t, <2>2 DEF ReservedByOthers
<1>2. ASSUME NEW q \in Rsv, IssueAll(q) PROVE Held[r] <= physical'
  <2>1. q # r
    BY <1>2, <1>h DEF IssueAll, Consistent, TypeOK
  <2> QED BY <1>1, <1>2, <2>1 DEF IssueAll, CanIssue
<1>3. ASSUME NEW q \in Rsv, NEW n \in Qty, SubmitDelivery(q, n) PROVE Held[r] <= physical'
  <2>1. CASE q = r
    <3>1. Held'[r] = Held[r] - n
      <4>1. /\ rqty[r] \in Nat /\ rcons[r] \in Nat /\ n \in Nat /\ n > 0 /\ shipped[r] \in Nat
            /\ rstate[r] \in {"allocated", "consumed"} /\ r \in Dispatch
            /\ rstate[r] = "consumed" => rcons[r] = rqty[r]
            /\ rcons[r] = shipped[r]
        BY <1>3, <2>1 DEF Consistent, TypeOK, ReservationFollowsInvoice, SubmitDelivery, Invoiced, Qty
      <4>2. n <= rqty[r] - shipped[r]
        BY <1>3, <2>1 DEF SubmitDelivery, OpenQty
      <4>3. rcons[r] + n <= rqty[r]
        BY <4>1, <4>2
      <4>4. /\ rcons'[r] = rcons[r] + n /\ rqty'[r] = rqty[r]
            /\ rstate'[r] = IF rcons[r] + n >= rqty[r] THEN "consumed" ELSE "allocated"
        BY <1>3, <2>1, <4>1, <4>3 DEF Consistent, TypeOK, SubmitDelivery, AtMost
      <4>5. Held[r] = IF rstate[r] \in {"active", "allocated"} THEN rqty[r] - rcons[r] ELSE 0
        BY DEF Held, Protects
      <4>6. rstate[r] = "allocated"
        BY <4>1, <4>3
      <4>7. Held[r] = rqty[r] - rcons[r]
        BY <4>5, <4>6
      <4>8. CASE rcons[r] + n >= rqty[r]
        <5>1. Held'[r] = 0
          BY <1>h, <4>4, <4>8
        <5> QED BY <4>1, <4>3, <4>7, <4>8, <5>1
      <4>9. CASE ~(rcons[r] + n >= rqty[r])
        <5>1. Held'[r] = rqty[r] - (rcons[r] + n)
          BY <1>h, <4>4, <4>9
        <5> QED BY <4>1, <4>7, <5>1
      <4> QED BY <4>8, <4>9
    <3> QED BY <1>t, <3>1 DEF Qty
  <2>2. CASE q # r
    BY <1>1, <1>3, <2>2 DEF SubmitDelivery, CanIssue
  <2> QED BY <2>1, <2>2
<1>4. ASSUME NEW n \in Qty, Issue(n) PROVE Held[r] <= physical'
  BY <1>4, <1>t DEF Issue
<1>5. ASSUME physical' = physical PROVE FALSE
  BY <1>5, <1>t
<1>6. ASSUME NEW n \in Qty, Receive(n) \/ \E q \in Rsv : CancelDelivery(q, n) PROVE FALSE
  BY <1>6, <1>t DEF Receive, CancelDelivery, Qty
<1>7. ASSUME NEW q \in Rsv,
             \/ Lapse(q) \/ StartFinalize(q) \/ StartRepair(q) \/ Rollback(q)
             \/ FinalizeDispatch(q) \/ RepairDispatch(q)
             \/ \E s \in {"expired", "released"} : Release(q, s)
             \/ \E old \in Replaced : PosInsert(q, old)
             \/ \E n \in Qty, old \in Replaced : ReserveLocked(q, n, old) \/ PosReserve(q, n, old)
             \/ \E n \in Qty : PosCheck(q, n)
      PROVE  physical' = physical
  BY <1>7 DEF Lapse, StartFinalize, StartRepair, Rollback, FinalizeDispatch, RepairDispatch, Allocate,
              Release, PosInsert, ReserveLocked, PosReserve, PosCheck
<1> QED BY <1>2, <1>3, <1>4, <1>5, <1>6, <1>7 DEF Next, FinalizeImmediate, RepairImmediate

(***************************************************************************)
(* Containment of the races: even where old checks have promised the same  *)
(* stock twice, goods that leave for one order, or for none, leave enough  *)
(* for each other reservation, for every value of the constants.           *)
(***************************************************************************)
THEOREM IssuesSpareOthers == Spec => IssueSparesOthers
<1>1. ASSUME Consistent, Consistent', [Next]_vars
      PROVE  [physical' < physical =>
                \A r \in Rsv : (Held'[r] = Held[r] /\ Held[r] > 0) => Held[r] <= physical']_vars
  BY <1>1, IssueSpares
<1> QED BY <1>1, InitConsistent, NextConsistent, PTL DEF Spec, IssueSparesOthers
=============================================================================

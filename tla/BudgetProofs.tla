---------------------------- MODULE BudgetProofs ----------------------------
(***************************************************************************)
(* Theorems of Budget for every word width, every set of request limits    *)
(* and every number of runs.                                               *)
(*                                                                         *)
(* TypeOK /\ BooksBalance is inductive: what a charge adds is the same     *)
(* whether one looks at the limits (AcceptedCharge) or at the relations    *)
(* between the counters (ChargesBalance), and a refused charge adds        *)
(* nothing.                                                                *)
(***************************************************************************)
EXTENDS Budget, TLAPS

USE BudgetAssumption

Inv == TypeOK /\ BooksBalance

\* What grows in a step stays within the limits: the body of WithinLimits.
GrowsWithin ==
  /\ \A r \in Cumulative : committed'[r] > committed[r]
                             => committed'[r] <= limit'[r]
  /\ \A r \in PerItem : peak'[r] > peak[r] => peak'[r] <= limit'[r]

----------------------------------------------------------------------------

\* The calls are those of the tables.
LEMMA Calls ==
  Call = {"fuel", "string", "source", "import", "input", "output", "request",
          "response", "elements"}
  BY DEF Call, Counted

\* A call charges cumulative resources and checks per-item ones.
LEMMA CallResources ==
  ASSUME NEW call \in Call
  PROVE  /\ Counted[call] \union Sized[call] \subseteq Cumulative
         /\ Checked[call] \subseteq PerItem
  BY Calls DEF Counted, Sized, Checked, Cumulative, PerItem

\* No call breaks the balance between request, response and total, between
\* stdio and host, or between imports and sources except that of an import.
LEMMA ChargesBalance ==
  ASSUME NEW call \in Call, NEW n \in Nat
  PROVE  /\ Requested(call, n, "HostCallBytes") =
              Requested(call, n, "HostRequestBytes")
                + Requested(call, n, "HostResponseBytes")
         /\ Requested(call, n, "InputCalls") + Requested(call, n, "OutputCalls")
              <= Requested(call, n, "HostCalls")
         /\ Requested(call, n, "InputBytes")
              <= Requested(call, n, "HostResponseBytes")
         /\ Requested(call, n, "OutputBytes")
              <= Requested(call, n, "HostRequestBytes")
         /\ call # "import" =>
              /\ Requested(call, n, "ImportCount") = 0
              /\ Requested(call, n, "ImportBytes") = 0
         /\ call = "import" =>
              /\ Requested(call, n, "ImportCount") = 1
              /\ Requested(call, n, "ImportBytes") = n
              /\ Requested(call, n, "SourceCount") = 0
              /\ Requested(call, n, "SourceBytes") = 0
         /\ call = "source" =>
              /\ Requested(call, n, "SourceCount") = 1
              /\ Requested(call, n, "SourceBytes") = n
         /\ call \in {"output", "request"} =>
              /\ Requested(call, n, "HostCalls") = 1
              /\ Requested(call, n, "InputCalls") = 0
  BY Calls DEF Requested, Counted, Sized

\* A request is an amount.
LEMMA RequestedIsNat ==
  ASSUME NEW call \in Call, NEW n \in Nat, NEW r \in Cumulative
  PROVE  Requested(call, n, r) \in Nat
  BY DEF Requested

----------------------------------------------------------------------------
\* What an accepted charge does to a ledger.
LEMMA AcceptedCharge ==
  ASSUME TypeOK, NEW call \in Call, NEW n \in Nat,
         Accept(call, n)
  PROVE  /\ committed' \in [Cumulative -> Nat]
         /\ peak' \in [PerItem -> Nat]
         /\ \A r \in Cumulative :
              /\ committed'[r] = committed[r] + Requested(call, n, r)
              /\ committed'[r] > committed[r] => committed'[r] <= limit[r]
         /\ \A r \in PerItem : peak'[r] > peak[r] => peak'[r] <= limit[r]
<1>1. limit \in [Resource -> Nat]
  BY DEF TypeOK
<1>2. Exceeded(call, n) = {} \/ call = "elements"
  BY DEF Accept, Stops
<1>3. call = "elements" => Counted[call] \union Sized[call] = {}
  BY DEF Counted, Sized
<1>4. \A r \in Counted[call] \union Sized[call] :
        Fits(r, Requested(call, n, r))
  BY <1>2, <1>3 DEF Exceeded
<1>5. TooLarge(call, n) = {}
  BY DEF Accept, Stops
<1>6. ASSUME NEW r \in Cumulative
      PROVE  /\ committed'[r] = committed[r] + Requested(call, n, r)
             /\ committed'[r] \in Nat
             /\ committed'[r] > committed[r] => committed'[r] <= limit[r]
  <2>1. committed'[r] = committed[r] + Requested(call, n, r)
    BY DEF Accept, Commit
  <2>2. committed[r] \in Nat /\ Requested(call, n, r) \in Nat
    BY RequestedIsNat DEF TypeOK
  <2>3. CASE r \in Counted[call] \union Sized[call]
    BY <1>4, <2>1, <2>2, <2>3 DEF Fits
  <2>4. CASE r \notin Counted[call] \union Sized[call]
    <3>1. Requested(call, n, r) = 0
      BY <2>4 DEF Requested
    <3> QED
      BY <2>1, <2>2, <3>1
  <2> QED
    BY <2>3, <2>4
<1>7. committed' \in [Cumulative -> Nat]
  BY <1>6 DEF Accept, Commit
<1>8. ASSUME NEW r \in PerItem
      PROVE  /\ peak'[r] \in Nat
             /\ peak'[r] > peak[r] => peak'[r] <= limit[r]
  <2>1. peak'[r] = IF r \in Checked[call] /\ n > peak[r] THEN n ELSE peak[r]
    BY DEF Accept, UpdatePeak
  <2>2. peak[r] \in Nat /\ limit[r] \in Nat
    BY <1>1 DEF TypeOK, Resource
  <2>3. r \in Checked[call] => ~(n > limit[r])
    BY <1>5 DEF TooLarge
  <2> QED
    BY <2>1, <2>2, <2>3
<1>9. peak' \in [PerItem -> Nat]
  BY <1>8 DEF Accept, UpdatePeak
<1> QED
  BY <1>6, <1>7, <1>8, <1>9

\* A refused charge changes no counter and ends the run with a reason.
LEMMA RefusedCharge ==
  ASSUME NEW call \in Call, NEW n \in Nat, Refuse(call, n)
  PROVE  /\ UNCHANGED <<committed, peak>>
         /\ pc' = "idle"
         /\ stop' \in Resource \union {"None", "Cancelled", "DeadlineExceeded"}
<1>1. stop' \in Stops(call, n)
  BY DEF Refuse
<1>2. Stops(call, n) \subseteq Resource \union {"Cancelled", "DeadlineExceeded"}
  BY CallResources DEF Stops, TooLarge, Exceeded, Resource
<1> QED
  BY <1>1, <1>2 DEF Refuse, ReservesNothing

\* The amounts that steps charge.
LEMMA Amounts ==
  ASSUME TypeOK
  PROVE  Amount \subseteq Nat /\ size \in Nat
  BY DEF TypeOK

----------------------------------------------------------------------------
\* An accepted charge keeps the books, if an import is charged for the module
\* whose source has just been charged.
LEMMA AcceptKeepsBooks ==
  ASSUME Inv, NEW call \in Call, NEW n \in Nat, Accept(call, n),
         call = "import" => pc = "import" /\ n = size,
         pc' = "import" => call = "source" /\ size' = n
  PROVE  BooksBalance'
<1>1. \A r \in Cumulative :
        /\ committed'[r] = committed[r] + Requested(call, n, r)
        /\ committed[r] \in Nat
        /\ Requested(call, n, r) \in Nat
  BY AcceptedCharge, RequestedIsNat DEF Inv, TypeOK
<1>2. /\ committed'["HostCallBytes"] =
           committed'["HostRequestBytes"] + committed'["HostResponseBytes"]
      /\ committed'["InputCalls"] + committed'["OutputCalls"]
           <= committed'["HostCalls"]
      /\ committed'["InputBytes"] <= committed'["HostResponseBytes"]
      /\ committed'["OutputBytes"] <= committed'["HostRequestBytes"]
  BY <1>1, ChargesBalance DEF Inv, BooksBalance, Cumulative
<1>3. /\ committed'["ImportCount"] <= committed'["SourceCount"]
      /\ committed'["ImportBytes"] <= committed'["SourceBytes"]
  <2>1. CASE call = "import"
    BY <1>1, <2>1, ChargesBalance, Amounts DEF Inv, BooksBalance, Cumulative
  <2>2. CASE call # "import"
    BY <1>1, <2>2, ChargesBalance DEF Inv, BooksBalance, Cumulative
  <2> QED
    BY <2>1, <2>2
<1>4. ASSUME pc' = "import"
      PROVE  /\ committed'["ImportCount"] < committed'["SourceCount"]
             /\ committed'["ImportBytes"] + size' <= committed'["SourceBytes"]
  BY <1>1, <1>4, ChargesBalance DEF Inv, BooksBalance, Cumulative
<1> QED
  BY <1>2, <1>3, <1>4 DEF BooksBalance

\* A refused charge keeps them too.
LEMMA RefuseKeepsBooks ==
  ASSUME Inv, NEW call \in Call, NEW n \in Nat, Refuse(call, n)
  PROVE  BooksBalance'
  BY RefusedCharge DEF Inv, BooksBalance

\* Either way the state stays well-typed where a charge changes it.
LEMMA ChargeKeepsTypes ==
  ASSUME Inv, NEW call \in Call, NEW n \in Nat, NEW next,
         next \in {"module", "import", "script"},
         ChargeThen(call, n, next)
  PROVE  /\ committed' \in [Cumulative -> Nat]
         /\ peak' \in [PerItem -> Nat]
         /\ pc' \in {"idle", next}
         /\ stop' \in Resource \union {"None", "Cancelled", "DeadlineExceeded"}
<1>1. CASE Accept(call, n) /\ pc' = next /\ UNCHANGED stop
  BY <1>1, AcceptedCharge DEF Inv, TypeOK
<1>2. CASE Refuse(call, n)
  BY <1>2, RefusedCharge DEF Inv, TypeOK
<1> QED
  BY <1>1, <1>2 DEF ChargeThen

\* A charge of anything but an import, from any state that goes on elsewhere
\* than to an import.
LEMMA ChargeKeepsBooks ==
  ASSUME Inv, NEW call \in Call, NEW n \in Nat, NEW next,
         ChargeThen(call, n, next),
         call = "import" => pc = "import" /\ n = size,
         next = "import" => call = "source" /\ size' = n
  PROVE  BooksBalance'
  BY AcceptKeepsBooks, RefuseKeepsBooks DEF ChargeThen

----------------------------------------------------------------------------
\* The invariant is inductive.

LEMMA InitInv == Init => Inv
<1> SUFFICES ASSUME Init PROVE Inv
  OBVIOUS
<1>1. {cancelled, expired, installed} \subseteq BOOLEAN
  BY Zenon DEF Init
<1>2. TypeOK
  BY <1>1 DEF Init, TypeOK
<1>3. BooksBalance
  BY DEF Init, BooksBalance, Cumulative
<1> QED
  BY <1>2, <1>3 DEF Inv

\* A new ledger.
LEMMA ResetInv ==
  ASSUME Inv, NEW config \in Configs, Begin, Reset(config)
  PROVE  /\ limit' \in Configs
         /\ committed' \in [Cumulative -> Nat]
         /\ peak' \in [PerItem -> Nat]
         /\ effects' \in Nat
         /\ BooksBalance'
<1>1. pc' # "import"
  BY DEF Begin
<1>2. BooksBalance'
  BY <1>1 DEF Reset, BooksBalance, Cumulative
<1> QED
  BY <1>2 DEF Reset

\* What the beginning of any run does to the rest of the state.
LEMMA BeginTypes ==
  ASSUME Inv, Begin
  PROVE  /\ {cancelled', expired'} \subseteq BOOLEAN
         /\ pc' \in {"idle", "root"}
         /\ size' \in Amount \union {0}
         /\ stop' \in {"None", "Cancelled"}
         /\ runs' \in Nat
<1>1. {cancelled', expired'} \subseteq BOOLEAN
  BY Zenon DEF Begin
<1>2. pc' \in {"idle", "root"} /\ stop' \in {"None", "Cancelled"}
  BY DEF Begin
<1>3. size' \in Amount \union {0} /\ runs' \in Nat
  BY DEF Begin, Inv, TypeOK
<1> QED
  BY <1>1, <1>2, <1>3

LEMMA RunInv ==
  ASSUME Inv, NEW config \in Configs, Run(config) \/ FirstSubmission(config)
  PROVE  Inv'
<1>1. Begin /\ Reset(config) /\ installed' \in BOOLEAN
  BY DEF Run, FirstSubmission, Inv, TypeOK
<1>2. TypeOK'
  BY <1>1, ResetInv, BeginTypes DEF TypeOK
<1> QED
  BY <1>1, <1>2, ResetInv DEF Inv

LEMMA SubmissionInv ==
  ASSUME Inv, NEW config \in Configs, NextSubmission(config)
  PROVE  Inv'
<1>1. /\ committed' = [committed EXCEPT !["Fuel"] = 0]
      /\ limit' \in Configs
      /\ UNCHANGED <<peak, installed, effects>>
      /\ Begin
  BY DEF NextSubmission, Rearmed
<1>2. committed \in [Cumulative -> Nat]
  BY DEF Inv, TypeOK
<1>3. TypeOK'
  BY <1>1, <1>2, BeginTypes DEF Inv, TypeOK
<1>4. BooksBalance'
  BY <1>1, <1>2, BeginTypes DEF Inv, BooksBalance, Cumulative
<1> QED
  BY <1>3, <1>4 DEF Inv

\* Steps that charge nothing.
LEMMA UnchargedInv ==
  ASSUME Inv, EndRun \/ Cancel \/ Expire \/ Linked
  PROVE  Inv'
<1>1. UNCHANGED <<limit, committed, peak, size>>
  BY DEF EndRun, Cancel, Expire, Linked, Quiet, HostState
<1>2. pc' = "import" => pc = "import"
  BY DEF EndRun, Cancel, Expire, Linked
<1>3. TypeOK'
  <2>1. {cancelled', expired', installed'} \subseteq BOOLEAN
    BY DEF EndRun, Cancel, Expire, Linked, Quiet, HostState,
           Inv, TypeOK
  <2>2. /\ pc' \in {"idle", "root", "module", "import", "script", "response"}
        /\ stop' \in Resource \union {"None", "Cancelled", "DeadlineExceeded"}
        /\ runs' \in Nat
    BY DEF EndRun, Cancel, Expire, Linked, Quiet, HostState,
           Inv, TypeOK
  <2>3. effects' \in Nat
    BY DEF EndRun, Cancel, Expire, Linked, Quiet, Effect,
           Inv, TypeOK
  <2> QED
    BY <1>1, <2>1, <2>2, <2>3 DEF Inv, TypeOK
<1>4. BooksBalance'
  BY <1>1, <1>2 DEF Inv, BooksBalance
<1> QED
  BY <1>3, <1>4 DEF Inv

\* Steps that charge and have no effect on the host.
LEMMA QuietChargeInv ==
  ASSUME Inv, NEW call \in Call, NEW n \in Nat, NEW next,
         next \in {"module", "import", "script"},
         ChargeThen(call, n, next), Quiet, size' \in Amount \union {0},
         call = "import" => pc = "import" /\ n = size,
         next = "import" => call = "source" /\ size' = n
  PROVE  Inv'
<1>1. BooksBalance'
  BY ChargeKeepsBooks
<1>2. TypeOK'
  <2>1. UNCHANGED <<limit, cancelled, expired, installed, effects, runs>>
    BY DEF Quiet
  <2>2. pc' \in {"idle", "root", "module", "import", "script", "response"}
    BY ChargeKeepsTypes
  <2> QED
    BY <2>1, <2>2, ChargeKeepsTypes DEF Inv, TypeOK
<1> QED
  BY <1>1, <1>2 DEF Inv

LEMMA LinkInv ==
  ASSUME Inv, NEW n \in Amount, LinkRoot(n) \/ LinkModule(n)
  PROVE  Inv'
<1>1. n \in Nat /\ size \in Amount \union {0}
  BY Amounts DEF Inv, TypeOK
<1>2. CASE LinkRoot(n)
  <2>1. ChargeThen("source", n, "module") /\ Quiet /\ UNCHANGED size
    BY <1>2 DEF LinkRoot
  <2> QED
    BY <1>1, <2>1, QuietChargeInv, Calls
<1>3. CASE LinkModule(n)
  <2>1. ChargeThen("source", n, "import") /\ Quiet /\ size' = n
    BY <1>3 DEF LinkModule
  <2> QED
    BY <1>1, <2>1, QuietChargeInv, Calls
<1> QED
  BY <1>2, <1>3

LEMMA ImportInv ==
  ASSUME Inv, LinkImport
  PROVE  Inv'
<1>1. /\ pc = "import"
      /\ ChargeThen("import", size, "module") /\ Quiet /\ size' = 0
  BY DEF LinkImport
<1>2. size \in Nat
  BY Amounts DEF Inv
<1> QED
  BY <1>1, <1>2, QuietChargeInv, Calls

LEMMA ComputeInv ==
  ASSUME Inv, NEW n \in Amount, NEW call \in Call,
         Compute(call, n) \/ FileResponse(n) \/ Input(n)
  PROVE  Inv'
<1>1. n \in Nat /\ size \in Amount \union {0}
  BY Amounts DEF Inv, TypeOK
<1>2. CASE Compute(call, n)
  <2>1. /\ call \in {"fuel", "string", "elements"}
        /\ ChargeThen(call, n, "script") /\ Quiet /\ UNCHANGED size
    BY <1>2 DEF Compute
  <2> QED
    BY <1>1, <2>1, QuietChargeInv
<1>3. CASE FileResponse(n)
  <2>1. ChargeThen("response", n, "script") /\ Quiet /\ UNCHANGED size
    BY <1>3 DEF FileResponse
  <2> QED
    BY <1>1, <2>1, QuietChargeInv, Calls
<1>4. CASE Input(n)
  <2>1. ChargeThen("input", n, "script") /\ Quiet /\ UNCHANGED size
    BY <1>4 DEF Input
  <2> QED
    BY <1>1, <2>1, QuietChargeInv, Calls
<1> QED
  BY <1>2, <1>3, <1>4

\* Calls that may take effect: what they do besides the charge.
LEMMA HostChargeInv ==
  ASSUME Inv, NEW call \in {"output", "request"}, NEW n \in Nat,
         \/ Accept(call, n) /\ pc' \in {pc, "response", "script"}
                            /\ UNCHANGED stop
         \/ Refuse(call, n),
         pc = "script", Effect \/ UNCHANGED effects, HostState,
         UNCHANGED size
  PROVE  Inv'
<1>1. call \in Call /\ call # "import"
  BY Calls
<1>2. CASE Accept(call, n) /\ pc' \in {pc, "response", "script"}
             /\ UNCHANGED stop
  <2>1. BooksBalance'
    BY <1>1, <1>2, AcceptKeepsBooks
  <2>2. /\ committed' \in [Cumulative -> Nat] /\ peak' \in [PerItem -> Nat]
        /\ pc' \in {"response", "script"} /\ UNCHANGED stop
    BY <1>1, <1>2, AcceptedCharge DEF Inv
  <2>3. effects' \in Nat
    BY DEF Effect, Inv, TypeOK
  <2>4. TypeOK'
    BY <2>2, <2>3 DEF HostState, Inv, TypeOK
  <2> QED
    BY <2>1, <2>4 DEF Inv
<1>3. CASE Refuse(call, n)
  <2>1. BooksBalance'
    BY <1>1, <1>3, RefuseKeepsBooks
  <2>2. /\ UNCHANGED <<committed, peak>> /\ pc' = "idle"
        /\ stop' \in Resource \union {"None", "Cancelled", "DeadlineExceeded"}
    BY <1>1, <1>3, RefusedCharge
  <2>3. effects' \in Nat
    BY DEF Effect, Inv, TypeOK
  <2>4. TypeOK'
    BY <2>2, <2>3 DEF HostState, Inv, TypeOK
  <2> QED
    BY <2>1, <2>4 DEF Inv
<1> QED
  BY <1>2, <1>3

LEMMA HostInv ==
  ASSUME Inv, NEW n \in Amount, WriteLine(n) \/ FileRequest(n)
  PROVE  Inv'
<1>1. n \in Nat
  BY Amounts DEF Inv
<1>2. pc = "script" /\ HostState /\ UNCHANGED size
  BY DEF WriteLine, FileRequest
<1>3. Effect \/ UNCHANGED effects
  BY DEF WriteLine, FileRequest
<1>4. CASE WriteLine(n)
  BY <1>1, <1>2, <1>3, <1>4, HostChargeInv DEF WriteLine
<1>5. CASE FileRequest(n)
  BY <1>1, <1>2, <1>3, <1>5, HostChargeInv DEF FileRequest
<1> QED
  BY <1>4, <1>5

LEMMA NextInv == Inv /\ [Next]_vars => Inv'
<1> SUFFICES ASSUME Inv, [Next]_vars PROVE Inv'
  OBVIOUS
<1>1. CASE UNCHANGED vars
  BY <1>1 DEF vars, Inv, TypeOK, BooksBalance
<1>2. ASSUME NEW config \in Configs, Run(config) \/ FirstSubmission(config)
      PROVE  Inv'
  BY <1>2, RunInv
<1>3. ASSUME NEW config \in Configs, NextSubmission(config) PROVE Inv'
  BY <1>3, SubmissionInv
<1>4. CASE EndRun \/ Cancel \/ Expire \/ Linked
  BY <1>4, UnchargedInv
<1>5. CASE LinkImport
  BY <1>5, ImportInv
<1>6. ASSUME NEW n \in Amount, LinkRoot(n) \/ LinkModule(n)
      PROVE  Inv'
  BY <1>6, LinkInv
<1>7. ASSUME NEW n \in Amount, NEW call \in Call,
             Compute(call, n) \/ FileResponse(n) \/ Input(n)
      PROVE  Inv'
  BY <1>7, ComputeInv
<1>8. ASSUME NEW n \in Amount, WriteLine(n) \/ FileRequest(n)
      PROVE  Inv'
  BY <1>8, HostInv
<1>9. "fuel" \in Call
  BY Calls
<1> QED
  BY <1>1, <1>2, <1>3, <1>4, <1>5, <1>6, <1>7, <1>8, <1>9 DEF Next

----------------------------------------------------------------------------
(***************************************************************************)
(* The invariant holds of every run and session.                           *)
(***************************************************************************)
THEOREM InvHolds == Spec => []Inv
<1>1. Init => Inv
  BY InitInv
<1>2. Inv /\ [Next]_vars => Inv'
  BY NextInv
<1> QED
  BY <1>1, <1>2, PTL DEF Spec

(***************************************************************************)
(* The ledger is well-typed after any calls (BudgetLedger).                *)
(***************************************************************************)
THEOREM TypeCorrect == Spec => []TypeOK
<1>1. Inv => TypeOK
  BY DEF Inv
<1> QED
  BY <1>1, InvHolds, PTL

(***************************************************************************)
(* What a script uses stays within the limits in force, whatever the word  *)
(* width, the limits, the number of submissions, the limits each of them   *)
(* brings and the resource vectors of the calls (reserve_all checks every  *)
(* resource before it reserves any).                                       *)
(***************************************************************************)
THEOREM WithinLimitsHolds == Spec => WithinLimits
<1>1. ASSUME Inv, [Next]_vars
      PROVE  [GrowsWithin]_vars
  <2>1. committed \in [Cumulative -> Nat] /\ peak \in [PerItem -> Nat]
    BY <1>1 DEF Inv, TypeOK
  <2>2. ASSUME UNCHANGED <<committed, peak>> PROVE GrowsWithin
    BY <2>1, <2>2 DEF GrowsWithin
  <2>3. ASSUME NEW call \in Call, NEW n \in Nat, Accept(call, n), limit' = limit
        PROVE  GrowsWithin
    BY <1>1, <2>3, AcceptedCharge DEF Inv, GrowsWithin
  <2>4. ASSUME NEW call \in Call, NEW n \in Nat, Refuse(call, n)
        PROVE  GrowsWithin
    BY <2>2, <2>4, RefusedCharge
  <2>5. ASSUME NEW call \in Call, NEW n \in Nat, NEW next,
               ChargeThen(call, n, next), limit' = limit
        PROVE  GrowsWithin
    BY <2>3, <2>4, <2>5 DEF ChargeThen
  <2>6. ASSUME NEW config \in Configs,
               Run(config) \/ FirstSubmission(config) \/ NextSubmission(config)
        PROVE  GrowsWithin
    <3>1. /\ \A r \in Cumulative : committed'[r] \in {0, committed[r]}
          /\ \A r \in PerItem : peak'[r] \in {0, peak[r]}
      BY <2>1, <2>6
         DEF Run, FirstSubmission, NextSubmission, Reset, Rearmed
    <3> QED
      BY <2>1, <3>1 DEF GrowsWithin
  <2>7. CASE EndRun \/ Cancel \/ Expire \/ Linked
    BY <2>2, <2>7 DEF EndRun, Cancel, Expire, Linked
  <2>8. CASE LinkImport
    BY <1>1, <2>5, <2>8, Amounts, Calls DEF LinkImport, Quiet, Inv
  <2>9. ASSUME NEW n \in Amount,
               LinkRoot(n) \/ LinkModule(n) \/ FileResponse(n) \/ Input(n)
        PROVE  GrowsWithin
    BY <1>1, <2>5, <2>9, Amounts, Calls
       DEF LinkRoot, LinkModule, FileResponse, Input, Quiet, Inv
  <2>10. ASSUME NEW n \in Amount, NEW call \in Call, Compute(call, n)
         PROVE  GrowsWithin
    BY <1>1, <2>5, <2>10, Amounts DEF Compute, Quiet, Inv
  <2>11. ASSUME NEW n \in Amount, WriteLine(n) \/ FileRequest(n)
         PROVE  GrowsWithin
    BY <1>1, <2>3, <2>4, <2>11, Amounts, Calls
       DEF WriteLine, FileRequest, HostState, Inv
  <2>12. CASE UNCHANGED vars
    BY <2>12
  <2> QED
    BY <1>1, <2>6, <2>7, <2>8, <2>9, <2>10, <2>11, <2>12 DEF Next
<1> QED
  BY <1>1, InvHolds, PTL DEF Spec, WithinLimits, GrowsWithin

(***************************************************************************)
(* Counters charged by different calls agree with one another, although a  *)
(* call may be refused between two of its charges (charge_link,            *)
(* apply_pure_core_builtin).                                               *)
(***************************************************************************)
THEOREM BooksBalanceHolds == Spec => []BooksBalance
<1>1. Inv => BooksBalance
  BY DEF Inv
<1> QED
  BY <1>1, InvHolds, PTL

(***************************************************************************)
(* Every submission starts with all of its fuel (run_for_repl).            *)
(***************************************************************************)
THEOREM FuelStartsFullHolds == Spec => []FuelStartsFull
<1>1. Init => FuelStartsFull
  BY DEF Init, FuelStartsFull
<1>2. Inv /\ FuelStartsFull /\ [Next]_vars => FuelStartsFull'
  <2> SUFFICES ASSUME Inv, FuelStartsFull, [Next]_vars, pc' = "root"
               PROVE  committed'["Fuel"] = 0
    BY DEF FuelStartsFull
  <2>1. committed \in [Cumulative -> Nat] /\ "Fuel" \in Cumulative
    BY DEF Inv, TypeOK, Cumulative
  <2>2. CASE \E config \in Configs : Run(config) \/ FirstSubmission(config)
    BY <2>1, <2>2 DEF Run, FirstSubmission, Reset
  <2>3. CASE \E config \in Configs : NextSubmission(config)
    BY <2>1, <2>3 DEF NextSubmission, Rearmed
  <2>4. CASE Cancel \/ Expire \/ UNCHANGED vars
    BY <2>4 DEF Cancel, Expire, vars, FuelStartsFull
  <2>5. ASSUME NEW call, NEW n, NEW next, ChargeThen(call, n, next),
               next # "root"
        PROVE  FALSE
    BY <2>5 DEF ChargeThen, Refuse
  <2>6. ~(EndRun \/ Linked)
    BY DEF EndRun, Linked
  <2>7. ~LinkImport
    BY <2>5 DEF LinkImport
  <2>8. ASSUME NEW n \in Amount
        PROVE  /\ ~LinkRoot(n) /\ ~LinkModule(n)
               /\ ~FileResponse(n) /\ ~Input(n)
               /\ \A call \in Call : ~Compute(call, n)
    BY <2>5 DEF LinkRoot, LinkModule, Compute, FileResponse, Input
  <2>9. ASSUME NEW n \in Amount
        PROVE  ~WriteLine(n) /\ ~FileRequest(n)
    BY DEF WriteLine, FileRequest, Refuse
  <2> QED
    BY <2>2, <2>3, <2>4, <2>6, <2>7, <2>8, <2>9 DEF Next
<1> QED
  BY <1>1, <1>2, InvHolds, PTL DEF Spec

(***************************************************************************)
(* A script gives no budget back: counters shrink only when a request      *)
(* makes a new ledger, and only fuel is renewed between submissions        *)
(* (BudgetLedger has no refund on the paths of the program).               *)
(***************************************************************************)
THEOREM OnlyFuelIsRenewedHolds == Spec => OnlyFuelIsRenewed
<1> DEFINE NewLedger == \E config \in Configs :
                          Run(config) \/ FirstSubmission(config)
           Kept == \A r \in Cumulative \ {"Fuel"} : committed'[r] >= committed[r]
<1>1. ASSUME Inv, [Next]_vars
      PROVE  [NewLedger \/ Kept]_vars
  <2>1. committed \in [Cumulative -> Nat]
    BY <1>1 DEF Inv, TypeOK
  <2>2. ASSUME UNCHANGED committed PROVE Kept
    BY <2>1, <2>2
  <2>3. ASSUME NEW call \in Call, NEW n \in Nat, Accept(call, n)
        PROVE  Kept
    <3>1. ASSUME NEW r \in Cumulative
          PROVE  committed'[r] >= committed[r]
      <4>1. committed'[r] = committed[r] + Requested(call, n, r)
        BY <1>1, <2>3, AcceptedCharge DEF Inv
      <4>2. committed[r] \in Nat /\ Requested(call, n, r) \in Nat
        BY <2>1, RequestedIsNat
      <4> QED
        BY <4>1, <4>2
    <3> QED
      BY <3>1
  <2>4. ASSUME NEW call \in Call, NEW n \in Nat, Refuse(call, n)
        PROVE  Kept
    BY <2>2, <2>4 DEF Refuse, ReservesNothing
  <2>5. ASSUME NEW call \in Call, NEW n \in Nat, NEW next,
               ChargeThen(call, n, next)
        PROVE  Kept
    BY <2>3, <2>4, <2>5 DEF ChargeThen
  <2>6. ASSUME NEW config \in Configs, NextSubmission(config)
        PROVE  Kept
    BY <2>1, <2>6 DEF NextSubmission, Rearmed
  <2>7. CASE EndRun \/ Cancel \/ Expire \/ Linked
    BY <2>2, <2>7 DEF EndRun, Cancel, Expire, Linked
  <2>8. CASE LinkImport
    BY <1>1, <2>5, <2>8, Amounts, Calls DEF LinkImport, Inv
  <2>9. ASSUME NEW n \in Amount,
               LinkRoot(n) \/ LinkModule(n) \/ FileResponse(n) \/ Input(n)
        PROVE  Kept
    BY <1>1, <2>5, <2>9, Amounts, Calls
       DEF LinkRoot, LinkModule, FileResponse, Input, Inv
  <2>10. ASSUME NEW n \in Amount, NEW call \in Call, Compute(call, n)
         PROVE  Kept
    BY <1>1, <2>5, <2>10, Amounts DEF Compute, Inv
  <2>11. ASSUME NEW n \in Amount, WriteLine(n) \/ FileRequest(n)
         PROVE  Kept
    BY <1>1, <2>3, <2>4, <2>11, Amounts, Calls DEF WriteLine, FileRequest, Inv
  <2> HIDE DEF NewLedger, Kept
  <2>12. CASE UNCHANGED vars
    BY <2>12
  <2>13. CASE Next /\ ~NewLedger
    BY <2>6, <2>7, <2>8, <2>9, <2>10, <2>11, <2>13 DEF Next, NewLedger
  <2> QED
    BY <1>1, <2>12, <2>13
<1> QED
  BY <1>1, InvHolds, PTL DEF Spec, OnlyFuelIsRenewed

(***************************************************************************)
(* print and the filesystem builtins have been counted before they act on  *)
(* the host, beside every count of input (apply_print,                     *)
(* apply_pure_core_builtin).                                               *)
(***************************************************************************)
THEOREM EffectsArePaidHolds == Spec => []EffectsArePaid
<1>1. Init => EffectsArePaid
  BY DEF Init, EffectsArePaid, Cumulative
<1>2. Inv /\ EffectsArePaid /\ [Next]_vars => EffectsArePaid'
  <2> SUFFICES ASSUME Inv, EffectsArePaid, [Next]_vars
               PROVE  EffectsArePaid'
    OBVIOUS
  <2>1. /\ committed \in [Cumulative -> Nat]
        /\ {"HostCalls", "InputCalls"} \subseteq Cumulative
        /\ committed["HostCalls"] \in Nat /\ committed["InputCalls"] \in Nat
        /\ effects \in Nat
        /\ effects + committed["InputCalls"] <= committed["HostCalls"]
    BY DEF Inv, TypeOK, Cumulative, EffectsArePaid
  <2>2. ASSUME NEW call \in Call, NEW n \in Nat, Accept(call, n),
               \/ UNCHANGED effects
               \/ call \in {"output", "request"} /\ effects' = effects + 1
        PROVE  EffectsArePaid'
    <3> DEFINE h == Requested(call, n, "HostCalls")
               i == Requested(call, n, "InputCalls")
               o == Requested(call, n, "OutputCalls")
    <3>1. h \in Nat /\ i \in Nat /\ o \in Nat
      BY RequestedIsNat DEF Cumulative
    <3>2. i + o <= h /\ (call \in {"output", "request"} => h = 1 /\ i = 0)
      BY ChargesBalance
    <3>3. /\ committed'["HostCalls"] = committed["HostCalls"] + h
          /\ committed'["InputCalls"] = committed["InputCalls"] + i
      BY <2>1, <2>2, AcceptedCharge DEF Inv
    <3> HIDE DEF h, i, o
    <3> QED
      BY <2>1, <2>2, <3>1, <3>2, <3>3 DEF EffectsArePaid
  <2>3. ASSUME UNCHANGED committed, UNCHANGED effects
        PROVE  EffectsArePaid'
    BY <2>1, <2>3 DEF EffectsArePaid
  <2>4. ASSUME NEW call \in Call, NEW n \in Nat, NEW next,
               ChargeThen(call, n, next), UNCHANGED effects
        PROVE  EffectsArePaid'
    BY <2>2, <2>3, <2>4 DEF ChargeThen, Refuse, ReservesNothing
  <2>5. CASE \E config \in Configs : Run(config) \/ FirstSubmission(config)
    BY <2>1, <2>5 DEF Run, FirstSubmission, Reset, EffectsArePaid
  <2>6. CASE \E config \in Configs : NextSubmission(config)
    BY <2>1, <2>6 DEF NextSubmission, Rearmed, EffectsArePaid
  <2>7. CASE EndRun \/ Cancel \/ Expire \/ Linked \/ UNCHANGED vars
    BY <2>3, <2>7 DEF EndRun, Cancel, Expire, Linked, Quiet, vars
  <2>8. CASE LinkImport
    BY <2>4, <2>8, Amounts, Calls DEF LinkImport, Quiet, Inv
  <2>9. ASSUME NEW n \in Amount,
               LinkRoot(n) \/ LinkModule(n) \/ FileResponse(n) \/ Input(n)
        PROVE  EffectsArePaid'
    BY <2>4, <2>9, Amounts, Calls
       DEF LinkRoot, LinkModule, FileResponse, Input, Quiet, Inv
  <2>10. ASSUME NEW n \in Amount, NEW call \in Call, Compute(call, n)
         PROVE  EffectsArePaid'
    BY <2>4, <2>10, Amounts DEF Compute, Quiet, Inv
  <2>11. ASSUME NEW n \in Amount, WriteLine(n) \/ FileRequest(n)
         PROVE  EffectsArePaid'
    <3>1. PICK call \in {"output", "request"} :
            \/ Accept(call, n) /\ (Effect \/ UNCHANGED effects)
            \/ Refuse(call, n) /\ UNCHANGED effects
      BY <2>11 DEF WriteLine, FileRequest
    <3>2. call \in Call /\ n \in Nat
      BY Calls, Amounts DEF Inv
    <3> QED
      BY <2>2, <2>3, <3>1, <3>2 DEF Effect, Refuse, ReservesNothing
  <2> QED
    BY <2>5, <2>6, <2>7, <2>8, <2>9, <2>10, <2>11 DEF Next
<1> QED
  BY <1>1, <1>2, InvHolds, PTL DEF Spec

=============================================================================

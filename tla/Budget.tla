------------------------------- MODULE Budget -------------------------------
(***************************************************************************)
(* src/budget.rs, BudgetLedger: the cumulative resources of a context, the *)
(* calls that charge them (link, builtins, host boundary) and the runs     *)
(* that install and reset them (src/embedding.rs, src/eval.rs).            *)
(*                                                                         *)
(* A charge reserves a vector of resources and commits all of it before it *)
(* returns, so that reserved is 0 between calls and has no variable here;  *)
(* nothing in the program commits less than it reserved or refunds.  The   *)
(* live heap is not part of this module.  Amounts are u64: Word is the     *)
(* largest.                                                                *)
(***************************************************************************)
EXTENDS Naturals

CONSTANTS
  Word,        \* u64::MAX
  Amount,      \* the amounts and payload sizes calls may have
  Configs,     \* BudgetConfigs a request may carry
  MaxEffects,  \* bound: host effects of one run or session
  MaxRuns      \* bound: runs of a behaviour

Cumulative ==
  {"Fuel", "StringAllocations", "StringBytes", "SourceCount", "SourceBytes",
   "ImportCount", "ImportBytes", "InputCalls", "InputBytes", "OutputCalls",
   "OutputBytes", "HostCalls", "HostRequestBytes", "HostResponseBytes",
   "HostCallBytes"}

PerItem == {"SingleStringBytes", "SingleSourceBytes", "CollectionElements"}

Resource == Cumulative \union PerItem

ASSUME BudgetAssumption ==
  /\ Word \in Nat
  /\ Amount \subseteq 0 .. Word
  /\ Configs \subseteq [Resource -> 0 .. Word]
  /\ MaxEffects \in Nat /\ MaxRuns \in Nat

VARIABLES
  limit,      \* BudgetLedger.config
  committed,  \* BudgetLedger.committed
  peak,       \* BudgetLedger.peaks, of the per-item resources
  cancelled,  \* BudgetLedger.cancellation
  expired,    \* the clock has reached the deadline
  installed,  \* ExecutionContext.repl_budget_installed
  pc,         \* where the run is: "idle", "root", "module", "import", "script"
              \* or "response"
  size,       \* byte length the next step of a call charges
  stop,       \* the ControlStop that ended the last run, or "None"
  effects,    \* what print and the filesystem builtins did to the host since
              \* the counters were reset
  runs        \* runs so far

vars == <<limit, committed, peak, cancelled, expired, installed, pc, size,
          stop, effects, runs>>

----------------------------------------------------------------------------
\* The charge_* calls: the resources charged by one, those charged by the
\* payload, and the per-item resource checked first, if any.

Counted ==
  [fuel |-> {}, string |-> {"StringAllocations"}, source |-> {"SourceCount"},
   import |-> {"ImportCount"}, input |-> {"InputCalls", "HostCalls"},
   output |-> {"OutputCalls", "HostCalls"}, request |-> {"HostCalls"},
   response |-> {}, elements |-> {}]

Sized ==
  [fuel |-> {"Fuel"}, string |-> {"StringBytes"}, source |-> {"SourceBytes"},
   import |-> {"ImportBytes"},
   input |-> {"InputBytes", "HostResponseBytes", "HostCallBytes"},
   output |-> {"OutputBytes", "HostRequestBytes", "HostCallBytes"},
   request |-> {"HostRequestBytes", "HostCallBytes"},
   response |-> {"HostResponseBytes", "HostCallBytes"},
   elements |-> {}]

Checked ==
  [fuel |-> {}, string |-> {"SingleStringBytes"},
   source |-> {"SingleSourceBytes"}, import |-> {}, input |-> {},
   output |-> {}, request |-> {}, response |-> {},
   elements |-> {"CollectionElements"}]

Call == DOMAIN Counted

\* What a call requests of a cumulative resource.
Requested(call, n, r) ==
  IF r \in Counted[call] THEN 1 ELSE IF r \in Sized[call] THEN n ELSE 0

\* Variant: the sum wraps at the width of u64.
WrappedSum(r, n) == (committed[r] + n) % (Word + 1) <= limit[r]

\* reserve_one: the sum must fit a u64 and the limit.
Fits(r, n) == committed[r] + n <= Word /\ committed[r] + n <= limit[r]

\* reserve_all: nothing is reserved unless every resource fits.
Exceeded(call, n) ==
  {r \in Counted[call] \union Sized[call] : ~Fits(r, Requested(call, n, r))}

\* Per-item limits, which are checked before the cumulative ones.
TooLarge(call, n) == {r \in Checked[call] : n > limit[r]}

\* Only reserve_all looks at the deadline: check_collection_elements and a
\* payload over its per-item limit do not get that far.
Stops(call, n) ==
  IF cancelled THEN {"Cancelled"}
  ELSE IF TooLarge(call, n) # {} THEN TooLarge(call, n)
  ELSE IF expired /\ call # "elements" THEN {"DeadlineExceeded"}
  ELSE Exceeded(call, n)

Commit(call, n) ==
  committed' = [r \in Cumulative |-> committed[r] + Requested(call, n, r)]

UpdatePeak(call, n) ==
  peak' = [r \in PerItem |->
             IF r \in Checked[call] /\ n > peak[r] THEN n ELSE peak[r]]

\* A charge that succeeds.
Accept(call, n) ==
  /\ Stops(call, n) = {}
  /\ Commit(call, n)
  /\ UpdatePeak(call, n)

\* BudgetResource::priority, of which the lowest number is reported.
Priority ==
  [Cancelled |-> 0, DeadlineExceeded |-> 0,
   Fuel |-> 1, SingleStringBytes |-> 3, StringAllocations |-> 4,
   StringBytes |-> 5, SingleSourceBytes |-> 6, SourceCount |-> 7,
   SourceBytes |-> 8, ImportCount |-> 9, ImportBytes |-> 10,
   CollectionElements |-> 11, InputCalls |-> 12, InputBytes |-> 13,
   OutputCalls |-> 14, OutputBytes |-> 15, HostCalls |-> 16,
   HostRequestBytes |-> 17, HostResponseBytes |-> 18, HostCallBytes |-> 19]

\* Variant: a refused charge keeps what fitted.
ReservesPart(call, n) ==
  committed' = [r \in Cumulative |->
                  committed[r] + IF Fits(r, Requested(call, n, r))
                                 THEN Requested(call, n, r) ELSE 0]

ReservesNothing(call, n) == UNCHANGED committed

\* A charge that is refused ends the run: no script can catch the error.
Refuse(call, n) ==
  /\ stop' \in {s \in Stops(call, n) :
                  \A other \in Stops(call, n) : Priority[s] <= Priority[other]}
  /\ pc' = "idle"
  /\ ReservesNothing(call, n)
  /\ UNCHANGED peak

----------------------------------------------------------------------------
\* Runs.  A request brings its limits, a token that may be cancelled already
\* and a deadline that is still ahead.

Init ==
  /\ limit \in Configs
  /\ committed = [r \in Cumulative |-> 0]
  /\ peak = [r \in PerItem |-> 0]
  /\ cancelled = FALSE /\ expired = FALSE
  /\ installed = FALSE
  /\ pc = "idle" /\ size = 0
  /\ stop = "None"
  /\ effects = 0 /\ runs = 0

\* pre-run cancel: the run ends before anything is charged.
Begin ==
  /\ pc = "idle"
  /\ runs < MaxRuns
  /\ runs' = runs + 1
  /\ cancelled' \in BOOLEAN
  /\ expired' = FALSE
  /\ pc' = IF cancelled' THEN "idle" ELSE "root"
  /\ stop' = IF cancelled' THEN "Cancelled" ELSE "None"
  /\ UNCHANGED size

\* reset_budget: a new ledger.
Reset(config) ==
  /\ limit' = config
  /\ committed' = [r \in Cumulative |-> 0]
  /\ peak' = [r \in PerItem |-> 0]
  /\ effects' = 0

Run(config) ==
  /\ Begin
  /\ Reset(config)
  /\ UNCHANGED installed

FirstSubmission(config) ==
  /\ ~installed
  /\ Begin
  /\ Reset(config)
  /\ installed' = TRUE

\* Variant of rearm: everything is zeroed.
ZeroAll == [r \in Cumulative |-> 0]

\* rearm_for_repl_submission keeps the session's counters but gives new fuel.
Rearmed == [committed EXCEPT !["Fuel"] = 0]

\* The limits of the new submission may be lower than what was used already.
NextSubmission(config) ==
  /\ installed
  /\ Begin
  /\ limit' = config
  /\ committed' = Rearmed
  /\ UNCHANGED <<peak, installed, effects>>

\* The script is done, an error of another kind ends the run, or the driver
\* sees the cancel or the deadline between two statements.
EndRun ==
  /\ pc \in {"root", "module", "script"}
  /\ pc' = "idle"
  /\ stop' \in {"None"} \union (IF cancelled THEN {"Cancelled"} ELSE {})
                        \union (IF expired THEN {"DeadlineExceeded"} ELSE {})
  /\ UNCHANGED <<limit, committed, peak, cancelled, expired, installed, size,
                 effects, runs>>

\* Any thread may cancel, and time passes.
Cancel ==
  /\ pc # "idle"
  /\ cancelled' = TRUE
  /\ UNCHANGED <<limit, committed, peak, expired, installed, pc, size, stop,
                 effects, runs>>

Expire ==
  /\ pc # "idle"
  /\ expired' = TRUE
  /\ UNCHANGED <<limit, committed, peak, cancelled, installed, pc, size, stop,
                 effects, runs>>

----------------------------------------------------------------------------
\* What a step of the run leaves alone unless it is a host call.
Quiet == UNCHANGED <<limit, cancelled, expired, installed, effects, runs>>

\* A charge, and where the run goes on if it succeeds.
ChargeThen(call, n, next) ==
  \/ Accept(call, n) /\ pc' = next /\ UNCHANGED stop
  \/ Refuse(call, n)

\* charge_link: the root, then each newly loaded module twice.
LinkRoot(n) ==
  /\ pc = "root"
  /\ ChargeThen("source", n, "module")
  /\ Quiet /\ UNCHANGED size

LinkModule(n) ==
  /\ pc = "module"
  /\ ChargeThen("source", n, "import")
  /\ size' = n
  /\ Quiet

LinkImport ==
  /\ pc = "import"
  /\ ChargeThen("import", size, "module")
  /\ size' = 0
  /\ Quiet

Linked ==
  /\ pc = "module"
  /\ pc' = "script"
  /\ Quiet /\ UNCHANGED <<committed, peak, size, stop>>

\* Fuel of a step, a new string, the size of a new collection.
Compute(call, n) ==
  /\ pc = "script"
  /\ call \in {"fuel", "string", "elements"}
  /\ ChargeThen(call, n, "script")
  /\ Quiet /\ UNCHANGED size

----------------------------------------------------------------------------
\* Host calls.  The capability may refuse one, and the script may catch that.
\* Registered host functions are not here: calling one charges nothing.

Effect == effects < MaxEffects /\ effects' = effects + 1

HostState == UNCHANGED <<limit, cancelled, expired, installed, runs>>

\* Variant: the line is written before it is charged.
WriteFirst(n) ==
  /\ pc = "script"
  /\ Effect
  /\ ChargeThen("output", n, "script")
  /\ HostState /\ UNCHANGED size

\* print and println charge, and then write.
WriteLine(n) ==
  /\ pc = "script"
  /\ \/ /\ Accept("output", n)
        /\ Effect \/ UNCHANGED effects
        /\ UNCHANGED <<pc, stop>>
     \/ Refuse("output", n) /\ UNCHANGED effects
  /\ HostState /\ UNCHANGED size

\* A filesystem builtin charges the request, acts, then charges the response.
FileRequest(n) ==
  /\ pc = "script"
  /\ \/ /\ Accept("request", n)
        /\ \/ Effect /\ pc' \in {"response", "script"}
           \/ UNCHANGED <<effects, pc>>
        /\ UNCHANGED stop
     \/ Refuse("request", n) /\ UNCHANGED effects
  /\ HostState /\ UNCHANGED size

FileResponse(n) ==
  /\ pc = "response"
  /\ ChargeThen("response", n, "script")
  /\ Quiet /\ UNCHANGED size

\* input reads from the host and then charges what it read, which is lost if
\* the charge is refused.  A capability that is refused is not charged.
Input(n) ==
  /\ pc = "script"
  /\ ChargeThen("input", n, "script")
  /\ Quiet /\ UNCHANGED size

----------------------------------------------------------------------------

Next ==
  \/ \E config \in Configs :
       Run(config) \/ FirstSubmission(config) \/ NextSubmission(config)
  \/ EndRun
  \/ Cancel
  \/ Expire
  \/ LinkImport
  \/ Linked
  \/ \E n \in Amount :
       \/ LinkRoot(n)
       \/ LinkModule(n)
       \/ \E call \in Call : Compute(call, n)
       \/ WriteLine(n)
       \/ FileRequest(n)
       \/ FileResponse(n)
       \/ Input(n)

Spec == Init /\ [][Next]_vars

----------------------------------------------------------------------------

TypeOK ==
  /\ limit \in Configs
  /\ committed \in [Cumulative -> Nat]
  /\ peak \in [PerItem -> Nat]
  /\ {cancelled, expired, installed} \subseteq BOOLEAN
  /\ pc \in {"idle", "root", "module", "import", "script", "response"}
  /\ size \in Amount \union {0}
  /\ stop \in Resource \union {"None", "Cancelled", "DeadlineExceeded"}
  /\ effects \in Nat /\ runs \in Nat

(***************************************************************************)
(* Whatever grows stays within the limit of the submission it grows in: at *)
(* the top of the word range, and in a session that keeps its counters     *)
(* when a submission lowers the limits below them.  No call of a vector of *)
(* resources grows past one of them (reserve_all, commit,                  *)
(* rearm_for_repl_submission).                                             *)
(***************************************************************************)
WithinLimits ==
  [][/\ \A r \in Cumulative : committed'[r] > committed[r]
                               => committed'[r] <= limit'[r]
     /\ \A r \in PerItem : peak'[r] > peak[r] => peak'[r] <= limit'[r]]_vars

(***************************************************************************)
(* The counters agree with one another although different calls charge     *)
(* them and a charge may be refused half-way through a host call or an     *)
(* import: host bytes are request and response bytes, the stdio counters   *)
(* are part of the host counters, imports are part of the sources, and a   *)
(* module between its two charges has been charged as a source.            *)
(***************************************************************************)
BooksBalance ==
  /\ committed["HostCallBytes"] =
       committed["HostRequestBytes"] + committed["HostResponseBytes"]
  /\ committed["InputCalls"] + committed["OutputCalls"] <= committed["HostCalls"]
  /\ committed["InputBytes"] <= committed["HostResponseBytes"]
  /\ committed["OutputBytes"] <= committed["HostRequestBytes"]
  /\ committed["ImportCount"] <= committed["SourceCount"]
  /\ committed["ImportBytes"] <= committed["SourceBytes"]
  /\ pc = "import" =>
       /\ committed["ImportCount"] < committed["SourceCount"]
       /\ committed["ImportBytes"] + size <= committed["SourceBytes"]

(***************************************************************************)
(* Counters only grow, except that a new run or the first submission of a  *)
(* session makes a new ledger and every submission gets new fuel: nothing  *)
(* a script does gives budget back (BudgetLedger, run_for_repl).           *)
(***************************************************************************)
OnlyFuelIsRenewed ==
  [][(\E config \in Configs : Run(config) \/ FirstSubmission(config))
       \/ \A r \in Cumulative \ {"Fuel"} : committed'[r] >= committed[r]]_vars

(***************************************************************************)
(* A submission starts with all of its fuel, whatever the submissions      *)
(* before it used and however they ended (run_for_repl).                   *)
(***************************************************************************)
FuelStartsFull == pc = "root" => committed["Fuel"] = 0

(***************************************************************************)
(* print and the filesystem builtins never act on the host without having  *)
(* been counted, apart from the calls input was counted for, even when a   *)
(* later charge of the same call is refused (docs/execution-control.md     *)
(* 6.1: counted when the dispatch starts).                                 *)
(***************************************************************************)
EffectsArePaid == effects + committed["InputCalls"] <= committed["HostCalls"]

=============================================================================

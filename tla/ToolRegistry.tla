---------------------------- MODULE ToolRegistry ----------------------------
(***************************************************************************)
(* ToolRegistry::execute (tools/handler.rs) with the policy and the        *)
(* tool-call budget of runtime.rs, called concurrently, and the event      *)
(* store its publish_event writes to (store.rs, try_store).                *)
(*                                                                         *)
(* A slot is a request the server is serving; the MCP library serves       *)
(* several at a time over one registry.  The budget sits behind a mutex    *)
(* that is taken for one comparison before the call and, after the call,   *)
(* for the charge together with the event that reports it.  The store is a *)
(* file that one handle at a time may have open, in this process or        *)
(* another; an open that meets a conflict is tried again STORE_MAX_TRIES   *)
(* times and then given up, with the event.                                *)
(*                                                                         *)
(* Of an event only its kind matters, and of the recorded usage the value  *)
(* it reports.  Elapsed time, which limits nothing here, is left out.      *)
(***************************************************************************)
EXTENDS Naturals, Sequences, FiniteSets

CONSTANTS
    Slots,          \* requests served at a time
    Tools,          \* method names
    Limit,          \* max_tool_calls
    MaxTries,       \* STORE_MAX_TRIES
    MaxCalls        \* bound: calls in one behaviour

Nobody  == "nobody"
Another == "another process"

ASSUME SlotsType == IsFiniteSet(Slots) /\ Slots # {} /\ Slots \cap {Nobody, Another} = {}
ASSUME LimitType == Limit \in Nat
ASSUME MaxTriesType == MaxTries \in Nat \ {0}
ASSUME MaxCallsType == MaxCalls \in Nat

VARIABLES
    hasPolicy,      \* a policy is set
    allowed,        \* tools it allows
    stage,          \* where the call in each slot is: an event or an activity
    method,         \* the tool it calls
    outcome,        \* "completed" or "failed", once the handler has returned
    tries,          \* opens of the store that met a conflict, for one event
    mutex,          \* who holds the tracker's mutex
    store,          \* who has the store open
    used,           \* usage.tool_calls
    usageLog,       \* stored: tool_calls_used of the resource.budget.recorded events
    calls,          \* calls so far
    admitted        \* history: calls that passed the budget check

vars == <<hasPolicy, allowed, stage, method, outcome, tries, mutex, store, used,
          usageLog, calls, admitted>>

\* Events a call publishes, and what it does in between.
Events     == {"started", "checked", "denied", "exhausted", "recorded", "completed", "failed"}
Activities == {"idle", "admit", "run", "charge"}

\* The shape of the state.
TypeOK ==
    /\ hasPolicy \in BOOLEAN
    /\ allowed \in SUBSET Tools
    /\ stage \in [Slots -> Events \cup Activities]
    /\ method \in [Slots -> Tools]
    /\ outcome \in [Slots -> {"completed", "failed"}]
    /\ tries \in [Slots -> 0..(MaxTries - 1)]
    /\ mutex \in Slots \cup {Nobody}
    /\ store \in Slots \cup {Nobody, Another}
    /\ used \in Nat
    /\ usageLog \in Seq(Nat)
    /\ calls \in 0..MaxCalls
    /\ admitted \in Nat

\* with_policy and its kin: no policy, permissive (every tool), restrictive.
Init ==
    /\ hasPolicy \in BOOLEAN
    /\ allowed \in SUBSET Tools
    /\ hasPolicy \/ allowed = Tools
    /\ stage = [c \in Slots |-> "idle"]
    /\ method \in {[c \in Slots |-> t] : t \in Tools}
    /\ outcome = [c \in Slots |-> "failed"]
    /\ tries = [c \in Slots |-> 0]
    /\ mutex = Nobody
    /\ store = Nobody
    /\ used = 0
    /\ usageLog = <<>>
    /\ calls = 0
    /\ admitted = 0

policyVars == <<hasPolicy, allowed>>

Goto(c, s) == stage' = [stage EXCEPT ![c] = s]

-----------------------------------------------------------------------------

\* A request arrives: "tool.call.started" comes first.
Call(c, t) ==
    /\ stage[c] = "idle"
    /\ calls < MaxCalls
    /\ calls' = calls + 1
    /\ method' = [method EXCEPT ![c] = t]
    /\ Goto(c, "started")
    /\ UNCHANGED <<policyVars, outcome, tries, mutex, store, used, usageLog, admitted>>

\* RuntimePolicy::authorize of a tool.
Authorized(t) == t \in allowed

\* What follows an event, published or dropped.
After(c) ==
    CASE stage[c] = "started"  -> IF hasPolicy THEN "checked" ELSE "admit"
      [] stage[c] = "checked"  -> IF Authorized(method[c]) THEN "admit" ELSE "denied"
      [] stage[c] = "recorded" -> outcome[c]
      [] OTHER -> "idle"

\* Mutant: the guard is not released when the publication is over.
PublishedKeepingGuard(c) ==
    /\ Goto(c, After(c))
    /\ tries' = [tries EXCEPT ![c] = 0]
    /\ UNCHANGED mutex

\* The publication is over; the guard of the charge goes with "recorded".
Published(c) ==
    /\ Goto(c, After(c))
    /\ tries' = [tries EXCEPT ![c] = 0]
    /\ mutex' = IF stage[c] = "recorded" THEN Nobody ELSE mutex

\* try_store succeeds.
Open(c) ==
    /\ stage[c] \in Events
    /\ store = Nobody
    /\ store' = c
    /\ UNCHANGED <<policyVars, stage, method, outcome, tries, mutex, used, usageLog, calls, admitted>>

\* put_event, whose error is ignored, and the handle is dropped.
Put(c, ok) ==
    /\ store = c
    /\ store' = Nobody
    /\ usageLog' = IF ok /\ stage[c] = "recorded" THEN Append(usageLog, used) ELSE usageLog
    /\ Published(c)
    /\ UNCHANGED <<policyVars, method, outcome, used, calls, admitted>>

\* A lock conflict, not the last one: sleep and try again.
Retry(c) ==
    /\ stage[c] \in Events
    /\ store \notin {c, Nobody}
    /\ tries[c] + 1 < MaxTries
    /\ tries' = [tries EXCEPT ![c] = @ + 1]
    /\ UNCHANGED <<policyVars, stage, method, outcome, mutex, store, used, usageLog, calls, admitted>>

\* The last conflict, or any other error of the open: the event is dropped.
Drop(c) ==
    /\ stage[c] \in Events
    /\ store # c
    /\ store = Nobody \/ tries[c] + 1 = MaxTries
    /\ Published(c)
    /\ UNCHANGED <<policyVars, method, outcome, store, used, usageLog, calls, admitted>>

\* Mutant: the comparison is off by one.
can_start_inclusive == used <= Limit

\* max_tool_calls; with none set every call may start, as under a Limit that the
\* calls of a behaviour never reach.
can_start_tool == used < Limit

\* The budget is compared under the mutex, which is released at once.
Admit(c) ==
    /\ stage[c] = "admit"
    /\ mutex = Nobody
    /\ Goto(c, IF can_start_tool THEN "run" ELSE "exhausted")
    /\ admitted' = IF can_start_tool THEN admitted + 1 ELSE admitted
    /\ UNCHANGED <<policyVars, method, outcome, tries, mutex, store, used, usageLog, calls>>

\* Mutant: a call that failed is not charged.
RunChargingSuccess(c, o) ==
    /\ stage[c] = "run"
    /\ outcome' = [outcome EXCEPT ![c] = o]
    /\ Goto(c, IF o = "completed" THEN "charge" ELSE "failed")
    /\ UNCHANGED <<policyVars, method, tries, mutex, store, used, usageLog, calls, admitted>>

\* The handler is looked up, validates and executes; a method that is not found
\* and refused parameters are failures of the call like any other.
Run(c, o) ==
    /\ stage[c] = "run"
    /\ outcome' = [outcome EXCEPT ![c] = o]
    /\ Goto(c, "charge")
    /\ UNCHANGED <<policyVars, method, tries, mutex, store, used, usageLog, calls, admitted>>

\* Mutant: the guard is dropped before the event is published.
ChargeUnguarded(c) ==
    /\ stage[c] = "charge"
    /\ mutex = Nobody
    /\ used' = used + 1
    /\ Goto(c, "recorded")
    /\ UNCHANGED <<policyVars, method, outcome, tries, mutex, store, usageLog, calls, admitted>>

\* record_tool_call; the guard lives to the end of the block, over the event.
Charge(c) ==
    /\ stage[c] = "charge"
    /\ mutex = Nobody
    /\ mutex' = c
    /\ used' = used + 1
    /\ Goto(c, "recorded")
    /\ UNCHANGED <<policyVars, method, outcome, tries, store, usageLog, calls, admitted>>

\* Another process has the store open for an operation of its own.
AnotherOpens ==
    /\ store = Nobody
    /\ store' = Another
    /\ UNCHANGED <<policyVars, stage, method, outcome, tries, mutex, used, usageLog, calls, admitted>>

AnotherCloses ==
    /\ store = Another
    /\ store' = Nobody
    /\ UNCHANGED <<policyVars, stage, method, outcome, tries, mutex, used, usageLog, calls, admitted>>

\* What a call does by itself.
Step(c) ==
    \/ Open(c) \/ Retry(c) \/ Drop(c)
    \/ \E ok \in BOOLEAN : Put(c, ok)
    \/ Admit(c) \/ Charge(c)
    \/ \E o \in {"completed", "failed"} : Run(c, o)

Next ==
    \/ \E c \in Slots : Step(c) \/ \E t \in Tools : Call(c, t)
    \/ AnotherOpens
    \/ AnotherCloses

Safety == Init /\ [][Next]_vars

\* Calls are polled and handlers return; other processes need not be fair.
Spec == Safety /\ \A c \in Slots : WF_vars(Step(c))

-----------------------------------------------------------------------------

\* Calls that passed the budget check and are not yet charged.
InFlight == {c \in Slots : stage[c] \in {"run", "charge"}}

\* The budget is compared before a call and charged after it, so that calls
\* that overlap pass the same comparison; the excess is bounded by the calls in
\* flight when the last unit was used.
OverrunIsBounded == used <= Limit + Cardinality(Slots) - 1

\* Every call that passed the check is charged, once, whatever became of it.
AdmittedCallsAreCharged == used + Cardinality(InFlight) = admitted

\* The usage reported to the event store never goes back: concurrent charges
\* are stored in the order in which they were made, though some may be missing.
UsageLogIsOrdered ==
    \A i, j \in DOMAIN usageLog : i < j => usageLog[i] < usageLog[j]

\* Every call ends, though it may wait for the mutex while its holder waits for
\* the store, and another process may keep the store for ever.
CallsEnd == \A c \in Slots : stage[c] = "started" ~> stage[c] = "idle"
=============================================================================

------------------------------ MODULE Flights ------------------------------
(***************************************************************************)
(* The calls of one Client and the tasks they share: joinFlight and        *)
(* runFlight (client_update.go), the operation reports (report.go) and the *)
(* warnings (client.go).                                                   *)
(*                                                                         *)
(* A call is one goroutine inside a public method; its record serves the   *)
(* next call once it has returned and its report is out.  A flight is the  *)
(* object behind a key: callers keep it after client.flights has let it    *)
(* go, and a new flight of the same key may start meanwhile.  What the     *)
(* operation of a flight does is SharedCache; here it ends in a result.    *)
(***************************************************************************)
CONSTANTS
    Calls,     \* calls in progress, or still to be reported
    Keys,      \* flight keys: "latest", "version:v", "switch:v", "activate:v"
    Flights,   \* flight objects
    Warnings,  \* keys of the warnings a snapshot may carry
    Nobody     \* no flight, no call, no key, no warning

ASSUME FlightAssumption == Nobody \notin Flights \cup Calls \cup Keys \cup Warnings

Results == {"ok", "error", "canceled"}

VARIABLES
    table,      \* client.flights
    status,     \* a flight: free, running, closed (its done channel) or reported
    keyOf,      \* the key a flight was started under
    owner,      \* the call whose scope travels with the context of a flight
    outcome,    \* flight.snapshot and flight.err
    pc,         \* where a call stands
    ctxDone,    \* whether the context of a call has ended
    joined,     \* the flight a call waits for
    delegated,  \* operationScope.delegated
    result,     \* what the call returns
    report,     \* what OnOperation was told for the scope of a call
    pending,    \* warnings of the returned snapshot still to be looked at
    calling,    \* the warning a call is about to hand to OnWarning
    warned,     \* Client.warned
    called      \* the warnings OnWarning was called with

flightVars == <<table, status, keyOf, owner, outcome>>
callVars   == <<pc, ctxDone, joined, delegated, result, pending, calling>>
warnVars   == <<warned, called>>
vars == <<flightVars, callVars, report, warnVars>>

Init ==
    /\ table = [k \in Keys |-> Nobody]
    /\ status = [f \in Flights |-> "free"]
    /\ keyOf = [f \in Flights |-> Nobody]
    /\ owner = [f \in Flights |-> Nobody]
    /\ outcome = [f \in Flights |-> "none"]
    /\ pc = [c \in Calls |-> "idle"]
    /\ ctxDone = [c \in Calls |-> FALSE]
    /\ joined = [c \in Calls |-> Nobody]
    /\ delegated = [c \in Calls |-> FALSE]
    /\ result = [c \in Calls |-> "none"]
    /\ report = [c \in Calls |-> "none"]
    /\ pending = [c \in Calls |-> {}]
    /\ calling = [c \in Calls |-> Nobody]
    /\ warned = {}
    /\ called = {}

Goto(c, label) == pc' = [pc EXCEPT ![c] = label]

-----------------------------------------------------------------------------
(* Calls. *)

\* beginOperation
Begin(c) ==
    /\ pc[c] = "idle"
    /\ Goto(c, "begun")
    /\ UNCHANGED <<ctxDone, joined, delegated, result, pending, calling, flightVars, report, warnVars>>

ContextEnds(c) ==
    /\ pc[c] \in {"begun", "waiting"}
    /\ ~ctxDone[c]
    /\ ctxDone' = [ctxDone EXCEPT ![c] = TRUE]
    /\ UNCHANGED <<pc, joined, delegated, result, pending, calling, flightVars, report, warnVars>>

\* The result of a call, with the warnings of its snapshot for observe.
Returns(c, r) ==
    /\ result' = [result EXCEPT ![c] = r]
    /\ \E ws \in IF r = "ok" THEN SUBSET Warnings ELSE {{}} :
          pending' = [pending EXCEPT ![c] = ws]
    /\ Goto(c, "observe")
    /\ UNCHANGED <<ctxDone, joined, delegated, calling, flightVars, report, warnVars>>

\* A method that needs no flight, or a Load the cache can serve.
ReturnDirectly(c) ==
    /\ pc[c] = "begun"
    /\ \E r \in Results \ (IF ctxDone[c] THEN {} ELSE {"canceled"}) : Returns(c, r)

\* joinFlight finds no flight under the key: it starts one, in a goroutine of
\* its own, and leaves the report to it.
StartFlight(c, k, f) ==
    /\ pc[c] = "begun"
    /\ table[k] = Nobody
    /\ status[f] = "free"
    /\ table' = [table EXCEPT ![k] = f]
    /\ status' = [status EXCEPT ![f] = "running"]
    /\ keyOf' = [keyOf EXCEPT ![f] = k]
    /\ owner' = [owner EXCEPT ![f] = c]
    /\ delegated' = [delegated EXCEPT ![c] = TRUE]
    /\ joined' = [joined EXCEPT ![c] = f]
    /\ Goto(c, "waiting")
    /\ UNCHANGED <<outcome, ctxDone, result, pending, calling, report, warnVars>>

\* Mutant: a joining call, too, leaves its report to the flight.
JoinFlightDelegating(c, k) ==
    /\ pc[c] = "begun"
    /\ table[k] # Nobody
    /\ joined' = [joined EXCEPT ![c] = table[k]]
    /\ delegated' = [delegated EXCEPT ![c] = TRUE]
    /\ Goto(c, "waiting")
    /\ UNCHANGED <<ctxDone, result, pending, calling, flightVars, report, warnVars>>

JoinFlight(c, k) ==
    /\ pc[c] = "begun"
    /\ table[k] # Nobody
    /\ joined' = [joined EXCEPT ![c] = table[k]]
    /\ Goto(c, "waiting")
    /\ UNCHANGED <<ctxDone, delegated, result, pending, calling, flightVars, report, warnVars>>

\* Mutant: done is a signal sent once, not a channel that stays closed.
ReceiveOnce(c) ==
    /\ pc[c] = "waiting"
    /\ status[joined[c]] = "closed"
    /\ Returns(c, outcome[joined[c]])

\* <-ongoing.done
Receive(c) ==
    /\ pc[c] = "waiting"
    /\ status[joined[c]] \in {"closed", "reported"}
    /\ Returns(c, outcome[joined[c]])

\* <-ctx.Done()
Cancel(c) ==
    /\ pc[c] = "waiting"
    /\ ctxDone[c]
    /\ Returns(c, "canceled")

\* notifyWarning looks a warning up and marks it under client.mu ...
SkipWarning(c, w) ==
    /\ pc[c] = "observe"
    /\ w \in pending[c] \cap warned
    /\ pending' = [pending EXCEPT ![c] = @ \ {w}]
    /\ UNCHANGED <<pc, ctxDone, joined, delegated, result, calling, flightVars, report, warnVars>>

\* Mutant: the warning is marked after the callback, not before.
MarkWarningLate(c, w) ==
    /\ pc[c] = "observe"
    /\ w \in pending[c] \ warned
    /\ pending' = [pending EXCEPT ![c] = @ \ {w}]
    /\ calling' = [calling EXCEPT ![c] = w]
    /\ warned' = called
    /\ Goto(c, "callback")
    /\ UNCHANGED <<ctxDone, joined, delegated, result, flightVars, report, called>>

MarkWarning(c, w) ==
    /\ pc[c] = "observe"
    /\ w \in pending[c] \ warned
    /\ pending' = [pending EXCEPT ![c] = @ \ {w}]
    /\ calling' = [calling EXCEPT ![c] = w]
    /\ warned' = warned \cup {w}
    /\ Goto(c, "callback")
    /\ UNCHANGED <<ctxDone, joined, delegated, result, flightVars, report, called>>

\* ... and calls OnWarning after releasing it.
OnWarning(c) ==
    /\ pc[c] = "callback"
    /\ called' = called \cup {calling[c]}
    /\ calling' = [calling EXCEPT ![c] = Nobody]
    /\ Goto(c, "observe")
    /\ UNCHANGED <<ctxDone, joined, delegated, result, pending, flightVars, report, warned>>

\* operationScope.finish: the first report of a scope is the only one.
Finish(c, r) == report' = [report EXCEPT ![c] = IF @ = "none" THEN r ELSE @]

\* Mutant: the caller reports what it returns, delegated or not.
EndCallReporting(c) ==
    /\ pc[c] = "observe"
    /\ pending[c] = {}
    /\ Finish(c, result[c])
    /\ Goto(c, "returned")
    /\ UNCHANGED <<ctxDone, joined, delegated, result, pending, calling, flightVars, warnVars>>

\* The deferred finish of beginOperation.
EndCall(c) ==
    /\ pc[c] = "observe"
    /\ pending[c] = {}
    /\ IF delegated[c] THEN UNCHANGED report ELSE Finish(c, result[c])
    /\ Goto(c, "returned")
    /\ UNCHANGED <<ctxDone, joined, delegated, result, pending, calling, flightVars, warnVars>>

\* The record of a call that is over serves the next one.
Reuse(c) ==
    /\ pc[c] = "returned"
    /\ report[c] # "none"
    /\ \A f \in Flights : owner[f] # c
    /\ Goto(c, "idle")
    /\ ctxDone' = [ctxDone EXCEPT ![c] = FALSE]
    /\ joined' = [joined EXCEPT ![c] = Nobody]
    /\ delegated' = [delegated EXCEPT ![c] = FALSE]
    /\ result' = [result EXCEPT ![c] = "none"]
    /\ report' = [report EXCEPT ![c] = "none"]
    /\ UNCHANGED <<pending, calling, flightVars, warnVars>>

-----------------------------------------------------------------------------
(* Flights. *)

\* Mutant: the flight ends when the context of its first caller does.
FinishFlightWithCaller(f) ==
    /\ status[f] = "running"
    /\ \E r \in IF ctxDone[owner[f]] THEN {"canceled"} ELSE {"ok", "error"} :
          outcome' = [outcome EXCEPT ![f] = r]
    /\ table' = [table EXCEPT ![keyOf[f]] = Nobody]
    /\ status' = [status EXCEPT ![f] = "closed"]
    /\ UNCHANGED <<keyOf, owner, callVars, report, warnVars>>

\* Mutant: the key stays in the table.
FinishFlightStale(f) ==
    /\ status[f] = "running"
    /\ \E r \in {"ok", "error"} : outcome' = [outcome EXCEPT ![f] = r]
    /\ status' = [status EXCEPT ![f] = "closed"]
    /\ UNCHANGED <<table, keyOf, owner, callVars, report, warnVars>>

\* The operation ends, with success, an error or its own timeout; under
\* client.mu the key is free again and done is closed.
FinishFlight(f) ==
    /\ status[f] = "running"
    /\ \E r \in {"ok", "error"} : outcome' = [outcome EXCEPT ![f] = r]
    /\ table' = [table EXCEPT ![keyOf[f]] = Nobody]
    /\ status' = [status EXCEPT ![f] = "closed"]
    /\ UNCHANGED <<keyOf, owner, callVars, report, warnVars>>

ReportFlight(f) ==
    /\ status[f] = "closed"
    /\ Finish(owner[f], outcome[f])
    /\ status' = [status EXCEPT ![f] = "reported"]
    /\ UNCHANGED <<table, keyOf, owner, outcome, callVars, warnVars>>

\* Nothing refers to the object any more.
Collect(f) ==
    /\ status[f] = "reported"
    /\ \A c \in Calls : joined[c] = f => pc[c] = "returned"
    /\ status' = [status EXCEPT ![f] = "free"]
    /\ keyOf' = [keyOf EXCEPT ![f] = Nobody]
    /\ owner' = [owner EXCEPT ![f] = Nobody]
    /\ outcome' = [outcome EXCEPT ![f] = "none"]
    /\ UNCHANGED <<table, callVars, report, warnVars>>

-----------------------------------------------------------------------------

Join(c) ==
    \E k \in Keys : JoinFlight(c, k) \/ \E f \in Flights : StartFlight(c, k, f)

Notify(c) ==
    OnWarning(c) \/ \E w \in Warnings : SkipWarning(c, w) \/ MarkWarning(c, w)

CallStep(c) ==
    ReturnDirectly(c) \/ Join(c) \/ Receive(c) \/ Cancel(c) \/ Notify(c) \/ EndCall(c)

FlightStep(f) == FinishFlight(f) \/ ReportFlight(f)

Next ==
    \/ \E c \in Calls : Begin(c) \/ ContextEnds(c) \/ CallStep(c) \/ Reuse(c)
    \/ \E f \in Flights : FlightStep(f) \/ Collect(f)

Spec == Init /\ [][Next]_vars

\* Goroutines are scheduled, and a flight has a deadline of three minutes.
FairSpec ==
    /\ Spec
    /\ \A c \in Calls : WF_vars(CallStep(c))
    /\ \A f \in Flights : WF_vars(FlightStep(f))

-----------------------------------------------------------------------------
(* Properties. *)

\* Every variable keeps its type.
TypeOK ==
    /\ table \in [Keys -> Flights \cup {Nobody}]
    /\ status \in [Flights -> {"free", "running", "closed", "reported"}]
    /\ keyOf \in [Flights -> Keys \cup {Nobody}]
    /\ owner \in [Flights -> Calls \cup {Nobody}]
    /\ outcome \in [Flights -> Results \cup {"none"}]
    /\ pc \in [Calls -> {"idle", "begun", "waiting", "observe", "callback", "returned"}]
    /\ ctxDone \in [Calls -> BOOLEAN]
    /\ joined \in [Calls -> Flights \cup {Nobody}]
    /\ delegated \in [Calls -> BOOLEAN]
    /\ result \in [Calls -> Results \cup {"none"}]
    /\ report \in [Calls -> Results \cup {"none"}]
    /\ pending \in [Calls -> SUBSET Warnings]
    /\ calling \in [Calls -> Warnings \cup {Nobody}]
    /\ warned \subseteq Warnings
    /\ called \subseteq Warnings

\* Under a key at most one task runs at a time, and it is the one a new call
\* would join: nobody joins a task that has already ended.
OneFlightPerKey ==
    \A k \in Keys :
        {f \in Flights : status[f] = "running" /\ keyOf[f] = k} = {table[k]} \ {Nobody}

\* A call returns a cancellation only if its own context has ended, whatever
\* became of the contexts of the calls it shares a flight with.
CancelIsPrivate ==
    \A c \in Calls : result[c] = "canceled" => ctxDone[c]

\* The call that started a flight is reported with the result of the work, not
\* before the work has ended and not with its own cancellation.
ReportTellsResult ==
    \A f \in Flights :
        /\ status[f] \in {"running", "closed"} => report[owner[f]] = "none"
        /\ status[f] = "reported" => report[owner[f]] = outcome[f]

\* OnWarning is never called twice for the same warning, nor by two calls at once.
WarnOnce ==
    \A c \in Calls :
        pc[c] = "callback" =>
            /\ calling[c] \notin called
            /\ \A d \in Calls \ {c} : calling[d] # calling[c]

\* Every call returns, and every call is reported.
CallsReturn == \A c \in Calls : pc[c] = "begun" ~> pc[c] = "returned"

CallsReported == \A c \in Calls : pc[c] = "begun" ~> report[c] # "none"
=============================================================================

--------------------------- MODULE FlightsProofs ---------------------------
(***************************************************************************)
(* Proofs about Flights, for any number of calls, keys, flight objects and *)
(* warnings.  IInv is inductive:                                           *)
(*   Typed     types; whoever waits, waits for a flight, and a flight that *)
(*             is done has a result that is not a cancellation;            *)
(*   Table     the table and the running flights belong to each other;     *)
(*   Owned     a flight and the call that started it, until both are done; *)
(*   Warned    a warning is marked before it is handed on, by one call.    *)
(* Kept adds what a call holds on to while it waits.  From both follow that *)
(* nobody is forgotten, and that only so many steps are left of any call.   *)
(***************************************************************************)
EXTENDS Flights, Integers, FiniteSetTheorems, TLAPS

\* The types, with what is known of a call and a flight by where they stand.
Typed ==
    /\ TypeOK
    /\ \A c \in Calls : pc[c] = "waiting" => joined[c] \in Flights
    /\ \A f \in Flights : status[f] \in {"closed", "reported"} => outcome[f] \in {"ok", "error"}
    /\ \A f \in Flights : status[f] = "running" => keyOf[f] \in Keys
    /\ \A c \in Calls : pc[c] = "callback" => calling[c] \in Warnings

\* client.flights holds the running flights, each under its key.
Table ==
    /\ \A f \in Flights : status[f] = "running" => table[keyOf[f]] = f
    /\ \A k \in Keys :
          table[k] # Nobody => status[table[k]] = "running" /\ keyOf[table[k]] = k

\* A flight is the one its owner has joined, with the report left to it.
Owned ==
    /\ \A f \in Flights : status[f] # "free" =>
          /\ owner[f] \in Calls
          /\ joined[owner[f]] = f
          /\ delegated[owner[f]]
          /\ pc[owner[f]] \notin {"idle", "begun"}
    /\ \A c \in Calls : pc[c] \in {"idle", "begun"} => report[c] = "none"

\* What has been handed to OnWarning or is about to be is marked.
Warned ==
    /\ called \subseteq warned
    /\ \A c \in Calls : pc[c] = "callback" <=> calling[c] # Nobody
    /\ \A c \in Calls : calling[c] # Nobody => calling[c] \in warned
    /\ WarnOnce

\* The inductive invariant.
IInv == Typed /\ Table /\ CancelIsPrivate /\ Owned /\ ReportTellsResult /\ Warned

-----------------------------------------------------------------------------
\* Every step keeps the types.
LEMMA TypeStep ==
    ASSUME Typed, [Next]_vars
    PROVE  Typed'
<1> USE FlightAssumption DEF Typed, TypeOK, Results, Goto, flightVars,
              callVars, warnVars
<1>1. ASSUME NEW c \in Calls, Begin(c) PROVE Typed'
  BY <1>1 DEF Begin
<1>2. ASSUME NEW c \in Calls, ContextEnds(c) PROVE Typed'
  BY <1>2 DEF ContextEnds
<1>3. ASSUME NEW c \in Calls, ReturnDirectly(c) PROVE Typed'
  BY <1>3 DEF ReturnDirectly, Returns
<1>4. ASSUME NEW c \in Calls, NEW k \in Keys, NEW f \in Flights, StartFlight(c, k, f)
      PROVE Typed'
  BY <1>4 DEF StartFlight
<1>5. ASSUME NEW c \in Calls, NEW k \in Keys, JoinFlight(c, k) PROVE Typed'
  BY <1>5 DEF JoinFlight
<1>6. ASSUME NEW c \in Calls, Receive(c) PROVE Typed'
  BY <1>6 DEF Receive, Returns
<1>7. ASSUME NEW c \in Calls, Cancel(c) PROVE Typed'
  BY <1>7 DEF Cancel, Returns
<1>8. ASSUME NEW c \in Calls, NEW w \in Warnings, SkipWarning(c, w) PROVE Typed'
  BY <1>8 DEF SkipWarning
<1>9. ASSUME NEW c \in Calls, NEW w \in Warnings, MarkWarning(c, w) PROVE Typed'
  BY <1>9 DEF MarkWarning
<1>10. ASSUME NEW c \in Calls, OnWarning(c) PROVE Typed'
  BY <1>10 DEF OnWarning
<1>11. ASSUME NEW c \in Calls, EndCall(c) PROVE Typed'
  BY <1>11 DEF EndCall, Finish
<1>12. ASSUME NEW c \in Calls, Reuse(c) PROVE Typed'
  BY <1>12 DEF Reuse
<1>13. ASSUME NEW f \in Flights, FinishFlight(f) PROVE Typed'
  BY <1>13 DEF FinishFlight
<1>14. ASSUME NEW f \in Flights, ReportFlight(f) PROVE Typed'
  BY <1>14 DEF ReportFlight, Finish
<1>15. ASSUME NEW f \in Flights, Collect(f) PROVE Typed'
  BY <1>15 DEF Collect
<1>16. CASE UNCHANGED vars
  BY <1>16 DEF vars
<1>17. QED
  BY <1>1, <1>2, <1>3, <1>4, <1>5, <1>6, <1>7, <1>8, <1>9, <1>10,
       <1>11, <1>12, <1>13, <1>14, <1>15, <1>16
       DEF Next, CallStep, Join, Notify, FlightStep

\* A flight enters the table when it starts and leaves it when its work is
\* done, so a call that finds a key taken joins work that is still going on.
LEMMA TableStep ==
    ASSUME Typed, Table, [Next]_vars
    PROVE  Table'
<1> USE FlightAssumption DEF Typed, TypeOK, Results, Goto, flightVars,
              callVars, warnVars, Table
<1>1. ASSUME NEW c \in Calls, Begin(c) PROVE Table'
  BY <1>1 DEF Begin
<1>2. ASSUME NEW c \in Calls, ContextEnds(c) PROVE Table'
  BY <1>2 DEF ContextEnds
<1>3. ASSUME NEW c \in Calls, ReturnDirectly(c) PROVE Table'
  BY <1>3 DEF ReturnDirectly, Returns
<1>4. ASSUME NEW c \in Calls, NEW k \in Keys, NEW f \in Flights, StartFlight(c, k, f)
      PROVE Table'
  BY <1>4 DEF StartFlight
<1>5. ASSUME NEW c \in Calls, NEW k \in Keys, JoinFlight(c, k) PROVE Table'
  BY <1>5 DEF JoinFlight
<1>6. ASSUME NEW c \in Calls, Receive(c) PROVE Table'
  BY <1>6 DEF Receive, Returns
<1>7. ASSUME NEW c \in Calls, Cancel(c) PROVE Table'
  BY <1>7 DEF Cancel, Returns
<1>8. ASSUME NEW c \in Calls, NEW w \in Warnings, SkipWarning(c, w) PROVE Table'
  BY <1>8 DEF SkipWarning
<1>9. ASSUME NEW c \in Calls, NEW w \in Warnings, MarkWarning(c, w) PROVE Table'
  BY <1>9 DEF MarkWarning
<1>10. ASSUME NEW c \in Calls, OnWarning(c) PROVE Table'
  BY <1>10 DEF OnWarning
<1>11. ASSUME NEW c \in Calls, EndCall(c) PROVE Table'
  BY <1>11 DEF EndCall, Finish
<1>12. ASSUME NEW c \in Calls, Reuse(c) PROVE Table'
  BY <1>12 DEF Reuse
<1>13. ASSUME NEW f \in Flights, FinishFlight(f) PROVE Table'
  BY <1>13 DEF FinishFlight
<1>14. ASSUME NEW f \in Flights, ReportFlight(f) PROVE Table'
  BY <1>14 DEF ReportFlight, Finish
<1>15. ASSUME NEW f \in Flights, Collect(f) PROVE Table'
  BY <1>15 DEF Collect
<1>16. CASE UNCHANGED vars
  BY <1>16 DEF vars
<1>17. QED
  BY <1>1, <1>2, <1>3, <1>4, <1>5, <1>6, <1>7, <1>8, <1>9, <1>10,
       <1>11, <1>12, <1>13, <1>14, <1>15, <1>16
       DEF Next, CallStep, Join, Notify, FlightStep

\* A flight never ends in a cancellation, so only a call's own context can.
LEMMA CancelStep ==
    ASSUME Typed, CancelIsPrivate, [Next]_vars
    PROVE  CancelIsPrivate'
<1> USE FlightAssumption DEF Typed, TypeOK, Results, Goto, flightVars,
              callVars, warnVars, CancelIsPrivate
<1>1. ASSUME NEW c \in Calls, Begin(c) PROVE CancelIsPrivate'
  BY <1>1 DEF Begin
<1>2. ASSUME NEW c \in Calls, ContextEnds(c) PROVE CancelIsPrivate'
  BY <1>2 DEF ContextEnds
<1>3. ASSUME NEW c \in Calls, ReturnDirectly(c) PROVE CancelIsPrivate'
  BY <1>3 DEF ReturnDirectly, Returns
<1>4. ASSUME NEW c \in Calls, NEW k \in Keys, NEW f \in Flights, StartFlight(c, k, f)
      PROVE CancelIsPrivate'
  BY <1>4 DEF StartFlight
<1>5. ASSUME NEW c \in Calls, NEW k \in Keys, JoinFlight(c, k) PROVE CancelIsPrivate'
  BY <1>5 DEF JoinFlight
<1>6. ASSUME NEW c \in Calls, Receive(c) PROVE CancelIsPrivate'
  BY <1>6 DEF Receive, Returns
<1>7. ASSUME NEW c \in Calls, Cancel(c) PROVE CancelIsPrivate'
  BY <1>7 DEF Cancel, Returns
<1>8. ASSUME NEW c \in Calls, NEW w \in Warnings, SkipWarning(c, w) PROVE CancelIsPrivate'
  BY <1>8 DEF SkipWarning
<1>9. ASSUME NEW c \in Calls, NEW w \in Warnings, MarkWarning(c, w) PROVE CancelIsPrivate'
  BY <1>9 DEF MarkWarning
<1>10. ASSUME NEW c \in Calls, OnWarning(c) PROVE CancelIsPrivate'
  BY <1>10 DEF OnWarning
<1>11. ASSUME NEW c \in Calls, EndCall(c) PROVE CancelIsPrivate'
  BY <1>11 DEF EndCall, Finish
<1>12. ASSUME NEW c \in Calls, Reuse(c) PROVE CancelIsPrivate'
  BY <1>12 DEF Reuse
<1>13. ASSUME NEW f \in Flights, FinishFlight(f) PROVE CancelIsPrivate'
  BY <1>13 DEF FinishFlight
<1>14. ASSUME NEW f \in Flights, ReportFlight(f) PROVE CancelIsPrivate'
  BY <1>14 DEF ReportFlight, Finish
<1>15. ASSUME NEW f \in Flights, Collect(f) PROVE CancelIsPrivate'
  BY <1>15 DEF Collect
<1>16. CASE UNCHANGED vars
  BY <1>16 DEF vars
<1>17. QED
  BY <1>1, <1>2, <1>3, <1>4, <1>5, <1>6, <1>7, <1>8, <1>9, <1>10,
       <1>11, <1>12, <1>13, <1>14, <1>15, <1>16
       DEF Next, CallStep, Join, Notify, FlightStep

\* A call owns at most the flight it waits for, and is not reused before its
\* report.
LEMMA OwnedStep ==
    ASSUME Typed, Owned, [Next]_vars
    PROVE  Owned'
<1> USE FlightAssumption DEF Typed, TypeOK, Results, Goto, flightVars,
              callVars, warnVars, Owned
<1>1. ASSUME NEW c \in Calls, Begin(c) PROVE Owned'
  BY <1>1 DEF Begin
<1>2. ASSUME NEW c \in Calls, ContextEnds(c) PROVE Owned'
  BY <1>2 DEF ContextEnds
<1>3. ASSUME NEW c \in Calls, ReturnDirectly(c) PROVE Owned'
  BY <1>3 DEF ReturnDirectly, Returns
<1>4. ASSUME NEW c \in Calls, NEW k \in Keys, NEW f \in Flights, StartFlight(c, k, f)
      PROVE Owned'
  BY <1>4 DEF StartFlight
<1>5. ASSUME NEW c \in Calls, NEW k \in Keys, JoinFlight(c, k) PROVE Owned'
  BY <1>5 DEF JoinFlight
<1>6. ASSUME NEW c \in Calls, Receive(c) PROVE Owned'
  BY <1>6 DEF Receive, Returns
<1>7. ASSUME NEW c \in Calls, Cancel(c) PROVE Owned'
  BY <1>7 DEF Cancel, Returns
<1>8. ASSUME NEW c \in Calls, NEW w \in Warnings, SkipWarning(c, w) PROVE Owned'
  BY <1>8 DEF SkipWarning
<1>9. ASSUME NEW c \in Calls, NEW w \in Warnings, MarkWarning(c, w) PROVE Owned'
  BY <1>9 DEF MarkWarning
<1>10. ASSUME NEW c \in Calls, OnWarning(c) PROVE Owned'
  BY <1>10 DEF OnWarning
<1>11. ASSUME NEW c \in Calls, EndCall(c) PROVE Owned'
  BY <1>11 DEF EndCall, Finish
<1>12. ASSUME NEW c \in Calls, Reuse(c) PROVE Owned'
  BY <1>12 DEF Reuse
<1>13. ASSUME NEW f \in Flights, FinishFlight(f) PROVE Owned'
  BY <1>13 DEF FinishFlight
<1>14. ASSUME NEW f \in Flights, ReportFlight(f) PROVE Owned'
  BY <1>14 DEF ReportFlight, Finish
<1>15. ASSUME NEW f \in Flights, Collect(f) PROVE Owned'
  BY <1>15 DEF Collect
<1>16. CASE UNCHANGED vars
  BY <1>16 DEF vars
<1>17. QED
  BY <1>1, <1>2, <1>3, <1>4, <1>5, <1>6, <1>7, <1>8, <1>9, <1>10,
       <1>11, <1>12, <1>13, <1>14, <1>15, <1>16
       DEF Next, CallStep, Join, Notify, FlightStep

\* Of a call and its flight, the flight reports.
LEMMA ReportStep ==
    ASSUME Typed, Owned, ReportTellsResult, [Next]_vars
    PROVE  ReportTellsResult'
<1> USE FlightAssumption DEF Typed, TypeOK, Results, Goto, flightVars,
              callVars, warnVars, Owned, ReportTellsResult
<1>1. ASSUME NEW c \in Calls, Begin(c) PROVE ReportTellsResult'
  BY <1>1 DEF Begin
<1>2. ASSUME NEW c \in Calls, ContextEnds(c) PROVE ReportTellsResult'
  BY <1>2 DEF ContextEnds
<1>3. ASSUME NEW c \in Calls, ReturnDirectly(c) PROVE ReportTellsResult'
  BY <1>3 DEF ReturnDirectly, Returns
<1>4. ASSUME NEW c \in Calls, NEW k \in Keys, NEW f \in Flights, StartFlight(c, k, f)
      PROVE ReportTellsResult'
  BY <1>4 DEF StartFlight
<1>5. ASSUME NEW c \in Calls, NEW k \in Keys, JoinFlight(c, k) PROVE ReportTellsResult'
  BY <1>5 DEF JoinFlight
<1>6. ASSUME NEW c \in Calls, Receive(c) PROVE ReportTellsResult'
  BY <1>6 DEF Receive, Returns
<1>7. ASSUME NEW c \in Calls, Cancel(c) PROVE ReportTellsResult'
  BY <1>7 DEF Cancel, Returns
<1>8. ASSUME NEW c \in Calls, NEW w \in Warnings, SkipWarning(c, w) PROVE ReportTellsResult'
  BY <1>8 DEF SkipWarning
<1>9. ASSUME NEW c \in Calls, NEW w \in Warnings, MarkWarning(c, w) PROVE ReportTellsResult'
  BY <1>9 DEF MarkWarning
<1>10. ASSUME NEW c \in Calls, OnWarning(c) PROVE ReportTellsResult'
  BY <1>10 DEF OnWarning
<1>11. ASSUME NEW c \in Calls, EndCall(c) PROVE ReportTellsResult'
  BY <1>11 DEF EndCall, Finish
<1>12. ASSUME NEW c \in Calls, Reuse(c) PROVE ReportTellsResult'
  BY <1>12 DEF Reuse
<1>13. ASSUME NEW f \in Flights, FinishFlight(f) PROVE ReportTellsResult'
  BY <1>13 DEF FinishFlight
<1>14. ASSUME NEW f \in Flights, ReportFlight(f) PROVE ReportTellsResult'
  BY <1>14 DEF ReportFlight, Finish
<1>15. ASSUME NEW f \in Flights, Collect(f) PROVE ReportTellsResult'
  BY <1>15 DEF Collect
<1>16. CASE UNCHANGED vars
  BY <1>16 DEF vars
<1>17. QED
  BY <1>1, <1>2, <1>3, <1>4, <1>5, <1>6, <1>7, <1>8, <1>9, <1>10,
       <1>11, <1>12, <1>13, <1>14, <1>15, <1>16
       DEF Next, CallStep, Join, Notify, FlightStep

\* Marking a warning under the mutex excludes all other calls.
LEMMA WarnedStep ==
    ASSUME Typed, Warned, [Next]_vars
    PROVE  Warned'
<1> USE FlightAssumption DEF Typed, TypeOK, Results, Goto, flightVars,
              callVars, warnVars, Warned, WarnOnce
<1>1. ASSUME NEW c \in Calls, Begin(c) PROVE Warned'
  BY <1>1 DEF Begin
<1>2. ASSUME NEW c \in Calls, ContextEnds(c) PROVE Warned'
  BY <1>2 DEF ContextEnds
<1>3. ASSUME NEW c \in Calls, ReturnDirectly(c) PROVE Warned'
  BY <1>3 DEF ReturnDirectly, Returns
<1>4. ASSUME NEW c \in Calls, NEW k \in Keys, NEW f \in Flights, StartFlight(c, k, f)
      PROVE Warned'
  BY <1>4 DEF StartFlight
<1>5. ASSUME NEW c \in Calls, NEW k \in Keys, JoinFlight(c, k) PROVE Warned'
  BY <1>5 DEF JoinFlight
<1>6. ASSUME NEW c \in Calls, Receive(c) PROVE Warned'
  BY <1>6 DEF Receive, Returns
<1>7. ASSUME NEW c \in Calls, Cancel(c) PROVE Warned'
  BY <1>7 DEF Cancel, Returns
<1>8. ASSUME NEW c \in Calls, NEW w \in Warnings, SkipWarning(c, w) PROVE Warned'
  BY <1>8 DEF SkipWarning
<1>9. ASSUME NEW c \in Calls, NEW w \in Warnings, MarkWarning(c, w) PROVE Warned'
  BY <1>9 DEF MarkWarning
<1>10. ASSUME NEW c \in Calls, OnWarning(c) PROVE Warned'
  BY <1>10 DEF OnWarning
<1>11. ASSUME NEW c \in Calls, EndCall(c) PROVE Warned'
  BY <1>11 DEF EndCall, Finish
<1>12. ASSUME NEW c \in Calls, Reuse(c) PROVE Warned'
  BY <1>12 DEF Reuse
<1>13. ASSUME NEW f \in Flights, FinishFlight(f) PROVE Warned'
  BY <1>13 DEF FinishFlight
<1>14. ASSUME NEW f \in Flights, ReportFlight(f) PROVE Warned'
  BY <1>14 DEF ReportFlight, Finish
<1>15. ASSUME NEW f \in Flights, Collect(f) PROVE Warned'
  BY <1>15 DEF Collect
<1>16. CASE UNCHANGED vars
  BY <1>16 DEF vars
<1>17. QED
  BY <1>1, <1>2, <1>3, <1>4, <1>5, <1>6, <1>7, <1>8, <1>9, <1>10,
       <1>11, <1>12, <1>13, <1>14, <1>15, <1>16
       DEF Next, CallStep, Join, Notify, FlightStep
-----------------------------------------------------------------------------
\* The initial states satisfy the invariant.
LEMMA InitInv == Init => IInv
BY FlightAssumption
   DEF Init, IInv, Typed, TypeOK, Table, CancelIsPrivate, Owned, ReportTellsResult, Warned,
       WarnOnce

\* Every reachable state of the calls and their flights satisfies IInv.
THEOREM Inductive == Spec => []IInv
<1>1. ASSUME IInv, [Next]_vars PROVE IInv'
  BY <1>1, TypeStep, TableStep, CancelStep, OwnedStep, ReportStep, WarnedStep DEF IInv
<1>2. QED  BY <1>1, InitInv, PTL DEF Spec

\* The variables keep their types.
THEOREM TypeCorrect == Spec => []TypeOK
<1>1. IInv => TypeOK
  BY DEF IInv, Typed
<1>2. QED  BY <1>1, Inductive, PTL

\* Under a key at most one task runs, the one a new call would join.
THEOREM OneTask == Spec => []OneFlightPerKey
<1>1. IInv => OneFlightPerKey
  <2> SUFFICES ASSUME IInv, NEW k \in Keys
               PROVE  {f \in Flights : status[f] = "running" /\ keyOf[f] = k}
                          = {table[k]} \ {Nobody}
    BY DEF OneFlightPerKey
  <2>1. table[k] \in Flights \cup {Nobody}
    BY DEF IInv, Typed, TypeOK
  <2>2. \A f \in Flights : status[f] = "running" /\ keyOf[f] = k => f = table[k]
    BY DEF IInv, Table
  <2>3. table[k] # Nobody => status[table[k]] = "running" /\ keyOf[table[k]] = k
    BY DEF IInv, Table
  <2>4. QED  BY <2>1, <2>2, <2>3, FlightAssumption
<1>2. QED  BY <1>1, Inductive, PTL

\* A call is canceled by its own context only.
THEOREM PrivateCancel == Spec => []CancelIsPrivate
<1>1. IInv => CancelIsPrivate
  BY DEF IInv
<1>2. QED  BY <1>1, Inductive, PTL

\* The call that started a flight is reported with the result of its work.
THEOREM TrueReport == Spec => []ReportTellsResult
<1>1. IInv => ReportTellsResult
  BY DEF IInv
<1>2. QED  BY <1>1, Inductive, PTL

\* OnWarning is called at most once for each warning.
THEOREM OneWarning == Spec => []WarnOnce
<1>1. IInv => WarnOnce
  BY DEF IInv, Warned
<1>2. QED  BY <1>1, Inductive, PTL
-----------------------------------------------------------------------------
(* Nobody is forgotten, and nothing goes on for ever. *)

\* Who waits, waits for work that is going on or has left its result, and who has
\* returned without a report has left it to work that is not yet reported.
Accounted ==
    \A c \in Calls :
        /\ pc[c] = "waiting" => status[joined[c]] # "free"
        /\ pc[c] = "returned" /\ report[c] = "none" =>
              \E f \in Flights : owner[f] = c /\ status[f] \in {"running", "closed"}

\* The same at any point of a call.
Kept ==
    \A c \in Calls :
        /\ pc[c] = "waiting" => status[joined[c]] # "free"
        /\ delegated[c] => pc[c] \notin {"idle", "begun"}
        /\ delegated[c] /\ report[c] = "none" =>
              /\ joined[c] \in Flights
              /\ owner[joined[c]] = c
              /\ status[joined[c]] \in {"running", "closed"}
        /\ pc[c] = "returned" /\ ~delegated[c] => report[c] # "none"
        /\ pc[c] \in {"observe", "callback"} => result[c] \in Results

\* A step keeps Kept.
LEMMA KeptStep ==
    ASSUME IInv, Kept, [Next]_vars
    PROVE  Kept'
<1> USE FlightAssumption DEF IInv, Typed, TypeOK, Owned, ReportTellsResult, Results, Goto,
              flightVars, callVars, warnVars, Kept
<1>1. ASSUME NEW c \in Calls, Begin(c) PROVE Kept'
  BY <1>1 DEF Begin
<1>2. ASSUME NEW c \in Calls, ContextEnds(c) PROVE Kept'
  BY <1>2 DEF ContextEnds
<1>3. ASSUME NEW c \in Calls, ReturnDirectly(c) PROVE Kept'
  BY <1>3 DEF ReturnDirectly, Returns
<1>4. ASSUME NEW c \in Calls, NEW k \in Keys, NEW f \in Flights, StartFlight(c, k, f)
      PROVE Kept'
  BY <1>4 DEF StartFlight
<1>5. ASSUME NEW c \in Calls, NEW k \in Keys, JoinFlight(c, k) PROVE Kept'
  BY <1>5 DEF JoinFlight, Table
<1>6. ASSUME NEW c \in Calls, Receive(c) PROVE Kept'
  BY <1>6 DEF Receive, Returns
<1>7. ASSUME NEW c \in Calls, Cancel(c) PROVE Kept'
  BY <1>7 DEF Cancel, Returns
<1>8. ASSUME NEW c \in Calls, NEW w \in Warnings, SkipWarning(c, w) PROVE Kept'
  BY <1>8 DEF SkipWarning
<1>9. ASSUME NEW c \in Calls, NEW w \in Warnings, MarkWarning(c, w) PROVE Kept'
  BY <1>9 DEF MarkWarning
<1>10. ASSUME NEW c \in Calls, OnWarning(c) PROVE Kept'
  BY <1>10 DEF OnWarning
<1>11. ASSUME NEW c \in Calls, EndCall(c) PROVE Kept'
  BY <1>11 DEF EndCall, Finish
<1>12. ASSUME NEW c \in Calls, Reuse(c) PROVE Kept'
  BY <1>12 DEF Reuse
<1>13. ASSUME NEW f \in Flights, FinishFlight(f) PROVE Kept'
  BY <1>13 DEF FinishFlight
<1>14. ASSUME NEW f \in Flights, ReportFlight(f) PROVE Kept'
  BY <1>14 DEF ReportFlight, Finish
<1>15. ASSUME NEW f \in Flights, Collect(f) PROVE Kept'
  BY <1>15 DEF Collect
<1>16. CASE UNCHANGED vars
  BY <1>16 DEF vars
<1>17. QED
  BY <1>1, <1>2, <1>3, <1>4, <1>5, <1>6, <1>7, <1>8, <1>9, <1>10,
       <1>11, <1>12, <1>13, <1>14, <1>15, <1>16
       DEF Next, CallStep, Join, Notify, FlightStep

\* A flight that calls wait for is not taken away from them, and no report is lost.
THEOREM NobodyForgotten == Spec => []Accounted
<1>1. Init => Kept
  BY DEF Init, Kept
<1>2. IInv /\ Kept /\ [Next]_vars => Kept'
  BY KeptStep
<1>3. Kept => Accounted
  BY DEF Kept, Accounted
<1>4. QED  BY <1>1, <1>2, <1>3, Inductive, PTL DEF Spec

\* What a call and a flight have still to do.
Far(c) == CASE pc[c] = "begun" -> 3 [] pc[c] = "waiting" -> 2
            [] pc[c] \in {"observe", "callback"} -> 1 [] OTHER -> 0

Rest(c) == 2 * Cardinality(pending[c]) + (IF pc[c] = "callback" THEN 1 ELSE 0)

ToReport(f) == CASE status[f] = "running" -> 2 [] status[f] = "closed" -> 1 [] OTHER -> 0

Nearer(c) == \/ Far(c)' < Far(c)
             \/ Far(c)' = Far(c) /\ Rest(c)' < Rest(c)

\* Every step of a call brings it nearer to its return, every step of a flight
\* brings that nearer to its report, and no step of another takes either back.
CallsRunOut ==
    [][/\ \A c \in Calls :
             /\ CallStep(c) => Nearer(c)
             /\ pc[c] \notin {"idle", "returned"} =>
                   Nearer(c) \/ (Far(c)' = Far(c) /\ Rest(c)' = Rest(c))
       /\ \A f \in Flights :
             /\ FlightStep(f) => ToReport(f)' < ToReport(f)
             /\ status[f] \in {"running", "closed"} => ToReport(f)' <= ToReport(f)]_vars


\* A call that goes on.
LEMMA CallNearer ==
    ASSUME Typed, IsFiniteSet(Warnings), NEW c \in Calls, CallStep(c)
    PROVE  Nearer(c)
<1> USE DEF Typed, TypeOK, Goto, Far, Nearer
<1>1. CASE ReturnDirectly(c) \/ Receive(c) \/ Cancel(c)
  BY <1>1 DEF ReturnDirectly, Receive, Cancel, Returns
<1>2. CASE Join(c)
  BY <1>2 DEF Join, JoinFlight, StartFlight
<1>3. CASE EndCall(c)
  BY <1>3 DEF EndCall
<1>4. IsFiniteSet(pending[c]) /\ Cardinality(pending[c]) \in Nat
  BY FS_Subset, FS_CardinalityType
<1>5. ASSUME NEW w \in Warnings, SkipWarning(c, w) \/ MarkWarning(c, w)
      PROVE  Nearer(c)
  <2>1. w \in pending[c] /\ pending'[c] = pending[c] \ {w} /\ pc[c] = "observe"
        /\ pc'[c] \in {"observe", "callback"}
    BY <1>5 DEF SkipWarning, MarkWarning
  <2>2. Cardinality(pending'[c]) = Cardinality(pending[c]) - 1
    <3> DEFINE P == pending[c]
    <3>1. IsFiniteSet(P) /\ w \in P
      BY <1>4, <2>1
    <3> HIDE DEF P
    <3>2. Cardinality(P \ {w}) = Cardinality(P) - 1
      BY <3>1, FS_RemoveElement
    <3>3. pending'[c] = P \ {w} /\ P = pending[c]
      BY <2>1 DEF P
    <3>4. QED  BY <3>2, <3>3
  <2>3. Far(c)' = Far(c)
    BY <2>1
  <2>4. Rest(c)' < Rest(c)
    BY <1>4, <2>1, <2>2 DEF Rest
  <2>5. QED  BY <2>3, <2>4
<1>6. CASE OnWarning(c)
  <2>1. Far(c)' = Far(c)
    BY <1>6 DEF OnWarning
  <2>2. Rest(c)' < Rest(c)
    BY <1>4, <1>6 DEF OnWarning, Rest
  <2>3. QED  BY <2>1, <2>2
<1>7. QED
  BY <1>1, <1>2, <1>3, <1>5, <1>6 DEF CallStep, Notify

\* A flight that goes on.
LEMMA FlightNearer ==
    ASSUME Typed, NEW f \in Flights, FlightStep(f)
    PROVE  ToReport(f)' < ToReport(f)
BY DEF FlightStep, FinishFlight, ReportFlight, ToReport, Typed, TypeOK

\* What others do leaves a call where it is.
LEMMA OtherCalls ==
    ASSUME Typed, [Next]_vars, NEW c \in Calls, pc[c] \notin {"idle", "returned"}
    PROVE  CallStep(c) \/ UNCHANGED <<pc[c], pending[c]>>
<1> USE DEF Typed, TypeOK, Goto, callVars
<1>1. ASSUME NEW d \in Calls, Begin(d) \/ ContextEnds(d) \/ Reuse(d)
      PROVE  UNCHANGED <<pc[c], pending[c]>>
  BY <1>1 DEF Begin, ContextEnds, Reuse
<1>2. ASSUME NEW d \in Calls, d # c, CallStep(d)
      PROVE  UNCHANGED <<pc[c], pending[c]>>
  BY <1>2 DEF CallStep, ReturnDirectly, Returns, Join, JoinFlight, StartFlight, Receive,
      Cancel, Notify, OnWarning, SkipWarning, MarkWarning, EndCall
<1>3. ASSUME NEW f \in Flights, FlightStep(f) \/ Collect(f)
      PROVE  UNCHANGED <<pc[c], pending[c]>>
  BY <1>3 DEF FlightStep, FinishFlight, ReportFlight, Collect
<1>4. CASE UNCHANGED vars
  BY <1>4 DEF vars
<1>5. QED
  BY <1>1, <1>2, <1>3, <1>4 DEF Next

\* Only a flight's own steps change it before it is reported.
LEMMA OtherFlights ==
    ASSUME Typed, [Next]_vars, NEW f \in Flights, status[f] \in {"running", "closed"}
    PROVE  FlightStep(f) \/ status'[f] = status[f]
<1> USE DEF Typed, TypeOK, flightVars
<1>1. ASSUME NEW c \in Calls, Begin(c) \/ ContextEnds(c) \/ CallStep(c) \/ Reuse(c)
      PROVE  status'[f] = status[f]
  BY <1>1 DEF Begin, ContextEnds, Reuse, CallStep, ReturnDirectly, Returns, Join, JoinFlight,
      StartFlight, Receive, Cancel, Notify, OnWarning, SkipWarning, MarkWarning, EndCall
<1>2. ASSUME NEW g \in Flights, g # f, FlightStep(g)
      PROVE  status'[f] = status[f]
  BY <1>2 DEF FlightStep, FinishFlight, ReportFlight
<1>3. ASSUME NEW g \in Flights, Collect(g) PROVE status'[f] = status[f]
  BY <1>3 DEF Collect
<1>4. CASE UNCHANGED vars
  BY <1>4 DEF vars
<1>5. QED
  BY <1>1, <1>2, <1>3, <1>4 DEF Next

\* Calls and flights run out of steps.  With NobodyForgotten: a call comes to its
\* return and is reported unless the work it waits for never ends.
THEOREM CallsComeToAnEnd == ASSUME IsFiniteSet(Warnings) PROVE Spec => CallsRunOut
<1>1. ASSUME IInv, [Next]_vars, NEW c \in Calls
      PROVE  /\ CallStep(c) => Nearer(c)
             /\ pc[c] \notin {"idle", "returned"} =>
                   Nearer(c) \/ (Far(c)' = Far(c) /\ Rest(c)' = Rest(c))
  <2>1. CallStep(c) => Nearer(c)
    BY <1>1, CallNearer DEF IInv
  <2>2. UNCHANGED <<pc[c], pending[c]>> => Far(c)' = Far(c) /\ Rest(c)' = Rest(c)
    BY DEF Far, Rest
  <2>3. QED  BY <1>1, <2>1, <2>2, OtherCalls DEF IInv
<1>2. ASSUME IInv, [Next]_vars, NEW f \in Flights
      PROVE  /\ FlightStep(f) => ToReport(f)' < ToReport(f)
             /\ status[f] \in {"running", "closed"} => ToReport(f)' <= ToReport(f)
  <2>1. FlightStep(f) => ToReport(f)' < ToReport(f)
    BY <1>2, FlightNearer DEF IInv
  <2>2. status'[f] = status[f] => ToReport(f)' = ToReport(f)
    BY DEF ToReport
  <2>3. ToReport(f) \in Nat /\ ToReport(f)' \in Nat
    BY DEF ToReport
  <2>4. QED  BY <1>2, <2>1, <2>2, <2>3, OtherFlights DEF IInv
<1>3. IInv /\ [Next]_vars =>
        [/\ \A c \in Calls :
               /\ CallStep(c) => Nearer(c)
               /\ pc[c] \notin {"idle", "returned"} =>
                     Nearer(c) \/ (Far(c)' = Far(c) /\ Rest(c)' = Rest(c))
         /\ \A f \in Flights :
               /\ FlightStep(f) => ToReport(f)' < ToReport(f)
               /\ status[f] \in {"running", "closed"} => ToReport(f)' <= ToReport(f)]_vars
  BY <1>1, <1>2
<1>4. QED  BY <1>3, Inductive, PTL DEF Spec, CallsRunOut
=============================================================================

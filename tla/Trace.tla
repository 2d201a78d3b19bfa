------------------------------- MODULE Trace --------------------------------
(* The stages of one operation report (internal/trace): Start opens a stage  *)
(* inside the one whose context it is given, and the function it returns     *)
(* closes it.  As the code uses them, stages are closed in the opposite      *)
(* order, and a new one is opened with the context of the innermost.         *)
EXTENDS Integers, Sequences

CONSTANTS MaxStages, MaxTime    \* bounds on the stages and on the clock

ASSUME TraceAssumption == MaxStages \in Nat /\ MaxTime \in Nat

VARIABLES
    now,     \* the monotonic clock
    stages,  \* Recorder.stages: the durations, 0 before the end
    frames,  \* the open stages, innermost last: index, start, time of children
    inner    \* for the properties: how long each stage has been the innermost one

vars == <<now, stages, frames, inner>>

Init ==
    /\ now = 0
    /\ stages = <<>>
    /\ frames = <<>>
    /\ inner = <<>>

Innermost == frames[Len(frames)]

Tick ==
    /\ now < MaxTime
    /\ now' = now + 1
    /\ inner' = [i \in DOMAIN inner |->
                    IF frames # <<>> /\ i = Innermost.stage THEN inner[i] + 1 ELSE inner[i]]
    /\ UNCHANGED <<stages, frames>>

Start ==
    /\ Len(stages) < MaxStages
    /\ stages' = Append(stages, 0)
    /\ inner' = Append(inner, 0)
    /\ frames' = Append(frames, [stage |-> Len(stages) + 1, start |-> now, children |-> 0])
    /\ UNCHANGED now

\* The stages left open, the innermost of them charged with the whole time of
\* the one that ends.
Charged(elapsed) ==
    [k \in 1..(Len(frames) - 1) |->
        IF k = Len(frames) - 1 THEN [frames[k] EXCEPT !.children = @ + elapsed] ELSE frames[k]]

\* Mutant: a stage passes on only what its own children have left.
EndExclusive ==
    LET elapsed == now - Innermost.start
    IN  /\ frames # <<>>
        /\ stages' = [stages EXCEPT ![Innermost.stage] = elapsed - Innermost.children]
        /\ frames' = Charged(elapsed - Innermost.children)
        /\ UNCHANGED <<now, inner>>

End ==
    LET elapsed == now - Innermost.start
    IN  /\ frames # <<>>
        /\ stages' = [stages EXCEPT ![Innermost.stage] = elapsed - Innermost.children]
        /\ frames' = Charged(elapsed)
        /\ UNCHANGED <<now, inner>>

Next == Tick \/ Start \/ End

Spec == Init /\ [][Next]_vars

-----------------------------------------------------------------------------

Frames == [stage : Nat \ {0}, start : Nat, children : Nat]

\* Every variable keeps its type: no duration is negative.
TypeOK ==
    /\ now \in Nat
    /\ stages \in Seq(Nat)
    /\ frames \in Seq(Frames)
    /\ inner \in Seq(Nat)

Open(i) == \E k \in 1..Len(frames) : frames[k].stage = i

\* A report gives each stage the time it was the innermost one: what its nested
\* stages took, at whatever depth, is counted once and there (report.go).
ExclusiveDurations ==
    \A i \in 1..Len(stages) : ~Open(i) => stages[i] = inner[i]
=============================================================================

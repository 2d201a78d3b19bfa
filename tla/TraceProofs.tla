----------------------------- MODULE TraceProofs ----------------------------
(* The durations of a report are exclusive, for any nesting of stages, and   *)
(* add up to no more than the operation took.                                *)
EXTENDS Trace, TLAPS

\* The innermost stage runs until now, another one until the next was opened.
Until(k) == IF k = Len(frames) THEN now ELSE frames[k + 1].start

\* The open stages are different ones.
OpenStages ==
    /\ Len(inner) = Len(stages)
    /\ \A k \in 1..Len(frames) : frames[k].stage \in 1..Len(stages)
    /\ \A j, k \in 1..Len(frames) : j # k => frames[j].stage # frames[k].stage

\* The account of an open stage: its time is its own or that of its children.
Account ==
    \A k \in 1..Len(frames) :
        inner[frames[k].stage] = (Until(k) - frames[k].start) - frames[k].children

IInv == TypeOK /\ OpenStages /\ Account /\ ExclusiveDurations

\* The time of the innermost stage grows with the clock.
LEMMA Passing ==
    ASSUME NEW t \in Nat, NEW s \in Nat, NEW c \in Nat
    PROVE  ((t + 1) - s) - c = ((t - s) - c) + 1
OBVIOUS

\* Charging a child's whole time leaves what was the stage's own before it began.
LEMMA Charging ==
    ASSUME NEW t \in Nat, NEW s \in Nat, NEW c \in Nat, NEW b \in Nat
    PROVE  (t - s) - (c + (t - b)) = (b - s) - c
OBVIOUS

\* At first nothing is open.
LEMMA InitIInv == Init => IInv
BY TraceAssumption DEF Init, IInv, TypeOK, OpenStages, Account, ExclusiveDurations, Open

\* Time passes: the innermost stage gets it.
LEMMA TickIInv == IInv /\ Tick => IInv'
<1>. SUFFICES ASSUME IInv, Tick PROVE IInv'
  OBVIOUS
<1>. USE DEF IInv, Tick
<1>1. /\ now \in Nat /\ now' = now + 1
      /\ frames \in Seq(Frames) /\ stages \in Seq(Nat) /\ inner \in Seq(Nat)
      /\ frames' = frames /\ stages' = stages
  BY DEF TypeOK
<1>2. /\ inner' \in [1..Len(inner) -> Nat] /\ Len(inner) \in Nat
      /\ \A i \in 1..Len(inner) :
            inner'[i] = IF frames # <<>> /\ i = Innermost.stage THEN inner[i] + 1 ELSE inner[i]
  <2>1. DOMAIN inner = 1..Len(inner) /\ Len(inner) \in Nat /\ \A i \in 1..Len(inner) : inner[i] \in Nat
    BY <1>1
  <2>2. inner' = [i \in 1..Len(inner) |->
                    IF frames # <<>> /\ i = Innermost.stage THEN inner[i] + 1 ELSE inner[i]]
    BY <2>1
  <2>. HIDE DEF IInv, Tick
  <2>. QED  BY <2>1, <2>2
<1>3. inner' \in Seq(Nat) /\ Len(inner') = Len(inner)
  BY <1>2
<1>4. TypeOK'
  BY <1>1, <1>3 DEF TypeOK
<1>5. OpenStages'
  BY <1>1, <1>3 DEF OpenStages
<1>6. Account'
  <2>. SUFFICES ASSUME NEW k \in 1..Len(frames)
       PROVE  inner'[frames[k].stage] = (Until(k)' - frames[k].start) - frames[k].children
    BY <1>1 DEF Account
  <2>1. /\ frames[k] \in Frames /\ frames[k].stage \in 1..Len(inner)
        /\ inner[frames[k].stage] = (Until(k) - frames[k].start) - frames[k].children
        /\ inner[frames[k].stage] \in Nat /\ Len(frames) \in Nat
    BY <1>1 DEF OpenStages, Account
  <2>2. CASE k = Len(frames)
    <3>1. Until(k) = now /\ Until(k)' = now + 1
      BY <1>1, <2>2 DEF Until
    <3>2. frames # <<>> /\ Innermost.stage = frames[k].stage
      BY <1>1, <2>1, <2>2 DEF Innermost
    <3>3. inner'[frames[k].stage] = inner[frames[k].stage] + 1
      BY <1>2, <2>1, <3>2
    <3>4. frames[k].start \in Nat /\ frames[k].children \in Nat
      BY <2>1 DEF Frames
    <3>5. inner[frames[k].stage] = (now - frames[k].start) - frames[k].children
      BY <2>1, <3>1
    <3>6. ((now + 1) - frames[k].start) - frames[k].children
              = ((now - frames[k].start) - frames[k].children) + 1
      <4>. now \in Nat
        BY <1>1
      <4>. QED  BY <3>4, Passing
    <3>. QED  BY <3>1, <3>3, <3>5, <3>6
  <2>3. CASE k # Len(frames)
    <3>1. Innermost.stage # frames[k].stage
      BY <2>1, <2>3 DEF OpenStages, Innermost
    <3>. QED  BY <1>1, <1>2, <2>1, <2>3, <3>1 DEF Until
  <2>. QED  BY <2>2, <2>3
<1>7. ExclusiveDurations'
  <2>. SUFFICES ASSUME NEW i \in 1..Len(stages), ~Open(i) PROVE stages[i] = inner'[i]
    BY <1>1 DEF ExclusiveDurations, Open
  <2>1. frames # <<>> => i # Innermost.stage
    BY <1>1 DEF Open, Innermost
  <2>2. i \in 1..Len(inner) /\ stages[i] = inner[i]
    BY DEF ExclusiveDurations, OpenStages
  <2>. QED  BY <1>2, <2>1, <2>2
<1>. QED  BY <1>4, <1>5, <1>6, <1>7

\* A stage begins inside the innermost one, which so far has run until now.
LEMMA StartIInv == IInv /\ Start => IInv'
<1>. SUFFICES ASSUME IInv, Start PROVE IInv'
  OBVIOUS
<1>. DEFINE n == Len(frames)
            m == Len(stages)
            f == [stage |-> m + 1, start |-> now, children |-> 0]
<1>1. /\ now \in Nat /\ now' = now /\ n \in Nat /\ m \in Nat
      /\ frames \in Seq(Frames) /\ stages \in Seq(Nat) /\ inner \in Seq(Nat)
      /\ Len(inner) = m
      /\ frames' = Append(frames, f) /\ stages' = Append(stages, 0) /\ inner' = Append(inner, 0)
      /\ f \in Frames
  BY DEF IInv, TypeOK, OpenStages, Start, Frames
<1>2. /\ Len(frames') = n + 1 /\ frames'[n + 1] = f
      /\ \A k \in 1..n : frames'[k] = frames[k]
      /\ Len(stages') = m + 1 /\ stages'[m + 1] = 0
      /\ \A i \in 1..m : stages'[i] = stages[i]
      /\ Len(inner') = m + 1 /\ inner'[m + 1] = 0
      /\ \A i \in 1..m : inner'[i] = inner[i]
  BY <1>1
<1>3. TypeOK'
  BY <1>1 DEF TypeOK
<1>4. \A k \in 1..n : frames[k].stage \in 1..m /\ frames[k] \in Frames
  BY <1>1 DEF IInv, OpenStages
<1>. HIDE DEF n, m
<1>5. OpenStages'
  <2>1. \A k \in 1..(n + 1) : k \in 1..n \/ k = n + 1
    BY <1>1
  <2>2. \A j, k \in 1..n : j # k => frames[j].stage # frames[k].stage
    BY DEF IInv, OpenStages, n
  <2>. QED  BY <1>1, <1>2, <1>4, <2>1, <2>2 DEF OpenStages
<1>6. Account'
  <2>. SUFFICES ASSUME NEW k \in 1..(n + 1)
       PROVE  inner'[frames'[k].stage] = (Until(k)' - frames'[k].start) - frames'[k].children
    BY <1>2 DEF Account
  <2>1. CASE k = n + 1
    <3>1. frames'[k].stage = m + 1 /\ frames'[k].start = now /\ frames'[k].children = 0
      BY <1>2, <2>1
    <3>2. Until(k)' = now
      BY <1>1, <1>2, <2>1 DEF Until
    <3>. QED  BY <1>1, <1>2, <3>1, <3>2
  <2>2. CASE k \in 1..n
    <3>1. inner[frames[k].stage] = (Until(k) - frames[k].start) - frames[k].children
      BY <2>2 DEF IInv, Account, n
    <3>2. k # n + 1 /\ (k # n => k + 1 \in 1..n)
      BY <1>1, <2>2
    <3>3. Until(k)' = frames'[k + 1].start
      BY <1>2, <3>2 DEF Until
    <3>4. Until(k)' = Until(k)
      BY <1>2, <3>2, <3>3 DEF Until, n
    <3>5. frames'[k] = frames[k] /\ inner'[frames[k].stage] = inner[frames[k].stage]
      BY <1>2, <1>4, <2>2
    <3>. QED  BY <3>1, <3>4, <3>5
  <2>3. k = n + 1 \/ k \in 1..n
    BY <1>1
  <2>. QED  BY <2>1, <2>2, <2>3
<1>7. ExclusiveDurations'
  <2>. SUFFICES ASSUME NEW i \in 1..(m + 1), ~Open(i)' PROVE stages'[i] = inner'[i]
    BY <1>2 DEF ExclusiveDurations
  <2>1. i \in 1..m
    BY <1>1, <1>2 DEF Open
  <2>2. ~Open(i)
    BY <1>1, <1>2 DEF Open, n
  <2>3. stages[i] = inner[i]
    BY <2>1, <2>2 DEF IInv, ExclusiveDurations, m
  <2>. QED  BY <1>2, <2>1, <2>3
<1>. QED  BY <1>3, <1>5, <1>6, <1>7 DEF IInv

\* The frames left when the innermost stage ends: its parent is charged.
LEMMA ChargedFrames ==
    ASSUME frames \in Seq(Frames), frames # <<>>, NEW e \in Nat
    PROVE  /\ Charged(e) \in Seq(Frames)
           /\ Len(Charged(e)) = Len(frames) - 1
           /\ \A k \in 1..(Len(frames) - 1) :
                 /\ Charged(e)[k].stage = frames[k].stage
                 /\ Charged(e)[k].start = frames[k].start
                 /\ k # Len(frames) - 1 => Charged(e)[k].children = frames[k].children
                 /\ k = Len(frames) - 1 => Charged(e)[k].children = frames[k].children + e
<1>. DEFINE n == Len(frames)
<1>1. n \in Nat \ {0} /\ n - 1 \in Nat
  OBVIOUS
<1>2. \A k \in 1..(n - 1) : frames[k] \in Frames
  BY <1>1
<1>. DEFINE G(k) == [frames[k] EXCEPT !.children = @ + e]
<1>3. \A k \in 1..(n - 1) :
          /\ G(k) \in Frames
          /\ G(k).stage = frames[k].stage
          /\ G(k).start = frames[k].start
          /\ G(k).children = frames[k].children + e
  <2>. SUFFICES ASSUME NEW k \in 1..(n - 1)
       PROVE  /\ G(k) \in Frames
              /\ G(k).stage = frames[k].stage
              /\ G(k).start = frames[k].start
              /\ G(k).children = frames[k].children + e
    OBVIOUS
  <2>. DEFINE g == frames[k]
  <2>1. g \in Frames
    BY <1>2
  <2>2. G(k) = [g EXCEPT !.children = g.children + e]
    OBVIOUS
  <2>. HIDE DEF g, G
  <2>3. g.children + e \in Nat
    BY <2>1 DEF Frames
  <2>4. G(k) \in Frames
    BY <2>1, <2>2, <2>3 DEF Frames
  <2>5. G(k).stage = g.stage
    BY <2>1, <2>2 DEF Frames
  <2>6. G(k).start = g.start
    BY <2>1, <2>2 DEF Frames
  <2>7. G(k).children = g.children + e
    BY <2>1, <2>2 DEF Frames
  <2>. QED  BY <2>4, <2>5, <2>6, <2>7 DEF g
<1>4. Charged(e) = [k \in 1..(n - 1) |-> IF k = n - 1 THEN G(k) ELSE frames[k]]
  BY DEF Charged
<1>. HIDE DEF n, G
<1>5. \A k \in 1..(n - 1) : Charged(e)[k] = IF k = n - 1 THEN G(k) ELSE frames[k]
  BY <1>4
<1>6. Charged(e) \in [1..(n - 1) -> Frames]
  BY <1>2, <1>3, <1>4
<1>7. Charged(e) \in Seq(Frames) /\ Len(Charged(e)) = n - 1
  BY <1>1, <1>6
<1>. QED  BY <1>3, <1>5, <1>7 DEF n

\* A stage ends: its whole time becomes its parent's children's.
LEMMA EndIInv == IInv /\ End => IInv'
<1>. SUFFICES ASSUME IInv, End PROVE IInv'
  OBVIOUS
<1>. DEFINE n == Len(frames)
            m == Len(stages)
            f == frames[n]
            elapsed == now - f.start
<1>1. /\ now \in Nat /\ now' = now /\ n \in Nat \ {0} /\ m \in Nat
      /\ frames \in Seq(Frames) /\ stages \in Seq(Nat) /\ inner \in Seq(Nat)
      /\ inner' = inner /\ Len(inner) = m
      /\ stages' = [stages EXCEPT ![f.stage] = elapsed - f.children]
      /\ frames' = Charged(elapsed)
  BY DEF IInv, TypeOK, OpenStages, End, Innermost
<1>2. /\ \A k \in 1..n : frames[k].stage \in 1..m /\ frames[k] \in Frames
      /\ \A j, k \in 1..n : j # k => frames[j].stage # frames[k].stage
      /\ \A k \in 1..n : inner[frames[k].stage] = (Until(k) - frames[k].start) - frames[k].children
  BY <1>1 DEF IInv, OpenStages, Account
<1>3. /\ f \in Frames /\ f.stage \in 1..m /\ inner[f.stage] \in Nat
      /\ inner[f.stage] = elapsed - f.children
  BY <1>1, <1>2 DEF Until
<1>4. \A k \in 1..n : frames[k].children \in Nat /\ frames[k].start \in Nat
  BY <1>2 DEF Frames
<1>5. elapsed \in Nat
  <2>1. n \in 1..n /\ f.start \in Nat /\ f.children \in Nat /\ now \in Nat
    BY <1>1, <1>4
  <2>. QED  BY <1>3, <2>1
<1>6. /\ stages' \in Seq(Nat) /\ Len(stages') = m
      /\ stages'[f.stage] = inner[f.stage]
      /\ \A i \in 1..m : i # f.stage => stages'[i] = stages[i]
  BY <1>1, <1>3
<1>7. /\ frames' \in Seq(Frames) /\ Len(frames') = n - 1
      /\ \A k \in 1..(n - 1) :
            /\ frames'[k].stage = frames[k].stage
            /\ frames'[k].start = frames[k].start
            /\ k # n - 1 => frames'[k].children = frames[k].children
            /\ k = n - 1 => frames'[k].children = frames[k].children + elapsed
  <2>1. frames # <<>>
    BY <1>1
  <2>. HIDE DEF elapsed
  <2>. QED  BY <1>1, <1>5, <2>1, ChargedFrames
<1>8. TypeOK'
  BY <1>1, <1>6, <1>7 DEF TypeOK
<1>. HIDE DEF n, m, f, elapsed
<1>9. OpenStages'
  <2>1. \A k \in 1..(n - 1) : k \in 1..n
    BY <1>1
  <2>2. Len(inner') = Len(stages')
    BY <1>1, <1>6
  <2>3. \A k \in 1..(n - 1) : frames'[k].stage \in 1..m
    BY <1>2, <1>7, <2>1
  <2>4. \A j, k \in 1..(n - 1) : j # k => frames'[j].stage # frames'[k].stage
    BY <1>2, <1>7, <2>1
  <2>5. Len(frames') = n - 1 /\ Len(stages') = m
    BY <1>6, <1>7
  <2>. QED  BY <2>2, <2>3, <2>4, <2>5 DEF OpenStages
<1>10. Account'
  <2>. SUFFICES ASSUME NEW k \in 1..(n - 1)
       PROVE  inner[frames[k].stage] = (Until(k)' - frames[k].start) - frames'[k].children
    BY <1>1, <1>7 DEF Account
  <2>1. /\ k \in 1..n /\ k + 1 \in 1..n /\ k # n
        /\ Until(k) = frames[k + 1].start
        /\ inner[frames[k].stage] = (Until(k) - frames[k].start) - frames[k].children
    <3>1. k \in 1..n /\ k + 1 \in 1..n /\ k # n
      BY <1>1
    <3>. QED  BY <1>2, <3>1 DEF Until, n
  <2>2. CASE k = n - 1
    <3>1. Until(k)' = now /\ Until(k) = f.start
      BY <1>1, <1>7, <2>1, <2>2 DEF Until, f
    <3>2. frames'[k].children = frames[k].children + elapsed
      BY <1>7, <2>2
    <3>3. elapsed = now - f.start /\ f.start \in Nat
      BY <1>1, <1>4 DEF elapsed, f
    <3>4. frames[k].children \in Nat /\ frames[k].start \in Nat
      BY <1>4, <2>1
    <3>5. inner[frames[k].stage] = (f.start - frames[k].start) - frames[k].children
      BY <2>1, <3>1
    <3>6. (now - frames[k].start) - (frames[k].children + (now - f.start))
              = (f.start - frames[k].start) - frames[k].children
      <4>. now \in Nat
        BY <1>1
      <4>. QED  BY <3>3, <3>4, Charging
    <3>. QED  BY <3>1, <3>2, <3>3, <3>5, <3>6
  <2>3. CASE k # n - 1
    <3>1. k + 1 \in 1..(n - 1)
      BY <1>1, <2>3
    <3>2. Until(k)' = frames[k + 1].start
      BY <1>7, <2>3, <3>1 DEF Until
    <3>. QED  BY <1>7, <2>1, <2>3, <3>2
  <2>. QED  BY <2>2, <2>3
<1>11. ExclusiveDurations'
  <2>. SUFFICES ASSUME NEW i \in 1..m, ~Open(i)' PROVE stages'[i] = inner[i]
    BY <1>1, <1>6 DEF ExclusiveDurations
  <2>1. CASE i = f.stage
    BY <1>6, <2>1
  <2>2. CASE i # f.stage
    <3>1. \A k \in 1..(n - 1) : frames[k].stage # i
      BY <1>7 DEF Open
    <3>2. \A k \in 1..n : k = n \/ k \in 1..(n - 1)
      BY <1>1
    <3>3. ~Open(i)
      BY <2>2, <3>1, <3>2 DEF Open, f, n
    <3>. QED  BY <1>6, <2>2, <3>3 DEF IInv, ExclusiveDurations, m
  <2>. QED  BY <2>1, <2>2
<1>. QED  BY <1>8, <1>9, <1>10, <1>11 DEF IInv

\* What is kept of the open stages, whatever happens.
THEOREM Inductive == Spec => []IInv
<1>1. IInv /\ [Next]_vars => IInv'
  <2>1. IInv /\ UNCHANGED vars => IInv'
    BY DEF IInv, TypeOK, OpenStages, Account, Until, ExclusiveDurations, Open, vars
  <2>. QED  BY <2>1, TickIInv, StartIInv, EndIInv DEF Next
<1>. QED  BY InitIInv, <1>1, PTL DEF Spec

\* No duration in a report is negative, and a stage is given the time it was
\* the innermost one, however the stages are nested.
THEOREM ReportedDurations == Spec => [](TypeOK /\ ExclusiveDurations)
<1>1. IInv => TypeOK /\ ExclusiveDurations
  BY DEF IInv
<1>. QED  BY Inductive, <1>1, PTL

-----------------------------------------------------------------------------
(* Together the stages of a report take no longer than the operation.       *)

\* p[i] is the sum of the first i elements of s, up to n.
PartialSums(s, n, p) ==
    /\ p[0] = 0
    /\ \A i \in 1..n : p[i] = p[i - 1] + s[i]

SumsOf(n) == [0..n -> Int]

\* The durations reported add up, and to no more than the time since the
\* operation began (report.go: Duration; the unclassified rest is not negative).
DurationsFit ==
    /\ \E p \in SumsOf(Len(stages)) : PartialSums(stages, Len(stages), p)
    /\ \A p \in SumsOf(Len(stages)) :
          PartialSums(stages, Len(stages), p) => p[Len(stages)] <= now

\* Inductive: whatever stays below the time each stage was the innermost one adds
\* up to no more than all the time there was.
InnerFits ==
    \A x \in [1..Len(inner) -> Nat] : \A p \in SumsOf(Len(inner)) :
        /\ \A i \in 1..Len(inner) : x[i] <= inner[i]
        /\ PartialSums(x, Len(inner), p)
        => p[Len(inner)] <= now

\* A stage has no duration before it ends, and the durations have sums.
OpenZero == \A i \in 1..Len(stages) : Open(i) => stages[i] = 0

HasSums == \E p \in SumsOf(Len(stages)) : PartialSums(stages, Len(stages), p)

\* One element more by d makes the sums from there on more by d.
LEMMA ShiftedSums ==
    ASSUME NEW n \in Nat, NEW x \in [1..n -> Int], NEW p \in SumsOf(n), PartialSums(x, n, p),
           NEW s \in 1..n, NEW d \in Int
    PROVE  LET y == [x EXCEPT ![s] = @ + d]
               q == [i \in 0..n |-> IF i < s THEN p[i] ELSE p[i] + d]
           IN  q \in SumsOf(n) /\ PartialSums(y, n, q)
<1>. DEFINE y == [x EXCEPT ![s] = @ + d]
            q == [i \in 0..n |-> IF i < s THEN p[i] ELSE p[i] + d]
<1>1. \A i \in 0..n : p[i] \in Int
  BY DEF SumsOf
<1>2. q \in SumsOf(n)
  BY <1>1 DEF SumsOf
<1>3. q[0] = 0
  BY DEF PartialSums
<1>4. ASSUME NEW i \in 1..n PROVE q[i] = q[i - 1] + y[i]
  <2>1. i \in 0..n /\ i - 1 \in 0..n /\ x[i] \in Int /\ p[i] = p[i - 1] + x[i]
    BY DEF PartialSums
  <2>2. /\ q[i] = IF i < s THEN p[i] ELSE p[i] + d
        /\ q[i - 1] = IF i - 1 < s THEN p[i - 1] ELSE p[i - 1] + d
        /\ y[i] = IF i = s THEN x[i] + d ELSE x[i]
    BY <2>1
  <2>3. p[i] \in Int /\ p[i - 1] \in Int
    BY <1>1, <2>1
  <2>. HIDE DEF y, q
  <2>4. CASE i < s
    BY <2>1, <2>2, <2>3, <2>4
  <2>5. CASE i = s
    BY <2>1, <2>2, <2>3, <2>5
  <2>6. CASE i > s
    BY <2>1, <2>2, <2>3, <2>6
  <2>. QED  BY <2>4, <2>5, <2>6
<1>. HIDE DEF y, q
<1>5. PartialSums(y, n, q)
  BY <1>3, <1>4 DEF PartialSums
<1>. QED  BY <1>2, <1>5 DEF y, q

\* Time passes: the sums grow by no more than the one stage that gets it.
LEMMA TickFits == ASSUME IInv, InnerFits, Tick PROVE InnerFits'
<1>. DEFINE m == Len(inner)
<1>1. /\ m \in Nat /\ now \in Nat /\ now' = now + 1 /\ inner \in [1..m -> Nat]
      /\ inner' = [i \in 1..m |->
                      IF frames # <<>> /\ i = Innermost.stage THEN inner[i] + 1 ELSE inner[i]]
  BY DEF IInv, TypeOK, Tick
<1>2. inner' \in Seq(Nat) /\ Len(inner') = m
  <2>1. inner' \in [1..m -> Nat]
    BY <1>1
  <2>. QED  BY <1>1, <2>1
<1>. HIDE DEF m
<1>. SUFFICES ASSUME NEW x \in [1..m -> Nat], NEW p \in SumsOf(m),
                     \A i \in 1..m : x[i] <= inner'[i], PartialSums(x, m, p)
              PROVE  p[m] <= now + 1
  BY <1>1, <1>2 DEF InnerFits
<1>3. p[m] \in Int
  BY <1>1 DEF SumsOf
<1>4. CASE \A i \in 1..m : x[i] <= inner[i]
  BY <1>1, <1>3, <1>4 DEF InnerFits, m
<1>5. CASE ~(\A i \in 1..m : x[i] <= inner[i])
  <2>1. PICK s \in 1..m : ~(x[s] <= inner[s])
    BY <1>5
  <2>2. x[s] \in Nat /\ inner[s] \in Nat
    BY <1>1
  <2>3. frames # <<>> /\ s = Innermost.stage /\ x[s] = inner[s] + 1
    <3>1. x[s] <= inner'[s] /\ inner'[s] = IF frames # <<>> /\ s = Innermost.stage
                                          THEN inner[s] + 1 ELSE inner[s]
      BY <1>1
    <3>. QED  BY <2>1, <2>2, <3>1
  <2>. DEFINE y == [x EXCEPT ![s] = @ + (-1)]
              q == [i \in 0..m |-> IF i < s THEN p[i] ELSE p[i] + (-1)]
  <2>4. q \in SumsOf(m) /\ PartialSums(y, m, q)
    <3>1. x \in [1..m -> Int] /\ -1 \in Int
      OBVIOUS
    <3>. QED  BY <1>1, <3>1, ShiftedSums
  <2>5. y \in [1..m -> Nat] /\ \A i \in 1..m : y[i] <= inner[i]
    <3>1. ASSUME NEW i \in 1..m PROVE y[i] \in Nat /\ y[i] <= inner[i]
      <4>1. CASE i = s
        BY <2>2, <2>3, <4>1
      <4>2. CASE i # s
        <5>1. inner'[i] = inner[i] /\ y[i] = x[i] /\ x[i] \in Nat
          BY <1>1, <2>3, <4>2
        <5>. QED  BY <5>1
      <4>. QED  BY <4>1, <4>2
    <3>2. y = [i \in 1..m |-> y[i]]
      OBVIOUS
    <3>. QED  BY <3>1, <3>2
  <2>. HIDE DEF y
  <2>6. q[m] <= now
    BY <2>4, <2>5 DEF InnerFits, m
  <2>7. q[m] = p[m] + (-1)
    BY <1>1
  <2>. QED  BY <1>1, <1>3, <2>6, <2>7
<1>. QED  BY <1>4, <1>5

\* A new stage has had no time yet.
LEMMA StartFits == ASSUME IInv, InnerFits, Start PROVE InnerFits'
<1>. DEFINE m == Len(inner)
<1>1. /\ m \in Nat /\ now \in Nat /\ now' = now /\ inner \in [1..m -> Nat]
      /\ Len(inner') = m + 1 /\ inner'[m + 1] = 0
      /\ \A i \in 1..m : inner'[i] = inner[i]
  BY DEF IInv, TypeOK, Start
<1>. HIDE DEF m
<1>. SUFFICES ASSUME NEW x \in [1..(m + 1) -> Nat], NEW p \in SumsOf(m + 1),
                     \A i \in 1..(m + 1) : x[i] <= inner'[i], PartialSums(x, m + 1, p)
              PROVE  p[m + 1] <= now
  BY <1>1 DEF InnerFits
<1>. DEFINE y == [i \in 1..m |-> x[i]]
            q == [i \in 0..m |-> p[i]]
<1>2. y \in [1..m -> Nat] /\ q \in SumsOf(m)
  BY <1>1 DEF SumsOf
<1>3. \A i \in 1..m : y[i] <= inner[i]
  BY <1>1
<1>4. PartialSums(y, m, q)
  <2>1. q[0] = 0
    BY <1>1 DEF PartialSums
  <2>2. ASSUME NEW i \in 1..m PROVE q[i] = q[i - 1] + y[i]
    <3>1. i \in 1..(m + 1) /\ i \in 0..m /\ i - 1 \in 0..m
      BY <1>1
    <3>2. p[i] = p[i - 1] + x[i]
      BY <3>1 DEF PartialSums
    <3>. QED  BY <3>1, <3>2
  <2>. HIDE DEF y, q
  <2>. QED  BY <2>1, <2>2 DEF PartialSums
<1>5. q[m] <= now
  <2>. HIDE DEF y, q
  <2>. QED  BY <1>2, <1>3, <1>4 DEF InnerFits, m
<1>6. q[m] = p[m] /\ p[m] \in Int
  BY <1>1 DEF SumsOf
<1>7. x[m + 1] = 0
  <2>1. m + 1 \in 1..(m + 1)
    BY <1>1
  <2>2. x[m + 1] \in Nat /\ x[m + 1] <= 0
    BY <1>1, <2>1
  <2>. QED  BY <2>2
<1>8. p[m + 1] = p[m] + x[m + 1]
  <2>1. m + 1 \in 1..(m + 1) /\ (m + 1) - 1 = m
    BY <1>1
  <2>. QED  BY <2>1 DEF PartialSums
<1>. QED  BY <1>5, <1>6, <1>7, <1>8

\* A stage that is open has no duration yet.
LEMMA OpenZeroStep == ASSUME IInv, IInv', OpenZero, [Next]_vars PROVE OpenZero'
<1>1. CASE Tick \/ UNCHANGED vars
  BY <1>1 DEF Tick, vars, OpenZero, Open
<1>2. CASE Start
  <2>. DEFINE m == Len(stages)
              n == Len(frames)
  <2>1. /\ m \in Nat /\ n \in Nat /\ Len(stages') = m + 1 /\ stages'[m + 1] = 0
        /\ \A i \in 1..m : stages'[i] = stages[i]
        /\ Len(frames') = n + 1 /\ frames'[n + 1].stage = m + 1
        /\ \A k \in 1..n : frames'[k] = frames[k]
    BY <1>2 DEF IInv, TypeOK, Start
  <2>. HIDE DEF m, n
  <2>2. ASSUME NEW i \in 1..(m + 1), Open(i)' PROVE stages'[i] = 0
    <3>1. CASE i = m + 1
      BY <2>1, <3>1
    <3>2. CASE i # m + 1
      <4>1. i \in 1..m
        BY <2>1, <3>2
      <4>2. PICK k \in 1..(n + 1) : frames'[k].stage = i
        BY <2>1, <2>2 DEF Open
      <4>3. k \in 1..n /\ frames[k].stage = i
        BY <2>1, <3>2, <4>2
      <4>4. Open(i)
        BY <4>3 DEF Open, n
      <4>. QED  BY <2>1, <4>1, <4>4 DEF OpenZero, m
    <3>. QED  BY <3>1, <3>2
  <2>. QED  BY <2>1, <2>2 DEF OpenZero
<1>3. CASE End
  <2>. DEFINE n == Len(frames)
              e == now - frames[n].start
  <2>1. /\ n \in Nat \ {0} /\ frames # <<>> /\ frames \in Seq(Frames) /\ stages \in Seq(Nat)
        /\ stages' = [stages EXCEPT ![frames[n].stage] = e - frames[n].children]
        /\ frames' = Charged(e)
    BY <1>3 DEF IInv, TypeOK, End, Innermost
  <2>2. /\ Len(frames') = n - 1
        /\ \A k \in 1..(n - 1) : frames'[k].stage = frames[k].stage
    BY <2>1 DEF Charged
  <2>3. \A k \in 1..(n - 1) : frames[k].stage # frames[n].stage
    BY <2>1 DEF IInv, OpenStages
  <2>4. Len(stages') = Len(stages)
    BY <2>1
  <2>5. ASSUME NEW i \in 1..Len(stages), Open(i)' PROVE stages'[i] = 0
    <3>1. PICK k \in 1..(n - 1) : frames'[k].stage = i
      BY <2>2, <2>5 DEF Open
    <3>2. i # frames[n].stage /\ k \in 1..n /\ frames[k].stage = i
      BY <2>1, <2>2, <2>3, <3>1
    <3>3. Open(i)
      BY <3>2 DEF Open
    <3>4. stages'[i] = stages[i]
      BY <2>1, <3>2
    <3>. QED  BY <3>3, <3>4 DEF OpenZero
  <2>. QED  BY <2>4, <2>5 DEF OpenZero
<1>. QED  BY <1>1, <1>2, <1>3 DEF Next

\* The durations keep having sums.
LEMMA SumsStep == ASSUME IInv, IInv', HasSums, [Next]_vars PROVE HasSums'
<1>. DEFINE m == Len(stages)
<1>1. m \in Nat /\ stages \in [1..m -> Nat]
  BY DEF IInv, TypeOK
<1>2. PICK p \in SumsOf(m) : PartialSums(stages, m, p)
  BY DEF HasSums
<1>3. CASE Tick \/ UNCHANGED vars
  BY <1>2, <1>3 DEF Tick, vars, HasSums
<1>4. CASE Start
  <2>1. /\ Len(stages') = m + 1 /\ stages'[m + 1] = 0
        /\ \A i \in 1..m : stages'[i] = stages[i]
    BY <1>4 DEF IInv, TypeOK, Start
  <2>. HIDE DEF m
  <2>. DEFINE q == [i \in 0..(m + 1) |-> IF i <= m THEN p[i] ELSE p[m]]
  <2>2. q \in SumsOf(m + 1)
    BY <1>1 DEF SumsOf
  <2>3. q[0] = 0
    BY <1>1, <1>2 DEF PartialSums
  <2>4. ASSUME NEW i \in 1..(m + 1) PROVE q[i] = q[i - 1] + stages'[i]
    <3>1. CASE i = m + 1
      <4>1. q[i] = p[m] /\ q[i - 1] = p[m] /\ stages'[i] = 0 /\ p[m] \in Int
        BY <1>1, <2>1, <3>1 DEF SumsOf
      <4>. HIDE DEF q
      <4>. QED  BY <4>1
    <3>2. CASE i # m + 1
      <4>1. i \in 1..m /\ i \in 0..m /\ i - 1 \in 0..m
        BY <1>1, <3>2
      <4>2. q[i] = p[i] /\ q[i - 1] = p[i - 1] /\ stages'[i] = stages[i]
        BY <1>1, <2>1, <4>1
      <4>3. p[i] = p[i - 1] + stages[i]
        BY <1>2, <4>1 DEF PartialSums
      <4>. HIDE DEF q
      <4>. QED  BY <4>2, <4>3
    <3>. QED  BY <3>1, <3>2
  <2>. HIDE DEF q
  <2>5. PartialSums(stages', m + 1, q)
    BY <2>3, <2>4 DEF PartialSums
  <2>. QED  BY <2>1, <2>2, <2>5 DEF HasSums
<1>5. CASE End
  <2>. DEFINE s == frames[Len(frames)].stage
              d == stages'[s] - stages[s]
              y == [stages EXCEPT ![s] = @ + d]
              q == [i \in 0..m |-> IF i < s THEN p[i] ELSE p[i] + d]
  <2>1. s \in 1..m
    BY <1>5 DEF IInv, TypeOK, OpenStages, End
  <2>2. stages' \in Seq(Nat) /\ Len(stages') = m
    BY <1>1, <1>5 DEF IInv, TypeOK, End
  <2>3. \A i \in 1..m : i # s => stages'[i] = stages[i]
    BY <1>1, <1>5 DEF End, Innermost
  <2>4. d \in Int /\ stages[s] \in Int /\ stages'[s] \in Int
    BY <1>1, <2>1, <2>2
  <2>5. \A i \in 1..m : stages'[i] = y[i]
    <3>. HIDE DEF m, s
    <3>. QED  BY <1>1, <2>1, <2>3, <2>4
  <2>6. q \in SumsOf(m) /\ PartialSums(y, m, q)
    <3>. HIDE DEF m, s, d
    <3>1. stages \in [1..m -> Int]
      BY <1>1
    <3>. QED  BY <1>1, <1>2, <2>1, <2>4, <3>1, ShiftedSums
  <2>. HIDE DEF m, s, d, y, q
  <2>7. PartialSums(stages', m, q)
    BY <2>5, <2>6 DEF PartialSums
  <2>. QED  BY <2>2, <2>6, <2>7 DEF HasSums
<1>. QED  BY <1>3, <1>4, <1>5 DEF Next

\* The stages of a report take no longer than the operation it is about.
THEOREM DurationsWithinReport == Spec => []DurationsFit
<1>1. Init => InnerFits /\ OpenZero /\ HasSums
  <2>. SUFFICES ASSUME Init PROVE InnerFits /\ OpenZero /\ HasSums
    OBVIOUS
  <2>1. Len(inner) = 0 /\ Len(stages) = 0 /\ now = 0
    BY DEF Init
  <2>2. InnerFits
    BY <2>1 DEF InnerFits, PartialSums
  <2>3. OpenZero
    BY <2>1 DEF OpenZero
  <2>4. [i \in 0..0 |-> 0] \in SumsOf(0) /\ PartialSums(stages, 0, [i \in 0..0 |-> 0])
    BY DEF SumsOf, PartialSums
  <2>. QED  BY <2>1, <2>2, <2>3, <2>4 DEF HasSums
<1>2. IInv /\ InnerFits /\ [Next]_vars => InnerFits'
  <2>1. InnerFits /\ (End \/ UNCHANGED vars) => InnerFits'
    BY DEF InnerFits, End, vars
  <2>. QED  BY <2>1, TickFits, StartFits DEF Next
<1>3. IInv /\ IInv' /\ OpenZero /\ HasSums /\ [Next]_vars => OpenZero' /\ HasSums'
  BY OpenZeroStep, SumsStep
<1>4. IInv /\ InnerFits /\ OpenZero /\ HasSums => DurationsFit
  <2>. SUFFICES ASSUME IInv, InnerFits, OpenZero, HasSums PROVE DurationsFit
    OBVIOUS
  <2>1. /\ Len(inner) = Len(stages) /\ stages \in [1..Len(inner) -> Nat]
        /\ inner \in [1..Len(inner) -> Nat]
    BY DEF IInv, TypeOK, OpenStages
  <2>2. \A i \in 1..Len(inner) : stages[i] <= inner[i]
    BY <2>1 DEF IInv, ExclusiveDurations, OpenZero
  <2>. QED  BY <2>1, <2>2 DEF DurationsFit, InnerFits, HasSums
<1>. QED  BY <1>1, <1>2, <1>3, <1>4, Inductive, PTL DEF Spec
=============================================================================

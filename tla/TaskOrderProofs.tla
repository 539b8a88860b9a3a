-------------------------- MODULE TaskOrderProofs ---------------------------
(***************************************************************************)
(* Proofs about TaskOrder for every configuration and every request: the   *)
(* answer of ordered has each task once, after all of its needs.           *)
(***************************************************************************)
EXTENDS TaskOrder, Minimum, SequenceTheorems

Frames == [task : Nat, next : Nat \ {0}]

Shape ==
    /\ tasks \subseteq Names
    /\ needs \in [tasks -> Seq(Names)]
    /\ stack \in Seq(Frames) /\ Len(stack) > 0
    /\ ordered \in Seq(tasks)

\* The loop is at the bottom; above it are calls of different tasks, none of
\* them ordered yet.
Open ==
    /\ stack[1].task = Top
    /\ \A d \in 2..Len(stack) : stack[d].task \in (tasks \cap visiting) \ seen
    /\ \A d, e \in 2..Len(stack) : stack[d].task = stack[e].task => d = e

\* Each call is for the need its caller has come to.
Calls ==
    \A d \in 2..Len(stack) : stack[d - 1].task # Top =>
        stack[d].task = needs[stack[d - 1].task][stack[d - 1].next]

\* The needs a call has gone past are ordered.
PassedIsSeen ==
    \A d \in 2..Len(stack) : \A i \in DOMAIN needs[stack[d].task] :
        i < stack[d].next => needs[stack[d].task][i] \in seen

SeenIsOrdered == seen = {ordered[i] : i \in DOMAIN ordered}

\* The inductive invariant.
Inv == Shape /\ Open /\ Calls /\ PassedIsSeen /\ SeenIsOrdered /\ NeedsFirst /\ EachOnce

\* A call of visit puts its frame on the stack: the frames below stay.
LEMMA Pushed ==
    ASSUME NEW s \in Seq(Frames), NEW f \in Frames
    PROVE  LET t == Append(s, f)
           IN /\ t \in Seq(Frames) /\ Len(t) = Len(s) + 1
              /\ \A d \in 1..Len(s) : t[d] = s[d]
              /\ t[Len(s) + 1] = f
  BY AppendProperties

\* The loop of the last frame goes on: only its counter changes.
LEMMA Stepped ==
    ASSUME NEW s \in Seq(Frames), Len(s) > 0
    PROVE  LET t == Step(s)
           IN /\ t \in Seq(Frames) /\ Len(t) = Len(s)
              /\ \A d \in 1..Len(s) : t[d].task = s[d].task
              /\ \A d \in 1..(Len(s) - 1) : t[d] = s[d]
              /\ t[Len(s)].next = s[Len(s)].next + 1
  <1> DEFINE f == [s[Len(s)] EXCEPT !.next = @ + 1]
  <1>1. Len(s) \in 1..Len(s) /\ s[Len(s)] \in Frames
    OBVIOUS
  <1>2. f \in Frames /\ f.task = s[Len(s)].task /\ f.next = s[Len(s)].next + 1
    BY <1>1 DEF Frames
  <1>3. Step(s) = [s EXCEPT ![Len(s)] = f]
    BY DEF Step
  <1> HIDE DEF f
  <1>4. QED
    BY <1>1, <1>2, <1>3, ExceptSeq

\* A return takes the last frame from the stack: the frames below stay.
LEMMA Popped ==
    ASSUME NEW s \in Seq(Frames), Len(s) > 1
    PROVE  LET t == SubSeq(s, 1, Len(s) - 1)
           IN /\ t \in Seq(Frames) /\ Len(t) = Len(s) - 1
              /\ \A d \in 1..(Len(s) - 1) : t[d] = s[d]
  BY SubSeqProperties


\* The counter of a frame is a number.
LEMMA FrameTypes ==
    ASSUME Inv, NEW d \in 1..Len(stack)
    PROVE  stack[d] \in Frames /\ stack[d].next \in Nat
  <1>1. stack[d] \in Frames
    BY DEF Inv, Shape
  <1>2. QED
    BY <1>1 DEF Frames

\* The needs of a task are numbered from one.
LEMMA NeedIndex ==
    ASSUME Inv, NEW u \in tasks
    PROVE  needs[u] \in Seq(Names) /\ DOMAIN needs[u] = 1..Len(needs[u]) /\ Len(needs[u]) \in Nat
  BY DEF Inv, Shape

-----------------------------------------------------------------------------
\* A step that leaves the stack, the order and the configuration alone.
LEMMA RestKeeps ==
    ASSUME Inv, UNCHANGED <<tasks, needs, stack, seen, visiting, ordered>>
    PROVE  Inv'
  BY DEF Inv, Shape, Open, Calls, PassedIsSeen, SeenIsOrdered, NeedsFirst, NeedsOf, EachOnce

\* A call for a task that is ordered already goes on with the next need.
LEMMA SkipKeeps ==
    ASSUME Inv, SkipSeen
    PROVE  Inv'
  <1> DEFINE n == Len(stack)
  <1>1. /\ stack \in Seq(Frames) /\ n > 0 /\ n \in Nat /\ stack' = Step(stack)
        /\ UNCHANGED <<tasks, needs, seen, visiting, ordered>>
    BY DEF Inv, Shape, SkipSeen
  <1>2. /\ stack' \in Seq(Frames) /\ Len(stack') = n
        /\ \A d \in 1..n : stack'[d].task = stack[d].task
        /\ \A d \in 1..(n - 1) : stack'[d] = stack[d]
        /\ stack'[n].next = stack[n].next + 1
    BY <1>1, Stepped
  <1>3. n > 1 => needs[stack[n].task][stack[n].next] \in seen
    <2>1. SUFFICES ASSUME n > 1 PROVE needs[stack[n].task][stack[n].next] \in seen
      OBVIOUS
    <2>2. stack[n].task # Top
      BY <1>1, <2>1, NamesAssumption DEF Inv, Shape, Open, Top
    <2>3. QED
      BY <2>2 DEF SkipSeen, Seen, Name, Loop, Frame
  <1>4. Shape'
    BY <1>1, <1>2 DEF Inv, Shape
  <1>5. Open'
    BY <1>1, <1>2 DEF Inv, Open
  <1>6. Calls'
    BY <1>1, <1>2 DEF Inv, Calls
  <1>7. PassedIsSeen'
    <2> SUFFICES ASSUME NEW d \in 2..n, NEW i \in DOMAIN needs[stack'[d].task], i < stack'[d].next
                 PROVE  needs[stack'[d].task][i] \in seen
      BY <1>1, <1>2 DEF PassedIsSeen
    <2>a. stack[d].task \in tasks /\ stack'[d].task = stack[d].task
      BY <1>1, <1>2 DEF Inv, Open
    <2>0. stack[d].next \in Nat /\ i \in Nat
      BY <1>1, <2>a, FrameTypes, NeedIndex
    <2>1. CASE i < stack[d].next
      BY <1>1, <1>2, <2>1 DEF Inv, PassedIsSeen
    <2>2. CASE ~(i < stack[d].next)
      <3>1. d = n /\ i = stack[n].next
        BY <1>1, <1>2, <2>0, <2>2
      <3>2. QED
        BY <1>1, <1>2, <1>3, <3>1
    <2>3. QED
      BY <2>1, <2>2
  <1>8. QED
    BY <1>1, <1>4, <1>5, <1>6, <1>7 DEF Inv, SeenIsOrdered, NeedsFirst, NeedsOf, EachOnce

\* A call for a task that is neither ordered nor under way.
LEMMA VisitKeeps ==
    ASSUME Inv, Visit
    PROVE  Inv'
  <1> DEFINE n == Len(stack)
             f == [task |-> Name, next |-> 1]
  <1>1. /\ stack \in Seq(Frames) /\ n > 0 /\ n \in Nat /\ stack' = Append(stack, f)
        /\ UNCHANGED <<tasks, needs, seen, ordered>>
        /\ visiting' = visiting \cup {Name}
        /\ Name \in tasks /\ Name \notin seen /\ Name \notin visiting
    BY DEF Inv, Shape, Visit, FirstNeed, OnEntry, Seen, Visiting
  <1>2. f \in Frames /\ f.task = Name /\ f.next = 1
    BY <1>1, NamesAssumption DEF Inv, Shape, Frames
  <1> HIDE DEF f
  <1>3. /\ stack' \in Seq(Frames) /\ Len(stack') = n + 1
        /\ \A d \in 1..n : stack'[d] = stack[d]
        /\ stack'[n + 1] = f
    BY <1>1, <1>2, Pushed
  <1>4. Shape'
    BY <1>1, <1>3 DEF Inv, Shape
  <1>5. Open'
    <2>1. stack'[1].task = Top
      BY <1>1, <1>3 DEF Inv, Open
    <2>2. \A d \in 2..n : stack'[d].task = stack[d].task /\ stack'[d].task # Name
      BY <1>1, <1>3 DEF Inv, Open
    <2>3. stack'[n + 1].task = Name
      BY <1>2, <1>3
    <2>4. \A d \in 2..(n + 1) : stack'[d].task \in (tasks \cap visiting') \ seen
      BY <1>1, <2>2, <2>3 DEF Inv, Open
    <2>5. \A d, e \in 2..(n + 1) : stack'[d].task = stack'[e].task => d = e
      BY <1>1, <2>2, <2>3 DEF Inv, Open
    <2>6. QED
      BY <1>1, <1>3, <2>1, <2>4, <2>5 DEF Open
  <1>6. Calls'
    <2> SUFFICES ASSUME NEW d \in 2..(n + 1), stack'[d - 1].task # Top
                 PROVE  stack'[d].task = needs[stack'[d - 1].task][stack'[d - 1].next]
      BY <1>1, <1>3 DEF Calls
    <2>1. CASE d \in 2..n
      BY <1>1, <1>3, <2>1 DEF Inv, Calls
    <2>2. CASE d = n + 1
      BY <1>1, <1>2, <1>3, <2>2 DEF Name, Loop, Frame
    <2>3. QED
      BY <1>1, <2>1, <2>2
  <1>7. PassedIsSeen'
    <2> SUFFICES ASSUME NEW d \in 2..(n + 1), NEW i \in DOMAIN needs[stack'[d].task],
                        i < stack'[d].next
                 PROVE  needs[stack'[d].task][i] \in seen
      BY <1>1, <1>3 DEF PassedIsSeen
    <2>1. CASE d \in 2..n
      BY <1>1, <1>3, <2>1 DEF Inv, PassedIsSeen
    <2>2. CASE d = n + 1
      BY <1>1, <1>2, <1>3, <2>2 DEF Inv, Shape
    <2>3. QED
      BY <1>1, <2>1, <2>2
  <1>8. QED
    BY <1>1, <1>4, <1>5, <1>6, <1>7 DEF Inv, SeenIsOrdered, NeedsFirst, NeedsOf, EachOnce

\* NeedsFirst, of the needs by their numbers, after a step.
LEMMA NeedsFirstNext ==
    ASSUME \A i \in DOMAIN ordered' : \A q \in DOMAIN needs'[ordered'[i]] :
              \E k \in 1..(i - 1) : ordered'[k] = needs'[ordered'[i]][q]
    PROVE  NeedsFirst'
  BY DEF NeedsFirst, NeedsOf

\* A call that has gone past all needs of its task orders it.
LEMMA ReturnKeeps ==
    ASSUME Inv, Return
    PROVE  Inv'
  <1> DEFINE n == Len(stack)
             t == stack[n].task
             s == SubSeq(stack, 1, n - 1)
             m == Len(ordered)
  <1>1. /\ stack \in Seq(Frames) /\ n > 0 /\ n \in Nat /\ t # Top
        /\ ~(stack[n].next <= Len(needs[t]))
        /\ stack' = Step(s)
        /\ UNCHANGED <<tasks, needs>>
        /\ visiting' = visiting \ {t} /\ seen' = seen \cup {t}
        /\ ordered' = Append(ordered, t)
    BY DEF Inv, Shape, Return, Frame, More, Loop
  <1>2. n > 1 /\ t \in tasks /\ t \notin seen
    BY <1>1 DEF Inv, Open
  <1>3. /\ s \in Seq(Frames) /\ Len(s) = n - 1
        /\ \A d \in 1..(n - 1) : s[d] = stack[d]
    BY <1>1, <1>2, Popped
  <1> HIDE DEF s
  <1>4. /\ stack' \in Seq(Frames) /\ Len(stack') = n - 1
        /\ \A d \in 1..(n - 1) : stack'[d].task = stack[d].task
        /\ \A d \in 1..(n - 2) : stack'[d] = stack[d]
        /\ stack'[n - 1].next = stack[n - 1].next + 1
    <2>1. Len(s) > 0
      BY <1>1, <1>2, <1>3
    <2>2. /\ stack' \in Seq(Frames) /\ Len(stack') = Len(s)
          /\ \A d \in 1..Len(s) : stack'[d].task = s[d].task
          /\ \A d \in 1..(Len(s) - 1) : stack'[d] = s[d]
          /\ stack'[Len(s)].next = s[Len(s)].next + 1
      BY <1>1, <1>3, <2>1, Stepped
    <2>3. QED
      BY <1>1, <1>2, <1>3, <2>2
  <1>5. /\ ordered' \in Seq(tasks) /\ Len(ordered') = m + 1 /\ m \in Nat
        /\ \A i \in 1..m : ordered'[i] = ordered[i]
        /\ ordered'[m + 1] = t
        /\ DOMAIN ordered = 1..m /\ DOMAIN ordered' = 1..(m + 1)
    <2>1. ordered \in Seq(tasks) /\ m \in Nat
      BY DEF Inv, Shape
    <2>2. QED
      BY <1>1, <1>2, <2>1, AppendProperties
  <1>6. Shape'
    BY <1>1, <1>2, <1>4, <1>5 DEF Inv, Shape
  <1>7. Open'
    <2>1. stack'[1].task = Top
      BY <1>1, <1>2, <1>4 DEF Inv, Open
    <2>2. \A d \in 2..(n - 1) : stack'[d].task = stack[d].task /\ stack[d].task # t
      BY <1>1, <1>2, <1>4 DEF Inv, Open
    <2>3. \A d \in 2..(n - 1) : stack'[d].task \in (tasks \cap visiting') \ seen'
      BY <1>1, <2>2 DEF Inv, Open
    <2>4. \A d, e \in 2..(n - 1) : stack'[d].task = stack'[e].task => d = e
      BY <1>1, <2>2 DEF Inv, Open
    <2>5. QED
      BY <1>1, <1>4, <2>1, <2>3, <2>4 DEF Open
  <1>8. Calls'
    <2> SUFFICES ASSUME NEW d \in 2..(n - 1), stack'[d - 1].task # Top
                 PROVE  stack'[d].task = needs[stack'[d - 1].task][stack'[d - 1].next]
      BY <1>1, <1>4 DEF Calls
    <2>1. d \in 1..(n - 1) /\ d - 1 \in 1..(n - 2) /\ d \in 2..Len(stack)
      BY <1>1
    <2>2. stack'[d].task = stack[d].task /\ stack'[d - 1] = stack[d - 1]
      BY <1>4, <2>1
    <2>3. QED
      BY <2>1, <2>2 DEF Inv, Calls
  <1>9. PassedIsSeen'
    <2> SUFFICES ASSUME NEW d \in 2..(n - 1), NEW i \in DOMAIN needs[stack'[d].task],
                        i < stack'[d].next
                 PROVE  needs[stack'[d].task][i] \in seen'
      BY <1>1, <1>4 DEF PassedIsSeen
    <2>a. stack[d].task \in tasks /\ stack'[d].task = stack[d].task
      BY <1>1, <1>4 DEF Inv, Open
    <2>0. stack[d].next \in Nat /\ i \in Nat
      BY <1>1, <2>a, FrameTypes, NeedIndex
    <2>1. CASE i < stack[d].next
      BY <1>1, <2>a, <2>1 DEF Inv, PassedIsSeen
    <2>2. CASE ~(i < stack[d].next)
      <3>0. d = n - 1
        <4>1. d \in 1..(n - 2) => stack'[d].next = stack[d].next
          BY <1>4
        <4>2. QED
          BY <1>1, <2>0, <2>2, <4>1
      <3>1. d = n - 1 /\ i = stack[d].next
        BY <1>4, <2>0, <2>2, <3>0
      <3>2. stack[d].task # Top
        BY <2>a, NamesAssumption DEF Inv, Shape, Top
      <3>3. t = needs[stack[d].task][stack[d].next]
        BY <1>1, <1>2, <3>1, <3>2 DEF Inv, Calls
      <3>4. QED
        BY <1>1, <2>a, <3>1, <3>3
    <2>3. QED
      BY <2>1, <2>2
  <1>10. SeenIsOrdered'
    BY <1>1, <1>5 DEF Inv, SeenIsOrdered
  <1>11. EachOnce'
    BY <1>1, <1>2, <1>5 DEF Inv, SeenIsOrdered, EachOnce
  <1>12. NeedsFirst'
    <2> SUFFICES ASSUME NEW i \in DOMAIN ordered', NEW q \in DOMAIN needs'[ordered'[i]]
                 PROVE  \E k \in 1..(i - 1) : ordered'[k] = needs'[ordered'[i]][q]
      BY NeedsFirstNext
    <2>0. i \in 1..(m + 1) /\ q \in DOMAIN needs[ordered'[i]] /\ needs' = needs
      BY <1>1, <1>5
    <2>1. CASE i \in 1..m
      <3>1. needs[ordered[i]][q] \in NeedsOf(ordered[i])
        BY <1>5, <2>0, <2>1 DEF NeedsOf
      <3>2. PICK k \in 1..(i - 1) : ordered[k] = needs[ordered[i]][q]
        BY <1>5, <2>1, <3>1 DEF Inv, NeedsFirst
      <3>3. QED
        BY <1>5, <2>0, <2>1, <3>2
    <2>2. CASE i = m + 1
      <3>1. q \in 1..Len(needs[t]) /\ Len(needs[t]) \in Nat
        BY <1>2, <1>5, <2>0, <2>2, NeedIndex
      <3>2. stack[n].next \in Nat
        BY <1>1, FrameTypes
      <3>3. q < stack[n].next
        BY <1>1, <3>1, <3>2
      <3>4. needs[t][q] \in seen
        BY <1>1, <1>2, <1>5, <2>0, <2>2, <3>3 DEF Inv, PassedIsSeen
      <3>5. PICK k \in 1..m : ordered[k] = needs[t][q]
        BY <1>5, <3>4 DEF Inv, SeenIsOrdered
      <3>6. QED
        BY <1>5, <2>0, <2>2, <3>5
    <2>3. QED
      BY <1>5, <2>0, <2>1, <2>2
  <1>13. QED
    BY <1>6, <1>7, <1>8, <1>9, <1>10, <1>11, <1>12 DEF Inv

\* A call of ordered starts with nothing remembered.
LEMMA FreshHolds ==
    ASSUME tasks \subseteq Names, needs \in [tasks -> Seq(Names)],
           stack = Bottom, seen = {}, ordered = <<>>
    PROVE  Inv
  <1>1. /\ stack \in Seq(Frames) /\ Len(stack) = 1 /\ stack[1].task = Top
        /\ ordered \in Seq(tasks) /\ DOMAIN ordered = {}
    BY DEF Bottom, Frames, Top
  <1>2. QED
    BY <1>1 DEF Inv, Shape, Open, Calls, PassedIsSeen, SeenIsOrdered, NeedsFirst, EachOnce

\* The invariant holds in every reachable state.
THEOREM CallsKept == Spec => []Inv
  <1>1. Init => Inv
    <2> SUFFICES ASSUME Init PROVE Inv
      OBVIOUS
    <2>1. tasks \subseteq Names /\ needs \in [tasks -> Seq(Names)]
      BY NamesAssumption DEF Init
    <2>2. QED
      BY <2>1, FreshHolds DEF Init
  <1>2. Inv /\ [Next]_vars => Inv'
    <2> SUFFICES ASSUME Inv, [Next]_vars PROVE Inv'
      OBVIOUS
    <2>1. CASE RefuseNeeds \/ Refuse \/ Done \/ UNCHANGED vars
      BY <2>1, RestKeeps DEF RefuseNeeds, Refuse, Done, vars
    <2>2. CASE SkipSeen
      BY <2>2, SkipKeeps
    <2>3. CASE Visit
      BY <2>3, VisitKeeps
    <2>4. CASE Return
      BY <2>4, ReturnKeeps
    <2>5. ASSUME NEW names, Ordered(names) PROVE Inv'
      <3>1. /\ tasks' \subseteq Names /\ needs' \in [tasks' -> Seq(Names)]
            /\ stack' = Bottom /\ seen' = {} /\ ordered' = <<>>
        BY <2>5 DEF Ordered, Inv, Shape
      <3>2. /\ stack' \in Seq(Frames) /\ Len(stack') = 1 /\ stack'[1].task = Top
            /\ ordered' \in Seq(tasks') /\ DOMAIN ordered' = {}
        BY <3>1 DEF Bottom, Frames, Top
      <3>3. QED
        BY <3>1, <3>2 DEF Inv, Shape, Open, Calls, PassedIsSeen, SeenIsOrdered,
                          NeedsFirst, EachOnce
    <2>6. QED
      BY <2>1, <2>2, <2>3, <2>4, <2>5 DEF Next, Plan
  <1>3. QED
    BY <1>1, <1>2, PTL DEF Spec

\* ordered never puts down a task before one of its needs, whatever the
\* configuration, valid or not, and whatever names it is called with.
THEOREM NeedsComeFirst == Spec => []NeedsFirst
  <1>1. Inv => NeedsFirst
    BY DEF Inv
  <1>2. QED
    BY CallsKept, <1>1, PTL

\* ordered never puts down a task twice.
THEOREM TasksComeOnce == Spec => []EachOnce
  <1>1. Inv => EachOnce
    BY DEF Inv
  <1>2. QED
    BY CallsKept, <1>1, PTL

-----------------------------------------------------------------------------
(* TaskNames gives every task of a configuration. *)

\* What sort.Strings makes of a set of names.
Sorted(S) ==
    {s \in [1..Cardinality(S) -> S] : \A i, k \in DOMAIN s : i < k => s[i] < s[k]}

\* Every finite set of names can be sorted: its least name comes first.
LEMMA SortedExists ==
    ASSUME NEW S, S \subseteq Nat, IsFiniteSet(S)
    PROVE  Sorted(S) # {}
  <1> DEFINE Sizes == {c \in Nat : \E R \in SUBSET Nat :
                          IsFiniteSet(R) /\ Cardinality(R) = c /\ Sorted(R) = {}}
  <1>1. SUFFICES ASSUME Sizes # {} PROVE FALSE
    BY FS_CardinalityType
  <1>2. PICK c \in Sizes : \A e \in Sizes : c <= e
    BY <1>1, Least
  <1>3. PICK R \in SUBSET Nat : IsFiniteSet(R) /\ Cardinality(R) = c /\ Sorted(R) = {}
    BY <1>2
  <1>4. R # {}
    <2>1. ASSUME R = {} PROVE FALSE
      <3>1. Cardinality(R) = 0
        BY <2>1, FS_EmptySet
      <3>2. [i \in 1..0 |-> 0] \in Sorted(R)
        BY <2>1, <3>1 DEF Sorted
      <3>3. QED
        BY <1>3, <3>2
    <2>2. QED
      BY <2>1
  <1>5. PICK x \in R : \A y \in R : x <= y
    BY <1>4, Least
  <1> DEFINE Q == R \ {x}
  <1>6. IsFiniteSet(Q) /\ Cardinality(Q) = c - 1 /\ c - 1 \in Nat /\ Q \subseteq Nat
    <2>1. IsFiniteSet(Q) /\ Cardinality(Q) = c - 1
      BY <1>3, FS_RemoveElement
    <2>2. QED
      BY <2>1, FS_CardinalityType
  <1>7. Sorted(Q) # {}
    BY <1>2, <1>6
  <1>8. PICK s \in [1..(c - 1) -> Q] : \A i, k \in 1..(c - 1) : i < k => s[i] < s[k]
    BY <1>6, <1>7 DEF Sorted
  <1> DEFINE r == [i \in 1..c |-> IF i = 1 THEN x ELSE s[i - 1]]
  <1>9. r \in [1..c -> R]
    BY <1>6, <1>8
  <1>10. ASSUME NEW i \in 1..c, NEW k \in 1..c, i < k
         PROVE  r[i] < r[k]
    <2>1. k # 1 /\ k - 1 \in 1..(c - 1) /\ r[k] = s[k - 1] /\ s[k - 1] \in Q
      BY <1>6, <1>8, <1>10
    <2>2. CASE i = 1
      <3>1. x \in Nat /\ s[k - 1] \in Nat /\ x # s[k - 1] /\ x <= s[k - 1]
        BY <1>5, <2>1
      <3>2. r[i] = x
        BY <2>2
      <3>3. QED
        BY <2>1, <3>1, <3>2
    <2>3. CASE i # 1
      BY <1>6, <1>8, <1>10, <2>1, <2>3
    <2>4. QED
      BY <2>2, <2>3
  <1>11. r \in Sorted(R)
    BY <1>3, <1>9, <1>10 DEF Sorted
  <1>12. QED
    BY <1>3, <1>11

\* TaskNames of a set of names names each of them.
LEMMA TaskNamesAll ==
    ASSUME NEW S, S \subseteq Names
    PROVE  /\ TaskNames(S) \in Seq(S)
           /\ \A t \in S : \E i \in DOMAIN TaskNames(S) : TaskNames(S)[i] = t
  <1> DEFINE s == TaskNames(S)
             c == Cardinality(S)
  <1>1. S \subseteq Nat /\ IsFiniteSet(S) /\ c \in Nat
    BY NamesAssumption, FS_Subset, FS_CardinalityType
  <1>2. s \in Sorted(S)
    BY <1>1, SortedExists DEF Sorted, TaskNames
  <1> HIDE DEF s
  <1>3. s \in [1..c -> S] /\ \A i, k \in 1..c : i < k => s[i] < s[k]
    BY <1>2 DEF Sorted
  <1>4. ASSUME NEW i \in 1..c, NEW k \in 1..c, s[i] = s[k]
        PROVE  i = k
    <2>1. s[i] \in Nat
      BY <1>1, <1>3
    <2>2. ~(s[i] < s[k]) /\ ~(s[k] < s[i])
      BY <1>4, <2>1
    <2>3. (i < k => s[i] < s[k]) /\ (k < i => s[k] < s[i])
      BY <1>3
    <2>4. QED
      BY <1>1, <2>2, <2>3
  <1>5. s \in Injection(1..c, S)
    BY <1>3, <1>4 DEF Injection, IsInjective
  <1>6. Cardinality(1..c) = c /\ IsFiniteSet(1..c)
    BY <1>1, FS_Interval
  <1>7. s \in Surjection(1..c, S)
    BY <1>1, <1>5, <1>6, FS_Injection
  <1>8. \A t \in S : \E i \in 1..c : s[i] = t
    BY <1>7 DEF Surjection
  <1>9. QED
    BY <1>1, <1>3, <1>8 DEF s

-----------------------------------------------------------------------------
(* What ordered looks for, and what it finds. *)

\* Tasks that all wait for one of them.
Knotted(S) == S # {} /\ \A t \in S : NeedsOf(t) \cap S # {}

\* Validate asks for all tasks, a client for any names.
Asked ==
    /\ request \in Seq(Names)
    /\ ~valid => \A t \in tasks : \E i \in DOMAIN request : request[i] = t

\* The loop over the names is at the one that is visited.
Asking ==
    Len(stack) > 1 => /\ stack[1].next \in DOMAIN request
                      /\ stack[2].task = request[stack[1].next]

\* ... and each call but the last is at one of its needs.
Inside == \A d \in 2..(Len(stack) - 1) : stack[d].next \in DOMAIN needs[stack[d].task]

\* The names the loop has gone past are ordered.
PassedIsAnswered == \A i \in DOMAIN request : i < stack[1].next => request[i] \in seen

VisitingIsOpen == visiting = {stack[d].task : d \in 2..Len(stack)}

\* Nothing is visited that nobody asked for.
Reached == seen \subseteq Wanted /\ \A d \in 2..Len(stack) : stack[d].task \in Wanted

\* What a result says of the request.
Answered ==
    /\ result = "ordered" => valid /\ seen = Wanted
    /\ result = "cycle" => \E S \in SUBSET Wanted : Knotted(S)
    /\ result = "unknown" /\ valid => \E i \in DOMAIN request : request[i] \notin tasks

\* What an accepted configuration is.
Validated == valid => NeedsAreKnown /\ \A S \in SUBSET tasks : ~Knotted(S)

\* The inductive invariant of the search.
Search ==
    /\ Inv /\ Asked /\ Asking /\ Inside /\ PassedIsAnswered
    /\ VisitingIsOpen /\ Reached /\ Answered /\ Validated

LEMMA SearchTypes ==
    ASSUME Search
    PROVE  /\ stack \in Seq(Frames) /\ Len(stack) \in Nat /\ Len(stack) > 0
           /\ request \in Seq(Names) /\ Len(request) \in Nat
           /\ DOMAIN request = 1..Len(request)
           /\ stack[1].task = Top
           /\ \A d \in 1..Len(stack) : stack[d].next \in Nat \ {0}
           /\ \A d \in 2..Len(stack) : stack[d].task \in tasks /\ stack[d].task # Top
  <1>1. stack \in Seq(Frames) /\ Len(stack) \in Nat /\ Len(stack) > 0
    BY DEF Search, Inv, Shape
  <1>2. \A d \in 1..Len(stack) : stack[d].next \in Nat \ {0}
    <2>1. \A d \in 1..Len(stack) : stack[d] \in Frames
      BY <1>1
    <2>2. QED
      BY <2>1 DEF Frames
  <1>3. \A d \in 2..Len(stack) : stack[d].task \in tasks /\ stack[d].task # Top
    BY NamesAssumption DEF Search, Inv, Shape, Open, Top
  <1>4. QED
    BY <1>1, <1>2, <1>3 DEF Search, Asked, Inv, Open

\* What is asked for is wanted.
LEMMA RequestWanted ==
    ASSUME NEW i \in DOMAIN request, request[i] \in tasks
    PROVE  request[i] \in Wanted
  BY DEF Wanted

\* What a wanted task needs is wanted.
LEMMA NeedWanted ==
    ASSUME NEW t \in Wanted, NEW n \in NeedsOf(t) \cap tasks
    PROVE  n \in Wanted
  BY DEF Wanted

\* Nothing else is.
LEMMA WantedLeast ==
    ASSUME NEW S \in SUBSET tasks,
           \A i \in DOMAIN request : request[i] \in tasks => request[i] \in S,
           \A u \in S : NeedsOf(u) \cap tasks \subseteq S
    PROVE  Wanted \subseteq S
  BY DEF Wanted

\* The configuration is read once.
LEMMA SameConfig ==
    ASSUME UNCHANGED <<tasks, needs>>
    PROVE  /\ \A S : Knotted(S)' <=> Knotted(S)
           /\ NeedsAreKnown' <=> NeedsAreKnown
  BY DEF Knotted, NeedsOf, NeedsAreKnown

\* A step of one call of ordered changes nothing of what is asked.
LEMMA SameQuestion ==
    ASSUME UNCHANGED <<tasks, needs, request>>
    PROVE  /\ Wanted' = Wanted
           /\ \A S : Knotted(S)' <=> Knotted(S)
           /\ NeedsAreKnown' <=> NeedsAreKnown
  BY SameConfig DEF Wanted, NeedsOf

\* The name that the loop over the names has come to.
LEMMA NameAsked ==
    ASSUME Search, More, ~(Len(stack) > 1)
    PROVE  /\ stack[1].next \in DOMAIN request /\ Name = request[stack[1].next]
           /\ Name \in tasks => Name \in Wanted
  <1>1. PICK n \in Nat : n = Len(stack) /\ n > 0
    BY SearchTypes
  <1>2. Frame = stack[1] /\ Frame.task = Top
    <2>1. n = 1
      BY <1>1
    <2>2. QED
      BY <1>1, <2>1, SearchTypes DEF Frame
  <1>3. Frame.next \in Nat \ {0} /\ Len(request) \in Nat /\ DOMAIN request = 1..Len(request)
    BY <1>1, <1>2, SearchTypes
  <1>4. Frame.next \in DOMAIN request /\ Name = request[Frame.next]
    BY <1>2, <1>3 DEF More, Name, Loop
  <1>5. QED
    BY <1>2, <1>4, RequestWanted

\* The need that a call has come to.
LEMMA NeedAsked ==
    ASSUME Search, More, Len(stack) > 1
    PROVE  /\ Frame.task \in Wanted \cap tasks /\ Frame.next \in DOMAIN needs[Frame.task]
           /\ Name = needs[Frame.task][Frame.next]
           /\ Name \in tasks => Name \in Wanted
  <1>1. Len(stack) \in 1..Len(stack) /\ Len(stack) \in 2..Len(stack)
    BY SearchTypes
  <1>2. Frame.task \in tasks /\ Frame.task # Top
    BY <1>1, SearchTypes DEF Frame
  <1>3. Frame.task \in Wanted
    BY <1>1 DEF Frame, Search, Reached
  <1>4. Frame.next \in Nat \ {0}
    BY <1>1, SearchTypes DEF Frame
  <1>5. DOMAIN needs[Frame.task] = 1..Len(needs[Frame.task]) /\ Len(needs[Frame.task]) \in Nat
    BY <1>2, NeedIndex DEF Search
  <1>6. Frame.next \in DOMAIN needs[Frame.task] /\ Name = needs[Frame.task][Frame.next]
    BY <1>2, <1>4, <1>5 DEF More, Name, Loop
  <1>7. QED
    BY <1>2, <1>3, <1>6, NeedWanted DEF NeedsOf

\* What a step within one call leaves of an answer: there is none yet.
LEMMA NoAnswerYet ==
    ASSUME Search, result = "none", UNCHANGED <<tasks, needs, request, valid, result>>
    PROVE  Asked' /\ Answered' /\ Validated'
  BY SameQuestion DEF Search, Asked, Answered, Validated

\* The loop, or a call, goes past a name that is ordered.
LEMMA SkipSearches ==
    ASSUME Search, SkipSeen
    PROVE  Search'
  <1>1. PICK n \in Nat : n = Len(stack) /\ n > 0
    BY SearchTypes
  <1>2. /\ stack \in Seq(Frames) /\ stack' = Step(stack) /\ result = "none" /\ More /\ Name \in seen
        /\ UNCHANGED <<tasks, needs, request, valid, seen, visiting, result>>
    BY SearchTypes DEF SkipSeen, Calling, Seen
  <1>3. /\ Len(stack') = n
        /\ \A d \in 1..n : stack'[d].task = stack[d].task
        /\ \A d \in 1..(n - 1) : stack'[d] = stack[d]
        /\ stack'[n].next = stack[n].next + 1
    BY <1>1, <1>2, Stepped
  <1>4. Asking' /\ Inside'
    <2>1. n > 1 => 1 \in 1..(n - 1) /\ 2 \in 1..n
      BY <1>1
    <2>2. Asking'
      BY <1>1, <1>2, <1>3, <2>1 DEF Search, Asking
    <2>3. ASSUME NEW d \in 2..(n - 1)
          PROVE  stack'[d].next \in DOMAIN needs[stack'[d].task]
      BY <1>1, <1>3 DEF Search, Inside
    <2>4. QED
      BY <1>2, <1>3, <2>2, <2>3 DEF Inside
  <1>5. PassedIsAnswered'
    <2> SUFFICES ASSUME NEW i \in DOMAIN request, i < stack'[1].next
                 PROVE  request[i] \in seen
      BY <1>2 DEF PassedIsAnswered
    <2>1. i \in Nat /\ stack[1].next \in Nat
      BY <1>1, SearchTypes
    <2>2. CASE i < stack[1].next
      BY <2>2 DEF Search, PassedIsAnswered
    <2>3. CASE ~(i < stack[1].next)
      <3>1. ~(n > 1)
        <4>1. n > 1 => 1 \in 1..(n - 1)
          BY <1>1
        <4>2. QED
          BY <1>3, <2>3, <4>1
      <3>2. n = 1
        BY <1>1, <3>1
      <3>3. i = stack[1].next
        BY <1>3, <2>1, <2>3, <3>2
      <3>4. QED
        BY <1>1, <1>2, <3>1, <3>3, NameAsked
    <2>4. QED
      BY <2>2, <2>3
  <1>6. VisitingIsOpen' /\ Reached'
    <2>1. \A d \in 2..n : stack'[d].task = stack[d].task
      BY <1>1, <1>3
    <2>2. VisitingIsOpen'
      BY <1>1, <1>2, <1>3, <2>1 DEF Search, VisitingIsOpen
    <2>3. Reached'
      BY <1>1, <1>2, <1>3, <2>1, SameQuestion DEF Search, Reached
    <2>4. QED
      BY <2>2, <2>3
  <1>7. QED
    BY <1>2, <1>4, <1>5, <1>6, SkipKeeps, NoAnswerYet DEF Search

\* A wanted task is visited.
LEMMA VisitSearches ==
    ASSUME Search, Visit
    PROVE  Search'
  <1> DEFINE f == [task |-> Name, next |-> 1]
  <1>1. PICK n \in Nat : n = Len(stack) /\ n > 0
    BY SearchTypes
  <1>2. /\ stack \in Seq(Frames) /\ stack' = Append(stack, f) /\ result = "none" /\ More
        /\ Name \in tasks /\ visiting' = visiting \cup {Name}
        /\ UNCHANGED <<tasks, needs, request, valid, seen, result>>
    BY SearchTypes DEF Visit, Calling, FirstNeed, OnEntry
  <1>3. f \in Frames /\ f.task = Name
    BY <1>2, NamesAssumption DEF Search, Inv, Shape, Frames
  <1> HIDE DEF f
  <1>4. /\ Len(stack') = n + 1
        /\ \A d \in 1..n : stack'[d] = stack[d]
        /\ stack'[n + 1] = f
    BY <1>1, <1>2, <1>3, Pushed
  <1>5. Name \in Wanted
    BY <1>2, NameAsked, NeedAsked
  <1>6. Asking'
    <2>1. stack'[1] = stack[1]
      BY <1>1, <1>4
    <2>2. CASE n > 1
      <3>1. 2 \in 1..n
        BY <1>1, <2>2
      <3>2. QED
        BY <1>1, <1>2, <1>4, <2>1, <2>2, <3>1 DEF Search, Asking
    <2>3. CASE ~(n > 1)
      <3>1. n = 1
        BY <1>1, <2>3
      <3>2. stack'[2].task = Name
        BY <1>3, <1>4, <3>1
      <3>3. stack[1].next \in DOMAIN request /\ Name = request[stack[1].next]
        BY <1>1, <1>2, <2>3, NameAsked
      <3>4. QED
        BY <1>2, <2>1, <3>2, <3>3 DEF Asking
    <2>4. QED
      BY <2>2, <2>3
  <1>7. Inside'
    <2> SUFFICES ASSUME NEW d \in 2..n
                 PROVE  stack[d].next \in DOMAIN needs[stack[d].task]
      BY <1>1, <1>2, <1>4 DEF Inside
    <2>1. CASE d \in 2..(n - 1)
      BY <1>1, <2>1 DEF Search, Inside
    <2>2. CASE d = n
      BY <1>1, <1>2, <2>2, NeedAsked DEF Frame
    <2>3. QED
      BY <1>1, <2>1, <2>2
  <1>8. PassedIsAnswered'
    BY <1>1, <1>2, <1>4 DEF Search, PassedIsAnswered
  <1>9. VisitingIsOpen' /\ Reached'
    <2>1. /\ \A d \in 2..n : stack'[d].task = stack[d].task
          /\ stack'[n + 1].task = Name /\ n + 1 \in 2..(n + 1)
          /\ \A d \in 2..(n + 1) : d = n + 1 \/ d \in 2..n
      BY <1>1, <1>3, <1>4
    <2>2. VisitingIsOpen'
      BY <1>1, <1>2, <1>4, <2>1 DEF Search, VisitingIsOpen
    <2>3. Reached'
      BY <1>1, <1>2, <1>4, <1>5, <2>1, SameQuestion DEF Search, Reached
    <2>4. QED
      BY <2>2, <2>3
  <1>10. QED
    BY <1>2, <1>6, <1>7, <1>8, <1>9, VisitKeeps, NoAnswerYet DEF Search

\* A task that is ordered was wanted.
LEMMA ReturnSearches ==
    ASSUME Search, Return
    PROVE  Search'
  <1> DEFINE t == Frame.task
             s == SubSeq(stack, 1, Len(stack) - 1)
  <1>1. PICK n \in Nat : n = Len(stack) /\ n > 0
    BY SearchTypes
  <1>2. /\ stack \in Seq(Frames) /\ stack' = Step(s) /\ result = "none" /\ t # Top
        /\ visiting' = visiting \ {t} /\ seen' = seen \cup {t} /\ t = stack[n].task
        /\ UNCHANGED <<tasks, needs, request, valid, result>>
    BY <1>1, SearchTypes DEF Return, Calling, Frame
  <1>3. n > 1 /\ t \in Wanted
    <2>1. n > 1
      <3>1. ASSUME ~(n > 1) PROVE FALSE
        <4>1. n = 1
          BY <1>1, <3>1
        <4>2. QED
          BY <1>2, <4>1, SearchTypes
      <3>2. QED
        BY <3>1
    <2>2. n \in 2..Len(stack)
      BY <1>1, <2>1
    <2>3. stack[n].task \in Wanted
      BY <2>2 DEF Search, Reached
    <2>4. QED
      BY <1>2, <2>1, <2>3
  <1>4. /\ s \in Seq(Frames) /\ Len(s) = n - 1
        /\ \A d \in 1..(n - 1) : s[d] = stack[d]
    BY <1>1, <1>2, <1>3, Popped
  <1> HIDE DEF s
  <1>5. /\ Len(stack') = n - 1
        /\ \A d \in 1..(n - 1) : stack'[d].task = stack[d].task
        /\ \A d \in 1..(n - 2) : stack'[d] = stack[d]
        /\ stack'[n - 1].next = stack[n - 1].next + 1
    <2>1. /\ Len(stack') = Len(s)
          /\ \A d \in 1..Len(s) : stack'[d].task = s[d].task
          /\ \A d \in 1..(Len(s) - 1) : stack'[d] = s[d]
          /\ stack'[Len(s)].next = s[Len(s)].next + 1
      <3>1. Len(s) > 0
        BY <1>3, <1>4
      <3>2. QED
        BY <1>2, <1>4, <3>1, Stepped
    <2>2. n - 1 \in Nat /\ n - 1 - 1 = n - 2 /\ n - 1 \in 1..(n - 1)
      BY <1>3
    <2>3. QED
      BY <1>4, <2>1, <2>2
  <1>6. Asking' /\ Inside'
    <2>1. n - 1 > 1 => 1 \in 1..(n - 2) /\ 2 \in 1..(n - 1) /\ n > 1
      BY <1>1
    <2>2. Asking'
      BY <1>1, <1>2, <1>5, <2>1 DEF Search, Asking
    <2>3. ASSUME NEW d \in 2..(n - 2)
          PROVE  stack'[d].next \in DOMAIN needs[stack'[d].task]
      BY <1>1, <1>5 DEF Search, Inside
    <2>4. n - 1 - 1 = n - 2
      BY <1>1
    <2>5. QED
      BY <1>2, <1>5, <2>2, <2>3, <2>4 DEF Inside
  <1>7. PassedIsAnswered'
    <2> SUFFICES ASSUME NEW i \in DOMAIN request, i < stack'[1].next
                 PROVE  request[i] \in seen'
      BY <1>2 DEF PassedIsAnswered
    <2>1. i \in Nat /\ stack[1].next \in Nat
      BY <1>1, SearchTypes
    <2>2. CASE i < stack[1].next
      BY <1>2, <2>2 DEF Search, PassedIsAnswered
    <2>3. CASE ~(i < stack[1].next)
      <3>1. ~(n > 2)
        <4>1. n > 2 => 1 \in 1..(n - 2)
          BY <1>1
        <4>2. QED
          BY <1>5, <2>3, <4>1
      <3>2. n = 2
        BY <1>1, <1>3, <3>1
      <3>3. n - 1 = 1
        BY <3>2
      <3>4. i = stack[1].next
        BY <1>5, <2>1, <2>3, <3>3
      <3>5. QED
        BY <1>1, <1>2, <1>3, <3>2, <3>4 DEF Search, Asking
    <2>4. QED
      BY <2>2, <2>3
  <1>8. VisitingIsOpen' /\ Reached'
    <2>1. \A d \in 2..(n - 1) : stack'[d].task = stack[d].task /\ d \in 2..n
      BY <1>1, <1>5
    <2>2. \A d \in 2..n : (d \in 2..(n - 1) /\ stack[d].task # t) \/ d = n
      BY <1>1, <1>2, <1>3 DEF Search, Inv, Open
    <2>3. VisitingIsOpen'
      <3>1. visiting = {stack[d].task : d \in 2..n}
        BY <1>1 DEF Search, VisitingIsOpen
      <3>2. \A d \in 2..(n - 1) : stack[d].task # t
        BY <1>1, <2>1, <2>2
      <3>3. visiting \ {t} = {stack[d].task : d \in 2..(n - 1)}
        BY <1>2, <2>1, <2>2, <3>1, <3>2
      <3>4. visiting \ {t} = {stack'[d].task : d \in 2..(n - 1)}
        BY <2>1, <3>3
      <3>5. QED
        BY <1>2, <1>5, <3>4 DEF VisitingIsOpen
    <2>4. Reached'
      BY <1>1, <1>2, <1>3, <1>5, <2>1, SameQuestion DEF Search, Reached
    <2>5. QED
      BY <2>3, <2>4
  <1>9. QED
    BY <1>2, <1>6, <1>7, <1>8, ReturnKeeps, NoAnswerYet DEF Search

\* What is ordered is not knotted: the task of a knot that came first needs
\* another one of it.
LEMMA OrderedIsLoose ==
    ASSUME Inv, NEW S \in SUBSET seen
    PROVE  ~Knotted(S)
  <1> SUFFICES ASSUME Knotted(S) PROVE FALSE
    OBVIOUS
  <1> DEFINE T == {i \in DOMAIN ordered : ordered[i] \in S}
  <1>1. DOMAIN ordered \subseteq Nat
    BY DEF Inv, Shape
  <1>2. T # {}
    BY DEF Knotted, Inv, SeenIsOrdered
  <1>3. PICK x \in T : \A y \in T : x <= y
    BY <1>1, <1>2, Least
  <1>4. PICK m \in NeedsOf(ordered[x]) : m \in S
    BY <1>3 DEF Knotted
  <1>5. PICK k \in 1..(x - 1) : ordered[k] = m
    BY <1>3, <1>4 DEF Inv, NeedsFirst
  <1>6. k \in DOMAIN ordered /\ x \in Nat
    BY <1>1, <1>5 DEF Inv, Shape
  <1>7. k \in T /\ ~(x <= k)
    BY <1>4, <1>5, <1>6
  <1>8. QED
    BY <1>3, <1>7

\* Everything that was asked for is ordered, with what it needs.
LEMMA DoneSearches ==
    ASSUME Search, Done
    PROVE  Search'
  <1>1. /\ result = "none" /\ ~More /\ Frame.task = Top /\ result' = "ordered" /\ valid'
        /\ valid \/ NeedsAreKnown
        /\ UNCHANGED <<tasks, needs, request, stack, seen, visiting, ordered>>
    BY DEF Done, Calling
  <1>2. PICK n \in Nat : n = Len(stack) /\ n > 0
    BY SearchTypes
  <1>3. ~(n > 1)
    <2>1. n > 1 => n \in 2..Len(stack)
      BY <1>2
    <2>2. QED
      BY <1>1, <1>2, <2>1, SearchTypes DEF Frame
  <1>4. Frame = stack[1]
    <2>1. n = 1
      BY <1>2, <1>3
    <2>2. QED
      BY <1>2, <2>1 DEF Frame
  <1>5. \A i \in DOMAIN request : request[i] \in seen
    <2>1. ~(stack[1].next <= Len(request))
      BY <1>1, <1>4 DEF More, Loop
    <2>2. \A i \in DOMAIN request : i < stack[1].next
      BY <1>2, <2>1, SearchTypes
    <2>3. QED
      BY <2>2 DEF Search, PassedIsAnswered
  <1>6. \A u \in seen : NeedsOf(u) \subseteq seen
    <2> SUFFICES ASSUME NEW u \in seen, NEW m \in NeedsOf(u)
                 PROVE  m \in seen
      OBVIOUS
    <2>1. PICK i \in DOMAIN ordered : ordered[i] = u
      BY DEF Search, Inv, SeenIsOrdered
    <2>2. PICK k \in 1..(i - 1) : ordered[k] = m
      BY <2>1 DEF Search, Inv, NeedsFirst
    <2>3. k \in DOMAIN ordered
      BY <2>1, <2>2 DEF Search, Inv, Shape
    <2>4. QED
      BY <2>2, <2>3 DEF Search, Inv, SeenIsOrdered
  <1>7. seen = Wanted
    <2>1. seen \subseteq tasks
      BY DEF Search, Reached, Wanted
    <2>2. QED
      BY <1>5, <1>6, <2>1, WantedLeast DEF Search, Reached
  <1>8. valid \/ tasks \subseteq seen
    BY <1>5 DEF Search, Asked
  <1>9. Asked' /\ Answered'
    BY <1>1, <1>7, SameQuestion DEF Search, Asked, Answered
  <1>10. Validated'
    <2>1. CASE valid
      BY <1>1, <2>1, SameQuestion DEF Search, Validated
    <2>2. CASE ~valid
      <3>1. \A S \in SUBSET tasks : ~Knotted(S)
        BY <1>8, <2>2, OrderedIsLoose DEF Search
      <3>2. QED
        BY <1>1, <2>2, <3>1, SameQuestion DEF Validated
    <2>3. QED
      BY <2>1, <2>2
  <1>11. Asking' /\ Inside' /\ PassedIsAnswered' /\ VisitingIsOpen' /\ Reached'
    BY <1>1, SameQuestion DEF Search, Asking, Inside, PassedIsAnswered, VisitingIsOpen, Reached
  <1>12. QED
    BY <1>1, <1>9, <1>10, <1>11, RestKeeps DEF Search

\* A task met again while its needs are visited is in a cycle: every call from
\* its own on is for a need of the call below.
LEMMA CycleFound ==
    ASSUME Search, More, Name \in visiting
    PROVE  \E S \in SUBSET Wanted : Knotted(S)
  <1>1. PICK n \in Nat : n = Len(stack) /\ n > 0
    BY SearchTypes
  <1>2. PICK d \in 2..n : stack[d].task = Name
    BY <1>1 DEF Search, VisitingIsOpen
  <1> DEFINE S == {stack[e].task : e \in d..n}
  <1>3. S # {} /\ S \subseteq Wanted
    <2>1. d \in d..n /\ d..n \subseteq 2..n
      BY <1>2
    <2>2. QED
      BY <1>1, <2>1 DEF Search, Reached
  <1>4. ASSUME NEW e \in d..n
        PROVE  NeedsOf(stack[e].task) \cap S # {}
    <2>1. CASE e < n
      <3>1. e \in 2..(n - 1) /\ e + 1 \in d..n /\ e + 1 \in 2..n /\ e + 1 - 1 = e
        BY <1>2, <2>1
      <3>2. stack[e].next \in DOMAIN needs[stack[e].task]
        BY <1>1, <3>1 DEF Search, Inside
      <3>3. stack[e].task # Top
        BY <1>1, <3>1, SearchTypes
      <3>4. stack[e + 1].task = needs[stack[e].task][stack[e].next]
        BY <1>1, <3>1, <3>3 DEF Search, Inv, Calls
      <3>5. QED
        BY <3>1, <3>2, <3>4 DEF NeedsOf
    <2>2. CASE ~(e < n)
      <3>1. e = n /\ n > 1
        BY <1>2, <2>2
      <3>2. /\ stack[n].next \in DOMAIN needs[stack[n].task]
            /\ Name = needs[stack[n].task][stack[n].next]
        BY <1>1, <3>1, NeedAsked DEF Frame
      <3>3. Name \in S
        BY <1>2
      <3>4. QED
        BY <3>1, <3>2, <3>3 DEF NeedsOf
    <2>3. QED
      BY <2>1, <2>2
  <1>5. Knotted(S)
    BY <1>3, <1>4 DEF Knotted
  <1>6. QED
    BY <1>3, <1>5

\* What ordered refuses is a cycle or a name that is no task.
LEMMA RefuseSearches ==
    ASSUME Search, Refuse
    PROVE  Search'
  <1>1. /\ result = "none" /\ More
        /\ valid \/ NeedsAreKnown
        /\ Name \in visiting \/ Name \notin tasks
        /\ result' = IF Name \in visiting THEN "cycle" ELSE "unknown"
        /\ UNCHANGED <<tasks, needs, request, valid, stack, seen, visiting, ordered>>
    BY DEF Refuse, Calling, Visiting
  <1>2. ASSUME Name \in visiting PROVE Answered'
    <2>1. PICK S \in SUBSET Wanted : Knotted(S)
      BY <1>1, <1>2, CycleFound
    <2>2. S \in SUBSET Wanted' /\ Knotted(S)'
      BY <1>1, <2>1, SameQuestion
    <2>3. QED
      BY <1>1, <1>2, <2>2 DEF Answered
  <1>3. ASSUME Name \notin visiting PROVE Answered'
    <2>1. ASSUME valid PROVE \E i \in DOMAIN request : request[i] \notin tasks
      <3>1. NeedsAreKnown
        BY <2>1 DEF Search, Validated
      <3>2. ~(Len(stack) > 1)
        BY <1>1, <1>3, <3>1, NeedAsked DEF NeedsAreKnown
      <3>3. QED
        BY <1>1, <1>3, <3>2, NameAsked
    <2>2. QED
      BY <1>1, <1>3, <2>1 DEF Answered
  <1>4. Asked' /\ Validated' /\ Asking' /\ Inside' /\ PassedIsAnswered' /\ VisitingIsOpen' /\ Reached'
    BY <1>1, SameQuestion DEF Search, Asked, Validated, Asking, Inside, PassedIsAnswered,
                              VisitingIsOpen, Reached
  <1>5. QED
    BY <1>1, <1>2, <1>3, <1>4, RestKeeps DEF Search

\* A call of ordered starts with nothing found.
LEMMA FreshSearch ==
    ASSUME Inv, Asked, Validated, stack = Bottom, seen = {}, visiting = {}, result = "none"
    PROVE  Search
  <1>1. stack[1].next = 1 /\ Len(stack) = 1
    BY DEF Bottom
  <1>2. Asking /\ Inside /\ VisitingIsOpen /\ Reached
    BY <1>1 DEF Asking, Inside, VisitingIsOpen, Reached
  <1>3. PassedIsAnswered
    BY <1>1 DEF PassedIsAnswered, Asked
  <1>4. QED
    BY <1>2, <1>3 DEF Search, Answered

LEMMA InitSearches == Init => Search
  <1> SUFFICES ASSUME Init PROVE Search
    OBVIOUS
  <1>1. /\ tasks \subseteq Names /\ needs \in [tasks -> Seq(Names)] /\ ~valid
        /\ request = TaskNames(tasks)
    BY NamesAssumption DEF Init, AllTasks
  <1>2. Inv
    BY <1>1, FreshHolds DEF Init
  <1>3. Asked
    BY <1>1, TaskNamesAll DEF Asked
  <1>4. QED
    BY <1>1, <1>2, <1>3, FreshSearch DEF Init, Validated

\* A valid configuration is asked again.
LEMMA OrderedSearches ==
    ASSUME Search, NEW names \in Seq(Names), Ordered(names)
    PROVE  Search'
  <1>1. /\ stack' = Bottom /\ seen' = {} /\ visiting' = {} /\ ordered' = <<>> /\ result' = "none"
        /\ valid /\ request' = names
        /\ UNCHANGED <<tasks, needs, valid>>
    BY DEF Ordered
  <1>2. Inv'
    <2>1. tasks' \subseteq Names /\ needs' \in [tasks' -> Seq(Names)]
      BY <1>1 DEF Search, Inv, Shape
    <2>2. /\ stack' \in Seq(Frames) /\ Len(stack') = 1 /\ stack'[1].task = Top
          /\ ordered' \in Seq(tasks') /\ DOMAIN ordered' = {}
      BY <1>1 DEF Bottom, Frames, Top
    <2>3. QED
      BY <1>1, <2>1, <2>2 DEF Inv, Shape, Open, Calls, PassedIsSeen, SeenIsOrdered,
                              NeedsFirst, EachOnce
  <1>3. Asked' /\ Validated' /\ Answered'
    <2>1. Asked' /\ Answered'
      BY <1>1 DEF Asked, Answered
    <2>2. NeedsAreKnown /\ \A S \in SUBSET tasks : ~Knotted(S)
      BY <1>1 DEF Search, Validated
    <2>3. Validated'
      BY <1>1, <2>2, SameConfig DEF Validated
    <2>4. QED
      BY <2>1, <2>3
  <1>4. stack'[1].next = 1 /\ Len(stack') = 1
    BY <1>1 DEF Bottom
  <1>5. Asking' /\ Inside' /\ VisitingIsOpen' /\ Reached'
    BY <1>1, <1>4 DEF Asking, Inside, VisitingIsOpen, Reached
  <1>6. PassedIsAnswered'
    BY <1>1, <1>4 DEF PassedIsAnswered
  <1>7. QED
    BY <1>2, <1>3, <1>5, <1>6 DEF Search

\* The invariant of the search holds in every reachable state.
THEOREM SearchKept == Spec => []Search
  <1>1. Search /\ [Next]_vars => Search'
    <2> SUFFICES ASSUME Search, [Next]_vars PROVE Search'
      OBVIOUS
    <2>1. CASE RefuseNeeds
      <3>1. /\ UNCHANGED <<tasks, needs, request, valid, stack, seen, visiting, ordered>>
            /\ ~valid /\ result' = "unknown"
        BY <2>1 DEF RefuseNeeds
      <3>2. Asked' /\ Validated' /\ Answered' /\ Asking' /\ Inside' /\ PassedIsAnswered'
            /\ VisitingIsOpen' /\ Reached'
        BY <3>1, SameQuestion DEF Search, Asked, Validated, Answered, Asking, Inside,
                                  PassedIsAnswered, VisitingIsOpen, Reached
      <3>3. QED
        BY <3>1, <3>2, RestKeeps DEF Search
    <2>2. CASE UNCHANGED vars
      <3>1. UNCHANGED <<tasks, needs, request, valid, stack, seen, visiting, ordered, result>>
        BY <2>2 DEF vars
      <3>2. Asked' /\ Validated' /\ Asking' /\ Inside' /\ PassedIsAnswered'
            /\ VisitingIsOpen' /\ Reached'
        BY <3>1, SameQuestion DEF Search, Asked, Validated, Asking, Inside,
                                  PassedIsAnswered, VisitingIsOpen, Reached
      <3>3. Answered'
        BY <3>1, SameQuestion DEF Search, Answered
      <3>4. QED
        BY <3>1, <3>2, <3>3, RestKeeps DEF Search
    <2>3. CASE SkipSeen \/ Visit \/ Return
      BY <2>3, SkipSearches, VisitSearches, ReturnSearches
    <2>4. CASE Refuse \/ Done
      BY <2>4, RefuseSearches, DoneSearches
    <2>5. ASSUME NEW names \in Requests, Ordered(names)
          PROVE  Search'
      BY <2>5, OrderedSearches, NamesAssumption
    <2>6. ASSUME NEW touched \in SUBSET tasks, Plan(touched)
          PROVE  Search'
      <3>1. touched \subseteq Names
        BY DEF Search, Inv, Shape
      <3>2. TaskNames(touched) \in Seq(Names)
        <4>1. TaskNames(touched) \in Seq(touched)
          BY <3>1, TaskNamesAll
        <4>2. QED
          BY <3>1, <4>1
      <3>3. QED
        BY <2>6, <3>2, OrderedSearches DEF Plan
    <2>7. QED
      BY <2>1, <2>2, <2>3, <2>4, <2>5, <2>6 DEF Next
  <1>2. QED
    BY InitSearches, <1>1, PTL DEF Spec

\* What ordered answers is what was asked for and all it needs, nothing else.
THEOREM AnswerKept == Spec => []AnswerIsWanted
  <1>1. Search => AnswerIsWanted
    BY DEF Search, Answered, Inv, SeenIsOrdered, AnswerIsWanted
  <1>2. QED
    BY SearchKept, <1>1, PTL

\* ordered reports a cycle when there is one among what was asked for and what
\* that needs, and only then.
THEOREM CyclesRefused == Spec => []CyclesAreRefused
  <1>1. Search => CyclesAreRefused
    <2> SUFFICES ASSUME Search PROVE CyclesAreRefused
      OBVIOUS
    <2>1. ASSUME result = "ordered" PROVE ~Cyclic
      <3>1. seen = Wanted
        BY <2>1 DEF Search, Answered
      <3>2. \A S \in SUBSET Wanted : ~Knotted(S)
        BY <3>1, OrderedIsLoose DEF Search
      <3>3. QED
        BY <3>2 DEF Cyclic, Knotted
    <2>2. ASSUME result = "cycle" PROVE Cyclic
      BY <2>2 DEF Search, Answered, Cyclic, Knotted
    <2>3. QED
      BY <2>1, <2>2 DEF CyclesAreRefused
  <1>2. QED
    BY SearchKept, <1>1, PTL

\* What Validate accepts can be ordered from any of its tasks.
THEOREM ValidOrders == Spec => []ValidIsOrderable
  <1>1. Search => ValidIsOrderable
    <2> SUFFICES ASSUME Search, valid PROVE result # "cycle"
      BY DEF Search, Answered, ValidIsOrderable
    <2>1. Wanted \subseteq tasks
      BY DEF Wanted
    <2>2. QED
      BY <2>1 DEF Search, Answered, Validated
  <1>2. QED
    BY SearchKept, <1>1, PTL

-----------------------------------------------------------------------------
(* What the queue and the retries take from an order. *)

\* submit inserts the rows of an order in its places; ready finds the row of a
\* need by its task in the batch.
RowNeeds(i) ==
    [m \in DOMAIN needs[ordered[i]] |->
        CHOOSE k \in DOMAIN ordered : ordered[k] = needs[ordered[i]][m]]

RowsFit ==
    \A i \in DOMAIN ordered :
        /\ RowNeeds(i) \in Seq(DOMAIN ordered)
        /\ \A m \in DOMAIN RowNeeds(i) : RowNeeds(i)[m] < i

\* submit and ready: every need of a row is one row of its batch, with a lower id,
\* so that ready never misses one (which would end serve).  This is what
\* NeedsAssumption of JobStore says of one batch.
THEOREM BatchFits == Spec => []RowsFit
  <1>1. ASSUME Inv
        PROVE  RowsFit
    <2> SUFFICES ASSUME NEW i \in DOMAIN ordered
                 PROVE  /\ RowNeeds(i) \in Seq(DOMAIN ordered)
                        /\ \A m \in DOMAIN RowNeeds(i) : RowNeeds(i)[m] < i
      BY DEF RowsFit
    <2>1. /\ ordered \in Seq(tasks) /\ NeedsFirst
          /\ \A t \in tasks : needs[t] \in Seq(Names)
      BY <1>1 DEF Inv, Shape
    <2>2. ordered[i] \in tasks /\ DOMAIN ordered = 1..Len(ordered)
      BY <2>1
    <2> DEFINE list == needs[ordered[i]]
    <2>3. list \in Seq(Names)
      BY <2>1, <2>2
    <2>4. ASSUME NEW m \in DOMAIN list
          PROVE  RowNeeds(i)[m] \in DOMAIN ordered /\ RowNeeds(i)[m] < i
      <3>1. PICK k \in 1..(i - 1) : ordered[k] = list[m]
        BY <2>1, <2>4 DEF NeedsFirst, NeedsOf
      <3>2. k \in DOMAIN ordered /\ k < i
        BY <2>2
      <3>3. RowNeeds(i)[m] \in DOMAIN ordered /\ ordered[RowNeeds(i)[m]] = list[m]
        BY <3>1, <3>2 DEF RowNeeds
      <3>4. RowNeeds(i)[m] = k
        BY <1>1, <3>1, <3>2, <3>3 DEF Inv, EachOnce
      <3>5. QED
        BY <3>2, <3>3, <3>4
    <2>5. DOMAIN RowNeeds(i) = 1..Len(list) /\ Len(list) \in Nat
      BY <2>3 DEF RowNeeds
    <2>6. \A m \in 1..Len(list) : RowNeeds(i)[m] \in DOMAIN ordered
      BY <2>3, <2>4
    <2>7. RowNeeds(i) \in [1..Len(list) -> DOMAIN ordered]
      BY <2>5, <2>6 DEF RowNeeds
    <2>8. QED
      BY <2>3, <2>4, <2>5, <2>7
  <1>2. QED
    BY <1>1, CallsKept, PTL

\* The reference answer to a call with other names.
WantedFrom(names) ==
    {t \in tasks : \A S \in SUBSET tasks :
        (\A i \in DOMAIN names : names[i] \in tasks => names[i] \in S)
        /\ (\A u \in S : NeedsOf(u) \cap tasks \subseteq S)
        => t \in S}

AnswersNested ==
    result = "ordered" =>
        \A i \in DOMAIN ordered :
            WantedFrom(<<ordered[i]>>) \subseteq {ordered[k] : k \in DOMAIN ordered}

\* Asked for a task of an answer, ordered answers with tasks of that answer: what
\* RetryAssumption says of the orders of two tasks, of which a retry of the one
\* submits the needs of the other too.
THEOREM AnswersNest == Spec => [](AnswersNested /\ EachOnce)
  <1>1. ASSUME AnswerIsWanted
        PROVE  AnswersNested
    <2> SUFFICES ASSUME result = "ordered", NEW i \in DOMAIN ordered,
                        NEW t \in WantedFrom(<<ordered[i]>>)
                 PROVE  t \in Wanted
      BY <1>1 DEF AnswerIsWanted, AnswersNested
    <2>1. ordered[i] \in Wanted
      BY <1>1 DEF AnswerIsWanted
    <2>2. ASSUME NEW S \in SUBSET tasks,
                 \A k \in DOMAIN request : request[k] \in tasks => request[k] \in S,
                 \A u \in S : NeedsOf(u) \cap tasks \subseteq S
          PROVE  t \in S
      <3>1. ordered[i] \in S
        BY <2>1, <2>2 DEF Wanted
      <3>2. \A k \in DOMAIN <<ordered[i]>> : <<ordered[i]>>[k] = ordered[i]
        OBVIOUS
      <3>3. QED
        BY <2>2, <3>1, <3>2 DEF WantedFrom
    <2>3. QED
      BY <2>2 DEF Wanted, WantedFrom
  <1>2. QED
    BY <1>1, AnswerKept, TasksComeOnce, PTL
=============================================================================

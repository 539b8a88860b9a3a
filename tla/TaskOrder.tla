----------------------------- MODULE TaskOrder ------------------------------
(***************************************************************************)
(* A configuration is validated, then its tasks are ordered for submits,   *)
(* retries and plans: Validate, ordered and Plan (internal/bitci/config.go). *)
(* The recursion of ordered is run on a stack, one call or return a step.  *)
(*                                                                         *)
(* A definition commented "Mutant" is a faulty variant of the one after it. *)
(***************************************************************************)
EXTENDS Integers, FiniteSets, Sequences

CONSTANTS
    Names,      \* task names, numbered in their alphabetical order
    NeedLists,  \* the needs a task may have
    Requests    \* the names a client may ask for

ASSUME NamesAssumption ==
    /\ Names \subseteq Nat \ {0} /\ IsFiniteSet(Names)
    /\ NeedLists \subseteq Seq(Names) /\ Requests \subseteq Seq(Names)

VARIABLES
    tasks,     \* the keys of config.Tasks
    needs,     \* the needs of each
    request,   \* the names ordered was called with
    valid,     \* Validate has returned nil
    stack,     \* the calls of visit under way: the task and which need is next
    seen, visiting, ordered,
    result     \* what the call returned

vars == <<tasks, needs, request, valid, stack, seen, visiting, ordered, result>>

Results == {"none", "ordered", "cycle", "unknown"}

\* The loop over the names, below every call of visit.
Top == 0
Bottom == <<[task |-> Top, next |-> 1]>>

\* TaskNames: sort.Strings of a set of names.
TaskNames(S) ==
    CHOOSE s \in [1..Cardinality(S) -> S] : \A i, k \in DOMAIN s : i < k => s[i] < s[k]

\* Mutant: only the tasks that no task needs.
RootTasks == TaskNames({t \in tasks : \A u \in tasks : \A i \in DOMAIN needs[u] : needs[u][i] # t})

AllTasks == TaskNames(tasks)

\* Validate orders all tasks.
Init ==
    /\ tasks \in (SUBSET Names) \ {{}}
    /\ needs \in [tasks -> NeedLists]
    /\ request = AllTasks
    /\ valid = FALSE
    /\ stack = Bottom
    /\ seen = {} /\ visiting = {} /\ ordered = <<>>
    /\ result = "none"

-----------------------------------------------------------------------------
Frame == stack[Len(stack)]
Loop(f) == IF f.task = Top THEN request ELSE needs[f.task]
More == Frame.next <= Len(Loop(Frame))
Name == Loop(Frame)[Frame.next]
Step(s) == [s EXCEPT ![Len(s)].next = @ + 1]

\* Validate looks for unknown needs before it orders anything.
NeedsAreKnown == \A t \in tasks : \A i \in DOMAIN needs[t] : needs[t][i] \in tasks

Calling == result = "none" /\ (valid \/ NeedsAreKnown)

RefuseNeeds ==
    /\ result = "none" /\ ~valid /\ ~NeedsAreKnown
    /\ result' = "unknown"
    /\ UNCHANGED <<tasks, needs, request, valid, stack, seen, visiting, ordered>>

\* Mutant: what is ordered is not remembered.
SeenNever(name) == FALSE

Seen(name) == name \in seen

Visiting(name) == name \in visiting

\* visit of a task that is ordered already returns at once.
SkipSeen ==
    /\ Calling /\ More /\ Seen(Name)
    /\ stack' = Step(stack)
    /\ UNCHANGED <<tasks, needs, request, valid, seen, visiting, ordered, result>>

\* visit of a task whose needs are being visited, or of no task, fails.
Refuse ==
    /\ Calling /\ More /\ ~Seen(Name)
    /\ Visiting(Name) \/ Name \notin tasks
    /\ result' = IF Visiting(Name) THEN "cycle" ELSE "unknown"
    /\ UNCHANGED <<tasks, needs, request, valid, stack, seen, visiting, ordered>>

\* Mutant: a task counts as ordered before its needs are.
SeenOnEntry(name) == seen \cup {name}

OnEntry(name) == seen

\* Mutant: the first need is skipped.
SecondNeed(name) == 2

\* Mutant: needs of needs are not visited.
NeedsOfRequest(name) == IF Len(stack) > 1 THEN Len(needs[name]) + 1 ELSE 1

FirstNeed(name) == 1

Visit ==
    /\ Calling /\ More /\ ~Seen(Name) /\ ~Visiting(Name) /\ Name \in tasks
    /\ visiting' = visiting \cup {Name}
    /\ seen' = OnEntry(Name)
    /\ stack' = Append(stack, [task |-> Name, next |-> FirstNeed(Name)])
    /\ UNCHANGED <<tasks, needs, request, valid, ordered, result>>

\* All needs of a task are ordered: so is the task.
Return ==
    /\ Calling /\ ~More /\ Frame.task # Top
    /\ visiting' = visiting \ {Frame.task}
    /\ seen' = seen \cup {Frame.task}
    /\ ordered' = Append(ordered, Frame.task)
    /\ stack' = Step(SubSeq(stack, 1, Len(stack) - 1))
    /\ UNCHANGED <<tasks, needs, request, valid, result>>

Done ==
    /\ Calling /\ ~More /\ Frame.task = Top
    /\ result' = "ordered"
    /\ valid' = TRUE
    /\ UNCHANGED <<tasks, needs, request, stack, seen, visiting, ordered>>

\* A valid configuration is asked for an order, with nothing remembered.
Ordered(names) ==
    /\ valid /\ result # "none"
    /\ request' = names
    /\ stack' = Bottom
    /\ seen' = {} /\ visiting' = {} /\ ordered' = <<>>
    /\ result' = "none"
    /\ UNCHANGED <<tasks, needs, valid>>

\* The tasks without paths and those with a path that a change matches.
Plan(touched) == Ordered(TaskNames(touched))

Next == RefuseNeeds \/ SkipSeen \/ Refuse \/ Visit \/ Return \/ Done
        \/ \E names \in Requests : Ordered(names)
        \/ \E touched \in SUBSET tasks : Plan(touched)

Spec == Init /\ [][Next]_vars

-----------------------------------------------------------------------------
NeedsOf(t) == {needs[t][i] : i \in DOMAIN needs[t]}

\* Reference: the requested tasks with everything they need.
Wanted ==
    {t \in tasks : \A S \in SUBSET tasks :
        (\A i \in DOMAIN request : request[i] \in tasks => request[i] \in S)
        /\ (\A u \in S : NeedsOf(u) \cap tasks \subseteq S)
        => t \in S}

\* Reference: some of the wanted tasks wait for each other.
Cyclic == \E S \in (SUBSET Wanted) \ {{}} : \A t \in S : NeedsOf(t) \cap S # {}

\* ordered: a task comes after all its needs, at every moment of the call.
NeedsFirst ==
    \A i \in DOMAIN ordered : \A n \in NeedsOf(ordered[i]) :
        \E k \in 1..(i - 1) : ordered[k] = n

\* ordered: submit inserts one row for a task, however many tasks need it.
EachOnce == \A i, k \in DOMAIN ordered : ordered[i] = ordered[k] => i = k

\* ordered: the answer is the requested tasks and what they need, no more.
AnswerIsWanted ==
    result = "ordered" => {ordered[i] : i \in DOMAIN ordered} = Wanted

\* ordered: a cycle is reported when, and only when, there is one to meet.
CyclesAreRefused ==
    /\ result = "ordered" => ~Cyclic
    /\ result = "cycle" => Cyclic

\* Validate: what it accepts never fails later, but for a name that is no task.
ValidIsOrderable ==
    valid => /\ result # "cycle"
             /\ result = "unknown" => \E i \in DOMAIN request : request[i] \notin tasks
=============================================================================

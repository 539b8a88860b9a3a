----------------------------- MODULE HostProofs -----------------------------
(***************************************************************************)
(* What Host keeps for every number of stagings, submissions and operators, *)
(* whatever fails, and what its steps never do.                            *)
(***************************************************************************)
EXTENDS Host, TLAPS

USE DEF checkoutVars, serviceVars, vars

-----------------------------------------------------------------------------
(* Types, and what each step makes of the record of its process. *)

\* A step of p changes its own record only, to one with these fields.
StagerIs(p, at, original, fetched, alone) ==
    /\ stager' \in [Stagers -> StagerCall]
    /\ \A q \in Stagers : q # p => stager'[q] = stager[q]
    /\ stager'[p].at = at
    /\ stager'[p].original = original /\ stager'[p].fetched = fetched
    /\ stager'[p].alone <=> alone

SubmitIs(u, at, config, ref, steady) ==
    /\ submit' \in [Submitters -> SubmitCall]
    /\ \A v \in Submitters : v # u => submit'[v] = submit[v]
    /\ submit'[u].at = at
    /\ submit'[u].config = config /\ submit'[u].ref = ref
    /\ submit'[u].steady <=> steady

OperatorIs(c, at, command, known) ==
    /\ operator' \in [Operators -> OperatorCall]
    /\ \A d \in Operators : d # c => operator'[d] = operator[d]
    /\ operator'[c].at = at /\ operator'[c].command = command
    /\ operator'[c].known = known

\* A staging that goes on changes nothing but its place.
LEMMA StagerGoes ==
    ASSUME TypeOK, NEW p \in Stagers, NEW x \in StagerPlaces, StagerAt(p, x)
    PROVE  StagerIs(p, x, stager[p].original, stager[p].fetched, stager[p].alone)
  <1>1. /\ stager[p] \in StagerCall
        /\ [stager[p] EXCEPT !.at = x] \in StagerCall
        /\ [stager[p] EXCEPT !.at = x].at = x
        /\ [stager[p] EXCEPT !.at = x].original = stager[p].original
        /\ [stager[p] EXCEPT !.at = x].fetched = stager[p].fetched
        /\ [stager[p] EXCEPT !.at = x].alone <=> stager[p].alone
    BY DEF TypeOK, StagerCall
  <1>2. stager' = [stager EXCEPT ![p] = [stager[p] EXCEPT !.at = x]]
    BY DEF StagerAt, TypeOK
  <1>3. QED
    BY <1>1, <1>2 DEF TypeOK, StagerIs

\* The same of one that asks, begins, fetches, or is disturbed for good.
LEMMA StagerAsks ==
    ASSUME TypeOK, NEW p \in Stagers, Ask(p)
    PROVE  StagerIs(p, "wait", stager[p].original, stager[p].fetched, stager[p].alone)
  <1>1. PICK e \in SomeCommit :
          stager' = [stager EXCEPT ![p] = [stager[p] EXCEPT !.at = "wait", !.expected = e]]
    BY DEF Ask, TypeOK, SomeCommit
  <1> DEFINE s == [stager[p] EXCEPT !.at = "wait", !.expected = e]
  <1>2. /\ s \in StagerCall /\ s.at = "wait"
        /\ s.original = stager[p].original /\ s.fetched = stager[p].fetched
        /\ s.alone <=> stager[p].alone
    BY DEF TypeOK, StagerCall, StagerPlaces
  <1>3. QED
    BY <1>1, <1>2 DEF TypeOK, StagerIs

LEMMA StagerBegins ==
    ASSUME TypeOK, NEW p \in Stagers, NoActiveJobs(p), Active = {}
    PROVE  StagerIs(p, "clear", head, stager[p].fetched, TRUE)
  <1> DEFINE s == [stager[p] EXCEPT !.at = "clear", !.original = head, !.alone = TRUE]
  <1>1. stager' = [stager EXCEPT ![p] = s]
    BY DEF NoActiveJobs, TypeOK
  <1>2. /\ s \in StagerCall /\ s.at = "clear" /\ s.original = head
        /\ s.fetched = stager[p].fetched /\ s.alone
    BY DEF TypeOK, StagerCall, StagerPlaces, SomeCommit
  <1>3. QED
    BY <1>1, <1>2 DEF TypeOK, StagerIs

LEMMA StagerFetches ==
    ASSUME TypeOK, NEW p \in Stagers, Fetch(p)
    PROVE  StagerIs(p, "switch", stager[p].original, origin, stager[p].alone)
  <1> DEFINE s == [stager[p] EXCEPT !.at = "switch", !.fetched = origin]
  <1>1. stager' = [stager EXCEPT ![p] = s]
    BY DEF Fetch, TypeOK
  <1>2. /\ s \in StagerCall /\ s.at = "switch" /\ s.original = stager[p].original
        /\ s.fetched = origin /\ s.alone <=> stager[p].alone
    BY DEF TypeOK, StagerCall, StagerPlaces, SomeCommit
  <1>3. QED
    BY <1>1, <1>2 DEF TypeOK, StagerIs

LEMMA StagerBreaks ==
    ASSUME TypeOK, NEW p \in Stagers, RestoreFails(p) \/ StagerDies(p)
    PROVE  StagerIs(p, "failed", stager[p].original, stager[p].fetched, FALSE)
  <1> DEFINE s == [stager[p] EXCEPT !.at = "failed", !.alone = FALSE]
  <1>1. stager' = [stager EXCEPT ![p] = s]
    BY DEF RestoreFails, StagerDies, TypeOK
  <1>2. /\ s \in StagerCall /\ s.at = "failed" /\ s.original = stager[p].original
        /\ s.fetched = stager[p].fetched /\ ~s.alone
    BY DEF TypeOK, StagerCall, StagerPlaces
  <1>3. QED
    BY <1>1, <1>2 DEF TypeOK, StagerIs

\* Who moves the checkout by hand disturbs all stagings, ...
StagersDisturbed ==
    /\ stager' \in [Stagers -> StagerCall]
    /\ \A p \in Stagers :
          /\ stager'[p].at = stager[p].at /\ stager'[p].original = stager[p].original
          /\ stager'[p].fetched = stager[p].fetched /\ ~stager'[p].alone

LEMMA HandDisturbs ==
    ASSUME TypeOK, NEW c \in Commits, MoveByHand(c)
    PROVE  StagersDisturbed
  <1>1. \A p \in Stagers :
          /\ [stager[p] EXCEPT !.alone = FALSE] \in StagerCall
          /\ [stager[p] EXCEPT !.alone = FALSE].at = stager[p].at
          /\ [stager[p] EXCEPT !.alone = FALSE].original = stager[p].original
          /\ [stager[p] EXCEPT !.alone = FALSE].fetched = stager[p].fetched
          /\ ~[stager[p] EXCEPT !.alone = FALSE].alone
    BY DEF TypeOK, StagerCall
  <1>2. stager' = [p \in Stagers |-> [stager[p] EXCEPT !.alone = FALSE]]
    BY DEF MoveByHand
  <1>3. QED
    BY <1>1, <1>2 DEF StagersDisturbed

\* ... and the submissions, as every staging does.
SubmitsDisturbed ==
    /\ submit' \in [Submitters -> SubmitCall]
    /\ \A u \in Submitters :
          /\ submit'[u].at = submit[u].at /\ submit'[u].ref = submit[u].ref
          /\ submit'[u].config = submit[u].config /\ ~submit'[u].steady

LEMMA Disturbs ==
    ASSUME TypeOK, Disturb
    PROVE  SubmitsDisturbed
  <1>1. \A u \in Submitters :
          /\ [submit[u] EXCEPT !.steady = FALSE] \in SubmitCall
          /\ [submit[u] EXCEPT !.steady = FALSE].at = submit[u].at
          /\ [submit[u] EXCEPT !.steady = FALSE].ref = submit[u].ref
          /\ [submit[u] EXCEPT !.steady = FALSE].config = submit[u].config
          /\ ~[submit[u] EXCEPT !.steady = FALSE].steady
    BY DEF TypeOK, SubmitCall
  <1>2. QED
    BY <1>1 DEF Disturb, SubmitsDisturbed

\* A submission that goes on changes nothing but its place, ...
LEMMA SubmitterGoes ==
    ASSUME TypeOK, NEW u \in Submitters, NEW x \in SubmitPlaces, SubmitterAt(u, x)
    PROVE  SubmitIs(u, x, submit[u].config, submit[u].ref, submit[u].steady)
  <1> DEFINE s == [submit[u] EXCEPT !.at = x]
  <1>1. submit' = [submit EXCEPT ![u] = s]
    BY DEF SubmitterAt, TypeOK
  <1>2. /\ s \in SubmitCall /\ s.at = x /\ s.config = submit[u].config
        /\ s.ref = submit[u].ref /\ s.steady <=> submit[u].steady
    BY DEF TypeOK, SubmitCall
  <1>3. QED
    BY <1>1, <1>2 DEF TypeOK, SubmitIs

\* ... or loads its configuration, ...
LEMMA SubmitterOpens ==
    ASSUME TypeOK, NEW u \in Submitters, OpenToSubmit(u)
    PROVE  SubmitIs(u, "head", IF u \in InServe THEN serveConfig ELSE head, submit[u].ref, TRUE)
  <1> DEFINE config == IF u \in InServe THEN serveConfig ELSE head
             s == [submit[u] EXCEPT !.at = "head", !.steady = TRUE, !.config = config]
  <1>1. submit' = [submit EXCEPT ![u] = s]
    BY DEF OpenToSubmit, TypeOK
  <1>2. config \in SomeCommit
    BY DEF TypeOK, SomeCommit
  <1> HIDE DEF config
  <1>3. /\ s \in SubmitCall /\ s.at = "head" /\ s.config = config
        /\ s.ref = submit[u].ref /\ s.steady
    BY <1>2 DEF TypeOK, SubmitCall, SubmitPlaces
  <1>4. SubmitIs(u, "head", config, submit[u].ref, TRUE)
    BY <1>1, <1>3 DEF TypeOK, SubmitIs
  <1>5. QED
    BY <1>4 DEF config

\* ... or a commit.
LEMMA SubmitterReads ==
    ASSUME TypeOK, NEW u \in Submitters, NEW x \in SubmitPlaces, NEW e \in SomeCommit,
           submit' = [submit EXCEPT ![u].at = x, ![u].ref = e]
    PROVE  SubmitIs(u, x, submit[u].config, e, submit[u].steady)
  <1> DEFINE s == [submit[u] EXCEPT !.at = x, !.ref = e]
  <1>1. submit' = [submit EXCEPT ![u] = s]
    BY DEF TypeOK
  <1>2. /\ s \in SubmitCall /\ s.at = x /\ s.config = submit[u].config
        /\ s.ref = e /\ s.steady <=> submit[u].steady
    BY DEF TypeOK, SubmitCall
  <1>3. QED
    BY <1>1, <1>2 DEF TypeOK, SubmitIs

\* The submissions over RPC that are not over yet end with serve.
SubmitsHungUp ==
    /\ submit' \in [Submitters -> SubmitCall]
    /\ \A u \in Submitters :
          IF u \in InServe /\ Midway(u)
          THEN submit'[u].at = "over"
          ELSE submit'[u] = submit[u]

LEMMA HangsUp ==
    ASSUME TypeOK, HangUp
    PROVE  SubmitsHungUp
  <1>1. \A u \in Submitters :
          /\ [submit[u] EXCEPT !.at = "over"] \in SubmitCall
          /\ [submit[u] EXCEPT !.at = "over"].at = "over"
          /\ submit[u] \in SubmitCall
    BY DEF TypeOK, SubmitCall, SubmitPlaces
  <1>2. QED
    BY <1>1 DEF HangUp, SubmitsHungUp

\* A job gets another state, and keeps its commits.
JobIs(u, state) ==
    /\ job' \in [Submitters -> Job]
    /\ \A v \in Submitters : v # u => job'[v] = job[v]
    /\ job'[u].state = state
    /\ job'[u].ref = job[u].ref /\ job'[u].config = job[u].config

LEMMA JobGoes ==
    ASSUME TypeOK, NEW u \in Submitters, NEW x \in JobStates,
           job' = [job EXCEPT ![u].state = x]
    PROVE  JobIs(u, x)
  <1> DEFINE r == [job[u] EXCEPT !.state = x]
  <1>1. job' = [job EXCEPT ![u] = r]
    BY DEF TypeOK
  <1>2. /\ r \in Job /\ r.state = x /\ r.ref = job[u].ref /\ r.config = job[u].config
    BY DEF TypeOK, Job
  <1>3. QED
    BY <1>1, <1>2 DEF TypeOK, JobIs

\* What the next serve makes of the jobs that were running.
JobsRecovered ==
    /\ job' \in [Submitters -> Job]
    /\ \A u \in Submitters :
          IF job[u].state = "running" THEN job'[u].state = "over" ELSE job'[u] = job[u]

LEMMA LaunchRecovers ==
    ASSUME TypeOK, Launch
    PROVE  JobsRecovered
  <1>1. \A u \in Submitters :
          /\ [job[u] EXCEPT !.state = "over"] \in Job
          /\ [job[u] EXCEPT !.state = "over"].state = "over"
          /\ job[u] \in Job
    BY DEF TypeOK, Job, JobStates
  <1>2. QED
    BY <1>1 DEF Launch, JobsRecovered, Running

\* Insert makes a job of what was read.
LEMMA Inserts ==
    ASSUME TypeOK, NEW u \in Submitters, Insert(u)
    PROVE  /\ job' \in [Submitters -> Job]
           /\ \A v \in Submitters : v # u => job'[v] = job[v]
           /\ job'[u].state = "queued"
           /\ job'[u].ref = submit[u].ref /\ job'[u].config = submit[u].config
  <1>1. [state |-> "queued", ref |-> submit[u].ref, config |-> submit[u].config] \in Job
    BY DEF TypeOK, SubmitCall, Job, JobStates
  <1>2. QED
    BY <1>1 DEF Insert, TypeOK

\* The record of an operator: it goes on, returns, begins, or looks at the jobs.
LEMMA OperatorGoes ==
    ASSUME TypeOK, NEW c \in Operators, NEW x \in OperatorPlaces, OperatorAt(c, x)
    PROVE  OperatorIs(c, x, operator[c].command, operator[c].known)
  <1> DEFINE s == [operator[c] EXCEPT !.at = x]
  <1>1. operator' = [operator EXCEPT ![c] = s]
    BY DEF OperatorAt, TypeOK
  <1>2. /\ s \in OperatorCall /\ s.at = x /\ s.command = operator[c].command
        /\ s.known = operator[c].known
    BY DEF TypeOK, OperatorCall
  <1>3. QED
    BY <1>1, <1>2 DEF TypeOK, OperatorIs

LEMMA OperatorReturns ==
    ASSUME TypeOK, NEW c \in Operators, Returns(c)
    PROVE  OperatorIs(c, "idle", "start", {})
  <1>1. /\ Idle \in OperatorCall /\ Idle.at = "idle" /\ Idle.command = "start"
        /\ Idle.known = {}
    BY DEF Idle, OperatorCall, OperatorPlaces, Commands
  <1>2. QED
    BY <1>1 DEF Returns, TypeOK, OperatorIs

FirstPlace(command) ==
    CASE command = "start" -> "status" [] command = "uninstall" -> "bootout" [] OTHER -> "check"

LEMMA OperatorBegins ==
    ASSUME TypeOK, NEW c \in Operators, NEW command \in Commands, Begin(c, command)
    PROVE  OperatorIs(c, FirstPlace(command), command, operator[c].known)
  <1> DEFINE s == [operator[c] EXCEPT !.command = command, !.at = FirstPlace(command)]
  <1>1. FirstPlace(command) \in OperatorPlaces
    BY DEF FirstPlace, OperatorPlaces, Commands
  <1>2. operator' = [operator EXCEPT ![c] = s]
    BY DEF Begin, TypeOK, FirstPlace
  <1>3. /\ s \in OperatorCall /\ s.at = FirstPlace(command) /\ s.command = command
        /\ s.known = operator[c].known
    BY <1>1 DEF TypeOK, OperatorCall
  <1>4. QED
    BY <1>2, <1>3 DEF TypeOK, OperatorIs

LEMMA OperatorChecks ==
    ASSUME TypeOK, NEW c \in Operators, CheckJobs(c), Active = {}
    PROVE  OperatorIs(c, IF operator[c].command = "install" THEN "plist" ELSE "bootout",
                      operator[c].command, {u \in Submitters : job[u].state # "absent"})
  <1> DEFINE known == {u \in Submitters : job[u].state # "absent"}
             x == IF operator[c].command = "install" THEN "plist" ELSE "bootout"
             s == [operator[c] EXCEPT !.known = known, !.at = x]
  <1>1. known \in SUBSET Submitters /\ x \in OperatorPlaces
    BY DEF OperatorPlaces
  <1>2. operator' = [operator EXCEPT ![c] = s]
    BY DEF CheckJobs, TypeOK
  <1> HIDE DEF known, x
  <1>3. /\ s \in OperatorCall /\ s.at = x /\ s.command = operator[c].command
        /\ s.known = known
    BY <1>1 DEF TypeOK, OperatorCall
  <1>4. OperatorIs(c, x, operator[c].command, known)
    BY <1>2, <1>3 DEF TypeOK, OperatorIs
  <1>5. QED
    BY <1>4 DEF known, x

-----------------------------------------------------------------------------
\* What each step makes of the record of its process.
Goes(p, x) == StagerIs(p, x, stager[p].original, stager[p].fetched, stager[p].alone)

LEMMA StagerFields ==
    ASSUME TypeOK, NEW p \in Stagers
    PROVE  /\ Ask(p) => Goes(p, "wait")
           /\ LockToStage(p) => Goes(p, "count")
           /\ NoActiveJobs(p) =>
                IF Active # {} THEN Goes(p, "failed")
                ELSE StagerIs(p, "clear", head, stager[p].fetched, TRUE)
           /\ ClearStagedCheckout(p) => Goes(p, "fetch") /\ SubmitsDisturbed
           /\ Fetch(p) => StagerIs(p, "switch", stager[p].original, origin, stager[p].alone)
           /\ Switch(p) => IF IsExpected(p) THEN Goes(p, "load") /\ SubmitsDisturbed
                           ELSE Goes(p, "failed")
           /\ Load(p) => IF head # stager[p].fetched \/ head \in Broken
                         THEN Goes(p, "undo") ELSE Goes(p, "record")
           /\ RecordStagedCheckout(p) => Goes(p, "staged") /\ SubmitsDisturbed
           /\ Restore(p) => Goes(p, "failed") /\ SubmitsDisturbed
           /\ StageFails(p) => IF stager[p].at \in {"load", "record"} THEN Goes(p, "undo")
                               ELSE Goes(p, "failed")
           /\ RestoreFails(p) \/ StagerDies(p) =>
                StagerIs(p, "failed", stager[p].original, stager[p].fetched, FALSE)
  <1> USE DEF StagerEnds
  <1>1. \A x \in StagerPlaces : StagerAt(p, x) => Goes(p, x)
    BY StagerGoes DEF Goes
  <1>2. {"wait", "count", "clear", "fetch", "switch", "load", "record", "undo", "staged",
         "failed"} \subseteq StagerPlaces
    BY DEF StagerPlaces
  <1>3. Ask(p) => Goes(p, "wait")
    BY StagerAsks DEF Goes
  <1>4. LockToStage(p) => Goes(p, "count")
    BY <1>1, <1>2 DEF LockToStage
  <1>5. NoActiveJobs(p) =>
          IF Active # {} THEN Goes(p, "failed")
          ELSE StagerIs(p, "clear", head, stager[p].fetched, TRUE)
    BY <1>1, <1>2, StagerBegins DEF NoActiveJobs
  <1>6. ClearStagedCheckout(p) => Goes(p, "fetch") /\ SubmitsDisturbed
    BY <1>1, <1>2, Disturbs DEF ClearStagedCheckout
  <1>7. Fetch(p) => StagerIs(p, "switch", stager[p].original, origin, stager[p].alone)
    BY StagerFetches
  <1>8. Switch(p) => IF IsExpected(p) THEN Goes(p, "load") /\ SubmitsDisturbed
                     ELSE Goes(p, "failed")
    BY <1>1, <1>2, Disturbs DEF Switch
  <1>9. Load(p) => IF head # stager[p].fetched \/ head \in Broken
                   THEN Goes(p, "undo") ELSE Goes(p, "record")
    BY <1>1, <1>2 DEF Load
  <1>10. RecordStagedCheckout(p) => Goes(p, "staged") /\ SubmitsDisturbed
    BY <1>1, <1>2, Disturbs DEF RecordStagedCheckout
  <1>11. Restore(p) => Goes(p, "failed") /\ SubmitsDisturbed
    BY <1>1, <1>2, Disturbs DEF Restore
  <1>12. StageFails(p) => IF stager[p].at \in {"load", "record"} THEN Goes(p, "undo")
                          ELSE Goes(p, "failed")
    BY <1>1, <1>2 DEF StageFails
  <1>13. QED
    BY <1>3, <1>4, <1>5, <1>6, <1>7, <1>8, <1>9, <1>10, <1>11, <1>12, StagerBreaks

SubmitGoes(u, x) == SubmitIs(u, x, submit[u].config, submit[u].ref, submit[u].steady)

LEMMA SubmitFields ==
    ASSUME TypeOK, NEW u \in Submitters
    PROVE  /\ OpenToSubmit(u) =>
                SubmitIs(u, "head", IF u \in InServe THEN serveConfig ELSE head,
                         submit[u].ref, TRUE)
           /\ ReadHead(u) => SubmitIs(u, "match", submit[u].config, head, submit[u].steady)
           /\ MatchStaged(u) =>
                \/ SubmitGoes(u, "over")
                \/ \E ref \in Commits \cup {submit[u].ref} :
                      /\ staged \in {NoCommit, ref}
                      /\ SubmitIs(u, "wait", submit[u].config, ref, submit[u].steady)
           /\ LockToSubmit(u) => SubmitGoes(u, "insert")
           /\ Insert(u) => SubmitGoes(u, "over")
           /\ HeadUnread(u) => SubmitGoes(u, "wait")
           /\ SubmitFails(u) => SubmitGoes(u, "over")
  <1>1. \A x \in SubmitPlaces : SubmitterAt(u, x) => SubmitGoes(u, x)
    BY SubmitterGoes DEF SubmitGoes
  <1>2. {"head", "match", "wait", "insert", "over"} \subseteq SubmitPlaces
    BY DEF SubmitPlaces
  <1>3. ReadHead(u) => SubmitIs(u, "match", submit[u].config, head, submit[u].steady)
    BY <1>2, SubmitterReads DEF ReadHead, TypeOK, SomeCommit
  <1>4. ASSUME MatchStaged(u)
        PROVE  \/ SubmitGoes(u, "over")
               \/ \E ref \in Commits \cup {submit[u].ref} :
                      /\ staged \in {NoCommit, ref}
                      /\ SubmitIs(u, "wait", submit[u].config, ref, submit[u].steady)
    <2>1. PICK requested \in Commits \cup {NoCommit} :
            LET ref == IF requested = NoCommit THEN submit[u].ref ELSE requested
            IN IF MatchesStaged(ref)
               THEN submit' = [submit EXCEPT ![u].at = "wait", ![u].ref = ref]
               ELSE SubmitterAt(u, "over")
      BY <1>4 DEF MatchStaged
    <2> DEFINE ref == IF requested = NoCommit THEN submit[u].ref ELSE requested
    <2>2. ref \in Commits \cup {submit[u].ref} /\ ref \in SomeCommit
      BY DEF TypeOK, SubmitCall, SomeCommit
    <2>3. CASE ~MatchesStaged(ref)
      BY <2>1, <2>3, <1>1, <1>2
    <2>4. CASE MatchesStaged(ref)
      <3>1. submit' = [submit EXCEPT ![u].at = "wait", ![u].ref = ref]
        BY <2>1, <2>4
      <3>2. staged \in {NoCommit, ref}
        BY <2>4 DEF MatchesStaged
      <3> HIDE DEF ref
      <3>3. SubmitIs(u, "wait", submit[u].config, ref, submit[u].steady)
        BY <3>1, <2>2, <1>2, SubmitterReads
      <3>4. QED
        BY <3>2, <3>3, <2>2
    <2>5. QED
      BY <2>3, <2>4
  <1>5. LockToSubmit(u) => SubmitGoes(u, "insert")
    BY <1>1, <1>2 DEF LockToSubmit
  <1>6. Insert(u) => SubmitGoes(u, "over")
    BY <1>1, <1>2 DEF Insert
  <1>7. HeadUnread(u) => SubmitGoes(u, "wait")
    BY <1>1, <1>2 DEF HeadUnread
  <1>8. SubmitFails(u) => SubmitGoes(u, "over")
    BY <1>1, <1>2 DEF SubmitFails
  <1>9. QED
    BY <1>3, <1>4, <1>5, <1>6, <1>7, <1>8, SubmitterOpens

\* An operator's step leaves it idle, or at a place its command comes to.
OperatorGoesTo(c, x) == OperatorIs(c, x, operator[c].command, operator[c].known)

LEMMA OperatorFields ==
    ASSUME TypeOK, NEW c \in Operators
    PROVE  /\ Status(c) =>
                IF loaded \/ plist \/ head \in Broken THEN Returns(c)
                ELSE OperatorGoesTo(c, "plist")
           /\ CheckJobs(c) => IF Active # {} THEN Returns(c)
                ELSE OperatorIs(c, IF operator[c].command = "install" THEN "plist" ELSE "bootout",
                       operator[c].command, {u \in Submitters : job[u].state # "absent"})
           /\ WritePlist(c) => IF operator[c].command = "install" THEN OperatorGoesTo(c, "bootout")
                ELSE IF plist THEN Returns(c) ELSE OperatorGoesTo(c, "bootstrap")
           /\ Bootout(c) => OperatorGoesTo(c, IF operator[c].command = "install" THEN "bootstrap"
                                              ELSE "remove")
           /\ Bootstrap(c) => IF loaded THEN Returns(c) ELSE OperatorGoesTo(c, "kickstart")
           /\ OperatorFails(c) => \/ Returns(c)
                                  \/ /\ operator[c].at = "bootout"
                                     /\ operator[c].command = "install"
                                     /\ OperatorGoesTo(c, "bootstrap")
           /\ Returns(c) => OperatorIs(c, "idle", "start", {})
  <1>1. \A x \in OperatorPlaces : OperatorAt(c, x) => OperatorGoesTo(c, x)
    BY OperatorGoes DEF OperatorGoesTo
  <1>2. {"plist", "bootout", "bootstrap", "kickstart", "remove"} \subseteq OperatorPlaces
    BY DEF OperatorPlaces
  <1>3. Status(c) => IF loaded \/ plist \/ head \in Broken THEN Returns(c)
                     ELSE OperatorGoesTo(c, "plist")
    BY <1>1, <1>2 DEF Status
  <1>4. CheckJobs(c) => IF Active # {} THEN Returns(c)
           ELSE OperatorIs(c, IF operator[c].command = "install" THEN "plist" ELSE "bootout",
                  operator[c].command, {u \in Submitters : job[u].state # "absent"})
    BY OperatorChecks DEF CheckJobs
  <1>5. WritePlist(c) =>
           IF operator[c].command = "install" THEN OperatorGoesTo(c, "bootout")
           ELSE IF plist THEN Returns(c) ELSE OperatorGoesTo(c, "bootstrap")
    BY <1>1, <1>2 DEF WritePlist
  <1>6. Bootout(c) => OperatorGoesTo(c, IF operator[c].command = "install" THEN "bootstrap"
                                        ELSE "remove")
    BY <1>1, <1>2 DEF Bootout
  <1>7. Bootstrap(c) => IF loaded THEN Returns(c) ELSE OperatorGoesTo(c, "kickstart")
    BY <1>1, <1>2 DEF Bootstrap
  <1>8. OperatorFails(c) => \/ Returns(c)
                            \/ /\ operator[c].at = "bootout" /\ operator[c].command = "install"
                               /\ OperatorGoesTo(c, "bootstrap")
    BY <1>1, <1>2 DEF OperatorFails
  <1>9. Returns(c) => OperatorIs(c, "idle", "start", {})
    BY OperatorReturns
  <1>10. QED
    BY <1>3, <1>4, <1>5, <1>6, <1>7, <1>8, <1>9

-----------------------------------------------------------------------------
\* What was fetched and what is gone back to are commits when they are used.
Known ==
    \A p \in Stagers :
        /\ stager[p].at \in {"switch", "load", "record"} => stager[p].fetched \in Commits
        /\ stager[p].at \in {"clear", "fetch", "switch", "load", "record", "undo"}
           => stager[p].original \in Commits

Types == TypeOK /\ Known

\* A staging that cannot restore, or is killed, keeps the types.
LEMMA StagerBreaksTypes ==
    ASSUME Types, NEW p \in Stagers, RestoreFails(p) \/ StagerDies(p)
    PROVE  Types'
  <1>1. StagerIs(p, "failed", stager[p].original, stager[p].fetched, FALSE)
    BY StagerBreaks DEF Types
  <1>2. /\ lockedBy' \in Stagers \cup Submitters \cup {Nobody}
        /\ events' \in Nat
    BY DEF Types, TypeOK, RestoreFails, StagerDies, Event, Unlock
  <1>3. head' \in Commits /\ submit' \in [Submitters -> SubmitCall]
    <2>1. CASE RestoreFails(p)
      BY <2>1, Disturbs DEF Types, TypeOK, Known, RestoreFails, SubmitsDisturbed
    <2>2. CASE StagerDies(p)
      BY <2>2 DEF Types, TypeOK, StagerDies
    <2>3. QED
      BY <2>1, <2>2
  <1>4. UNCHANGED <<origin, staged, moved, job, serviceVars>>
    BY DEF RestoreFails, StagerDies
  <1>5. TypeOK'
    BY <1>1, <1>2, <1>3, <1>4 DEF Types, TypeOK, StagerIs
  <1>6. Known'
    BY <1>1 DEF Types, Known, StagerIs
  <1>7. QED
    BY <1>5, <1>6 DEF Types

\* A staging that goes on knows what it needs at its next place.
LEMMA KnownAt ==
    ASSUME Types, NEW p \in Stagers, NEW x, NEW original, NEW fetched, NEW alone,
           StagerIs(p, x, original, fetched, alone),
           x \in {"switch", "load", "record"} => fetched \in Commits,
           x \in {"clear", "fetch", "switch", "load", "record", "undo"} => original \in Commits
    PROVE  stager' \in [Stagers -> StagerCall] /\ Known'
  BY DEF Types, Known, StagerIs

\* The steps of a staging keep the types.
LEMMA StagerTypes ==
    ASSUME Types, NEW p \in Stagers, StagerStep(p)
    PROVE  Types'
  <1>1. \A x : /\ Goes(p, x)
               /\ x \in {"switch", "load", "record"} => stager[p].fetched \in Commits
               /\ x \in {"clear", "fetch", "switch", "load", "record", "undo"}
                  => stager[p].original \in Commits
               => stager' \in [Stagers -> StagerCall] /\ Known'
    BY KnownAt DEF Goes
  <1>2. TypeOK /\ Known /\ head \in Commits /\ origin \in Commits
    BY DEF Types, TypeOK
  <1>3. CASE Ask(p)
    <2>1. stager' \in [Stagers -> StagerCall] /\ Known'
      BY <1>1, <1>2, <1>3, StagerFields DEF Ask, Known
    <2>2. QED
      BY <1>2, <1>3, <2>1, HostAssumption DEF Types, TypeOK, Ask
  <1>4. CASE LockToStage(p)
    <2>1. stager' \in [Stagers -> StagerCall] /\ Known'
      BY <1>1, <1>2, <1>4, StagerFields DEF LockToStage, Known
    <2>2. QED
      BY <1>2, <1>4, <2>1, HostAssumption DEF Types, TypeOK, LockToStage
  <1>5. CASE NoActiveJobs(p)
    <2>1. stager' \in [Stagers -> StagerCall] /\ Known'
      BY <1>1, <1>2, <1>5, StagerFields, KnownAt DEF NoActiveJobs, Known
    <2>2. QED
      BY <1>2, <1>5, <2>1, HostAssumption DEF Types, TypeOK, NoActiveJobs, StagerEnds, Unlock
  <1>6. CASE ClearStagedCheckout(p)
    <2>1. stager' \in [Stagers -> StagerCall] /\ Known'
      BY <1>1, <1>2, <1>6, StagerFields DEF ClearStagedCheckout, Known
    <2>2. QED
      BY <1>2, <1>6, <2>1, HostAssumption, StagerFields
         DEF Types, TypeOK, ClearStagedCheckout, SubmitsDisturbed, SomeCommit
  <1>7. CASE Fetch(p)
    <2>1. stager' \in [Stagers -> StagerCall] /\ Known'
      BY <1>1, <1>2, <1>7, StagerFields, KnownAt DEF Fetch, Known
    <2>2. QED
      BY <1>2, <1>7, <2>1, HostAssumption DEF Types, TypeOK, Fetch
  <1>8. CASE Switch(p)
    <2>1. stager' \in [Stagers -> StagerCall] /\ Known'
      BY <1>1, <1>2, <1>8, StagerFields DEF Switch, Known
    <2>2. QED
      BY <1>2, <1>8, <2>1, HostAssumption, StagerFields
         DEF Types, TypeOK, Known, Switch, StagerEnds, Unlock, SubmitsDisturbed
  <1>9. CASE Load(p)
    <2>1. stager' \in [Stagers -> StagerCall] /\ Known'
      BY <1>1, <1>2, <1>9, StagerFields DEF Load, Known
    <2>2. QED
      BY <1>2, <1>9, <2>1, HostAssumption DEF Types, TypeOK, Load
  <1>10. CASE RecordStagedCheckout(p)
    <2>1. stager' \in [Stagers -> StagerCall] /\ Known'
      BY <1>1, <1>2, <1>10, StagerFields DEF RecordStagedCheckout, Known
    <2>2. QED
      BY <1>2, <1>10, <2>1, HostAssumption, StagerFields
         DEF Types, TypeOK, Known, RecordStagedCheckout, StagerEnds, Unlock, SomeCommit, SubmitsDisturbed
  <1>11. CASE Restore(p)
    <2>1. stager' \in [Stagers -> StagerCall] /\ Known'
      BY <1>1, <1>2, <1>11, StagerFields DEF Restore, Known
    <2>2. QED
      BY <1>2, <1>11, <2>1, HostAssumption, StagerFields
         DEF Types, TypeOK, Known, Restore, StagerEnds, Unlock, SubmitsDisturbed
  <1>12. CASE StageFails(p)
    <2>1. stager' \in [Stagers -> StagerCall] /\ Known'
      BY <1>1, <1>2, <1>12, StagerFields DEF StageFails, Known
    <2>2. QED
      BY <1>2, <1>12, <2>1, HostAssumption
         DEF Types, TypeOK, StageFails, Event, StagerEnds, Unlock
  <1>13. QED
    BY <1>3, <1>4, <1>5, <1>6, <1>7, <1>8, <1>9, <1>10, <1>11, <1>12,
       StagerBreaksTypes DEF StagerStep

\* The steps of a submission keep the types.
LEMMA SubmitterTypes ==
    ASSUME Types, NEW u \in Submitters, SubmitterStep(u)
    PROVE  Types'
  <1> USE HostAssumption, SubmitFields DEF Types, TypeOK, Known, SubmitGoes, SubmitIs
  <1>1. CASE OpenToSubmit(u)
    BY <1>1 DEF OpenToSubmit
  <1>2. CASE ReadHead(u)
    BY <1>2 DEF ReadHead
  <1>3. CASE MatchStaged(u)
    BY <1>3 DEF MatchStaged
  <1>4. CASE LockToSubmit(u)
    BY <1>4 DEF LockToSubmit
  <1>5. CASE Insert(u)
    BY <1>5, Inserts DEF Insert, Unlock
  <1>6. CASE HeadUnread(u)
    BY <1>6 DEF HeadUnread, Event
  <1>7. CASE SubmitFails(u)
    BY <1>7 DEF SubmitFails, Event, Unlock
  <1>8. QED
    BY <1>1, <1>2, <1>3, <1>4, <1>5, <1>6, <1>7 DEF SubmitterStep

\* Moves by hand and pushes keep the types.
LEMMA CheckoutTypes ==
    ASSUME Types, CheckoutStep
    PROVE  Types'
  <1> USE HostAssumption DEF Types, TypeOK, Known
  <1>1. ASSUME NEW c \in Commits, MoveByHand(c) PROVE Types'
    BY <1>1, HandDisturbs, Disturbs
       DEF MoveByHand, Event, StagersDisturbed, SubmitsDisturbed
  <1>2. ASSUME NEW c \in Commits, Push(c) PROVE Types'
    BY <1>2 DEF Push, Event
  <1>3. QED
    BY <1>1, <1>2 DEF CheckoutStep

\* serve keeps the types.
LEMMA ServiceTypes ==
    ASSUME Types, ServiceStep
    PROVE  Types'
  <1> USE HostAssumption DEF Types, TypeOK, Known
  <1>1. CASE Launch
    BY <1>1, LaunchRecovers DEF Launch, JobsRecovered, Servers
  <1>2. CASE Exit
    BY <1>2, HangsUp DEF Exit, SubmitsHungUp, Servers
  <1>3. CASE ServeDies
    BY <1>3, HangsUp DEF ServeDies, Event, SubmitsHungUp, Servers
  <1>4. ASSUME NEW u \in Submitters, Claim(u) PROVE Types'
    BY <1>4, JobGoes DEF Claim, JobIs, JobStates
  <1>5. ASSUME NEW u \in Submitters, JobEnds(u) PROVE Types'
    BY <1>5, JobGoes DEF JobEnds, JobIs, JobStates
  <1>6. QED
    BY <1>1, <1>2, <1>3, <1>4, <1>5 DEF ServiceStep

\* The commands for the service keep the types.
LEMMA OperatorTypes ==
    ASSUME Types, NEW c \in Operators, OperatorStep(c)
    PROVE  Types'
  <1> USE HostAssumption, OperatorFields
      DEF Types, TypeOK, Known, OperatorGoesTo, OperatorIs, Looks
  <1>1. ASSUME NEW command \in Commands, Begin(c, command) PROVE Types'
    BY <1>1, OperatorBegins DEF Begin
  <1>2. CASE Status(c)
    BY <1>2 DEF Status
  <1>3. CASE CheckJobs(c)
    BY <1>3 DEF CheckJobs
  <1>4. CASE WritePlist(c)
    BY <1>4 DEF WritePlist
  <1>5. CASE Bootout(c)
    BY <1>5 DEF Bootout, Servers
  <1>6. CASE Bootstrap(c)
    BY <1>6 DEF Bootstrap
  <1>7. CASE Kickstart(c)
    BY <1>7 DEF Kickstart, Servers
  <1>8. CASE RemovePlist(c)
    BY <1>8 DEF RemovePlist
  <1>9. CASE OperatorFails(c)
    BY <1>9 DEF OperatorFails, Event
  <1>10. QED
    BY <1>1, <1>2, <1>3, <1>4, <1>5, <1>6, <1>7, <1>8, <1>9 DEF OperatorStep

\* The first state has the types, ...
LEMMA TypesInit == Init => Types
  <1>1. SUFFICES ASSUME Init PROVE Types
    OBVIOUS
  <1>2. stager \in [Stagers -> StagerCall]
    BY <1>1, HostAssumption DEF Init, StagerCall, StagerPlaces, SomeCommit
  <1>3. submit \in [Submitters -> SubmitCall] /\ job \in [Submitters -> Job]
    BY <1>1, HostAssumption DEF Init, SubmitCall, Job, SubmitPlaces, JobStates, SomeCommit
  <1>4. operator \in [Operators -> OperatorCall]
    BY <1>1 DEF Init, Idle, OperatorCall, OperatorPlaces, Commands
  <1>5. TypeOK
    BY <1>1, <1>2, <1>3, <1>4, HostAssumption DEF Init, TypeOK, SomeCommit, Servers
  <1>6. Known
    BY <1>1 DEF Init, Known
  <1>7. QED
    BY <1>5, <1>6 DEF Types

\* ... and every step keeps them.
LEMMA TypesKept ==
    ASSUME Types, [Next]_vars
    PROVE  Types'
  <1>1. CASE UNCHANGED vars
    BY <1>1 DEF Types, TypeOK, Known
  <1>2. CASE Next
    BY <1>2, StagerTypes, SubmitterTypes, CheckoutTypes, ServiceTypes, OperatorTypes DEF Next
  <1>3. QED
    BY <1>1, <1>2

\* Host keeps the type of every variable, and of every record of a process.
THEOREM HostTypeCorrect == Spec => []TypeOK
  <1>1. Types => TypeOK
    BY DEF Types
  <1>2. QED
    BY TypesInit, TypesKept, <1>1, PTL DEF Spec

-----------------------------------------------------------------------------
(* The checkout. *)

Working == {"clear", "fetch", "switch", "load", "record", "undo"}

\* Who is at work under the stage lock holds it.
Locked ==
    /\ \A p \in Stagers : stager[p].at \in Working \cup {"count"} => lockedBy = p
    /\ \A u \in Submitters : submit[u].at = "insert" => lockedBy = u

\* No job is active while a staging works, and no row stays from the one before.
NoneActive == \A p \in Stagers : stager[p].at \in Working => Active = {}
Cleared ==
    \A p \in Stagers :
        stager[p].at \in Working \ {"clear"} => staged = NoCommit

\* The checkout is where the staging found it, and later what it verified.
AtOriginal ==
    \A p \in Stagers :
        stager[p].at \in {"clear", "fetch", "switch"} /\ stager[p].alone
        => head = stager[p].original
Verified ==
    \A p \in Stagers : stager[p].at = "record" /\ ~moved => head = stager[p].fetched

\* The inductive invariant of the checkout.
CheckoutInv ==
    /\ Types /\ Locked /\ NoneActive /\ Cleared /\ AtOriginal /\ Verified
    /\ StagedIsCheckedOut

\* A staging that holds the lock, or takes it, answers for itself only.
LEMMA HolderSteps ==
    ASSUME CheckoutInv, Types', NEW p \in Stagers, lockedBy \in {p, Nobody},
           NEW x, NEW original, NEW fetched, NEW alone,
           StagerIs(p, x, original, fetched, alone),
           Active' = Active, \A u \in Submitters : submit'[u].at = submit[u].at,
           x \in Working \cup {"count"} => lockedBy' = p,
           x \in Working => Active = {},
           x \in Working \ {"clear"} => staged' = NoCommit,
           x \in {"clear", "fetch", "switch"} /\ alone => head' = original,
           x = "record" /\ ~moved' => head' = fetched,
           StagedIsCheckedOut'
    PROVE  CheckoutInv'
  <1>1. \A q \in Stagers : q # p => /\ stager'[q] = stager[q]
                                   /\ stager[q].at \notin Working \cup {"count"}
    BY HostAssumption DEF CheckoutInv, Locked, StagerIs
  <1>2. \A u \in Submitters : submit'[u].at # "insert"
    BY HostAssumption DEF CheckoutInv, Locked
  <1>3. Locked'
    BY <1>1, <1>2 DEF Locked, StagerIs
  <1>4. NoneActive'
    BY <1>1 DEF NoneActive, StagerIs
  <1>5. Cleared'
    BY <1>1 DEF Cleared, StagerIs, Working
  <1>6. AtOriginal'
    BY <1>1 DEF AtOriginal, StagerIs, Working
  <1>7. Verified'
    BY <1>1 DEF Verified, StagerIs, Working
  <1>8. QED
    BY <1>3, <1>4, <1>5, <1>6, <1>7 DEF CheckoutInv

\* One that is not at work changes only its place, and perhaps frees the lock.
LEMMA IdleSteps ==
    ASSUME CheckoutInv, Types', NEW p \in Stagers,
           stager[p].at \notin Working \cup {"count"},
           NEW x, x \notin Working \cup {"count"},
           NEW original, NEW fetched, NEW alone,
           StagerIs(p, x, original, fetched, alone),
           Active' = Active, \A u \in Submitters : submit'[u].at = submit[u].at,
           UNCHANGED <<head, staged, moved>>, lockedBy' = lockedBy \/ lockedBy = p
    PROVE  CheckoutInv'
  <1>1. /\ stager'[p].at = x
        /\ \A q \in Stagers : q # p => stager'[q] = stager[q]
    BY DEF StagerIs
  <1>2. Locked'
    BY <1>1, HostAssumption DEF CheckoutInv, Locked
  <1>3. NoneActive'
    BY <1>1 DEF CheckoutInv, NoneActive
  <1>4. Cleared'
    BY <1>1 DEF CheckoutInv, Cleared, Working
  <1>5. AtOriginal'
    BY <1>1 DEF CheckoutInv, AtOriginal, Working
  <1>6. Verified'
    BY <1>1 DEF CheckoutInv, Verified, Working
  <1>7. QED
    BY <1>2, <1>3, <1>4, <1>5, <1>6 DEF CheckoutInv, StagedIsCheckedOut

\* The steps of a staging keep the invariant.
LEMMA StagerCheckout ==
    ASSUME CheckoutInv, NEW p \in Stagers, StagerStep(p)
    PROVE  CheckoutInv'
  <1>1. Types' /\ TypeOK
    BY StagerTypes DEF CheckoutInv, Types
  <1>2. Active' = Active /\ \A u \in Submitters : submit'[u].at = submit[u].at
    BY StagerFields, Disturbs
       DEF CheckoutInv, Types, StagerStep, SubmitsDisturbed, Active, Ask, LockToStage,
           NoActiveJobs, ClearStagedCheckout, Fetch, Switch, Load, RecordStagedCheckout,
           Restore, StageFails, RestoreFails, StagerDies
  <1>3. stager[p].at \in Working \cup {"count"} => lockedBy = p
    BY DEF CheckoutInv, Locked
  <1>4. /\ stager[p].at \in Working => Active = {}
        /\ stager[p].at \in Working \ {"clear"} => staged = NoCommit
        /\ stager[p].at \in {"clear", "fetch", "switch"} /\ stager[p].alone
           => head = stager[p].original
        /\ stager[p].at = "record" /\ ~moved => head = stager[p].fetched
        /\ staged # NoCommit /\ ~moved => head = staged
    BY DEF CheckoutInv, NoneActive, Cleared, AtOriginal, Verified, StagedIsCheckedOut
  <1>5. CASE Ask(p)
    <2>1. Goes(p, "wait")
      BY <1>1, <1>5, StagerFields
    <2>2. stager[p].at = "new" /\ UNCHANGED <<head, staged, moved, lockedBy>>
      BY <1>5 DEF Ask
    <2>3. QED
      BY <1>1, <1>2, <2>1, <2>2, IdleSteps DEF Goes, Working
  <1>6. CASE LockToStage(p)
    <2>1. Goes(p, "count")
      BY <1>1, <1>6, StagerFields
    <2>2. UNCHANGED <<head, staged, moved>> /\ lockedBy = Nobody /\ lockedBy' = p
      BY <1>6 DEF LockToStage, Free
    <2>3. QED
      BY <1>1, <1>2, <1>4, <2>1, <2>2, HolderSteps DEF Goes, Working, StagedIsCheckedOut
  <1>7. CASE NoActiveJobs(p)
    <2>1. lockedBy = p /\ UNCHANGED <<head, staged, moved>>
      BY <1>3, <1>7 DEF NoActiveJobs
    <2>2. CASE Active # {}
      <3>1. Goes(p, "failed")
        BY <1>1, <1>7, <2>2, StagerFields
      <3>2. QED
        BY <1>1, <1>2, <1>4, <2>1, <3>1, HolderSteps DEF Goes, Working, StagedIsCheckedOut
    <2>3. CASE Active = {}
      <3>1. StagerIs(p, "clear", head, stager[p].fetched, TRUE)
        BY <1>1, <1>7, <2>3, StagerFields
      <3>2. lockedBy' = lockedBy
        BY <1>7, <2>3 DEF NoActiveJobs
      <3>3. QED
        BY <1>1, <1>2, <1>4, <2>1, <2>3, <3>1, <3>2, HolderSteps
           DEF Working, StagedIsCheckedOut
    <2>4. QED
      BY <2>2, <2>3
  <1>8. CASE ClearStagedCheckout(p)
    <2>1. Goes(p, "fetch")
      BY <1>1, <1>8, StagerFields
    <2>2. /\ stager[p].at = "clear" /\ staged' = NoCommit
          /\ UNCHANGED <<head, moved, lockedBy>>
      BY <1>8 DEF ClearStagedCheckout
    <2>3. QED
      BY <1>1, <1>2, <1>3, <1>4, <2>1, <2>2, HolderSteps
         DEF Goes, Working, StagedIsCheckedOut
  <1>9. CASE Fetch(p)
    <2>1. StagerIs(p, "switch", stager[p].original, origin, stager[p].alone)
      BY <1>1, <1>9, StagerFields
    <2>2. stager[p].at = "fetch" /\ UNCHANGED <<head, staged, moved, lockedBy>>
      BY <1>9 DEF Fetch
    <2>3. QED
      BY <1>1, <1>2, <1>3, <1>4, <2>1, <2>2, HolderSteps DEF Working, StagedIsCheckedOut
  <1>10. CASE Switch(p)
    <2>1. stager[p].at = "switch" /\ UNCHANGED <<staged, moved>>
      BY <1>10 DEF Switch
    <2>2. CASE IsExpected(p)
      <3>1. Goes(p, "load") /\ lockedBy' = lockedBy
        BY <1>1, <1>10, <2>2, StagerFields DEF Switch
      <3>2. QED
        BY <1>1, <1>2, <1>3, <1>4, <2>1, <3>1, HolderSteps
           DEF Goes, Working, StagedIsCheckedOut
    <2>3. CASE ~IsExpected(p)
      <3>1. Goes(p, "failed")
        BY <1>1, <1>10, <2>3, StagerFields
      <3>2. QED
        BY <1>1, <1>2, <1>3, <1>4, <2>1, <3>1, HolderSteps
           DEF Goes, Working, StagedIsCheckedOut
    <2>4. QED
      BY <2>2, <2>3
  <1>11. CASE Load(p)
    <2>1. stager[p].at = "load" /\ UNCHANGED <<head, staged, lockedBy>>
      BY <1>11 DEF Load
    <2>2. \/ Goes(p, "undo")
          \/ Goes(p, "record") /\ head = stager[p].fetched
      BY <1>1, <1>11, StagerFields
    <2>3. QED
      BY <1>1, <1>2, <1>3, <1>4, <2>1, <2>2, HolderSteps
         DEF Goes, Working, StagedIsCheckedOut
  <1>12. CASE RecordStagedCheckout(p)
    <2>1. Goes(p, "staged")
      BY <1>1, <1>12, StagerFields
    <2>2. stager[p].at = "record" /\ staged' = stager[p].fetched /\ UNCHANGED <<head, moved>>
      BY <1>12 DEF RecordStagedCheckout
    <2>3. QED
      BY <1>1, <1>2, <1>3, <1>4, <2>1, <2>2, HolderSteps
         DEF Goes, Working, StagedIsCheckedOut
  <1>13. CASE Restore(p)
    <2>1. Goes(p, "failed")
      BY <1>1, <1>13, StagerFields
    <2>2. stager[p].at = "undo" /\ UNCHANGED <<staged, moved>>
      BY <1>13 DEF Restore
    <2>3. QED
      BY <1>1, <1>2, <1>3, <1>4, <2>1, <2>2, HolderSteps
         DEF Goes, Working, StagedIsCheckedOut
  <1>14. CASE StageFails(p)
    <2>1. UNCHANGED <<head, staged, moved>>
      BY <1>14 DEF StageFails
    <2>2. CASE stager[p].at \in {"load", "record"}
      <3>1. Goes(p, "undo") /\ lockedBy' = lockedBy
        BY <1>1, <1>14, <2>2, StagerFields DEF StageFails
      <3>2. QED
        BY <1>1, <1>2, <1>3, <1>4, <2>1, <2>2, <3>1, HolderSteps
           DEF Goes, Working, StagedIsCheckedOut
    <2>3. CASE stager[p].at \notin {"load", "record"}
      <3>1. Goes(p, "failed") /\ stager[p].at \in Working \cup {"count"}
        BY <1>1, <1>14, <2>3, StagerFields DEF StageFails, Working
      <3>2. QED
        BY <1>1, <1>2, <1>3, <1>4, <2>1, <3>1, HolderSteps
           DEF Goes, Working, StagedIsCheckedOut
    <2>4. QED
      BY <2>2, <2>3
  <1>15. CASE RestoreFails(p)
    <2>1. StagerIs(p, "failed", stager[p].original, stager[p].fetched, FALSE)
      BY <1>1, <1>15, StagerFields
    <2>2. stager[p].at \in {"switch", "undo"} /\ UNCHANGED <<staged, moved>>
      BY <1>15 DEF RestoreFails
    <2>3. QED
      BY <1>1, <1>2, <1>3, <1>4, <2>1, <2>2, HolderSteps DEF Working, StagedIsCheckedOut
  <1>16. CASE StagerDies(p)
    <2>1. StagerIs(p, "failed", stager[p].original, stager[p].fetched, FALSE)
      BY <1>1, <1>16, StagerFields
    <2>2. UNCHANGED <<head, staged, moved>> /\ (lockedBy' = lockedBy \/ lockedBy = p)
      BY <1>16 DEF StagerDies, Unlock
    <2>3. CASE stager[p].at \in Working \cup {"count"}
      BY <1>1, <1>2, <1>3, <1>4, <2>1, <2>2, <2>3, HolderSteps DEF Working, StagedIsCheckedOut
    <2>4. CASE stager[p].at \notin Working \cup {"count"}
      BY <1>1, <1>2, <2>1, <2>2, <2>4, IdleSteps DEF Working
    <2>5. QED
      BY <2>3, <2>4
  <1>17. QED
    BY <1>5, <1>6, <1>7, <1>8, <1>9, <1>10, <1>11, <1>12, <1>13, <1>14, <1>15, <1>16
       DEF StagerStep

\* The steps of a submission keep it: a job is inserted under the lock only.
LEMMA SubmitterCheckout ==
    ASSUME CheckoutInv, NEW u \in Submitters, SubmitterStep(u)
    PROVE  CheckoutInv'
  <1>1. Types' /\ TypeOK
    BY SubmitterTypes DEF CheckoutInv, Types
  <1>2. UNCHANGED <<checkoutVars, stager>>
    BY DEF SubmitterStep, OpenToSubmit, ReadHead, HeadUnread, MatchStaged, LockToSubmit,
       Insert, SubmitFails
  <1>3. Cleared' /\ AtOriginal' /\ Verified' /\ StagedIsCheckedOut'
    BY <1>2 DEF CheckoutInv, Cleared, AtOriginal, Verified, StagedIsCheckedOut
  <1>4. CASE LockToSubmit(u)
    <2>1. lockedBy = Nobody /\ lockedBy' = u /\ job' = job /\ SubmitGoes(u, "insert")
      BY <1>1, <1>4, SubmitFields DEF LockToSubmit, Free
    <2>2. Locked'
      BY <1>2, <2>1, HostAssumption DEF CheckoutInv, Locked, SubmitGoes, SubmitIs
    <2>3. NoneActive'
      BY <1>2, <2>1 DEF CheckoutInv, NoneActive, Active
    <2>4. QED
      BY <1>1, <1>3, <2>2, <2>3 DEF CheckoutInv
  <1>5. CASE Insert(u)
    <2>1. /\ submit[u].at = "insert" /\ lockedBy = u /\ lockedBy' = Nobody
          /\ SubmitGoes(u, "over")
      BY <1>1, <1>5, SubmitFields DEF Insert, Unlock, CheckoutInv, Locked
    <2>2. \A p \in Stagers : stager'[p].at \notin Working \cup {"count"}
      BY <1>2, <2>1, HostAssumption DEF CheckoutInv, Locked
    <2>3. \A v \in Submitters : submit'[v].at # "insert"
      BY <2>1 DEF CheckoutInv, Locked, SubmitGoes, SubmitIs
    <2>4. Locked' /\ NoneActive'
      BY <2>2, <2>3 DEF Locked, NoneActive
    <2>5. QED
      BY <1>1, <1>3, <2>4 DEF CheckoutInv
  <1>6. CASE OpenToSubmit(u) \/ ReadHead(u) \/ MatchStaged(u) \/ HeadUnread(u) \/ SubmitFails(u)
    <2>1. job' = job /\ (lockedBy' = lockedBy \/ (lockedBy = u /\ SubmitGoes(u, "over")))
      BY <1>1, <1>6, SubmitFields
         DEF OpenToSubmit, ReadHead, MatchStaged, HeadUnread, SubmitFails, Unlock
    <2>2. \E x \in SubmitPlaces \ {"insert"} :
            /\ submit'[u].at = x
            /\ \A v \in Submitters : v # u => submit'[v] = submit[v]
      BY <1>1, <1>6, SubmitFields DEF SubmitGoes, SubmitIs, SubmitPlaces
    <2>3. Locked'
      BY <1>2, <2>1, <2>2, HostAssumption DEF CheckoutInv, Locked
    <2>4. NoneActive'
      BY <1>2, <2>1 DEF CheckoutInv, NoneActive, Active
    <2>5. QED
      BY <1>1, <1>3, <2>3, <2>4 DEF CheckoutInv
  <1>7. QED
    BY <1>4, <1>5, <1>6 DEF SubmitterStep

\* A move by hand is one nobody answers for.
LEMMA HandCheckout ==
    ASSUME CheckoutInv, CheckoutStep
    PROVE  CheckoutInv'
  <1>1. Types' /\ TypeOK
    BY CheckoutTypes DEF CheckoutInv, Types
  <1>2. ASSUME NEW c \in Commits, MoveByHand(c) PROVE CheckoutInv'
    <2>1. StagersDisturbed /\ SubmitsDisturbed
      BY <1>1, <1>2, HandDisturbs, Disturbs DEF MoveByHand
    <2>2. UNCHANGED <<staged, lockedBy, job>> /\ moved'
      BY <1>2 DEF MoveByHand
    <2>3. Locked'
      BY <2>1, <2>2 DEF CheckoutInv, Locked, StagersDisturbed, SubmitsDisturbed
    <2>4. NoneActive' /\ Cleared'
      BY <2>1, <2>2 DEF CheckoutInv, NoneActive, Cleared, Active, StagersDisturbed
    <2>5. AtOriginal' /\ Verified' /\ StagedIsCheckedOut'
      BY <2>1, <2>2 DEF AtOriginal, Verified, StagedIsCheckedOut, StagersDisturbed
    <2>6. QED
      BY <1>1, <2>3, <2>4, <2>5 DEF CheckoutInv
  <1>3. ASSUME NEW c \in Commits, Push(c) PROVE CheckoutInv'
    BY <1>1, <1>3 DEF Push, CheckoutInv, Locked, NoneActive, Cleared, AtOriginal, Verified,
       StagedIsCheckedOut, Active
  <1>4. QED
    BY <1>2, <1>3 DEF CheckoutStep

\* serve makes no job active, and frees a lock of its own at most.
LEMMA ServiceCheckout ==
    ASSUME CheckoutInv, ServiceStep
    PROVE  CheckoutInv'
  <1>1. Types' /\ TypeOK
    BY ServiceTypes DEF CheckoutInv, Types
  <1>2. UNCHANGED <<checkoutVars, stager>>
    BY DEF ServiceStep, Launch, Exit, ServeDies, Claim, JobEnds
  <1>3. Cleared' /\ AtOriginal' /\ Verified' /\ StagedIsCheckedOut'
    BY <1>2 DEF CheckoutInv, Cleared, AtOriginal, Verified, StagedIsCheckedOut
  <1>4. Active' \subseteq Active
    <2>1. CASE Launch
      BY <1>1, <2>1, LaunchRecovers DEF JobsRecovered, Active
    <2>2. CASE Exit \/ ServeDies
      BY <2>2 DEF Exit, ServeDies, Active
    <2>3. ASSUME NEW u \in Submitters, Claim(u) PROVE Active' \subseteq Active
      BY <1>1, <2>3, JobGoes DEF Claim, JobIs, Active, JobStates
    <2>4. ASSUME NEW u \in Submitters, JobEnds(u) PROVE Active' \subseteq Active
      BY <1>1, <2>4, JobGoes DEF JobEnds, JobIs, Active, JobStates
    <2>5. QED
      BY <2>1, <2>2, <2>3, <2>4 DEF ServiceStep
  <1>5. NoneActive'
    BY <1>2, <1>4 DEF CheckoutInv, NoneActive
  <1>6. Locked'
    <2>1. CASE Exit
      <3>1. SubmitsHungUp /\ lockedBy' = lockedBy
        BY <1>1, <2>1, HangsUp DEF Exit
      <3>2. QED
        BY <1>2, <3>1 DEF CheckoutInv, Locked, SubmitsHungUp
    <2>2. CASE ServeDies
      <3>1. /\ SubmitsHungUp
            /\ lockedBy' = IF lockedBy \in InServe THEN Nobody ELSE lockedBy
        BY <1>1, <2>2, HangsUp DEF ServeDies
      <3>2. \A u \in Submitters : submit'[u].at = "insert" =>
              submit[u].at = "insert" /\ u \notin InServe
        BY <3>1 DEF SubmitsHungUp, Midway
      <3>3. QED
        BY <1>2, <3>1, <3>2, HostAssumption DEF CheckoutInv, Locked
    <2>3. CASE Launch \/ \E u \in Submitters : Claim(u) \/ JobEnds(u)
      BY <1>2, <2>3 DEF Launch, Claim, JobEnds, CheckoutInv, Locked
    <2>4. QED
      BY <2>1, <2>2, <2>3 DEF ServiceStep
  <1>7. QED
    BY <1>1, <1>3, <1>5, <1>6 DEF CheckoutInv

\* Operators of the service touch neither the checkout nor the jobs.
LEMMA OperatorUnchanged ==
    ASSUME NEW c \in Operators, OperatorStep(c)
    PROVE  UNCHANGED <<checkoutVars, lockedBy, stager, submit, job>>
  BY DEF OperatorStep, Begin, Status, CheckJobs, WritePlist, Bootout, Bootstrap,
     Kickstart, RemovePlist, OperatorFails, Looks

\* Every step keeps the invariant of the checkout.
LEMMA CheckoutKept ==
    ASSUME CheckoutInv, [Next]_vars
    PROVE  CheckoutInv'
  <1> USE DEF CheckoutInv, Locked, NoneActive, Cleared, AtOriginal, Verified,
          StagedIsCheckedOut, Active
  <1>1. CASE UNCHANGED vars
    BY <1>1 DEF Types, TypeOK, Known
  <1>2. ASSUME NEW c \in Operators, OperatorStep(c) PROVE CheckoutInv'
    <2>1. Types'
      BY <1>2, OperatorTypes
    <2>2. QED
      BY <1>2, <2>1, OperatorUnchanged
  <1> HIDE DEF CheckoutInv
  <1>3. QED
    BY <1>1, <1>2, StagerCheckout, SubmitterCheckout, HandCheckout, ServiceCheckout DEF Next

\* While nobody has staged or submitted, the invariant holds.
LEMMA CheckoutInit == Init => CheckoutInv
  <1> SUFFICES ASSUME Init PROVE CheckoutInv
    OBVIOUS
  <1>1. Types
    BY TypesInit
  <1>2. /\ \A p \in Stagers : stager[p].at = "new"
        /\ \A u \in Submitters : submit[u].at = "new"
        /\ staged \in {NoCommit, head}
    BY DEF Init
  <1>3. QED
    BY <1>1, <1>2 DEF CheckoutInv, Locked, NoneActive, Cleared, AtOriginal, Verified,
       StagedIsCheckedOut, Working

\* The row of the last staging names the commit of the checkout, through every
\* failure and kill, unless someone moved the checkout by hand.
THEOREM StagedKept == Spec => []StagedIsCheckedOut
  <1>1. CheckoutInv => StagedIsCheckedOut
    BY DEF CheckoutInv
  <1>2. QED
    BY CheckoutInit, CheckoutKept, <1>1, PTL DEF Spec

-----------------------------------------------------------------------------
\* A submission inserts its job once, at its end.
Fresh ==
    \A u \in Submitters :
        /\ job[u].state # "absent" => submit[u].at = "over"
        /\ submit[u].at \in {"new", "head"} => submit[u].ref = NoCommit

\* What a client read still is so, unless someone came between.
Current(u) ==
    /\ submit[u].at \in {"head", "match", "wait", "insert"} => submit[u].config = head
    /\ submit[u].at = "match" => submit[u].ref = head
    /\ submit[u].at \in {"wait", "insert"} /\ submit[u].ref # NoCommit
       => staged \in {NoCommit, submit[u].ref}
Steady == \A u \in Submitters \ InServe : submit[u].steady => Current(u)

\* The inductive invariant of the submissions.
SubmitInv == CheckoutInv /\ Fresh /\ Steady

\* The steps of a submission keep the invariant.
LEMMA SubmitterSubmit ==
    ASSUME SubmitInv, NEW u \in Submitters, SubmitterStep(u)
    PROVE  Fresh' /\ Steady'
  <1>1. TypeOK
    BY DEF SubmitInv, CheckoutInv, Types
  <1>2. UNCHANGED <<head, staged>>
    BY DEF SubmitterStep, OpenToSubmit, ReadHead, HeadUnread, MatchStaged, LockToSubmit,
       Insert, SubmitFails
  <1>3. CASE OpenToSubmit(u)
    <2>1. /\ SubmitIs(u, "head", IF u \in InServe THEN serveConfig ELSE head,
                      submit[u].ref, TRUE)
          /\ submit[u].at = "new" /\ job' = job
      BY <1>1, <1>3, SubmitFields DEF OpenToSubmit
    <2>2. QED
      BY <1>2, <2>1 DEF SubmitInv, Fresh, Steady, Current, SubmitIs
  <1>4. CASE ReadHead(u)
    <2>1. /\ SubmitIs(u, "match", submit[u].config, head, submit[u].steady)
          /\ submit[u].at = "head" /\ job' = job
      BY <1>1, <1>4, SubmitFields DEF ReadHead
    <2>2. QED
      BY <1>2, <2>1 DEF SubmitInv, Fresh, Steady, Current, SubmitIs
  <1>5. CASE MatchStaged(u)
    <2>1. submit[u].at = "match" /\ job' = job
      BY <1>5 DEF MatchStaged
    <2>2. CASE SubmitGoes(u, "over")
      BY <1>2, <2>1, <2>2 DEF SubmitInv, Fresh, Steady, Current, SubmitGoes, SubmitIs
    <2>3. ASSUME NEW ref, staged \in {NoCommit, ref},
                 SubmitIs(u, "wait", submit[u].config, ref, submit[u].steady)
          PROVE  Fresh' /\ Steady'
      BY <1>2, <2>1, <2>3 DEF SubmitInv, Fresh, Steady, Current, SubmitIs
    <2>4. \/ SubmitGoes(u, "over")
          \/ \E ref \in Commits \cup {submit[u].ref} :
                /\ staged \in {NoCommit, ref}
                /\ SubmitIs(u, "wait", submit[u].config, ref, submit[u].steady)
      BY <1>1, <1>5, SubmitFields
    <2>5. QED
      BY <2>2, <2>3, <2>4
  <1>6. CASE LockToSubmit(u)
    <2>1. SubmitGoes(u, "insert") /\ submit[u].at = "wait" /\ job' = job
      BY <1>1, <1>6, SubmitFields DEF LockToSubmit
    <2>2. QED
      BY <1>2, <2>1 DEF SubmitInv, Fresh, Steady, Current, SubmitGoes, SubmitIs
  <1>7. CASE Insert(u)
    <2>1. SubmitGoes(u, "over")
      BY <1>1, <1>7, SubmitFields
    <2>2. \A v \in Submitters : v # u => job'[v] = job[v]
      BY <1>1, <1>7, Inserts
    <2>3. QED
      BY <1>2, <2>1, <2>2 DEF SubmitInv, Fresh, Steady, Current, SubmitGoes, SubmitIs
  <1>8. CASE HeadUnread(u)
    <2>1. SubmitGoes(u, "wait") /\ submit[u].at = "head" /\ job' = job
      BY <1>1, <1>8, SubmitFields DEF HeadUnread
    <2>2. QED
      BY <1>2, <2>1 DEF SubmitInv, Fresh, Steady, Current, SubmitGoes, SubmitIs
  <1>9. CASE SubmitFails(u)
    <2>1. SubmitGoes(u, "over") /\ job' = job
      BY <1>1, <1>9, SubmitFields DEF SubmitFails
    <2>2. QED
      BY <1>2, <2>1 DEF SubmitInv, Fresh, Steady, Current, SubmitGoes, SubmitIs
  <1>10. QED
    BY <1>3, <1>4, <1>5, <1>6, <1>7, <1>8, <1>9 DEF SubmitterStep

\* What the others do keeps it, too: move the checkout or write the row, ...
LEMMA DisturbedSubmit ==
    ASSUME SubmitInv, SubmitsDisturbed, job' = job
    PROVE  Fresh' /\ Steady'
  BY DEF SubmitInv, Fresh, Steady, SubmitsDisturbed

\* ... run the jobs that are there, ...
LEMMA ServedSubmit ==
    ASSUME SubmitInv, UNCHANGED <<head, staged, submit>>,
           \A u \in Submitters : job'[u].state # "absent" => job[u].state # "absent"
    PROVE  Fresh' /\ Steady'
  BY DEF SubmitInv, Fresh, Steady, Current

\* ... or end.
LEMMA HungUpSubmit ==
    ASSUME SubmitInv, UNCHANGED <<head, staged, job>>, SubmitsHungUp
    PROVE  Fresh' /\ Steady'
  BY DEF SubmitInv, Fresh, Steady, Current, SubmitsHungUp

\* Every step keeps the invariant of the submissions.
LEMMA SubmitKept ==
    ASSUME SubmitInv, [Next]_vars
    PROVE  SubmitInv'
  <1>1. CheckoutInv' /\ TypeOK
    BY CheckoutKept DEF SubmitInv, CheckoutInv, Types
  <1>2. CASE UNCHANGED vars
    <2>1. Fresh' /\ Steady'
      BY <1>2, ServedSubmit
    <2>2. QED
      BY <1>1, <2>1 DEF SubmitInv
  <1>3. ASSUME NEW p \in Stagers, StagerStep(p) PROVE Fresh' /\ Steady'
    <2>1. SubmitsDisturbed \/ UNCHANGED <<head, staged, submit>>
      BY <1>1, <1>3, Disturbs
         DEF StagerStep, Ask, LockToStage, NoActiveJobs, ClearStagedCheckout, Fetch, Switch,
             Load, RecordStagedCheckout, Restore, StageFails, RestoreFails, StagerDies
    <2>2. job' = job
      BY <1>3
         DEF StagerStep, Ask, LockToStage, NoActiveJobs, ClearStagedCheckout, Fetch, Switch,
             Load, RecordStagedCheckout, Restore, StageFails, RestoreFails, StagerDies
    <2>3. QED
      BY <2>1, <2>2, DisturbedSubmit, ServedSubmit
  <1>4. ASSUME CheckoutStep PROVE Fresh' /\ Steady'
    <2>1. job' = job /\ (SubmitsDisturbed \/ UNCHANGED <<head, staged, submit>>)
      BY <1>1, <1>4, Disturbs DEF CheckoutStep, MoveByHand, Push
    <2>2. QED
      BY <2>1, DisturbedSubmit, ServedSubmit
  <1>5. ASSUME ServiceStep PROVE Fresh' /\ Steady'
    <2>1. UNCHANGED <<head, staged>>
      BY <1>5 DEF ServiceStep, Launch, Exit, ServeDies, Claim, JobEnds
    <2>2. CASE Launch
      <3>1. JobsRecovered /\ submit' = submit
        BY <1>1, <2>2, LaunchRecovers DEF Launch
      <3>2. QED
        BY <2>1, <3>1, ServedSubmit DEF JobsRecovered
    <2>3. CASE Exit \/ ServeDies
      <3>1. SubmitsHungUp /\ job' = job
        BY <1>1, <2>3, HangsUp DEF Exit, ServeDies
      <3>2. QED
        BY <2>1, <3>1, HungUpSubmit
    <2>4. ASSUME NEW u \in Submitters, Claim(u) \/ JobEnds(u) PROVE Fresh' /\ Steady'
      <3>1. /\ submit' = submit /\ job[u].state \in {"queued", "running"}
            /\ JobIs(u, "running") \/ JobIs(u, "over")
        BY <1>1, <2>4, JobGoes DEF Claim, JobEnds, JobStates
      <3>2. QED
        BY <2>1, <3>1, ServedSubmit DEF JobIs
    <2>5. QED
      BY <1>5, <2>2, <2>3, <2>4 DEF ServiceStep
  <1>6. ASSUME NEW c \in Operators, OperatorStep(c) PROVE Fresh' /\ Steady'
    BY <1>6, OperatorUnchanged, ServedSubmit
  <1>7. QED
    BY <1>1, <1>2, <1>3, <1>4, <1>5, <1>6, SubmitterSubmit DEF Next, SubmitInv

\* The first state, with no job and nothing read.
LEMMA SubmitInit == Init => SubmitInv
  <1> SUFFICES ASSUME Init PROVE SubmitInv
    OBVIOUS
  <1>1. \A u \in Submitters :
          submit[u].at = "new" /\ submit[u].ref = NoCommit /\ job[u].state = "absent"
    BY DEF Init
  <1>2. Fresh /\ Steady
    BY <1>1 DEF Fresh, Steady, Current
  <1>3. QED
    BY <1>2, CheckoutInit DEF SubmitInv

-----------------------------------------------------------------------------
\* The lifecycle lock.
OneAtATime ==
    \A c, d \in Operators : operator[c].at # "idle" /\ operator[d].at # "idle" => c = d

\* Where a command has come to, the plist is there or the service is not.
Files ==
    /\ LoadedHasPlist
    /\ \A c \in Operators :
          /\ operator[c].at \in {"bootstrap", "kickstart"} => plist
          /\ operator[c].at = "bootout" /\ operator[c].command = "install" => plist
          /\ operator[c].at = "remove" => ~loaded
          /\ operator[c].at = "status" => operator[c].command = "start"

\* The jobs that a check saw are over.
Spared ==
    \A c \in Operators :
        operator[c].at \in {"plist", "bootout"} /\ operator[c].command \in {"stop", "install"}
        => \A u \in operator[c].known : u \in Submitters => job[u].state = "over"

\* The inductive invariant of the whole host.
HostInv == SubmitInv /\ OneAtATime /\ Files /\ Spared

\* All but the operators leave the service's files alone.
LEMMA FilesUnchanged ==
    ASSUME [Next]_vars, \A c \in Operators : ~OperatorStep(c)
    PROVE  UNCHANGED <<plist, loaded, operator>>
  <1>1. CASE UNCHANGED vars
    BY <1>1
  <1>2. ASSUME NEW p \in Stagers, StagerStep(p) PROVE UNCHANGED serviceVars
    BY <1>2
       DEF StagerStep, Ask, LockToStage, NoActiveJobs, ClearStagedCheckout, Fetch, Switch,
           Load, RecordStagedCheckout, Restore, StageFails, RestoreFails, StagerDies
  <1>3. ASSUME NEW u \in Submitters, SubmitterStep(u) PROVE UNCHANGED serviceVars
    BY <1>3 DEF SubmitterStep, OpenToSubmit, ReadHead, HeadUnread, MatchStaged,
       LockToSubmit, Insert, SubmitFails
  <1>4. ASSUME CheckoutStep PROVE UNCHANGED serviceVars
    BY <1>4 DEF CheckoutStep, MoveByHand, Push
  <1>5. ASSUME ServiceStep PROVE UNCHANGED <<plist, loaded, operator>>
    BY <1>5 DEF ServiceStep, Launch, Exit, ServeDies, Claim, JobEnds
  <1>6. QED
    BY <1>1, <1>2, <1>3, <1>4, <1>5 DEF Next

\* A job that is over stays over: a submission inserts one only.
LEMMA OverStaysOver ==
    ASSUME SubmitInv, [Next]_vars, NEW v \in Submitters, job[v].state = "over"
    PROVE  job'[v].state = "over"
  <1>1. TypeOK
    BY DEF SubmitInv, CheckoutInv, Types
  <1>2. CASE UNCHANGED vars
    BY <1>2
  <1>3. ASSUME NEW p \in Stagers, StagerStep(p) PROVE job' = job
    BY <1>3
       DEF StagerStep, Ask, LockToStage, NoActiveJobs, ClearStagedCheckout, Fetch, Switch,
           Load, RecordStagedCheckout, Restore, StageFails, RestoreFails, StagerDies
  <1>4. ASSUME NEW u \in Submitters, SubmitterStep(u) PROVE job'[v].state = "over"
    <2>1. CASE Insert(u)
      <3>1. submit[u].at = "insert"
        BY <2>1 DEF Insert
      <3>2. u # v
        BY <3>1 DEF SubmitInv, Fresh
      <3>3. QED
        BY <1>1, <2>1, <3>2, Inserts
    <2>2. CASE ~Insert(u)
      BY <1>4, <2>2 DEF SubmitterStep, OpenToSubmit, ReadHead, HeadUnread, MatchStaged,
         LockToSubmit, SubmitFails
    <2>3. QED
      BY <2>1, <2>2
  <1>5. ASSUME CheckoutStep PROVE job' = job
    BY <1>5 DEF CheckoutStep, MoveByHand, Push
  <1>6. ASSUME ServiceStep PROVE job'[v].state = "over"
    <2>1. CASE Launch
      BY <1>1, <2>1, LaunchRecovers DEF JobsRecovered
    <2>2. CASE Exit \/ ServeDies
      BY <2>2 DEF Exit, ServeDies
    <2>3. ASSUME NEW u \in Submitters, Claim(u) \/ JobEnds(u) PROVE job'[v].state = "over"
      <3>1. /\ job[u].state \in {"queued", "running"}
            /\ JobIs(u, "running") \/ JobIs(u, "over")
        BY <1>1, <2>3, JobGoes DEF Claim, JobEnds, JobStates
      <3>2. QED
        BY <3>1 DEF JobIs
    <2>4. QED
      BY <1>6, <2>1, <2>2, <2>3 DEF ServiceStep
  <1>7. ASSUME NEW c \in Operators, OperatorStep(c) PROVE job' = job
    BY <1>7, OperatorUnchanged
  <1>8. QED
    BY <1>2, <1>3, <1>4, <1>5, <1>6, <1>7 DEF Next

\* The steps of an operator: nobody else has a command under way.
LEMMA OperatorFiles ==
    ASSUME HostInv, NEW c \in Operators, OperatorStep(c)
    PROVE  OneAtATime' /\ Files'
  <1>1. TypeOK
    BY DEF HostInv, SubmitInv, CheckoutInv, Types
  <1> USE DEF HostInv, OneAtATime, Files, LoadedHasPlist, OperatorIs, OperatorGoesTo
  <1>2. ASSUME NEW command \in Commands, Begin(c, command)
        PROVE  OneAtATime' /\ Files'
    <2>1. OperatorIs(c, FirstPlace(command), command, operator[c].known)
      BY <1>1, <1>2, OperatorBegins
    <2>2. /\ \A d \in Operators : operator[d].at = "idle"
          /\ UNCHANGED <<plist, loaded>>
      BY <1>2 DEF Begin, LifecycleFree
    <2>3. /\ FirstPlace(command) \in {"status", "bootout", "check"}
          /\ FirstPlace(command) = "bootout" => command = "uninstall"
          /\ FirstPlace(command) = "status" => command = "start"
      BY DEF FirstPlace, Commands
    <2>4. QED
      BY <2>1, <2>2, <2>3
  <1>3. CASE OperatorFails(c)
    <2>1. /\ operator[c].at # "idle" /\ UNCHANGED <<plist, loaded>>
          /\ OperatorIs(c, "idle", "start", {})
             \/ (operator[c].at = "bootout" /\ operator[c].command = "install"
                 /\ OperatorGoesTo(c, "bootstrap"))
      BY <1>1, <1>3, OperatorFields DEF OperatorFails
    <2>2. QED
      BY <2>1
  <1>4. CASE Status(c)
    <2>1. /\ operator[c].at = "status" /\ UNCHANGED <<plist, loaded>>
          /\ OperatorIs(c, "idle", "start", {}) \/ OperatorGoesTo(c, "plist")
      BY <1>1, <1>4, OperatorFields DEF Status, Looks
    <2>2. QED
      BY <2>1
  <1>5. CASE CheckJobs(c)
    <2>1. /\ operator[c].at = "check" /\ UNCHANGED <<plist, loaded>>
          /\ \/ OperatorIs(c, "idle", "start", {})
             \/ OperatorIs(c, IF operator[c].command = "install" THEN "plist" ELSE "bootout",
                  operator[c].command, {u \in Submitters : job[u].state # "absent"})
      BY <1>1, <1>5, OperatorFields DEF CheckJobs, Looks
    <2>2. QED
      BY <2>1
  <1>6. CASE WritePlist(c)
    <2>1. /\ operator[c].at = "plist" /\ plist' /\ loaded' = loaded
          /\ \/ OperatorIs(c, "idle", "start", {})
             \/ OperatorGoesTo(c, "bootout")
             \/ OperatorGoesTo(c, "bootstrap")
      BY <1>1, <1>6, OperatorFields DEF WritePlist
    <2>2. QED
      BY <2>1
  <1>7. CASE Bootout(c)
    <2>1. /\ operator[c].at = "bootout" /\ ~loaded' /\ plist' = plist
          /\ OperatorGoesTo(c, IF operator[c].command = "install" THEN "bootstrap" ELSE "remove")
      BY <1>1, <1>7, OperatorFields DEF Bootout
    <2>2. QED
      BY <2>1
  <1>8. CASE Bootstrap(c)
    <2>1. /\ operator[c].at = "bootstrap" /\ plist' = plist
          /\ OperatorIs(c, "idle", "start", {}) \/ OperatorGoesTo(c, "kickstart")
      BY <1>1, <1>8, OperatorFields DEF Bootstrap
    <2>2. QED
      BY <2>1
  <1>9. CASE Kickstart(c)
    <2>1. /\ operator[c].at = "kickstart" /\ UNCHANGED <<plist, loaded>>
          /\ OperatorIs(c, "idle", "start", {})
      BY <1>1, <1>9, OperatorFields DEF Kickstart
    <2>2. QED
      BY <2>1
  <1>10. CASE RemovePlist(c)
    <2>1. /\ operator[c].at = "remove" /\ loaded' = loaded
          /\ OperatorIs(c, "idle", "start", {})
      BY <1>1, <1>10, OperatorFields DEF RemovePlist
    <2>2. QED
      BY <2>1
  <1>11. QED
    BY <1>2, <1>3, <1>4, <1>5, <1>6, <1>7, <1>8, <1>9, <1>10 DEF OperatorStep

\* What a check saw is over; the jobs submitted since are not known.
LEMMA OperatorSpares ==
    ASSUME HostInv, NEW c \in Operators, OperatorStep(c)
    PROVE  Spared'
  <1>1. TypeOK /\ job' = job
    BY OperatorUnchanged DEF HostInv, SubmitInv, CheckoutInv, Types
  <1> USE DEF HostInv, Spared, OperatorIs, OperatorGoesTo
  <1>2. ASSUME NEW command \in Commands, Begin(c, command) PROVE Spared'
    <2>1. OperatorIs(c, FirstPlace(command), command, operator[c].known)
      BY <1>1, <1>2, OperatorBegins
    <2>2. /\ FirstPlace(command) \in {"status", "bootout", "check"}
          /\ FirstPlace(command) = "bootout" => command = "uninstall"
      BY DEF FirstPlace, Commands
    <2>3. QED
      BY <1>1, <2>1, <2>2
  <1>3. CASE CheckJobs(c)
    <2>1. \/ OperatorIs(c, "idle", "start", {})
          \/ /\ Active = {}
             /\ OperatorIs(c, IF operator[c].command = "install" THEN "plist" ELSE "bootout",
                  operator[c].command, {u \in Submitters : job[u].state # "absent"})
      BY <1>1, <1>3, OperatorFields
    <2>2. Active = {} => \A u \in Submitters : job[u].state \in {"absent", "over"}
      BY <1>1 DEF Active, TypeOK, Job, JobStates
    <2>3. QED
      BY <1>1, <2>1, <2>2
  <1>4. CASE WritePlist(c)
    <2>1. \/ OperatorIs(c, "idle", "start", {})
          \/ OperatorGoesTo(c, "bootout")
          \/ OperatorGoesTo(c, "bootstrap")
      BY <1>1, <1>4, OperatorFields
    <2>2. operator[c].at = "plist"
      BY <1>4 DEF WritePlist
    <2>3. QED
      BY <1>1, <2>1, <2>2
  <1>5. CASE Status(c)
    <2>1. \/ OperatorIs(c, "idle", "start", {})
          \/ OperatorGoesTo(c, "plist")
      BY <1>1, <1>5, OperatorFields
    <2>2. operator[c].command = "start"
      BY <1>5 DEF Status, Files
    <2>3. QED
      BY <1>1, <2>1, <2>2
  <1>6. CASE Bootout(c) \/ Bootstrap(c) \/ Kickstart(c) \/ RemovePlist(c) \/ OperatorFails(c)
    <2>1. \/ OperatorIs(c, "idle", "start", {})
          \/ OperatorGoesTo(c, "bootstrap")
          \/ OperatorGoesTo(c, "kickstart")
          \/ OperatorGoesTo(c, "remove")
      BY <1>1, <1>6, OperatorFields DEF Kickstart, RemovePlist
    <2>2. QED
      BY <1>1, <2>1
  <1>7. QED
    BY <1>2, <1>3, <1>4, <1>5, <1>6 DEF OperatorStep

\* Every step keeps the invariant of the host, ...
LEMMA HostKept ==
    ASSUME HostInv, [Next]_vars
    PROVE  HostInv'
  <1>1. SubmitInv'
    BY SubmitKept DEF HostInv
  <1>2. CASE \E c \in Operators : OperatorStep(c)
    BY <1>1, <1>2, OperatorFiles, OperatorSpares DEF HostInv
  <1>3. CASE \A c \in Operators : ~OperatorStep(c)
    <2>1. UNCHANGED <<plist, loaded, operator>>
      BY <1>3, FilesUnchanged
    <2>2. \A u \in Submitters : job[u].state = "over" => job'[u].state = "over"
      BY OverStaysOver DEF HostInv
    <2>3. OneAtATime' /\ Files'
      BY <2>1 DEF HostInv, OneAtATime, Files, LoadedHasPlist
    <2>4. Spared'
      BY <2>1, <2>2 DEF HostInv, Spared
    <2>5. QED
      BY <1>1, <2>3, <2>4 DEF HostInv
  <1>4. QED
    BY <1>2, <1>3

\* ... which holds before the first.
LEMMA HostInit == Init => HostInv
  <1> SUFFICES ASSUME Init PROVE HostInv
    OBVIOUS
  <1>1. \A c \in Operators : operator[c].at = "idle"
    BY DEF Init, Idle
  <1>2. loaded = plist
    BY DEF Init
  <1>3. QED
    BY <1>1, <1>2, SubmitInit DEF HostInv, OneAtATime, Files, LoadedHasPlist, Spared

\* The invariant of the host holds throughout.
THEOREM HostKeeps == Spec => []HostInv
  <1>1. HostInv /\ [Next]_vars => HostInv'
    BY HostKept
  <1>2. QED
    BY HostInit, <1>1, PTL DEF Spec

-----------------------------------------------------------------------------
\* launchd never has a service whose plist is gone.
THEOREM PlistKept == Spec => []LoadedHasPlist
  <1>1. HostInv => LoadedHasPlist
    BY DEF HostInv, Files
  <1>2. QED
    BY <1>1, HostKeeps, PTL

\* No staging moves the checkout while a job is queued or running.
THEOREM CheckoutWaits == Spec => CheckoutWaitsForJobs
  <1> DEFINE Waits == \A p \in Stagers :
                 stager'[p].at # stager[p].at /\ head' # head => Active = {}
  <1>1. ASSUME HostInv, [Next]_vars PROVE [Waits]_vars
    <2>1. SUFFICES ASSUME Next, NEW q \in Stagers, stager'[q].at # stager[q].at, head' # head
                   PROVE  Active = {}
      BY <1>1
    <2>2. TypeOK
      BY <1>1 DEF HostInv, SubmitInv, CheckoutInv, Types
    <2>3. ASSUME NEW p \in Stagers, StagerStep(p) PROVE Active = {}
      <3>1. stager[p].at \in {"switch", "undo"}
        BY <2>1, <2>3
           DEF StagerStep, Ask, LockToStage, NoActiveJobs, ClearStagedCheckout, Fetch, Switch,
               Load, RecordStagedCheckout, Restore, StageFails, RestoreFails, StagerDies
      <3>2. QED
        BY <1>1, <3>1 DEF HostInv, SubmitInv, CheckoutInv, NoneActive, Working
    <2>4. ASSUME NEW u \in Submitters, SubmitterStep(u) PROVE head' = head
      BY <2>4 DEF SubmitterStep, OpenToSubmit, ReadHead, HeadUnread, MatchStaged,
         LockToSubmit, Insert, SubmitFails
    <2>5. ASSUME NEW c \in Commits, MoveByHand(c) PROVE stager'[q].at = stager[q].at
      BY <2>2, <2>5, HandDisturbs DEF StagersDisturbed
    <2>6. ASSUME NEW c \in Commits, Push(c) PROVE head' = head
      BY <2>6 DEF Push
    <2>7. ASSUME ServiceStep PROVE head' = head
      BY <2>7 DEF ServiceStep, Launch, Exit, ServeDies, Claim, JobEnds
    <2>8. ASSUME NEW c \in Operators, OperatorStep(c) PROVE head' = head
      BY <2>8, OperatorUnchanged
    <2>9. QED
      BY <2>1, <2>3, <2>4, <2>5, <2>6, <2>7, <2>8 DEF Next, CheckoutStep
  <1>2. HostInv /\ [Next]_vars => [Waits]_vars
    BY <1>1
  <1>3. QED
    BY <1>2, HostKeeps, PTL DEF Spec, CheckoutWaitsForJobs

\* A staging that fails goes back to the commit it found, unless it was killed,
\* could not restore, or the checkout was moved by hand.
THEOREM FailedRestores == Spec => FailedStagingRestores
  <1> DEFINE Restores == \A p \in Stagers :
                 stager[p].at \notin {"new", "wait", "count"} /\ stager'[p].at = "failed"
                 /\ stager[p].at # "failed" /\ stager'[p].alone
                 => head' = stager[p].original
  <1>1. ASSUME HostInv, [Next]_vars PROVE [Restores]_vars
    <2>1. SUFFICES ASSUME Next, NEW q \in Stagers,
                          stager[q].at \notin {"new", "wait", "count", "failed"},
                          stager'[q].at = "failed", stager'[q].alone
                   PROVE  head' = stager[q].original
      BY <1>1
    <2>2. TypeOK
      BY <1>1 DEF HostInv, SubmitInv, CheckoutInv, Types
    <2>3. /\ stager[q].at \in {"clear", "fetch", "switch"} /\ stager[q].alone
             => head = stager[q].original
          /\ \A p \in Stagers : p # q => stager[p].at \notin {"switch", "undo"}
                                         \/ stager[q].at \notin Working
      BY <1>1, HostAssumption
         DEF HostInv, SubmitInv, CheckoutInv, AtOriginal, Locked, Working
    <2>4. ASSUME NEW p \in Stagers, StagerStep(p) PROVE head' = stager[q].original
      <3>1. CASE Restore(p)
        <4>1. Goes(p, "failed") /\ stager[p].at = "undo" /\ head' = stager[p].original
          BY <2>2, <3>1, StagerFields DEF Restore
        <4>2. p = q
          BY <2>1, <4>1 DEF Goes, StagerIs
        <4>3. QED
          BY <4>1, <4>2
      <3>2. CASE RestoreFails(p) \/ StagerDies(p)
        <4>1. StagerIs(p, "failed", stager[p].original, stager[p].fetched, FALSE)
          BY <2>2, <3>2, StagerFields
        <4>2. QED
          BY <2>1, <4>1 DEF StagerIs
      <3>3. CASE NoActiveJobs(p)
        <4>1. /\ stager[p].at = "count"
              /\ \A r \in Stagers : r # p => stager'[r] = stager[r]
          BY <2>2, <3>3, StagerFields DEF NoActiveJobs, Goes, StagerIs
        <4>2. QED
          BY <2>1, <4>1
      <3>4. CASE Switch(p)
        <4>1. \/ Goes(p, "load")
              \/ Goes(p, "failed") /\ stager[p].at = "switch" /\ head' = head
          BY <2>2, <3>4, StagerFields DEF Switch
        <4>2. QED
          BY <2>1, <2>3, <4>1 DEF Goes, StagerIs
      <3>5. CASE StageFails(p)
        <4>1. /\ head' = head
              /\ \/ Goes(p, "undo")
                 \/ Goes(p, "failed") /\ stager[p].at \in {"count", "clear", "fetch", "switch"}
          BY <2>2, <3>5, StagerFields DEF StageFails
        <4>2. QED
          BY <2>1, <2>3, <4>1 DEF Goes, StagerIs
      <3>6. CASE \/ Ask(p) \/ LockToStage(p) \/ ClearStagedCheckout(p) \/ Fetch(p)
                 \/ Load(p) \/ RecordStagedCheckout(p)
        <4>1. \E x \in StagerPlaces \ {"failed"}, f \in SomeCommit :
                 StagerIs(p, x, stager[p].original, f, stager[p].alone)
          BY <2>2, <3>6, StagerFields DEF Goes, StagerPlaces, TypeOK, StagerCall, SomeCommit
        <4>2. QED
          BY <2>1, <4>1 DEF StagerIs
      <3>7. QED
        BY <2>4, <3>1, <3>2, <3>3, <3>4, <3>5, <3>6 DEF StagerStep
    <2>5. ASSUME NEW c \in Commits, MoveByHand(c) PROVE FALSE
      BY <2>1, <2>2, <2>5, HandDisturbs DEF StagersDisturbed
    <2>6. ASSUME \/ \E c \in Commits : Push(c)
                 \/ \E u \in Submitters : SubmitterStep(u)
                 \/ ServiceStep
                 \/ \E c \in Operators : OperatorStep(c)
          PROVE  stager' = stager
      BY <2>6, OperatorUnchanged
         DEF Push, SubmitterStep, OpenToSubmit, ReadHead, HeadUnread, MatchStaged,
             LockToSubmit, Insert, SubmitFails, ServiceStep, Launch, Exit, ServeDies,
             Claim, JobEnds
    <2>7. QED
      BY <2>1, <2>4, <2>5, <2>6 DEF Next, CheckoutStep
  <1>2. HostInv /\ [Next]_vars => [Restores]_vars
    BY <1>1
  <1>3. QED
    BY <1>2, HostKeeps, PTL DEF Spec, FailedStagingRestores

\* A client that nobody disturbed submits the staged commit with that commit's
\* configuration.
THEOREM QuietAgrees == Spec => QuietSubmitAgrees
  <1> DEFINE Agrees == \A u \in Submitters \ InServe :
                 job[u].state = "absent" /\ job'[u].state = "queued" /\ job'[u].ref # NoCommit
                 /\ submit[u].steady /\ staged # NoCommit /\ ~moved
                 => job'[u].ref = staged /\ job'[u].config = staged
  <1>1. ASSUME HostInv, [Next]_vars PROVE [Agrees]_vars
    <2>1. SUFFICES ASSUME Next, NEW v \in Submitters \ InServe,
                          job[v].state = "absent", job'[v].state = "queued",
                          job'[v].ref # NoCommit,
                          submit[v].steady, staged # NoCommit, ~moved
                   PROVE  job'[v].ref = staged /\ job'[v].config = staged
      BY <1>1
    <2>2. TypeOK /\ head = staged /\ Current(v)
      BY <1>1, <2>1 DEF HostInv, SubmitInv, CheckoutInv, Types, StagedIsCheckedOut, Steady
    <2>3. ASSUME NEW u \in Submitters, SubmitterStep(u)
          PROVE  job'[v].ref = staged /\ job'[v].config = staged
      <3>1. Insert(u)
        BY <2>1, <2>3
           DEF SubmitterStep, OpenToSubmit, ReadHead, HeadUnread, MatchStaged, LockToSubmit,
               SubmitFails
      <3>2. u = v /\ submit[u].at = "insert"
        BY <2>1, <2>2, <3>1, Inserts DEF Insert
      <3>3. job'[v].ref = submit[v].ref /\ job'[v].config = submit[v].config
        BY <2>2, <3>1, <3>2, Inserts
      <3>4. QED
        BY <2>1, <2>2, <3>2, <3>3 DEF Current
    <2>4. ASSUME NEW p \in Stagers, StagerStep(p) PROVE job' = job
      BY <2>4
         DEF StagerStep, Ask, LockToStage, NoActiveJobs, ClearStagedCheckout, Fetch, Switch,
             Load, RecordStagedCheckout, Restore, StageFails, RestoreFails, StagerDies
    <2>5. ASSUME CheckoutStep PROVE job' = job
      BY <2>5 DEF CheckoutStep, MoveByHand, Push
    <2>6. ASSUME ServiceStep PROVE FALSE
      <3>1. CASE Launch
        BY <2>1, <2>2, <3>1, LaunchRecovers DEF JobsRecovered
      <3>2. CASE Exit \/ ServeDies
        BY <2>1, <3>2 DEF Exit, ServeDies
      <3>3. ASSUME NEW u \in Submitters, Claim(u) \/ JobEnds(u) PROVE FALSE
        <4>1. /\ job[u].state \in {"queued", "running"}
              /\ JobIs(u, "running") \/ JobIs(u, "over")
          BY <2>2, <3>3, JobGoes DEF Claim, JobEnds, JobStates
        <4>2. QED
          BY <2>1, <4>1 DEF JobIs
      <3>4. QED
        BY <2>6, <3>1, <3>2, <3>3 DEF ServiceStep
    <2>7. ASSUME NEW c \in Operators, OperatorStep(c) PROVE job' = job
      BY <2>7, OperatorUnchanged
    <2>8. QED
      BY <2>1, <2>3, <2>4, <2>5, <2>6, <2>7 DEF Next
  <1>2. HostInv /\ [Next]_vars => [Agrees]_vars
    BY <1>1
  <1>3. QED
    BY <1>2, HostKeeps, PTL DEF Spec, QuietSubmitAgrees

\* stop and install stop serve under no job that was there when they looked.
THEOREM StopSpares == Spec => StopSparesKnownJobs
  <1> DEFINE Spares == \A c \in Operators :
                 operator[c].at = "bootout" /\ operator[c].command \in {"stop", "install"}
                 /\ serve = "up" /\ serve' = "closing"
                 => Active \cap operator[c].known = {}
  <1>1. HostInv => Spares
    BY DEF HostInv, Spared, Active
  <1>2. HostInv /\ [Next]_vars => [Spares]_vars
    BY <1>1
  <1>3. QED
    BY <1>2, HostKeeps, PTL DEF Spec, StopSparesKnownJobs
=============================================================================

---------------------------- MODULE RetryProofs -----------------------------
(***************************************************************************)
(* What Retry keeps, for every number of tasks, callers, retries and rows: *)
(* first with retries in any processes, then with all of them in one, where *)
(* retryMu serialises them.                                                *)
(***************************************************************************)
EXTENDS Retry, Minimum

Codes == {"null", "0", "other"}
Row == [id : Nat, batch : Nat, task : Tasks, state : Verdicts \cup {Unfinished},
        attempt : Nat, of : Nat, prior : Codes, root : Nat]
RetryInfo == [attempt : Nat, of : Nat, root : Nat, prior : Codes]

-----------------------------------------------------------------------------
(* Any number of processes. *)

\* The rows are numbered, and a batch has each task once.
Numbered ==
    /\ rows \subseteq Row /\ lastId \in Nat
    /\ \A r \in rows : /\ r.id <= lastId /\ r.batch <= lastId
                       /\ 0 < r.root /\ r.root <= lastId
                       /\ 0 < r.attempt /\ r.attempt <= r.id
    /\ \A r, s \in rows : r.id = s.id => r = s
    /\ \A r, s \in rows : r.batch = s.batch /\ r.task = s.task => r = s

\* The attempts of a job are of one task.
OneTask == \A r, s \in rows : r.root = s.root => r.task = s.task

FirstIsRoot == \A r \in rows : r.attempt = 1 => r.root = r.id

\* A later attempt names the one before it.
Chained ==
    \A r \in rows : r.attempt > 1 =>
        \E s \in rows : /\ s.id = r.of /\ s.root = r.root /\ s.task = r.task
                        /\ s.attempt = r.attempt - 1
                        /\ s.state \in Verdicts /\ r.prior = CodeOf(s.state)

Limited ==
    \A r \in rows : MaxRetries[r.task] > 0 => r.attempt <= MaxRetries[r.task] + 1

RowsInv == Numbered /\ OneTask /\ FirstIsRoot /\ Chained /\ Limited /\ HistoryIsComplete

\* f is the retryInfo of the next attempt after l, which has its verdict.
Continues(l, name, f) == l \in rows /\ l.task = name /\ MayRetry(l) /\ f = Info(l)

\* What a call has found stays true of the rows, though maybe not the latest.
CallIs(p) ==
    LET c == call[p] IN
    /\ c.task \in Tasks
    /\ \E r \in rows : r.batch = c.batch /\ r.task = c.task
    /\ c.found \in Seq(RetryInfo)
    /\ \A i \in 1 .. Len(c.found) :
          /\ i \in DOMAIN Ordered[c.task]
          /\ \E l \in rows : Continues(l, Ordered[c.task][i], c.found[i])

CallSet == [batch : Nat, task : Tasks \cup {"none"}, found : Seq(RetryInfo)]

Calls ==
    /\ call \in [Retriers -> CallSet]
    /\ \A p \in Retriers : Active(p) => CallIs(p)

SharedInv == RowsInv /\ Calls

-----------------------------------------------------------------------------
\* What the configuration gives.
LEMMA Orders ==
    ASSUME NEW t \in Tasks
    PROVE  /\ Ordered[t] \in Seq(Tasks)
           /\ DOMAIN Ordered[t] = 1 .. Len(Ordered[t]) /\ Len(Ordered[t]) \in Nat
           /\ \A i \in DOMAIN Ordered[t] : Ordered[t][i] \in Tasks
           /\ \A i, k \in DOMAIN Ordered[t] : Ordered[t][i] = Ordered[t][k] => i = k
           /\ \A i \in DOMAIN Ordered[t] : Needs(Ordered[t][i]) \subseteq Needs(t)
           /\ MaxRetries[t] \in Nat
  BY RetryAssumption

\* An attempt that may be followed gives a retryInfo.
LEMMA InfoOf ==
    ASSUME NEW r \in Row
    PROVE  /\ Info(r) \in RetryInfo
           /\ Info(r).attempt = r.attempt + 1 /\ Info(r).of = r.id
           /\ Info(r).root = r.root /\ Info(r).prior = CodeOf(r.state)
  <1>1. CodeOf(r.state) \in Codes
    BY DEF CodeOf, Codes
  <1>2. QED
    BY <1>1 DEF Info, RetryInfo, Row

\* The first attempt of a job has this one.
NoInfo == [attempt |-> 1, of |-> 0, root |-> 0, prior |-> "null"]

\* n is a first attempt, or the attempt after one of its job.
Opens(n) == n.attempt = 1 /\ n.root = n.id
Extends(n, l) ==
    /\ l.task = n.task /\ MayRetry(l)
    /\ n.attempt = l.attempt + 1 /\ n.of = l.id
    /\ n.root = l.root /\ n.prior = CodeOf(l.state)

\* What submit adds to the rows, seen from the rows.
Added(t, n, i) ==
    /\ i \in DOMAIN Ordered[t] /\ n \in Row
    /\ n.id = lastId + i /\ n.batch = lastId + 1 /\ n.task = Ordered[t][i]
    /\ n.state = Unfinished
    /\ Opens(n) \/ \E l \in rows : Extends(n, l)

\* The row that submit writes for the i-th task, from a zero retryInfo or another.
LEMMA RowWritten ==
    ASSUME RowsInv, NEW t \in Tasks, NEW info, NEW i \in DOMAIN Ordered[t]
    PROVE  LET n == NewRow(Ordered[t], info, i) IN
           /\ info[i] = NoInfo => Added(t, n, i) /\ Opens(n)
           /\ \A l \in rows : Continues(l, Ordered[t][i], info[i])
                                 => Added(t, n, i) /\ Extends(n, l)
  <1> DEFINE n == NewRow(Ordered[t], info, i)
  <1>1. /\ lastId \in Nat /\ i \in Nat /\ Ordered[t][i] \in Tasks
        /\ Unfinished \in Verdicts \cup {Unfinished}
    BY Orders DEF RowsInv, Numbered
  <1>2. ASSUME info[i] = NoInfo PROVE Added(t, n, i) /\ Opens(n)
    BY <1>1, <1>2 DEF NewRow, NoInfo, Row, Codes, Added, Opens
  <1>3. ASSUME NEW l \in rows, Continues(l, Ordered[t][i], info[i])
        PROVE  Added(t, n, i) /\ Extends(n, l)
    <2>1. /\ info[i] \in RetryInfo /\ info[i].attempt = l.attempt + 1 /\ info[i].of = l.id
          /\ info[i].root = l.root /\ info[i].prior = CodeOf(l.state)
          /\ l.root # 0
      BY <1>3, InfoOf DEF Continues, RowsInv, Numbered, Row
    <2>2. /\ n \in Row
          /\ n.id = lastId + i /\ n.batch = lastId + 1 /\ n.task = Ordered[t][i]
          /\ n.state = Unfinished /\ n.attempt = l.attempt + 1 /\ n.of = l.id
          /\ n.root = l.root /\ n.prior = CodeOf(l.state)
      BY <1>1, <2>1 DEF NewRow, Row, RetryInfo
    <2> HIDE DEF n
    <2>3. Extends(n, l)
      BY <1>3, <2>2 DEF Continues, Extends
    <2>4. QED
      BY <2>2, <2>3 DEF Added
  <1>4. QED
    BY <1>2, <1>3

\* Submitting first attempts, or what continues others, keeps the rows.
LEMMA InsertKeeps ==
    ASSUME RowsInv, NEW t \in Tasks, NEW info, Insert(Ordered[t], info),
           \A i \in DOMAIN Ordered[t] :
              info[i] = NoInfo \/ \E l \in rows : Continues(l, Ordered[t][i], info[i])
    PROVE  RowsInv'
  <1>1. /\ lastId \in Nat /\ Len(Ordered[t]) \in Nat /\ lastId' = lastId + Len(Ordered[t])
        /\ DOMAIN Ordered[t] = 1 .. Len(Ordered[t])
    BY Orders DEF RowsInv, Numbered, Insert
  <1> DEFINE new(i) == NewRow(Ordered[t], info, i)
  <1>2. \A i \in DOMAIN Ordered[t] : Added(t, new(i), i)
    BY RowWritten
  <1>3. rows' = rows \cup {new(i) : i \in DOMAIN Ordered[t]}
    BY DEF Insert, NewRows
  <1> HIDE DEF new
  <1>4. \A r \in rows' : r \in rows \/ \E i \in DOMAIN Ordered[t] : r = new(i) /\ Added(t, r, i)
    BY <1>2, <1>3
  <1>5. \A r \in rows : r \in Row /\ r.id <= lastId /\ r.batch <= lastId /\ r.root <= lastId
    BY DEF RowsInv, Numbered
  <1>6. \A i, k \in DOMAIN Ordered[t] :
          new(i).task = new(k).task \/ new(i).id = new(k).id => i = k
    <2>1. \A i \in DOMAIN Ordered[t] :
            i \in Nat /\ new(i).task = Ordered[t][i] /\ new(i).id = lastId + i
      BY <1>1, <1>2 DEF Added
    <2>2. \A i, k \in DOMAIN Ordered[t] : lastId + i = lastId + k => i = k
      BY <1>1
    <2>3. QED
      BY <2>1, <2>2, Orders
  <1>7. Numbered'
    <2>1. \A r \in rows' : /\ r \in Row
                           /\ r.id <= lastId' /\ r.batch <= lastId'
                           /\ 0 < r.root /\ r.root <= lastId'
                           /\ 0 < r.attempt /\ r.attempt <= r.id
      <3>1. SUFFICES ASSUME NEW i \in DOMAIN Ordered[t], NEW r, Added(t, r, i)
                     PROVE  /\ r \in Row
                            /\ r.id <= lastId' /\ r.batch <= lastId'
                            /\ 0 < r.root /\ r.root <= lastId'
                            /\ 0 < r.attempt /\ r.attempt <= r.id
        BY <1>1, <1>4, <1>5 DEF RowsInv, Numbered, Row
      <3>2. i \in Nat /\ 0 < i /\ i <= Len(Ordered[t])
        BY <1>1
      <3>3. CASE Opens(r)
        BY <1>1, <3>1, <3>2, <3>3 DEF Added, Opens
      <3>4. ASSUME NEW l \in rows, Extends(r, l)
            PROVE  /\ 0 < r.root /\ r.root <= lastId /\ 0 < r.attempt /\ r.attempt <= lastId + 1
        BY <1>1, <1>5, <3>4 DEF Extends, RowsInv, Numbered, Row
      <3>5. QED
        BY <1>1, <3>1, <3>2, <3>3, <3>4 DEF Added, Row
    <2>2. \A r, s \in rows' : r.id = s.id => r = s
      BY <1>1, <1>4, <1>5, <1>6 DEF RowsInv, Numbered, Added, Row
    <2>3. \A r, s \in rows' : r.batch = s.batch /\ r.task = s.task => r = s
      <3>1. \A r \in rows : r.batch # lastId + 1
        BY <1>1, <1>5 DEF Row
      <3>2. \A i \in DOMAIN Ordered[t] : new(i).batch = lastId + 1
        BY <1>2 DEF Added
      <3>3. \A r, s \in rows : r.batch = s.batch /\ r.task = s.task => r = s
        BY DEF RowsInv, Numbered
      <3>4. QED
        BY <1>3, <1>6, <3>1, <3>2, <3>3
    <2>4. QED
      BY <1>1, <2>1, <2>2, <2>3 DEF Numbered
  <1>8. OneTask'
    <2> SUFFICES ASSUME NEW r \in rows', NEW s \in rows', r.root = s.root
                 PROVE  r.task = s.task
      BY DEF OneTask
    <2>1. CASE r \in rows /\ s \in rows
      BY <2>1 DEF RowsInv, OneTask
    <2>2. ASSUME NEW o \in rows, NEW i \in DOMAIN Ordered[t], NEW n, Added(t, n, i),
                 o.root = n.root
          PROVE  o.task = n.task
      <3>1. ~Opens(n)
        BY <1>1, <1>5, <2>2 DEF Added, Opens, Row
      <3>2. PICK l \in rows : Extends(n, l)
        BY <2>2, <3>1 DEF Added
      <3>3. QED
        BY <2>2, <3>2 DEF RowsInv, OneTask, Extends
    <2>3. ASSUME NEW i \in DOMAIN Ordered[t], NEW k \in DOMAIN Ordered[t],
                 r = new(i), s = new(k)
          PROVE  r.task = s.task
      <3>1. Added(t, r, i) /\ Added(t, s, k)
        BY <1>2, <2>3
      <3>2. CASE Opens(r) /\ Opens(s)
        BY <1>6, <2>3, <3>2 DEF Opens
      <3>3. ASSUME NEW l \in rows, Extends(r, l) \/ Extends(s, l) PROVE ~Opens(r) /\ ~Opens(s)
        <4>1. r.root = l.root /\ s.root = l.root
          BY <3>3 DEF Extends
        <4>2. l.root \in Nat /\ l.root <= lastId
          BY <1>5 DEF Row
        <4>3. r.id = lastId + i /\ s.id = lastId + k /\ i \in Nat \ {0} /\ k \in Nat \ {0}
          BY <1>1, <3>1 DEF Added
        <4>4. QED
          BY <1>1, <4>1, <4>2, <4>3 DEF Opens
      <3>4. ASSUME NEW l \in rows, NEW m \in rows, Extends(r, l), Extends(s, m)
            PROVE  r.task = s.task
        <4>1. l.root = m.root /\ l.task = r.task /\ m.task = s.task
          BY <3>4 DEF Extends
        <4>2. QED
          BY <4>1 DEF RowsInv, OneTask
      <3>5. QED
        BY <3>1, <3>2, <3>3, <3>4 DEF Added
    <2>4. QED
      BY <1>4, <2>1, <2>2, <2>3
  <1>9. FirstIsRoot'
    <2>1. ASSUME NEW i \in DOMAIN Ordered[t], NEW n, Added(t, n, i), n.attempt = 1
          PROVE  n.root = n.id
      BY <2>1 DEF Added, Opens, Extends, RowsInv, Numbered, Row
    <2>2. QED
      BY <1>4, <2>1 DEF RowsInv, FirstIsRoot
  <1>10. Chained'
    <2>1. ASSUME NEW i \in DOMAIN Ordered[t], NEW n, Added(t, n, i), n.attempt > 1
          PROVE  \E s \in rows : /\ s.id = n.of /\ s.root = n.root /\ s.task = n.task
                                 /\ s.attempt = n.attempt - 1
                                 /\ s.state \in Verdicts /\ n.prior = CodeOf(s.state)
      <3>1. PICK l \in rows : Extends(n, l)
        BY <2>1 DEF Added, Opens
      <3>2. l.attempt \in Nat
        BY <1>5 DEF Row
      <3>3. QED
        BY <3>1, <3>2 DEF Extends, MayRetry
    <2>2. QED
      BY <1>3, <1>4, <2>1 DEF RowsInv, Chained
  <1>11. Limited'
    <2>1. ASSUME NEW i \in DOMAIN Ordered[t], NEW n, Added(t, n, i), MaxRetries[n.task] > 0
          PROVE  n.attempt <= MaxRetries[n.task] + 1
      <3>1. n.task \in Tasks
        BY <2>1 DEF Added, Row
      <3>2. MaxRetries[n.task] \in Nat
        BY <3>1, Orders
      <3>3. QED
        BY <1>5, <2>1, <3>2 DEF Added, Opens, Extends, MayRetry, Row
    <2>2. QED
      BY <1>4, <2>1 DEF RowsInv, Limited
  <1>12. HistoryIsComplete'
    <2>1. ASSUME NEW i \in DOMAIN Ordered[t], NEW name \in Needs(Ordered[t][i])
          PROVE  \E s \in rows' : s.batch = lastId + 1 /\ s.task = name
      <3>1. PICK k \in DOMAIN Ordered[t] : Ordered[t][k] = name
        <4>1. name \in Needs(t)
          BY <2>1, Orders
        <4>2. QED
          BY <4>1 DEF Needs
      <3>2. QED
        BY <1>2, <1>3, <3>1 DEF Added
    <2>2. SUFFICES ASSUME NEW r \in rows', NEW name \in Needs(r.task)
                   PROVE  \E s \in rows' : s.batch = r.batch /\ s.task = name
      BY DEF HistoryIsComplete
    <2>3. CASE r \in rows
      BY <1>3, <2>2, <2>3 DEF RowsInv, HistoryIsComplete
    <2>4. ASSUME NEW i \in DOMAIN Ordered[t], Added(t, r, i)
          PROVE  \E s \in rows' : s.batch = r.batch /\ s.task = name
      <3>1. r.batch = lastId + 1 /\ r.task = Ordered[t][i]
        BY <2>4 DEF Added
      <3>2. name \in Needs(Ordered[t][i])
        BY <2>2, <3>1
      <3>3. QED
        BY <2>1, <3>1, <3>2
    <2>5. QED
      BY <1>4, <2>3, <2>4
  <1>13. QED
    BY <1>7, <1>8, <1>9, <1>10, <1>11, <1>12 DEF RowsInv

\* A verdict changes the state of one unfinished row, and nothing else.
LEMMA Settles ==
    ASSUME RowsInv, NEW r, NEW verdict \in Verdicts, Settle(r, verdict)
    PROVE  \E n \in Row :
              /\ r \in rows /\ r.state = Unfinished
              /\ rows' = (rows \ {r}) \cup {n} /\ lastId' = lastId /\ call' = call
              /\ n.state = verdict
              /\ n.id = r.id /\ n.batch = r.batch /\ n.task = r.task
              /\ n.attempt = r.attempt /\ n.of = r.of /\ n.prior = r.prior
              /\ n.root = r.root
  <1>1. r \in Row /\ r \in rows
    BY DEF Settle, RowsInv, Numbered
  <1> DEFINE n == [r EXCEPT !.state = verdict]
  <1>2. /\ n \in Row /\ n.state = verdict
        /\ n.id = r.id /\ n.batch = r.batch /\ n.task = r.task
        /\ n.attempt = r.attempt /\ n.of = r.of /\ n.prior = r.prior
        /\ n.root = r.root
    BY <1>1 DEF Row
  <1>3. QED
    BY <1>1, <1>2 DEF Settle

LEMMA SettleKeeps ==
    ASSUME RowsInv, NEW r, NEW verdict \in Verdicts, Settle(r, verdict)
    PROVE  RowsInv'
  <1>1. PICK n \in Row :
              /\ r \in rows /\ r.state = Unfinished
              /\ rows' = (rows \ {r}) \cup {n} /\ lastId' = lastId /\ call' = call
              /\ n.state = verdict
              /\ n.id = r.id /\ n.batch = r.batch /\ n.task = r.task
              /\ n.attempt = r.attempt /\ n.of = r.of /\ n.prior = r.prior
              /\ n.root = r.root
    BY Settles
  <1>2. Unfinished \notin Verdicts
    BY DEF Unfinished, Verdicts
  <1>3. Numbered'
    BY <1>1 DEF RowsInv, Numbered
  <1>4. OneTask'
    BY <1>1 DEF RowsInv, OneTask
  <1>5. FirstIsRoot'
    BY <1>1 DEF RowsInv, FirstIsRoot
  <1>6. Chained'
    BY <1>1, <1>2 DEF RowsInv, Chained
  <1>7. Limited'
    BY <1>1 DEF RowsInv, Limited
  <1>8. HistoryIsComplete'
    BY <1>1 DEF RowsInv, HistoryIsComplete
  <1>9. QED
    BY <1>3, <1>4, <1>5, <1>6, <1>7, <1>8 DEF RowsInv

-----------------------------------------------------------------------------
\* The query for the latest attempt finds one: the highest number, and of these
\* the highest id.
LEMMA LatestIs ==
    ASSUME RowsInv, NEW h \in rows
    PROVE  /\ Latest(h) \in rows /\ Latest(h).root = h.root
           /\ \A s \in rows : s.root = h.root => s.attempt <= Latest(h).attempt
  <1> DEFINE attempts == {r \in rows : r.root = h.root}
             IsLast(r) == \A s \in attempts :
                s.attempt < r.attempt \/ (s.attempt = r.attempt /\ s.id <= r.id)
             before == {lastId - r.attempt : r \in attempts}
  <1>1. \A r \in attempts : /\ r \in rows /\ r.root = h.root
                            /\ r.attempt \in Nat /\ r.attempt <= lastId
                            /\ r.id \in Nat /\ r.id <= lastId
    BY DEF RowsInv, Numbered, Row
  <1>2. lastId \in Nat /\ h \in attempts
    BY DEF RowsInv, Numbered
  <1>3. before \subseteq Nat /\ before # {}
    BY <1>1, <1>2
  <1>4. \E x \in before : \A y \in before : x <= y
    <2> HIDE DEF before
    <2>1. QED
      BY <1>3, Least
  <1>5. PICK r \in attempts : \A s \in attempts : lastId - r.attempt <= lastId - s.attempt
    BY <1>4
  <1> DEFINE tied == {s \in attempts : s.attempt = r.attempt}
             older == {lastId - s.id : s \in tied}
  <1>6. older \subseteq Nat /\ older # {}
    BY <1>1, <1>2
  <1>7. \E x \in older : \A y \in older : x <= y
    <2> HIDE DEF older
    <2>1. QED
      BY <1>6, Least
  <1>8. PICK l \in tied : \A s \in tied : lastId - l.id <= lastId - s.id
    BY <1>7
  <1>9. ASSUME NEW s \in attempts
        PROVE  s.attempt < l.attempt \/ (s.attempt = l.attempt /\ s.id <= l.id)
    <2>1. s.attempt <= r.attempt /\ l.attempt = r.attempt /\ l \in attempts
      BY <1>1, <1>2, <1>5, <1>8
    <2>2. CASE s.attempt = r.attempt
      BY <1>1, <1>2, <1>8, <2>1, <2>2
    <2>3. QED
      BY <1>1, <2>1, <2>2
  <1>10. Latest(h) = CHOOSE a \in attempts : IsLast(a)
    BY DEF Latest
  <1>11. Latest(h) \in attempts /\ IsLast(Latest(h))
    <2>1. \E a \in attempts : IsLast(a)
      BY <1>8, <1>9
    <2> HIDE DEF attempts, IsLast
    <2>2. QED
      BY <1>10, <2>1
  <1>12. QED
    BY <1>1, <1>11

\* What the i-th query of a call finds: an attempt of the task, the latest there is.
LEMMA Found ==
    ASSUME SharedInv, NEW p \in Retriers, ReadLatest(p)
    PROVE  \E latest \in rows :
              LET c == call[p]
                  name == Ordered[c.task][Asked(p)]
              IN /\ Asked(p) \in DOMAIN Ordered[c.task] /\ Asked(p) = Len(c.found) + 1
                 /\ latest.task = name
                 /\ \A s \in rows : s.root = latest.root => s.attempt <= latest.attempt
                 /\ \/ /\ MayRetry(latest) /\ Continues(latest, name, Info(latest))
                       /\ Info(latest) \in RetryInfo
                       /\ call' = [call EXCEPT ![p] =
                                     [c EXCEPT !.found = Append(c.found, Info(latest))]]
                    \/ call' = [call EXCEPT ![p] = Idle]
  <1> DEFINE c == call[p]
             name == Ordered[c.task][Asked(p)]
             latest == Latest(History(c.batch, name))
  <1>1. Active(p) /\ CallIs(p) /\ Asked(p) <= Len(Ordered[c.task]) /\ c \in CallSet
    BY DEF ReadLatest, SharedInv, Calls
  <1>2. /\ c.task \in Tasks /\ Len(c.found) \in Nat /\ Asked(p) = Len(c.found) + 1
        /\ Asked(p) \in DOMAIN Ordered[c.task]
        /\ \E r \in rows : r.batch = c.batch /\ r.task = c.task
    BY <1>1, Orders DEF CallIs, Asked
  <1>3. History(c.batch, name) \in rows /\ History(c.batch, name).task = name
    <2>1. name \in Needs(c.task)
      BY <1>2 DEF Needs
    <2> HIDE DEF c, name
    <2>2. \E s \in rows : s.batch = c.batch /\ s.task = name
      <3>1. PICK r \in rows : r.batch = c.batch /\ r.task = c.task
        BY <1>2
      <3>2. \E s \in rows : s.batch = r.batch /\ s.task = name
        BY <2>1, <3>1 DEF SharedInv, RowsInv, HistoryIsComplete
      <3>3. QED
        BY <3>1, <3>2
    <2>3. QED
      BY <2>2 DEF History
  <1>4. /\ latest \in rows /\ latest.task = name
        /\ \A s \in rows : s.root = latest.root => s.attempt <= latest.attempt
    <2> HIDE DEF name, c
    <2>1. QED
      BY <1>3, LatestIs DEF SharedInv, RowsInv, OneTask
  <1>5. call' = [call EXCEPT ![p] = IF MayRetry(latest)
                                    THEN [c EXCEPT !.found = Append(c.found, Info(latest))]
                                    ELSE Idle]
    BY DEF ReadLatest, SharedInv, Calls
  <1> HIDE DEF name, latest, c
  <1>6. Info(latest) \in RetryInfo
    BY <1>4, InfoOf DEF SharedInv, RowsInv, Numbered
  <1>7. CASE MayRetry(latest)
    <2>1. Continues(latest, name, Info(latest))
      BY <1>4, <1>7 DEF Continues
    <2>2. call' = [call EXCEPT ![p] = [c EXCEPT !.found = Append(c.found, Info(latest))]]
      BY <1>5, <1>7
    <2>3. QED
      BY <1>2, <1>4, <1>6, <1>7, <2>1, <2>2 DEF name, c
  <1>8. CASE ~MayRetry(latest)
    <2>1. call' = [call EXCEPT ![p] = Idle]
      BY <1>5, <1>8
    <2>2. QED
      BY <1>2, <1>4, <2>1 DEF name, c
  <1>9. QED
    BY <1>7, <1>8

LEMMA IdleIsCall == Idle \in CallSet
  BY DEF Idle, CallSet

\* A step with no new row keeps the rows.
LEMMA RowsStay ==
    ASSUME RowsInv, UNCHANGED <<rows, lastId>>
    PROVE  RowsInv'
  BY DEF RowsInv, Numbered, OneTask, FirstIsRoot, Chained, Limited, HistoryIsComplete

\* Rows are never lost: a verdict keeps batch and task, and what a call has found
\* had its verdict before.
LEMMA RowsGo ==
    ASSUME SharedInv, [Next]_vars
    PROVE  /\ \A r \in rows : \E s \in rows' : s.batch = r.batch /\ s.task = r.task
           /\ \A l \in rows : MayRetry(l) => l \in rows'
  <1>1. ASSUME NEW t \in Tasks, NEW info, Insert(Ordered[t], info)
        PROVE  rows \subseteq rows'
    BY <1>1 DEF Insert
  <1>2. ASSUME NEW t \in Tasks, SubmitContext(t) PROVE rows \subseteq rows'
    BY <1>1, <1>2 DEF SubmitContext
  <1>3. ASSUME NEW p \in Retriers, SubmitRetry(p) PROVE rows \subseteq rows'
    BY <1>3 DEF SubmitRetry, Insert
  <1>4. ASSUME NEW r \in rows, NEW verdict \in Verdicts, Settle(r, verdict)
        PROVE  /\ \A q \in rows : \E s \in rows' : s.batch = q.batch /\ s.task = q.task
               /\ \A l \in rows : MayRetry(l) => l \in rows'
    <2>1. PICK n \in Row : /\ r.state = Unfinished /\ rows' = (rows \ {r}) \cup {n}
                           /\ n.batch = r.batch /\ n.task = r.task
      BY <1>4, Settles DEF SharedInv
    <2>2. Unfinished \notin Verdicts
      BY DEF Unfinished, Verdicts
    <2>3. QED
      BY <2>1, <2>2 DEF MayRetry
  <1>5. CASE rows \subseteq rows'
    BY <1>5
  <1>6. CASE UNCHANGED rows
    BY <1>6
  <1>7. QED
    BY <1>2, <1>3, <1>4, <1>5, <1>6 DEF Next, vars, RetryContext, ReadLatest, RetryFails

\* A call under way that is not the one stepping keeps what it found.
LEMMA CallStays ==
    ASSUME SharedInv, [Next]_vars, NEW p \in Retriers, Active(p), call'[p] = call[p]
    PROVE  CallIs(p)'
  <1> DEFINE c == call[p]
  <1>1. CallIs(p)
    BY DEF SharedInv, Calls
  <1>2. c.task \in Tasks /\ \E r \in rows' : r.batch = c.batch /\ r.task = c.task
    BY <1>1, RowsGo DEF CallIs
  <1>3. ASSUME NEW i \in 1 .. Len(c.found)
        PROVE  /\ i \in DOMAIN Ordered[c.task]
               /\ \E l \in rows' : Continues(l, Ordered[c.task][i], c.found[i])'
    <2>1. PICK l \in rows : Continues(l, Ordered[c.task][i], c.found[i])
      BY <1>1 DEF CallIs
    <2>2. l \in rows'
      BY <2>1, RowsGo DEF Continues
    <2>3. Continues(l, Ordered[c.task][i], c.found[i])'
      BY <2>1, <2>2 DEF Continues
    <2>4. QED
      BY <1>1, <2>2, <2>3 DEF CallIs
  <1>4. QED
    BY <1>1, <1>2, <1>3 DEF CallIs

\* The calls, when one step is a call's: it ends, or it is as CallIs says.
LEMMA CallsStep ==
    ASSUME SharedInv, [Next]_vars, NEW p \in Retriers, NEW d \in CallSet,
           call' = [call EXCEPT ![p] = d], d = Idle \/ CallIs(p)'
    PROVE  Calls'
  <1>1. /\ call' \in [Retriers -> CallSet] /\ call'[p] = d
        /\ \A q \in Retriers : q # p => call'[q] = call[q]
    BY DEF SharedInv, Calls
  <1>2. ASSUME NEW q \in Retriers, Active(q)' PROVE CallIs(q)'
    <2>1. CASE q = p
      BY <1>1, <1>2, <2>1 DEF Active
    <2>2. CASE q # p
      BY <1>1, <1>2, <2>2, CallStays DEF Active
    <2>3. QED
      BY <2>1, <2>2
  <1>3. QED
    BY <1>1, <1>2 DEF Calls

\* A call begins with nothing found.
LEMMA RetryBegins ==
    ASSUME SharedInv, NEW p \in Retriers, NEW r \in rows, RetryContext(p, r)
    PROVE  SharedInv'
  <1> DEFINE c == [batch |-> r.batch, task |-> r.task, found |-> <<>>]
  <1>1. call' = [call EXCEPT ![p] = c] /\ rows' = rows /\ lastId' = lastId /\ [Next]_vars
    BY DEF RetryContext, Next
  <1>2. /\ c \in CallSet
        /\ c.batch = r.batch /\ c.task = r.task /\ c.found = <<>> /\ r.task \in Tasks
    BY DEF SharedInv, RowsInv, Numbered, Row, CallSet
  <1> HIDE DEF c
  <1>3. CallIs(p)'
    <2>1. call'[p] = c
      BY <1>1 DEF SharedInv, Calls
    <2>2. c.found \in Seq(RetryInfo) /\ Len(c.found) = 0
      BY <1>2
    <2>3. c.task \in Tasks /\ \E q \in rows' : q.batch = c.batch /\ q.task = c.task
      BY <1>1, <1>2
    <2>4. \A i \in 1 .. Len(call'[p].found) : FALSE
      BY <2>1, <2>2
    <2>5. QED
      BY <2>1, <2>2, <2>3, <2>4 DEF CallIs
  <1>4. QED
    BY <1>1, <1>2, <1>3, CallsStep, RowsStay DEF SharedInv

\* The next attempt is found, or the call is over.
LEMMA ReadKeeps ==
    ASSUME SharedInv, NEW p \in Retriers, ReadLatest(p)
    PROVE  SharedInv'
  <1> DEFINE c == call[p]
             name == Ordered[c.task][Asked(p)]
  <1>1. /\ Active(p) /\ CallIs(p) /\ rows' = rows /\ lastId' = lastId /\ [Next]_vars
        /\ c \in CallSet /\ call \in [Retriers -> CallSet]
    BY DEF ReadLatest, SharedInv, Calls, Next
  <1>2. PICK latest \in rows :
              /\ Asked(p) \in DOMAIN Ordered[c.task] /\ Asked(p) = Len(c.found) + 1
              /\ \/ /\ Continues(latest, name, Info(latest))
                    /\ Info(latest) \in RetryInfo
                    /\ call' = [call EXCEPT ![p] =
                                  [c EXCEPT !.found = Append(c.found, Info(latest))]]
                 \/ call' = [call EXCEPT ![p] = Idle]
    BY Found
  <1>3. CASE call' = [call EXCEPT ![p] = Idle]
    BY <1>1, <1>3, CallsStep, IdleIsCall, RowsStay DEF SharedInv
  <1> DEFINE g == Append(c.found, Info(latest))
             d == [c EXCEPT !.found = g]
  <1>4. CASE /\ Continues(latest, name, Info(latest))
             /\ Info(latest) \in RetryInfo
             /\ call' = [call EXCEPT ![p] = d]
    <2>1. /\ c.found \in Seq(RetryInfo) /\ g \in Seq(RetryInfo)
          /\ Len(g) = Len(c.found) + 1 /\ g[Len(c.found) + 1] = Info(latest)
          /\ \A i \in 1 .. Len(c.found) : g[i] = c.found[i]
      BY <1>1, <1>4 DEF CallIs
    <2> HIDE DEF g, c
    <2>2. d \in CallSet /\ d.batch = c.batch /\ d.task = c.task /\ d.found = g
      BY <1>1, <2>1 DEF CallSet
    <2> HIDE DEF d, name
    <2>3. ASSUME NEW i \in 1 .. Len(g)
          PROVE  /\ i \in DOMAIN Ordered[c.task]
                 /\ \E l \in rows : Continues(l, Ordered[c.task][i], g[i])
      <3>1. CASE i = Len(c.found) + 1
        BY <1>2, <1>4, <2>1, <3>1 DEF name
      <3>2. CASE i \in 1 .. Len(c.found)
        BY <1>1, <2>1, <3>2 DEF CallIs, c
      <3>3. Len(c.found) \in Nat
        BY <2>1
      <3>4. QED
        BY <2>1, <3>1, <3>2, <3>3
    <2>4. call'[p] = d
      BY <1>1, <1>4
    <2>5. CallIs(p)'
      <3>1. c.task \in Tasks /\ \E r \in rows' : r.batch = d.batch /\ r.task = d.task
        BY <1>1, <2>2 DEF CallIs, c
      <3>2. \A i \in 1 .. Len(call'[p].found) :
              /\ i \in DOMAIN Ordered[call'[p].task]
              /\ \E l \in rows : Continues(l, Ordered[call'[p].task][i], call'[p].found[i])
        BY <2>2, <2>3, <2>4
      <3>3. d.found \in Seq(RetryInfo) /\ d.task \in Tasks
        BY <2>1, <2>2, <3>1
      <3>4. QED
        BY <1>1, <2>4, <3>1, <3>2, <3>3 DEF CallIs, Continues
    <2>6. QED
      BY <1>1, <1>4, <2>2, <2>5, CallsStep, RowsStay DEF SharedInv
  <1>5. QED
    BY <1>2, <1>3, <1>4

\* What was found is what submit gets, one retryInfo for each task.
LEMMA FoundAll ==
    ASSUME SharedInv, NEW p \in Retriers, SubmitRetry(p)
    PROVE  /\ call[p].task \in Tasks /\ Active(p)
           /\ Insert(Ordered[call[p].task], call[p].found)
           /\ \A i \in DOMAIN Ordered[call[p].task] :
                 /\ i \in 1 .. Len(call[p].found)
                 /\ \E l \in rows : Continues(l, Ordered[call[p].task][i], call[p].found[i])
  <1> DEFINE c == call[p]
  <1>1. /\ Active(p) /\ CallIs(p) /\ Insert(Ordered[c.task], c.found)
        /\ Asked(p) > Len(Ordered[c.task])
    BY DEF SubmitRetry, SharedInv, Calls
  <1>2. c.task \in Tasks /\ Len(c.found) \in Nat
    BY <1>1 DEF CallIs
  <1>3. \A i \in DOMAIN Ordered[c.task] : i \in 1 .. Len(c.found)
    BY <1>1, <1>2, Orders DEF Asked
  <1>4. QED
    BY <1>1, <1>2, <1>3 DEF CallIs

\* What was found is submitted, after an attempt of its job each.
LEMMA RetryKeeps ==
    ASSUME SharedInv, NEW p \in Retriers, SubmitRetry(p)
    PROVE  SharedInv'
  <1>1. RowsInv'
    BY FoundAll, InsertKeeps DEF SharedInv
  <1>2. call' = [call EXCEPT ![p] = Idle] /\ [Next]_vars
    BY DEF SubmitRetry, Next
  <1>3. QED
    BY <1>1, <1>2, CallsStep, IdleIsCall DEF SharedInv

\* A first submission writes first attempts.
LEMMA FirstsKeep ==
    ASSUME RowsInv, NEW t \in Tasks, SubmitContext(t)
    PROVE  RowsInv' /\ call' = call
  <1> DEFINE info == [i \in DOMAIN Ordered[t] |->
                        [attempt |-> 1, of |-> 0, root |-> 0, prior |-> "null"]]
  <1>1. Insert(Ordered[t], info) /\ call' = call
    BY DEF SubmitContext
  <1>2. \A i \in DOMAIN Ordered[t] : info[i] = NoInfo
    BY DEF NoInfo
  <1> HIDE DEF info
  <1>3. QED
    BY <1>1, <1>2, InsertKeeps

\* Every step keeps the invariant.
LEMMA SharedStep ==
    ASSUME SharedInv, [Next]_vars
    PROVE  SharedInv'
  <1>1. ASSUME RowsInv', call' = call PROVE SharedInv'
    BY <1>1, CallStays DEF SharedInv, Calls, Active
  <1>2. CASE UNCHANGED vars
    BY <1>1, <1>2, RowsStay DEF SharedInv, vars
  <1>3. ASSUME NEW t \in Tasks, SubmitContext(t) PROVE SharedInv'
    BY <1>1, <1>3, FirstsKeep DEF SharedInv
  <1>4. ASSUME NEW r \in rows, NEW verdict \in Verdicts, Settle(r, verdict)
        PROVE  SharedInv'
    BY <1>1, <1>4, SettleKeeps DEF SharedInv, Settle
  <1>5. ASSUME NEW p \in Retriers, RetryFails(p) PROVE SharedInv'
    BY <1>5, CallsStep, IdleIsCall, RowsStay DEF SharedInv, RetryFails
  <1>6. QED
    BY <1>2, <1>3, <1>4, <1>5, RetryBegins, ReadKeeps, RetryKeeps DEF Next

\* Nothing is there at first.
LEMMA SharedInit == Init => SharedInv
  <1> SUFFICES ASSUME Init PROVE SharedInv
    OBVIOUS
  <1>1. rows = {} /\ lastId = 0 /\ call = [p \in Retriers |-> Idle]
    BY DEF Init
  <1>2. RowsInv
    BY <1>1 DEF RowsInv, Numbered, OneTask, FirstIsRoot, Chained, Limited, HistoryIsComplete
  <1>3. \A p \in Retriers : ~Active(p)
    BY <1>1 DEF Active
  <1>4. QED
    BY <1>1, <1>2, <1>3, IdleIsCall DEF SharedInv, Calls

\* Whatever processes retry at once, what RetryContext has read stays true of the
\* rows, if not of the latest ones.
THEOREM SharedKept == Spec => []SharedInv
  <1>1. SharedInv /\ [Next]_vars => SharedInv'
    BY SharedStep
  <1>2. QED
    BY SharedInit, <1>1, PTL DEF Spec

\* Every batch holds the needs of its tasks, the batches of retries as well.
THEOREM HistoryKept == Spec => []HistoryIsComplete
  <1>1. SharedInv => HistoryIsComplete
    BY DEF SharedInv, RowsInv
  <1>2. QED
    BY <1>1, SharedKept, PTL

\* Two processes may give one number to two attempts, but they cannot skip one,
\* name another than the one before, or go beyond max_retries.
THEOREM ChainKept == Spec => [](Chained /\ Limited)
  <1>1. SharedInv => Chained /\ Limited
    BY DEF SharedInv, RowsInv
  <1>2. QED
    BY <1>1, SharedKept, PTL

-----------------------------------------------------------------------------
(* One serve, and no bitci retry beside it. *)

OneProcess == \A p, q \in Retriers : ProcessOf[p] = ProcessOf[q]

\* The attempts of a job have numbers of their own, and only the last one may be
\* unfinished.
Roots ==
    \A r, s \in rows : r.root = s.root =>
        /\ r.attempt = s.attempt => r = s
        /\ r.attempt < s.attempt => r.state \in Verdicts

\* f is the retryInfo of the next attempt after l, the latest of its job.
Follows(l, name, f) ==
    Continues(l, name, f) /\ \A s \in rows : s.root = l.root => s.attempt <= l.attempt

\* Nobody else retries meanwhile, and what a call has found stays the latest.
OneCall ==
    /\ \A p, q \in Retriers : Active(p) /\ Active(q) => p = q
    /\ \A p \in Retriers : Active(p) =>
          \A i \in 1 .. Len(call[p].found) :
              \E l \in rows : Follows(l, Ordered[call[p].task][i], call[p].found[i])

RetryInv == SharedInv /\ Roots /\ OneCall

-----------------------------------------------------------------------------
\* n is the attempt after the latest one of its job.
ExtendsLast(n, l) ==
    Extends(n, l) /\ \A s \in rows : s.root = l.root => s.attempt <= l.attempt

\* First attempts, and those after the latest ones, have numbers of their own.
LEMMA InsertKeepsRoots ==
    ASSUME RowsInv, Roots, NEW t \in Tasks, NEW info, Insert(Ordered[t], info),
           \A i \in DOMAIN Ordered[t] :
              info[i] = NoInfo \/ \E l \in rows : Follows(l, Ordered[t][i], info[i])
    PROVE  Roots'
  <1> DEFINE new(i) == NewRow(Ordered[t], info, i)
             Latter(n) == Opens(n) \/ \E l \in rows : ExtendsLast(n, l)
  <1>1. /\ lastId \in Nat /\ DOMAIN Ordered[t] \subseteq Nat \ {0}
        /\ \A r \in rows : r \in Row /\ r.root <= lastId
    BY Orders DEF RowsInv, Numbered
  <1>2. \A i \in DOMAIN Ordered[t] : Added(t, new(i), i) /\ Latter(new(i))
    BY RowWritten DEF Follows, ExtendsLast
  <1>3. rows' = rows \cup {new(i) : i \in DOMAIN Ordered[t]}
    BY DEF Insert, NewRows
  <1> HIDE DEF new, Latter
  <1>4. RowsInv'
    <2>1. \A i \in DOMAIN Ordered[t] :
              info[i] = NoInfo \/ \E l \in rows : Continues(l, Ordered[t][i], info[i])
      BY DEF Follows
    <2>2. QED
      BY <2>1, InsertKeeps
  <1> SUFFICES ASSUME NEW r \in rows', NEW s \in rows', r.root = s.root
               PROVE  /\ r.attempt = s.attempt => r = s
                      /\ r.attempt < s.attempt => r.state \in Verdicts
    BY DEF Roots
  <1>5. r.attempt \in Nat /\ s.attempt \in Nat /\ r.task = s.task
    BY <1>4 DEF RowsInv, OneTask, Numbered, Row
  <1>6. CASE r \in rows /\ s \in rows
    BY <1>6 DEF Roots
  <1>7. ASSUME NEW o \in rows, NEW i \in DOMAIN Ordered[t], o.root = new(i).root
        PROVE  o.attempt < new(i).attempt /\ o.state \in Verdicts
    <2>1. ~Opens(new(i))
      BY <1>1, <1>2, <1>7 DEF Added, Opens, Row
    <2>2. PICK l \in rows : ExtendsLast(new(i), l)
      BY <1>2, <2>1 DEF Latter
    <2>3. /\ o.attempt <= l.attempt /\ o.attempt \in Nat /\ l.attempt \in Nat
          /\ l.state \in Verdicts /\ o.root = l.root /\ new(i).attempt = l.attempt + 1
      BY <1>1, <1>7, <2>2 DEF ExtendsLast, Extends, MayRetry, Row
    <2>4. o.state \in Verdicts
      BY <2>3 DEF Roots
    <2>5. QED
      BY <2>3, <2>4
  <1>8. ASSUME NEW i \in DOMAIN Ordered[t], NEW k \in DOMAIN Ordered[t],
               r = new(i), s = new(k)
        PROVE  r = s
    BY <1>2, <1>3, <1>5, <1>8, Orders DEF Added
  <1>9. QED
    BY <1>3, <1>5, <1>6, <1>7, <1>8

\* A call under way keeps the latest attempts as long as no job of theirs gets another.
LEMMA LatestStays ==
    ASSUME RetryInv, [Next]_vars, call' = call,
           \A n \in rows' : \/ \E r \in rows : n.root = r.root /\ n.attempt = r.attempt
                            \/ n.root > lastId
    PROVE  OneCall'
  <1>1. ASSUME NEW l \in rows, NEW name, NEW f, Follows(l, name, f)
        PROVE  l \in rows' /\ Follows(l, name, f)'
    <2>1. l \in rows' /\ l.root \in Nat /\ l.root <= lastId /\ lastId \in Nat
      BY <1>1, RowsGo DEF Follows, Continues, RetryInv, SharedInv, RowsInv, Numbered, Row
    <2>2. ASSUME NEW s \in rows', s.root = l.root PROVE s.attempt <= l.attempt
      <3>1. ~(s.root > lastId)
        BY <2>1, <2>2
      <3>2. PICK r \in rows : s.root = r.root /\ s.attempt = r.attempt
        BY <3>1
      <3>3. QED
        BY <1>1, <2>2, <3>2 DEF Follows
    <2>3. QED
      BY <1>1, <2>1, <2>2 DEF Follows, Continues
  <1>2. QED
    BY <1>1 DEF RetryInv, OneCall, Active

\* New jobs have roots of their own.
LEMMA SubmitKeepsLatest ==
    ASSUME RetryInv, NEW t \in Tasks, SubmitContext(t)
    PROVE  Roots' /\ OneCall'
  <1> DEFINE info == [i \in DOMAIN Ordered[t] |->
                        [attempt |-> 1, of |-> 0, root |-> 0, prior |-> "null"]]
  <1>1. Insert(Ordered[t], info) /\ call' = call /\ [Next]_vars
    BY DEF SubmitContext, Next
  <1>2. \A i \in DOMAIN Ordered[t] : info[i] = NoInfo
    BY DEF NoInfo
  <1> HIDE DEF info
  <1>3. Roots'
    BY <1>1, <1>2, InsertKeepsRoots DEF RetryInv, SharedInv
  <1>4. \A n \in rows' : n \in rows \/ n.root > lastId
    <2>1. rows' = rows \cup {NewRow(Ordered[t], info, i) : i \in DOMAIN Ordered[t]}
      BY <1>1 DEF Insert, NewRows
    <2>2. \A i \in DOMAIN Ordered[t] : NewRow(Ordered[t], info, i).root = lastId + i
      BY <1>2 DEF NewRow, NoInfo
    <2>3. lastId \in Nat /\ \A i \in DOMAIN Ordered[t] : i \in Nat \ {0}
      BY Orders DEF RetryInv, SharedInv, RowsInv, Numbered
    <2>4. QED
      BY <2>1, <2>2, <2>3
  <1>5. QED
    BY <1>1, <1>3, <1>4, LatestStays

\* A verdict gives no job another attempt.
LEMMA SettleKeepsLatest ==
    ASSUME RetryInv, NEW r, NEW verdict \in Verdicts, Settle(r, verdict)
    PROVE  Roots' /\ OneCall'
  <1>1. PICK n \in Row :
              /\ r \in rows /\ r.state = Unfinished
              /\ rows' = (rows \ {r}) \cup {n} /\ lastId' = lastId /\ call' = call
              /\ n.state = verdict
              /\ n.id = r.id /\ n.batch = r.batch /\ n.task = r.task
              /\ n.attempt = r.attempt /\ n.of = r.of /\ n.prior = r.prior
              /\ n.root = r.root
    BY Settles DEF RetryInv, SharedInv
  <1>2. Unfinished \notin Verdicts
    BY DEF Unfinished, Verdicts
  <1>3. Roots'
    BY <1>1, <1>2 DEF RetryInv, Roots
  <1>4. \A m \in rows' : \E q \in rows : m.root = q.root /\ m.attempt = q.attempt
    BY <1>1
  <1>5. [Next]_vars
    BY <1>1 DEF Next
  <1>6. QED
    BY <1>1, <1>3, <1>4, <1>5, LatestStays

\* A call that ends leaves none under way.
LEMMA LastCallEnds ==
    ASSUME RetryInv, NEW p \in Retriers, Active(p), call' = [call EXCEPT ![p] = Idle]
    PROVE  OneCall'
  <1>1. \A q \in Retriers : ~Active(q)'
    BY DEF RetryInv, SharedInv, Calls, OneCall, Active
  <1>2. QED
    BY <1>1 DEF OneCall

\* retryMu lets a call begin when no other is under way.
LEMMA BeginsAlone ==
    ASSUME RetryInv, OneProcess, NEW p \in Retriers, NEW r \in rows, RetryContext(p, r)
    PROVE  Roots' /\ OneCall'
  <1> DEFINE c == [batch |-> r.batch, task |-> r.task, found |-> <<>>]
  <1>1. /\ call' = [call EXCEPT ![p] = c] /\ rows' = rows
        /\ \A q \in Retriers : ~Active(q)
    BY DEF RetryContext, Locked, OneProcess
  <1>2. c.found = <<>>
    OBVIOUS
  <1> HIDE DEF c
  <1>3. call'[p] = c /\ \A q \in Retriers : q # p => ~Active(q)'
    BY <1>1 DEF RetryInv, SharedInv, Calls, Active
  <1>4. Len(call'[p].found) = 0
    BY <1>2, <1>3
  <1>5. OneCall'
    BY <1>3, <1>4 DEF OneCall
  <1>6. QED
    BY <1>1, <1>5 DEF RetryInv, Roots

\* The query finds the latest attempt, and nobody submits another.
LEMMA ReadsLatest ==
    ASSUME RetryInv, NEW p \in Retriers, ReadLatest(p)
    PROVE  Roots' /\ OneCall'
  <1> DEFINE c == call[p]
             name == Ordered[c.task][Asked(p)]
  <1>1. /\ Active(p) /\ CallIs(p) /\ rows' = rows
        /\ c \in CallSet /\ call \in [Retriers -> CallSet]
    BY DEF ReadLatest, RetryInv, SharedInv, Calls
  <1>2. Roots'
    BY <1>1 DEF RetryInv, Roots
  <1>3. PICK latest \in rows :
              /\ Asked(p) = Len(c.found) + 1
              /\ \A s \in rows : s.root = latest.root => s.attempt <= latest.attempt
              /\ \/ /\ Continues(latest, name, Info(latest))
                    /\ Info(latest) \in RetryInfo
                    /\ call' = [call EXCEPT ![p] =
                                  [c EXCEPT !.found = Append(c.found, Info(latest))]]
                 \/ call' = [call EXCEPT ![p] = Idle]
    BY Found DEF RetryInv
  <1>4. CASE call' = [call EXCEPT ![p] = Idle]
    BY <1>1, <1>2, <1>4, LastCallEnds
  <1> DEFINE g == Append(c.found, Info(latest))
             d == [c EXCEPT !.found = g]
  <1>5. CASE /\ Continues(latest, name, Info(latest))
             /\ Info(latest) \in RetryInfo
             /\ call' = [call EXCEPT ![p] = d]
    <2>1. /\ c.found \in Seq(RetryInfo) /\ Len(c.found) \in Nat
          /\ Len(g) = Len(c.found) + 1 /\ g[Len(c.found) + 1] = Info(latest)
          /\ \A i \in 1 .. Len(c.found) : g[i] = c.found[i]
      BY <1>1, <1>5 DEF CallIs
    <2> HIDE DEF g, c
    <2>2. d.task = c.task /\ d.found = g
      BY <1>1, <2>1 DEF CallSet
    <2> HIDE DEF d, name
    <2>3. call'[p] = d /\ \A q \in Retriers : q # p => call'[q] = call[q]
      BY <1>1, <1>5
    <2>4. \A q \in Retriers : Active(q)' => q = p
      BY <1>1, <2>3 DEF RetryInv, OneCall, Active
    <2>5. ASSUME NEW i \in 1 .. Len(g)
          PROVE  \E l \in rows : Follows(l, Ordered[c.task][i], g[i])
      <3>1. CASE i = Len(c.found) + 1
        BY <1>3, <1>5, <2>1, <3>1 DEF name, Follows
      <3>2. CASE i \in 1 .. Len(c.found)
        BY <1>1, <2>1, <3>2 DEF RetryInv, OneCall, c
      <3>3. QED
        BY <2>1, <3>1, <3>2
    <2>6. OneCall'
      BY <1>1, <2>2, <2>3, <2>4, <2>5 DEF OneCall, Follows, Continues
    <2>7. QED
      BY <1>2, <2>6
  <1>6. QED
    BY <1>3, <1>4, <1>5

\* What was found is submitted, each after the latest attempt of its job.
LEMMA RetryFollows ==
    ASSUME RetryInv, NEW p \in Retriers, SubmitRetry(p)
    PROVE  Roots' /\ OneCall'
  <1> DEFINE c == call[p]
  <1>1. /\ c.task \in Tasks /\ Active(p) /\ Insert(Ordered[c.task], c.found)
        /\ \A i \in DOMAIN Ordered[c.task] : i \in 1 .. Len(c.found)
    BY FoundAll DEF RetryInv
  <1>2. \A i \in DOMAIN Ordered[c.task] :
          \E l \in rows : Follows(l, Ordered[c.task][i], c.found[i])
    BY <1>1 DEF RetryInv, OneCall
  <1> HIDE DEF c
  <1>3. Roots'
    BY <1>1, <1>2, InsertKeepsRoots DEF RetryInv, SharedInv
  <1>4. OneCall'
    BY <1>1, LastCallEnds DEF SubmitRetry
  <1>5. QED
    BY <1>3, <1>4

\* Every step keeps the invariant.
LEMMA RetryStep ==
    ASSUME RetryInv, OneProcess, [Next]_vars
    PROVE  RetryInv'
  <1>1. SharedInv'
    BY SharedStep DEF RetryInv
  <1>2. ASSUME UNCHANGED vars PROVE Roots' /\ OneCall'
    BY <1>2 DEF RetryInv, Roots, OneCall, Active, Follows, Continues, vars
  <1>3. ASSUME NEW p \in Retriers, RetryFails(p) PROVE Roots' /\ OneCall'
    BY <1>3, LastCallEnds DEF RetryFails, RetryInv, Roots
  <1>4. Roots' /\ OneCall'
    BY <1>2, <1>3, SubmitKeepsLatest, SettleKeepsLatest, BeginsAlone, ReadsLatest,
       RetryFollows DEF Next, RetryInv
  <1>5. QED
    BY <1>1, <1>4 DEF RetryInv

\* While one process retries, the invariant holds.
THEOREM RetryKept ==
    ASSUME OneProcess
    PROVE  Spec => []RetryInv
  <1>1. ASSUME Init PROVE RetryInv
    <2>1. Roots /\ OneCall
      BY <1>1 DEF Init, Roots, OneCall, Active
    <2>2. QED
      BY <1>1, <2>1, SharedInit DEF RetryInv
  <1>2. RetryInv /\ [Next]_vars => RetryInv'
    BY RetryStep
  <1>3. QED
    BY <1>1, <1>2, PTL DEF Spec

-----------------------------------------------------------------------------
\* One attempt of a job is unfinished at a time.
THEOREM OnePending ==
    ASSUME OneProcess
    PROVE  Spec => []OneAttemptPending
  <1>1. ASSUME RetryInv PROVE OneAttemptPending
    <2>1. Unfinished \notin Verdicts
      BY DEF Unfinished, Verdicts
    <2>2. \A r \in rows : r.attempt \in Nat
      BY <1>1 DEF RetryInv, SharedInv, RowsInv, Numbered, Row
    <2>3. QED
      BY <1>1, <2>1, <2>2 DEF RetryInv, SharedInv, RowsInv, Roots, OneAttemptPending
  <1>2. QED
    BY <1>1, RetryKept, PTL

\* The attempts of a job are numbered without gaps or repeats, and each names the
\* one before it and how that one ended.
THEOREM AttemptsKept ==
    ASSUME OneProcess
    PROVE  Spec => []AttemptsFollow
  <1>1. RetryInv => AttemptsFollow
    BY DEF RetryInv, SharedInv, RowsInv, Roots, Chained, AttemptsFollow
  <1>2. QED
    BY <1>1, RetryKept, PTL

\* max_retries caps the reruns of a job: its attempts are told apart by their
\* numbers, and these are limited.
THEOREM LimitKept ==
    ASSUME OneProcess
    PROVE  Spec => []RerunsWithinLimit
  <1>1. ASSUME RetryInv, NEW r \in rows, r.attempt = 1, MaxRetries[r.task] > 0
        PROVE  Cardinality({s \in rows : s.root = r.id /\ s.attempt > 1}) <= MaxRetries[r.task]
    <2> DEFINE reruns == {s \in rows : s.root = r.id /\ s.attempt > 1}
               numbers == 2 .. MaxRetries[r.task] + 1
               f == [s \in reruns |-> s.attempt]
    <2>1. r.task \in Tasks /\ MaxRetries[r.task] \in Nat
      BY <1>1, Orders DEF RetryInv, SharedInv, RowsInv, Numbered, Row
    <2>2. ASSUME NEW s \in reruns PROVE s.attempt \in numbers
      <3>1. s.task = r.task /\ s.attempt \in Nat
        BY <1>1 DEF RetryInv, SharedInv, RowsInv, OneTask, FirstIsRoot, Numbered, Row
      <3>2. QED
        BY <1>1, <2>1, <3>1 DEF RetryInv, SharedInv, RowsInv, Limited
    <2>3. \A s, u \in reruns : s.attempt = u.attempt => s = u
      BY <1>1 DEF RetryInv, SharedInv, RowsInv, Roots
    <2>4. f \in Injection(reruns, numbers)
      <3> HIDE DEF reruns, numbers
      <3>1. QED
        BY <2>2, <2>3 DEF Injection, IsInjective
    <2>5. IsFiniteSet(numbers) /\ Cardinality(numbers) = MaxRetries[r.task]
      <3> DEFINE m == MaxRetries[r.task] + 1
      <3>1. 2 \in Int /\ m \in Int
        BY <2>1
      <3> HIDE DEF m
      <3>2. IsFiniteSet(2 .. m) /\ Cardinality(2 .. m) = IF 2 > m THEN 0 ELSE m - 2 + 1
        BY <3>1, FS_Interval
      <3>3. QED
        BY <1>1, <2>1, <3>2 DEF m
    <2>6. Cardinality(reruns) <= Cardinality(numbers)
      <3> HIDE DEF f, reruns, numbers
      <3>1. QED
        BY <2>4, <2>5, FS_Injection
    <2>7. QED
      BY <2>5, <2>6
  <1>2. RetryInv => RerunsWithinLimit
    BY <1>1 DEF RerunsWithinLimit
  <1>3. QED
    BY <1>2, RetryKept, PTL
=============================================================================

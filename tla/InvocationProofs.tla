-------------------------- MODULE InvocationProofs --------------------------
(***************************************************************************)
(* Proofs about Invocation, for any number of connectors, keys, handlers   *)
(* and crashes: one provider call per key, one outcome, and answers and    *)
(* events that tell it.                                                    *)
(***************************************************************************)
EXTENDS Invocation, TLAPS

Owning == {"inserted", "accepted", "running", "calling"}

\* What a handler that owns the row of its key may rely on without
\* re-reading it: nobody else has moved the row, or sent the request.
OwnersRowIsCurrent ==
  \A h \in Handlers :
    /\ pc[h] = "inserted" => row[key[h]] = "none"
    /\ pc[h] = "accepted" => row[key[h]] = "accepted"
    /\ pc[h] \in {"running", "calling"} => row[key[h]] = "running"
    /\ pc[h] = "running" => calls[key[h]] = 0

\* No outcome is reported before it is recorded.
NoEarlyAnswer ==
  \A k \in Keys : row[k] \notin Terminal => answers[k] \cap {200, 502, 504} = {}

InvocationInv ==
  /\ TypeOK /\ OneOwner /\ OwnersRowIsCurrent /\ AtMostOneCall
  /\ NoEarlyAnswer /\ AnswersAgree /\ EventsTellTheStatus

\* What a step may never do to a recorded outcome.
OutcomeStep ==
  \A k \in Keys : row[k] \in Terminal => row'[k] = row[k] /\ events'[k] = events[k]

-----------------------------------------------------------------------------

\* The answer of a step, if there is one, is no outcome or the recorded one.
AnswersTheRow(k) ==
  \/ UNCHANGED answers
  \/ \E code \in {200, 202, 403, 409, 410, 500, 502, 504} :
       /\ answers' = [answers EXCEPT ![k] = @ \cup {code}]
       /\ \/ code \in {202, 403, 409, 410, 500}
          \/ row[k] # "none" /\ code = http_status_for(row[k])

\* A handler that takes no row over, saves nothing and reports no outcome of
\* its own disturbs nothing: it reads the connector, finds no row, replays
\* an existing one, loses the race, or dies.
LEMMA QuietStep ==
  ASSUME InvocationInv, NEW h \in Handlers, UNCHANGED <<row, version, events, calls>>,
         NEW l \in {"idle", "admitted", "missed"}, pc' = [pc EXCEPT ![h] = l],
         connector' \in [Connectors -> States],
         key' \in [Handlers -> Keys], path' \in [Handlers -> Paths],
         \A g \in Handlers : g # h => key'[g] = key[g],
         crashes' \in 0..MaxCrashes,
         NEW k \in Keys,
         AnswersTheRow(k)
  PROVE  InvocationInv' /\ OutcomeStep
<1> USE DEF InvocationInv, AnswersTheRow
<1> DEFINE Codes == {200, 202, 403, 409, 410, 500, 502, 504}
<1>0. answers \in [Keys -> SUBSET Codes] /\ row' = row
  BY DEF TypeOK
<1>1. TypeOK'
  <2>1. answers' \in [Keys -> SUBSET Codes]
    BY <1>0
  <2>2. pc' \in [Handlers -> Locations]
    BY DEF TypeOK, Locations
  <2>3. /\ row' \in [Keys -> {"none"} \cup InFlight \cup Terminal]
        /\ version' \in [Keys -> Nat] /\ calls' \in [Keys -> Nat]
        /\ events' \in [Keys -> Seq([version : Nat,
             subject : {"accepted", "started", "succeeded", "timed_out", "failed"}])]
    BY DEF TypeOK
  <2> QED
    BY <2>1, <2>2, <2>3, CrashAssumption DEF TypeOK
<1>2. /\ pc'[h] = l /\ l \notin Owning
      /\ \A g \in Handlers : g # h => pc'[g] = pc[g] /\ key'[g] = key[g]
  BY DEF TypeOK, Owning
<1>3. OneOwner'
  BY <1>2 DEF OneOwner, Owning
<1>4. OwnersRowIsCurrent'
  BY <1>2 DEF OwnersRowIsCurrent, Owning
<1>5. AtMostOneCall' /\ EventsTellTheStatus'
  BY DEF AtMostOneCall, EventsTellTheStatus
<1>6. NoEarlyAnswer' /\ AnswersAgree'
  <2>1. CASE UNCHANGED answers
    BY <2>1 DEF NoEarlyAnswer, AnswersAgree
  <2>2. ASSUME NEW code,
               answers' = [answers EXCEPT ![k] = @ \cup {code}],
               \/ code \in {202, 403, 409, 410, 500}
               \/ row[k] # "none" /\ code = http_status_for(row[k])
        PROVE  NoEarlyAnswer' /\ AnswersAgree'
    <3>1. row[k] \in {"none"} \cup InFlight \cup Terminal
      BY DEF TypeOK
    <3>2. row[k] # "none" /\ row[k] \notin Terminal =>
            http_status_for(row[k]) = 202
      BY <3>1 DEF http_status_for, InFlight, Terminal
    <3>3. \A j \in Keys : answers'[j] = IF j = k THEN answers[j] \cup {code} ELSE answers[j]
      BY ONLY <1>0, <2>2, k \in Keys
    <3>4. NoEarlyAnswer'
      BY <2>2, <3>2, <3>3 DEF NoEarlyAnswer
    <3>5. code \in {200, 502, 504} => code = http_status_for(row[k])
      BY <2>2
    <3>6. AnswersAgree'
      <4> SUFFICES ASSUME NEW j \in Keys
                   PROVE  answers'[j] \cap {200, 502, 504} \subseteq {http_status_for(row[j])}
        BY <1>0 DEF AnswersAgree
      <4>1. answers[j] \cap {200, 502, 504} \subseteq {http_status_for(row[j])}
        BY DEF AnswersAgree
      <4>2. ASSUME NEW a \in answers'[j], a \in {200, 502, 504}
            PROVE  a = http_status_for(row[j])
        <5>1. CASE a \in answers[j]
          BY <4>1, <4>2, <5>1
        <5>2. CASE j = k /\ a = code
          BY <3>5, <4>2, <5>2
        <5>3. answers'[j] = IF j = k THEN answers[j] \cup {code} ELSE answers[j]
          BY <3>3
        <5> QED
          BY ONLY <4>2, <5>1, <5>2, <5>3
      <4> QED
        BY <4>2
    <3> QED
      BY <3>4, <3>6
  <2> QED
    BY <2>1, <2>2
<1>7. OutcomeStep
  BY DEF OutcomeStep
<1> QED
  BY <1>1, <1>3, <1>4, <1>5, <1>6, <1>7

-----------------------------------------------------------------------------

\* The life of a row, one commit at a time.
Follows(s, t, subject) ==
  \/ s = "none" /\ t = "accepted" /\ subject = "accepted"
  \/ s = "accepted" /\ t = "running" /\ subject = "started"
  \/ s = "accepted" /\ t = "failed_terminal" /\ subject = "failed"
  \/ s = "running" /\ t \in Terminal
     /\ subject = IF t \in {"succeeded", "timed_out"} THEN t ELSE "failed"

\* A commit along the life of the row keeps its types and its events in step
\* with it, and overwrites no outcome.
LEMMA SaveKeepsEvents ==
  ASSUME TypeOK, EventsTellTheStatus, NEW k \in Keys, NEW t, NEW subject,
         Save(k, t, subject), Follows(row[k], t, subject)
  PROVE  /\ row' \in [Keys -> {"none"} \cup InFlight \cup Terminal]
         /\ version' \in [Keys -> Nat]
         /\ events' \in [Keys -> Seq([version : Nat,
              subject : {"accepted", "started", "succeeded", "timed_out", "failed"}])]
         /\ EventsTellTheStatus' /\ OutcomeStep
         /\ row[k] \notin Terminal
<1> DEFINE E == [version : Nat,
                 subject : {"accepted", "started", "succeeded", "timed_out", "failed"}]
           x == [version |-> version[k] + 1, subject |-> subject]
<1>1. /\ events \in [Keys -> Seq(E)] /\ row \in [Keys -> {"none"} \cup InFlight \cup Terminal]
      /\ version \in [Keys -> Nat]
  BY DEF TypeOK
<1>2. subject \in {"accepted", "started", "succeeded", "timed_out", "failed"}
  BY DEF Follows
<1>3. x \in E /\ x.version = version[k] + 1 /\ x.subject = subject
  BY <1>1, <1>2
<1>4. t \in {"accepted", "running"} \cup Terminal
  BY DEF Follows, Terminal
<1>5. /\ row' = [row EXCEPT ![k] = t]
      /\ version' = [version EXCEPT ![k] = @ + 1]
      /\ events' = [events EXCEPT ![k] = Append(@, x)]
  BY DEF Save
<1> HIDE DEF E, x
<1>6. row' \in [Keys -> {"none"} \cup InFlight \cup Terminal] /\ version' \in [Keys -> Nat]
  BY <1>1, <1>4, <1>5 DEF InFlight
<1>7. events' \in [Keys -> Seq(E)]
  BY <1>1, <1>3, <1>5
<1>8. /\ row'[k] = t /\ version'[k] = version[k] + 1
      /\ events'[k] = Append(events[k], x) /\ events[k] \in Seq(E)
      /\ \A j \in Keys : j # k =>
           row'[j] = row[j] /\ version'[j] = version[j] /\ events'[j] = events[j]
  BY <1>1, <1>5
<1>9. /\ Len(events[k]) \in Nat /\ Len(events'[k]) = Len(events[k]) + 1
      /\ \A i \in 1..Len(events[k]) : events'[k][i] = events[k][i]
      /\ events'[k][Len(events[k]) + 1] = x
  BY <1>3, <1>8
<1>10. /\ version[k] = Len(events[k])
       /\ \A i \in 1..Len(events[k]) : events[k][i].version = i
       /\ Len(events[k]) = 0 <=> row[k] = "none"
       /\ Len(events[k]) >= 1 => events[k][1].subject = "accepted"
       /\ Len(events[k]) = 1 <=> row[k] = "accepted"
       /\ row[k] = "running" => Len(events[k]) = 2 /\ events[k][2].subject = "started"
  BY DEF EventsTellTheStatus
<1>11. row[k] \notin Terminal
  BY DEF Follows, Terminal
<1>12. /\ version'[k] = Len(events'[k])
       /\ \A i \in 1..Len(events'[k]) : events'[k][i].version = i
  BY <1>3, <1>8, <1>9, <1>10
<1>13. LET n == Len(events'[k]) IN
       /\ n = 0 <=> t = "none"
       /\ n >= 1 => events'[k][1].subject = "accepted"
       /\ n = 1 <=> t = "accepted"
       /\ t = "running" => n = 2 /\ events'[k][2].subject = "started"
       /\ t \in Terminal =>
            /\ n = 2 => t = "failed_terminal"
            /\ n = 3 => events'[k][2].subject = "started"
            /\ n \in {2, 3}
            /\ events'[k][n].subject =
                 IF t \in {"succeeded", "timed_out"} THEN t ELSE "failed"
  <2>1. CASE row[k] = "none" /\ t = "accepted" /\ subject = "accepted"
    BY <1>3, <1>9, <1>10, <2>1 DEF Terminal
  <2>2. CASE row[k] = "accepted" /\ t = "running" /\ subject = "started"
    BY <1>3, <1>9, <1>10, <2>2 DEF Terminal
  <2>3. CASE row[k] = "accepted" /\ t = "failed_terminal" /\ subject = "failed"
    BY <1>3, <1>9, <1>10, <2>3 DEF Terminal
  <2>4. CASE row[k] = "running" /\ t \in Terminal
             /\ subject = IF t \in {"succeeded", "timed_out"} THEN t ELSE "failed"
    BY <1>3, <1>9, <1>10, <2>4 DEF Terminal
  <2> QED
    BY <2>1, <2>2, <2>3, <2>4 DEF Follows
<1>14. EventsTellTheStatus'
  <2> SUFFICES ASSUME NEW j \in Keys
               PROVE  LET n == Len(events'[j]) IN
                 /\ version'[j] = n
                 /\ \A i \in 1..n : events'[j][i].version = i
                 /\ n = 0 <=> row'[j] = "none"
                 /\ n >= 1 => events'[j][1].subject = "accepted"
                 /\ n = 1 <=> row'[j] = "accepted"
                 /\ row'[j] = "running" => n = 2 /\ events'[j][2].subject = "started"
                 /\ row'[j] \in Terminal =>
                      /\ n = 2 => row'[j] = "failed_terminal"
                      /\ n = 3 => events'[j][2].subject = "started"
                      /\ n \in {2, 3}
                      /\ events'[j][n].subject =
                           IF row'[j] \in {"succeeded", "timed_out"} THEN row'[j] ELSE "failed"
    BY DEF EventsTellTheStatus
  <2>1. CASE j = k
    BY <1>8, <1>12, <1>13, <2>1
  <2>2. CASE j # k
    BY <1>8, <2>2 DEF EventsTellTheStatus
  <2> QED
    BY <2>1, <2>2
<1>15. OutcomeStep
  BY <1>8, <1>11 DEF OutcomeStep
<1> QED
  BY <1>6, <1>7, <1>11, <1>14, <1>15 DEF E

\* Nobody else is at work on the row of an owner.
LEMMA OthersIdle ==
  ASSUME OneOwner, NEW h \in Handlers, pc[h] \in Owning
  PROVE  \A g \in Handlers : g # h /\ key[g] = key[h] => pc[g] \notin Owning
  BY DEF OneOwner, Owning

\* An owner commits a step that is not the last one and goes on.
LEMMA Progress ==
  ASSUME InvocationInv, NEW h \in Handlers, NEW t, NEW subject, NEW l,
         \/ pc[h] = "inserted" /\ t = "accepted" /\ subject = "accepted" /\ l = "accepted"
         \/ pc[h] = "accepted" /\ t = "running" /\ subject = "started" /\ l = "running",
         Save(key[h], t, subject), pc' = [pc EXCEPT ![h] = l],
         UNCHANGED <<connector, key, path, calls, answers, crashes>>
  PROVE  InvocationInv' /\ OutcomeStep
<1> USE DEF InvocationInv
<1>1. key[h] \in Keys /\ pc[h] \in Owning /\ l \in Owning
  BY DEF TypeOK, Owning
<1>2. Follows(row[key[h]], t, subject)
  BY DEF Follows, OwnersRowIsCurrent
<1>3. /\ row' \in [Keys -> {"none"} \cup InFlight \cup Terminal]
      /\ version' \in [Keys -> Nat]
      /\ events' \in [Keys -> Seq([version : Nat,
              subject : {"accepted", "started", "succeeded", "timed_out", "failed"}])]
      /\ EventsTellTheStatus' /\ OutcomeStep /\ row[key[h]] \notin Terminal
  BY <1>1, <1>2, SaveKeepsEvents
<1>4. /\ row'[key[h]] = t /\ pc'[h] = l
      /\ \A j \in Keys : j # key[h] => row'[j] = row[j]
      /\ \A g \in Handlers : g # h => pc'[g] = pc[g]
  BY <1>1 DEF Save, TypeOK
<1>5. TypeOK'
  BY <1>3 DEF TypeOK, Locations
<1>6. OneOwner'
  BY <1>1, <1>4 DEF OneOwner, Owning
<1>7. \A g \in Handlers : g # h /\ key[g] = key[h] => pc'[g] \notin Owning
  BY <1>1, <1>4, OthersIdle
<1>8. calls[key[h]] = 0
  <2>1. row[key[h]] \in {"none", "accepted"}
    BY DEF OwnersRowIsCurrent
  <2>2. calls[key[h]] # 1
    BY <1>1, <2>1 DEF AtMostOneCall, Terminal
  <2>3. calls[key[h]] \in Nat /\ calls[key[h]] <= 1
    BY <1>1 DEF AtMostOneCall, TypeOK
  <2> QED
    BY <2>2, <2>3
<1>9. OwnersRowIsCurrent'
  BY <1>1, <1>4, <1>7, <1>8 DEF OwnersRowIsCurrent, Owning, TypeOK
<1>10. AtMostOneCall'
  BY <1>1, <1>4, <1>8 DEF AtMostOneCall
<1>11. answers' = answers /\ answers[key[h]] \cap {200, 502, 504} = {}
  BY <1>1, <1>3 DEF NoEarlyAnswer
<1>12. NoEarlyAnswer'
  BY <1>4, <1>11 DEF NoEarlyAnswer
<1>13. AnswersAgree'
  <2> SUFFICES ASSUME NEW j \in Keys
               PROVE  answers[j] \cap {200, 502, 504} \subseteq {http_status_for(row'[j])}
    BY <1>11 DEF AnswersAgree
  <2>1. CASE j = key[h]
    BY <1>11, <2>1
  <2>2. CASE j # key[h]
    BY <1>4, <2>2 DEF AnswersAgree
  <2> QED
    BY <2>1, <2>2
<1> QED
  BY <1>3, <1>5, <1>6, <1>9, <1>10, <1>12, <1>13

\* _finalise records an outcome and reports it.
LEMMA FinalisePreserves ==
  ASSUME InvocationInv, NEW h \in Handlers, NEW outcome \in Terminal,
         \/ pc[h] = "accepted" /\ outcome = "failed_terminal"
         \/ pc[h] \in {"running", "calling"},
         Finalise(h, outcome)
  PROVE  InvocationInv' /\ OutcomeStep
<1> USE DEF InvocationInv
<1> DEFINE subject == IF outcome \in {"succeeded", "timed_out"} THEN outcome ELSE "failed"
           code == http_status_for(outcome)
<1>1. /\ key[h] \in Keys /\ pc[h] \in Owning
      /\ Save(key[h], outcome, subject)
      /\ pc' = [pc EXCEPT ![h] = "idle"]
      /\ answers' = [answers EXCEPT ![key[h]] = @ \cup {code}]
      /\ UNCHANGED <<connector, key, path, calls, crashes>>
  BY DEF TypeOK, Owning, Finalise, Reply, Goto
<1>2. Follows(row[key[h]], outcome, subject)
  BY DEF Follows, OwnersRowIsCurrent
<1>3. code \in {200, 502, 504}
  BY DEF http_status_for, Terminal, InFlight
<1> HIDE DEF subject, code
<1>4. /\ row' \in [Keys -> {"none"} \cup InFlight \cup Terminal]
      /\ version' \in [Keys -> Nat]
      /\ events' \in [Keys -> Seq([version : Nat,
              subject : {"accepted", "started", "succeeded", "timed_out", "failed"}])]
      /\ EventsTellTheStatus' /\ OutcomeStep /\ row[key[h]] \notin Terminal
  BY <1>1, <1>2, SaveKeepsEvents
<1>5. /\ row'[key[h]] = outcome /\ pc'[h] = "idle"
      /\ \A j \in Keys : j # key[h] => row'[j] = row[j] /\ answers'[j] = answers[j]
      /\ answers'[key[h]] = answers[key[h]] \cup {code}
      /\ \A g \in Handlers : g # h => pc'[g] = pc[g]
  BY <1>1 DEF Save, TypeOK
<1>6. TypeOK'
  <2> DEFINE Codes == {200, 202, 403, 409, 410, 500, 502, 504}
  <2>0. answers \in [Keys -> SUBSET Codes] /\ code \in Codes
    BY <1>3 DEF TypeOK
  <2> HIDE DEF Codes
  <2>1. answers' \in [Keys -> SUBSET Codes]
    BY ONLY <1>1, <2>0
  <2> USE DEF Codes
  <2> QED
    BY <1>1, <1>4, <2>1 DEF TypeOK, Locations
<1>7. OneOwner'
  BY <1>1, <1>5 DEF OneOwner
<1>8. \A g \in Handlers : g # h /\ key[g] = key[h] => pc'[g] \notin Owning
  BY <1>1, <1>5, OthersIdle
<1>9. OwnersRowIsCurrent'
  BY <1>1, <1>5, <1>8 DEF OwnersRowIsCurrent, Owning, TypeOK
<1>10. AtMostOneCall'
  BY <1>1, <1>5 DEF AtMostOneCall
<1>11. answers[key[h]] \cap {200, 502, 504} = {}
  BY <1>1, <1>4 DEF NoEarlyAnswer
<1>12. NoEarlyAnswer'
  BY <1>5 DEF NoEarlyAnswer
<1>13. AnswersAgree'
  BY <1>5, <1>11 DEF AnswersAgree, code
<1> QED
  BY <1>4, <1>6, <1>7, <1>9, <1>10, <1>12, <1>13

-----------------------------------------------------------------------------

\* Every step of the handlers and of the administrators preserves the
\* invariant and overwrites no outcome.
LEMMA StepPreserves ==
  ASSUME InvocationInv, [Next]_vars
  PROVE  InvocationInv' /\ (Next => OutcomeStep)
<1> USE DEF InvocationInv
<1>0. TypeOK /\ \A h \in Handlers : key[h] \in Keys
  BY DEF TypeOK
<1>1. CASE UNCHANGED vars
  BY <1>1 DEF vars, TypeOK, OneOwner, OwnersRowIsCurrent, AtMostOneCall,
     NoEarlyAnswer, AnswersAgree, EventsTellTheStatus, OutcomeStep
<1>2. ASSUME NEW c \in Connectors, Administer(c)
      PROVE  InvocationInv' /\ OutcomeStep
  <2>1. TypeOK'
    BY <1>2 DEF Administer, TypeOK, table
  <2>2. OneOwner' /\ OwnersRowIsCurrent' /\ AtMostOneCall'
    BY <1>2 DEF Administer, table, OneOwner, OwnersRowIsCurrent, AtMostOneCall
  <2>3. NoEarlyAnswer' /\ AnswersAgree' /\ EventsTellTheStatus' /\ OutcomeStep
    BY <1>2 DEF Administer, table, NoEarlyAnswer, AnswersAgree, EventsTellTheStatus,
       OutcomeStep
  <2> QED
    BY <2>1, <2>2, <2>3
<1>3. ASSUME NEW h \in Handlers, NEW k \in Keys, NEW p \in Paths, Request(h, k, p)
      PROVE  InvocationInv' /\ OutcomeStep
  <2>1. /\ UNCHANGED <<row, version, events, calls>> /\ connector' \in [Connectors -> States]
        /\ key' \in [Handlers -> Keys] /\ path' \in [Handlers -> Paths]
        /\ \A g \in Handlers : g # h => key'[g] = key[g]
        /\ crashes' \in 0..MaxCrashes
    BY <1>3 DEF Request, TypeOK, table
  <2>2. PICK l \in {"idle", "admitted", "missed"} : pc' = [pc EXCEPT ![h] = l]
    BY <1>3 DEF Request, Reply, Goto
  <2>3. AnswersTheRow(k)
    BY <1>3 DEF Request, Reply, refusal, AnswersTheRow
  <2> HIDE DEF InvocationInv
  <2> QED
    BY <2>1, <2>2, <2>3, QuietStep, CrashAssumption
<1>4. ASSUME NEW h \in Handlers, Lookup(h) \/ (Insert(h) /\ row[key[h]] # "none")
      PROVE  InvocationInv' /\ OutcomeStep
  <2>1. /\ UNCHANGED <<row, version, events, calls>> /\ connector' \in [Connectors -> States]
        /\ key' \in [Handlers -> Keys] /\ path' \in [Handlers -> Paths]
        /\ \A g \in Handlers : g # h => key'[g] = key[g]
        /\ crashes' \in 0..MaxCrashes
    BY <1>4 DEF Lookup, Insert, TypeOK, table
  <2>2. PICK l \in {"idle", "admitted", "missed"} : pc' = [pc EXCEPT ![h] = l]
    BY <1>4 DEF Lookup, Insert, Reply, Goto
  <2>3. row[key[h]] # "none" => http_status_for(row[key[h]]) \in {200, 202, 502, 504}
    BY DEF http_status_for
  <2>4. AnswersTheRow(key[h])
    BY <1>4, <2>3 DEF Lookup, Insert, Reply, AnswersTheRow
  <2> HIDE DEF InvocationInv
  <2> QED
    BY <1>0, <2>1, <2>2, <2>4, QuietStep, CrashAssumption
<1>5. ASSUME NEW h \in Handlers, Crash(h)
      PROVE  InvocationInv' /\ OutcomeStep
  <2>1. /\ UNCHANGED <<row, version, events, calls, answers, connector, key, path>>
        /\ pc' = [pc EXCEPT ![h] = "idle"]
        /\ crashes' \in 0..MaxCrashes
    BY <1>5, CrashAssumption DEF Crash, Goto, TypeOK, table
  <2>2. /\ connector' \in [Connectors -> States] /\ key[h] \in Keys
        /\ key' \in [Handlers -> Keys] /\ path' \in [Handlers -> Paths]
        /\ \A g \in Handlers : g # h => key'[g] = key[g]
        /\ AnswersTheRow(key[h])
    BY <2>1 DEF TypeOK, AnswersTheRow
  <2> HIDE DEF InvocationInv
  <2> QED
    BY <2>1, <2>2, QuietStep
<1>6. ASSUME NEW h \in Handlers, Insert(h), row[key[h]] = "none"
      PROVE  InvocationInv' /\ OutcomeStep
  <2>1. /\ pc[h] = "missed" /\ ~KeyLocked(key[h])
        /\ pc' = [pc EXCEPT ![h] = "inserted"]
        /\ UNCHANGED <<connector, row, version, events, key, path, calls, answers, crashes>>
    BY <1>6 DEF Insert, Goto, table
  <2>2. TypeOK'
    BY <2>1 DEF TypeOK, Locations
  <2>3. \A g \in Handlers : key[g] = key[h] => pc[g] \notin Owning
    BY <1>6, <2>1 DEF OwnersRowIsCurrent, KeyLocked, Owning
  <2>4. OneOwner'
    BY <2>1, <2>3 DEF OneOwner, Owning, TypeOK
  <2>5. OwnersRowIsCurrent'
    BY <1>6, <2>1 DEF OwnersRowIsCurrent, TypeOK
  <2>6. AtMostOneCall' /\ NoEarlyAnswer' /\ AnswersAgree' /\ EventsTellTheStatus' /\ OutcomeStep
    BY <2>1 DEF AtMostOneCall, NoEarlyAnswer, AnswersAgree, EventsTellTheStatus, OutcomeStep
  <2> QED
    BY <2>2, <2>4, <2>5, <2>6
<1>7. ASSUME NEW h \in Handlers, Accept(h) \/ Start(h)
      PROVE  InvocationInv' /\ OutcomeStep
  BY <1>7, Progress DEF Accept, Start, Goto
<1>8. ASSUME NEW h \in Handlers, UnknownKind(h)
      PROVE  InvocationInv' /\ OutcomeStep
  BY <1>8, FinalisePreserves DEF UnknownKind, Terminal
<1>9. ASSUME NEW h \in Handlers, NEW outcome \in Terminal,
             NotSent(h, outcome) \/ Return(h, outcome)
      PROVE  InvocationInv' /\ OutcomeStep
  BY <1>9, FinalisePreserves DEF NotSent, Return
<1>10. ASSUME NEW h \in Handlers, Send(h)
       PROVE  InvocationInv' /\ OutcomeStep
  <2>1. /\ pc[h] = "running" /\ pc' = [pc EXCEPT ![h] = "calling"]
        /\ calls' = [calls EXCEPT ![key[h]] = @ + 1]
        /\ UNCHANGED <<connector, row, version, events, key, path, answers, crashes>>
    BY <1>10 DEF Send, Goto, table
  <2>2. TypeOK'
    BY <2>1 DEF TypeOK, Locations
  <2>3. /\ calls[key[h]] = 0 /\ row[key[h]] = "running" /\ calls'[key[h]] = 1
        /\ \A j \in Keys : j # key[h] => calls'[j] = calls[j]
    BY <1>0, <2>1 DEF OwnersRowIsCurrent, TypeOK
  <2>4. \A g \in Handlers : g # h /\ key[g] = key[h] => pc[g] \notin Owning
    BY <2>1, OthersIdle DEF Owning
  <2>5. OneOwner'
    BY <2>1, <2>4 DEF OneOwner, Owning, TypeOK
  <2>6. OwnersRowIsCurrent'
    BY <1>0, <2>1, <2>3, <2>4 DEF OwnersRowIsCurrent, Owning, TypeOK
  <2>7. AtMostOneCall'
    BY <2>1, <2>3 DEF AtMostOneCall
  <2>8. NoEarlyAnswer' /\ AnswersAgree' /\ EventsTellTheStatus' /\ OutcomeStep
    BY <2>1 DEF NoEarlyAnswer, AnswersAgree, EventsTellTheStatus, OutcomeStep
  <2> QED
    BY <2>2, <2>5, <2>6, <2>7, <2>8
<1> QED
  BY <1>1, <1>2, <1>3, <1>4, <1>5, <1>6, <1>7, <1>8, <1>9, <1>10 DEF Next, Step

-----------------------------------------------------------------------------

\* The strengthened invariant holds in every reachable state.
THEOREM Invariance == Spec => []InvocationInv
<1>1. Init => InvocationInv
  <2> SUFFICES ASSUME Init PROVE InvocationInv
    OBVIOUS
  <2>1. TypeOK
    BY CrashAssumption DEF Init, TypeOK, Locations, States, Paths
  <2>2. OneOwner /\ OwnersRowIsCurrent /\ AtMostOneCall
    BY DEF Init, OneOwner, OwnersRowIsCurrent, AtMostOneCall
  <2>3. NoEarlyAnswer /\ AnswersAgree
    BY DEF Init, NoEarlyAnswer, AnswersAgree
  <2>4. EventsTellTheStatus
    BY DEF Init, EventsTellTheStatus, Terminal
  <2> QED
    BY <2>1, <2>2, <2>3, <2>4 DEF InvocationInv
<1>2. InvocationInv /\ [Next]_vars => InvocationInv'
  BY StepPreserves
<1> QED
  BY <1>1, <1>2, PTL DEF Spec

\* Rows, events, answers and handlers keep their types.
THEOREM TypeCorrect == Spec => []TypeOK
<1>1. InvocationInv => TypeOK
  BY DEF InvocationInv
<1> QED
  BY <1>1, Invariance, PTL

\* Under one idempotency key the provider is called at most once, and only
\* after the start was recorded.
THEOREM OneCall == Spec => []AtMostOneCall
<1>1. InvocationInv => AtMostOneCall
  BY DEF InvocationInv
<1> QED
  BY <1>1, Invariance, PTL

\* No two handlers work on the row of one key.
THEOREM SingleOwner == Spec => []OneOwner
<1>1. InvocationInv => OneOwner
  BY DEF InvocationInv
<1> QED
  BY <1>1, Invariance, PTL

\* All final answers given under a key are the one its row stands for.
THEOREM AnswersConsistent == Spec => []AnswersAgree
<1>1. InvocationInv => AnswersAgree
  BY DEF InvocationInv
<1> QED
  BY <1>1, Invariance, PTL

\* The staged events are the history of the row, in version order.
THEOREM EventsComplete == Spec => []EventsTellTheStatus
<1>1. InvocationInv => EventsTellTheStatus
  BY DEF InvocationInv
<1> QED
  BY <1>1, Invariance, PTL

\* A recorded outcome is never overwritten.
THEOREM OutcomeNeverChanges == Spec => OutcomeIsFinal
<1>1. InvocationInv /\ [Next]_vars =>
        [\A k \in Keys : row[k] \in Terminal =>
            row'[k] = row[k] /\ events'[k] = events[k]]_vars
  BY StepPreserves DEF OutcomeStep
<1> QED
  BY <1>1, Invariance, PTL DEF Spec, OutcomeIsFinal

-----------------------------------------------------------------------------
(* Revocation. *)

\* The states a revoked connector can still be moved through.
Withdrawn == {"revoked", "deletion_requested", "archived", "deleted"}

\* Nobody is past the gate of connector c, and nobody gets past it.
Closed(c) == connector[c] \in Withdrawn /\ Quiet(c)

LEMMA NoWayBack ==
  ASSUME NEW e \in TRANSITIONS, e.source \in Withdrawn
  PROVE  e.target \in Withdrawn
BY DEF Withdrawn, TRANSITIONS, Edge, FlaggedEdge, EnableSources, CREATABLE_STATES

\* A closed connector stays closed, and its keys are left alone.
LEMMA StaysClosed ==
  ASSUME TypeOK, NEW k \in Keys, Closed(ConnectorOf[k]), [Next]_vars
  PROVE  Closed(ConnectorOf[k])' /\ calls'[k] = calls[k] /\ row'[k] = row[k]
<1> DEFINE c == ConnectorOf[k]
<1>0. c \in Connectors
  BY ConnectorOfAssumption
<1>1. CASE UNCHANGED vars
  BY <1>1 DEF vars, table, Closed, Quiet
<1>2. ASSUME NEW d \in Connectors, Administer(d)
      PROVE  Closed(c)' /\ calls'[k] = calls[k] /\ row'[k] = row[k]
  <2>1. UNCHANGED <<table, pc, key, calls>>
    BY <1>2 DEF Administer
  <2>2. connector'[c] \in Withdrawn
    <3>1. CASE c = d
      <4>1. PICK s \in States :
              /\ \/ \E e \in TRANSITIONS : e.source = connector[d] /\ e.target = s
                 \/ s = "deletion_requested"
              /\ connector' = [connector EXCEPT ![d] = s]
        BY <1>2 DEF Administer
      <4>2. s \in Withdrawn
        BY <3>1, <4>1, NoWayBack DEF Closed, Withdrawn
      <4> QED
        BY <1>0, <3>1, <4>1, <4>2 DEF TypeOK
    <3>2. CASE c # d
      BY <1>0, <1>2, <3>2 DEF Administer, TypeOK, Closed
    <3> QED
      BY <3>1, <3>2
  <2> QED
    BY <2>1, <2>2 DEF Closed, Quiet, table
\* The handlers of other connectors, and new requests.
<1>3. ASSUME NEW h \in Handlers, Step(h) \/ Crash(h)
      PROVE  Closed(c)' /\ calls'[k] = calls[k] /\ row'[k] = row[k]
  <2>1. pc[h] # "idle" /\ UNCHANGED <<connector, key>> /\ \E l : pc' = [pc EXCEPT ![h] = l]
    BY <1>3 DEF Step, Lookup, Insert, Accept, UnknownKind, Start, Send, NotSent, Return,
       Finalise, Crash, Goto, Reply
  <2>2. ConnectorOf[key[h]] # c /\ key[h] # k
    BY <2>1 DEF Closed, Quiet
  <2>3. Closed(c)'
    BY <2>1, <2>2 DEF Closed, Quiet, TypeOK
  <2>4. row' = row \/ \E s : row' = [row EXCEPT ![key[h]] = s]
    BY <1>3, Zenon DEF Step, Lookup, Insert, Accept, UnknownKind, Start, Send, NotSent, Return,
       Finalise, Crash, Save, table
  <2>5. calls' = calls \/ calls' = [calls EXCEPT ![key[h]] = @ + 1]
    BY <1>3 DEF Step, Lookup, Insert, Accept, UnknownKind, Start, Send, NotSent, Return,
       Finalise, Crash, table
  <2> QED
    BY <2>2, <2>3, <2>4, <2>5 DEF TypeOK
<1>4. ASSUME NEW h \in Handlers, NEW j \in Keys, NEW p \in Paths, Request(h, j, p)
      PROVE  Closed(c)' /\ calls'[k] = calls[k] /\ row'[k] = row[k]
  <2>1. /\ UNCHANGED <<connector, table, calls>> /\ key' = [key EXCEPT ![h] = j]
        /\ pc' = [pc EXCEPT ![h] = IF is_executable(connector[ConnectorOf[j]])
                                    THEN "admitted" ELSE "idle"]
    BY <1>4 DEF Request, Goto, Reply
  <2>2. ConnectorOf[j] = c => ~is_executable(connector[ConnectorOf[j]])
    BY DEF Closed, Withdrawn, is_executable, EXECUTABLE_STATES
  <2>3. Quiet(c)'
    BY <2>1, <2>2 DEF Closed, Quiet, TypeOK
  <2> QED
    BY <2>1, <2>3 DEF Closed, table
<1> QED
  BY <1>1, <1>2, <1>3, <1>4 DEF Next

\* Once a connector is revoked and the requests that read it before are over,
\* no invocation is accepted and no provider called through it ever again,
\* wherever the administrators move it afterwards (lifecycle.py: "a connector
\* revoked between two requests cannot serve the second").
THEOREM RevocationIsKept == Spec => RevocationStopsNewUse
<1> SUFFICES ASSUME NEW k \in Keys
             PROVE  Spec => /\ [](connector[ConnectorOf[k]] = "revoked" /\ Quiet(ConnectorOf[k])
                                     /\ calls[k] = 0 => [](calls[k] = 0))
                            /\ [](connector[ConnectorOf[k]] = "revoked" /\ Quiet(ConnectorOf[k])
                                     /\ row[k] = "none" => [](row[k] = "none"))
  BY DEF RevocationStopsNewUse
<1> DEFINE NoCall == Closed(ConnectorOf[k]) /\ calls[k] = 0
           NoRow  == Closed(ConnectorOf[k]) /\ row[k] = "none"
<1>1. TypeOK /\ NoCall /\ [Next]_vars => NoCall'
  BY StaysClosed
<1>2. TypeOK /\ NoRow /\ [Next]_vars => NoRow'
  BY StaysClosed
<1>3. /\ connector[ConnectorOf[k]] = "revoked" /\ Quiet(ConnectorOf[k]) /\ calls[k] = 0 => NoCall
      /\ connector[ConnectorOf[k]] = "revoked" /\ Quiet(ConnectorOf[k]) /\ row[k] = "none" => NoRow
  BY DEF Closed, Withdrawn
<1>4. (NoCall => calls[k] = 0) /\ (NoRow => row[k] = "none")
  OBVIOUS
<1> QED
  BY <1>1, <1>2, <1>3, <1>4, TypeCorrect, PTL DEF Spec
=============================================================================

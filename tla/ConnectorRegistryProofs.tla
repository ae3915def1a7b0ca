----------------------- MODULE ConnectorRegistryProofs -----------------------
(***************************************************************************)
(* Proofs about ConnectorRegistry, for any number of connectors, tenants,  *)
(* handlers and versions.  What makes a stale write harmless to a revoked  *)
(* connector is the unique constraint on the audit table; the invariant    *)
(* below says why it is enough although DELETE writes no audit row.        *)
(***************************************************************************)
EXTENDS ConnectorRegistry, SequenceTheorems, TLAPS

\* A handler that has read a live connector, and may still write to it
\* because the audit slot it will ask for is free.
HoldsLive(r) == pc[r] # "idle" /\ snap[r].status \in CREATABLE_STATES

Fresh(r) == HoldsLive(r) /\ AuditSlotFree(snap[r].conn, snap[r].version + 1)

\* Rows and audit entries are created together, and only existing rows are read.
RowsExist ==
  /\ \A c \in Connectors : status[c] = Absent => audit[c] = {}
  /\ \A r \in Requests : pc[r] # "idle" => status[snap[r].conn] # Absent

\* Every version up to the one a handler read in a live connector is audited.
SnapshotsAudited ==
  \A r \in Requests : HoldsLive(r) =>
    \A v \in 1..snap[r].version : ~AuditSlotFree(snap[r].conn, v)

\* A handler that may still write read the connector before any revocation.
FreshUnrevoked == \A r \in Requests : Fresh(r) => ~EverRevoked(snap[r].conn)

\* If the connector is live now, it read exactly what the row says now.
FreshCurrent ==
  \A r \in Requests : Fresh(r) /\ Live(snap[r].conn) =>
    /\ snap[r].version = version[snap[r].conn]
    /\ snap[r].status = status[snap[r].conn]

\* All handlers that may still write to a connector compete for one slot.
FreshAgree ==
  \A q, r \in Requests : Fresh(q) /\ Fresh(r) /\ snap[q].conn = snap[r].conn =>
    snap[q].version = snap[r].version

RegistryInv ==
  /\ TypeOK /\ RowsExist /\ LiveIsFullyAudited /\ RevocationIsFinal
  /\ SnapshotsAudited /\ FreshUnrevoked /\ FreshCurrent /\ FreshAgree

-----------------------------------------------------------------------------

\* The lifecycle table: its edges are typed, no edge leads from outside the
\* live states into them, and the edges that a handler takes from a row it
\* read before the lock, validations and rotations, stay within them.
LEMMA EdgeFacts ==
  ASSUME NEW e \in TRANSITIONS
  PROVE  /\ e.source \in States /\ e.target \in States /\ e.event \in Events
         /\ e.target \in CREATABLE_STATES => e.source \in CREATABLE_STATES
         /\ e.event = "connector.revoked" =>
              e.source \in CREATABLE_STATES /\ e.target \notin CREATABLE_STATES
         /\ e.event \in {"connector.validation_succeeded",
                         "connector.validation_failed",
                         "connector.credentials_rotated"} =>
              e.source \in CREATABLE_STATES /\ e.target \in CREATABLE_STATES
  BY DEF TRANSITIONS, Edge, FlaggedEdge, EnableSources, CREATABLE_STATES,
         States, Events

\* A handler that ends without touching the database disturbs nothing.
LEMMA EndsQuietly ==
  ASSUME RegistryInv, NEW r \in Requests, UNCHANGED db,
         pc' = [pc EXCEPT ![r] = "idle"], snap' = [snap EXCEPT ![r] = NoSnap],
         answer' \in [Requests -> {"none", "ok", "refused", "failed"}]
  PROVE  RegistryInv'
<1> USE DEF RegistryInv, db
<1>1. TypeOK'
  BY DEF TypeOK
<1>2. ASSUME NEW q \in Requests, pc'[q] # "idle"
      PROVE  pc[q] # "idle" /\ snap'[q] = snap[q]
  BY <1>2 DEF TypeOK
<1>3. RowsExist'
  BY <1>2 DEF RowsExist
<1>4. LiveIsFullyAudited' /\ RevocationIsFinal'
  BY DEF LiveIsFullyAudited, RevocationIsFinal, Live, Audited, EverRevoked
<1>5. \A q \in Requests : HoldsLive(q)' => HoldsLive(q) /\ snap'[q] = snap[q]
  BY <1>2 DEF HoldsLive
<1>6. \A q \in Requests : Fresh(q)' => Fresh(q) /\ snap'[q] = snap[q]
  BY <1>5 DEF Fresh, AuditSlotFree
<1>7. SnapshotsAudited'
  BY <1>5 DEF SnapshotsAudited, AuditSlotFree
<1>8. FreshUnrevoked'
  BY <1>6 DEF FreshUnrevoked, EverRevoked
<1>9. FreshCurrent'
  BY <1>6 DEF FreshCurrent, Live
<1>10. FreshAgree'
  BY <1>6 DEF FreshAgree
<1> QED
  BY <1>1, <1>3, <1>4, <1>7, <1>8, <1>9, <1>10

\* In particular a handler that only answers.
LEMMA AnswersQuietly ==
  ASSUME RegistryInv, NEW r \in Requests,
         NEW class \in {"ok", "refused", "failed"}, AnswerOnly(r, class)
  PROVE  RegistryInv'
  BY EndsQuietly DEF AnswerOnly, Answer, RegistryInv, TypeOK

-----------------------------------------------------------------------------

\* The database half of a committed transition.
Commits(c, s, v, e) ==
  /\ status'  = [status EXCEPT ![c] = IF e.target = s THEN @ ELSE e.target]
  /\ version' = [version EXCEPT ![c] = v + 1]
  /\ audit'   = [audit EXCEPT ![c] = @ \cup {AuditRow(v + 1, s, e.target, e.event)}]
  /\ events'  = [events EXCEPT ![c] = Append(@, [version |-> v + 1, subject |-> e.event])]

\* A transition committed by apply preserves the invariant, both when s and v
\* are what the row says at that moment and when they are what the handler
\* read earlier: then the free slot proves that nobody has moved the
\* connector since, except by DELETE.
LEMMA CommitPreserves ==
  ASSUME RegistryInv, NEW r \in Requests, NEW c \in Connectors,
         NEW s \in States, NEW v \in Versions, NEW e \in TRANSITIONS,
         e.source = s, v < MaxVersion, AuditSlotFree(c, v + 1),
         status[c] # Absent, Commits(c, s, v, e), Answer(r, "ok"),
         \/ s = status[c] /\ v = version[c]
         \/ /\ pc[r] # "idle" /\ e.target \in CREATABLE_STATES
            /\ snap[r].conn = c /\ snap[r].status = s /\ snap[r].version = v
  PROVE  RegistryInv' /\ (Live(c) => v = version[c])
<1> USE DEF RegistryInv
<1> DEFINE row == AuditRow(v + 1, s, e.target, e.event)
<1>0. /\ e.source \in States /\ e.target \in States /\ e.event \in Events
      /\ e.target \in CREATABLE_STATES => s \in CREATABLE_STATES
      /\ e.event = "connector.revoked" => s \in CREATABLE_STATES /\ e.target \notin CREATABLE_STATES
  BY EdgeFacts
<1>1. TypeOK'
  <2>1. v + 1 \in Versions
    BY BoundAssumption DEF Versions
  <2>2. row \in AuditRows
    BY <1>0, <2>1 DEF AuditRow, AuditRows, Subjects
  <2>3. status' \in [Connectors -> Statuses] /\ version' \in [Connectors -> Versions]
    BY <1>0, <2>1 DEF TypeOK, Commits, Statuses
  <2>4. audit' \in [Connectors -> SUBSET AuditRows]
    BY <2>2 DEF TypeOK, Commits
  <2>5. events' \in [Connectors -> Seq([version : Versions, subject : Subjects])]
    <3> DEFINE E == [version : Versions, subject : Subjects]
               x == [version |-> v + 1, subject |-> e.event]
    <3>1. x \in E
      BY <1>0, <2>1 DEF Subjects
    <3>2. events \in [Connectors -> Seq(E)] /\ events' = [events EXCEPT ![c] = Append(@, x)]
      BY DEF TypeOK, Commits
    <3> HIDE DEF E, x
    <3>3. events' \in [Connectors -> Seq(E)]
      BY <3>1, <3>2
    <3> QED
      BY <3>3 DEF E
  <2>6. /\ pc' \in [Requests -> {"idle", "validate", "rotate"}]
        /\ answer' \in [Requests -> {"none", "ok", "refused", "failed"}]
        /\ DOMAIN snap' = Requests
        /\ \A q \in Requests : pc'[q] # "idle" => snap'[q] \in Snapshots
    BY DEF TypeOK, Answer
  <2> QED
    BY <2>3, <2>4, <2>5, <2>6 DEF TypeOK
<1>2. /\ \A d \in Connectors : d # c => status'[d] = status[d] /\ version'[d] = version[d]
                                       /\ audit'[d] = audit[d]
      /\ version'[c] = v + 1
      /\ status'[c] = IF e.target = s THEN status[c] ELSE e.target
      /\ audit'[c] = audit[c] \cup {row}
      /\ row.version = v + 1 /\ row.to = e.target /\ row.event = e.event
  BY DEF TypeOK, Commits, AuditRow
<1>3. /\ pc'[r] = "idle"
      /\ \A q \in Requests : pc'[q] # "idle" =>
           /\ pc[q] # "idle" /\ snap'[q] = snap[q] /\ snap[q] \in Snapshots
  BY DEF TypeOK, Answer
<1>4. \A d \in Connectors, n \in Nat : AuditSlotFree(d, n)' => AuditSlotFree(d, n)
  BY <1>2 DEF AuditSlotFree
<1>5. \A q \in Requests : HoldsLive(q)' => HoldsLive(q) /\ snap'[q] = snap[q] /\ snap[q] \in Snapshots
  BY <1>3 DEF HoldsLive
<1>6. \A q \in Requests : Fresh(q)' => Fresh(q) /\ snap'[q] = snap[q] /\ snap[q] \in Snapshots
  <2>1. \A q \in Requests : snap[q] \in Snapshots =>
          snap[q].conn \in Connectors /\ snap[q].version + 1 \in Nat
    BY BoundAssumption DEF Snapshots, Versions
  <2> QED
    BY <1>4, <1>5, <2>1 DEF Fresh, AuditSlotFree
<1>7. s \in CREATABLE_STATES => \A q \in Requests : Fresh(q)' => snap[q].conn # c
  <2> SUFFICES ASSUME s \in CREATABLE_STATES, NEW q \in Requests, Fresh(q)', snap[q].conn = c
               PROVE  FALSE
    OBVIOUS
  <2>1. Fresh(q) /\ snap'[q] = snap[q] /\ snap[q] \in Snapshots
    BY <1>6
  <2>2. snap[q].version = v
    <3>1. CASE s = status[c] /\ v = version[c]
      BY <2>1, <3>1 DEF FreshCurrent, Live
    <3>2. CASE pc[r] # "idle" /\ snap[r].conn = c /\ snap[r].status = s /\ snap[r].version = v
      <4>1. Fresh(r)
        BY <3>2 DEF Fresh, HoldsLive
      <4> QED
        BY <2>1, <3>2, <4>1 DEF FreshAgree
    <3> QED
      BY <3>1, <3>2
  <2>3. ~AuditSlotFree(c, v + 1)'
    BY <1>2 DEF AuditSlotFree
  <2> QED
    BY <2>1, <2>2, <2>3 DEF Fresh
<1>8. RowsExist'
  <2>1. status'[c] # Absent
    BY <1>0, <1>2 DEF States, Absent
  <2> QED
    BY <1>2, <1>3, <2>1 DEF RowsExist, Snapshots
<1>9. Live(c) => v = version[c] /\ s = status[c]
  <2>1. CASE s = status[c] /\ v = version[c]
    BY <2>1
  <2>2. CASE /\ pc[r] # "idle" /\ e.target \in CREATABLE_STATES
             /\ snap[r].conn = c /\ snap[r].status = s /\ snap[r].version = v
    BY <1>0, <2>2 DEF FreshCurrent, Fresh, HoldsLive, Live
  <2> QED
    BY <2>1, <2>2
<1>10. status'[c] \in CREATABLE_STATES =>
         /\ e.target \in CREATABLE_STATES /\ status'[c] = e.target
         /\ ~EverRevoked(c)
         /\ \A n \in 1..v : ~AuditSlotFree(c, n)
  <2> SUFFICES ASSUME status'[c] \in CREATABLE_STATES
               PROVE  /\ e.target \in CREATABLE_STATES /\ status'[c] = e.target
                      /\ ~EverRevoked(c)
                      /\ \A n \in 1..v : ~AuditSlotFree(c, n)
    OBVIOUS
  <2>1. e.target \in CREATABLE_STATES /\ status'[c] = e.target
    BY <1>0, <1>2, <1>9 DEF Live
  <2>2. CASE s = status[c] /\ v = version[c]
    <3>1. Live(c)
      BY <1>0, <2>1, <2>2 DEF Live
    <3>2. 1..v \subseteq Audited(c) /\ ~EverRevoked(c)
      BY <3>1, <2>2 DEF LiveIsFullyAudited, RevocationIsFinal
    <3> QED
      BY <2>1, <3>2 DEF Audited, AuditSlotFree
  <2>3. CASE /\ pc[r] # "idle"
             /\ snap[r].conn = c /\ snap[r].status = s /\ snap[r].version = v
    <3>1. HoldsLive(r) /\ Fresh(r)
      BY <1>0, <2>1, <2>3 DEF Fresh, HoldsLive
    <3> QED
      BY <2>1, <2>3, <3>1 DEF SnapshotsAudited, FreshUnrevoked
  <2> QED
    BY <2>2, <2>3
<1>11. LiveIsFullyAudited'
  <2> SUFFICES ASSUME NEW d \in Connectors, Live(d)'
               PROVE  /\ 1..version'[d] \subseteq Audited(d)'
                      /\ \E a \in audit'[d] : a.version = version'[d] /\ a.to = status'[d]
    BY DEF LiveIsFullyAudited
  <2>1. CASE d # c
    BY <1>2, <2>1 DEF LiveIsFullyAudited, Live, Audited
  <2>2. CASE d = c
    <3>1. \A n \in 1..v : n \in Audited(c)'
      BY <1>2, <1>10, <2>2 DEF Live, Audited, AuditSlotFree
    <3>2. v + 1 \in Audited(c)' /\ row \in audit'[c]
      BY <1>2 DEF Audited
    <3>3. \A n \in 1..(v + 1) : n \in 1..v \/ n = v + 1
      BY BoundAssumption DEF Versions
    <3> QED
      BY <1>2, <1>10, <2>2, <3>1, <3>2, <3>3 DEF Live
  <2> QED
    BY <2>1, <2>2
<1>12. RevocationIsFinal'
  <2>1. \A d \in Connectors : d # c => (EverRevoked(d)' => EverRevoked(d)) /\ (Live(d)' => Live(d))
    BY <1>2 DEF EverRevoked, Live
  <2>2. Live(c)' => ~EverRevoked(c)'
    BY <1>0, <1>2, <1>10 DEF EverRevoked, Live
  <2> QED
    BY <2>1, <2>2 DEF RevocationIsFinal
<1>13. SnapshotsAudited'
  <2>1. \A q \in Requests : snap[q] \in Snapshots =>
          snap[q].conn \in Connectors /\ 1..snap[q].version \subseteq Nat
    BY BoundAssumption DEF Snapshots, Versions
  <2> QED
    BY <1>4, <1>5, <2>1 DEF SnapshotsAudited, AuditSlotFree
<1>14. FreshUnrevoked'
  <2> SUFFICES ASSUME NEW q \in Requests, Fresh(q)', EverRevoked(snap[q].conn)'
               PROVE  FALSE
    BY DEF FreshUnrevoked
  <2>1. Fresh(q) /\ snap'[q] = snap[q] /\ snap[q].conn \in Connectors /\ ~EverRevoked(snap[q].conn)
    BY <1>6 DEF FreshUnrevoked, Snapshots
  <2>2. snap[q].conn = c /\ e.event = "connector.revoked"
    BY <1>2, <2>1 DEF EverRevoked
  <2> QED
    BY <1>0, <1>7, <2>2
<1>15. FreshCurrent'
  <2> SUFFICES ASSUME NEW q \in Requests, Fresh(q)', Live(snap[q].conn)'
               PROVE  /\ snap'[q].version = version'[snap'[q].conn]
                      /\ snap'[q].status = status'[snap'[q].conn]
    BY DEF FreshCurrent
  <2>1. Fresh(q) /\ snap'[q] = snap[q] /\ snap[q].conn \in Connectors
    BY <1>6 DEF Snapshots
  <2>2. snap[q].conn # c
    BY <1>0, <1>7, <1>10, <2>1 DEF Live
  <2> QED
    BY <1>2, <2>1, <2>2 DEF FreshCurrent, Live
<1>16. FreshAgree'
  BY <1>6 DEF FreshAgree
<1> QED
  BY <1>1, <1>8, <1>9, <1>11, <1>12, <1>13, <1>14, <1>15, <1>16

-----------------------------------------------------------------------------

\* What a step may do to the version column of a connector that stays live.
VersionStep ==
  \A c \in Connectors :
    Live(c) /\ status'[c] \in CREATABLE_STATES => version'[c] >= version[c]

\* An untouched database takes no version back.
LEMMA UnchangedVersion ==
  ASSUME TypeOK, UNCHANGED db
  PROVE  VersionStep
  BY BoundAssumption DEF VersionStep, TypeOK, Versions, db

\* transitions.apply, on the current row or on the one read earlier.
LEMMA ApplyPreserves ==
  ASSUME RegistryInv, NEW r \in Requests, NEW c \in Connectors,
         NEW s \in States, NEW v \in Versions, NEW target, NEW event,
         NEW reason \in BOOLEAN, NEW rejection \in {"ok", "refused"},
         status[c] # Absent,
         apply(r, c, s, v, target, event, reason, rejection),
         \/ s = status[c] /\ v = version[c]
         \/ /\ pc[r] # "idle"
            /\ event \in {"connector.validation_succeeded",
                          "connector.validation_failed",
                          "connector.credentials_rotated"}
            /\ snap[r].conn = c /\ snap[r].status = s /\ snap[r].version = v
  PROVE  RegistryInv' /\ VersionStep
<1>1. ASSUME NEW class \in {"ok", "refused", "failed"}, AnswerOnly(r, class)
      PROVE  RegistryInv' /\ VersionStep
  <2>1. RegistryInv'
    BY <1>1, AnswersQuietly
  <2>2. VersionStep
    BY <1>1, UnchangedVersion DEF AnswerOnly, RegistryInv
  <2> QED
    BY <2>1, <2>2
<1>2. CASE find(s, target, event) = {}
          /\ AnswerOnly(r, IF idempotent_repeat(s, target) THEN "ok" ELSE rejection)
  BY <1>1, <1>2
<1>3. ASSUME NEW e \in find(s, target, event),
             IF e.requires_reason /\ ~reason
             THEN AnswerOnly(r, "refused")
             ELSE WriteEdge(r, c, s, v, e)
      PROVE  RegistryInv' /\ VersionStep
  <2>1. e \in TRANSITIONS /\ e.source = s /\ event \in {NoEvent, e.event}
    BY <1>3 DEF find
  <2>2. CASE AnswerOnly(r, "refused") \/ AnswerOnly(r, "failed")
    BY <1>1, <2>2
  <2>3. CASE /\ v < MaxVersion /\ AuditSlotFree(c, v + 1)
             /\ Commits(c, s, v, e) /\ Answer(r, "ok")
    <3>1. \/ s = status[c] /\ v = version[c]
          \/ /\ pc[r] # "idle" /\ e.target \in CREATABLE_STATES
             /\ snap[r].conn = c /\ snap[r].status = s /\ snap[r].version = v
      BY <2>1, EdgeFacts DEF NoEvent
    <3>2. RegistryInv' /\ (Live(c) => v = version[c])
      BY <2>1, <2>3, <3>1, CommitPreserves
    <3>3. VersionStep
      BY <2>3, <3>2, BoundAssumption
         DEF VersionStep, Commits, RegistryInv, TypeOK, Versions
    <3> QED
      BY <3>2, <3>3
  <2> QED
    BY <1>3, <2>2, <2>3 DEF WriteEdge, Commits
<1> QED
  BY <1>2, <1>3 DEF apply

\* create_connector: no handler has read the new id.
LEMMA CreatePreserves ==
  ASSUME RegistryInv, NEW r \in Requests, NEW c \in Connectors,
         NEW s \in CREATABLE_STATES, Create(r, c, s)
  PROVE  RegistryInv' /\ VersionStep
<1>1. CASE AnswerOnly(r, "refused")
  <2>1. RegistryInv'
    BY <1>1, AnswersQuietly
  <2>2. VersionStep
    BY <1>1, UnchangedVersion DEF AnswerOnly, RegistryInv
  <2> QED
    BY <2>1, <2>2
<1>2. CASE ~NameTaken(c)
  <2> USE DEF RegistryInv
  <2> DEFINE row == AuditRow(1, "", s, "connector.created")
  <2>1. /\ \A d \in Connectors : d # c => status'[d] = status[d] /\ version'[d] = version[d]
                                          /\ audit'[d] = audit[d]
        /\ status[c] = Absent /\ status'[c] = s /\ version'[c] = 1 /\ audit'[c] = {row}
        /\ row.version = 1 /\ row.to = s /\ row.event = "connector.created"
        /\ Answer(r, "ok") /\ s \in States
    BY <1>2 DEF Create, TypeOK, AuditRow, CREATABLE_STATES, States
  <2>2. \A q \in Requests : pc'[q] # "idle" =>
          /\ pc[q] # "idle" /\ snap'[q] = snap[q] /\ snap[q] \in Snapshots
          /\ snap[q].conn \in Connectors /\ snap[q].conn # c
    BY <2>1 DEF Answer, TypeOK, RowsExist, Snapshots
  <2>3. TypeOK'
    <3>0. MaxVersion >= 1
      BY DEF Create
    <3>1. 1 \in Versions
      BY ONLY <3>0, BoundAssumption DEF Versions
    <3>2. row \in AuditRows
      BY <2>1, <3>1 DEF AuditRow, AuditRows, Subjects
    <3>3. status' \in [Connectors -> Statuses] /\ version' \in [Connectors -> Versions]
      BY <1>2, <2>1, <3>1 DEF Create, TypeOK, Statuses
    <3>4. audit' \in [Connectors -> SUBSET AuditRows]
      <4>1. audit \in [Connectors -> SUBSET AuditRows] /\ audit' = [audit EXCEPT ![c] = {row}]
        BY <1>2 DEF Create, TypeOK
      <4> HIDE DEF row
      <4> QED
        BY <3>2, <4>1
    <3>5. events' \in [Connectors -> Seq([version : Versions, subject : Subjects])]
      <4> DEFINE E == [version : Versions, subject : Subjects]
                 x == [version |-> 1, subject |-> "connector.created"]
      <4>1. x \in E
        BY <3>1 DEF Subjects
      <4>2. events \in [Connectors -> Seq(E)] /\ events' = [events EXCEPT ![c] = <<x>>]
        BY <1>2 DEF Create, TypeOK
      <4> HIDE DEF E, x
      <4>3. events' \in [Connectors -> Seq(E)]
        BY <4>1, <4>2
      <4> QED
        BY <4>3 DEF E
    <3> QED
      BY <2>1, <3>3, <3>4, <3>5 DEF TypeOK, Answer
  <2> HIDE DEF row
  <2>4. RowsExist'
    BY <2>1, <2>2 DEF RowsExist, CREATABLE_STATES, Absent
  <2>5. LiveIsFullyAudited'
    BY <2>1 DEF LiveIsFullyAudited, Live, Audited
  <2>6. RevocationIsFinal'
    BY <2>1 DEF RevocationIsFinal, EverRevoked, Live
  <2>7. \A q \in Requests : HoldsLive(q)' => HoldsLive(q)
    BY <2>2 DEF HoldsLive
  <2>8. \A q \in Requests : Fresh(q)' => Fresh(q) /\ pc'[q] # "idle"
    BY <2>1, <2>2, <2>7 DEF Fresh, HoldsLive, AuditSlotFree
  <2>9. SnapshotsAudited'
    BY <2>1, <2>2, <2>7 DEF SnapshotsAudited, HoldsLive, AuditSlotFree
  <2>10. FreshUnrevoked'
    BY <2>1, <2>2, <2>8 DEF FreshUnrevoked, EverRevoked
  <2>11. FreshCurrent'
    BY <2>1, <2>2, <2>8 DEF FreshCurrent, Live
  <2>12. FreshAgree'
    BY <2>2, <2>8 DEF FreshAgree
  <2>13. VersionStep
    <3>1. ~Live(c)
      BY <2>1 DEF Live, Absent, CREATABLE_STATES
    <3>2. \A d \in Connectors : version[d] >= version[d]
      BY BoundAssumption DEF TypeOK, Versions
    <3> QED
      BY <2>1, <3>1, <3>2 DEF VersionStep
  <2> QED
    BY <2>3, <2>4, <2>5, <2>6, <2>9, <2>10, <2>11, <2>12, <2>13
<1> QED
  BY <1>1, <1>2 DEF Create

\* The unlocked read: what it sees of a live connector is current.
LEMMA ReadPreserves ==
  ASSUME RegistryInv, NEW r \in Requests, NEW c \in Connectors, NEW tenant,
         NEW endpoint \in {"validate", "rotate"}, BeginRead(r, c, tenant, endpoint)
  PROVE  RegistryInv' /\ VersionStep
<1>1. CASE AnswerOnly(r, "refused")
  <2>1. RegistryInv'
    BY <1>1, AnswersQuietly
  <2>2. VersionStep
    BY <1>1, UnchangedVersion DEF AnswerOnly, RegistryInv
  <2> QED
    BY <2>1, <2>2
<1>2. CASE Visible(c, tenant)
  <2> USE DEF RegistryInv, db
  <2>1. /\ UNCHANGED <<status, version, audit, events, answer>>
        /\ pc' = [pc EXCEPT ![r] = endpoint]
        /\ snap' = [snap EXCEPT ![r] = [conn |-> c, status |-> status[c],
                                        version |-> version[c]]]
        /\ status[c] # Absent
    BY <1>2 DEF BeginRead, Visible
  <2>2. /\ snap'[r].conn = c /\ snap'[r].status = status[c]
        /\ snap'[r].version = version[c]
        /\ \A q \in Requests : q # r => pc'[q] = pc[q] /\ snap'[q] = snap[q]
    BY <2>1 DEF TypeOK
  <2>3. TypeOK'
    BY <2>1 DEF TypeOK, Snapshots, Statuses
  <2>4. RowsExist'
    BY <2>1, <2>2 DEF RowsExist
  <2>5. LiveIsFullyAudited' /\ RevocationIsFinal'
    BY <2>1 DEF LiveIsFullyAudited, RevocationIsFinal, Live, Audited, EverRevoked
  <2>6. \A q \in Requests : q # r => /\ HoldsLive(q)' = HoldsLive(q)
                                     /\ Fresh(q)' = Fresh(q)
    BY <2>1, <2>2 DEF HoldsLive, Fresh, AuditSlotFree
  <2>7. HoldsLive(r)' => Live(c)
    BY <2>2 DEF HoldsLive, Live
  <2>8. Live(c) => ~EverRevoked(c) /\ \A n \in 1..version[c] : ~AuditSlotFree(c, n)
    BY DEF RevocationIsFinal, LiveIsFullyAudited, Audited, AuditSlotFree
  <2>9. SnapshotsAudited'
    BY <2>1, <2>2, <2>6, <2>7, <2>8 DEF SnapshotsAudited, AuditSlotFree
  <2>10. FreshUnrevoked'
    BY <2>1, <2>2, <2>6, <2>7, <2>8 DEF FreshUnrevoked, Fresh, EverRevoked
  <2>11. FreshCurrent'
    BY <2>1, <2>2, <2>6 DEF FreshCurrent, Live
  <2>12. FreshAgree'
    <3>1. \A q \in Requests : q # r /\ Fresh(q) /\ snap[q].conn = c /\ Live(c) =>
                               snap[q].version = version[c]
      BY DEF FreshCurrent
    <3> QED
      BY <2>2, <2>6, <2>7, <3>1 DEF FreshAgree, Fresh
  <2>13. VersionStep
    BY <2>1, UnchangedVersion
  <2> QED
    BY <2>3, <2>4, <2>5, <2>9, <2>10, <2>11, <2>12, <2>13
<1> QED
  BY <1>1, <1>2 DEF BeginRead

\* DELETE: the connector leaves the live states and its audit slots stay.
LEMMA DeletionPreserves ==
  ASSUME RegistryInv, NEW r \in Requests, NEW c \in Connectors, NEW tenant,
         RequestDeletion(r, c, tenant)
  PROVE  RegistryInv' /\ VersionStep
<1>1. ASSUME NEW class \in {"ok", "refused"}, AnswerOnly(r, class)
      PROVE  RegistryInv' /\ VersionStep
  <2>1. RegistryInv'
    BY <1>1, AnswersQuietly
  <2>2. VersionStep
    BY <1>1, UnchangedVersion DEF AnswerOnly, RegistryInv
  <2> QED
    BY <2>1, <2>2
<1>2. CASE /\ version[c] < MaxVersion /\ status[c] # Absent
           /\ status'  = [status EXCEPT ![c] = "deletion_requested"]
           /\ version' = [version EXCEPT ![c] = @ + 1]
           /\ events'  = [events EXCEPT ![c] =
                Append(@, [version |-> version[c] + 1,
                           subject |-> "connector.deletion_requested"])]
           /\ UNCHANGED audit
           /\ Answer(r, "ok")
  <2> USE DEF RegistryInv
  <2>1. /\ \A d \in Connectors : d # c => status'[d] = status[d] /\ version'[d] = version[d]
        /\ status'[c] = "deletion_requested" /\ "deletion_requested" \in States
        /\ "deletion_requested" \notin CREATABLE_STATES
        /\ "deletion_requested" # Absent
    BY <1>2 DEF TypeOK, CREATABLE_STATES, Absent, States
  <2>2. \A q \in Requests : pc'[q] # "idle" =>
          pc[q] # "idle" /\ snap'[q] = snap[q] /\ snap[q].conn \in Connectors
    BY <1>2 DEF Answer, TypeOK, Snapshots
  <2>3. TypeOK'
    <3>1. version[c] + 1 \in Versions
      BY <1>2, BoundAssumption DEF TypeOK, Versions
    <3>3. events' \in [Connectors -> Seq([version : Versions, subject : Subjects])]
      <4> DEFINE E == [version : Versions, subject : Subjects]
                 x == [version |-> version[c] + 1,
                       subject |-> "connector.deletion_requested"]
      <4>1. x \in E
        BY <3>1 DEF Subjects, Events
      <4>2. events \in [Connectors -> Seq(E)] /\ events' = [events EXCEPT ![c] = Append(@, x)]
        BY <1>2 DEF TypeOK
      <4> HIDE DEF E, x
      <4>3. events' \in [Connectors -> Seq(E)]
        BY <4>1, <4>2
      <4> QED
        BY <4>3 DEF E
    <3> QED
      BY <1>2, <2>1, <3>1, <3>3 DEF TypeOK, Answer, Statuses
  <2>4. RowsExist'
    BY <1>2, <2>1, <2>2 DEF RowsExist
  <2>5. \A d \in Connectors : Live(d)' => d # c /\ Live(d)
    BY <2>1 DEF Live
  <2>6. LiveIsFullyAudited' /\ RevocationIsFinal'
    BY <1>2, <2>1, <2>5 DEF LiveIsFullyAudited, RevocationIsFinal, Audited, EverRevoked
  <2>7. \A q \in Requests : HoldsLive(q)' => HoldsLive(q) /\ pc'[q] # "idle"
    BY <2>2 DEF HoldsLive
  <2>8. \A q \in Requests : Fresh(q)' => Fresh(q) /\ pc'[q] # "idle"
    BY <1>2, <2>2, <2>7 DEF Fresh, AuditSlotFree
  <2>9. SnapshotsAudited'
    BY <1>2, <2>2, <2>7 DEF SnapshotsAudited, AuditSlotFree
  <2>10. FreshUnrevoked'
    BY <1>2, <2>2, <2>8 DEF FreshUnrevoked, EverRevoked
  <2>11. FreshCurrent'
    BY <2>1, <2>2, <2>5, <2>8 DEF FreshCurrent, Live
  <2>12. FreshAgree'
    BY <2>2, <2>8 DEF FreshAgree
  <2>13. VersionStep
    BY <1>2, <2>1, BoundAssumption DEF VersionStep, TypeOK, Versions
  <2> QED
    BY <2>3, <2>4, <2>6, <2>9, <2>10, <2>11, <2>12, <2>13
<1> QED
  BY <1>1, <1>2 DEF RequestDeletion, Visible

-----------------------------------------------------------------------------

\* Every step of every handler preserves the invariant and takes no version
\* of a live connector back.
LEMMA StepPreserves ==
  ASSUME RegistryInv, [Next]_vars
  PROVE  RegistryInv' /\ (Next => VersionStep)
<1>1. CASE UNCHANGED vars
  <2> USE <1>1 DEF vars, RegistryInv
  <2>0. TypeOK' /\ RowsExist' /\ LiveIsFullyAudited' /\ RevocationIsFinal'
    BY DEF TypeOK, RowsExist, LiveIsFullyAudited, RevocationIsFinal, Live, Audited,
       EverRevoked
  <2>1. RegistryInv'
    BY <2>0 DEF SnapshotsAudited, FreshUnrevoked, FreshCurrent, FreshAgree,
       Fresh, HoldsLive, Live, EverRevoked, AuditSlotFree
  <2>2. VersionStep
    BY <1>1, UnchangedVersion DEF vars, db, RegistryInv
  <2> QED
    BY <2>1, <2>2
<1>2. ASSUME NEW r \in Requests, Abandon(r)
      PROVE  RegistryInv' /\ VersionStep
  <2>1. RegistryInv'
    BY <1>2, EndsQuietly DEF Abandon, RegistryInv, TypeOK
  <2>2. VersionStep
    BY <1>2, UnchangedVersion DEF Abandon, RegistryInv
  <2> QED
    BY <2>1, <2>2
<1>3. ASSUME NEW r \in Requests, pc[r] # "idle"
      PROVE  /\ snap[r].conn \in Connectors /\ snap[r].status \in States
             /\ snap[r].version \in Versions /\ status[snap[r].conn] # Absent
  BY <1>3 DEF RegistryInv, TypeOK, RowsExist, Snapshots
<1>4. ASSUME NEW r \in Requests, NEW valid \in BOOLEAN, EndValidate(r, valid)
      PROVE  RegistryInv' /\ VersionStep
  BY <1>3, <1>4, ApplyPreserves DEF EndValidate
<1>5. ASSUME NEW r \in Requests, NEW reason \in BOOLEAN, EndRotate(r, reason)
      PROVE  RegistryInv' /\ VersionStep
  BY <1>3, <1>5, ApplyPreserves DEF EndRotate
<1>6. ASSUME NEW r \in Requests, NEW class \in {"ok", "refused"}, AnswerOnly(r, class)
      PROVE  RegistryInv' /\ VersionStep
  <2>1. RegistryInv'
    BY <1>6, AnswersQuietly
  <2>2. VersionStep
    BY <1>6, UnchangedVersion DEF AnswerOnly, RegistryInv
  <2> QED
    BY <2>1, <2>2
<1>7. ASSUME NEW r \in Requests, NEW c \in Connectors, CreateInvalid(r, c)
      PROVE  RegistryInv' /\ VersionStep
  BY <1>6, <1>7 DEF CreateInvalid
<1>8. ASSUME NEW r \in Requests, NEW c \in Connectors, NEW tenant \in Tenants,
             NEW endpoint \in PlainEndpoints, NEW reason \in BOOLEAN,
             Transition(r, c, tenant, endpoint, reason)
      PROVE  RegistryInv' /\ VersionStep
  <2>1. CASE AnswerOnly(r, "refused")
    BY <1>6, <2>1
  <2>2. CASE /\ Visible(c, tenant)
             /\ apply(r, c, status[c], version[c], EndpointTarget[endpoint],
                      EndpointEvent[endpoint], reason, "refused")
    <3>1. status[c] \in States /\ status[c] # Absent /\ version[c] \in Versions
      BY <2>2 DEF Visible, RegistryInv, TypeOK, Statuses
    <3> QED
      BY <2>2, <3>1, ApplyPreserves
  <2> QED
    BY <1>8, <2>1, <2>2 DEF Transition
<1>9. ASSUME NEW r \in Requests, NEW c \in Connectors, NEW tenant \in Tenants,
             BeginValidate(r, c, tenant) \/ BeginRotate(r, c, tenant)
      PROVE  RegistryInv' /\ VersionStep
  BY <1>9, ReadPreserves DEF BeginValidate, BeginRotate
<1> QED
  BY <1>1, <1>2, <1>4, <1>5, <1>7, <1>8, <1>9, CreatePreserves, DeletionPreserves DEF Next

\* The strengthened invariant holds in every reachable state.
THEOREM Invariance == Spec => []RegistryInv
<1>1. Init => RegistryInv
  BY BoundAssumption DEF Init, RegistryInv, TypeOK, RowsExist, LiveIsFullyAudited,
     RevocationIsFinal, SnapshotsAudited, FreshUnrevoked, FreshCurrent, FreshAgree,
     Fresh, HoldsLive, Live, EverRevoked, Statuses, Versions, Absent, CREATABLE_STATES
<1>2. RegistryInv /\ [Next]_vars => RegistryInv'
  BY StepPreserves
<1> QED
  BY <1>1, <1>2, PTL DEF Spec

\* Columns, audit rows, events and snapshots keep their types whatever the
\* handlers do, also when they write what they read before the lock.
THEOREM TypeCorrect == Spec => []TypeOK
<1>1. RegistryInv => TypeOK
  BY DEF RegistryInv
<1> QED
  BY <1>1, Invariance, PTL

\* A connector that was ever revoked is never live again, although validate
\* and rotate write from rows they read before the lock and although DELETE
\* leaves audit slots free.
THEOREM RevocationFinal == Spec => []RevocationIsFinal
<1>1. RegistryInv => RevocationIsFinal
  BY DEF RegistryInv
<1> QED
  BY <1>1, Invariance, PTL

\* A live connector has an audit row for every version and the newest tells
\* its state.
THEOREM LiveAudited == Spec => []LiveIsFullyAudited
<1>1. RegistryInv => LiveIsFullyAudited
  BY DEF RegistryInv
<1> QED
  BY <1>1, Invariance, PTL

\* No handler takes the version of a live connector back.
THEOREM VersionNeverRegresses == Spec => LiveVersionNeverRegresses
<1>1. RegistryInv /\ [Next]_vars =>
        [\A c \in Connectors : Live(c) /\ status'[c] \in CREATABLE_STATES =>
            version'[c] >= version[c]]_vars
  BY StepPreserves DEF VersionStep
<1> QED
  BY <1>1, Invariance, PTL DEF Spec, LiveVersionNeverRegresses

-----------------------------------------------------------------------------
(* The forms of a step: what is left of a handler's step once its guards,  *)
(* look-ups and answers are forgotten.  The lemmas below take one at a     *)
(* time.                                                                   *)

Ends(r) ==
  /\ UNCHANGED db
  /\ pc' = [pc EXCEPT ![r] = "idle"] /\ snap' = [snap EXCEPT ![r] = NoSnap]

Reads(r, c) ==
  /\ status[c] # Absent
  /\ UNCHANGED db
  /\ \E endpoint \in {"validate", "rotate"} : pc' = [pc EXCEPT ![r] = endpoint]
  /\ snap' = [snap EXCEPT ![r] = [conn |-> c, status |-> status[c], version |-> version[c]]]

Inserts(r, c, s) ==
  /\ status[c] = Absent
  /\ status'  = [status EXCEPT ![c] = s]
  /\ version' = [version EXCEPT ![c] = 1]
  /\ audit'   = [audit EXCEPT ![c] = {AuditRow(1, "", s, "connector.created")}]
  /\ events'  = [events EXCEPT ![c] = <<[version |-> 1, subject |-> "connector.created"]>>]
  /\ Answer(r, "ok")

Deletes(r, c) ==
  /\ status[c] \notin {Absent, "deleted", "deletion_requested"}
  /\ status'  = [status EXCEPT ![c] = "deletion_requested"]
  /\ version' = [version EXCEPT ![c] = @ + 1]
  /\ events'  = [events EXCEPT ![c] =
       Append(@, [version |-> version[c] + 1, subject |-> "connector.deletion_requested"])]
  /\ UNCHANGED audit
  /\ Answer(r, "ok")

Moves(r, c, s, v, e) ==
  /\ s \in States /\ v \in Versions /\ e \in TRANSITIONS
  /\ e.source = s /\ v < MaxVersion /\ AuditSlotFree(c, v + 1) /\ status[c] # Absent
  /\ Commits(c, s, v, e) /\ Answer(r, "ok")
  /\ \/ s = status[c] /\ v = version[c]
     \/ /\ pc[r] # "idle" /\ e.target \in CREATABLE_STATES
        /\ snap[r].conn = c /\ snap[r].status = s /\ snap[r].version = v

StepForm ==
  \/ UNCHANGED <<db, pc, snap>>
  \/ \E r \in Requests : Ends(r)
  \/ \E r \in Requests, c \in Connectors :
       \/ Reads(r, c)
       \/ Deletes(r, c)
       \/ \E s \in CREATABLE_STATES : Inserts(r, c, s)
       \/ \E s, v, e : Moves(r, c, s, v, e)

LEMMA ApplyForm ==
  ASSUME RegistryInv, NEW r \in Requests, NEW c \in Connectors,
         NEW s \in States, NEW v \in Versions, NEW target, NEW event,
         NEW reason \in BOOLEAN, NEW rejection \in {"ok", "refused"},
         status[c] # Absent,
         apply(r, c, s, v, target, event, reason, rejection),
         \/ s = status[c] /\ v = version[c]
         \/ /\ pc[r] # "idle"
            /\ event \in {"connector.validation_succeeded",
                          "connector.validation_failed",
                          "connector.credentials_rotated"}
            /\ snap[r].conn = c /\ snap[r].status = s /\ snap[r].version = v
  PROVE  StepForm
<1>1. ASSUME NEW class, AnswerOnly(r, class)
      PROVE  StepForm
  BY <1>1 DEF AnswerOnly, Answer, Ends, StepForm
<1>2. ASSUME NEW e \in find(s, target, event),
             IF e.requires_reason /\ ~reason
             THEN AnswerOnly(r, "refused")
             ELSE WriteEdge(r, c, s, v, e)
      PROVE  StepForm
  <2>1. e \in TRANSITIONS /\ e.source = s /\ event \in {NoEvent, e.event}
    BY <1>2 DEF find
  <2>2. \/ s = status[c] /\ v = version[c]
        \/ /\ pc[r] # "idle" /\ e.target \in CREATABLE_STATES
           /\ snap[r].conn = c /\ snap[r].status = s /\ snap[r].version = v
    BY <2>1, EdgeFacts DEF NoEvent
  <2>3. CASE /\ v < MaxVersion /\ AuditSlotFree(c, v + 1)
             /\ Commits(c, s, v, e) /\ Answer(r, "ok")
    BY <2>1, <2>2, <2>3 DEF Moves, StepForm
  <2> QED
    BY <1>1, <1>2, <2>3 DEF WriteEdge, Commits
<1> QED
  BY <1>1, <1>2 DEF apply

LEMMA NextForm ==
  ASSUME RegistryInv, [Next]_vars
  PROVE  StepForm
<1>1. CASE UNCHANGED vars
  BY <1>1 DEF vars, db, StepForm
<1>2. ASSUME NEW r \in Requests, NEW class, AnswerOnly(r, class)
      PROVE  StepForm
  BY <1>2 DEF AnswerOnly, Answer, Ends, StepForm
<1>3. ASSUME NEW r \in Requests, Abandon(r)
      PROVE  StepForm
  BY <1>3 DEF Abandon, Ends, StepForm
<1>4. ASSUME NEW r \in Requests, pc[r] # "idle"
      PROVE  /\ snap[r].conn \in Connectors /\ snap[r].status \in States
             /\ snap[r].version \in Versions /\ status[snap[r].conn] # Absent
  BY <1>4 DEF RegistryInv, TypeOK, RowsExist, Snapshots
<1>5. ASSUME NEW r \in Requests, NEW valid \in BOOLEAN, EndValidate(r, valid)
      PROVE  StepForm
  BY <1>4, <1>5, ApplyForm DEF EndValidate
<1>6. ASSUME NEW r \in Requests, NEW reason \in BOOLEAN, EndRotate(r, reason)
      PROVE  StepForm
  BY <1>4, <1>6, ApplyForm DEF EndRotate
<1>7. ASSUME NEW r \in Requests, NEW c \in Connectors, CreateInvalid(r, c)
      PROVE  StepForm
  BY <1>2, <1>7 DEF CreateInvalid
<1>8. ASSUME NEW r \in Requests, NEW c \in Connectors, NEW s \in CREATABLE_STATES,
             Create(r, c, s)
      PROVE  StepForm
  BY <1>2, <1>8 DEF Create, Inserts, StepForm
<1>9. ASSUME NEW r \in Requests, NEW c \in Connectors, NEW tenant \in Tenants,
             BeginValidate(r, c, tenant) \/ BeginRotate(r, c, tenant)
      PROVE  StepForm
  <2>1. PICK endpoint \in {"validate", "rotate"} : BeginRead(r, c, tenant, endpoint)
    BY <1>9 DEF BeginValidate, BeginRotate
  <2> QED
    BY <1>2, <2>1 DEF BeginRead, Visible, Reads, StepForm
<1>10. ASSUME NEW r \in Requests, NEW c \in Connectors, NEW tenant \in Tenants,
              RequestDeletion(r, c, tenant)
       PROVE  StepForm
  BY <1>2, <1>10 DEF RequestDeletion, Visible, Deletes, StepForm
<1>11. ASSUME NEW r \in Requests, NEW c \in Connectors, NEW tenant \in Tenants,
              NEW endpoint \in PlainEndpoints, NEW reason \in BOOLEAN,
              Transition(r, c, tenant, endpoint, reason)
       PROVE  StepForm
  <2>1. CASE /\ Visible(c, tenant)
             /\ apply(r, c, status[c], version[c], EndpointTarget[endpoint],
                      EndpointEvent[endpoint], reason, "refused")
    <3>1. status[c] \in States /\ status[c] # Absent /\ version[c] \in Versions
      BY <2>1 DEF Visible, RegistryInv, TypeOK, Statuses
    <3> QED
      BY <2>1, <3>1, ApplyForm
  <2> QED
    BY <1>2, <1>11, <2>1 DEF Transition
<1> QED
  BY <1>1, <1>3, <1>5, <1>6, <1>7, <1>8, <1>9, <1>10, <1>11 DEF Next

-----------------------------------------------------------------------------
(* The trail is the history, until a deletion is asked for: DELETE is the  *)
(* only writer that raises the version without using its audit slot, so    *)
(* until then a free slot is the one after the current version, and who    *)
(* holds the version before it holds the current row.                      *)

\* Nothing is staged for a connector before its row is inserted.
RowsComeFirst == \A c \in Connectors : status[c] = Absent => events[c] = <<>>

\* What a handler has read is the row, or the row at a lower version.
SnapshotsBehind ==
  \A r \in Requests : pc[r] # "idle" /\ ~DeletionAsked(snap[r].conn) =>
    /\ snap[r].version <= version[snap[r].conn]
    /\ snap[r].version = version[snap[r].conn] => snap[r].status = status[snap[r].conn]

HistoryInv == RowsComeFirst /\ TrailIsHistory /\ SnapshotsBehind

EventRows == [version : Versions, subject : Subjects]

\* A transition that is committed starts from the row as it is.
LEMMA MoveIsCurrent ==
  ASSUME RegistryInv, HistoryInv, NEW r \in Requests, NEW c \in Connectors,
         NEW s, NEW v, NEW e, Moves(r, c, s, v, e), ~DeletionAsked(c)
  PROVE  s = status[c] /\ v = version[c]
<1>1. CASE /\ pc[r] # "idle"
           /\ snap[r].conn = c /\ snap[r].status = s /\ snap[r].version = v
  <2>1. v <= version[c] /\ (v = version[c] => s = status[c])
    BY <1>1 DEF HistoryInv, SnapshotsBehind
  <2>2. v \in Nat /\ version[c] \in Nat
    BY BoundAssumption DEF Moves, RegistryInv, TypeOK, Versions
  <2>3. v + 1 \notin 1..version[c]
    BY DEF Moves, HistoryInv, TrailIsHistory, Audited, AuditSlotFree
  <2> QED
    BY <2>1, <2>2, <2>3
<1> QED
  BY <1>1 DEF Moves

\* Appending an event keeps the others.
LEMMA EventAppended ==
  ASSUME TypeOK, NEW c \in Connectors, NEW x \in EventRows,
         events' = [events EXCEPT ![c] = Append(@, x)]
  PROVE  /\ Len(events[c]) \in Nat /\ Len(events'[c]) = Len(events[c]) + 1
         /\ DOMAIN events[c] = 1..Len(events[c])
         /\ DOMAIN events'[c] = 1..(Len(events[c]) + 1)
         /\ \A i \in 1..Len(events[c]) : events'[c][i] = events[c][i]
         /\ events'[c][Len(events[c]) + 1] = x
         /\ DeletionAsked(c)' <=> DeletionAsked(c) \/ x.subject = "connector.deletion_requested"
         /\ \A d \in Connectors : d # c => (DeletionAsked(d)' <=> DeletionAsked(d))
<1>1. events[c] \in Seq(EventRows) /\ events'[c] = Append(events[c], x)
  BY DEF TypeOK, EventRows
<1>2. /\ Len(events[c]) \in Nat /\ Len(events'[c]) = Len(events[c]) + 1
      /\ DOMAIN events[c] = 1..Len(events[c])
      /\ DOMAIN events'[c] = 1..(Len(events[c]) + 1)
      /\ \A i \in 1..Len(events[c]) : events'[c][i] = events[c][i]
      /\ events'[c][Len(events[c]) + 1] = x
  BY <1>1, AppendProperties, LenProperties
<1>3. \A d \in Connectors : d # c => events'[d] = events[d]
  BY DEF TypeOK
<1> QED
  BY <1>2, <1>3 DEF DeletionAsked

\* What holds of the trail of one connector.
Trail(c) ==
  /\ Audited(c) = 1..version[c]
  /\ Len(events[c]) = version[c]
  /\ \A a \in audit[c] :
       /\ events[c][a.version] = [version |-> a.version, subject |-> a.event]
       /\ a.version = version[c] => a.to = status[c]
       /\ \A b \in audit[c] : b.version = a.version + 1 => b.from = a.to

\* A committed transition adds the next row and the next event.
LEMMA MoveExtendsTrail ==
  ASSUME RegistryInv, HistoryInv, NEW r \in Requests, NEW c \in Connectors,
         NEW s, NEW v, NEW e, Moves(r, c, s, v, e), ~DeletionAsked(c)
  PROVE  Trail(c)'
<1> DEFINE row == AuditRow(v + 1, s, e.target, e.event)
           x == [version |-> v + 1, subject |-> e.event]
<1>1. s = status[c] /\ v = version[c] /\ v \in Nat /\ v + 1 \in Versions
  BY MoveIsCurrent, BoundAssumption DEF Moves, Versions
<1>2. TypeOK /\ Trail(c)
  BY DEF RegistryInv, HistoryInv, TrailIsHistory, Trail, Moves
<1>3. /\ status'[c] = e.target /\ version'[c] = v + 1 /\ audit'[c] = audit[c] \cup {row}
      /\ events' = [events EXCEPT ![c] = Append(@, x)]
      /\ row.version = v + 1 /\ row.from = s /\ row.to = e.target /\ row.event = e.event
  BY <1>1, <1>2 DEF Moves, Commits, TypeOK, AuditRow
<1>4. x \in EventRows
  BY <1>1, EdgeFacts DEF Moves, EventRows, Subjects
<1>5. /\ Len(events'[c]) = v + 1 /\ events'[c][v + 1] = x
      /\ \A i \in 1..v : events'[c][i] = events[c][i]
  <2> HIDE DEF x
  <2>1. Len(events[c]) = v
    BY <1>1, <1>2 DEF Trail
  <2>2. /\ Len(events'[c]) = Len(events[c]) + 1
        /\ \A i \in 1..Len(events[c]) : events'[c][i] = events[c][i]
        /\ events'[c][Len(events[c]) + 1] = x
    BY <1>2, <1>3, <1>4, EventAppended
  <2> QED
    BY <2>1, <2>2
<1>6. \A a \in audit[c] : a.version \in 1..v
  BY <1>1, <1>2 DEF Trail, Audited
<1>7. Audited(c)' = 1..(v + 1)
  <2>1. Audited(c)' = Audited(c) \cup {v + 1}
    BY <1>3 DEF Audited
  <2> QED
    BY <1>1, <1>2, <2>1 DEF Trail
<1>8. \A a \in audit'[c] :
        /\ events'[c][a.version] = [version |-> a.version, subject |-> a.event]
        /\ a.version = v + 1 => a.to = e.target
        /\ \A b \in audit'[c] : b.version = a.version + 1 => b.from = a.to
  <2> SUFFICES ASSUME NEW a \in audit'[c]
               PROVE  /\ events'[c][a.version] = [version |-> a.version, subject |-> a.event]
                      /\ a.version = v + 1 => a.to = e.target
                      /\ \A b \in audit'[c] : b.version = a.version + 1 => b.from = a.to
    OBVIOUS
  <2>1. CASE a = row
    BY <1>1, <1>3, <1>5, <1>6, <2>1
  <2>2. CASE a \in audit[c]
    <3>1. a.version \in 1..v
      BY <1>6, <2>2
    <3>2. events'[c][a.version] = [version |-> a.version, subject |-> a.event]
      BY <1>2, <1>5, <2>2, <3>1 DEF Trail
    <3>3. ASSUME NEW b \in audit'[c], b.version = a.version + 1
          PROVE  b.from = a.to
      <4>1. CASE b = row
        <5>1. a.version = v
          BY <1>1, <1>3, <3>1, <3>3, <4>1
        <5>2. a.to = status[c]
          BY <1>1, <1>2, <2>2, <5>1 DEF Trail
        <5> QED
          BY <1>1, <1>3, <4>1, <5>2
      <4>2. CASE b \in audit[c]
        BY <1>2, <2>2, <3>3, <4>2 DEF Trail
      <4> QED
        BY <1>3, <4>1, <4>2
    <3> QED
      BY <1>1, <3>1, <3>2, <3>3
  <2> QED
    BY <1>3, <2>1, <2>2
<1> QED
  BY <1>3, <1>5, <1>7, <1>8 DEF Trail

\* In a connector a step does not touch, all that TrailIsHistory and
\* SnapshotsBehind speak of stays.
LEMMA UntouchedHistory ==
  ASSUME HistoryInv, NEW d \in Connectors,
         status'[d] = status[d], version'[d] = version[d],
         audit'[d] = audit[d], events'[d] = events[d]
  PROVE  /\ status'[d] = Absent => events'[d] = <<>>
         /\ status'[d] # Absent /\ ~DeletionAsked(d)' => Trail(d)'
         /\ DeletionAsked(d)' <=> DeletionAsked(d)
BY DEF HistoryInv, RowsComeFirst, TrailIsHistory, Trail, Audited, DeletionAsked

LEMMA StepKeepsHistory ==
  ASSUME RegistryInv, HistoryInv, StepForm
  PROVE  HistoryInv'
<1> USE DEF RegistryInv
<1>0. HistoryInv' <=>
        /\ \A d \in Connectors : status'[d] = Absent => events'[d] = <<>>
        /\ \A d \in Connectors : status'[d] # Absent /\ ~DeletionAsked(d)' => Trail(d)'
        /\ SnapshotsBehind'
  BY DEF HistoryInv, RowsComeFirst, TrailIsHistory, Trail
<1>1. ASSUME UNCHANGED db
      PROVE  /\ \A d \in Connectors : status'[d] = Absent => events'[d] = <<>>
             /\ \A d \in Connectors : status'[d] # Absent /\ ~DeletionAsked(d)' => Trail(d)'
             /\ \A d \in Connectors : DeletionAsked(d)' <=> DeletionAsked(d)
  BY <1>1, UntouchedHistory DEF db
<1>2. CASE UNCHANGED <<db, pc, snap>>
  <2>1. SnapshotsBehind'
    BY <1>2 DEF HistoryInv, SnapshotsBehind, DeletionAsked, db
  <2> QED
    BY <1>0, <1>1, <1>2, <2>1
<1>3. ASSUME NEW r \in Requests, Ends(r)
      PROVE  HistoryInv'
  <2>1. \A q \in Requests : pc'[q] # "idle" => pc[q] # "idle" /\ snap'[q] = snap[q]
    BY <1>3 DEF Ends, TypeOK
  <2>2. SnapshotsBehind'
    BY <1>3, <2>1 DEF Ends, HistoryInv, SnapshotsBehind, DeletionAsked, db
  <2> QED
    BY <1>0, <1>1, <1>3, <2>2 DEF Ends
<1>4. ASSUME NEW r \in Requests, NEW c \in Connectors, Reads(r, c)
      PROVE  HistoryInv'
  <2>1. /\ \A q \in Requests : q # r => pc'[q] = pc[q] /\ snap'[q] = snap[q]
        /\ snap'[r].conn = c /\ snap'[r].status = status[c] /\ snap'[r].version = version[c]
    BY <1>4 DEF Reads, TypeOK
  <2>2. version[c] <= version[c]
    BY BoundAssumption DEF TypeOK, Versions
  <2>3. SnapshotsBehind'
    BY <1>4, <2>1, <2>2 DEF Reads, HistoryInv, SnapshotsBehind, DeletionAsked, db
  <2> QED
    BY <1>0, <1>1, <1>4, <2>3 DEF Reads
\* The handlers that are in flight after an answer.
<1>5. ASSUME NEW r \in Requests, Answer(r, "ok"), NEW q \in Requests, pc'[q] # "idle"
      PROVE  /\ pc[q] # "idle" /\ snap'[q] = snap[q] /\ snap[q].conn \in Connectors
             /\ status[snap[q].conn] # Absent /\ snap[q].version \in Nat
             /\ version[snap[q].conn] \in Nat
  <2>1. pc[q] # "idle" /\ snap'[q] = snap[q] /\ snap[q] \in Snapshots
    BY <1>5 DEF Answer, TypeOK
  <2> QED
    BY <2>1, BoundAssumption DEF TypeOK, Snapshots, RowsExist, Versions
<1>6. ASSUME NEW r \in Requests, NEW c \in Connectors, NEW s \in CREATABLE_STATES,
             Inserts(r, c, s)
      PROVE  HistoryInv'
  <2> DEFINE row == AuditRow(1, "", s, "connector.created")
             x == [version |-> 1, subject |-> "connector.created"]
  <2>1. /\ \A d \in Connectors : d # c => /\ status'[d] = status[d] /\ version'[d] = version[d]
                                          /\ audit'[d] = audit[d] /\ events'[d] = events[d]
        /\ status'[c] = s /\ s # Absent /\ version'[c] = 1
        /\ audit'[c] = {row} /\ events'[c] = <<x>>
        /\ row.version = 1 /\ row.to = s
        /\ x = [version |-> row.version, subject |-> row.event]
    BY <1>6 DEF Inserts, TypeOK, AuditRow, CREATABLE_STATES, Absent
  <2> HIDE DEF row, x
  <2>2. Trail(c)'
    <3>1. Audited(c)' = 1..1
      <4>1. Audited(c)' = {1}
        BY <2>1 DEF Audited
      <4> QED
        BY <4>1
    <3>2. Len(events'[c]) = 1 /\ events'[c][1] = x
      BY <2>1
    <3>3. ASSUME NEW a \in audit'[c], NEW b \in audit'[c]
          PROVE  a = row /\ b = row
      BY <2>1
    <3> QED
      BY <2>1, <3>1, <3>2, <3>3 DEF Trail
  <2>3. SnapshotsBehind'
    <3> SUFFICES ASSUME NEW q \in Requests, pc'[q] # "idle", ~DeletionAsked(snap[q].conn)'
                 PROVE  /\ snap'[q].version <= version'[snap'[q].conn]
                        /\ snap'[q].version = version'[snap'[q].conn] =>
                             snap'[q].status = status'[snap'[q].conn]
      BY DEF SnapshotsBehind
    <3>1. /\ pc[q] # "idle" /\ snap'[q] = snap[q] /\ snap[q].conn \in Connectors
          /\ snap[q].conn # c
      BY <1>5, <1>6 DEF Inserts
    <3>2. ~DeletionAsked(snap[q].conn)
      BY <2>1, <3>1, UntouchedHistory
    <3> QED
      BY <2>1, <3>1, <3>2 DEF HistoryInv, SnapshotsBehind
  <2> QED
    BY <1>0, <2>1, <2>2, <2>3, UntouchedHistory
<1>7. ASSUME NEW r \in Requests, NEW c \in Connectors, Deletes(r, c)
      PROVE  HistoryInv'
  <2> DEFINE x == [version |-> version[c] + 1, subject |-> "connector.deletion_requested"]
  <2>1. /\ \A d \in Connectors : d # c => /\ status'[d] = status[d] /\ version'[d] = version[d]
                                          /\ audit'[d] = audit[d] /\ events'[d] = events[d]
        /\ status'[c] # Absent /\ events' = [events EXCEPT ![c] = Append(@, x)]
    BY <1>7 DEF Deletes, TypeOK, Absent
  <2>2. DeletionAsked(c)'
    <3>1. events[c] \in Seq(EventRows) /\ events'[c] = Append(events[c], x)
      BY <2>1 DEF TypeOK, EventRows
    <3>2. /\ Len(events[c]) \in Nat /\ events'[c][Len(events[c]) + 1] = x
          /\ DOMAIN events'[c] = 1..(Len(events[c]) + 1)
      BY <3>1, LenProperties
    <3> QED
      BY <3>2 DEF DeletionAsked
  <2>3. SnapshotsBehind'
    BY <1>5, <1>7, <2>1, <2>2, UntouchedHistory DEF Deletes, HistoryInv, SnapshotsBehind
  <2> QED
    BY <1>0, <2>1, <2>2, <2>3, UntouchedHistory
<1>8. ASSUME NEW r \in Requests, NEW c \in Connectors, NEW s, NEW v, NEW e,
             Moves(r, c, s, v, e)
      PROVE  HistoryInv'
  <2>1. /\ \A d \in Connectors : d # c => /\ status'[d] = status[d] /\ version'[d] = version[d]
                                          /\ audit'[d] = audit[d] /\ events'[d] = events[d]
        /\ version'[c] = v + 1 /\ v \in Nat
        /\ status'[c] = IF e.target = s THEN status[c] ELSE e.target
    BY <1>8, BoundAssumption DEF Moves, Commits, TypeOK, Versions
  <2>2. status'[c] # Absent
    BY <1>8, <2>1, EdgeFacts DEF Moves, States, Absent
  <2>3. DeletionAsked(c) => DeletionAsked(c)'
    <3>1. [version |-> v + 1, subject |-> e.event] \in EventRows
      BY <1>8, EdgeFacts, BoundAssumption DEF Moves, EventRows, Subjects, Versions
    <3> QED
      BY <1>8, <3>1, EventAppended DEF Moves, Commits
  <2>4. ~DeletionAsked(c)' => Trail(c)' /\ v = version[c]
    BY <1>8, <2>3, MoveExtendsTrail, MoveIsCurrent
  <2>5. SnapshotsBehind'
    <3> SUFFICES ASSUME NEW q \in Requests, pc'[q] # "idle", ~DeletionAsked(snap[q].conn)'
                 PROVE  /\ snap'[q].version <= version'[snap'[q].conn]
                        /\ snap'[q].version = version'[snap'[q].conn] =>
                             snap'[q].status = status'[snap'[q].conn]
      BY DEF SnapshotsBehind
    <3>1. /\ pc[q] # "idle" /\ snap'[q] = snap[q] /\ snap[q].conn \in Connectors
          /\ snap[q].version \in Nat /\ version[snap[q].conn] \in Nat
      BY <1>5, <1>8 DEF Moves
    <3>2. CASE snap[q].conn # c
      BY <2>1, <3>1, <3>2, UntouchedHistory DEF HistoryInv, SnapshotsBehind
    <3>3. CASE snap[q].conn = c
      <4>1. snap[q].version <= v
        BY <2>3, <2>4, <3>1, <3>3 DEF HistoryInv, SnapshotsBehind
      <4> QED
        BY <2>1, <3>1, <3>3, <4>1
    <3> QED
      BY <3>2, <3>3
  <2> QED
    BY <1>0, <2>1, <2>2, <2>4, <2>5, UntouchedHistory
<1> QED
  BY <1>2, <1>3, <1>4, <1>6, <1>7, <1>8 DEF StepForm

LEMMA AlwaysHistory == Spec => []HistoryInv
<1>1. Init => HistoryInv
  BY DEF Init, HistoryInv, RowsComeFirst, TrailIsHistory, SnapshotsBehind
<1>2. RegistryInv /\ HistoryInv /\ [Next]_vars => HistoryInv'
  BY NextForm, StepKeepsHistory
<1> QED
  BY <1>1, <1>2, Invariance, PTL DEF Spec

\* Until DELETE is called on a connector its audit rows, its versions and its
\* outbox events tell one and the same history, without gap or branch, also
\* when transitions.apply ran on a row loaded before the lock.
THEOREM TrailComplete == Spec => []TrailIsHistory
<1>1. HistoryInv => TrailIsHistory
  BY DEF HistoryInv
<1> QED
  BY <1>1, AlwaysHistory, PTL

-----------------------------------------------------------------------------
(* The status column as AbstractLifecycle sees it.                         *)

TableStatus ==
  [c \in Connectors |-> IF DeletionAsked(c) THEN "deletion_requested" ELSE status[c]]

\* The instance works on the table of Lifecycle, under names of its own.
LEMMA SameTable ==
  /\ Table!Absent = Absent
  /\ Table!CREATABLE_STATES = CREATABLE_STATES
  /\ Table!TRANSITIONS = TRANSITIONS
<1>1. Table!Absent = Absent
  BY Zenon DEF Table!Absent, Absent
<1>2. Table!CREATABLE_STATES = CREATABLE_STATES
  BY Zenon DEF Table!CREATABLE_STATES, CREATABLE_STATES
<1>3. Table!EnableSources = EnableSources /\ Table!NoEvent = NoEvent
  BY Zenon DEF Table!EnableSources, EnableSources, Table!NoEvent, NoEvent
<1>4. Table!TRANSITIONS = TRANSITIONS
  BY Zenon, <1>2, <1>3 DEF Table!TRANSITIONS, TRANSITIONS, Table!Edge, Edge, Table!FlaggedEdge, FlaggedEdge
<1> QED
  BY <1>1, <1>2, <1>4

\* The actions of the instance, in terms of TableStatus.
LEMMA TableActions ==
  ASSUME NEW c \in Connectors
  PROVE  /\ Table!Create(c) <=>
              /\ TableStatus[c] = Absent
              /\ \E s \in CREATABLE_STATES : TableStatus' = [TableStatus EXCEPT ![c] = s]
         /\ Table!Move(c) <=>
              \E e \in TRANSITIONS : /\ TableStatus[c] = e.source
                                    /\ TableStatus' = [TableStatus EXCEPT ![c] = e.target]
         /\ Table!Withdraw(c) <=>
              /\ TableStatus[c] \notin {Absent, "deleted"}
              /\ TableStatus' = [TableStatus EXCEPT ![c] = "deletion_requested"]
         /\ Table!Create(c) \/ Table!Move(c) \/ Table!Withdraw(c) => Table!Next
<1>1. /\ Table!Create(c) <=>
              /\ TableStatus[c] = Absent
              /\ \E s \in CREATABLE_STATES : TableStatus' = [TableStatus EXCEPT ![c] = s]
  BY Zenon, SameTable DEF Table!Create, TableStatus
<1>2. Table!Move(c) <=>
              \E e \in TRANSITIONS : /\ TableStatus[c] = e.source
                                    /\ TableStatus' = [TableStatus EXCEPT ![c] = e.target]
  BY Zenon, SameTable DEF Table!Move, TableStatus
<1>3. /\ Table!Withdraw(c) <=>
              /\ TableStatus[c] \notin {Absent, "deleted"}
              /\ TableStatus' = [TableStatus EXCEPT ![c] = "deletion_requested"]
  BY Zenon, SameTable DEF Table!Withdraw, TableStatus
<1>4. Table!Create(c) \/ Table!Move(c) \/ Table!Withdraw(c) => Table!Next
  BY Zenon DEF Table!Next
<1> QED
  BY <1>1, <1>2, <1>3, <1>4

LEMMA StepFollowsTable ==
  ASSUME RegistryInv, HistoryInv, StepForm
  PROVE  Table!Next \/ UNCHANGED TableStatus
<1> USE DEF RegistryInv
<1>1. ASSUME UNCHANGED <<status, events>>
      PROVE  UNCHANGED TableStatus
  BY <1>1 DEF TableStatus, DeletionAsked
\* A step that writes one connector.
<1>2. ASSUME NEW c \in Connectors,
             \A d \in Connectors : d # c => status'[d] = status[d] /\ events'[d] = events[d]
      PROVE  /\ TableStatus' = [TableStatus EXCEPT ![c] =
                                  IF DeletionAsked(c)' THEN "deletion_requested" ELSE status'[c]]
             /\ TableStatus[c] = IF DeletionAsked(c) THEN "deletion_requested" ELSE status[c]
  BY <1>2 DEF TableStatus, DeletionAsked
<1>3. ASSUME NEW r \in Requests, NEW c \in Connectors, NEW s \in CREATABLE_STATES,
             Inserts(r, c, s)
      PROVE  Table!Next
  <2>1. ~DeletionAsked(c) /\ TableStatus[c] = Absent
    <3>1. events[c] = <<>> /\ status[c] = Absent
      BY <1>3 DEF Inserts, HistoryInv, RowsComeFirst
    <3>2. DOMAIN events[c] = {}
      BY <3>1
    <3> QED
      BY <3>1, <3>2 DEF DeletionAsked, TableStatus
  <2>2. ~DeletionAsked(c)'
    <3> DEFINE x == [version |-> 1, subject |-> "connector.created"]
    <3>1. events'[c] = <<x>> /\ x.subject # "connector.deletion_requested"
      BY <1>3 DEF Inserts, TypeOK
    <3> HIDE DEF x
    <3>2. DOMAIN events'[c] = {1} /\ events'[c][1] = x
      BY <3>1
    <3> QED
      BY <3>1, <3>2 DEF DeletionAsked
  <2>3. TableStatus' = [TableStatus EXCEPT ![c] = s]
    BY <1>2, <1>3, <2>2 DEF Inserts, TypeOK
  <2> QED
    BY <2>1, <2>3, TableActions
<1>4. ASSUME NEW r \in Requests, NEW c \in Connectors, Deletes(r, c)
      PROVE  Table!Next \/ UNCHANGED TableStatus
  <2> DEFINE x == [version |-> version[c] + 1, subject |-> "connector.deletion_requested"]
  <2>1. \A d \in Connectors : d # c => status'[d] = status[d] /\ events'[d] = events[d]
    BY <1>4 DEF Deletes, TypeOK
  <2>2. DeletionAsked(c)'
    <3>1. events[c] \in Seq(EventRows) /\ events'[c] = Append(events[c], x)
      BY <1>4 DEF Deletes, TypeOK, EventRows
    <3>2. /\ Len(events[c]) \in Nat /\ events'[c][Len(events[c]) + 1] = x
          /\ DOMAIN events'[c] = 1..(Len(events[c]) + 1)
      BY <3>1, LenProperties
    <3> QED
      BY <3>2 DEF DeletionAsked
  <2>3. TableStatus' = [TableStatus EXCEPT ![c] = "deletion_requested"]
    BY <1>2, <2>1, <2>2
  <2>4. CASE DeletionAsked(c)
    BY <2>3, <2>4 DEF TableStatus
  <2>5. CASE ~DeletionAsked(c)
    <3>1. TableStatus[c] \notin {Absent, "deleted"}
      BY <1>4, <2>5 DEF Deletes, TableStatus
    <3> QED
      BY <2>3, <3>1, TableActions
  <2> QED
    BY <2>4, <2>5
<1>5. ASSUME NEW r \in Requests, NEW c \in Connectors, NEW s, NEW v, NEW e,
             Moves(r, c, s, v, e)
      PROVE  Table!Next \/ UNCHANGED TableStatus
  <2> DEFINE x == [version |-> v + 1, subject |-> e.event]
  <2>1. /\ \A d \in Connectors : d # c => status'[d] = status[d] /\ events'[d] = events[d]
        /\ status'[c] = IF e.target = s THEN status[c] ELSE e.target
        /\ events' = [events EXCEPT ![c] = Append(@, x)]
    BY <1>5 DEF Moves, Commits, TypeOK
  <2>2. DeletionAsked(c)' <=> DeletionAsked(c) \/ e.event = "connector.deletion_requested"
    <3>1. x \in EventRows /\ x.subject = e.event
      BY <1>5, EdgeFacts, BoundAssumption DEF Moves, EventRows, Subjects, Versions
    <3> HIDE DEF x
    <3> QED
      BY <2>1, <3>1, EventAppended
  <2>3. CASE DeletionAsked(c)
    BY <1>2, <2>1, <2>2, <2>3 DEF TableStatus
  <2>4. CASE ~DeletionAsked(c)
    <3>1. s = status[c] /\ e \in TRANSITIONS /\ e.source = s
      BY <1>5, <2>4, MoveIsCurrent DEF Moves
    <3>2. e.event = "connector.deletion_requested" => e.target = "deletion_requested"
      BY <3>1 DEF TRANSITIONS, Edge, FlaggedEdge, EnableSources, CREATABLE_STATES
    <3>3. TableStatus' = [TableStatus EXCEPT ![c] = e.target] /\ TableStatus[c] = e.source
      BY <1>2, <2>1, <2>2, <2>4, <3>1, <3>2
    <3> QED
      BY <3>1, <3>3, TableActions
  <2> QED
    BY <2>3, <2>4
<1> QED
  BY <1>1, <1>3, <1>4, <1>5 DEF StepForm, Ends, Reads, db

\* The status column moves only along the edges of the lifecycle table until
\* DELETE is called, whatever validate_connector and
\* rotate_connector_credentials hold from before the lock: the detailed
\* handlers implement AbstractLifecycle.
THEOREM TableFollowed == Spec => FollowsTable
<1>1. Init => Table!Init
  <2> SUFFICES ASSUME Init
               PROVE  TableStatus = [c \in Connectors |-> Absent]
    BY SameTable DEF Table!Init, TableStatus
  <2>1. \A c \in Connectors : DOMAIN events[c] = {} /\ status[c] = Absent
    BY DEF Init
  <2> QED
    BY <2>1 DEF TableStatus, DeletionAsked
<1>2. RegistryInv /\ HistoryInv /\ [Next]_vars => [Table!Next]_TableStatus
  BY NextForm, StepFollowsTable
<1> QED
  BY <1>1, <1>2, Invariance, AlwaysHistory, PTL DEF Spec, FollowsTable, Table!Spec, TableStatus

-----------------------------------------------------------------------------
(* No unvalidated configuration is in service.                             *)

\* The states that are reached through a validation, or by a creation in them.
Checked == {"validated", "enabled", "disabled"}

\* Each configuration up to version n has a later validation up to n.
ValidatedUpTo(c, n) ==
  \A a \in audit[c] : Unvalidated(a) /\ a.version <= n =>
    \E b \in audit[c] : /\ b.event = "connector.validation_succeeded"
                        /\ a.version < b.version /\ b.version <= n

CheckedWasValidated ==
  \A c \in Connectors : status[c] \in Checked => ValidatedUpTo(c, version[c])

\* So did what a handler that may still write has read.
SnapshotsValidated ==
  \A r \in Requests : Fresh(r) /\ snap[r].status \in Checked =>
    ValidatedUpTo(snap[r].conn, snap[r].version)

ValidatedInv == CheckedWasValidated /\ SnapshotsValidated

\* A later row does not matter to earlier versions.
LEMMA ValidatedGrows ==
  ASSUME NEW c, NEW n \in Nat, NEW row, row.version \in Nat, row.version > n,
         audit'[c] = audit[c] \cup {row}, ValidatedUpTo(c, n)
  PROVE  ValidatedUpTo(c, n)'
<1> SUFFICES ASSUME NEW a \in audit'[c], Unvalidated(a), a.version <= n
             PROVE  \E b \in audit'[c] : /\ b.event = "connector.validation_succeeded"
                                         /\ a.version < b.version /\ b.version <= n
  BY DEF ValidatedUpTo, Unvalidated
<1>1. a \in audit[c]
  OBVIOUS
<1> QED
  BY <1>1 DEF ValidatedUpTo

\* What a transition into a live state starts from.
LEMMA MoveIntoLive ==
  ASSUME RegistryInv, NEW r \in Requests, NEW c \in Connectors,
         NEW s, NEW v, NEW e, Moves(r, c, s, v, e), status'[c] \in CREATABLE_STATES
  PROVE  /\ status'[c] = e.target /\ s \in CREATABLE_STATES
         /\ \/ s = status[c] /\ v = version[c]
            \/ Fresh(r) /\ snap[r].conn = c /\ snap[r].status = s /\ snap[r].version = v
<1>1. /\ status'[c] = IF e.target = s THEN status[c] ELSE e.target
      /\ e.target \in CREATABLE_STATES => s \in CREATABLE_STATES
  BY EdgeFacts DEF Moves, Commits, RegistryInv, TypeOK
<1>2. CASE s = status[c] /\ v = version[c]
  BY <1>1, <1>2
<1>3. CASE /\ pc[r] # "idle" /\ e.target \in CREATABLE_STATES
           /\ snap[r].conn = c /\ snap[r].status = s /\ snap[r].version = v
  <2>1. Fresh(r)
    BY <1>1, <1>3 DEF Moves, Fresh, HoldsLive
  <2>2. Live(c) => status[c] = s
    BY <1>3, <2>1 DEF RegistryInv, FreshCurrent
  <2> QED
    BY <1>1, <1>3, <2>1, <2>2 DEF Live
<1> QED
  BY <1>2, <1>3 DEF Moves

LEMMA MoveKeepsValidated ==
  ASSUME RegistryInv, ValidatedInv, NEW r \in Requests, NEW c \in Connectors,
         NEW s, NEW v, NEW e, Moves(r, c, s, v, e)
  PROVE  ValidatedInv'
<1> USE DEF RegistryInv
<1> DEFINE row == AuditRow(v + 1, s, e.target, e.event)
<1>1. /\ \A d \in Connectors : d # c => /\ status'[d] = status[d] /\ version'[d] = version[d]
                                        /\ audit'[d] = audit[d]
      /\ version'[c] = v + 1 /\ v \in Nat /\ audit'[c] = audit[c] \cup {row}
      /\ row.version = v + 1 /\ row.to = e.target /\ row.event = e.event
  BY BoundAssumption DEF Moves, Commits, TypeOK, Versions, AuditRow
<1> HIDE DEF row
<1>2. \A a \in audit[c] : a.version \in Nat /\ a.version # v + 1
  <2>1. audit[c] \subseteq AuditRows /\ Versions \subseteq Nat
    BY BoundAssumption DEF TypeOK, Versions
  <2>2. \A a \in AuditRows : a.version \in Versions
    BY DEF AuditRows
  <2> QED
    BY <2>1, <2>2 DEF Moves, AuditSlotFree
<1>3. status'[c] \in Checked => ValidatedUpTo(c, v + 1)'
  <2> SUFFICES ASSUME status'[c] \in Checked, NEW a \in audit'[c],
                      Unvalidated(a), a.version <= v + 1
               PROVE  \E b \in audit'[c] : /\ b.event = "connector.validation_succeeded"
                                           /\ a.version < b.version /\ b.version <= v + 1
    BY DEF ValidatedUpTo, Unvalidated
  <2>1. /\ status'[c] = e.target /\ s \in CREATABLE_STATES /\ e \in TRANSITIONS /\ e.source = s
        /\ \/ s = status[c] /\ v = version[c]
           \/ Fresh(r) /\ snap[r].conn = c /\ snap[r].status = s /\ snap[r].version = v
    BY MoveIntoLive DEF Checked, CREATABLE_STATES, Moves
  <2>2. /\ e.event \notin {"connector.configured", "connector.created"}
        /\ e.event = "connector.validation_succeeded" \/ s \in Checked
    BY <2>1 DEF Checked, TRANSITIONS, Edge, FlaggedEdge, EnableSources, CREATABLE_STATES
  <2>3. a \in audit[c] /\ a.version <= v
    BY <1>1, <1>2, <2>2 DEF Unvalidated
  <2>4. CASE e.event = "connector.validation_succeeded"
    BY <1>1, <1>2, <2>3, <2>4
  <2>5. CASE s \in Checked
    <3>1. ValidatedUpTo(c, v)
      BY <2>1, <2>5 DEF ValidatedInv, CheckedWasValidated, SnapshotsValidated
    <3>2. PICK b \in audit[c] : /\ b.event = "connector.validation_succeeded"
                                /\ a.version < b.version /\ b.version <= v
      BY <2>3, <3>1 DEF ValidatedUpTo
    <3> QED
      BY <1>1, <1>2, <3>2
  <2> QED
    BY <2>2, <2>4, <2>5
<1>4. CheckedWasValidated'
  BY <1>1, <1>3 DEF ValidatedInv, CheckedWasValidated, ValidatedUpTo
<1>5. SnapshotsValidated'
  <2> SUFFICES ASSUME NEW q \in Requests, Fresh(q)', snap'[q].status \in Checked
               PROVE  ValidatedUpTo(snap[q].conn, snap[q].version)' /\ snap'[q] = snap[q]
    BY DEF SnapshotsValidated, ValidatedUpTo
  <2>1. /\ pc[q] # "idle" /\ snap'[q] = snap[q]
        /\ snap[q].conn \in Connectors /\ snap[q].version \in Nat
    BY BoundAssumption DEF Fresh, HoldsLive, Moves, Answer, TypeOK, Snapshots, Versions
  <2>2. Fresh(q)
    BY <1>1, <2>1 DEF Fresh, HoldsLive, AuditSlotFree
  <2>3. ValidatedUpTo(snap[q].conn, snap[q].version)
    BY <2>1, <2>2 DEF ValidatedInv, SnapshotsValidated
  <2>4. CASE snap[q].conn # c
    BY <1>1, <2>1, <2>3, <2>4 DEF ValidatedUpTo
  <2>5. CASE snap[q].conn = c
    <3>1. v + 1 \notin 1..snap[q].version
      BY <2>2, <2>5 DEF Moves, Fresh, SnapshotsAudited
    <3> QED
      BY <1>1, <2>1, <2>3, <2>5, <3>1, ValidatedGrows
  <2> QED
    BY <2>1, <2>4, <2>5
<1> QED
  BY <1>4, <1>5 DEF ValidatedInv

LEMMA StepKeepsValidated ==
  ASSUME RegistryInv, ValidatedInv, StepForm
  PROVE  ValidatedInv'
<1> USE DEF RegistryInv
<1>1. ASSUME UNCHANGED db
      PROVE  CheckedWasValidated'
  BY <1>1 DEF ValidatedInv, CheckedWasValidated, ValidatedUpTo, db
<1>2. CASE UNCHANGED <<db, pc, snap>>
  <2>1. SnapshotsValidated'
    BY <1>2 DEF ValidatedInv, SnapshotsValidated, ValidatedUpTo, Fresh, HoldsLive,
       AuditSlotFree, db
  <2> QED
    BY <1>1, <1>2, <2>1 DEF ValidatedInv
<1>3. ASSUME NEW r \in Requests, Ends(r)
      PROVE  ValidatedInv'
  <2>1. \A q \in Requests : pc'[q] # "idle" => pc[q] # "idle" /\ snap'[q] = snap[q]
    BY <1>3 DEF Ends, TypeOK
  <2>2. SnapshotsValidated'
    BY <1>3, <2>1 DEF Ends, ValidatedInv, SnapshotsValidated, ValidatedUpTo, Fresh, HoldsLive,
       AuditSlotFree, db
  <2> QED
    BY <1>1, <1>3, <2>2 DEF Ends, ValidatedInv
<1>4. ASSUME NEW r \in Requests, NEW c \in Connectors, Reads(r, c)
      PROVE  ValidatedInv'
  <2>1. /\ \A q \in Requests : q # r => pc'[q] = pc[q] /\ snap'[q] = snap[q]
        /\ snap'[r].conn = c /\ snap'[r].status = status[c] /\ snap'[r].version = version[c]
    BY <1>4 DEF Reads, TypeOK
  <2>2. SnapshotsValidated'
    BY <1>4, <2>1 DEF Reads, ValidatedInv, CheckedWasValidated, SnapshotsValidated,
       ValidatedUpTo, Fresh, HoldsLive, AuditSlotFree, db
  <2> QED
    BY <1>1, <1>4, <2>2 DEF Reads, ValidatedInv
<1>5. ASSUME NEW r \in Requests, NEW c \in Connectors, NEW s \in CREATABLE_STATES,
             Inserts(r, c, s)
      PROVE  ValidatedInv'
  <2> DEFINE row == AuditRow(1, "", s, "connector.created")
  <2>1. /\ \A d \in Connectors : d # c => /\ status'[d] = status[d] /\ version'[d] = version[d]
                                          /\ audit'[d] = audit[d]
        /\ status'[c] = s /\ version'[c] = 1 /\ audit'[c] = {row}
        /\ row.to = s /\ row.event = "connector.created"
    BY <1>5 DEF Inserts, TypeOK, AuditRow
  <2> HIDE DEF row
  <2>2. CheckedWasValidated'
    BY <2>1 DEF ValidatedInv, CheckedWasValidated, ValidatedUpTo, Unvalidated, Checked
  <2>3. \A q \in Requests : pc'[q] # "idle" =>
          pc[q] # "idle" /\ snap'[q] = snap[q] /\ snap[q].conn \in Connectors \ {c}
    BY <1>5 DEF Inserts, Answer, TypeOK, RowsExist, Snapshots
  <2>4. SnapshotsValidated'
    BY <2>1, <2>3 DEF ValidatedInv, SnapshotsValidated, ValidatedUpTo, Fresh, HoldsLive,
       AuditSlotFree
  <2> QED
    BY <2>2, <2>4 DEF ValidatedInv
<1>6. ASSUME NEW r \in Requests, NEW c \in Connectors, Deletes(r, c)
      PROVE  ValidatedInv'
  <2>1. /\ \A d \in Connectors : d # c => status'[d] = status[d] /\ version'[d] = version[d]
        /\ status'[c] \notin Checked /\ audit' = audit
        /\ \A q \in Requests : pc'[q] # "idle" => pc[q] # "idle" /\ snap'[q] = snap[q]
    BY <1>6 DEF Deletes, Answer, TypeOK, Checked
  <2>2. CheckedWasValidated'
    BY <2>1 DEF ValidatedInv, CheckedWasValidated, ValidatedUpTo
  <2>3. SnapshotsValidated'
    BY <2>1 DEF ValidatedInv, SnapshotsValidated, ValidatedUpTo, Fresh, HoldsLive,
       AuditSlotFree
  <2> QED
    BY <2>2, <2>3 DEF ValidatedInv
<1> QED
  BY <1>2, <1>3, <1>4, <1>5, <1>6, MoveKeepsValidated DEF StepForm

\* "No unvalidated configuration reaches a provider" (lifecycle.py): a
\* connector is enabled only with a successful validation after its last
\* configuration, also where a deletion request was overtaken by a validation
\* that had read the row before it.
THEOREM EnabledValidated == Spec => []EnabledWasValidated
<1>1. Init => ValidatedInv
  BY DEF Init, ValidatedInv, CheckedWasValidated, SnapshotsValidated, Fresh, HoldsLive,
     Checked, Absent
<1>2. RegistryInv /\ ValidatedInv /\ [Next]_vars => ValidatedInv'
  BY NextForm, StepKeepsValidated
<1>3. ValidatedInv => EnabledWasValidated
  BY DEF ValidatedInv, CheckedWasValidated, ValidatedUpTo, Checked, EnabledWasValidated,
     is_executable, EXECUTABLE_STATES
<1> QED
  BY <1>1, <1>2, <1>3, Invariance, PTL DEF Spec
=============================================================================

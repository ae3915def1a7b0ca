------------------------------ MODULE Lifecycle ------------------------------
(***************************************************************************)
(* The connector lifecycle of                                              *)
(* services/connector-registry/app/lifecycle.py: the states, the table of  *)
(* permitted edges and the look-ups the rest of the service makes in it.   *)
(* Pure data and operators; the state machine that uses them is            *)
(* ConnectorRegistry, the abstract one AbstractLifecycle.                  *)
(***************************************************************************)

States == {"draft", "installed", "configured", "validated", "enabled",
           "disabled", "revoked", "deletion_requested", "archived", "deleted"}

\* The status of a connector id for which no row has been inserted.
Absent == "absent"

\* Mutant: a revoked connector still serves traffic.
MutantExecutable == {"enabled", "revoked"}

EXECUTABLE_STATES == {"enabled"}
TERMINAL_STATES   == {"deleted"}
ONE_WAY_INTO      == {"revoked", "archived", "deleted"}

\* The states a connector may be created in; also the "live" states that a
\* revocation may start from.
CREATABLE_STATES == {"draft", "installed", "configured", "validated",
                     "enabled", "disabled"}

\* find is called with event = None by the install endpoint.
NoEvent == "none"

Events == {"connector.installed", "connector.configured",
           "connector.validation_succeeded", "connector.validation_failed",
           "connector.enabled", "connector.disabled",
           "connector.credentials_rotated", "connector.revoked",
           "connector.deletion_requested", "connector.archived",
           "connector.deleted"}

\* An edge with the defaults of the Transition dataclass, and one whose
\* flags are given.  `privileged' is read by nothing and left out.
Edge(source, target, event) ==
  [source |-> source, target |-> target, event |-> event,
   idempotent |-> FALSE, requires_reason |-> FALSE]

FlaggedEdge(source, target, event, idempotent, requires_reason) ==
  [source |-> source, target |-> target, event |-> event,
   idempotent |-> idempotent, requires_reason |-> requires_reason]

\* Mutant: an edge that enables a configuration nobody validated.
MutantEnableSources == {"configured", "validated", "disabled"}

\* The states with an edge to "enabled".
EnableSources == {"validated", "disabled"}

TRANSITIONS ==
  {Edge("draft", "installed", "connector.installed")}
  \cup {Edge(s, "configured", "connector.configured") :
          s \in {"installed", "configured", "validated", "disabled"}}
  \cup {Edge("configured", "validated", "connector.validation_succeeded"),
        Edge("configured", "configured", "connector.validation_failed")}
  \cup {Edge(s, "enabled", "connector.enabled") : s \in EnableSources}
  \cup {FlaggedEdge("enabled", "disabled", "connector.disabled", TRUE, TRUE)}
  \cup {Edge(s, s, "connector.credentials_rotated") :
          s \in {"enabled", "disabled"}}
  \cup {FlaggedEdge(s, "revoked", "connector.revoked", TRUE, TRUE) :
          s \in CREATABLE_STATES}
  \cup {FlaggedEdge(s, "deletion_requested", "connector.deletion_requested",
                    TRUE, TRUE) : s \in {"disabled", "revoked"}}
  \cup {FlaggedEdge(s, "archived", "connector.archived", TRUE, FALSE) :
          s \in {"deletion_requested", "revoked"}}
  \cup {FlaggedEdge("archived", "deleted", "connector.deleted", FALSE, TRUE)}

-----------------------------------------------------------------------------

is_executable(s) == s \in EXECUTABLE_STATES

\* find: the candidate edges; empty exactly when the code raises
\* TransitionError.  The code takes the first candidate; no request the
\* endpoints make has two.
find(source, target, event) ==
  {e \in TRANSITIONS :
     /\ ~(source \in TERMINAL_STATES /\ source # target)
     /\ e.source = source /\ e.target = target
     /\ event \in {NoEvent, e.event}}

\* idempotent_repeat: some idempotent edge leads INTO the state already held.
idempotent_repeat(current, target) ==
  /\ current = target
  /\ \E e \in TRANSITIONS : e.target = target /\ e.idempotent
=============================================================================

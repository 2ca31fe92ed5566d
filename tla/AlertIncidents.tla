--------------------------- MODULE AlertIncidents ---------------------------
(***************************************************************************)
(* What the alert script may rely on, stated without timers, thresholds or *)
(* instances: for each alert key the payloads tell of incidents.  An       *)
(* incident opens with a "fire" under an identifier nobody has seen, its   *)
(* updates carry that identifier, and it closes with a "resolve" that      *)
(* carries it too.  The one way it may end unannounced is that the         *)
(* configuration drops its key.                                            *)
(*                                                                         *)
(* AlertManager implements this specification.                             *)
(***************************************************************************)
CONSTANTS Key, Id, NoIncident

VARIABLES
  configured,  \* the keys the configuration has an alert for
  incident,    \* the open incident of each key, or NoIncident
  issued,      \* the identifiers used so far
  notices      \* what the last step told the script

abstractVars == <<configured, incident, issued, notices>>

Notice(k, action, id) == [key |-> k, action |-> action, id |-> id]

Init ==
  /\ configured \in SUBSET Key
  /\ incident = [k \in Key |-> NoIncident]
  /\ issued = {}
  /\ notices = {}

Opened == {k \in Key : incident[k] = NoIncident /\ incident'[k] # NoIncident}

Closed == {k \in Key : incident[k] # NoIncident /\ incident'[k] = NoIncident}

Continued == {k \in Key : incident[k] # NoIncident /\ incident'[k] # NoIncident}

\* One evaluation: any keys may open, continue or close their incident.
Tick ==
  /\ incident' \in [Key -> Id \cup {NoIncident}]
  /\ Opened \subseteq configured
  /\ \A k \in Opened : incident'[k] \notin issued
  /\ \A j, k \in Opened : incident'[j] = incident'[k] => j = k
  /\ \A k \in Continued : incident'[k] = incident[k]
  /\ issued' = issued \cup {incident'[k] : k \in Opened}
  /\ \E updated \in SUBSET Continued :
       notices' =      {Notice(k, "fire", incident'[k]) : k \in Opened}
                  \cup {Notice(k, "update", incident[k]) : k \in updated}
                  \cup {Notice(k, "resolve", incident[k]) : k \in Closed}
  /\ UNCHANGED configured

\* A new configuration withdraws the incidents of the keys it leaves out.
Reconfigure ==
  /\ configured' \in SUBSET Key
  /\ incident' = [k \in Key |-> IF k \in configured' THEN incident[k] ELSE NoIncident]
  /\ notices' = {}
  /\ UNCHANGED issued

Next == Tick \/ Reconfigure

Spec == Init /\ [][Next]_abstractVars
=============================================================================

------------------------------- MODULE Metrics -------------------------------
(***************************************************************************)
(* The metrics endpoint: after an evaluation the ticker publishes the      *)
(* rates and then the alert states, each under a lock of its own (main.rs, *)
(* run_ticker), and the server thread reads both for a page, holding the   *)
(* read lock on the rates while it waits for the one on the states         *)
(* (prometheus.rs, spawn).                                                 *)
(*                                                                         *)
(* Rates and states are represented by the second of the evaluation they   *)
(* come from; a page is rendered in the step that gets the second lock.    *)
(***************************************************************************)
EXTENDS Integers, FiniteSets

VARIABLES
  ticker,        \* "due", "evaluated" or "published" (the rates), or "idle"
  evaluation,    \* the second of the last evaluation
  snapshots,     \* SharedSnapshots
  alert_states,  \* SharedAlertStates
  page           \* the rates the server holds the read lock for, if it does

metricsVars == <<ticker, evaluation, snapshots, alert_states, page>>

MetricsTypeOK ==
  /\ ticker \in {"due", "evaluated", "published", "idle"}
  /\ {evaluation, snapshots, alert_states} \subseteq Nat
  /\ page \subseteq Nat /\ Cardinality(page) <= 1

\* Before the first evaluation, of second `start` at the earliest, both are empty.
MetricsInit(start) ==
  /\ ticker = "due"
  /\ evaluation = start - 1
  /\ snapshots = start - 1
  /\ alert_states = start - 1
  /\ page = {}

\* The evaluation of second t, whose results the ticker holds.
Evaluated(t) ==
  /\ ticker = "due"
  /\ ticker' = "evaluated"
  /\ evaluation' = t
  /\ UNCHANGED <<snapshots, alert_states, page>>

\* Mutant of PublishSnapshots: the page has its own copy and no lock.
PublishSnapshotsAnytime ==
  /\ ticker = "evaluated"
  /\ ticker' = "published"
  /\ snapshots' = evaluation
  /\ UNCHANGED <<evaluation, alert_states, page>>

PublishSnapshots ==
  /\ ticker = "evaluated"
  /\ page = {}
  /\ ticker' = "published"
  /\ snapshots' = evaluation
  /\ UNCHANGED <<evaluation, alert_states, page>>

PublishStates ==
  /\ ticker = "published"
  /\ ticker' = "idle"
  /\ alert_states' = evaluation
  /\ UNCHANGED <<evaluation, snapshots, page>>

\* The first lock of a request.
ReadSnapshots ==
  /\ page = {}
  /\ page' = {snapshots}
  /\ UNCHANGED <<ticker, evaluation, snapshots, alert_states>>

\* The second lock; the page is rendered and both are released.
RenderPage ==
  /\ page # {}
  /\ page' = {}
  /\ UNCHANGED <<ticker, evaluation, snapshots, alert_states>>

(***************************************************************************)
(* A page never mixes rates with the alert states of a later evaluation,   *)
(* and its states are at most one evaluation old, although the two are     *)
(* published and read one after the other (run_ticker, prometheus::spawn). *)
(***************************************************************************)
PageConsistent ==
  \A second \in page : alert_states \in {second - 1, second}
=============================================================================

----------------------------- MODULE SubjectLog -----------------------------
(* What the owner of a subject promises to those who send it requests: they *)
(* are taken one at a time, each becomes one event, in the order in which   *)
(* they were registered, and neither a registered request nor an event is   *)
(* ever taken back.  How an event comes about is none of its concern.       *)
EXTENDS Naturals, Sequences

CONSTANT Requests

VARIABLES
  registered,  \* requests that were accepted
  log          \* the requests of the events of the subject, in order

Done == {log[n] : n \in DOMAIN log}

Init == registered = {} /\ log = <<>>

Register(r) ==
  /\ registered = Done
  /\ r \notin registered
  /\ registered' = registered \cup {r}
  /\ UNCHANGED log

Apply(r) ==
  /\ r \in registered \ Done
  /\ log' = Append(log, r)
  /\ UNCHANGED registered

Spec == Init /\ [][\E r \in Requests : Register(r) \/ Apply(r)]_<<registered, log>>
=============================================================================

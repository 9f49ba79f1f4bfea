------------------------------- MODULE Outbox -------------------------------
(***************************************************************************)
(* What the Edge buffer and its sender promise, with no rows, batches,     *)
(* requests or counters: a store-and-forward outbox with at-least-once     *)
(* delivery.  A message is held from the moment it is produced; it stops   *)
(* being held only because the MES has it, or because it outlived the      *)
(* retention period.  A message may still arrive after it was dropped, or  *)
(* again after it was released: a request in flight is not recalled.       *)
(* EdgeDelivery is shown to implement this specification.                  *)
(***************************************************************************)
EXTENDS Naturals

CONSTANT Msg             \* the messages that may ever be produced

VARIABLES produced,      \* messages given an identity so far
          held,          \* messages the outbox still has to hand over
          delivered,     \* messages the other side has committed
          expired        \* messages dropped by the retention rule

outboxVars == <<produced, held, delivered, expired>>

OutboxInit ==
  /\ produced = {}
  /\ held = {}
  /\ delivered = {}
  /\ expired = {}

\* New messages get identities no earlier message had, and are held.
Produce(S) ==
  /\ S \cap produced = {}
  /\ produced' = produced \cup S
  /\ held' = held \cup S
  /\ UNCHANGED <<delivered, expired>>

\* The other side commits messages; nothing it has not been given.
Deliver(S) ==
  /\ S \subseteq produced
  /\ delivered' = delivered \cup S
  /\ UNCHANGED <<produced, held, expired>>

\* Messages are let go once the other side has them.
Release(S) ==
  /\ S \subseteq delivered
  /\ held' = held \ S
  /\ UNCHANGED <<produced, delivered, expired>>

\* Messages past their retention are given up and recorded as such.
Drop(S) ==
  /\ S \subseteq held
  /\ held' = held \ S
  /\ expired' = expired \cup S
  /\ UNCHANGED <<produced, delivered>>

OutboxNext ==
  \E S \in SUBSET Msg : Produce(S) \/ Deliver(S) \/ Release(S) \/ Drop(S)

OutboxSpec == OutboxInit /\ [][OutboxNext]_outboxVars

=============================================================================

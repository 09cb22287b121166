--------------------------- MODULE EvidenceLedger ---------------------------
(***************************************************************************)
(* What one evidence directory promises, without the daemon, the processes *)
(* and their failures.  As long as the operator is careful, a ledger is    *)
(* opened for a measurement before its container exists, containers exist  *)
(* only for the measurement the ledger is open for, and it is closed only  *)
(* when nothing is held.  Whether he is or not, evidence is published once,*)
(* for a measurement that holds nothing and whose ledger is closed, and so *)
(* it stays.                                                               *)
(***************************************************************************)
EXTENDS Naturals

CONSTANT MaxMeasurements

VARIABLES
    careless,   \* somebody has broken the rules
    owner,      \* the measurement the ledger is open for, 0 when it is closed
    held,       \* measurements whose container may exist
    published   \* the measurement whose evidence is published, 0 for none

ledgerVars == <<careless, owner, held, published>>

LedgerInit == careless = FALSE /\ owner = 0 /\ held = {} /\ published = 0

Open(t) == /\ owner = 0 /\ held = {} /\ published # t
           /\ owner' = t
           /\ UNCHANGED <<held, published>>
Hold == /\ owner # 0
        /\ held' = held \cup {owner}
        /\ UNCHANGED <<owner, published>>
Release == /\ held' \in SUBSET held
           /\ UNCHANGED <<owner, published>>
Close == /\ owner # 0 /\ held = {}
         /\ owner' = 0
         /\ UNCHANGED <<held, published>>
Publish(t) == /\ published = 0 /\ t \notin held /\ owner # t
              /\ published' = t
              /\ UNCHANGED <<owner, held>>

\* Somebody breaks the rules; from then on only the evidence can be relied on.
LoseCare == ~careless /\ careless' = TRUE /\ UNCHANGED <<owner, held, published>>
Confuse == /\ owner' \in 0..MaxMeasurements /\ held' \in SUBSET (1..MaxMeasurements)
           /\ published \notin held' /\ (published # 0 => owner' # published)
           /\ UNCHANGED published

LedgerNext ==
    \/ /\ UNCHANGED careless
       /\ \/ \E t \in 1..MaxMeasurements : Publish(t)
          \/ ~careless /\ \E t \in 1..MaxMeasurements : Open(t)
          \/ ~careless /\ (Hold \/ Release \/ Close)
          \/ careless /\ Confuse
    \/ LoseCare

LedgerSpec == LedgerInit /\ [][LedgerNext]_ledgerVars
=============================================================================

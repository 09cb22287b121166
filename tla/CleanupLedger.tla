---------------------------- MODULE CleanupLedger ----------------------------
(***************************************************************************)
(* What the cleanup journal of one output directory promises, without the  *)
(* daemon, the processes or their failures: a ledger is opened in the name *)
(* of an attempt before the attempt holds anything, the attempt holds      *)
(* things only while the ledger is open in its name, the ledger is closed  *)
(* only when nothing is held, and a result is on show only while it is     *)
(* closed.                                                                 *)
(***************************************************************************)
EXTENDS Naturals

CONSTANTS MaxAttempts, Roles

VARIABLES
    owner,      \* the attempt the ledger is open for, 0 when it is closed
    held,       \* <<attempt, role>>: resources that may exist
    published   \* the attempt whose result is on show, 0 for none

ledgerVars == <<owner, held, published>>

LedgerInit == owner = 0 /\ held = {} /\ published = 0

Open(t) == /\ owner = 0 /\ published = 0
           /\ owner' = t
           /\ UNCHANGED <<held, published>>
Hold(r) == /\ owner # 0
           /\ held' = held \cup {<<owner, r>>}
           /\ UNCHANGED <<owner, published>>
Release == /\ owner # 0
           /\ held' \in SUBSET held
           /\ UNCHANGED <<owner, published>>
Close == /\ owner # 0 /\ held = {}
         /\ owner' = 0
         /\ UNCHANGED <<held, published>>
Publish(t) == /\ owner = 0 /\ published = 0
              /\ published' = t
              /\ UNCHANGED <<owner, held>>
Withdraw == /\ owner = 0
            /\ published' = 0
            /\ UNCHANGED <<owner, held>>

LedgerNext ==
    \/ \E t \in 1..MaxAttempts : Open(t) \/ Publish(t)
    \/ \E r \in Roles : Hold(r)
    \/ Release \/ Close \/ Withdraw

LedgerSpec == LedgerInit /\ [][LedgerNext]_ledgerVars
=============================================================================

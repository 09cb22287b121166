-------------------------- MODULE MeasurementProofs --------------------------
(***************************************************************************)
(* Proofs about MeasurementJournal for every number of processes, daemons, *)
(* measurements and faults.                                                *)
(***************************************************************************)
EXTENDS MeasurementJournal, TLAPS

Starting == {"publish_journal", "create"}
Exporting == {"confirm_journal", "export"}
Finishing == {"cleanup_inspect", "cleanup_remove", "cleanup_unlink"}
Measuring == Starting \cup Exporting \cup Finishing \cup {"write_evidence"}
Named == {"create"} \cup Exporting \cup Finishing
Reconciling == {"identity", "inspect", "remove", "unlink"}
Cleaning == {"load"} \cup Reconciling
Places == {"idle"} \cup Measuring \cup Cleaning
Outcomes == {"none", "measured", "rejected", "failed"}

Tokens == 0..MaxMeasurements
Locals == [pc : Places, tok : Tokens, dmn : Daemons \cup {NoDaemon},
           outcome : Outcomes, uncertain : BOOLEAN, confirm : BOOLEAN]
Journals == [tok : Tokens, dmn : Daemons \cup {NoDaemon}, uncertain : BOOLEAN]
Exits == [tok : Tokens, code : Nat, outcome : Outcomes]

TypeOK ==
    /\ journal \in Journals
    /\ me \in [Procs -> Locals]
    /\ exit \in [Procs -> Exits]
    /\ endpoint \in Daemons
    /\ restarted \in BOOLEAN
    /\ home \in [Measurements -> Daemons \cup {NoDaemon}]
    /\ started \in Tokens
    /\ careless \in BOOLEAN

\* The container of measurement t.
Home(t) == <<home[t], t>>

\* Every measurement has a token and a container of its own, on the daemon the
\* runtime command reaches as long as it runs.
TokenInv ==
    /\ \A p \in Procs : me[p].pc \in Measuring =>
          /\ me[p].tok \in 1..started
          /\ home[me[p].tok] = endpoint /\ me[p].dmn = endpoint
    /\ \A p, q \in Procs :
          me[p].pc \in Measuring /\ me[q].pc \in Measuring /\ p # q
             => me[p].tok # me[q].tok
    /\ \A x \in present \cup inflight : \E t \in 1..started : x = Home(t)
    /\ present \cap inflight = {}
    /\ journal.tok # 0 =>
          journal.tok \in 1..started /\ journal.dmn = home[journal.tok]

\* What the locals l know of their measurement's container at their place, with
\* these containers made and these requests open.
ContainerOK(l, made, coming) ==
    /\ l.pc \in Starting => Home(l.tok) \notin made \cup coming
    /\ l.pc \in Exporting \cup {"cleanup_remove"} => Home(l.tok) \notin coming
    /\ l.pc \in Measuring /\ l.outcome \in {"measured", "rejected"}
          => Home(l.tok) \notin coming
    /\ l.pc \in {"cleanup_unlink", "write_evidence"}
          => Home(l.tok) \notin made \cup coming
    /\ l.pc \in Starting \cup Exporting \cup Cleaning => l.outcome = "none"

ContainerInv == \A p \in Procs : ContainerOK(me[p], present, inflight)

\* A measurement that has ended with a verdict is over.
ExitInv ==
    \A p \in Procs :
        exit[p].code \in {0, 6} /\ exit[p].outcome # "none" =>
            /\ exit[p].tok \in 1..started
            /\ Home(exit[p].tok) \notin present \cup inflight
            /\ \A q \in Procs :
                  me[q].pc \in Measuring => me[q].tok # exit[p].tok

\* While nobody was careless, one daemon is all there is, every container is the
\* one the journal names, and a journal that is sure, or whose daemon was
\* restarted, has no request open.
CareWorld ==
    /\ \A t \in 1..started : home[t] = endpoint
    /\ \A t \in 1..started : Home(t) \in present \cup inflight => journal.tok = t
    /\ journal.tok # 0 /\ (restarted \/ ~journal.uncertain)
          => Home(journal.tok) \notin inflight

\* A running measurement is the one the journal names, and a cleanup works on
\* the journal as it is.
CareOK(l, j, again, made, coming) ==
    /\ l.pc \in Named => j.tok = l.tok /\ ~again
    /\ l.pc = "create" => j.uncertain
    /\ l.pc \in Reconciling => /\ j.tok = l.tok /\ l.tok # 0
                               /\ l.dmn = j.dmn /\ l.uncertain = j.uncertain
    /\ l.pc \in Cleaning /\ l.confirm => again
    /\ l.pc = "remove" => Home(l.tok) \notin coming
    /\ l.pc = "unlink" => Home(l.tok) \notin made \cup coming

\* And a cleanup is alone.
CareInv ==
    /\ CareWorld
    /\ \A p \in Procs : CareOK(me[p], journal, restarted, present, inflight)
    /\ \A p, q \in Procs : me[p].pc \in Cleaning /\ p # q => me[q].pc = "idle"

IInv == TypeOK /\ TokenInv /\ ContainerInv /\ ExitInv /\ (~careless => CareInv)
-----------------------------------------------------------------------------
(* What a step of one process keeps.                                       *)

Core == TypeOK /\ TokenInv /\ ContainerInv /\ ExitInv

\* The container process p works on, if it is measuring.
Own(p) == IF me[p].pc \in Measuring THEN {Home(me[p].tok)} ELSE {}

\* Process p goes on with the locals l; a measurement stays the one it is.
Moves(p, l) ==
    /\ l \in Locals
    /\ me' = [me EXCEPT ![p] = l]
    /\ l.pc \in Measuring =>
          me[p].pc \in Measuring /\ l.tok = me[p].tok /\ l.dmn = me[p].dmn
    /\ UNCHANGED <<endpoint, home, started>>
    /\ restarted' \in BOOLEAN /\ careless' \in BOOLEAN

\* It adds no container but its own, and not to both sets.
Touches(p) ==
    /\ present' \subseteq present \cup Own(p)
    /\ inflight' \subseteq inflight \cup Own(p)
    /\ present' \cap inflight' = {}

\* The journal stays, goes, or is that of its measurement.
Writes(p) ==
    \/ journal' \in {journal, NoJournal}
    \/ /\ me[p].pc \in Measuring
       /\ \E u \in BOOLEAN :
             journal' = [tok |-> me[p].tok, dmn |-> me[p].dmn, uncertain |-> u]

\* It goes on running, or ends, with a verdict only if nothing is left behind.
Reports(p, l) ==
    \/ UNCHANGED exit
    \/ exit' = [exit EXCEPT ![p] = NoRun]
    \/ /\ l = Idle
       /\ \E c \in {0, 4, 6} :
             /\ exit' = [exit EXCEPT ![p] = [tok |-> me[p].tok, code |-> c,
                                             outcome |-> me[p].outcome]]
             /\ c \in {0, 6} /\ me[p].outcome # "none" =>
                   /\ me[p].pc \in Measuring
                   /\ Home(me[p].tok) \notin present' \cup inflight'

\* Any such step keeps what holds whether somebody was careless or not.
LEMMA CoreKept ==
    ASSUME Core, NEW p \in Procs, NEW l, Moves(p, l), Touches(p), Writes(p),
           Reports(p, l), ContainerOK(l, present', inflight')
    PROVE  Core'
  <1> USE DEF Core
  <1>1. /\ me \in [Procs -> Locals] /\ l \in Locals
        /\ me' = [me EXCEPT ![p] = l]
        /\ me'[p] = l
        /\ \A q \in Procs \ {p} : me'[q] = me[q]
    BY DEF TypeOK, Moves
  <1>2. /\ endpoint' = endpoint /\ home' = home /\ started' = started
        /\ \A t : Home(t)' = Home(t)
    BY DEF Moves, Home
  <1>3. \A q \in Procs : me[q].pc \in Measuring =>
           me[q].tok \in 1..started /\ home[me[q].tok] = endpoint
             /\ me[q].dmn = endpoint
    BY DEF TokenInv
  <1>4. \A q \in Procs \ {p} : me[p].pc \in Measuring /\ me[q].pc \in Measuring
           => me[q].tok # me[p].tok
    BY DEF TokenInv
  <1>5. \A s, t : Home(s) = Home(t) => s = t
    BY DEF Home
  <1>6. \A t : Home(t) \notin present \cup inflight /\ Home(t) \notin Own(p)
           => Home(t) \notin present' \cup inflight'
    BY DEF Touches
  <1>7. \A t : Home(t) \in Own(p) => me[p].pc \in Measuring /\ t = me[p].tok
    BY <1>5 DEF Own
  <1>8. Idle \in Locals /\ Idle.pc = "idle" /\ "idle" \notin Measuring
    BY MeasurementJournalAssumption
    DEF MeasurementJournalAssumption, Idle, Locals, Places, Tokens, Outcomes,
        Measuring, Starting, Exporting, Finishing
  <1>9. TypeOK'
    <2>1. journal' \in Journals
      <3>1. NoJournal \in Journals
        BY MeasurementJournalAssumption
        DEF MeasurementJournalAssumption, NoJournal, Journals, Tokens
      <3>2. me[p].tok \in Tokens /\ me[p].dmn \in Daemons \cup {NoDaemon}
        BY <1>1 DEF Locals
      <3> QED BY <3>1, <3>2 DEF Writes, Journals, TypeOK
    <2>2. me' \in [Procs -> Locals]
      BY <1>1
    <2>3. exit' \in [Procs -> Exits]
      <3>1. NoRun \in Exits
        BY MeasurementJournalAssumption
        DEF MeasurementJournalAssumption, NoRun, Exits, NoExit, Outcomes, Tokens
      <3>2. \A c \in {0, 4, 6} : [tok |-> me[p].tok, code |-> c,
                                  outcome |-> me[p].outcome] \in Exits
        BY <1>1 DEF Locals, Exits
      <3> QED BY <3>1, <3>2 DEF Reports, TypeOK
    <2> QED BY <1>2, <2>1, <2>2, <2>3 DEF TypeOK, Moves
  <1>10. TokenInv'
    <2>1. \A q \in Procs : me'[q].pc \in Measuring =>
             me[q].pc \in Measuring /\ me'[q].tok = me[q].tok
               /\ me'[q].dmn = me[q].dmn
      BY <1>1 DEF Moves
    <2>2. \A q \in Procs : me'[q].pc \in Measuring =>
             /\ me'[q].tok \in 1..started'
             /\ home'[me'[q].tok] = endpoint' /\ me'[q].dmn = endpoint'
      BY <1>2, <1>3, <2>1
    <2>3. \A q, r \in Procs :
             me'[q].pc \in Measuring /\ me'[r].pc \in Measuring /\ q # r
                => me'[q].tok # me'[r].tok
      BY <2>1 DEF TokenInv
    <2>4. \A x \in present' \cup inflight' :
             \E t \in 1..started' : x = Home(t)'
      <3>1. \A x \in Own(p) : \E t \in 1..started : x = Home(t)
        BY <1>3 DEF Own
      <3>2. \A x \in present' \cup inflight' : \E t \in 1..started : x = Home(t)
        BY <3>1 DEF Touches, TokenInv
      <3> QED BY <1>2, <3>2
    <2>5. present' \cap inflight' = {}
      BY DEF Touches
    <2>6. journal'.tok # 0 =>
             journal'.tok \in 1..started' /\ journal'.dmn = home'[journal'.tok]
      <3>1. NoJournal.tok = 0
        BY DEF NoJournal
      <3>2. journal.tok # 0 => journal.tok \in 1..started
                                 /\ journal.dmn = home[journal.tok]
        BY DEF TokenInv
      <3> QED BY <1>2, <1>3, <3>1, <3>2 DEF Writes
    <2> QED BY <2>2, <2>3, <2>4, <2>5, <2>6 DEF TokenInv
  <1>11. ContainerInv'
    <2> SUFFICES ASSUME NEW q \in Procs
                 PROVE  ContainerOK(me[q], present, inflight)'
      BY DEF ContainerInv
    <2>1. CASE q = p
      BY <1>1, <1>2, <2>1 DEF ContainerOK
    <2>2. CASE q # p
      <3>1. me'[q] = me[q]
        BY <1>1, <2>2
      <3>2. ContainerOK(me[q], present, inflight)
        BY DEF ContainerInv
      <3>3. me[q].pc \in Measuring => Home(me[q].tok) \notin Own(p)
        BY <1>4, <1>7, <2>2
      <3>4. /\ Starting \subseteq Measuring /\ Exporting \subseteq Measuring
            /\ "cleanup_remove" \in Measuring /\ "cleanup_unlink" \in Measuring
            /\ "write_evidence" \in Measuring
        BY DEF Measuring, Finishing
      <3>5. me[q].pc \in Measuring =>
               /\ Home(me[q].tok) \in present' => Home(me[q].tok) \in present
               /\ Home(me[q].tok) \in inflight' => Home(me[q].tok) \in inflight
        BY <3>3 DEF Touches
      <3> QED BY <1>2, <3>1, <3>2, <3>4, <3>5 DEF ContainerOK
    <2> QED BY <2>1, <2>2
  <1>12. ExitInv'
    <2> SUFFICES ASSUME NEW q \in Procs, exit'[q].code \in {0, 6},
                        exit'[q].outcome # "none"
                 PROVE  /\ exit'[q].tok \in 1..started'
                        /\ Home(exit[q].tok)' \notin present' \cup inflight'
                        /\ \A r \in Procs :
                              me'[r].pc \in Measuring => me'[r].tok # exit'[q].tok
      BY DEF ExitInv
    <2>0. \A r \in Procs : me'[r].pc \in Measuring =>
             me[r].pc \in Measuring /\ me'[r].tok = me[r].tok
      BY <1>1 DEF Moves
    <2>1. CASE exit'[q] = exit[q]
      <3>1. /\ exit[q].tok \in 1..started
            /\ Home(exit[q].tok) \notin present \cup inflight
            /\ \A r \in Procs : me[r].pc \in Measuring => me[r].tok # exit[q].tok
        BY <2>1 DEF ExitInv
      <3>2. Home(exit[q].tok) \notin Own(p)
        BY <1>7, <3>1
      <3> QED BY <1>2, <1>6, <2>0, <2>1, <3>1, <3>2
    <2>2. CASE exit'[q] # exit[q]
      <3>1. exit \in [Procs -> Exits] /\ NoRun.outcome = "none"
        BY DEF TypeOK, NoRun
      <3>2. PICK c \in {0, 4, 6} :
               /\ exit' = [exit EXCEPT ![p] = [tok |-> me[p].tok, code |-> c,
                                               outcome |-> me[p].outcome]]
               /\ l = Idle
               /\ c \in {0, 6} /\ me[p].outcome # "none" =>
                     /\ me[p].pc \in Measuring
                     /\ Home(me[p].tok) \notin present' \cup inflight'
        BY <2>2, <3>1 DEF Reports
      <3>3. /\ q = p /\ exit'[q].tok = me[p].tok
            /\ me[p].pc \in Measuring
            /\ Home(me[p].tok) \notin present' \cup inflight'
        BY <2>2, <3>1, <3>2
      <3>4. \A r \in Procs : me'[r].pc \in Measuring => me'[r].tok # me[p].tok
        <4>1. me'[p].pc \notin Measuring
          BY <1>1, <1>8, <3>2
        <4> QED BY <1>4, <2>0, <3>3, <4>1
      <3> QED BY <1>2, <1>3, <3>3, <3>4
    <2> QED BY <2>1, <2>2
  <1> QED BY <1>9, <1>10, <1>11, <1>12
\* While nobody is careless the others leave the journal to a process at work.
LEMMA OthersLeaveIt ==
    ASSUME Core, CareInv, NEW p \in Procs
    PROVE  /\ me[p].pc # "idle" =>
                 \A q \in Procs \ {p} : me[q].pc \notin Cleaning
           /\ me[p].pc \in Named =>
                 \A q \in Procs \ {p} : me[q].pc \notin Named
           /\ me[p].pc \in Cleaning =>
                 \A q \in Procs \ {p} : me[q].pc = "idle"
           /\ journal.tok = 0 => \A q \in Procs : me[q].pc \notin Named
  <1>1. \A q \in Procs : me[q].pc \in Named => me[q].pc \in Measuring
    BY DEF Named, Measuring, Starting
  <1>2. \A q \in Procs : me[q].pc \in Named =>
           journal.tok = me[q].tok /\ me[q].tok \in 1..started
    BY <1>1 DEF CareInv, CareOK, Core, TokenInv
  <1>3. \A q \in Procs \ {p} : me[p].pc \in Named /\ me[q].pc \in Named
           => me[p].tok # me[q].tok
    BY <1>1 DEF Core, TokenInv
  <1>4. \A i, j \in Procs : me[i].pc \in Cleaning /\ i # j => me[j].pc = "idle"
    BY DEF CareInv
  <1>5. "idle" \notin Named
    BY DEF Named, Exporting, Finishing
  <1>6. started \in Nat
    BY MeasurementJournalAssumption
    DEF MeasurementJournalAssumption, Core, TypeOK, Tokens
  <1> QED BY <1>2, <1>3, <1>4, <1>5, <1>6

\* What a step of p has to show while nobody is careless: the world stays what
\* it is, and who changes the journal, the containers or the requests, or leaves
\* idleness, is not in anybody's way.
Careful(p, l) ==
    /\ CareWorld'
    /\ CareOK(l, journal', restarted', present', inflight')
    /\ \/ UNCHANGED <<journal, restarted>>
       \/ \A q \in Procs \ {p} : me[q].pc \notin Named
    /\ me[p].pc = "idle" =>
          /\ UNCHANGED <<journal, restarted, present, inflight>>
          /\ l.pc # "idle" => l.pc \in Cleaning /\ AllIdle
    /\ l.pc \in Cleaning => me[p].pc \in Cleaning \cup {"idle"}

LEMMA StepKept ==
    ASSUME IInv, NEW p \in Procs, NEW l, Moves(p, l), Touches(p), Writes(p),
           Reports(p, l), ContainerOK(l, present', inflight'),
           ~careless' => ~careless /\ (CareInv => Careful(p, l))
    PROVE  IInv'
  <1>1. Core
    BY DEF IInv, Core
  <1>2. Core'
    BY <1>1, CoreKept
  <1>3. ASSUME ~careless'
        PROVE  CareInv'
    <2>1. CareInv /\ Careful(p, l)
      BY <1>3 DEF IInv
    <2>2. /\ me \in [Procs -> Locals] /\ me' = [me EXCEPT ![p] = l]
          /\ me'[p] = l
          /\ \A q \in Procs \ {p} : me'[q] = me[q]
          /\ \A t : Home(t)' = Home(t)
      BY <1>1 DEF Core, TypeOK, Moves, Home
    <2>3. "idle" \notin Named \cup Cleaning \cup Reconciling
      BY DEF Named, Exporting, Finishing, Cleaning, Reconciling
    <2>4. CareWorld'
      BY <2>1 DEF Careful
    <2>5. \A q \in Procs : CareOK(me[q], journal, restarted, present, inflight)'
      <3> SUFFICES ASSUME NEW q \in Procs
                   PROVE  CareOK(me[q], journal, restarted, present, inflight)'
        OBVIOUS
      <3>1. CASE q = p
        BY <2>1, <2>2, <3>1 DEF Careful, CareOK
      <3>2. CASE q # p
        <4>1. CareOK(me[q], journal, restarted, present, inflight)
          BY <2>1 DEF CareInv
        <4>2. CASE me[p].pc = "idle"
          BY <2>1, <2>2, <3>2, <4>1, <4>2 DEF Careful, CareOK
        <4>3. CASE me[p].pc # "idle"
          <5>1. me[q].pc \notin Cleaning
            BY <1>1, <2>1, <3>2, <4>3, OthersLeaveIt
          <5>2. /\ Reconciling \subseteq Cleaning /\ "remove" \in Cleaning
                /\ "unlink" \in Cleaning /\ "create" \in Named
            BY DEF Cleaning, Reconciling, Named
          <5>3. me[q].pc \in Named => UNCHANGED <<journal, restarted>>
            BY <2>1, <3>2 DEF Careful
          <5> QED BY <2>2, <3>2, <4>1, <5>1, <5>2, <5>3 DEF CareOK
        <4> QED BY <4>2, <4>3
      <3> QED BY <3>1, <3>2
    <2>6. \A q, r \in Procs : me'[q].pc \in Cleaning /\ q # r => me'[r].pc = "idle"
      <3> SUFFICES ASSUME NEW q \in Procs, NEW r \in Procs,
                          me'[q].pc \in Cleaning, q # r
                   PROVE  me'[r].pc = "idle"
        OBVIOUS
      <3>1. CASE q = p
        BY <1>1, <2>1, <2>2, <3>1, OthersLeaveIt DEF Careful, AllIdle, At
      <3>2. CASE q # p
        <4>1. /\ me[q].pc \in Cleaning /\ me[r].pc = "idle" /\ me[p].pc = "idle"
              /\ me[q].pc # "idle"
          BY <2>1, <2>2, <2>3, <3>2 DEF CareInv
        <4> QED BY <2>1, <2>2, <4>1 DEF Careful, AllIdle, At
      <3> QED BY <3>1, <3>2
    <2> QED BY <2>4, <2>5, <2>6 DEF CareInv
  <1> QED BY <1>2, <1>3 DEF IInv, Core
-----------------------------------------------------------------------------
(* Steps that only move a process, and the ways it ends.                   *)

\* A measurement's container is its own, on the daemon the command reaches.
LEMMA AtWork ==
    ASSUME Core, NEW p \in Procs
    PROVE  /\ me[p] \in Locals
           /\ me[p].pc \in Measuring =>
                 /\ Container(p) = Home(me[p].tok) /\ Own(p) = {Container(p)}
                 /\ me[p].tok \in 1..started
                 /\ me[p].dmn = endpoint /\ home[me[p].tok] = endpoint
           /\ present \cap inflight = {}
           /\ ContainerOK(me[p], present, inflight)
           /\ restarted \in BOOLEAN /\ careless \in BOOLEAN
  BY DEF Core, TypeOK, TokenInv, ContainerInv, Container, Home, Own

\* Between its journal and its last unlink it is all there is, while nobody is
\* careless.
LEMMA OnlyOne ==
    ASSUME Core, CareInv, NEW p \in Procs, me[p].pc \in Named
    PROVE  /\ journal.tok = me[p].tok /\ ~restarted /\ journal.tok # 0
           /\ me[p].pc \in Measuring
           /\ present \cup inflight \subseteq {Container(p)}
           /\ \A q \in Procs \ {p} : me[q].pc \notin Named
  <1>1. me[p].pc \in Measuring
    BY DEF Named, Measuring, Starting
  <1>2. journal.tok = me[p].tok /\ ~restarted
    BY DEF CareInv, CareOK
  <1>3. Container(p) = Home(me[p].tok) /\ me[p].tok \in 1..started
    BY <1>1, AtWork
  <1>4. \A x \in present \cup inflight : \E t \in 1..started : x = Home(t)
    BY DEF Core, TokenInv
  <1>5. \A x \in present \cup inflight : x = Home(journal.tok)
    BY <1>4 DEF CareInv, CareWorld
  <1>6. started \in Nat
    BY MeasurementJournalAssumption
    DEF MeasurementJournalAssumption, Core, TypeOK, Tokens
  <1> QED BY <1>1, <1>2, <1>3, <1>5, <1>6, OthersLeaveIt

LEMMA IdleType ==
    /\ Idle \in Locals /\ Idle.pc = "idle"
    /\ "idle" \notin Measuring \cup Cleaning \cup Named
    /\ \A a, b : ContainerOK(Idle, a, b)
    /\ \A j, r, a, b : CareOK(Idle, j, r, a, b)
  <1>1. Idle \in Locals /\ Idle.pc = "idle"
    BY MeasurementJournalAssumption
    DEF MeasurementJournalAssumption, Idle, Locals, Places, Tokens, Outcomes
  <1>2. "idle" \notin Measuring \cup Cleaning \cup Named \cup Starting
                        \cup Exporting \cup Reconciling
    BY DEF Measuring, Cleaning, Named, Starting, Exporting, Finishing, Reconciling
  <1> QED BY <1>1, <1>2 DEF ContainerOK, CareOK

\* What the world must be like after a step that touches more than a process.
CarefulWorld(p) ==
    /\ CareWorld'
    /\ \/ UNCHANGED <<journal, restarted>>
       \/ \A q \in Procs \ {p} : me[q].pc \notin Named

\* A process ends.
LEMMA QuitKept ==
    ASSUME IInv, NEW p \in Procs, NEW c \in {0, 4, 6}, Quit(p, c),
           me[p].pc # "idle",
           UNCHANGED <<endpoint, home, started, careless>>, restarted' \in BOOLEAN,
           Touches(p), Writes(p),
           c \in {0, 6} /\ me[p].outcome # "none" =>
              /\ me[p].pc \in Measuring
              /\ Home(me[p].tok) \notin present' \cup inflight',
           ~careless /\ CareInv => CarefulWorld(p)
    PROVE  IInv'
  <1>1. Core
    BY DEF IInv, Core
  <1>2. Moves(p, Idle)
    BY <1>1, AtWork, IdleType DEF Quit, Moves
  <1>3. Reports(p, Idle)
    BY DEF Quit, Reports
  <1>4. ~careless' => ~careless /\ (CareInv => Careful(p, Idle))
    BY IdleType DEF Careful, CarefulWorld
  <1> QED BY <1>2, <1>3, <1>4, IdleType, StepKept

\* The world around the processes stands still.
Still == UNCHANGED <<journal, evidence, daemonVars, otherVars>>

LEMMA StillKept ==
    ASSUME Core, NEW p \in Procs, UNCHANGED <<journal, daemonVars, otherVars>>
    PROVE  Touches(p) /\ Writes(p) /\ (CareInv => CarefulWorld(p))
  <1>1. Touches(p)
    BY DEF daemonVars, Touches, Core, TokenInv
  <1>2. CareInv => CareWorld'
    BY DEF daemonVars, otherVars, CareInv, CareWorld, Home
  <1> QED BY <1>1, <1>2 DEF Writes, CarefulWorld, otherVars

\* It ends and nothing else happens.
LEMMA JustQuits ==
    ASSUME IInv, NEW p \in Procs, Quit(p, 4), me[p].pc # "idle",
           UNCHANGED <<journal, daemonVars, otherVars>>
    PROVE  IInv'
  <1>1. Core
    BY DEF IInv, Core
  <1>2. restarted' \in BOOLEAN /\ UNCHANGED <<endpoint, home, started, careless>>
    BY <1>1, AtWork DEF otherVars
  <1> QED BY <1>1, <1>2, StillKept, QuitKept

\* It goes on at another place and the containers and the journal may change.
LEMMA GoesOn ==
    ASSUME IInv, NEW p \in Procs, NEW l \in Locals, Become(p, l),
           me[p].pc # "idle",
           l.pc \in Measuring =>
              me[p].pc \in Measuring /\ l.tok = me[p].tok /\ l.dmn = me[p].dmn,
           l.pc \in Cleaning => me[p].pc \in Cleaning,
           UNCHANGED <<endpoint, home, started, careless>>, restarted' \in BOOLEAN,
           Touches(p), Writes(p), ContainerOK(l, present', inflight'),
           ~careless /\ CareInv =>
              /\ CarefulWorld(p)
              /\ CareOK(l, journal', restarted', present', inflight')
    PROVE  IInv'
  <1>1. Core
    BY DEF IInv, Core
  <1>2. Moves(p, l)
    BY <1>1, AtWork DEF Become, Moves
  <1>3. Reports(p, l)
    BY DEF Become, Reports
  <1>4. ~careless' => ~careless /\ (CareInv => Careful(p, l))
    BY DEF Careful, CarefulWorld
  <1> QED BY <1>2, <1>3, <1>4, StepKept

\* It goes on and nothing else happens.
LEMMA JustGoesOn ==
    ASSUME IInv, NEW p \in Procs, NEW l \in Locals, Become(p, l),
           me[p].pc # "idle",
           l.pc \in Measuring =>
              me[p].pc \in Measuring /\ l.tok = me[p].tok /\ l.dmn = me[p].dmn,
           l.pc \in Cleaning => me[p].pc \in Cleaning,
           UNCHANGED <<journal, daemonVars, otherVars>>,
           ContainerOK(l, present, inflight),
           ~careless /\ CareInv => CareOK(l, journal, restarted, present, inflight)
    PROVE  IInv'
  <1>1. Core
    BY DEF IInv, Core
  <1>2. /\ restarted' \in BOOLEAN /\ UNCHANGED <<endpoint, home, started, careless>>
        /\ UNCHANGED <<journal, restarted, present, inflight>>
    BY <1>1, AtWork DEF otherVars, daemonVars
  <1>3. Touches(p) /\ Writes(p) /\ (CareInv => CarefulWorld(p))
    BY <1>1, StillKept
  <1>4. /\ ContainerOK(l, present', inflight')
        /\ ~careless /\ CareInv =>
              CareOK(l, journal', restarted', present', inflight')
    BY <1>2
  <1> QED BY <1>2, <1>3, <1>4, GoesOn
-----------------------------------------------------------------------------
(* The steps of a measurement.                                             *)

LEMMA PlaceFacts ==
    /\ Starting \cup Exporting \cup Finishing \cup Named \subseteq Measuring
    /\ Measuring \cap Cleaning = {} /\ Reconciling \subseteq Cleaning
    /\ Finishing \cup Exporting \subseteq Named
    /\ "idle" \notin Measuring \cup Cleaning
    /\ (Exporting \cup Finishing) \cap Starting = {}
    /\ Finishing \cap Exporting = {}
  BY DEF Starting, Exporting, Finishing, Named, Measuring, Reconciling, Cleaning

LEMMA PublishJournalKept ==
    ASSUME IInv, NEW p \in Procs, PublishJournal(p)
    PROVE  IInv'
  <1>1. /\ me[p].pc = "publish_journal" /\ me[p].pc # "idle"
        /\ me[p].pc \in Starting /\ me[p].pc \in Measuring
        /\ UNCHANGED <<endpoint, home, started, careless, present, inflight>>
    BY DEF PublishJournal, At, daemonVars, Starting, Measuring
  <1>2. Core
    BY DEF IInv, Core
  <1>3. /\ me[p] \in Locals /\ present \cap inflight = {}
        /\ ContainerOK(me[p], present, inflight) /\ restarted \in BOOLEAN
        /\ me[p].tok \in 1..started
    BY <1>1, <1>2, AtWork
  <1>4. Touches(p)
    BY <1>1, <1>3 DEF Touches
  <1>5. ASSUME journal.tok = 0, restarted' = FALSE,
               journal' = [tok |-> me[p].tok, dmn |-> me[p].dmn,
                           uncertain |-> TRUE]
        PROVE  /\ restarted' \in BOOLEAN
               /\ Writes(p)
               /\ ~careless /\ CareInv => CarefulWorld(p)
    <2>1. Writes(p)
      BY <1>1, <1>5 DEF Writes
    <2>2. ASSUME CareInv PROVE CarefulWorld(p)
      <3>1. \A q \in Procs : me[q].pc \notin Named
        BY <1>2, <1>5, <2>2, OthersLeaveIt
      <3>2. \A t \in 1..started : Home(t) \notin present \cup inflight
        <4>1. \A t \in 1..started : t # 0
          BY MeasurementJournalAssumption, <1>2
          DEF MeasurementJournalAssumption, Core, TypeOK, Tokens
        <4> QED BY <1>5, <2>2, <4>1 DEF CareInv, CareWorld
      <3>3. \A t \in 1..started : home[t] = endpoint
        BY <2>2 DEF CareInv, CareWorld
      <3>4. \A t : Home(t)' = Home(t)
        BY <1>1 DEF Home
      <3>5. CareWorld'
        BY <1>1, <1>5, <3>2, <3>3, <3>4 DEF CareWorld
      <3> QED BY <3>1, <3>5 DEF CarefulWorld
    <2> QED BY <1>5, <2>1, <2>2
  <1>6. CASE /\ journal.tok = 0 /\ restarted' = FALSE
             /\ journal' = [tok |-> me[p].tok, dmn |-> me[p].dmn,
                            uncertain |-> TRUE]
             /\ Goto(p, "create")
    <2> DEFINE l == [me[p] EXCEPT !.pc = "create"]
    <2>1. /\ l \in Locals /\ l.pc = "create" /\ l.tok = me[p].tok
          /\ l.dmn = me[p].dmn /\ l.outcome = me[p].outcome
      BY <1>3 DEF Locals, Places, Measuring, Starting
    <2>2. "create" \in Starting /\ "create" \in Measuring /\ "create" \notin Cleaning
      BY DEF Starting, Measuring, Cleaning, Reconciling
    <2>3. ContainerOK(l, present', inflight')
      BY <1>1, <1>3, <2>1, <2>2, PlaceFacts DEF ContainerOK, Starting, Exporting
    <2>4. CareOK(l, journal', restarted', present', inflight')
      BY <1>6, <2>1, <2>2, PlaceFacts DEF CareOK, Reconciling
    <2>5. Become(p, l)
      BY <1>6 DEF Goto
    <2> QED BY <1>1, <1>4, <1>5, <1>6, <2>1, <2>2, <2>3, <2>4, <2>5, GoesOn
  <1>7. CASE journal.tok # 0 /\ UNCHANGED <<journal, restarted>> /\ Quit(p, 4)
    BY <1>1, <1>7, JustQuits DEF daemonVars, otherVars
  <1>8. CASE /\ journal.tok = 0 /\ restarted' = FALSE
             /\ journal' = [tok |-> me[p].tok, dmn |-> me[p].dmn,
                            uncertain |-> TRUE]
             /\ Quit(p, 4)
    <2>1. /\ restarted' \in BOOLEAN /\ Writes(p)
          /\ ~careless /\ CareInv => CarefulWorld(p)
      BY <1>5, <1>8
    <2>2. UNCHANGED <<endpoint, home, started, careless>>
      BY <1>1
    <2>3. Quit(p, 4)
      BY <1>8
    <2> QED BY <1>1, <1>4, <2>1, <2>2, <2>3, QuitKept
  <1> QED BY <1>6, <1>7, <1>8 DEF PublishJournal

LEMMA CreateContainerKept ==
    ASSUME IInv, NEW p \in Procs, CreateContainer(p)
    PROVE  IInv'
  <1>1. /\ me[p].pc = "create" /\ me[p].pc # "idle" /\ me[p].pc \in Named
        /\ me[p].pc \in Starting /\ me[p].pc \in Measuring
        /\ UNCHANGED <<journal, endpoint, restarted, home, started, careless>>
    BY DEF CreateContainer, At, otherVars, Starting, Measuring, Named
  <1>2. Core
    BY DEF IInv, Core
  <1> DEFINE x == Container(p)
  <1>3. /\ me[p] \in Locals /\ present \cap inflight = {}
        /\ ContainerOK(me[p], present, inflight) /\ restarted \in BOOLEAN
        /\ me[p].tok \in 1..started
        /\ x = Home(me[p].tok) /\ Own(p) = {x}
        /\ x \notin present \cup inflight
        /\ me[p].outcome = "none"
    BY <1>1, <1>2, AtWork DEF ContainerOK
  <1>4. Writes(p)
    BY <1>1 DEF Writes
  <1>5. ASSUME ~careless, CareInv, present' \cup inflight' \subseteq
                                      present \cup inflight \cup {x}
        PROVE  /\ CarefulWorld(p)
               /\ journal'.tok = me[p].tok /\ ~restarted'
    <2>1. /\ journal.tok = me[p].tok /\ ~restarted /\ journal.tok # 0
          /\ present \cup inflight \subseteq {x}
          /\ journal.uncertain
      BY <1>1, <1>2, <1>5, OnlyOne DEF CareInv, CareOK
    <2>2. \A t \in 1..started : home[t] = endpoint
      BY <1>5 DEF CareInv, CareWorld
    <2>3. \A t : Home(t)' = Home(t)
      BY <1>1 DEF Home
    <2>4. \A t \in 1..started : Home(t) \in present' \cup inflight'
             => journal.tok = t
      BY <1>3, <1>5, <2>1 DEF Home
    <2> QED BY <1>1, <2>1, <2>2, <2>3, <2>4 DEF CareWorld, CarefulWorld
  <1>6. CASE /\ present' = present \cup {x} /\ UNCHANGED inflight
             /\ Goto(p, "confirm_journal")
    <2> DEFINE l == [me[p] EXCEPT !.pc = "confirm_journal"]
    <2>1. /\ l \in Locals /\ l.pc = "confirm_journal" /\ l.tok = me[p].tok
          /\ l.dmn = me[p].dmn /\ l.outcome = "none"
      BY <1>3 DEF Locals, Places, Measuring, Exporting
    <2>2. /\ "confirm_journal" \in Exporting
          /\ "confirm_journal" \notin Cleaning \cup Starting \cup Reconciling
      BY DEF Starting, Exporting, Cleaning, Reconciling
    <2>3. ContainerOK(l, present', inflight')
      BY <1>3, <1>6, <2>1, <2>2 DEF ContainerOK
    <2>4. Touches(p)
      BY <1>3, <1>6 DEF Touches
    <2>5. ~careless /\ CareInv =>
             /\ CarefulWorld(p)
             /\ CareOK(l, journal', restarted', present', inflight')
      BY <1>5, <1>6, <2>1, <2>2 DEF CareOK
    <2>6. Become(p, l)
      BY <1>6 DEF Goto
    <2> QED BY <1>1, <1>3, <1>4, <2>1, <2>2, <2>3, <2>4, <2>5, <2>6, GoesOn
  <1>7. CASE /\ \/ UNCHANGED daemonVars
                \/ present' = present \cup {x} /\ UNCHANGED inflight
                \/ inflight' = inflight \cup {x} /\ UNCHANGED present
             /\ Become(p, [me[p] EXCEPT !.pc = "cleanup_inspect",
                                        !.outcome = "failed",
                                        !.uncertain = TRUE])
    <2> DEFINE l == [me[p] EXCEPT !.pc = "cleanup_inspect",
                                  !.outcome = "failed", !.uncertain = TRUE]
    <2>1. /\ l \in Locals /\ l.pc = "cleanup_inspect" /\ l.tok = me[p].tok
          /\ l.dmn = me[p].dmn /\ l.outcome = "failed"
      BY <1>3 DEF Locals, Places, Measuring, Finishing, Outcomes
    <2>2. /\ "cleanup_inspect" \in Finishing
          /\ "cleanup_inspect" \notin Cleaning \cup Starting \cup Reconciling
                                        \cup Exporting
      BY DEF Starting, Exporting, Finishing, Cleaning, Reconciling
    <2>3. ContainerOK(l, present', inflight')
      BY <2>1, <2>2 DEF ContainerOK
    <2>4. Touches(p) /\ present' \cup inflight' \subseteq
                                      present \cup inflight \cup {x}
      BY <1>3, <1>7 DEF Touches, daemonVars
    <2>5. ~careless /\ CareInv =>
             /\ CarefulWorld(p)
             /\ CareOK(l, journal', restarted', present', inflight')
      BY <1>5, <2>1, <2>2, <2>4 DEF CareOK
    <2> QED BY <1>1, <1>3, <1>4, <1>7, <2>1, <2>2, <2>3, <2>4, <2>5, GoesOn
  <1> QED BY <1>6, <1>7 DEF CreateContainer
LEMMA ConfirmJournalKept ==
    ASSUME IInv, NEW p \in Procs, ConfirmJournal(p)
    PROVE  IInv'
  <1>1. /\ me[p].pc = "confirm_journal" /\ me[p].pc # "idle"
        /\ me[p].pc \in Named /\ me[p].pc \in Exporting /\ me[p].pc \in Measuring
        /\ UNCHANGED <<present, inflight>>
        /\ UNCHANGED <<endpoint, restarted, home, started, careless>>
    BY DEF ConfirmJournal, At, otherVars, daemonVars, Exporting, Measuring, Named
  <1>2. Core
    BY DEF IInv, Core
  <1>3. /\ me[p] \in Locals /\ present \cap inflight = {}
        /\ restarted \in BOOLEAN
        /\ Container(p) = Home(me[p].tok)
        /\ Home(me[p].tok) \notin inflight
        /\ me[p].outcome = "none"
    BY <1>1, <1>2, AtWork DEF ContainerOK
  <1> DEFINE sure == [tok |-> me[p].tok, dmn |-> me[p].dmn, uncertain |-> FALSE]
             failed == [me[p] EXCEPT !.pc = "cleanup_inspect",
                                     !.outcome = "failed"]
             going == [me[p] EXCEPT !.pc = "export"]
  <1>4. Touches(p)
    BY <1>1, <1>3 DEF Touches
  <1>5. journal' \in {journal, sure}
    BY DEF ConfirmJournal
  <1>6. Writes(p)
    BY <1>1, <1>5 DEF Writes
  <1>7. ASSUME ~careless, CareInv
        PROVE  /\ CarefulWorld(p)
               /\ journal'.tok = me[p].tok /\ ~restarted'
    <2>1. /\ journal.tok = me[p].tok /\ ~restarted /\ journal.tok # 0
          /\ \A q \in Procs \ {p} : me[q].pc \notin Named
      BY <1>1, <1>2, <1>7, OnlyOne
    <2>2. /\ \A t \in 1..started : home[t] = endpoint
          /\ \A t \in 1..started :
                Home(t) \in present \cup inflight => journal.tok = t
      BY <1>7 DEF CareInv, CareWorld
    <2>3. \A t : Home(t)' = Home(t)
      BY <1>1 DEF Home
    <2>4. journal'.tok = me[p].tok
      BY <1>5, <2>1
    <2> QED BY <1>1, <1>3, <2>1, <2>2, <2>3, <2>4 DEF CareWorld, CarefulWorld
  <1>8. CASE Goto(p, "export")
    <2>1. /\ going \in Locals /\ going.pc = "export" /\ going.tok = me[p].tok
          /\ going.dmn = me[p].dmn /\ going.outcome = "none"
      BY <1>3 DEF Locals, Places, Measuring, Exporting
    <2>2. /\ "export" \in Exporting
          /\ "export" \notin Cleaning \cup Starting \cup Reconciling
      BY DEF Starting, Exporting, Cleaning, Reconciling
    <2>3. ContainerOK(going, present', inflight')
      BY <1>1, <1>3, <2>1, <2>2 DEF ContainerOK
    <2>4. ~careless /\ CareInv =>
             /\ CarefulWorld(p)
             /\ CareOK(going, journal', restarted', present', inflight')
      BY <1>7, <2>1, <2>2 DEF CareOK
    <2>5. Become(p, going)
      BY <1>8 DEF Goto
    <2> QED BY <1>1, <1>3, <1>4, <1>6, <2>1, <2>2, <2>3, <2>4, <2>5, GoesOn
  <1>9. CASE Become(p, failed)
    <2>1. /\ failed \in Locals /\ failed.pc = "cleanup_inspect"
          /\ failed.tok = me[p].tok
          /\ failed.dmn = me[p].dmn /\ failed.outcome = "failed"
      BY <1>3 DEF Locals, Places, Measuring, Finishing, Outcomes
    <2>2. /\ "cleanup_inspect" \in Finishing
          /\ "cleanup_inspect" \notin Cleaning \cup Starting \cup Reconciling
                                        \cup Exporting
      BY DEF Starting, Exporting, Finishing, Cleaning, Reconciling
    <2>3. ContainerOK(failed, present', inflight')
      BY <2>1, <2>2 DEF ContainerOK
    <2>4. ~careless /\ CareInv =>
             /\ CarefulWorld(p)
             /\ CareOK(failed, journal', restarted', present', inflight')
      BY <1>7, <2>1, <2>2 DEF CareOK
    <2> QED BY <1>1, <1>3, <1>4, <1>6, <1>9, <2>1, <2>2, <2>3, <2>4, GoesOn
  <1> QED BY <1>8, <1>9 DEF ConfirmJournal

LEMMA ExportContainerKept ==
    ASSUME IInv, NEW p \in Procs, ExportContainer(p)
    PROVE  IInv'
  <1>1. /\ me[p].pc = "export" /\ me[p].pc # "idle"
        /\ me[p].pc \in Exporting /\ me[p].pc \in Measuring
        /\ me[p].pc \in Named
        /\ UNCHANGED <<journal, daemonVars, otherVars>>
    BY DEF ExportContainer, At, Exporting, Measuring, Named
  <1>2. Core
    BY DEF IInv, Core
  <1>3. /\ me[p] \in Locals /\ Home(me[p].tok) \notin inflight
    BY <1>1, <1>2, AtWork DEF ContainerOK
  <1>4. PICK o \in {"measured", "rejected", "failed"} :
           Become(p, [me[p] EXCEPT !.pc = "cleanup_inspect", !.outcome = o])
    BY DEF ExportContainer
  <1> DEFINE l == [me[p] EXCEPT !.pc = "cleanup_inspect", !.outcome = o]
  <1>5. /\ l \in Locals /\ l.pc = "cleanup_inspect" /\ l.tok = me[p].tok
        /\ l.dmn = me[p].dmn
    BY <1>3 DEF Locals, Places, Measuring, Finishing, Outcomes
  <1>6. /\ "cleanup_inspect" \in Finishing
        /\ "cleanup_inspect" \notin Cleaning \cup Starting \cup Reconciling
                                      \cup Exporting
    BY DEF Starting, Exporting, Finishing, Cleaning, Reconciling
  <1>7. ContainerOK(l, present, inflight)
    BY <1>3, <1>5, <1>6 DEF ContainerOK
  <1>8. ~careless /\ CareInv => CareOK(l, journal, restarted, present, inflight)
    BY <1>1, <1>5, <1>6 DEF CareInv, CareOK
  <1> QED BY <1>1, <1>4, <1>5, <1>6, <1>7, <1>8, JustGoesOn

LEMMA CleanupInspectKept ==
    ASSUME IInv, NEW p \in Procs, CleanupInspect(p)
    PROVE  IInv'
  <1>1. /\ me[p].pc = "cleanup_inspect" /\ me[p].pc # "idle"
        /\ me[p].pc \in Measuring /\ me[p].pc \in Named
        /\ UNCHANGED <<journal, daemonVars, otherVars>>
    BY DEF CleanupInspect, At, Finishing, Measuring, Named
  <1>2. Core
    BY DEF IInv, Core
  <1>3. CASE Quit(p, 4)
    BY <1>1, <1>3, JustQuits
  <1>4. CASE Container(p) \in present /\ Goto(p, "cleanup_remove")
    <2> DEFINE l == [me[p] EXCEPT !.pc = "cleanup_remove"]
    <2>1. /\ me[p] \in Locals /\ Home(me[p].tok) \notin inflight
      BY <1>1, <1>2, <1>4, AtWork
    <2>2. /\ l \in Locals /\ l.pc = "cleanup_remove" /\ l.tok = me[p].tok
          /\ l.dmn = me[p].dmn
      BY <2>1 DEF Locals, Places, Measuring, Finishing
    <2>3. "cleanup_remove" \notin Cleaning \cup Starting \cup Reconciling
                                     \cup Exporting
      BY DEF Starting, Exporting, Cleaning, Reconciling
    <2>4. ContainerOK(l, present, inflight)
      BY <2>1, <2>2, <2>3 DEF ContainerOK
    <2>5. ~careless /\ CareInv => CareOK(l, journal, restarted, present, inflight)
      BY <1>1, <2>2, <2>3 DEF CareInv, CareOK
    <2>6. Become(p, l)
      BY <1>4 DEF Goto
    <2> QED BY <1>1, <2>2, <2>3, <2>4, <2>5, <2>6, JustGoesOn
  <1> QED BY <1>3, <1>4 DEF CleanupInspect
\* A container goes and nothing else does.
LEMMA FewerKept ==
    ASSUME Core, NEW p \in Procs, UNCHANGED <<journal, inflight, otherVars>>,
           present' \subseteq present
    PROVE  Touches(p) /\ Writes(p) /\ (CareInv => CarefulWorld(p))
  <1>1. Touches(p)
    BY DEF Touches, Core, TokenInv
  <1>2. CareInv => CareWorld'
    BY DEF otherVars, CareInv, CareWorld, Home
  <1> QED BY <1>1, <1>2 DEF Writes, CarefulWorld, otherVars

LEMMA CleanupRemoveKept ==
    ASSUME IInv, NEW p \in Procs, CleanupRemove(p)
    PROVE  IInv'
  <1>1. /\ me[p].pc = "cleanup_remove" /\ me[p].pc # "idle"
        /\ me[p].pc \in Measuring /\ me[p].pc \in Named
        /\ UNCHANGED <<journal, inflight, otherVars>>
        /\ present' \subseteq present
    BY DEF CleanupRemove, RemoveContainer, At, Finishing, Measuring, Named
  <1>2. Core
    BY DEF IInv, Core
  <1>3. /\ me[p] \in Locals /\ Home(me[p].tok) \notin inflight
        /\ Container(p) = Home(me[p].tok)
        /\ restarted' \in BOOLEAN
        /\ UNCHANGED <<endpoint, home, started, careless>>
    BY <1>1, <1>2, AtWork DEF ContainerOK, otherVars
  <1>4. Touches(p) /\ Writes(p) /\ (CareInv => CarefulWorld(p))
    BY <1>1, <1>2, FewerKept
  <1>5. CASE Quit(p, 4)
    BY <1>1, <1>3, <1>4, <1>5, QuitKept
  <1>6. CASE present' = present \ {Container(p)} /\ Goto(p, "cleanup_unlink")
    <2> DEFINE l == [me[p] EXCEPT !.pc = "cleanup_unlink"]
    <2>1. /\ l \in Locals /\ l.pc = "cleanup_unlink" /\ l.tok = me[p].tok
          /\ l.dmn = me[p].dmn
      BY <1>3 DEF Locals, Places, Measuring, Finishing
    <2>2. "cleanup_unlink" \notin Cleaning \cup Starting \cup Reconciling
                                     \cup Exporting
      BY DEF Starting, Exporting, Cleaning, Reconciling
    <2>3. ContainerOK(l, present', inflight')
      BY <1>1, <1>3, <1>6, <2>1, <2>2 DEF ContainerOK
    <2>4. ~careless /\ CareInv =>
             CareOK(l, journal', restarted', present', inflight')
      BY <1>1, <2>1, <2>2 DEF CareInv, CareOK, otherVars
    <2>5. Become(p, l)
      BY <1>6 DEF Goto
    <2> QED BY <1>1, <1>3, <1>4, <2>1, <2>2, <2>3, <2>4, <2>5, GoesOn
  <1> QED BY <1>5, <1>6 DEF CleanupRemove, RemoveContainer

\* The journal goes while its measurement knows that its container is gone.
LEMMA CleanupUnlinkCare ==
    ASSUME Core, NEW p \in Procs, CleanupUnlink(p)
    PROVE  /\ me[p].pc = "cleanup_unlink"
           /\ Home(me[p].tok) \notin present \cup inflight
           /\ Touches(p) /\ Writes(p)
           /\ CareInv => /\ present \cup inflight = {}
                         /\ CarefulWorld(p)
  <1>1. /\ me[p].pc = "cleanup_unlink"
        /\ me[p].pc \in Measuring /\ me[p].pc \in Named
        /\ UNCHANGED <<present, inflight>>
        /\ UNCHANGED <<endpoint, restarted, home, started, careless>>
        /\ journal' \in {journal, NoJournal}
    BY DEF CleanupUnlink, At, Finishing, Measuring, Named, otherVars, daemonVars
  <1>2. /\ Home(me[p].tok) \notin present \cup inflight
        /\ Container(p) = Home(me[p].tok) /\ present \cap inflight = {}
    BY <1>1, AtWork DEF ContainerOK
  <1>3. Touches(p) /\ Writes(p)
    BY <1>1, <1>2 DEF Touches, Writes
  <1>4. ASSUME CareInv
        PROVE  present \cup inflight = {} /\ CarefulWorld(p)
    <2>1. /\ present \cup inflight \subseteq {Container(p)}
          /\ \A q \in Procs \ {p} : me[q].pc \notin Named
      BY <1>1, <1>4, OnlyOne
    <2>2. present \cup inflight = {}
      BY <1>2, <2>1
    <2>3. \A t \in 1..started : home[t] = endpoint
      BY <1>4 DEF CareInv, CareWorld
    <2> QED BY <1>1, <2>1, <2>2, <2>3 DEF CareWorld, CarefulWorld
  <1> QED BY <1>1, <1>2, <1>3, <1>4

LEMMA CleanupUnlinkKept ==
    ASSUME IInv, NEW p \in Procs, CleanupUnlink(p)
    PROVE  IInv'
  <1>1. Core
    BY DEF IInv, Core
  <1>2. /\ me[p].pc = "cleanup_unlink" /\ me[p].pc # "idle"
        /\ me[p].pc \in Measuring
        /\ Home(me[p].tok) \notin present \cup inflight
        /\ Touches(p) /\ Writes(p)
        /\ CareInv => CarefulWorld(p)
    BY <1>1, CleanupUnlinkCare DEF Finishing, Measuring
  <1>3. /\ me[p] \in Locals
        /\ restarted' \in BOOLEAN
        /\ UNCHANGED <<endpoint, home, started, careless>>
        /\ UNCHANGED <<present, inflight>>
    BY <1>1, AtWork DEF CleanupUnlink, otherVars, daemonVars
  <1>4. CASE Quit(p, 4)
    BY <1>2, <1>3, <1>4, QuitKept
  <1>5. CASE Quit(p, 6)
    BY <1>2, <1>3, <1>5, QuitKept
  <1>6. CASE Goto(p, "write_evidence")
    <2> DEFINE l == [me[p] EXCEPT !.pc = "write_evidence"]
    <2>1. /\ l \in Locals /\ l.pc = "write_evidence" /\ l.tok = me[p].tok
          /\ l.dmn = me[p].dmn
      BY <1>3 DEF Locals, Places, Measuring
    <2>2. "write_evidence" \notin Cleaning \cup Starting \cup Reconciling
                                     \cup Exporting \cup Named
      BY DEF Starting, Exporting, Cleaning, Reconciling, Named, Finishing
    <2>3. ContainerOK(l, present', inflight')
      BY <1>2, <1>3, <2>1, <2>2 DEF ContainerOK
    <2>4. CareOK(l, journal', restarted', present', inflight')
      BY <2>1, <2>2 DEF CareOK
    <2>5. Become(p, l)
      BY <1>6 DEF Goto
    <2> QED BY <1>2, <1>3, <2>1, <2>2, <2>3, <2>4, <2>5, GoesOn
  <1> QED BY <1>4, <1>5, <1>6 DEF CleanupUnlink

LEMMA WriteEvidenceKept ==
    ASSUME IInv, NEW p \in Procs, WriteEvidence(p)
    PROVE  IInv'
  <1>1. /\ me[p].pc = "write_evidence" /\ me[p].pc # "idle"
        /\ me[p].pc \in Measuring
        /\ UNCHANGED <<journal, daemonVars, otherVars>>
    BY DEF WriteEvidence, At, Measuring
  <1>2. PICK c \in {0, 4, 6} : Quit(p, c)
    BY DEF WriteEvidence
  <1>3. Core
    BY DEF IInv, Core
  <1>4. /\ restarted' \in BOOLEAN
        /\ UNCHANGED <<endpoint, home, started, careless>>
        /\ UNCHANGED <<present, inflight>>
        /\ Home(me[p].tok) \notin present \cup inflight
    BY <1>1, <1>3, AtWork DEF ContainerOK, otherVars, daemonVars
  <1>5. Touches(p) /\ Writes(p) /\ (CareInv => CarefulWorld(p))
    BY <1>1, <1>3, StillKept
  <1> QED BY <1>1, <1>2, <1>4, <1>5, QuitKept
-----------------------------------------------------------------------------
(* The steps of a cleanup command.                                         *)

\* While nobody is careless a cleanup works on the journal's own container.
LEMMA OnTheJournal ==
    ASSUME Core, CareInv, NEW p \in Procs, me[p].pc \in Reconciling
    PROVE  /\ journal.tok = me[p].tok /\ journal.tok \in 1..started
           /\ me[p].dmn = endpoint /\ me[p].uncertain = journal.uncertain
           /\ Container(p) = Home(me[p].tok)
           /\ \A q \in Procs \ {p} : me[q].pc \notin Named
           /\ me[p].confirm => restarted
           /\ me[p].pc = "remove" => Home(me[p].tok) \notin inflight
           /\ me[p].pc = "unlink" => Home(me[p].tok) \notin present \cup inflight
  <1>1. me[p].pc \in Cleaning
    BY DEF Cleaning
  <1>2. /\ journal.tok = me[p].tok /\ journal.tok # 0
        /\ me[p].dmn = journal.dmn /\ me[p].uncertain = journal.uncertain
        /\ me[p].confirm => restarted
        /\ me[p].pc = "remove" => Home(me[p].tok) \notin inflight
        /\ me[p].pc = "unlink" => Home(me[p].tok) \notin present \cup inflight
    BY <1>1 DEF CareInv, CareOK
  <1>3. journal.tok \in 1..started /\ journal.dmn = home[journal.tok]
    BY <1>2 DEF Core, TokenInv
  <1>4. home[journal.tok] = endpoint
    BY <1>3 DEF CareInv, CareWorld
  <1>5. \A q \in Procs \ {p} : me[q].pc = "idle"
    BY <1>1, OthersLeaveIt
  <1> QED BY <1>2, <1>3, <1>4, <1>5, IdleType DEF Container, Home

\* At any place of a cleanup no outcome has been recorded.
LEMMA NoOutcome ==
    ASSUME Core, NEW p \in Procs, me[p].pc \in Cleaning
    PROVE  /\ me[p] \in Locals /\ me[p].outcome = "none"
           /\ me[p].pc # "idle"
           /\ restarted \in BOOLEAN
  BY AtWork, IdleType DEF ContainerOK

\* A cleanup moves on to another place with the locals of its journal.
LEMMA CleanupGoesOn ==
    ASSUME IInv, NEW p \in Procs, NEW place \in Cleaning, Goto(p, place),
           me[p].pc \in Cleaning, UNCHANGED <<journal, daemonVars, otherVars>>,
           ~careless /\ CareInv =>
              CareOK([me[p] EXCEPT !.pc = place], journal, restarted,
                     present, inflight)
    PROVE  IInv'
  <1> DEFINE l == [me[p] EXCEPT !.pc = place]
  <1>1. Core
    BY DEF IInv, Core
  <1>2. me[p] \in Locals /\ me[p].outcome = "none" /\ me[p].pc # "idle"
    BY <1>1, NoOutcome
  <1>3. l \in Locals /\ l.pc = place /\ l.outcome = "none"
    BY <1>2 DEF Locals, Places
  <1>4. place \notin Measuring
    BY PlaceFacts
  <1>5. ContainerOK(l, present, inflight)
    BY <1>3, <1>4, PlaceFacts DEF ContainerOK, Measuring, Finishing
  <1>6. Become(p, l)
    BY DEF Goto
  <1> QED BY <1>2, <1>3, <1>4, <1>5, <1>6, JustGoesOn

LEMMA LoadJournalKept ==
    ASSUME IInv, NEW p \in Procs, LoadJournal(p)
    PROVE  IInv'
  <1>1. /\ me[p].pc = "load" /\ me[p].pc \in Cleaning
        /\ UNCHANGED <<journal, daemonVars, otherVars>>
    BY DEF LoadJournal, At, Cleaning
  <1>2. Core
    BY DEF IInv, Core
  <1>3. me[p] \in Locals /\ me[p].outcome = "none" /\ me[p].pc # "idle"
    BY <1>1, <1>2, NoOutcome
  <1>4. CASE Quit(p, 4)
    BY <1>1, <1>3, <1>4, JustQuits
  <1> DEFINE l == [me[p] EXCEPT !.pc = "identity", !.tok = journal.tok,
                                !.dmn = journal.dmn,
                                !.uncertain = journal.uncertain]
  <1>5. CASE journal.tok # 0 /\ Become(p, l)
    <2>1. journal \in Journals
      BY <1>2 DEF Core, TypeOK
    <2>2. /\ l \in Locals /\ l.pc = "identity" /\ l.outcome = "none"
          /\ l.tok = journal.tok /\ l.dmn = journal.dmn
          /\ l.uncertain = journal.uncertain /\ l.confirm = me[p].confirm
      BY <1>3, <2>1 DEF Locals, Places, Journals, Cleaning, Reconciling
    <2>3. /\ "identity" \in Cleaning /\ "identity" \notin Measuring
          /\ "identity" \notin Named
      BY DEF Cleaning, Reconciling, Measuring, Starting, Exporting, Finishing,
             Named
    <2>4. ContainerOK(l, present, inflight)
      BY <2>2, <2>3, PlaceFacts DEF ContainerOK
    <2>5. ~careless /\ CareInv => CareOK(l, journal, restarted, present, inflight)
      BY <1>1, <1>5, <2>2, <2>3 DEF CareInv, CareOK
    <2> QED BY <1>1, <1>3, <1>5, <2>2, <2>3, <2>4, <2>5, JustGoesOn
  <1> QED BY <1>4, <1>5 DEF LoadJournal

LEMMA CheckIdentityKept ==
    ASSUME IInv, NEW p \in Procs, CheckIdentity(p)
    PROVE  IInv'
  <1>1. /\ me[p].pc = "identity" /\ me[p].pc \in Cleaning
        /\ me[p].pc \in Reconciling
        /\ UNCHANGED <<journal, daemonVars, otherVars>>
    BY DEF CheckIdentity, At, Cleaning, Reconciling
  <1>2. Core
    BY DEF IInv, Core
  <1>3. me[p] \in Locals /\ me[p].pc # "idle"
    BY <1>1, <1>2, NoOutcome
  <1>4. /\ "inspect" \in Cleaning /\ "inspect" \notin Named
        /\ "unlink" \in Cleaning
    BY DEF Cleaning, Reconciling, Named, Exporting, Finishing
  <1>5. CASE Quit(p, 4)
    BY <1>1, <1>3, <1>5, JustQuits
  <1>6. CASE Goto(p, "inspect")
    <2> DEFINE l == [me[p] EXCEPT !.pc = "inspect"]
    <2>1. /\ l.pc = "inspect" /\ l.tok = me[p].tok /\ l.dmn = me[p].dmn
          /\ l.uncertain = me[p].uncertain /\ l.confirm = me[p].confirm
      BY <1>3 DEF Locals
    <2>2. ~careless /\ CareInv => CareOK(l, journal, restarted, present, inflight)
      BY <1>1, <1>4, <2>1 DEF CareInv, CareOK
    <2> QED BY <1>1, <1>4, <1>6, <2>2, CleanupGoesOn
  <1>7. CASE endpoint # me[p].dmn /\ Goto(p, "unlink")
    <2>1. CareInv => FALSE
      BY <1>1, <1>2, <1>7, OnTheJournal
    <2> QED BY <1>1, <1>4, <1>7, <2>1, CleanupGoesOn
  <1> QED BY <1>5, <1>6, <1>7 DEF CheckIdentity

LEMMA InspectContainerKept ==
    ASSUME IInv, NEW p \in Procs, InspectContainer(p)
    PROVE  IInv'
  <1>1. /\ me[p].pc = "inspect" /\ me[p].pc \in Cleaning
        /\ me[p].pc \in Reconciling
        /\ UNCHANGED <<journal, daemonVars, otherVars>>
    BY DEF InspectContainer, At, Cleaning, Reconciling
  <1>2. Core
    BY DEF IInv, Core
  <1>3. me[p] \in Locals /\ me[p].pc # "idle"
    BY <1>1, <1>2, NoOutcome
  <1>4. CASE Quit(p, 4)
    BY <1>1, <1>3, <1>4, JustQuits
  <1>5. ASSUME NEW place \in {"remove", "unlink"}, Goto(p, place),
               CareInv => /\ Home(me[p].tok) \notin inflight
                          /\ place = "unlink" => Home(me[p].tok) \notin present
        PROVE  IInv'
    <2> DEFINE l == [me[p] EXCEPT !.pc = place]
    <2>1. /\ l.pc = place /\ l.tok = me[p].tok /\ l.dmn = me[p].dmn
          /\ l.uncertain = me[p].uncertain /\ l.confirm = me[p].confirm
      BY <1>3 DEF Locals
    <2>2. place \in Cleaning /\ place \notin Named /\ place # "create"
      BY DEF Cleaning, Reconciling, Named, Exporting, Finishing
    <2>3. ~careless /\ CareInv => CareOK(l, journal, restarted, present, inflight)
      BY <1>1, <1>5, <2>1, <2>2 DEF CareInv, CareOK
    <2> QED BY <1>1, <1>5, <2>2, <2>3, CleanupGoesOn
  <1>6. CASE Container(p) \in present /\ Goto(p, "remove")
    <2>1. CareInv => Home(me[p].tok) \notin inflight
      BY <1>1, <1>2, <1>6, OnTheJournal, AtWork
    <2> QED BY <1>5, <1>6, <2>1
  <1>7. CASE /\ Container(p) \notin present /\ ~AbsenceInconclusive(me[p])
             /\ Goto(p, "unlink")
    <2>1. CareInv => Home(me[p].tok) \notin inflight
      <3> SUFFICES ASSUME CareInv PROVE Home(me[p].tok) \notin inflight
        OBVIOUS
      <3>1. ~journal.uncertain \/ restarted
        BY <1>1, <1>2, <1>7, OnTheJournal DEF AbsenceInconclusive
      <3>2. journal.tok # 0 /\ journal.tok = me[p].tok
        BY <1>1 DEF CareInv, CareOK
      <3> QED BY <3>1, <3>2 DEF CareInv, CareWorld
    <2>2. CareInv => Home(me[p].tok) \notin present
      BY <1>1, <1>2, <1>7, OnTheJournal
    <2> QED BY <1>5, <1>7, <2>1, <2>2
  <1> QED BY <1>4, <1>6, <1>7 DEF InspectContainer

LEMMA ReconcileRemoveKept ==
    ASSUME IInv, NEW p \in Procs, ReconcileRemove(p)
    PROVE  IInv'
  <1>1. /\ me[p].pc = "remove" /\ me[p].pc \in Cleaning
        /\ me[p].pc \in Reconciling
        /\ UNCHANGED <<journal, inflight, otherVars>>
        /\ present' \subseteq present
    BY DEF ReconcileRemove, RemoveContainer, At, Cleaning, Reconciling
  <1>2. Core
    BY DEF IInv, Core
  <1>3. /\ me[p] \in Locals /\ me[p].outcome = "none" /\ me[p].pc # "idle"
        /\ restarted' \in BOOLEAN /\ restarted' = restarted
        /\ UNCHANGED <<endpoint, home, started, careless>>
    BY <1>1, <1>2, NoOutcome DEF otherVars
  <1>4. Touches(p) /\ Writes(p) /\ (CareInv => CarefulWorld(p))
    BY <1>1, <1>2, FewerKept
  <1>5. CASE Quit(p, 4)
    BY <1>1, <1>3, <1>4, <1>5, QuitKept
  <1>6. CASE present' = present \ {Container(p)} /\ Goto(p, "unlink")
    <2> DEFINE l == [me[p] EXCEPT !.pc = "unlink"]
    <2>1. /\ l \in Locals /\ l.pc = "unlink" /\ l.outcome = "none"
          /\ l.tok = me[p].tok /\ l.dmn = me[p].dmn
          /\ l.uncertain = me[p].uncertain /\ l.confirm = me[p].confirm
      BY <1>3 DEF Locals, Places, Cleaning, Reconciling
    <2>2. "unlink" \in Cleaning /\ "unlink" \notin Named /\ "unlink" \notin Measuring
      BY DEF Cleaning, Reconciling, Named, Exporting, Finishing, Measuring,
             Starting
    <2>3. ContainerOK(l, present', inflight')
      BY <2>1, <2>2, PlaceFacts DEF ContainerOK
    <2>4. ~careless /\ CareInv =>
             CareOK(l, journal', restarted', present', inflight')
      BY <1>1, <1>2, <1>3, <1>6, <2>1, <2>2, OnTheJournal DEF CareInv, CareOK
    <2>5. Become(p, l)
      BY <1>6 DEF Goto
    <2> QED BY <1>1, <1>3, <1>4, <2>1, <2>2, <2>3, <2>4, <2>5, GoesOn
  <1> QED BY <1>5, <1>6 DEF ReconcileRemove, RemoveContainer

\* The journal goes while the cleanup knows that its container is gone.
LEMMA ReconcileUnlinkCare ==
    ASSUME Core, NEW p \in Procs, ReconcileUnlink(p)
    PROVE  /\ Touches(p) /\ Writes(p)
           /\ CareInv => /\ present \cup inflight = {}
                         /\ CarefulWorld(p)
  <1>1. /\ me[p].pc = "unlink" /\ me[p].pc \in Reconciling
        /\ UNCHANGED <<present, inflight>>
        /\ UNCHANGED <<endpoint, restarted, home, started, careless>>
        /\ journal' \in {journal, NoJournal}
    BY DEF ReconcileUnlink, At, Reconciling, otherVars, daemonVars
  <1>2. Touches(p) /\ Writes(p)
    BY <1>1, AtWork DEF Touches, Writes
  <1>3. ASSUME CareInv
        PROVE  present \cup inflight = {} /\ CarefulWorld(p)
    <2>1. /\ journal.tok = me[p].tok
          /\ Home(me[p].tok) \notin present \cup inflight
          /\ \A q \in Procs \ {p} : me[q].pc \notin Named
      BY <1>1, <1>3, OnTheJournal
    <2>2. \A x \in present \cup inflight : x = Home(journal.tok)
      <3>1. \A x \in present \cup inflight : \E t \in 1..started : x = Home(t)
        BY DEF Core, TokenInv
      <3> QED BY <1>3, <3>1 DEF CareInv, CareWorld
    <2>3. present \cup inflight = {}
      BY <2>1, <2>2
    <2>4. \A t \in 1..started : home[t] = endpoint
      BY <1>3 DEF CareInv, CareWorld
    <2> QED BY <1>1, <2>1, <2>3, <2>4 DEF CareWorld, CarefulWorld
  <1> QED BY <1>1, <1>2, <1>3

LEMMA ReconcileUnlinkKept ==
    ASSUME IInv, NEW p \in Procs, ReconcileUnlink(p)
    PROVE  IInv'
  <1>1. Core
    BY DEF IInv, Core
  <1>2. Touches(p) /\ Writes(p) /\ (CareInv => CarefulWorld(p))
    BY <1>1, ReconcileUnlinkCare
  <1>3. me[p].pc \in Cleaning
    BY DEF ReconcileUnlink, At, Cleaning, Reconciling
  <1>4. /\ me[p] \in Locals /\ me[p].outcome = "none" /\ me[p].pc # "idle"
        /\ restarted' \in BOOLEAN
        /\ UNCHANGED <<endpoint, home, started, careless>>
    BY <1>1, <1>3, NoOutcome DEF ReconcileUnlink, otherVars
  <1>5. PICK c \in {0, 4, 6} : Quit(p, c)
    BY DEF ReconcileUnlink
  <1> QED BY <1>2, <1>4, <1>5, QuitKept
-----------------------------------------------------------------------------
(* The steps that start a process, stop one, or come from outside.         *)

LEMMA StartMeasurementKept ==
    ASSUME IInv, NEW p \in Procs, StartMeasurement(p)
    PROVE  IInv'
  <1>0. PICK t : t = started + 1
    OBVIOUS
  <1>00. PICK l : l = [Idle EXCEPT !.pc = "publish_journal", !.tok = t,
                                   !.dmn = endpoint]
    OBVIOUS
  <1>1. /\ me[p].pc = "idle" /\ started < MaxMeasurements
        /\ careless' = (careless \/ CleaningUp)
        /\ started' = t /\ home' = [home EXCEPT ![t] = endpoint]
        /\ me' = [me EXCEPT ![p] = l]
        /\ UNCHANGED <<exit, journal, present, inflight, endpoint, restarted>>
    BY <1>0, <1>00 DEF StartMeasurement, At, Become, daemonVars
  <1>2. /\ TypeOK /\ TokenInv /\ ContainerInv /\ ExitInv
        /\ ~careless => CareInv
    BY DEF IInv
  <1>3. started \in Nat /\ t \in 1..MaxMeasurements /\ t \notin 1..started
        /\ 1..t = (1..started) \cup {t} /\ 0 \notin 1..started
    BY <1>0, <1>1, <1>2, MeasurementJournalAssumption
    DEF MeasurementJournalAssumption, TypeOK, Tokens
  <1>4. /\ l \in Locals /\ l.pc = "publish_journal" /\ l.tok = t
        /\ l.dmn = endpoint /\ l.outcome = "none"
    <2>1. endpoint \in Daemons /\ t \in Tokens
      BY <1>2, <1>3 DEF TypeOK, Tokens
    <2>2. Idle \in Locals /\ Idle.outcome = "none"
      BY IdleType DEF Idle
    <2> QED BY <1>00, <2>1, <2>2 DEF Locals, Places, Measuring, Starting
  <1>5. /\ me' \in [Procs -> Locals]
        /\ me'[p] = l
        /\ \A q \in Procs \ {p} : me'[q] = me[q]
    BY <1>1, <1>2, <1>4 DEF TypeOK
  <1>6. /\ home'[t] = endpoint
        /\ \A s \in 1..started : home'[s] = home[s] /\ Home(s)' = Home(s)
    BY <1>1, <1>2, <1>3 DEF TypeOK, Measurements, Home
  <1>7. Home(t)' \notin present \cup inflight
    BY <1>2, <1>3 DEF TokenInv, Home
  <1>8. TypeOK'
    BY <1>1, <1>2, <1>3, <1>5 DEF TypeOK, Tokens, Measurements, CleaningUp
  <1>9. \A q \in Procs \ {p} : me[q].pc \in Measuring =>
           me[q].tok \in 1..started /\ home[me[q].tok] = endpoint
             /\ me[q].dmn = endpoint
    BY <1>2 DEF TokenInv
  <1>10. TokenInv'
    <2>1. \A q \in Procs : me'[q].pc \in Measuring =>
             /\ me'[q].tok \in 1..started'
             /\ home'[me'[q].tok] = endpoint' /\ me'[q].dmn = endpoint'
      BY <1>1, <1>3, <1>4, <1>5, <1>6, <1>9
    <2>2. \A q, r \in Procs :
             me'[q].pc \in Measuring /\ me'[r].pc \in Measuring /\ q # r
                => me'[q].tok # me'[r].tok
      <3>1. \A q, r \in Procs \ {p} :
               me[q].pc \in Measuring /\ me[r].pc \in Measuring /\ q # r
                  => me[q].tok # me[r].tok
        BY <1>2 DEF TokenInv
      <3> QED BY <1>3, <1>4, <1>5, <1>9, <3>1
    <2>3. \A x \in present' \cup inflight' : \E s \in 1..started' : x = Home(s)'
      <3>1. \A x \in present \cup inflight : \E s \in 1..started : x = Home(s)
        BY <1>2 DEF TokenInv
      <3> QED BY <1>1, <1>3, <1>6, <3>1
    <2>4. present' \cap inflight' = {}
      BY <1>1, <1>2 DEF TokenInv
    <2>5. journal'.tok # 0 =>
             journal'.tok \in 1..started' /\ journal'.dmn = home'[journal'.tok]
      BY <1>1, <1>2, <1>3, <1>6 DEF TokenInv
    <2> QED BY <2>1, <2>2, <2>3, <2>4, <2>5 DEF TokenInv
  <1>11. ContainerInv'
    <2> SUFFICES ASSUME NEW q \in Procs
                 PROVE  ContainerOK(me[q], present, inflight)'
      BY DEF ContainerInv
    <2>1. CASE q = p
      BY <1>1, <1>4, <1>5, <1>7, <2>1 DEF ContainerOK, Exporting
    <2>2. CASE q # p
      <3>1. ContainerOK(me[q], present, inflight) /\ me'[q] = me[q]
        BY <1>2, <1>5, <2>2 DEF ContainerInv
      <3>2. /\ Starting \subseteq Measuring /\ Exporting \subseteq Measuring
            /\ "cleanup_remove" \in Measuring /\ "cleanup_unlink" \in Measuring
            /\ "write_evidence" \in Measuring
        BY DEF Measuring, Finishing
      <3>3. me[q].pc \in Measuring => Home(me[q].tok)' = Home(me[q].tok)
        BY <1>6, <1>9, <2>2, <3>1 DEF Home
      <3> QED BY <1>1, <3>1, <3>2, <3>3 DEF ContainerOK
    <2> QED BY <2>1, <2>2
  <1>12. ExitInv'
    <2> SUFFICES ASSUME NEW q \in Procs, exit[q].code \in {0, 6},
                        exit[q].outcome # "none"
                 PROVE  /\ exit[q].tok \in 1..started'
                        /\ Home(exit[q].tok)' \notin present' \cup inflight'
                        /\ \A r \in Procs :
                              me'[r].pc \in Measuring => me'[r].tok # exit[q].tok
      BY <1>1 DEF ExitInv, Home
    <2>1. /\ exit[q].tok \in 1..started
          /\ Home(exit[q].tok) \notin present \cup inflight
          /\ \A r \in Procs : me[r].pc \in Measuring => me[r].tok # exit[q].tok
      BY <1>2 DEF ExitInv
    <2> QED BY <1>1, <1>3, <1>4, <1>5, <1>6, <2>1
  <1>13. ASSUME ~careless' PROVE CareInv'
    <2>1. CareInv /\ \A q \in Procs : me[q].pc \notin Cleaning
      BY <1>1, <1>2, <1>13 DEF CleaningUp, Cleaning, Reconciling
    <2>2. \A q \in Procs \ {p} :
             CareOK(me[q], journal, restarted, present, inflight)
      BY <2>1 DEF CareInv
    <2>3. "publish_journal" \notin Named \cup Cleaning \cup Reconciling
      BY DEF Named, Exporting, Finishing, Cleaning, Reconciling
    <2>4. CareWorld'
      BY <1>1, <1>2, <1>3, <1>6, <1>7, <2>1 DEF CareInv, CareWorld, TokenInv
    <2>5. \A q \in Procs : CareOK(me[q], journal, restarted, present, inflight)'
      <3> SUFFICES ASSUME NEW q \in Procs
                   PROVE  CareOK(me[q], journal, restarted, present, inflight)'
        OBVIOUS
      <3>1. CASE q = p
        BY <1>4, <1>5, <2>3, <3>1 DEF CareOK
      <3>2. CASE q # p
        <4>1. /\ "remove" \in Cleaning /\ "unlink" \in Cleaning
              /\ Reconciling \subseteq Cleaning
          BY DEF Cleaning, Reconciling
        <4> QED BY <1>1, <1>5, <2>1, <2>2, <3>2, <4>1 DEF CareOK
      <3> QED BY <3>1, <3>2
    <2>6. \A q \in Procs : me'[q].pc \notin Cleaning
      BY <1>4, <1>5, <2>1, <2>3
    <2> QED BY <2>4, <2>5, <2>6 DEF CareInv
  <1> QED BY <1>8, <1>10, <1>11, <1>12, <1>13 DEF IInv

LEMMA StartCleanupKept ==
    ASSUME IInv, NEW p \in Procs, NEW confirm \in BOOLEAN,
           StartCleanup(p, confirm)
    PROVE  IInv'
  <1> DEFINE l == [Idle EXCEPT !.pc = "load", !.confirm = confirm]
  <1>1. /\ me[p].pc = "idle" /\ careless' = (careless \/ ~AllIdle)
        /\ confirm => restarted
        /\ Become(p, l)
        /\ UNCHANGED <<journal, evidence, present, inflight, endpoint,
                       restarted, home, started>>
    BY DEF StartCleanup, At, daemonVars
  <1>2. Core
    BY DEF IInv, Core
  <1>3. restarted \in BOOLEAN /\ careless' \in BOOLEAN
        /\ present \cap inflight = {}
    BY <1>1, <1>2, AtWork DEF AllIdle, At
  <1>4. /\ l \in Locals /\ l.pc = "load" /\ l.outcome = "none"
        /\ l.confirm = confirm
    BY IdleType DEF Idle, Locals, Places, Cleaning
  <1>5. "load" \in Cleaning /\ "load" \notin Measuring \cup Named \cup Reconciling
    BY DEF Cleaning, Measuring, Starting, Exporting, Finishing, Named,
           Reconciling
  <1>6. Moves(p, l) /\ Touches(p) /\ Writes(p) /\ Reports(p, l)
    BY <1>1, <1>3, <1>4, <1>5 DEF Moves, Touches, Writes, Reports, Become
  <1>7. ContainerOK(l, present', inflight')
    BY <1>4, <1>5, PlaceFacts DEF ContainerOK
  <1>8. ~careless' => ~careless /\ (CareInv => Careful(p, l))
    <2>1. CareOK(l, journal', restarted', present', inflight')
      BY <1>1, <1>4, <1>5 DEF CareOK
    <2>2. CareInv => CareWorld'
      BY <1>1 DEF CareInv, CareWorld, Home
    <2> QED BY <1>1, <1>4, <1>5, <2>1, <2>2 DEF Careful
  <1> QED BY <1>6, <1>7, <1>8, StepKept

LEMMA CrashKept ==
    ASSUME IInv, NEW p \in Procs, Crash(p)
    PROVE  IInv'
  <1>1. /\ me[p].pc # "idle" /\ me' = [me EXCEPT ![p] = Idle]
        /\ exit' = [exit EXCEPT ![p] = NoRun]
        /\ UNCHANGED <<journal, daemonVars, otherVars>>
    BY DEF Crash, At
  <1>2. Core
    BY DEF IInv, Core
  <1>3. Moves(p, Idle) /\ Reports(p, Idle)
    BY <1>1, <1>2, AtWork, IdleType DEF Moves, Reports, otherVars
  <1>4. Touches(p) /\ Writes(p) /\ (CareInv => CarefulWorld(p))
    BY <1>1, <1>2, StillKept
  <1>5. ~careless' => ~careless /\ (CareInv => Careful(p, Idle))
    BY <1>1, <1>4, IdleType DEF Careful, CarefulWorld, otherVars
  <1> QED BY <1>3, <1>4, <1>5, IdleType, StepKept

LEMMA LateCreateKept ==
    ASSUME IInv, LateCreate
    PROVE  IInv'
  <1>1. PICK x \in inflight : /\ inflight' = inflight \ {x}
                              /\ present' \in {present, present \cup {x}}
    BY DEF LateCreate
  <1>2. UNCHANGED <<journal, me, exit, endpoint, restarted, home, started, careless>>
    BY DEF LateCreate, otherVars
  <1>3. /\ present' \cup inflight' \subseteq present \cup inflight
        /\ inflight' \subseteq inflight
        /\ \A t : Home(t)' = Home(t)
    BY <1>1, <1>2 DEF Home
  <1>4. TypeOK /\ TokenInv /\ ContainerInv /\ ExitInv /\ (~careless => CareInv)
    BY DEF IInv
  <1>5. TypeOK' /\ ExitInv'
    BY <1>2, <1>3, <1>4 DEF TypeOK, ExitInv
  <1>6. TokenInv'
    BY <1>1, <1>2, <1>3, <1>4 DEF TokenInv
  <1>7. ContainerInv'
    BY <1>2, <1>3, <1>4 DEF ContainerInv, ContainerOK
  <1>8. ~careless' => CareInv'
    <2>1. CareInv => CareWorld'
      BY <1>2, <1>3 DEF CareInv, CareWorld
    <2>2. CareInv => \A q \in Procs :
                        CareOK(me[q], journal, restarted, present, inflight)'
      BY <1>2, <1>3 DEF CareInv, CareOK
    <2> QED BY <1>2, <1>4, <2>1, <2>2 DEF CareInv
  <1> QED BY <1>5, <1>6, <1>7, <1>8 DEF IInv

LEMMA RestartDaemonKept ==
    ASSUME IInv, RestartDaemon
    PROVE  IInv'
  <1>1. /\ \A q \in Procs : me[q].pc = "idle"
        /\ journal.tok # 0 /\ restarted' = TRUE
        /\ inflight' = {x \in inflight : x[1] # journal.dmn}
        /\ UNCHANGED <<journal, me, exit, present, endpoint, home, started,
                       careless>>
    BY DEF RestartDaemon, AllIdle, At
  <1>2. TypeOK /\ TokenInv /\ ContainerInv /\ ExitInv /\ (~careless => CareInv)
    BY DEF IInv
  <1>3. inflight' \subseteq inflight /\ \A t : Home(t)' = Home(t)
    BY <1>1 DEF Home
  <1>4. TypeOK' /\ TokenInv' /\ ContainerInv' /\ ExitInv'
    BY <1>1, <1>2, <1>3 DEF TypeOK, TokenInv, ContainerInv, ContainerOK, ExitInv
  <1>5. Home(journal.tok) \notin inflight'
    BY <1>1, <1>2 DEF TokenInv, Home
  <1>6. ~careless' => CareInv'
    <2>1. CareInv => CareWorld'
      BY <1>1, <1>3, <1>5 DEF CareInv, CareWorld
    <2>2. \A q \in Procs : CareOK(me[q], journal, restarted, present, inflight)'
      BY <1>1, IdleType, PlaceFacts
      DEF CareOK, Cleaning, Reconciling, Named, Exporting, Finishing
    <2> QED BY <1>1, <1>2, <2>1, <2>2 DEF CareInv
  <1> QED BY <1>4, <1>6 DEF IInv

LEMMA RepointKept ==
    ASSUME IInv, NEW d \in Daemons, Repoint(d)
    PROVE  IInv'
  <1>1. /\ \A q \in Procs : me[q].pc = "idle"
        /\ endpoint' = d /\ careless' = TRUE
        /\ UNCHANGED <<journal, me, exit, present, inflight, restarted, home,
                       started>>
    BY DEF Repoint, AllIdle, At, daemonVars
  <1>2. TypeOK /\ TokenInv /\ ContainerInv /\ ExitInv
    BY DEF IInv
  <1>3. \A t : Home(t)' = Home(t)
    BY <1>1 DEF Home
  <1> QED BY <1>1, <1>2, <1>3, IdleType
          DEF IInv, TypeOK, TokenInv, ContainerInv, ContainerOK, ExitInv

-----------------------------------------------------------------------------
LEMMA InitInv == Init => IInv
  <1> SUFFICES ASSUME Init PROVE IInv
    OBVIOUS
  <1>1. /\ journal = NoJournal /\ journal.tok = 0
        /\ me = [p \in Procs |-> Idle] /\ exit = [p \in Procs |-> NoRun]
        /\ present = {} /\ inflight = {} /\ endpoint \in Daemons
        /\ restarted = FALSE /\ home = [t \in Measurements |-> NoDaemon]
        /\ started = 0 /\ careless = FALSE
    BY DEF Init, NoJournal
  <1>2. TypeOK
    <2>1. 0 \in Tokens
      BY MeasurementJournalAssumption DEF MeasurementJournalAssumption, Tokens
    <2>2. journal \in Journals
      BY <1>1, <2>1 DEF NoJournal, Journals
    <2>3. NoRun \in Exits
      BY <2>1 DEF NoRun, NoExit, Exits, Outcomes
    <2> QED BY <1>1, <2>1, <2>2, <2>3, IdleType DEF TypeOK
  <1>3. TokenInv
    BY <1>1, IdleType DEF TokenInv
  <1>4. ContainerInv
    BY <1>1, IdleType DEF ContainerInv
  <1>5. ExitInv
    BY <1>1 DEF ExitInv, NoRun, NoExit
  <1>6. CareInv
    BY <1>1, IdleType DEF CareInv, CareWorld
  <1> QED BY <1>2, <1>3, <1>4, <1>5, <1>6 DEF IInv

LEMMA StepInv == IInv /\ [Next]_vars => IInv'
  <1> SUFFICES ASSUME IInv, [Next]_vars PROVE IInv'
    OBVIOUS
  <1>1. ASSUME NEW p \in Procs, Measure(p) PROVE IInv'
    BY <1>1, StartMeasurementKept, PublishJournalKept, CreateContainerKept,
       ConfirmJournalKept, ExportContainerKept, CleanupInspectKept,
       CleanupRemoveKept, CleanupUnlinkKept, WriteEvidenceKept DEF Measure
  <1>2. ASSUME NEW p \in Procs, Reconcile(p) PROVE IInv'
    BY <1>2, StartCleanupKept, LoadJournalKept, CheckIdentityKept,
       InspectContainerKept, ReconcileRemoveKept, ReconcileUnlinkKept
    DEF Reconcile
  <1>3. CASE UNCHANGED vars
    BY <1>3 DEF vars, daemonVars, otherVars, IInv, TypeOK, TokenInv, ContainerInv,
                ContainerOK, ExitInv, CareInv, CareWorld, CareOK, Home
  <1> QED BY <1>1, <1>2, <1>3, CrashKept, LateCreateKept, RestartDaemonKept,
             RepointKept DEF Next

\* The inductive invariant holds of every reachable state.
THEOREM Invariance == Spec => []IInv
  BY InitInv, StepInv, PTL DEF Spec
-----------------------------------------------------------------------------
\* While no cleanup ran beside a measurement and no context was repointed, the
\* journal names every measurement container there is or may come
\* (generate_image_size_evidence, _cleanup_measurement_container).
THEOREM AllContainersNamed == Spec => []ContainersNamed
  <1>1. IInv => ContainersNamed
    <2> SUFFICES ASSUME IInv, ~careless, NEW t \in Measurements, Live(t)
                 PROVE  journal.tok = t
      BY DEF ContainersNamed
    <2>1. PICK s \in 1..started : <<home[t], t>> = Home(s)
      BY DEF IInv, TokenInv, Live
    <2>2. t = s /\ Home(t) \in present \cup inflight
      BY <2>1 DEF Home, Live
    <2> QED BY <2>2 DEF IInv, CareInv, CareWorld
  <1> QED BY <1>1, Invariance, PTL

\* Whatever the operator does: a measurement that ended with evidence or with a
\* rejection left no container, and no request that could still make one.
THEOREM QuietExitsAreClean == Spec => []QuietExitIsClean
  <1>1. IInv => QuietExitIsClean
    BY DEF IInv, ExitInv, QuietExitIsClean, Live, Home
  <1> QED BY <1>1, Invariance, PTL

\* The journal's file is only taken away where its container is known to be
\* gone, as long as nobody is careless.
LEMMA KeptByStep == IInv /\ [Next]_vars => [~careless' => KeptWhileUnsure]_vars
  <1> SUFFICES ASSUME IInv, Next, ~careless', NEW t \in Measurements,
                      journal.tok = t, journal'.tok # t
               PROVE  ~Live(t)
    BY DEF KeptWhileUnsure
  <1>1. t # 0
    BY MeasurementJournalAssumption
    DEF MeasurementJournalAssumption, Measurements
  <1>2. Core
    BY DEF IInv, Core
  <1>3. careless \in BOOLEAN
    BY <1>2 DEF Core, TypeOK
  <1>4. ASSUME present \cup inflight = {} PROVE ~Live(t)
    BY <1>4 DEF Live
  <1>5. ASSUME NEW p \in Procs, PublishJournal(p) PROVE ~Live(t)
    BY <1>1, <1>5 DEF PublishJournal
  <1>6. ASSUME NEW p \in Procs, ConfirmJournal(p) PROVE ~Live(t)
    <2>1. me[p].pc \in Named /\ ~careless
      BY <1>6 DEF ConfirmJournal, At, Named, Exporting, otherVars
    <2>2. journal.tok = me[p].tok
      BY <1>2, <2>1, OnlyOne DEF IInv
    <2> QED BY <1>6, <2>2 DEF ConfirmJournal
  <1>7. ASSUME NEW p \in Procs, CleanupUnlink(p) PROVE ~Live(t)
    <2>1. ~careless
      BY <1>7 DEF CleanupUnlink, otherVars
    <2> QED BY <1>2, <1>4, <1>7, <2>1, CleanupUnlinkCare DEF IInv
  <1>8. ASSUME NEW p \in Procs, ReconcileUnlink(p) PROVE ~Live(t)
    <2>1. ~careless
      BY <1>8 DEF ReconcileUnlink, otherVars
    <2> QED BY <1>2, <1>4, <1>8, <2>1, ReconcileUnlinkCare DEF IInv
  <1>9. ASSUME NEW p \in Procs, Measure(p) PROVE ~Live(t)
    BY <1>5, <1>6, <1>7, <1>9
    DEF Measure, StartMeasurement, CreateContainer, ExportContainer,
        CleanupInspect, CleanupRemove, RemoveContainer, WriteEvidence
  <1>10. ASSUME NEW p \in Procs, Reconcile(p) PROVE ~Live(t)
    BY <1>8, <1>10
    DEF Reconcile, StartCleanup, LoadJournal, CheckIdentity, InspectContainer,
        ReconcileRemove, RemoveContainer
  <1> QED BY <1>9, <1>10
          DEF Next, Crash, LateCreate, RestartDaemon, Repoint

\* The journal is there as long as the container it names is, or may come, until a
\* cleanup command runs beside a measurement or a context is repointed.
JournalKeptByCare == [][~careless' => KeptWhileUnsure]_vars

\* So no step of either command takes the journal away while the container it
\* names is there or may still come (_cleanup_measurement_container,
\* reconcile_measurement_journal).
THEOREM JournalsKeptByCare == Spec => JournalKeptByCare
  BY Invariance, KeptByStep, PTL DEF Spec, JournalKeptByCare

-----------------------------------------------------------------------------
(* The ledger.                                                             *)

\* Measurement t is over and has left nothing, not even its name in a journal.
Over(t) ==
    /\ t \in 1..started /\ journal.tok # t
    /\ Home(t) \notin present \cup inflight
    /\ \A q \in Procs : me[q].pc \in Measuring => me[q].tok # t

\* What is published is over, and what is about to be published is in no journal.
EvidenceInv ==
    /\ evidence # 0 => Over(evidence)
    /\ \A q \in Procs : me[q].pc = "write_evidence" => journal.tok # me[q].tok

\* A step of a process at work, as far as the ledger is concerned: it makes no
\* container but its own, and takes no name into a journal but its own.
Works(p) ==
    /\ me[p].pc # "create" => present' \cup inflight' \subseteq present \cup inflight
    /\ present' \cup inflight' \subseteq present \cup inflight \cup {Container(p)}
    /\ \/ journal'.tok \in {journal.tok, 0}
       \/ /\ me[p].pc \in {"publish_journal", "confirm_journal"}
          /\ journal'.tok = me[p].tok
    /\ \A q \in Procs \ {p} : me'[q] = me[q]
    /\ me'[p].pc \in Measuring =>
          me[p].pc \in Measuring /\ me'[p].tok = me[p].tok
    /\ me'[p].pc = "write_evidence" => journal'.tok = 0
    /\ UNCHANGED <<home, started>>

\* Where a process goes from its place.
LEMMA Goes ==
    ASSUME Core, NEW p \in Procs
    PROVE  /\ \A place : Goto(p, place) =>
                 /\ me'[p].pc = place /\ me'[p].tok = me[p].tok
                 /\ \A q \in Procs \ {p} : me'[q] = me[q]
           /\ \A c : Quit(p, c) =>
                 me'[p].pc = "idle" /\ \A q \in Procs \ {p} : me'[q] = me[q]
           /\ \A l : Become(p, l) =>
                 me'[p] = l /\ \A q \in Procs \ {p} : me'[q] = me[q]
  <1>1. me \in [Procs -> Locals] /\ me[p] \in Locals
    BY DEF Core, TypeOK
  <1>2. \A l : me' = [me EXCEPT ![p] = l] =>
           me'[p] = l /\ \A q \in Procs \ {p} : me'[q] = me[q]
    BY <1>1
  <1>3. \A place : /\ [me[p] EXCEPT !.pc = place].pc = place
                   /\ [me[p] EXCEPT !.pc = place].tok = me[p].tok
    BY <1>1 DEF Locals
  <1>4. \A place : Goto(p, place) => Become(p, [me[p] EXCEPT !.pc = place])
    BY DEF Goto
  <1>5. \A l : Become(p, l) => me' = [me EXCEPT ![p] = l]
    BY DEF Become
  <1>6. \A c : Quit(p, c) => me' = [me EXCEPT ![p] = Idle]
    BY DEF Quit
  <1>7. ASSUME NEW place, Goto(p, place)
        PROVE  /\ me'[p].pc = place /\ me'[p].tok = me[p].tok
               /\ \A q \in Procs \ {p} : me'[q] = me[q]
    <2>1. PICK l : l = [me[p] EXCEPT !.pc = place]
      OBVIOUS
    <2>2. Become(p, l) /\ l.pc = place /\ l.tok = me[p].tok
      BY <1>3, <1>4, <1>7, <2>1
    <2> QED BY <1>2, <1>5, <2>2
  <1> QED BY <1>2, <1>5, <1>6, <1>7, IdleType

LEMMA ProcessWorks ==
    ASSUME Core, NEW p \in Procs,
           \/ PublishJournal(p) \/ CreateContainer(p) \/ ConfirmJournal(p)
           \/ ExportContainer(p) \/ CleanupInspect(p) \/ CleanupRemove(p)
           \/ CleanupUnlink(p) \/ WriteEvidence(p) \/ Reconcile(p) \/ Crash(p)
    PROVE  Works(p)
  <1>1. NoJournal.tok = 0
    BY DEF NoJournal
  <1>2. me[p] \in Locals /\ Idle \in Locals
    BY IdleType DEF Core, TypeOK
  <1>3. /\ \A x \in Cleaning : x \notin Measuring
        /\ "write_evidence" \in Measuring
        /\ {"publish_journal", "create", "confirm_journal", "export",
            "cleanup_inspect", "cleanup_remove", "cleanup_unlink"} \subseteq Measuring
        /\ {"load", "identity", "inspect", "remove", "unlink"} = Cleaning
        /\ "idle" \notin Measuring
    BY DEF Cleaning, Reconciling, Measuring, Starting, Exporting, Finishing
  <1>4. ASSUME PublishJournal(p) PROVE Works(p)
    <2>1. /\ me[p].pc = "publish_journal"
          /\ UNCHANGED <<present, inflight, home, started>>
          /\ journal'.tok \in {journal.tok, me[p].tok}
          /\ Goto(p, "create") \/ Quit(p, 4)
      BY <1>4 DEF PublishJournal, At, daemonVars
    <2> QED BY <1>3, <2>1, Goes DEF Works
  <1>5. ASSUME CreateContainer(p) PROVE Works(p)
    <2>1. /\ me[p].pc = "create" /\ UNCHANGED <<journal, home, started>>
          /\ present' \cup inflight' \subseteq present \cup inflight \cup {Container(p)}
          /\ \/ Goto(p, "confirm_journal")
             \/ Become(p, [me[p] EXCEPT !.pc = "cleanup_inspect", !.outcome = "failed",
                                        !.uncertain = TRUE])
      BY <1>5 DEF CreateContainer, At, otherVars, daemonVars
    <2>2. \/ Goto(p, "confirm_journal")
          \/ me'[p].pc = "cleanup_inspect" /\ me'[p].tok = me[p].tok
      <3>1. PICK l : l = [me[p] EXCEPT !.pc = "cleanup_inspect", !.outcome = "failed",
                                    !.uncertain = TRUE]
        OBVIOUS
      <3>2. l.pc = "cleanup_inspect" /\ l.tok = me[p].tok
        BY <1>2, <3>1 DEF Locals
      <3> QED BY <2>1, <3>1, <3>2, Goes
    <2>3. \A q \in Procs \ {p} : me'[q] = me[q]
      BY <2>1, Goes
    <2> QED BY <1>3, <2>1, <2>2, <2>3, Goes DEF Works
  <1>6. ASSUME ConfirmJournal(p) PROVE Works(p)
    <2>1. /\ me[p].pc = "confirm_journal"
          /\ UNCHANGED <<present, inflight, home, started>>
          /\ journal'.tok \in {journal.tok, me[p].tok}
          /\ \/ Goto(p, "export")
             \/ Become(p, [me[p] EXCEPT !.pc = "cleanup_inspect", !.outcome = "failed"])
      BY <1>6 DEF ConfirmJournal, At, otherVars, daemonVars
    <2>2. \/ Goto(p, "export")
          \/ me'[p].pc = "cleanup_inspect" /\ me'[p].tok = me[p].tok
      <3>1. PICK l : l = [me[p] EXCEPT !.pc = "cleanup_inspect", !.outcome = "failed"]
        OBVIOUS
      <3>2. l.pc = "cleanup_inspect" /\ l.tok = me[p].tok
        BY <1>2, <3>1 DEF Locals
      <3> QED BY <2>1, <3>1, <3>2, Goes
    <2>3. \A q \in Procs \ {p} : me'[q] = me[q]
      BY <2>1, Goes
    <2> QED BY <1>3, <2>1, <2>2, <2>3, Goes DEF Works
  <1>7. ASSUME ExportContainer(p) PROVE Works(p)
    <2>1. /\ me[p].pc = "export"
          /\ UNCHANGED <<journal, present, inflight, home, started>>
          /\ \E o : Become(p, [me[p] EXCEPT !.pc = "cleanup_inspect", !.outcome = o])
      BY <1>7 DEF ExportContainer, At, otherVars, daemonVars
    <2>2. PICK o : Become(p, [me[p] EXCEPT !.pc = "cleanup_inspect", !.outcome = o])
      BY <2>1
    <2>3. PICK l : l = [me[p] EXCEPT !.pc = "cleanup_inspect", !.outcome = o]
      OBVIOUS
    <2>4. l.pc = "cleanup_inspect" /\ l.tok = me[p].tok
      BY <1>2, <2>3 DEF Locals
    <2>5. Become(p, l)
      BY <2>2, <2>3
    <2> QED BY <1>3, <2>1, <2>4, <2>5, Goes DEF Works
  <1>8. ASSUME CleanupInspect(p) PROVE Works(p)
    <2>1. /\ me[p].pc = "cleanup_inspect"
          /\ UNCHANGED <<journal, present, inflight, home, started>>
          /\ Goto(p, "cleanup_remove") \/ Quit(p, 4)
      BY <1>8 DEF CleanupInspect, At, otherVars, daemonVars
    <2> QED BY <1>3, <2>1, Goes DEF Works
  <1>9. ASSUME NEW place, NEW next, RemoveContainer(p, place, next),
               next # "write_evidence",
               next \in Measuring => place \in Measuring,
               place # "create"
        PROVE  Works(p)
    <2>1. /\ me[p].pc = place /\ UNCHANGED <<journal, inflight, home, started>>
          /\ present' \subseteq present
          /\ Goto(p, next) \/ Quit(p, 4)
      BY <1>9 DEF RemoveContainer, At, otherVars
    <2> QED BY <1>3, <1>9, <2>1, Goes DEF Works
  <1>10. ASSUME CleanupUnlink(p) PROVE Works(p)
    <2>1. /\ me[p].pc = "cleanup_unlink"
          /\ UNCHANGED <<present, inflight, home, started>>
          /\ journal' \in {journal, NoJournal}
          /\ \/ journal' = NoJournal /\ Goto(p, "write_evidence")
             \/ Quit(p, 4) \/ Quit(p, 6)
      BY <1>10 DEF CleanupUnlink, At, otherVars, daemonVars
    <2> QED BY <1>1, <1>3, <2>1, Goes DEF Works
  <1>11. ASSUME WriteEvidence(p) PROVE Works(p)
    <2>1. /\ me[p].pc = "write_evidence"
          /\ UNCHANGED <<journal, present, inflight, home, started>>
          /\ Quit(p, 0) \/ Quit(p, 4) \/ Quit(p, 6)
      BY <1>11 DEF WriteEvidence, At, otherVars, daemonVars
    <2> QED BY <1>3, <2>1, Goes DEF Works
  <1>12. ASSUME NEW confirm \in BOOLEAN, StartCleanup(p, confirm) PROVE Works(p)
    <2>1. /\ UNCHANGED <<journal, present, inflight, home, started>>
          /\ Become(p, [Idle EXCEPT !.pc = "load", !.confirm = confirm])
      BY <1>12 DEF StartCleanup, daemonVars
    <2>2. me'[p].pc = "load"
      <3>1. PICK l : l = [Idle EXCEPT !.pc = "load", !.confirm = confirm]
        OBVIOUS
      <3>2. l.pc = "load"
        BY <1>2, <3>1 DEF Locals
      <3> QED BY <2>1, <3>1, <3>2, Goes
    <2>3. \A q \in Procs \ {p} : me'[q] = me[q]
      BY <2>1, Goes
    <2> QED BY <1>3, <2>1, <2>2, <2>3, Goes DEF Works
  <1>13. ASSUME LoadJournal(p) PROVE Works(p)
    <2>1. /\ UNCHANGED <<journal, present, inflight, home, started>>
          /\ \/ Become(p, [me[p] EXCEPT !.pc = "identity", !.tok = journal.tok,
                               !.dmn = journal.dmn, !.uncertain = journal.uncertain])
             \/ Quit(p, 4)
      BY <1>13 DEF LoadJournal, otherVars, daemonVars
    <2>2. Quit(p, 4) \/ me'[p].pc = "identity"
      <3>1. PICK l : l = [me[p] EXCEPT !.pc = "identity", !.tok = journal.tok,
                                    !.dmn = journal.dmn, !.uncertain = journal.uncertain]
        OBVIOUS
      <3>2. l.pc = "identity"
        BY <1>2, <3>1 DEF Locals
      <3> QED BY <2>1, <3>1, <3>2, Goes
    <2>3. \A q \in Procs \ {p} : me'[q] = me[q]
      BY <2>1, Goes
    <2> QED BY <1>3, <2>1, <2>2, <2>3, Goes DEF Works
  <1>14. ASSUME CheckIdentity(p) \/ InspectContainer(p) PROVE Works(p)
    <2>1. /\ UNCHANGED <<journal, present, inflight, home, started>>
          /\ Goto(p, "inspect") \/ Goto(p, "unlink") \/ Goto(p, "remove") \/ Quit(p, 4)
      BY <1>14 DEF CheckIdentity, InspectContainer, otherVars, daemonVars
    <2> QED BY <1>3, <2>1, Goes DEF Works
  <1>15. ASSUME ReconcileUnlink(p) PROVE Works(p)
    <2>1. /\ UNCHANGED <<present, inflight, home, started>>
          /\ journal' \in {journal, NoJournal}
          /\ Quit(p, 0) \/ Quit(p, 4)
      BY <1>15 DEF ReconcileUnlink, otherVars, daemonVars
    <2> QED BY <1>1, <1>3, <2>1, Goes DEF Works
  <1>16. ASSUME Crash(p) PROVE Works(p)
    <2>1. /\ UNCHANGED <<journal, present, inflight, home, started>>
          /\ me' = [me EXCEPT ![p] = Idle]
      BY <1>16 DEF Crash, otherVars, daemonVars
    <2>2. me'[p].pc = "idle" /\ \A q \in Procs \ {p} : me'[q] = me[q]
      BY <2>1, IdleType DEF Core, TypeOK
    <2> QED BY <1>3, <2>1, <2>2 DEF Works
  <1>17. ASSUME CleanupRemove(p) \/ ReconcileRemove(p) PROVE Works(p)
    BY <1>3, <1>9, <1>17 DEF CleanupRemove, ReconcileRemove
  <1> QED BY <1>4, <1>5, <1>6, <1>7, <1>8, <1>10, <1>11, <1>12, <1>13, <1>14,
             <1>15, <1>16, <1>17 DEF Reconcile


\* A measurement that is over stays so.
LEMMA OverStays ==
    ASSUME Core, NEW p \in Procs, Works(p), NEW t, Over(t)
    PROVE  Over(t)'
  <1>1. /\ home' = home /\ started' = started /\ Home(t)' = Home(t)
        /\ \A q \in Procs \ {p} : me'[q] = me[q]
        /\ me'[p].pc \in Measuring => me[p].pc \in Measuring /\ me'[p].tok = me[p].tok
    BY DEF Works, Home
  <1>2. started \in Nat /\ 0 \notin 1..started
    BY MeasurementJournalAssumption
    DEF MeasurementJournalAssumption, Core, TypeOK, Tokens
  <1>3. me[p].pc \in Measuring => Container(p) # Home(t) /\ me[p].tok # t
    BY AtWork DEF Over, Home
  <1>4. Home(t) \notin present' \cup inflight'
    <2>1. CASE me[p].pc = "create"
      <3>1. me[p].pc \in Measuring
        BY <2>1 DEF Measuring, Starting
      <3> QED BY <1>3, <3>1 DEF Works, Over
    <2>2. CASE me[p].pc # "create"
      BY <2>2 DEF Works, Over
    <2> QED BY <2>1, <2>2
  <1>5. journal'.tok # t
    <2>1. me[p].pc \in {"publish_journal", "confirm_journal"} => me[p].pc \in Measuring
      BY DEF Measuring, Starting, Exporting
    <2> QED BY <1>2, <1>3, <2>1 DEF Works, Over
  <1>6. \A q \in Procs : me'[q].pc \in Measuring => me'[q].tok # t
    BY <1>1, <1>3 DEF Over
  <1> QED BY <1>1, <1>4, <1>5, <1>6 DEF Over

LEMMA WorksKeepsEvidence ==
    ASSUME Core, EvidenceInv, NEW p \in Procs, Works(p), evidence' = evidence
    PROVE  EvidenceInv'
  <1>1. evidence' # 0 => Over(evidence)'
    <2> SUFFICES ASSUME evidence # 0 PROVE Over(evidence)'
      OBVIOUS
    <2>1. PICK t : t = evidence
      OBVIOUS
    <2>2. Over(t)
      BY <2>1 DEF EvidenceInv
    <2>3. Over(t)'
      BY <2>2, OverStays
    <2> QED BY <2>1, <2>3 DEF Over
  <1>2. ASSUME NEW q \in Procs, me'[q].pc = "write_evidence"
        PROVE  journal'.tok # me'[q].tok
    <2>1. "write_evidence" \in Measuring
      BY DEF Measuring
    <2>2. started \in Nat /\ 0 \notin 1..started
      BY MeasurementJournalAssumption
      DEF MeasurementJournalAssumption, Core, TypeOK, Tokens
    <2>3. CASE q = p
      BY <1>2, <2>1, <2>2, <2>3, AtWork DEF Works
    <2>4. CASE q # p
      <3>1. me'[q] = me[q]
        BY <2>4 DEF Works
      <3>2. me[q].tok # 0 /\ journal.tok # me[q].tok
        BY <1>2, <2>1, <2>2, <3>1, AtWork DEF EvidenceInv
      <3>3. me[p].pc \in {"publish_journal", "confirm_journal"} => me[p].pc \in Measuring
        BY DEF Measuring, Starting, Exporting
      <3>4. me[p].pc \in Measuring => me[p].tok # me[q].tok
        BY <1>2, <2>1, <2>4, <3>1 DEF Core, TokenInv
      <3> QED BY <3>1, <3>2, <3>3, <3>4 DEF Works
    <2> QED BY <2>3, <2>4
  <1> QED BY <1>1, <1>2 DEF EvidenceInv

LEMMA WriteKeepsEvidence ==
    ASSUME Core, EvidenceInv, NEW p \in Procs, WriteEvidence(p)
    PROVE  /\ EvidenceInv'
           /\ \/ evidence' = evidence
              \/ evidence = 0 /\ evidence' = me[p].tok
           /\ me[p].tok \in 1..started /\ journal.tok # me[p].tok
           /\ Home(me[p].tok) \notin present \cup inflight
  <1>1. /\ me[p].pc = "write_evidence" /\ me[p].pc \in Measuring
        /\ UNCHANGED <<journal, present, inflight, home, started>>
        /\ \/ evidence' = evidence
           \/ evidence = 0 /\ evidence' = me[p].tok
        /\ Quit(p, 0) \/ Quit(p, 4) \/ Quit(p, 6)
    BY DEF WriteEvidence, At, otherVars, daemonVars, Measuring
  <1>2. /\ me[p].tok \in 1..started /\ journal.tok # me[p].tok
        /\ Home(me[p].tok) \notin present \cup inflight
    BY <1>1, AtWork DEF ContainerOK, EvidenceInv
  <1>3. me'[p].pc = "idle" /\ \A q \in Procs \ {p} : me'[q] = me[q]
    BY <1>1, Goes
  <1>4. \A q \in Procs \ {p} : me[q].pc \in Measuring => me[q].tok # me[p].tok
    BY <1>1 DEF Core, TokenInv
  <1>5. CASE evidence' = evidence
    BY <1>1, <1>2, <1>5, ProcessWorks, WorksKeepsEvidence
  <1>6. CASE evidence = 0 /\ evidence' = me[p].tok
    <2>1. PICK t : t = me[p].tok
      OBVIOUS
    <2>2. Home(t)' = Home(t)
      BY <1>1 DEF Home
    <2>3. Over(t)'
      BY <1>1, <1>2, <1>3, <1>4, <2>1, <2>2, IdleType DEF Over
    <2>4. Over(evidence)'
      BY <1>6, <2>1, <2>3 DEF Over
    <2>5. \A q \in Procs : me'[q].pc = "write_evidence" => journal'.tok # me'[q].tok
      BY <1>1, <1>3 DEF EvidenceInv
    <2> QED BY <1>1, <1>2, <2>4, <2>5 DEF EvidenceInv
  <1> QED BY <1>1, <1>2, <1>5, <1>6

LEMMA StartKeepsEvidence ==
    ASSUME Core, EvidenceInv, NEW p \in Procs, StartMeasurement(p)
    PROVE  /\ EvidenceInv'
           /\ started' = started + 1 /\ started + 1 \in Measurements
           /\ \A s \in 1..started : home'[s] = home[s]
  <1>0. PICK t : t = started + 1
    OBVIOUS
  <1>00. PICK l : l = [Idle EXCEPT !.pc = "publish_journal", !.tok = t, !.dmn = endpoint]
    OBVIOUS
  <1>1. /\ started < MaxMeasurements /\ started' = t
        /\ home' = [home EXCEPT ![t] = endpoint]
        /\ Become(p, l)
        /\ UNCHANGED <<journal, evidence, present, inflight>>
    BY <1>0, <1>00 DEF StartMeasurement, daemonVars
  <1>2. /\ started \in Nat /\ t \in Measurements /\ t \notin 1..started
        /\ 1..started \subseteq 1..t /\ 1..started \subseteq Measurements
    BY <1>0, <1>1, MeasurementJournalAssumption
    DEF MeasurementJournalAssumption, Core, TypeOK, Tokens, Measurements
  <1>3. l.pc = "publish_journal" /\ l.tok = t
    BY <1>00, IdleType DEF Locals
  <1>4. me'[p] = l /\ \A q \in Procs \ {p} : me'[q] = me[q]
    BY <1>1, Goes
  <1>5. \A s \in 1..started : home'[s] = home[s] /\ Home(s)' = Home(s)
    BY <1>1, <1>2 DEF Core, TypeOK, Home
  <1>6. evidence' # 0 => Over(evidence)'
    <2> SUFFICES ASSUME evidence # 0 PROVE Over(evidence)'
      BY <1>1
    <2>1. PICK s : s = evidence
      OBVIOUS
    <2>2. Over(s)
      BY <2>1 DEF EvidenceInv
    <2>3. s \in 1..started /\ s # t
      BY <1>2, <2>2 DEF Over
    <2>4. \A q \in Procs : me'[q].pc \in Measuring => me'[q].tok # s
      BY <1>3, <1>4, <2>2, <2>3 DEF Over
    <2>5. Over(s)'
      BY <1>1, <1>2, <1>5, <2>2, <2>3, <2>4 DEF Over
    <2> QED BY <1>1, <2>1, <2>5 DEF Over
  <1>7. \A q \in Procs : me'[q].pc = "write_evidence" => journal'.tok # me'[q].tok
    BY <1>1, <1>3, <1>4 DEF EvidenceInv
  <1> QED BY <1>0, <1>1, <1>2, <1>5, <1>6, <1>7 DEF EvidenceInv

\* The daemon only takes away; repointing leaves the containers where they are.
LEMMA OutsideKeepsEvidence ==
    ASSUME Core, EvidenceInv, LateCreate \/ RestartDaemon \/ \E d \in Daemons : Repoint(d)
    PROVE  /\ EvidenceInv'
           /\ UNCHANGED <<journal, evidence, me, home, started>>
           /\ present' \cup inflight' \subseteq present \cup inflight
  <1>1. /\ UNCHANGED <<journal, evidence, me, home, started>>
        /\ present' \cup inflight' \subseteq present \cup inflight
    BY DEF LateCreate, RestartDaemon, Repoint, otherVars, daemonVars
  <1>2. \A t : Home(t)' = Home(t)
    BY <1>1 DEF Home
  <1> QED BY <1>1, <1>2 DEF EvidenceInv, Over

LEMMA EvidenceStep == IInv /\ EvidenceInv /\ [Next]_vars => EvidenceInv'
  <1> SUFFICES ASSUME IInv, EvidenceInv, [Next]_vars PROVE EvidenceInv'
    OBVIOUS
  <1>1. Core
    BY DEF IInv, Core
  <1>2. ASSUME NEW p \in Procs,
               \/ PublishJournal(p) \/ CreateContainer(p) \/ ConfirmJournal(p)
               \/ ExportContainer(p) \/ CleanupInspect(p) \/ CleanupRemove(p)
               \/ CleanupUnlink(p) \/ Reconcile(p) \/ Crash(p)
        PROVE  EvidenceInv'
    <2>1. Works(p)
      BY <1>1, <1>2, ProcessWorks
    <2>2. evidence' = evidence
      BY <1>2 DEF PublishJournal, CreateContainer, ConfirmJournal, ExportContainer,
                  CleanupInspect, CleanupRemove, CleanupUnlink, RemoveContainer, Crash,
                  Reconcile, StartCleanup, LoadJournal, CheckIdentity, InspectContainer,
                  ReconcileRemove, ReconcileUnlink
    <2> QED BY <1>1, <2>1, <2>2, WorksKeepsEvidence
  <1>3. CASE UNCHANGED vars
    <2>1. UNCHANGED <<journal, evidence, me, present, inflight, home, started>>
      BY <1>3 DEF vars
    <2> QED BY <2>1 DEF EvidenceInv, Over, Home
  <1> QED BY <1>1, <1>2, <1>3, WriteKeepsEvidence, StartKeepsEvidence,
             OutsideKeepsEvidence DEF Next, Measure

-----------------------------------------------------------------------------
\* A step as the ledger shows it, or one it does not show.
LedgerStep == [Ledger!LedgerNext]_(Ledger!ledgerVars)

\* No container that was not there is held after a step that makes none, and a
\* measurement that starts holds nothing yet.
LEMMA HeldShrinks ==
    ASSUME Core, present' \cup inflight' \subseteq present \cup inflight,
           \A s \in 1..started : home'[s] = home[s]
    PROVE  /\ Held' \subseteq Held
           /\ present' \cup inflight' = present \cup inflight => Held' = Held
  <1>1. \A t : <<home[t], t>> \in present \cup inflight => t \in 1..started
    BY DEF Core, TokenInv, Home
  <1>2. \A t : <<home'[t], t>> \in present \cup inflight => t \in 1..started
    BY DEF Core, TokenInv, Home
  <1> QED BY <1>1, <1>2 DEF Held, Live

\* Nothing is asked of a step once somebody was careless but to leave the
\* evidence alone.
LEMMA CarelessStep ==
    ASSUME careless, careless', UNCHANGED <<careless, evidence>>, Core', EvidenceInv'
    PROVE  LedgerStep
  <1>1. journal'.tok \in 0..MaxMeasurements
    BY DEF Core, TypeOK, Journals, Tokens
  <1>2. Held' \in SUBSET (1..MaxMeasurements)
    BY DEF Held, Measurements
  <1>3. evidence \notin Held'
    <2>1. 0 \notin Measurements
      BY MeasurementJournalAssumption
      DEF MeasurementJournalAssumption, Measurements
    <2>2. evidence' # 0 => ~Live(evidence)'
      BY DEF EvidenceInv, Over, Live, Home
    <2> QED BY <2>1, <2>2 DEF Held
  <1>4. evidence # 0 => journal'.tok # evidence
    BY DEF EvidenceInv, Over
  <1> QED BY <1>1, <1>2, <1>3, <1>4
          DEF LedgerStep, Ledger!LedgerNext, Ledger!Confuse

\* A step that keeps journal and evidence, and makes no container.
LEMMA ReleaseStep ==
    ASSUME Core, Core', EvidenceInv', UNCHANGED <<journal, evidence>>,
           careless => careless',
           present' \cup inflight' \subseteq present \cup inflight,
           careless' # careless => present' \cup inflight' = present \cup inflight,
           \A s \in 1..started : home'[s] = home[s]
    PROVE  LedgerStep
  <1>1. careless \in BOOLEAN /\ careless' \in BOOLEAN
    BY DEF Core, TypeOK
  <1>2. CASE careless
    BY <1>1, <1>2, CarelessStep
  <1>3. CASE ~careless /\ ~careless'
    BY <1>1, <1>3, HeldShrinks DEF LedgerStep, Ledger!LedgerNext, Ledger!Release
  <1>4. CASE ~careless /\ careless'
    BY <1>1, <1>4, HeldShrinks DEF LedgerStep, Ledger!LedgerNext, Ledger!LoseCare
  <1> QED BY <1>1, <1>2, <1>3, <1>4

\* The journal is published, while nobody is careless: nothing is held.
LEMMA OpenStep ==
    ASSUME IInv, Core', EvidenceInv, EvidenceInv', NEW p \in Procs, PublishJournal(p)
    PROVE  LedgerStep
  <1>0. Core /\ me[p].pc \in Measuring
    BY DEF IInv, Core, PublishJournal, At, Measuring, Starting
  <1>1. /\ UNCHANGED <<evidence, present, inflight, home, careless>>
        /\ \/ UNCHANGED journal
           \/ journal.tok = 0 /\ journal'.tok = me[p].tok
    BY DEF PublishJournal, daemonVars
  <1>2. careless \in BOOLEAN
    BY <1>0 DEF Core, TypeOK
  <1>3. CASE UNCHANGED journal
    BY <1>0, <1>1, <1>3, ReleaseStep
  <1>4. CASE careless
    BY <1>0, <1>1, <1>4, CarelessStep
  <1>5. CASE ~careless /\ journal.tok = 0 /\ journal'.tok = me[p].tok
    <2>1. Held = {} /\ Held' = {}
      <3>1. 0 \notin 1..started
        BY <1>0, MeasurementJournalAssumption
        DEF MeasurementJournalAssumption, Core, TypeOK, Tokens
      <3>2. present \cup inflight = {}
        BY <1>0, <1>5, <3>1 DEF IInv, Core, CareInv, CareWorld, TokenInv
      <3> QED BY <1>1, <3>2 DEF Held, Live
    <2>2. me[p].tok \in 1..MaxMeasurements
      BY <1>0, AtWork, MeasurementJournalAssumption
      DEF MeasurementJournalAssumption, Core, TypeOK, Tokens
    <2>3. evidence # me[p].tok
      <3>1. me[p].tok # 0
        BY <2>2
      <3> QED BY <1>0, <3>1 DEF EvidenceInv, Over
    <2>4. Ledger!Open(me[p].tok)
      BY <1>1, <1>5, <2>1, <2>3 DEF Ledger!Open
    <2> QED BY <1>1, <1>5, <2>2, <2>4 DEF LedgerStep, Ledger!LedgerNext
  <1> QED BY <1>1, <1>2, <1>3, <1>4, <1>5

\* A container is made, while nobody is careless: for the journal's measurement.
LEMMA HoldStep ==
    ASSUME IInv, Core', EvidenceInv', NEW p \in Procs, CreateContainer(p)
    PROVE  LedgerStep
  <1>1. /\ UNCHANGED <<journal, evidence, home, started, careless>>
        /\ me[p].pc \in Named
        /\ \/ UNCHANGED <<present, inflight>>
           \/ present' \cup inflight' = present \cup inflight \cup {Container(p)}
    BY DEF CreateContainer, At, otherVars, daemonVars, Named
  <1>2. Core /\ careless \in BOOLEAN
    BY DEF IInv, Core, TypeOK
  <1>3. CASE careless
    BY <1>1, <1>2, <1>3, CarelessStep
  <1>4. CASE UNCHANGED <<present, inflight>>
    BY <1>1, <1>2, <1>4, ReleaseStep
  <1>5. CASE /\ ~careless
             /\ present' \cup inflight' = present \cup inflight \cup {Container(p)}
    <2>1. journal.tok = me[p].tok /\ journal.tok # 0 /\ me[p].pc \in Measuring
      BY <1>1, <1>2, <1>5, OnlyOne DEF IInv
    <2>2. Container(p) = Home(journal.tok) /\ journal.tok \in 1..started
      BY <1>2, <2>1, AtWork
    <2>3. journal.tok \in Measurements
      BY <1>2, <2>2, MeasurementJournalAssumption
      DEF MeasurementJournalAssumption, Core, TypeOK, Tokens, Measurements
    <2>4. \A t : Container(p) = <<home[t], t>> <=> t = journal.tok
      BY <2>2 DEF Home
    <2>5. Held' = Held \cup {journal.tok}
      BY <1>1, <1>5, <2>3, <2>4 DEF Held, Live
    <2> QED BY <1>1, <1>5, <2>1, <2>5 DEF LedgerStep, Ledger!LedgerNext, Ledger!Hold
  <1> QED BY <1>1, <1>2, <1>3, <1>4, <1>5

\* A journal goes, while nobody is careless: nothing is held.
LEMMA CloseStep ==
    ASSUME IInv, Core', EvidenceInv', NEW p \in Procs,
           CleanupUnlink(p) \/ ReconcileUnlink(p)
    PROVE  LedgerStep
  <1>1. /\ UNCHANGED <<evidence, present, inflight, home, started, careless>>
        /\ UNCHANGED journal \/ journal' = NoJournal
    BY DEF CleanupUnlink, ReconcileUnlink, otherVars, daemonVars
  <1>2. Core /\ careless \in BOOLEAN /\ (~careless => CareInv)
    BY DEF IInv, Core, TypeOK
  <1>3. CASE careless
    BY <1>1, <1>2, <1>3, CarelessStep
  <1>4. CASE UNCHANGED journal
    BY <1>1, <1>2, <1>4, ReleaseStep
  <1>5. CASE ~careless /\ journal' = NoJournal
    <2>1. Held = {} /\ Held' = {}
      <3>1. present \cup inflight = {}
        BY <1>2, <1>5, CleanupUnlinkCare, ReconcileUnlinkCare
      <3> QED BY <1>1, <3>1 DEF Held, Live
    <2>2. journal'.tok = 0
      BY <1>5 DEF NoJournal
    <2>3. CASE journal.tok = 0
      BY <1>1, <2>1, <2>2, <2>3 DEF LedgerStep, Ledger!ledgerVars
    <2>4. CASE journal.tok # 0
      BY <1>1, <1>5, <2>1, <2>2, <2>4 DEF LedgerStep, Ledger!LedgerNext, Ledger!Close
    <2> QED BY <2>3, <2>4
  <1> QED BY <1>1, <1>2, <1>3, <1>4, <1>5

\* A confirmed journal replaces that of the same measurement.
LEMMA ConfirmStep ==
    ASSUME IInv, Core', EvidenceInv', NEW p \in Procs, ConfirmJournal(p)
    PROVE  LedgerStep
  <1>1. /\ UNCHANGED <<evidence, present, inflight, home, started, careless>>
        /\ me[p].pc \in Named
        /\ journal'.tok \in {journal.tok, me[p].tok}
    BY DEF ConfirmJournal, At, otherVars, daemonVars, Named, Exporting
  <1>2. Core /\ careless \in BOOLEAN
    BY DEF IInv, Core, TypeOK
  <1>3. CASE careless
    BY <1>1, <1>2, <1>3, CarelessStep
  <1>4. CASE ~careless
    <2>1. journal'.tok = journal.tok
      BY <1>1, <1>2, <1>4, OnlyOne DEF IInv
    <2>2. Held' = Held
      BY <1>1, <1>2, HeldShrinks
    <2> QED BY <1>1, <2>1, <2>2 DEF LedgerStep, Ledger!ledgerVars
  <1> QED BY <1>3, <1>4

\* The evidence is published.
LEMMA PublishStep ==
    ASSUME IInv, EvidenceInv, Core', EvidenceInv', NEW p \in Procs, WriteEvidence(p)
    PROVE  LedgerStep
  <1>1. /\ Core
        /\ UNCHANGED <<journal, present, inflight, home, started, careless>>
    BY DEF IInv, Core, WriteEvidence, otherVars, daemonVars
  <1>2. /\ \/ evidence' = evidence
           \/ evidence = 0 /\ evidence' = me[p].tok
        /\ me[p].tok \in 1..started /\ journal.tok # me[p].tok
        /\ Home(me[p].tok) \notin present \cup inflight
    BY <1>1, WriteKeepsEvidence
  <1>3. CASE evidence' = evidence
    BY <1>1, <1>3, ReleaseStep
  <1>4. CASE evidence = 0 /\ evidence' = me[p].tok
    <2>1. me[p].tok \notin Held /\ Held' = Held
      BY <1>1, <1>2 DEF Held, Live, Home
    <2>2. me[p].tok \in 1..MaxMeasurements
      BY <1>1, <1>2, MeasurementJournalAssumption
      DEF MeasurementJournalAssumption, Core, TypeOK, Tokens
    <2>3. Ledger!Publish(me[p].tok)
      BY <1>1, <1>2, <1>4, <2>1 DEF Ledger!Publish
    <2> QED BY <1>1, <2>2, <2>3 DEF LedgerStep, Ledger!LedgerNext
  <1> QED BY <1>2, <1>3, <1>4

\* The other steps of a process at most take its container away.
LEMMA OtherStep ==
    ASSUME IInv, EvidenceInv, Core', EvidenceInv', NEW p \in Procs,
           \/ StartMeasurement(p) \/ ExportContainer(p) \/ CleanupInspect(p)
           \/ CleanupRemove(p) \/ Crash(p)
           \/ \E confirm \in BOOLEAN : StartCleanup(p, confirm)
           \/ LoadJournal(p) \/ CheckIdentity(p) \/ InspectContainer(p)
           \/ ReconcileRemove(p)
    PROVE  LedgerStep
  <1>1. Core
    BY DEF IInv, Core
  <1>2. CASE \/ StartMeasurement(p)
             \/ \E confirm \in BOOLEAN : StartCleanup(p, confirm)
    <2>1. /\ UNCHANGED <<journal, evidence, present, inflight>>
          /\ careless => careless'
      BY <1>2 DEF StartMeasurement, StartCleanup, daemonVars
    <2>2. \A s \in 1..started : home'[s] = home[s]
      BY <1>1, <1>2, StartKeepsEvidence DEF StartCleanup
    <2> QED BY <1>1, <2>1, <2>2, ReleaseStep
  <1>3. CASE \/ ExportContainer(p) \/ CleanupInspect(p) \/ Crash(p) \/ LoadJournal(p)
             \/ CheckIdentity(p) \/ InspectContainer(p)
    <2>1. UNCHANGED <<journal, evidence, present, inflight, home, careless>>
      BY <1>3 DEF ExportContainer, CleanupInspect, Crash, LoadJournal, CheckIdentity,
                  InspectContainer, otherVars, daemonVars
    <2> QED BY <1>1, <2>1, ReleaseStep
  <1>4. CASE CleanupRemove(p) \/ ReconcileRemove(p)
    <2>1. /\ UNCHANGED <<journal, evidence, inflight, home, careless>>
          /\ present' \subseteq present
      BY <1>4 DEF CleanupRemove, ReconcileRemove, RemoveContainer, otherVars
    <2> QED BY <1>1, <2>1, ReleaseStep
  <1> QED BY <1>2, <1>3, <1>4

LEMMA OutsideStep ==
    ASSUME IInv, EvidenceInv, Core', EvidenceInv',
           LateCreate \/ RestartDaemon \/ \E d \in Daemons : Repoint(d)
    PROVE  LedgerStep
  <1>1. Core
    BY DEF IInv, Core
  <1>2. /\ UNCHANGED <<journal, evidence, home>>
        /\ present' \cup inflight' \subseteq present \cup inflight
    BY <1>1, OutsideKeepsEvidence
  <1>3. CASE LateCreate \/ RestartDaemon
    BY <1>1, <1>2, <1>3, ReleaseStep DEF LateCreate, RestartDaemon, otherVars
  <1>4. CASE \E d \in Daemons : Repoint(d)
    BY <1>1, <1>2, <1>4, ReleaseStep DEF Repoint, daemonVars
  <1> QED BY <1>3, <1>4

\* The directory implements the ledger: while nobody is careless, containers are
\* held only for the measurement of the journal, and whoever races on it,
\* evidence is published once and holds nothing (generate_image_size_evidence,
\* reconcile_measurement_journal, write_image_size_evidence).
THEOREM EvidenceLedgerImplemented == Spec => ImplementsLedger
  <1>1. Init => EvidenceInv /\ Ledger!LedgerInit
    BY IdleType DEF Init, EvidenceInv, NoJournal, Held, Live, Ledger!LedgerInit
  <1>2. Spec => [](IInv /\ EvidenceInv)
    BY <1>1, InitInv, StepInv, EvidenceStep, PTL DEF Spec
  <1>3. IInv /\ EvidenceInv /\ (IInv /\ EvidenceInv)' /\ [Next]_vars => LedgerStep
    <2> SUFFICES ASSUME IInv, EvidenceInv, IInv', EvidenceInv', [Next]_vars
                 PROVE  LedgerStep
      OBVIOUS
    <2>1. Core /\ Core'
      BY DEF IInv, Core
    <2>2. ASSUME NEW p \in Procs, Measure(p) \/ Reconcile(p) \/ Crash(p)
          PROVE  LedgerStep
      BY <2>1, <2>2, OpenStep, HoldStep, CloseStep, ConfirmStep, PublishStep, OtherStep
      DEF Measure, Reconcile
    <2>3. CASE UNCHANGED vars
      BY <2>1, <2>3, ReleaseStep DEF vars
    <2> QED BY <2>1, <2>2, <2>3, OutsideStep DEF Next
  <1> QED BY <1>1, <1>2, <1>3, PTL
          DEF Spec, ImplementsLedger, Ledger!LedgerSpec, LedgerStep
=============================================================================

--------------------------- MODULE SnoopingProof ----------------------------
(***************************************************************************)
(* Proofs about SnoopingBus, for any number of processors, any lines, any  *)
(* delays and every scheme: its types, that requests and waiting lines     *)
(* match, that a line has one owner, that no assert fails, that the bus is *)
(* served in turn, and that MI and MSI implement ReadersWriters.           *)
(***************************************************************************)
EXTENDS SnoopingBus, TLAPS

(* The states a line can be in under a scheme.  OWNED and FORWARD are out  *)
(* of reach: a modified line is always given up, and nobody says SHARED in *)
(* MESIF.                                                                  *)
StatesOf(c) ==
  {"INVALID", "MODIFIED", "INVALID_MODIFIED"}
    \cup (IF c = "MI" THEN {} ELSE {"SHARED_STATE", "INVALID_SHARED", "SHARED_MODIFIED"})
    \cup (IF c \in Coherent THEN {} ELSE {"EXCLUSIVE"})

Sharing == {"MESI", "MOESI"}

Fits(brt, s) == IF brt = "BUSRD" THEN s = "INVALID_SHARED" ELSE s \in Upgrade

-----------------------------------------------------------------------------
(* The tables.  An access of a line that waits for nothing either finds    *)
(* permission and leaves the bus alone, or asks for what its next state    *)
(* waits for; it makes no copy, and an owner only of an owner.             *)
LEMMA CacheTable ==
  ASSUME NEW c \in Scheme, NEW isRead \in BOOLEAN, NEW s \in StatesOf(c), s \notin Waiting
  PROVE  LET r == cacheAction(c, isRead, s) IN
         /\ r.next \in StatesOf(c)
         /\ \/ r.perm = TRUE /\ r.sends = {} /\ r.next \notin Waiting
            \/ /\ r.perm = FALSE /\ r.next \in Waiting
               /\ \E brt \in Request : r.sends = {brt} /\ Fits(brt, r.next)
         /\ Copy(r.next) => Copy(s)
         /\ Owner(r.next) => Owner(s)
         /\ c \in Coherent => r.next = s \/ r.next \in Waiting
<1> USE DEF StatesOf, Coherent, Waiting, Upgrade, Scheme, Request, Fits, Copy, Owner, Stable,
            Grant, Ask, Wait, Miss, Upgrading, UpgradingForward,
            cacheAction
<1>1. CASE c = "MI"
  BY <1>1 DEF cacheMI
<1>2. CASE c = "MSI"
  BY <1>2 DEF cacheMSI
<1>3. CASE c = "MESI"
  BY <1>3 DEF cacheMESI
<1>4. CASE c = "MOESI"
  BY <1>4 DEF cacheMOESI
<1>5. CASE c = "MESIF"
  BY <1>5 DEF cacheMESIF
<1> QED BY <1>1, <1>2, <1>3, <1>4, <1>5

(* A request of another processor leaves a waiting line as it is; it takes *)
(* away ownership always, and in MI and MSI every copy that a write or a   *)
(* modified line excludes.                                                 *)
LEMMA SnoopTable ==
  ASSUME NEW c \in Scheme, NEW brt \in Request, NEW s \in StatesOf(c)
  PROVE  LET r == snoopAction(c, brt, s) IN
         /\ r.next \in StatesOf(c)
         /\ s \in Waiting => r.next = s
         /\ s \notin Waiting => r.next \notin Waiting
         /\ ~Owner(r.next)
         /\ "SHARED" \in r.sends => c \in Sharing
         /\ c \in {"MI", "MSI", "MESI"} /\ "DATA" \in r.sends => Owner(s)
         /\ c \in Coherent /\ brt = "BUSWR" => Permission(r.next) = "none"
         /\ c \in Coherent => r.next = s \/ Permission(r.next) = "none"
<1> USE DEF StatesOf, Coherent, Waiting, Upgrade, Scheme, Request, Owner, Reply, Sharing,
            Permission, Keep, Reacts, Receive, Completes, ReadCompletes, LosesToWrite,
            SharedOrExclusive, ReceiveShared, GivesUp, SharesWith, snoopAction
<1>1. CASE c = "MI"
  BY <1>1 DEF snoopMI
<1>2. CASE c = "MSI"
  BY <1>2 DEF snoopMSI
<1>3. CASE c = "MESI"
  BY <1>3 DEF snoopMESI
<1>4. CASE c = "MOESI"
  BY <1>4 DEF snoopMOESI
<1>5. CASE c = "MESIF"
  BY <1>5 DEF snoopMESIF
<1> QED BY <1>1, <1>2, <1>3, <1>4, <1>5

(* An answer ends the wait of any line, and calls the cache back.          *)
LEMMA AnswerTable ==
  ASSUME NEW c \in Scheme, NEW reply \in Reply, NEW s \in StatesOf(c), s \in Waiting,
         reply = "SHARED" => c \in Sharing
  PROVE  LET r == snoopAction(c, reply, s) IN
         /\ r.next \in StatesOf(c)
         /\ r.next \notin Waiting
         /\ r.received = TRUE
         /\ c \in Coherent => Permission(r.next) = IF s \in Upgrade THEN "write" ELSE "read"
<1> USE DEF StatesOf, Coherent, Waiting, Upgrade, Scheme, Reply, Sharing,
            Permission, Keep, Reacts, Receive, Completes, ReadCompletes,
            LosesToWrite, SharedOrExclusive, ReceiveShared, GivesUp, SharesWith, snoopAction
<1>1. CASE c = "MI"
  BY <1>1 DEF snoopMI
<1>2. CASE c = "MSI"
  BY <1>2 DEF snoopMSI
<1>3. CASE c = "MESI"
  BY <1>3 DEF snoopMESI
<1>4. CASE c = "MOESI"
  BY <1>4 DEF snoopMOESI
<1>5. CASE c = "MESIF"
  BY <1>5 DEF snoopMESIF
<1> QED BY <1>1, <1>2, <1>3, <1>4, <1>5

-----------------------------------------------------------------------------
(* The numbers of the round robin.                                         *)
LEMMA TurnInRange ==
  ASSUME NEW a \in Nat
  PROVE  a % N \in Proc
BY CountAssumption DEF Proc

LEMMA DistanceIs ==
  ASSUME NEW p \in Proc, NEW l \in Proc
  PROVE  (p + N - l) % N = IF p >= l THEN p - l ELSE p + N - l
<1>1. N \in Nat /\ N > 0 /\ p \in Nat /\ l \in Nat /\ p < N /\ l < N
  BY CountAssumption DEF Proc
<1>2. CASE p >= l
  BY <1>1, <1>2
<1>3. CASE p < l
  BY <1>1, <1>3
<1> QED BY <1>1, <1>2, <1>3

LEMMA NextTurnIs ==
  ASSUME NEW p \in Proc
  PROVE  (p + 1) % N = IF p + 1 = N THEN 0 ELSE p + 1
<1>1. N \in Nat /\ N > 0 /\ p \in Nat /\ p < N
  BY CountAssumption DEF Proc
<1> QED BY <1>1

-----------------------------------------------------------------------------
(* The inductive invariant: what is checked, the states each scheme can    *)
(* reach, that requests carry what their lines wait for, and that once a   *)
(* request has been shown to the others nobody keeps what it excludes.     *)
StatesReached == \A p \in Proc, l \in Line : state[p][l] \in StatesOf(cs)

SharedOnlyIfSharing == pending # None /\ pending.shared => cs \in Sharing

RequestsFit ==
  /\ pending # None /\ pending.at = "WAITING_CACHE" =>
       pending.brt \in Request /\ Fits(pending.brt, state[pending.proc][pending.addr])
  /\ \A p \in Proc : queued[p] # None => Fits(queued[p].brt, state[p][queued[p].addr])

AnswerExcludes ==
  pending # None /\ pending.at # "WAITING_CACHE" =>
    \A q \in Proc \ {pending.proc} :
      /\ ~Owner(state[q][pending.addr])
      /\ cs \in Coherent /\ state[pending.proc][pending.addr] \in Upgrade
           => Permission(state[q][pending.addr]) = "none"

Inv ==
  /\ TypeOK
  /\ StatesReached
  /\ SharedOnlyIfSharing
  /\ BusyWhileCounting
  /\ WaitersHaveOneRequest
  /\ RequestsFit
  /\ OneOwner
  /\ AnswerExcludes
  /\ AssertsHold

LEMMA InitInv == Init => Inv
<1> SUFFICES ASSUME Init
             PROVE  Inv
  OBVIOUS
<1> USE NoneAssumption DEF Init
<1>1. TypeOK
  <2>1. 0 \in Proc /\ "INVALID" \in State
    BY CountAssumption DEF Proc, State, Stable
  <2>2. state \in [Proc -> [Line -> State]]
    BY <2>1
  <2> QED BY <2>1, <2>2 DEF TypeOK
<1>2. StatesReached /\ SharedOnlyIfSharing /\ BusyWhileCounting /\ RequestsFit
  BY DEF StatesReached, StatesOf, SharedOnlyIfSharing, BusyWhileCounting, RequestsFit
<1>3. WaitersHaveOneRequest
  BY DEF WaitersHaveOneRequest, OnBus, InSlot, Waiting, Upgrade
<1>4. OneOwner /\ AnswerExcludes /\ AssertsHold
  BY DEF OneOwner, Owner, AnswerExcludes, AssertsHold
<1> QED BY <1>1, <1>2, <1>3, <1>4 DEF Inv

(* The facts every step starts from.                                       *)
LEMMA InvFacts ==
  ASSUME Inv
  PROVE  /\ cs \in Scheme
         /\ \A p \in Proc : state[p] \in [Line -> State]
         /\ pending # None => pending \in BusReqSet
         /\ \A p \in Proc : queued[p] # None => queued[p] \in QueuedSet
BY SchemeAssumption DEF Inv, TypeOK

(* An access that the cache permits: only the own line changes, and it     *)
(* becomes an owner only if it was one.                                    *)
LEMMA HitInv ==
  ASSUME Inv, NEW p \in Proc, NEW isRead \in BOOLEAN, NEW l \in Line,
         MemoryRequest(p, isRead, l),
         cacheAction(cs, isRead, state[p][l]).perm = TRUE
  PROVE  Inv'
<1> DEFINE r == cacheAction(cs, isRead, state[p][l])
<1>1. state[p][l] \in StatesOf(cs) /\ cs \in Scheme
  BY InvFacts DEF Inv, StatesReached
<1>2. pendReq[p] = None /\ state[p][l] \notin Waiting
  BY NoneAssumption DEF MemoryRequest, Stalled, Inv, WaitersHaveOneRequest
<1>3. /\ r.next \in StatesOf(cs)
      /\ r.sends = {} /\ r.next \notin Waiting
      /\ Owner(r.next) => Owner(state[p][l])
      /\ cs \in Coherent => r.next = state[p][l]
  BY <1>1, <1>2, CacheTable
<1>4. /\ UNCHANGED <<cs, pending, queued, countDown, lastProc, pendReq, halted>>
      /\ state' = [state EXCEPT ![p][l] = r.next]
      /\ readyReq' = readyReq \cup {p}
  BY <1>3 DEF MemoryRequest, BusReq
<1>5. state \in [Proc -> [Line -> State]]
  BY DEF Inv, TypeOK
<1>6. \A q \in Proc, k \in Line :
        state'[q][k] = IF q = p /\ k = l THEN r.next ELSE state[q][k]
  BY <1>4, <1>5
<1>7. StatesOf(cs) \subseteq State
  BY DEF StatesOf, State, Stable, Waiting, Upgrade
<1> HIDE DEF r
<1>8. TypeOK'
  BY <1>3, <1>4, <1>5, <1>7 DEF Inv, TypeOK
<1>9. StatesReached' /\ SharedOnlyIfSharing' /\ BusyWhileCounting' /\ AssertsHold'
  BY <1>3, <1>4, <1>6 DEF Inv, StatesReached, SharedOnlyIfSharing, BusyWhileCounting, AssertsHold
<1>10. WaitersHaveOneRequest'
  BY <1>2, <1>3, <1>4, <1>6 DEF Inv, WaitersHaveOneRequest, OnBus, InSlot
<1>11. ~OnBus(p, l) /\ ~InSlot(p, l)
  BY <1>2, NoneAssumption DEF Inv, WaitersHaveOneRequest
<1>12. RequestsFit'
  BY <1>4, <1>6, <1>11, InvFacts DEF Inv, RequestsFit, OnBus, InSlot, BusReqSet, QueuedSet
<1>13. OneOwner'
  BY <1>3, <1>6 DEF Inv, OneOwner
<1>14. AnswerExcludes'
  BY <1>3, <1>4, <1>6, <1>11, InvFacts DEF Inv, AnswerExcludes, OnBus, BusReqSet
<1> QED BY <1>8, <1>9, <1>10, <1>12, <1>13, <1>14 DEF Inv

(* An access that must wait: its request takes the free bus or the free    *)
(* slot of its processor.                                                  *)
LEMMA MissInv ==
  ASSUME Inv, NEW p \in Proc, NEW isRead \in BOOLEAN, NEW l \in Line,
         MemoryRequest(p, isRead, l),
         cacheAction(cs, isRead, state[p][l]).perm # TRUE
  PROVE  Inv'
<1> DEFINE r == cacheAction(cs, isRead, state[p][l])
<1>1. state[p][l] \in StatesOf(cs) /\ cs \in Scheme
  BY InvFacts DEF Inv, StatesReached
<1>2. pendReq[p] = None /\ state[p][l] \notin Waiting
  BY NoneAssumption DEF MemoryRequest, Stalled, Inv, WaitersHaveOneRequest
<1>3. /\ r.next \in StatesOf(cs) /\ r.perm = FALSE /\ r.next \in Waiting
      /\ \E brt \in Request : r.sends = {brt} /\ Fits(brt, r.next)
  BY <1>1, <1>2, CacheTable
<1>4. PICK brt \in Request : r.sends = {brt} /\ Fits(brt, r.next)
  BY <1>3
<1>5. ~Owner(r.next) /\ Permission(r.next) = "none"
  BY <1>3 DEF Owner, Permission, Waiting, Upgrade
<1>6. /\ UNCHANGED <<cs, lastProc, readyReq>>
      /\ state' = [state EXCEPT ![p][l] = r.next]
      /\ pendReq' = [pendReq EXCEPT ![p] = l]
      /\ BusReq({brt}, l, p)
  BY <1>3, <1>4 DEF MemoryRequest
<1>7. \A q \in Proc, k \in Line :
        state'[q][k] = IF q = p /\ k = l THEN r.next ELSE state[q][k]
  BY <1>6 DEF Inv, TypeOK
<1>8. \A q \in Proc : pendReq'[q] = IF q = p THEN l ELSE pendReq[q]
  BY <1>6 DEF Inv, TypeOK
<1>9. queued[p] = None /\ \A k \in Line : ~OnBus(p, k) /\ ~InSlot(p, k)
  BY <1>2, NoneAssumption, InvFacts DEF Inv, WaitersHaveOneRequest, OnBus, InSlot, QueuedSet
<1>10. pending # None => pending.proc # p
  BY <1>9, InvFacts DEF OnBus, BusReqSet
<1>11. StatesOf(cs) \subseteq State /\ l \notin {None}
  BY NoneAssumption DEF StatesOf, State, Stable, Waiting, Upgrade
<1>12. \A k \in Line : k # l => state[p][k] \notin Waiting
  BY <1>2, NoneAssumption DEF Inv, WaitersHaveOneRequest
<1> HIDE DEF r
<1>13. StatesReached' /\ OneOwner'
  <2>1. StatesReached'
    BY <1>3, <1>6, <1>7 DEF Inv, StatesReached
  <2>2. OneOwner'
    BY <1>5, <1>7 DEF Inv, OneOwner
  <2> QED BY <2>1, <2>2
<1>14. state' \in [Proc -> [Line -> State]] /\ pendReq' \in [Proc -> Line \cup {None}]
  BY <1>3, <1>6, <1>11 DEF Inv, TypeOK
<1>15. CASE pending = None
  <2>1. /\ pending' = Own(brt, l, p)
        /\ countDown' = CacheDelay
        /\ UNCHANGED <<queued, halted>>
    BY <1>6, <1>15 DEF BusReq
  <2>2. pending' \in BusReqSet /\ pending' # None
    <3>1. pending' \in BusReqSet
      BY <2>1 DEF Own, BusReqSet
    <3> QED BY <3>1, NoneAssumption
  <2>3. TypeOK'
    BY <1>6, <1>14, <2>1, <2>2, DelayAssumption DEF Inv, TypeOK
  <2>4. SharedOnlyIfSharing' /\ AssertsHold' /\ AnswerExcludes'
    BY <1>6, <2>1 DEF Own, SharedOnlyIfSharing, Inv, AssertsHold, AnswerExcludes
  <2>5. BusyWhileCounting'
    BY <2>1, <2>2, DelayAssumption DEF BusyWhileCounting
  <2>6. WaitersHaveOneRequest'
    BY <1>3, <1>7, <1>8, <1>9, <1>11, <1>12, <1>15, <2>1, <2>2
    DEF Inv, WaitersHaveOneRequest, OnBus, InSlot, Own
  <2>7. RequestsFit'
    BY <1>4, <1>7, <1>9, <2>1, InvFacts DEF Inv, RequestsFit, Own, QueuedSet
  <2> QED BY <1>13, <2>3, <2>4, <2>5, <2>6, <2>7 DEF Inv
<1>16. CASE pending # None
  <2>1. /\ queued' = [queued EXCEPT ![p] = [brt |-> brt, addr |-> l]]
        /\ halted' = FALSE
        /\ UNCHANGED <<pending, countDown>>
    BY <1>6, <1>9, <1>16 DEF BusReq
  <2>2. [brt |-> brt, addr |-> l] \in QueuedSet /\ [brt |-> brt, addr |-> l] # None
    <3>1. [brt |-> brt, addr |-> l] \in QueuedSet
      BY DEF QueuedSet
    <3> QED BY <3>1, NoneAssumption
  <2>3. \A q \in Proc : queued'[q] = IF q = p THEN [brt |-> brt, addr |-> l] ELSE queued[q]
    BY <2>1 DEF Inv, TypeOK
  <2>4. TypeOK'
    BY <1>6, <1>14, <2>1, <2>2 DEF Inv, TypeOK
  <2>5. SharedOnlyIfSharing' /\ AssertsHold' /\ BusyWhileCounting'
    BY <1>6, <2>1 DEF SharedOnlyIfSharing, Inv, AssertsHold, BusyWhileCounting
  <2>6. WaitersHaveOneRequest'
    BY <1>3, <1>7, <1>8, <1>9, <1>11, <1>12, <2>1, <2>2, <2>3
    DEF Inv, WaitersHaveOneRequest, OnBus, InSlot
  <2>7. RequestsFit'
    BY <1>4, <1>7, <1>9, <1>10, <2>1, <2>2, <2>3, InvFacts
    DEF Inv, RequestsFit, QueuedSet, BusReqSet
  <2>8. AnswerExcludes'
    BY <1>5, <1>6, <1>7, <1>10, <2>1, InvFacts DEF Inv, AnswerExcludes, BusReqSet
  <2> QED BY <1>13, <2>4, <2>5, <2>6, <2>7, <2>8 DEF Inv
<1> QED BY <1>15, <1>16

-----------------------------------------------------------------------------
(* Ticks that pass time or hand the bus on.                                *)
LEMMA CountInv == Inv /\ (TickCount \/ TickIdle) => Inv'
<1> SUFFICES ASSUME Inv, TickCount \/ TickIdle
             PROVE  Inv'
  OBVIOUS
<1>1. /\ UNCHANGED <<cs, state, pending, queued, lastProc, pendReq, halted>>
      /\ readyReq' = {}
      /\ countDown' \in Nat /\ (countDown' > 0 <=> countDown > 0)
  BY DEF TickCount, TickIdle, Callbacks, busVars, Inv, TypeOK
<1>2. TypeOK'
  BY <1>1 DEF Inv, TypeOK
<1>3. StatesReached' /\ SharedOnlyIfSharing' /\ BusyWhileCounting' /\ RequestsFit'
  BY <1>1 DEF Inv, StatesReached, SharedOnlyIfSharing, BusyWhileCounting, RequestsFit
<1>4. WaitersHaveOneRequest' /\ OneOwner' /\ AnswerExcludes' /\ AssertsHold'
  BY <1>1 DEF Inv, WaitersHaveOneRequest, OnBus, InSlot, OneOwner, AnswerExcludes, AssertsHold
<1> QED BY <1>2, <1>3, <1>4 DEF Inv

LEMMA GrantInv == Inv /\ TickGrant => Inv'
<1> SUFFICES ASSUME Inv, TickGrant
             PROVE  Inv'
  OBVIOUS
<1>1. PICK p \in Proc :
        /\ queued[p] # None
        /\ pending' = Own(queued[p].brt, queued[p].addr, p)
        /\ queued' = [queued EXCEPT ![p] = None]
        /\ lastProc' = (p + 1) % N
  BY DEF TickGrant, IsNext
<1>2. /\ UNCHANGED <<cs, state, pendReq, halted>>
      /\ readyReq' = {} /\ countDown' = CacheDelay
  BY DEF TickGrant, Callbacks
<1>3. pending = None /\ queued[p] \in QueuedSet
  BY <1>1, InvFacts DEF Inv, BusyWhileCounting, TickGrant
<1>4. pending' \in BusReqSet /\ pending' # None
  <2>1. pending' \in BusReqSet
    BY <1>1, <1>3 DEF Own, BusReqSet, QueuedSet
  <2> QED BY <2>1, NoneAssumption
<1>5. lastProc' \in Proc
  BY <1>1, TurnInRange DEF Proc
<1>6. TypeOK'
  BY <1>1, <1>2, <1>4, <1>5, DelayAssumption DEF Inv, TypeOK
<1>7. \A q \in Proc : queued'[q] = IF q = p THEN None ELSE queued[q]
  BY <1>1 DEF Inv, TypeOK
<1>8. StatesReached' /\ SharedOnlyIfSharing' /\ BusyWhileCounting' /\ AssertsHold'
  BY <1>1, <1>2, <1>4, DelayAssumption
  DEF Inv, StatesReached, SharedOnlyIfSharing, BusyWhileCounting, AssertsHold, Own
<1>9. RequestsFit'
  BY <1>1, <1>2, <1>3, <1>7 DEF Inv, RequestsFit, Own, QueuedSet
<1>10. WaitersHaveOneRequest'
  BY <1>1, <1>2, <1>3, <1>4, <1>7 DEF Inv, WaitersHaveOneRequest, OnBus, InSlot, Own
<1>11. OneOwner' /\ AnswerExcludes'
  BY <1>1, <1>2 DEF Inv, OneOwner, AnswerExcludes, Own
<1> QED BY <1>6, <1>8, <1>9, <1>10, <1>11 DEF Inv

-----------------------------------------------------------------------------
(* The broadcast: waiting lines stay, owners go, and with them every copy  *)
(* that a write excludes.                                                  *)
LEMMA BroadcastFacts ==
  ASSUME Inv, TickBroadcast
  PROVE  /\ UNCHANGED <<cs, queued, lastProc, pendReq>> /\ readyReq' = {}
         /\ pending # None /\ pending \in BusReqSet /\ pending.brt \in Request
         /\ pending' \in BusReqSet /\ pending' # None
         /\ pending'.proc = pending.proc /\ pending'.addr = pending.addr
         /\ pending'.at # "WAITING_CACHE" /\ pending'.shared = (Repliers("SHARED") # {})
         /\ countDown' \in Nat \ {0}
         /\ state' \in [Proc -> [Line -> State]]
         /\ \A q \in Proc, k \in Line :
              state'[q][k] = IF q # pending.proc /\ k = pending.addr
                             THEN Snoop(q).next ELSE state[q][k]
<1>1. pending # None
  BY DEF TickBroadcast, Inv, BusyWhileCounting
<1>2. pending \in BusReqSet /\ pending.brt \in Request
  BY <1>1, InvFacts DEF TickBroadcast, Inv, RequestsFit
<1>3. pending.addr \in Line /\ pending.proc \in Proc
  BY <1>2 DEF BusReqSet
<1>4. \A q \in Proc : Snoop(q).next \in State
  <2>1. StatesOf(cs) \subseteq State
    BY DEF StatesOf, State, Stable, Waiting, Upgrade
  <2> QED BY <2>1, <1>2, <1>3, SnoopTable, InvFacts DEF Inv, StatesReached, Snoop
<1> HIDE DEF Snoop
<1>5. pending' \in BusReqSet
  BY <1>2 DEF TickBroadcast, Shown, BusReqSet
<1>6. /\ pending'.proc = pending.proc /\ pending'.addr = pending.addr
      /\ pending'.at # "WAITING_CACHE" /\ pending'.shared = (Repliers("SHARED") # {})
  BY DEF TickBroadcast, Shown
<1>7. \A q \in Proc, k \in Line :
        state'[q][k] = IF q # pending.proc /\ k = pending.addr
                       THEN Snoop(q).next ELSE state[q][k]
  BY <1>3 DEF TickBroadcast, Inv, TypeOK, Others
<1>8. state' \in [Proc -> [Line -> State]]
  BY <1>3, <1>4 DEF TickBroadcast, Inv, TypeOK, Others
<1>9. countDown' \in Nat \ {0}
  BY DelayAssumption DEF TickBroadcast
<1> QED BY <1>1, <1>2, <1>5, <1>6, <1>7, <1>8, <1>9, NoneAssumption
        DEF TickBroadcast, Callbacks

LEMMA BroadcastSnoops ==
  ASSUME Inv, TickBroadcast, NEW q \in Proc
  PROVE  LET s == state[q][pending.addr] IN
         /\ s \in StatesOf(cs) /\ Snoop(q).next \in StatesOf(cs)
         /\ s \in Waiting => Snoop(q).next = s
         /\ s \notin Waiting => Snoop(q).next \notin Waiting
         /\ ~Owner(Snoop(q).next)
         /\ "SHARED" \in Snoop(q).sends => cs \in Sharing
         /\ cs \in {"MI", "MSI", "MESI"} /\ "DATA" \in Snoop(q).sends => Owner(s)
         /\ cs \in Coherent /\ pending.brt = "BUSWR" => Permission(Snoop(q).next) = "none"
         /\ cs \in Coherent => Snoop(q).next = s \/ Permission(Snoop(q).next) = "none"
<1>1. pending.addr \in Line /\ pending.brt \in Request
  BY BroadcastFacts DEF BusReqSet
<1>2. state[q][pending.addr] \in StatesOf(cs) /\ cs \in Scheme
  BY <1>1, InvFacts DEF Inv, StatesReached
<1> QED BY <1>1, <1>2, SnoopTable DEF Snoop

LEMMA BroadcastInv == Inv /\ TickBroadcast => Inv'
<1> SUFFICES ASSUME Inv, TickBroadcast
             PROVE  Inv'
  OBVIOUS
<1>1. pending.addr \in Line /\ pending.proc \in Proc
  BY BroadcastFacts DEF BusReqSet
<1>2. TypeOK'
  BY BroadcastFacts DEF Inv, TypeOK, TickBroadcast
<1>3. StatesReached'
  BY BroadcastFacts, BroadcastSnoops DEF Inv, StatesReached
<1>4. SharedOnlyIfSharing'
  BY BroadcastFacts, BroadcastSnoops DEF SharedOnlyIfSharing, Repliers, Others
<1>5. BusyWhileCounting'
  BY BroadcastFacts DEF BusyWhileCounting
<1>6. \A q \in Proc, k \in Line : state'[q][k] \in Waiting <=> state[q][k] \in Waiting
  BY BroadcastFacts, BroadcastSnoops
<1>7. WaitersHaveOneRequest'
  BY <1>6, BroadcastFacts DEF Inv, WaitersHaveOneRequest, OnBus, InSlot
<1>8. RequestsFit'
  <2>1. \A p \in Proc : queued[p] # None =>
          state'[p][queued[p].addr] = state[p][queued[p].addr]
    <3> SUFFICES ASSUME NEW p \in Proc, queued[p] # None
                 PROVE  state'[p][queued[p].addr] = state[p][queued[p].addr]
      OBVIOUS
    <3>1. queued[p].addr \in Line /\ queued[p] \in QueuedSet
      BY InvFacts DEF QueuedSet
    <3>2. state[p][queued[p].addr] \in Waiting
      BY <3>1 DEF Inv, RequestsFit, Fits, Waiting, QueuedSet
    <3> QED BY <3>1, <3>2, BroadcastFacts, BroadcastSnoops
  <2> QED BY <2>1, BroadcastFacts DEF Inv, RequestsFit
<1>9. \A q \in Proc, k \in Line : Owner(state'[q][k]) => Owner(state[q][k])
  BY BroadcastFacts, BroadcastSnoops
<1>10. OneOwner'
  BY <1>9 DEF Inv, OneOwner
<1>11. AnswerExcludes'
  <2>1. \A q \in Proc \ {pending.proc} : ~Owner(state'[q][pending.addr])
    BY <1>1, BroadcastFacts, BroadcastSnoops
  <2>2. ASSUME cs \in Coherent, state'[pending.proc][pending.addr] \in Upgrade
        PROVE  \A q \in Proc \ {pending.proc} : Permission(state'[q][pending.addr]) = "none"
    <3>1. state[pending.proc][pending.addr] \in Upgrade
      BY <1>1, <2>2, BroadcastFacts
    <3>2. pending.brt = "BUSWR"
      BY <3>1, BroadcastFacts DEF Inv, RequestsFit, Fits, TickBroadcast, Upgrade, Request
    <3> QED BY <1>1, <2>2, <3>2, BroadcastFacts, BroadcastSnoops
  <2> QED BY <2>1, <2>2, BroadcastFacts DEF AnswerExcludes
<1>12. AssertsHold'
  <2> SUFFICES ASSUME cs \in {"MI", "MSI", "MESI"}
               PROVE  halted' = FALSE
    BY BroadcastFacts DEF AssertsHold
  <2>1. \A p, q \in Repliers("DATA") : p = q
    BY <1>1, BroadcastSnoops DEF Repliers, Others, Inv, OneOwner
  <2> QED BY <2>1 DEF TickBroadcast
<1> QED BY <1>2, <1>3, <1>4, <1>5, <1>7, <1>8, <1>10, <1>11, <1>12 DEF Inv

-----------------------------------------------------------------------------
(* The answer: the waiting line of the owner of the bus gets what nobody   *)
(* else keeps.                                                             *)
LEMMA AnswerFacts ==
  ASSUME Inv, TickAnswer
  PROVE  LET p == pending.proc
             l == pending.addr IN
         /\ UNCHANGED <<cs, queued, lastProc>> /\ readyReq' = {}
         /\ pending # None /\ pending \in BusReqSet /\ p \in Proc /\ l \in Line
         /\ pending.at # "WAITING_CACHE"
         /\ pending' = None /\ countDown' = 0 /\ halted' = FALSE
         /\ state[p][l] \in Waiting /\ pendReq[p] = l
         /\ state' = [state EXCEPT ![p][l] = state'[p][l]]
         /\ pendReq' = [pendReq EXCEPT ![p] = None]
         /\ state'[p][l] \in StatesOf(cs) \ Waiting
         /\ cs \in Coherent =>
              Permission(state'[p][l]) = IF state[p][l] \in Upgrade THEN "write" ELSE "read"
<1> DEFINE p == pending.proc
           l == pending.addr
           reply == IF pending.shared THEN "SHARED" ELSE "DATA"
           r == snoopAction(cs, reply, state[p][l])
<1>1. pending # None
  BY DEF TickAnswer, Inv, BusyWhileCounting
<1>2. pending \in BusReqSet /\ p \in Proc /\ l \in Line
  BY <1>1, InvFacts DEF BusReqSet
<1>3. OnBus(p, l)
  BY <1>1 DEF OnBus
<1>4. pendReq[p] = l /\ state[p][l] \in Waiting
  BY <1>2, <1>3 DEF Inv, WaitersHaveOneRequest
<1>5. state[p][l] \in StatesOf(cs) /\ cs \in Scheme
  BY <1>2, InvFacts DEF Inv, StatesReached
<1>6. reply \in Reply /\ (reply = "SHARED" => cs \in Sharing)
  BY <1>1 DEF Reply, Inv, SharedOnlyIfSharing
<1>7. /\ r.next \in StatesOf(cs) /\ r.next \notin Waiting /\ r.received = TRUE
      /\ cs \in Coherent => Permission(r.next) = IF state[p][l] \in Upgrade THEN "write" ELSE "read"
  <2> HIDE DEF reply
  <2> QED BY <1>4, <1>5, <1>6, AnswerTable
<1>8. state' = [state EXCEPT ![p][l] = r.next]
  BY DEF TickAnswer
<1>9. state'[p][l] = r.next
  BY <1>2, <1>8 DEF Inv, TypeOK
<1>10. pendReq' = [pendReq EXCEPT ![p] = None] /\ halted' = FALSE
  BY <1>2, <1>4, <1>7 DEF TickAnswer, Inv, TypeOK
<1>11. /\ UNCHANGED <<cs, queued, lastProc>> /\ readyReq' = {}
       /\ pending.at # "WAITING_CACHE" /\ pending' = None /\ countDown' = 0
  BY DEF TickAnswer, Callbacks
<1> HIDE DEF r
<1> QED BY <1>1, <1>2, <1>4, <1>7, <1>8, <1>9, <1>10, <1>11

LEMMA AnswerInv == Inv /\ TickAnswer => Inv'
<1> SUFFICES ASSUME Inv, TickAnswer
             PROVE  Inv'
  OBVIOUS
<1> DEFINE p == pending.proc
           l == pending.addr
           s == state'[p][l]
<1>1. /\ p \in Proc /\ l \in Line /\ pending # None
      /\ s \in StatesOf(cs) /\ s \notin Waiting /\ pendReq[p] = l
      /\ pending' = None /\ pending.at # "WAITING_CACHE"
      /\ UNCHANGED <<cs, queued, lastProc>> /\ readyReq' = {}
      /\ countDown' = 0 /\ halted' = FALSE
      /\ state' = [state EXCEPT ![p][l] = s]
      /\ pendReq' = [pendReq EXCEPT ![p] = None]
  BY AnswerFacts
<1> HIDE DEF s
<1>2. \A q \in Proc, k \in Line :
        state'[q][k] = IF q = p /\ k = l THEN s ELSE state[q][k]
  BY <1>1 DEF Inv, TypeOK
<1>3. \A q \in Proc : pendReq'[q] = IF q = p THEN None ELSE pendReq[q]
  BY <1>1 DEF Inv, TypeOK
<1>4. StatesOf(cs) \subseteq State
  BY DEF StatesOf, State, Stable, Waiting, Upgrade
<1>5. state' \in [Proc -> [Line -> State]]
  BY <1>1, <1>4 DEF Inv, TypeOK
<1>6. TypeOK'
  BY <1>1, <1>5 DEF Inv, TypeOK
<1>7. StatesReached' /\ SharedOnlyIfSharing' /\ BusyWhileCounting' /\ AssertsHold'
  BY <1>1, <1>2
  DEF Inv, StatesReached, SharedOnlyIfSharing, BusyWhileCounting, AssertsHold
<1>8. OnBus(p, l) /\ ~InSlot(p, l)
  BY <1>1 DEF OnBus, Inv, WaitersHaveOneRequest
<1>9. WaitersHaveOneRequest'
  <2>1. \A q \in Proc, k \in Line : ~OnBus(q, k)'
    BY <1>1 DEF OnBus
  <2>2. \A q \in Proc, k \in Line : InSlot(q, k)' <=> InSlot(q, k)
    BY <1>1 DEF InSlot
  <2>3. \A k \in Line : ~InSlot(p, k)
    BY <1>1, <1>8, NoneAssumption DEF Inv, WaitersHaveOneRequest
  <2>4. \A q \in Proc, k \in Line : OnBus(q, k) => q = p
    BY DEF OnBus
  <2> QED BY <1>1, <1>2, <1>3, <2>1, <2>2, <2>3, <2>4, NoneAssumption
          DEF Inv, WaitersHaveOneRequest
<1>10. RequestsFit'
  <2>1. \A q \in Proc : queued[q] # None =>
          state'[q][queued[q].addr] = state[q][queued[q].addr]
    BY <1>2, <1>8, InvFacts DEF InSlot, QueuedSet
  <2> QED BY <1>1, <2>1 DEF Inv, RequestsFit
<1>11. OneOwner'
  BY <1>1, <1>2 DEF Inv, OneOwner, AnswerExcludes
<1>12. AnswerExcludes'
  BY <1>1 DEF AnswerExcludes
<1> QED BY <1>6, <1>7, <1>9, <1>10, <1>11, <1>12 DEF Inv

-----------------------------------------------------------------------------
LEMMA NextInv == Inv /\ [Next]_vars => Inv'
<1> SUFFICES ASSUME Inv, [Next]_vars
             PROVE  Inv'
  OBVIOUS
<1>1. ASSUME NEW a \in Accesses, MemoryRequest(a[1], a[2], a[3])
      PROVE  Inv'
  <2>1. a[1] \in Proc /\ a[2] \in BOOLEAN /\ a[3] \in Line
    BY AccessAssumption
  <2> QED BY <1>1, <2>1, HitInv, MissInv
<1>2. CASE TickCount \/ TickIdle
  BY <1>2, CountInv
<1>3. CASE TickBroadcast
  BY <1>3, BroadcastInv
<1>4. CASE TickAnswer
  BY <1>4, AnswerInv
<1>5. CASE TickGrant
  BY <1>5, GrantInv
<1>6. CASE UNCHANGED vars
  <2> USE <1>6 DEF vars, busVars, cacheVars
  <2>1. TypeOK' /\ StatesReached' /\ SharedOnlyIfSharing' /\ BusyWhileCounting'
    BY DEF Inv, TypeOK, StatesReached, SharedOnlyIfSharing, BusyWhileCounting
  <2>2. WaitersHaveOneRequest' /\ RequestsFit' /\ OneOwner' /\ AnswerExcludes' /\ AssertsHold'
    BY DEF Inv, WaitersHaveOneRequest, OnBus, InSlot, RequestsFit, OneOwner, AnswerExcludes,
           AssertsHold
  <2> QED BY <2>1, <2>2 DEF Inv
<1> QED BY <1>1, <1>2, <1>3, <1>4, <1>5, <1>6 DEF Next, Aborted

(* In every state of every execution the inductive invariant holds.        *)
THEOREM InvHolds == Spec => []Inv
BY InitInv, NextInv, PTL DEF Spec

(* The state stays within its types: permReq, busReq and tick.             *)
THEOREM TypeCorrect == Spec => []TypeOK
<1>1. Inv => TypeOK
  BY DEF Inv
<1> QED BY <1>1, InvHolds, PTL

(* No two caches own a line, however many processors there are and         *)
(* whatever scheme is chosen.                                              *)
THEOREM OneOwnerHolds == Spec => []OneOwner
<1>1. Inv => OneOwner
  BY DEF Inv
<1> QED BY <1>1, InvHolds, PTL

(* Waiting lines and requests on the bus or in a slot match one to one.    *)
THEOREM WaitersMatchRequests == Spec => []WaitersHaveOneRequest
<1>1. Inv => WaitersHaveOneRequest
  BY DEF Inv
<1> QED BY <1>1, InvHolds, PTL

(* In MI, MSI and MESI no assert of the bus or the cache fails.            *)
THEOREM NoAssertFails == Spec => []AssertsHold
<1>1. Inv => AssertsHold
  BY DEF Inv
<1> QED BY <1>1, InvHolds, PTL

(* The countdown of the bus runs exactly while a request owns it.          *)
THEOREM BusyCounts == Spec => []BusyWhileCounting
<1>1. Inv => BusyWhileCounting
  BY DEF Inv
<1> QED BY <1>1, InvHolds, PTL

-----------------------------------------------------------------------------
(* The queue of the bus is served in turn.                                 *)
TurnAdvances ==
  \A p, q \in Proc :
    (/\ queued[p] # None /\ queued'[p] = None
     /\ queued[q] # None /\ queued'[q] # None)
      => Distance(q)' < Distance(q)

LEMMA GrantAdvances ==
  ASSUME Inv, TickGrant, NEW q \in Proc, queued[q] # None, queued'[q] # None
  PROVE  Distance(q)' < Distance(q)
<1>1. PICK p \in Proc :
        /\ IsNext(p)
        /\ queued' = [queued EXCEPT ![p] = None]
        /\ lastProc' = (p + 1) % N
  BY DEF TickGrant
<1>2. p # q
  BY <1>1 DEF Inv, TypeOK
<1>3. lastProc \in Proc /\ lastProc' \in Proc
  BY <1>1, TurnInRange DEF Inv, TypeOK, Proc
<1>4. Distance(p) <= Distance(q)
  BY <1>1 DEF IsNext
<1>5. /\ Distance(p) = IF p >= lastProc THEN p - lastProc ELSE p + N - lastProc
      /\ Distance(q) = IF q >= lastProc THEN q - lastProc ELSE q + N - lastProc
  BY <1>3, DistanceIs DEF Distance
<1>6. Distance(q)' = IF q >= lastProc' THEN q - lastProc' ELSE q + N - lastProc'
  BY <1>3, DistanceIs DEF Distance
<1>7. lastProc' = IF p + 1 = N THEN 0 ELSE p + 1
  BY <1>1, NextTurnIs
<1>8. N \in Nat /\ p \in Nat /\ q \in Nat /\ lastProc \in Nat /\ p < N /\ q < N /\ lastProc < N
  BY <1>3, CountAssumption DEF Proc
<1> HIDE DEF Distance
<1> QED BY <1>2, <1>4, <1>5, <1>6, <1>7, <1>8

LEMMA OthersKeepTheirSlot ==
  ASSUME Inv, [Next]_vars, ~TickGrant, NEW p \in Proc, queued[p] # None
  PROVE  queued'[p] # None
<1>1. ASSUME NEW a \in Accesses, MemoryRequest(a[1], a[2], a[3])
      PROVE  queued'[p] # None
  <2>1. CASE UNCHANGED queued
    BY <2>1
  <2>2. CASE \E brt \in cacheAction(cs, a[2], state[a[1]][a[3]]).sends :
               queued' = [queued EXCEPT ![a[1]] = [brt |-> brt, addr |-> a[3]]]
    <3>1. a[1] \in Proc /\ a[2] \in BOOLEAN /\ a[3] \in Line
      BY AccessAssumption
    <3>2. pendReq[a[1]] = None
      BY <1>1 DEF MemoryRequest, Stalled
    <3>3. queued[a[1]] = None
      BY <3>1, <3>2, NoneAssumption, InvFacts DEF Inv, WaitersHaveOneRequest, InSlot, QueuedSet
    <3> QED BY <2>2, <3>3 DEF Inv, TypeOK
  <2> QED BY <1>1, <2>1, <2>2 DEF MemoryRequest, BusReq
<1>2. CASE TickCount \/ TickIdle \/ TickBroadcast \/ TickAnswer \/ Aborted \/ UNCHANGED vars
  BY <1>2 DEF TickCount, TickIdle, TickBroadcast, TickAnswer, Aborted, vars, busVars
<1> QED BY <1>1, <1>2 DEF Next

(* A processor that waits while another is served moves closer to its      *)
(* turn: arbitration among the queued requests is round robin.             *)
THEOREM ServedInTurn == Spec => RoundRobin
<1>1. Inv /\ [Next]_vars => TurnAdvances
  BY GrantAdvances, OthersKeepTheirSlot DEF TurnAdvances
<1>2. Spec => [][TurnAdvances]_vars
  BY <1>1, InvHolds, PTL DEF Spec
<1> QED BY <1>2 DEF RoundRobin, TurnAdvances

-----------------------------------------------------------------------------
(* MI and MSI hand out permissions as ReadersWriters does.                 *)
LEMMA GrantedIs ==
  ASSUME NEW l \in Line, NEW p \in Proc
  PROVE  Granted[l][p] = IF cs \in Coherent THEN Permission(state[p][l]) ELSE "none"
BY DEF Granted

LEMMA InitGranted == Init => RW!Init
BY DEF Init, RW!Init, Granted, Permission

(* A step that changes one permission, or takes permissions for one line.  *)
LEMMA GrantedRevoke ==
  ASSUME NEW l \in Line, NEW S \in SUBSET Proc,
         \A k \in Line, q \in Proc :
           Granted'[k][q] = IF k = l /\ q \in S THEN "none" ELSE Granted[k][q]
  PROVE  RW!Revoke(l, S)
<1>1. /\ Granted' = [k \in Line |-> [q \in Proc |-> Granted'[k][q]]]
      /\ Granted = [k \in Line |-> [q \in Proc |-> Granted[k][q]]]
  BY DEF Granted
<1> HIDE DEF Granted
<1>2. Granted' = [k \in Line |-> IF k = l
                    THEN [q \in Proc |-> IF q \in S THEN "none" ELSE Granted[l][q]]
                    ELSE Granted[k]]
  BY <1>1
<1>3. [Granted EXCEPT ![l] = [q \in Proc |-> IF q \in S THEN "none" ELSE Granted[l][q]]]
        = [k \in Line |-> IF k = l
                    THEN [q \in Proc |-> IF q \in S THEN "none" ELSE Granted[l][q]]
                    ELSE Granted[k]]
  BY <1>1
<1> QED BY <1>2, <1>3 DEF RW!Revoke

LEMMA GrantedAcquire ==
  ASSUME NEW l \in Line, NEW p \in Proc, NEW m \in {"read", "write"},
         \A q \in Proc \ {p} : RW!Compatible(m, Granted[l][q]),
         \A k \in Line, q \in Proc :
           Granted'[k][q] = IF k = l /\ q = p THEN m ELSE Granted[k][q]
  PROVE  RW!Acquire(l, p, m)
<1>1. /\ Granted' = [k \in Line |-> [q \in Proc |-> Granted'[k][q]]]
      /\ Granted = [k \in Line |-> [q \in Proc |-> Granted[k][q]]]
  BY DEF Granted
<1> HIDE DEF Granted
<1>2. Granted' = [Granted EXCEPT ![l][p] = m]
  BY <1>1
<1> QED BY <1>2 DEF RW!Acquire

LEMMA SameGranted ==
  ASSUME \A k \in Line, q \in Proc : Granted'[k][q] = Granted[k][q]
  PROVE  Granted' = Granted
<1>1. /\ Granted' = [k \in Line |-> [q \in Proc |-> Granted'[k][q]]]
      /\ Granted = [k \in Line |-> [q \in Proc |-> Granted[k][q]]]
  BY DEF Granted
<1> HIDE DEF Granted
<1> QED BY <1>1

LEMMA GrantedNextIs ==
  ASSUME cs' = cs, NEW l \in Line, NEW p \in Proc
  PROVE  Granted'[l][p] = IF cs \in Coherent THEN Permission(state'[p][l]) ELSE "none"
BY DEF Granted

(* A miss gives up what the line permitted before, an upgrade included.    *)
LEMMA RequestGranted ==
  ASSUME Inv, NEW p \in Proc, NEW isRead \in BOOLEAN, NEW l \in Line,
         MemoryRequest(p, isRead, l)
  PROVE  RW!Next \/ Granted' = Granted
<1> DEFINE r == cacheAction(cs, isRead, state[p][l])
<1>1. state[p][l] \in StatesOf(cs) /\ cs \in Scheme
  BY InvFacts DEF Inv, StatesReached
<1>2. state[p][l] \notin Waiting
  BY NoneAssumption DEF MemoryRequest, Stalled, Inv, WaitersHaveOneRequest
<1>3. cs \in Coherent => r.next = state[p][l] \/ r.next \in Waiting
  BY <1>1, <1>2, CacheTable
<1>4. cs' = cs /\ state' = [state EXCEPT ![p][l] = r.next]
  BY DEF MemoryRequest
<1> HIDE DEF r
<1>5. \A q \in Proc, k \in Line :
        state'[q][k] = IF q = p /\ k = l THEN r.next ELSE state[q][k]
  BY <1>4 DEF Inv, TypeOK
<1>6. CASE cs \in Coherent /\ r.next \in Waiting
  <2>1. Permission(r.next) = "none"
    BY <1>6 DEF Permission, Waiting, Upgrade
  <2>2. \A k \in Line, q \in Proc :
          Granted'[k][q] = IF k = l /\ q \in {p} THEN "none" ELSE Granted[k][q]
    BY <1>4, <1>5, <2>1, GrantedIs, GrantedNextIs
  <2>3. RW!Revoke(l, {p})
    BY <2>2, GrantedRevoke
  <2> QED BY <2>3 DEF RW!Next
<1>7. CASE ~(cs \in Coherent /\ r.next \in Waiting)
  <2>1. \A k \in Line, q \in Proc : Granted'[k][q] = Granted[k][q]
    BY <1>3, <1>4, <1>5, <1>7, GrantedIs, GrantedNextIs
  <2> QED BY <2>1, SameGranted
<1> QED BY <1>6, <1>7

LEMMA BroadcastGranted ==
  ASSUME Inv, TickBroadcast
  PROVE  RW!Next \/ Granted' = Granted
<1> DEFINE l == pending.addr
           S == {q \in Proc \ {pending.proc} : Permission(Snoop(q).next) = "none"}
<1>1. l \in Line /\ cs' = cs
  BY BroadcastFacts DEF BusReqSet
<1>2. CASE cs \in Coherent
  <2>1. \A k \in Line, q \in Proc :
          Granted'[k][q] = IF k = l /\ q \in S THEN "none" ELSE Granted[k][q]
    BY <1>1, <1>2, BroadcastFacts, BroadcastSnoops, GrantedIs, GrantedNextIs
  <2> HIDE DEF l, S
  <2>2. S \in SUBSET Proc
    BY DEF S
  <2>3. RW!Revoke(l, S)
    BY <1>1, <2>1, <2>2, GrantedRevoke
  <2> QED BY <1>1, <2>2, <2>3 DEF RW!Next
<1>3. CASE cs \notin Coherent
  <2>1. \A k \in Line, q \in Proc : Granted'[k][q] = Granted[k][q]
    BY <1>1, <1>3, GrantedIs, GrantedNextIs
  <2> QED BY <2>1, SameGranted
<1> QED BY <1>2, <1>3

LEMMA AnswerGranted ==
  ASSUME Inv, TickAnswer
  PROVE  RW!Next \/ Granted' = Granted
<1> DEFINE p == pending.proc
           l == pending.addr
           s == state'[p][l]
           m == IF state[p][l] \in Upgrade THEN "write" ELSE "read"
<1>1. /\ p \in Proc /\ l \in Line /\ cs' = cs /\ pending # None
      /\ pending.at # "WAITING_CACHE"
      /\ state' = [state EXCEPT ![p][l] = s]
      /\ cs \in Coherent => Permission(s) = m
  BY AnswerFacts
<1> HIDE DEF s
<1>2. \A q \in Proc, k \in Line :
        state'[q][k] = IF q = p /\ k = l THEN s ELSE state[q][k]
  BY <1>1 DEF Inv, TypeOK
<1>3. CASE cs \in Coherent
  <2>1. \A q \in Proc \ {p} : ~Owner(state[q][l]) /\ (m = "write" => Permission(state[q][l]) = "none")
    BY <1>1, <1>3 DEF Inv, AnswerExcludes
  <2>2. \A q \in Proc \ {p} : RW!Compatible(m, Granted[l][q])
    BY <1>1, <1>3, <2>1, GrantedIs DEF RW!Compatible, Permission, Owner
  <2>3. \A k \in Line, q \in Proc :
          Granted'[k][q] = IF k = l /\ q = p THEN m ELSE Granted[k][q]
    BY <1>1, <1>2, <1>3, GrantedIs, GrantedNextIs
  <2>4. m \in {"read", "write"}
    OBVIOUS
  <2> HIDE DEF l, p, m
  <2>5. RW!Acquire(l, p, m)
    BY <1>1, <2>2, <2>3, <2>4, GrantedAcquire
  <2> QED BY <1>1, <2>4, <2>5 DEF RW!Next
<1>4. CASE cs \notin Coherent
  <2>1. \A k \in Line, q \in Proc : Granted'[k][q] = Granted[k][q]
    BY <1>1, <1>4, GrantedIs, GrantedNextIs
  <2> QED BY <2>1, SameGranted
<1> QED BY <1>3, <1>4

LEMMA StepGranted == Inv /\ [Next]_vars => [RW!Next]_Granted
<1> SUFFICES ASSUME Inv, [Next]_vars
             PROVE  RW!Next \/ Granted' = Granted
  OBVIOUS
<1>1. ASSUME NEW a \in Accesses, MemoryRequest(a[1], a[2], a[3])
      PROVE  RW!Next \/ Granted' = Granted
  <2>1. a[1] \in Proc /\ a[2] \in BOOLEAN /\ a[3] \in Line
    BY AccessAssumption
  <2> QED BY <1>1, <2>1, RequestGranted
<1>2. CASE UNCHANGED <<cs, state>>
  BY <1>2 DEF Granted
<1>3. CASE TickBroadcast \/ TickAnswer
  BY <1>3, BroadcastGranted, AnswerGranted
<1>4. CASE TickCount \/ TickGrant \/ TickIdle \/ Aborted \/ UNCHANGED vars
  <2>1. UNCHANGED <<cs, state>>
    BY <1>4 DEF TickCount, TickGrant, TickIdle, Aborted, vars
  <2> QED BY <1>2, <2>1
<1> QED BY <1>1, <1>3, <1>4 DEF Next

(* In MI and MSI the caches keep readers and writers of a line apart, for  *)
(* any number of processors: every step of permReq, of a broadcast and of  *)
(* an answer is a step of ReadersWriters or changes no permission.         *)
THEOREM KeepsReadersAndWritersApart == Spec => ImplementsReadersWriters
<1>1. Spec => [][RW!Next]_Granted
  BY StepGranted, InvHolds, PTL DEF Spec
<1>2. Spec => RW!Init
  BY InitGranted DEF Spec
<1> QED BY <1>1, <1>2 DEF ImplementsReadersWriters, RW!Spec
=============================================================================

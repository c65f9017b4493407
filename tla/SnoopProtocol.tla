--------------------------- MODULE SnoopProtocol ----------------------------
(***************************************************************************)
(* The snooping protocols of coherence_impl_final/protocol.c as tables.    *)
(* For each scheme, cache... says what an access of the own processor does *)
(* to a line and snoop... what a request seen on the bus does.  In the     *)
(* MODIFIED state the code assigns BUSWR to reqType instead of comparing:  *)
(* every request takes that branch, and the ones after it are dead.  The   *)
(* branches for evictions (is_read & 0x2) are dead too, as callers pass a  *)
(* truth value.                                                            *)
(***************************************************************************)
EXTENDS Naturals

Scheme  == {"MI", "MSI", "MESI", "MOESI", "MESIF"}
Request == {"BUSRD", "BUSWR"}
Reply   == {"DATA", "SHARED"}

Stable  == {"INVALID", "MODIFIED", "SHARED_STATE", "EXCLUSIVE", "OWNED", "FORWARD"}
Upgrade == {"INVALID_MODIFIED", "SHARED_MODIFIED", "OWNED_MODIFIED", "FORWARD_MODIFIED"}
Waiting == Upgrade \cup {"INVALID_SHARED"}
State   == Stable \cup Waiting

(* What a cache... returns: whether permission is there, the request put   *)
(* on the bus, if any, and the next state.                                 *)
Grant(s)        == [perm |-> TRUE, sends |-> {}, next |-> s]
Wait(s)         == [perm |-> FALSE, sends |-> {}, next |-> s]
Ask(request, s) == [perm |-> FALSE, sends |-> {request}, next |-> s]

Miss(isRead) == IF isRead THEN Ask("BUSRD", "INVALID_SHARED")
                          ELSE Ask("BUSWR", "INVALID_MODIFIED")

Upgrading(isRead, s, upgrade) == IF isRead THEN Grant(s) ELSE Ask("BUSWR", upgrade)

(* What a snoop... returns: the replies put on the bus, whether the cache  *)
(* is called back (DATA_RECV), and the next state.                         *)
Keep(s)         == [sends |-> {}, received |-> FALSE, next |-> s]
Reacts(sent, s) == [sends |-> sent, received |-> FALSE, next |-> s]
Receive(s)      == [sends |-> {}, received |-> TRUE, next |-> s]

(* Mutants: a queued upgrade is dropped when another write comes first; a  *)
(* write waits for a shared answer.                                        *)
CompletesOrDrops(request, s) ==
  IF request \in Reply THEN Receive("MODIFIED")
  ELSE IF request = "BUSWR" /\ s = "SHARED_MODIFIED" THEN Keep("INVALID")
  ELSE Keep(s)

CompletesWhenShared(request, s) == IF request = "SHARED" THEN Receive("MODIFIED") ELSE Keep(s)

(* A write miss or an upgrade is over when data comes, from anywhere.      *)
Completes(request, s) == IF request \in Reply THEN Receive("MODIFIED") ELSE Keep(s)

ReadCompletes(request, s) == IF request \in Reply THEN Receive("SHARED_STATE") ELSE Keep(s)

(* Mutants: the copy stays; the copy answers as a modified line does.      *)
LosesToNothing(request, s, sent) == Keep(s)

LosesAndSupplies(request, s, sent) ==
  IF request = "BUSWR" THEN Reacts({"DATA"}, "INVALID") ELSE Keep(s)

(* A copy that only a write takes away; sent is what goes to the writer.   *)
LosesToWrite(request, s, sent) ==
  IF request = "BUSWR" THEN Reacts(sent, "INVALID") ELSE Keep(s)

-----------------------------------------------------------------------------
cacheMI(isRead, s) ==
  IF s = "INVALID"               THEN Ask("BUSWR", "INVALID_MODIFIED")
  ELSE IF s = "MODIFIED"         THEN Grant(s)
  ELSE IF s = "INVALID_MODIFIED" THEN Wait(s)
  ELSE Wait("INVALID")

snoopMI(request, s) ==
  IF s = "MODIFIED"              THEN Reacts({"DATA"}, "INVALID")
  ELSE IF s = "INVALID_MODIFIED" THEN Completes(request, s)
  ELSE Keep("INVALID")

cacheMSI(isRead, s) ==
  IF s = "INVALID"               THEN Miss(isRead)
  ELSE IF s = "MODIFIED"         THEN Grant(s)
  ELSE IF s = "SHARED_STATE"     THEN Upgrading(isRead, s, "SHARED_MODIFIED")
  ELSE IF s \in {"INVALID_MODIFIED", "INVALID_SHARED", "SHARED_MODIFIED"} THEN Wait(s)
  ELSE Wait("INVALID")

snoopMSI(request, s) ==
  IF s = "MODIFIED"              THEN Reacts({"DATA"}, "INVALID")
  ELSE IF s = "SHARED_STATE"     THEN LosesToWrite(request, s, {})
  ELSE IF s \in {"INVALID_MODIFIED", "SHARED_MODIFIED"} THEN Completes(request, s)
  ELSE IF s = "INVALID_SHARED"   THEN ReadCompletes(request, s)
  ELSE Keep("INVALID")

-----------------------------------------------------------------------------
cacheMESI(isRead, s) ==
  IF s = "INVALID"               THEN Miss(isRead)
  ELSE IF s = "MODIFIED"         THEN Grant(s)
  ELSE IF s = "SHARED_STATE"     THEN Upgrading(isRead, s, "SHARED_MODIFIED")
  ELSE IF s = "EXCLUSIVE"        THEN Grant(IF isRead THEN s ELSE "MODIFIED")
  ELSE IF s \in {"INVALID_MODIFIED", "INVALID_SHARED", "SHARED_MODIFIED"} THEN Wait(s)
  ELSE Wait("INVALID")

(* A read miss takes the line exclusively unless somebody says SHARED.     *)
SharedOrExclusive(request, s, shared) ==
  IF request = "DATA" THEN Receive("EXCLUSIVE")
  ELSE IF request = "SHARED" THEN shared ELSE Keep(s)

(* It then says SHARED in turn, to its own request.                        *)
ReceiveShared == [sends |-> {"SHARED"}, received |-> TRUE, next |-> "SHARED_STATE"]

(* An exclusive copy is lost to a write and shared with any other request. *)
GivesUp(request, toWriter, toReader) ==
  IF request = "BUSWR" THEN Reacts(toWriter, "INVALID") ELSE Reacts(toReader, "SHARED_STATE")

snoopMESI(request, s) ==
  IF s = "MODIFIED"              THEN Reacts({"DATA"}, "INVALID")
  ELSE IF s = "SHARED_STATE"     THEN LosesToWrite(request, s, {})
  ELSE IF s = "EXCLUSIVE"        THEN GivesUp(request, {}, {"SHARED"})
  ELSE IF s \in {"INVALID_MODIFIED", "SHARED_MODIFIED"} THEN Completes(request, s)
  ELSE IF s = "INVALID_SHARED"   THEN SharedOrExclusive(request, s, ReceiveShared)
  ELSE Keep("INVALID")

cacheMOESI(isRead, s) ==
  IF s = "INVALID"               THEN Miss(isRead)
  ELSE IF s = "MODIFIED"         THEN Grant(s)
  ELSE IF s = "SHARED_STATE"     THEN Upgrading(isRead, s, "SHARED_MODIFIED")
  ELSE IF s = "EXCLUSIVE"        THEN Grant(IF isRead THEN s ELSE "MODIFIED")
  ELSE IF s = "OWNED"            THEN Upgrading(isRead, s, "OWNED_MODIFIED")
  ELSE IF s \in {"INVALID_MODIFIED", "INVALID_SHARED", "SHARED_MODIFIED"} THEN Wait(s)
  ELSE Wait("INVALID")

snoopMOESI(request, s) ==
  IF s = "MODIFIED"              THEN Reacts({"DATA"}, "INVALID")
  ELSE IF s = "SHARED_STATE"     THEN LosesToWrite(request, s, {"DATA"})
  ELSE IF s = "EXCLUSIVE"        THEN GivesUp(request, {"DATA"}, {"DATA", "SHARED"})
  ELSE IF s = "OWNED"            THEN Reacts({"DATA"}, IF request = "BUSRD" THEN s ELSE "INVALID")
  ELSE IF s \in {"INVALID_MODIFIED", "SHARED_MODIFIED", "OWNED_MODIFIED"} THEN Completes(request, s)
  ELSE IF s = "INVALID_SHARED"   THEN SharedOrExclusive(request, s, ReceiveShared)
  ELSE Keep("INVALID")

(* A copy that a read makes shared; sent is what goes to the reader.       *)
SharesWith(request, s, sent) ==
  IF request = "BUSRD" THEN Reacts(sent, "SHARED_STATE")
                       ELSE LosesToWrite(request, s, {"DATA"})

(* A write to a FORWARD line is permitted and goes to the bus as well.     *)
UpgradingForward(isRead) ==
  IF isRead THEN Grant("FORWARD")
            ELSE [perm |-> TRUE, sends |-> {"BUSWR"}, next |-> "FORWARD_MODIFIED"]

cacheMESIF(isRead, s) ==
  IF s = "INVALID"               THEN Miss(isRead)
  ELSE IF s = "MODIFIED"         THEN Grant(s)
  ELSE IF s = "SHARED_STATE"     THEN Upgrading(isRead, s, "SHARED_MODIFIED")
  ELSE IF s = "EXCLUSIVE"        THEN Grant(IF isRead THEN s ELSE "MODIFIED")
  ELSE IF s = "FORWARD"          THEN UpgradingForward(isRead)
  ELSE IF s \in {"INVALID_MODIFIED", "INVALID_SHARED", "SHARED_MODIFIED"} THEN Wait(s)
  ELSE Wait("INVALID")

snoopMESIF(request, s) ==
  IF s = "MODIFIED"              THEN Reacts({"DATA"}, "INVALID")
  ELSE IF s = "SHARED_STATE"     THEN LosesToWrite(request, s, {"DATA"})
  ELSE IF s = "EXCLUSIVE"        THEN SharesWith(request, s, {})
  ELSE IF s = "FORWARD"          THEN SharesWith(request, s, {"DATA"})
  ELSE IF s \in {"INVALID_MODIFIED", "SHARED_MODIFIED", "FORWARD_MODIFIED"} THEN Completes(request, s)
  ELSE IF s = "INVALID_SHARED"   THEN SharedOrExclusive(request, s, Receive("FORWARD"))
  ELSE Keep("INVALID")

-----------------------------------------------------------------------------
(* The switch on the scheme in permReq and busReq of coherence.c.          *)
cacheAction(cs, isRead, s) ==
  IF cs = "MI" THEN cacheMI(isRead, s)
  ELSE IF cs = "MSI" THEN cacheMSI(isRead, s)
  ELSE IF cs = "MESI" THEN cacheMESI(isRead, s)
  ELSE IF cs = "MOESI" THEN cacheMOESI(isRead, s)
  ELSE cacheMESIF(isRead, s)

snoopAction(cs, request, s) ==
  IF cs = "MI" THEN snoopMI(request, s)
  ELSE IF cs = "MSI" THEN snoopMSI(request, s)
  ELSE IF cs = "MESI" THEN snoopMESI(request, s)
  ELSE IF cs = "MOESI" THEN snoopMOESI(request, s)
  ELSE snoopMESIF(request, s)

=============================================================================

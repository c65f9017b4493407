--------------------------- MODULE CoherenceNodes ---------------------------
(***************************************************************************)
(* The nodes of the directory-coherent machine: on every node an in-order  *)
(* processor (processor/processor.c), the request lists of its cache       *)
(* (simpleCache/cache.c), its coherence controller (d_coherence/) and its  *)
(* slice of the directory (directory/directory.c).                         *)
(*                                                                         *)
(* The module says what a node does with a memory operation, with a        *)
(* message and at the end of a cache tick, and WHICH messages it hands to  *)
(* the interconnect; how those travel is left to the modules that extend   *)
(* this one.  Every handler therefore comes as a pair: an action over the  *)
(* node's variables and an operator, <Handler>Sends, that evaluates to the *)
(* sequence of messages the same handler passes to inter_sim->busReq.      *)
(***************************************************************************)
EXTENDS Naturals, Integers, Sequences, FiniteSets

CONSTANTS
  Proc,      \* processor numbers, 0 .. processorCount-1
  Line,      \* block addresses
  Home,      \* Home[l]: what findHomeProcessor answers for block l
  ScanLimit, \* the bound 4 of directory.c's loops over directory[]
  TagLimit   \* bound: the tags memOpTag counts wrap at TagLimit

ASSUME ProcAssumption == Proc \subseteq Nat /\ IsFiniteSet(Proc)
ASSUME HomeAssumption == Home \in [Line -> Proc]
ASSUME TagAssumption  == TagLimit \in Nat \ {0}
ASSUME ScanAssumption == ScanLimit \in Nat

VARIABLES
  cacheState,  \* coherStates[p]: the state of every block in p's cache
  dirState,    \* directoryStates[h]: the state field of h's entry for a block
  sharers,     \* the set of i with directory[i] = 1 in that entry
  pendReq,     \* cache.c's pendReq list: requests waiting for coherCallback
  readyReq,    \* cache.c's readyReq list: requests called back at this tick
  pendingMem,  \* processor.c's pendingMem[p]
  memOpTag     \* processor.c's memOpTag[p]

nodeVars == <<cacheState, dirState, sharers, pendReq, readyReq, pendingMem, memOpTag>>

-----------------------------------------------------------------------------
(* coherence_states: those the directory protocol uses.                    *)
Stable    == {"INVALID", "SHARED_STATE", "MODIFIED"}
Transient == {"INVALID_SHARED", "INVALID_MODIFIED", "SHARED_MODIFIED"}
CacheState == Stable \cup Transient

DirState == {"D_INVALID", "D_SHARED", "D_EXCLUSIVE"}

(* bus_req_type, and the packet fields a handler reads.                    *)
ReqType == {"BUSRD", "BUSWR", "DATA", "FETCH", "IC_INVALIDATE"}
Message == [brt : ReqType, line : Line, reply : Proc]
Msg(t, l, r) == [brt |-> t, line |-> l, reply |-> r]

(* A message on its way out: the arguments of one busReq call.             *)
Out(d, m) == [dest |-> d, msg |-> m]

Request == [proc : Proc, line : Line, tag : 0 .. TagLimit - 1]

-----------------------------------------------------------------------------
(* cacheDirectory: what the coherence controller of p answers the cache    *)
(* that asks for block l in state c.  "sent" is the message that           *)
(* sendRd/sendWr put on the interconnect, "NO_REQ" for none.               *)
Grant(next)       == [next |-> next, perm |-> TRUE,  sent |-> "NO_REQ"]
Await(next, sent) == [next |-> next, perm |-> FALSE, sent |-> sent]

CacheDirectory(isRead, c, atHome) ==
  CASE c = "INVALID" /\ atHome -> Grant(IF isRead THEN "SHARED_STATE" ELSE "MODIFIED")
    [] c = "INVALID" /\ ~atHome ->
         IF isRead THEN Await("INVALID_SHARED", "BUSRD") ELSE Await("INVALID_MODIFIED", "BUSWR")
    [] c = "SHARED_STATE" /\ ~isRead ->
         IF atHome THEN Grant("MODIFIED") ELSE Await("SHARED_MODIFIED", "BUSWR")
    [] c = "MODIFIED" \/ (c = "SHARED_STATE" /\ isRead) -> Grant(c)
    [] c \in Transient -> Await(c, "NO_REQ")

(* processCache.  Its tests of a MODIFIED or SHARED_STATE block assign     *)
(* (reqType = FETCH) where they mean to compare: any message takes the     *)
(* FETCH branch there.                                                     *)
Fills(c, t) == c \in Transient /\ t = "DATA"

(* Mutant: a block that is held keeps stray data to itself.                *)
SendsDataUnlessData(c, t) ==
  c \in Stable /\ t # "DATA" /\ (c = "INVALID" => t = "FETCH")

SendsDataBack(c, t) == c \in {"MODIFIED", "SHARED_STATE"} \/ (c = "INVALID" /\ t = "FETCH")

(* Mutants: an invalidation that takes effect; a fetch that leaves the     *)
(* block owned, a state of other protocols.                                *)
ProcessCacheInvalidates(c, t) ==
  CASE t = "IC_INVALIDATE" /\ c \in Stable -> "INVALID"
    [] t # "IC_INVALIDATE" /\ c = "MODIFIED" -> "SHARED_STATE"
    [] c = "INVALID_SHARED" /\ Fills(c, t) -> "SHARED_STATE"
    [] c \in {"INVALID_MODIFIED", "SHARED_MODIFIED"} /\ Fills(c, t) -> "MODIFIED"
    [] OTHER -> c
ProcessCacheOwns(c, t) == IF c = "MODIFIED" THEN "OWNED" ELSE ProcessCacheInvalidates(c, t)

ProcessCache(c, t) ==
  CASE c = "MODIFIED" -> "SHARED_STATE"
    [] c = "INVALID_SHARED" /\ Fills(c, t) -> "SHARED_STATE"
    [] c \in {"INVALID_MODIFIED", "SHARED_MODIFIED"} /\ Fills(c, t) -> "MODIFIED"
    [] OTHER -> c

-----------------------------------------------------------------------------
(* The initial state: empty trees, empty lists, nothing outstanding.       *)
NodesInit ==
  /\ cacheState = [p \in Proc |-> [l \in Line |-> "INVALID"]]
  /\ dirState   = [h \in Proc |-> [l \in Line |-> "D_INVALID"]]
  /\ sharers    = [h \in Proc |-> [l \in Line |-> {}]]
  /\ pendReq    = {}
  /\ readyReq   = {}
  /\ pendingMem = [p \in Proc |-> FALSE]
  /\ memOpTag   = [p \in Proc |-> 0]

(* processor.c's tick, a MEM_LOAD or MEM_STORE of p: memoryRequest masks   *)
(* the address to its block, asks permReq and files the request with the   *)
(* answer.                                                                 *)
Answer(p, isRead, l) == CacheDirectory(isRead, cacheState[p][l], Home[l] = p)

MemoryRequest(p, isRead, l) ==
  LET a  == Answer(p, isRead, l)
      pr == [proc |-> p, line |-> l, tag |-> memOpTag[p]]
  IN  /\ ~pendingMem[p]
      /\ pendingMem' = [pendingMem EXCEPT ![p] = TRUE]
      /\ cacheState' = [cacheState EXCEPT ![p][l] = a.next]
      /\ pendReq'  = IF a.perm THEN pendReq ELSE pendReq \cup {pr}
      /\ readyReq' = IF a.perm THEN readyReq \cup {pr} ELSE readyReq
      /\ UNCHANGED <<dirState, sharers, memOpTag>>

MemoryRequestSends(p, isRead, l) ==
  LET t == Answer(p, isRead, l).sent
  IN  IF t = "NO_REQ" THEN <<>> ELSE <<Out(Home[l], Msg(t, l, p))>>

(* Mutant: data without the callback.                                      *)
BusReqUncalled(p, m) ==
  /\ cacheState' = [cacheState EXCEPT ![p][m.line] = ProcessCache(@, m.brt)]
  /\ UNCHANGED <<pendReq, readyReq, dirState, sharers, pendingMem, memOpTag>>

(* coherCallback: p's request for block l, if one is found, becomes ready. *)
CoherCallback(p, l) ==
  LET called == {e \in pendReq : e.proc = p /\ e.line = l}
  IN  \/ \E e \in called : pendReq' = pendReq \ {e} /\ readyReq' = readyReq \cup {e}
      \/ called = {} /\ UNCHANGED <<pendReq, readyReq>>

(* dcoherence.c's busReq: cache p takes message m; DATA_RECV calls back.   *)
BusReq(p, m) ==
  LET c == cacheState[p][m.line]
  IN  /\ cacheState' = [cacheState EXCEPT ![p][m.line] = ProcessCache(c, m.brt)]
      /\ \/ Fills(c, m.brt) /\ CoherCallback(p, m.line)
         \/ ~Fills(c, m.brt) /\ UNCHANGED <<pendReq, readyReq>>
      /\ UNCHANGED <<dirState, sharers, pendingMem, memOpTag>>

BusReqSends(p, m) ==
  IF SendsDataBack(cacheState[p][m.line], m.brt)
    THEN <<Out(m.reply, Msg("DATA", m.line, p))>>
    ELSE <<>>

-----------------------------------------------------------------------------
(* Mutant: the directory does not fetch from its own node.                 *)
RecordedElsewhere(h, l) == {i \in sharers[h][l] : i < ScanLimit /\ i # h}

(* directory(): which caches it fetches from and invalidates, and what it  *)
(* records.  The loops visit the processors below ScanLimit in order and   *)
(* fetch from the first one recorded; the only entry ever set is the one   *)
(* of procNum, the node the directory slice is on.                         *)
Recorded(h, l) == {i \in sharers[h][l] : i < ScanLimit}
First(S) == {i \in S : \A j \in S : i <= j}

Plan(brt, h, l) ==
  LET all   == Recorded(h, l)
      first == First(all)
      old   == sharers[h][l]
  IN  CASE dirState[h][l] = "D_INVALID" ->
             [fetch |-> {h}, invalidate |-> {}, sharers |-> old \cup {h},
              state |-> IF brt = "BUSRD" THEN "D_SHARED" ELSE "D_EXCLUSIVE"]
        [] dirState[h][l] # "D_INVALID" /\ brt = "BUSRD" ->
             [fetch |-> first, invalidate |-> {}, sharers |-> old \cup {h},
              state |-> "D_SHARED"]
        [] dirState[h][l] = "D_SHARED" /\ brt = "BUSWR" ->
             [fetch |-> first, invalidate |-> all, sharers |-> (old \ all) \cup {h},
              state |-> "D_EXCLUSIVE"]
        [] dirState[h][l] = "D_EXCLUSIVE" /\ brt = "BUSWR" ->
             [fetch |-> first, invalidate |-> first, sharers |-> (old \ first) \cup {h},
              state |-> "D_EXCLUSIVE"]

(* sendFetch/sendInvalidate: the home's own cache takes the message at     *)
(* once, by a call; the others get it over the interconnect.               *)
Applied(T, t, h, c) == IF h \in T THEN ProcessCache(c, t) ELSE c

InOrder(S) ==
  [i \in 1 .. Cardinality(S) |-> CHOOSE x \in S : Cardinality({y \in S : y < x}) = i - 1]

Dispatch(T, t, h, c, l, r) ==
  LET order == InOrder(IF SendsDataBack(c, t) THEN T ELSE T \ {h})
  IN  [i \in DOMAIN order |->
         IF order[i] = h THEN Out(r, Msg("DATA", l, h)) ELSE Out(order[i], Msg(t, l, r))]

(* directoryReq at node h: request m of processor m.reply.                 *)
DirectoryReq(h, m) ==
  LET plan    == Plan(m.brt, h, m.line)
      fetched == Applied(plan.fetch, "FETCH", h, cacheState[h][m.line])
  IN  /\ dirState' = [dirState EXCEPT ![h][m.line] = plan.state]
      /\ sharers'  = [sharers EXCEPT ![h][m.line] = plan.sharers]
      /\ cacheState' = [cacheState EXCEPT ![h][m.line] =
                          Applied(plan.invalidate, "IC_INVALIDATE", h, fetched)]
      /\ UNCHANGED <<pendReq, readyReq, pendingMem, memOpTag>>

DirectoryReqSends(h, m) ==
  LET plan    == Plan(m.brt, h, m.line)
      c       == cacheState[h][m.line]
      fetched == Applied(plan.fetch, "FETCH", h, c)
  IN  Dispatch(plan.fetch, "FETCH", h, c, m.line, m.reply)
        \o Dispatch(plan.invalidate, "IC_INVALIDATE", h, fetched, m.line, m.reply)

(* cacheReq: requests go to the node's directory, the rest to its cache.   *)
ForDirectory(m) == m.brt \in {"BUSRD", "BUSWR"}
CacheReq(d, m) == IF ForDirectory(m) THEN DirectoryReq(d, m) ELSE BusReq(d, m)
CacheReqSends(d, m) == IF ForDirectory(m) THEN DirectoryReqSends(d, m) ELSE BusReqSends(d, m)

(* Mutant: the list is emptied before it is walked.                        *)
RunNoCallbacks ==
  readyReq' = {} /\ UNCHANGED <<pendingMem, memOpTag, cacheState, dirState, sharers, pendReq>>

(* memOpCallback: the processors whose pending operation a callback        *)
(* completes are those whose current tag it carries.                       *)
MemOpsDone == {e.proc : e \in {x \in readyReq : x.tag = memOpTag[x.proc]}}

(* The end of cache.c's tick runs every ready callback.                    *)
RunCallbacks ==
  LET done == MemOpsDone
  IN  /\ readyReq' = {}
      /\ pendingMem' = [p \in Proc |-> pendingMem[p] /\ p \notin done]
      /\ memOpTag' = [p \in Proc |-> IF p \in done THEN (memOpTag[p] + 1) % TagLimit
                                                   ELSE memOpTag[p]]
      /\ UNCHANGED <<cacheState, dirState, sharers, pendReq>>

=============================================================================

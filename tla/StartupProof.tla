---------------------------- MODULE StartupProof ----------------------------
(***************************************************************************)
(* For every set of settings files and processor counts: the machine that  *)
(* runs is whole.                                                          *)
(* The parser keeps within the file and its lists, and what it has read of *)
(* a plain file is what the file says: the file is laid out as its tokens  *)
(* (FlattenSteps, LayoutExists), a pass of the loop starts between two     *)
(* tokens or inside a comment (Between, Within) and ends at such a place   *)
(* again (ParsingSteps).  Recursive functions are reasoned about along the *)
(* natural numbers (Stepwise).                                             *)
(***************************************************************************)
EXTENDS Startup, SequenceTheorems, WellFoundedInduction, TLAPS

Early == stage \in {"trace", "settings", "load"}

(* The init of the k-th component has been called.                         *)
Past(k) == stage = "run" \/ (stage = "init" /\ turn > k)

CoherenceLinks == {<<"coherence", "interconnect">>, <<"interconnect", "coherence">>}
DirectoryLinks == {<<"coherence", "directory">>, <<"directory", "coherence">>}
CacheLinks == {<<"cache", "coherence">>, <<"coherence", "cache">>}

StagesInv ==
    /\ stage \in {"trace", "settings", "load", "init", "run"}
    /\ turn \in 1 .. 6
    /\ stage = "trace" => ~reader
    /\ stage \in {"trace", "settings"} => turn = 1
    /\ Early => made = {} /\ holds = {}
    /\ processorCount \in Int

(* What each init leaves behind, as far as the later ones rely on it: a    *)
(* pointer is kept only when its object has been made by then.             *)
ObjectsInv ==
    /\ Past(1) => "interconnect" \in made
    /\ Past(2) => "directory" \in made /\ <<"directory", "interconnect">> \in holds
    /\ "coherence" \in made =>
         /\ processorCount \in 1 .. 256
         /\ CoherenceLinks \subseteq holds
         /\ loaded["coherence"] = "d_coherence" => DirectoryLinks \subseteq holds
    /\ "cache" \in made /\ loaded["cache"] = "simpleCache"
         => "coherence" \in made /\ CacheLinks \subseteq holds
    /\ Past(5) => "branch" \in made
    /\ stage = "run" => <<"processor", "branch">> \in holds
    /\ <<"processor", "cache">> \in holds => "cache" \in made

RunningInv ==
    outcome = "running" =>
        stage = "run" /\ (processorCount > 0 => reader) /\ <<"processor", "cache">> \in holds

StartupInv == StagesInv /\ ObjectsInv /\ RunningInv

LEMMA OrdersAre ==
  /\ Len(LoadOrder) = 6
  /\ LoadOrder[1] = "interconnect" /\ LoadOrder[2] = "directory" /\ LoadOrder[3] = "coherence"
  /\ LoadOrder[4] = "cache" /\ LoadOrder[5] = "processor" /\ LoadOrder[6] = "branch"
  /\ InitOrder[1] = "interconnect" /\ InitOrder[2] = "directory" /\ InitOrder[3] = "coherence"
  /\ InitOrder[4] = "cache" /\ InitOrder[5] = "branch" /\ InitOrder[6] = "processor"
BY DEF LoadOrder, InitOrder

LEMMA InitInv == Init => StartupInv
<1> SUFFICES ASSUME Init PROVE StartupInv
  OBVIOUS
<1>1. StagesInv
  BY CountsAssumption DEF Init, StagesInv, Early
<1>2. ObjectsInv /\ RunningInv
  BY DEF Init, ObjectsInv, RunningInv, Past
<1> QED
  BY <1>1, <1>2 DEF StartupInv

(* A step that ends the program disturbs nothing else.                     *)
LEMMA EndKeeps ==
  ASSUME StartupInv, NEW how, how # "running", End(how)
  PROVE  StartupInv'
BY DEF StartupInv, StagesInv, ObjectsInv, RunningInv, End, Early, Past

LEMMA LoadKeeps ==
  ASSUME StartupInv, outcome = "starting", Load
  PROVE  StartupInv'
<1>1. stage = "load" /\ turn \in 1 .. 6 /\ made = {} /\ holds = {}
  BY DEF Load, StartupInv, StagesInv, Early
<1>2. CASE End("exited")
  BY <1>2, EndKeeps
<1>3. CASE Advance("init") /\ UNCHANGED <<outcome, processorCount, reader, made, holds>>
  <2>1. StagesInv'
    BY <1>1, <1>3, OrdersAre DEF StartupInv, StagesInv, Advance, Early
  <2>2. ObjectsInv'
    BY <1>1, <1>3 DEF ObjectsInv, Past, Advance
  <2>3. RunningInv'
    BY <1>3 DEF RunningInv
  <2> QED
    BY <2>1, <2>2, <2>3 DEF StartupInv
<1> QED
  BY <1>2, <1>3 DEF Load

(* What every init that returns leaves of the invariant.                   *)
LEMMA InitialisedKeeps ==
  ASSUME StartupInv, outcome = "starting", stage = "init",
         NEW c, NEW objects, NEW pointers, Initialised(c, objects, pointers)
  PROVE  /\ StagesInv' /\ RunningInv'
         /\ \A k \in 1 .. 6 : Past(k)' => turn = k \/ Past(k)
         /\ stage' = "run" => turn = 6
<1>1. StagesInv'
  BY OrdersAre DEF Initialised, Advance, StartupInv, StagesInv, Early
<1>2. RunningInv'
  BY DEF Initialised, RunningInv
<1>3. \A k \in 1 .. 6 : Past(k)' => turn = k \/ Past(k)
  BY OrdersAre DEF Initialised, Advance, StartupInv, StagesInv, Past
<1>4. stage' = "run" => turn = 6
  BY OrdersAre DEF Initialised, Advance, StartupInv, StagesInv
<1> QED
  BY <1>1, <1>2, <1>3, <1>4

LEMMA InitInterconnectKeeps ==
  ASSUME StartupInv, outcome = "starting", stage = "init", turn = 1, InitInterconnect
  PROVE  StartupInv'
<1>1. CASE End("crashed")
  BY <1>1, EndKeeps
<1>2. CASE Initialised("interconnect", {"interconnect"}, {})
  <2>1. made' = made \cup {"interconnect"} /\ holds' = holds /\ processorCount' = processorCount
        /\ loaded' = loaded
    BY <1>2 DEF Initialised
  <2>2. ObjectsInv'
    BY <1>2, <2>1, InitialisedKeeps DEF StartupInv, ObjectsInv
  <2> QED
    BY <1>2, <2>2, InitialisedKeeps DEF StartupInv
<1> QED
  BY <1>1, <1>2 DEF InitInterconnect

LEMMA InitDirectoryKeeps ==
  ASSUME StartupInv, outcome = "starting", stage = "init", turn = 2, InitDirectory
  PROVE  StartupInv'
<1>1. made' = made \cup {"directory"} /\ holds \subseteq holds' /\ processorCount' = processorCount
      /\ loaded' = loaded
      /\ (<<"processor", "cache">> \in holds' => <<"processor", "cache">> \in holds)
  BY DEF InitDirectory, Initialised
<1>2. "interconnect" \in made
  BY DEF StartupInv, ObjectsInv, Past
<1>3. <<"directory", "interconnect">> \in holds'
  BY <1>2 DEF InitDirectory, Initialised
<1>4. ObjectsInv'
  BY <1>1, <1>3, InitialisedKeeps DEF InitDirectory, StartupInv, ObjectsInv
<1> QED
  BY <1>4, InitialisedKeeps DEF InitDirectory, StartupInv

(* The network and the directory are there when a coherence component      *)
(* registers with them.                                                    *)
LEMMA InitCoherenceKeeps ==
  ASSUME StartupInv, outcome = "starting", stage = "init", turn = 3, InitCoherence
  PROVE  StartupInv'
<1> DEFINE partners == IF loaded["coherence"] = "d_coherence"
                       THEN {"interconnect", "directory"} ELSE {"interconnect"}
           pointers == {<<"coherence", p>> : p \in partners} \cup {<<p, "coherence">> : p \in partners}
<1>1. CASE Initialised("coherence", {}, {})
  <2>1. made' = made /\ holds' = holds /\ processorCount' = processorCount /\ loaded' = loaded
    BY <1>1 DEF Initialised
  <2>2. ObjectsInv'
    BY <1>1, <2>1, InitialisedKeeps DEF StartupInv, ObjectsInv
  <2> QED
    BY <1>1, <2>2, InitialisedKeeps DEF StartupInv
<1>2. CASE /\ ~(processorCount < 1 \/ processorCount > 256)
           /\ Initialised("coherence", {"coherence"}, pointers)
  <2>1. made' = made \cup {"coherence"} /\ processorCount' = processorCount /\ loaded' = loaded
        /\ holds' = holds \cup {h \in pointers : h[2] \in made \cup {"coherence"}}
    BY <1>2 DEF Initialised
  <2>2. "interconnect" \in made /\ "directory" \in made
    BY DEF StartupInv, ObjectsInv, Past
  <2>3. CoherenceLinks \subseteq holds'
    BY <2>1, <2>2 DEF CoherenceLinks
  <2>4. loaded["coherence"] = "d_coherence" => DirectoryLinks \subseteq holds'
    BY <2>1, <2>2 DEF DirectoryLinks
  <2>5. processorCount \in 1 .. 256
    BY <1>2 DEF StartupInv, StagesInv
  <2>6. <<"processor", "cache">> \in holds' => <<"processor", "cache">> \in holds
    BY <2>1
  <2>7. ObjectsInv'
    <3>1. holds \subseteq holds'
      BY <2>1
    <3>2. (\A k \in 1 .. 6 : Past(k)' => turn = k \/ Past(k)) /\ (stage' = "run" => turn = 6)
      BY <1>2, InitialisedKeeps
    <3> HIDE DEF pointers
    <3> QED
      BY <2>1, <2>2, <2>3, <2>4, <2>5, <2>6, <3>1, <3>2 DEF StartupInv, ObjectsInv
  <2> QED
    BY <1>2, <2>7, InitialisedKeeps DEF StartupInv
<1> QED
  BY <1>1, <1>2 DEF InitCoherence

LEMMA InitCacheKeeps ==
  ASSUME StartupInv, outcome = "starting", stage = "init", turn = 4, InitCache
  PROVE  StartupInv'
<1>1. CASE End("crashed")
  BY <1>1, EndKeeps
<1>2. CASE "coherence" \in made /\ Initialised("cache", {"cache"}, CacheLinks)
  <2>1. made' = made \cup {"cache"} /\ processorCount' = processorCount /\ loaded' = loaded
        /\ holds' = holds \cup CacheLinks
    BY <1>2 DEF Initialised, CacheLinks
  <2>2. ObjectsInv'
    BY <1>2, <2>1, InitialisedKeeps DEF StartupInv, ObjectsInv, CacheLinks
  <2> QED
    BY <1>2, <2>2, InitialisedKeeps DEF StartupInv
<1>3. ASSUME NEW objects \in SUBSET {"cache"}, Initialised("cache", objects, {}),
             loaded["cache"] # "simpleCache"
      PROVE  StartupInv'
  <2>1. made' = made \cup objects /\ holds' = holds /\ loaded' = loaded
        /\ processorCount' = processorCount
    BY <1>3 DEF Initialised
  <2>2. ObjectsInv'
    BY <1>3, <2>1, InitialisedKeeps DEF StartupInv, ObjectsInv
  <2> QED
    BY <1>3, <2>2, InitialisedKeeps DEF StartupInv
<1> QED
  BY <1>1, <1>2, <1>3 DEF InitCache, InitSimpleCache, InitSetAssociativeCache, CacheLinks

LEMMA InitBranchKeeps ==
  ASSUME StartupInv, outcome = "starting", stage = "init", turn = 5, InitBranch
  PROVE  StartupInv'
<1>1. made' = made \cup {"branch"} /\ holds' = holds /\ processorCount' = processorCount
      /\ loaded' = loaded
  BY DEF InitBranch, Initialised
<1>2. ObjectsInv'
  BY <1>1, InitialisedKeeps DEF InitBranch, StartupInv, ObjectsInv
<1> QED
  BY <1>2, InitialisedKeeps DEF InitBranch, StartupInv

LEMMA InitProcessorKeeps ==
  ASSUME StartupInv, outcome = "starting", stage = "init", turn = 6, InitProcessor
  PROVE  StartupInv'
<1> DEFINE pointers == {<<"processor", "cache">>, <<"processor", "branch">>}
<1>1. made' = made \cup {"processor"} /\ processorCount' = processorCount /\ loaded' = loaded
      /\ holds' = holds \cup {h \in pointers : h[2] \in made \cup {"processor"}}
  BY DEF InitProcessor, Initialised
<1>2. "branch" \in made
  BY DEF StartupInv, ObjectsInv, Past
<1>3. <<"processor", "branch">> \in holds'
  BY <1>1, <1>2
<1>4. <<"processor", "cache">> \in holds' => "cache" \in made
  BY <1>1 DEF StartupInv, ObjectsInv
<1>5. holds \subseteq holds'
  BY <1>1
<1>6. ObjectsInv'
  <2> HIDE DEF pointers
  <2> QED
    BY <1>1, <1>2, <1>3, <1>4, <1>5, InitialisedKeeps DEF InitProcessor, StartupInv, ObjectsInv
<1> QED
  BY <1>6, InitialisedKeeps DEF InitProcessor, StartupInv

LEMMA NextKeeps ==
  ASSUME StartupInv, [Next]_vars
  PROVE  StartupInv'
<1>1. CASE UNCHANGED engineVars
  BY <1>1 DEF engineVars, StartupInv, StagesInv, ObjectsInv, RunningInv, Early, Past
<1>2. CASE Going /\ LoadTrace
  <2>1. CASE End("crashed")
    BY <2>1, EndKeeps
  <2>2. CASE stage' = "settings" /\ UNCHANGED <<turn, outcome, processorCount, loaded, made, holds>>
    BY <1>2, <2>2 DEF LoadTrace, Going, StartupInv, StagesInv, ObjectsInv, RunningInv, Early, Past
  <2> QED
    BY <1>2, <2>1, <2>2 DEF LoadTrace
<1>3. CASE Going /\ openSettings
  <2>1. CASE End("exited")
    BY <2>1, EndKeeps
  <2>2. CASE stage' = "load" /\ UNCHANGED <<turn, outcome, processorCount, reader, loaded, made, holds>>
    BY <1>3, <2>2 DEF openSettings, Going, StartupInv, StagesInv, ObjectsInv, RunningInv, Early, Past
  <2> QED
    BY <1>3, <2>1, <2>2 DEF openSettings
<1>4. CASE Going /\ Load
  <2>1. outcome = "starting"
    BY <1>4 DEF Load, Going, StartupInv, RunningInv
  <2> QED
    BY <1>4, <2>1, LoadKeeps
<1>5. CASE Going /\ InitComponent
  <2>1. outcome = "starting" /\ stage = "init" /\ turn \in 1 .. 6
    BY <1>5 DEF InitComponent, Going, StartupInv, RunningInv, StagesInv
  <2>2. CASE End("crashed")
    BY <2>2, EndKeeps
  <2>3. CASE InitOrder[turn] = "interconnect" /\ InitInterconnect
    BY <2>1, <2>3, OrdersAre, InitInterconnectKeeps
  <2>4. CASE InitOrder[turn] = "directory" /\ InitDirectory
    BY <2>1, <2>4, OrdersAre, InitDirectoryKeeps
  <2>5. CASE InitOrder[turn] = "coherence" /\ InitCoherence
    BY <2>1, <2>5, OrdersAre, InitCoherenceKeeps
  <2>6. CASE InitOrder[turn] = "cache" /\ InitCache
    BY <2>1, <2>6, OrdersAre, InitCacheKeeps
  <2>7. CASE InitOrder[turn] = "branch" /\ InitBranch
    BY <2>1, <2>7, OrdersAre, InitBranchKeeps
  <2>8. CASE InitOrder[turn] = "processor" /\ InitProcessor
    BY <2>1, <2>8, OrdersAre, InitProcessorKeeps
  <2> QED
    BY <1>5, <2>2, <2>3, <2>4, <2>5, <2>6, <2>7, <2>8 DEF InitComponent
<1>6. CASE Going /\ Tick
  <2>1. CASE End("crashed")
    BY <2>1, EndKeeps
  <2>2. CASE End("running") /\ (processorCount > 0 => reader) /\ <<"processor", "cache">> \in holds
    BY <1>6, <2>2 DEF Tick, End, StartupInv, StagesInv, ObjectsInv, RunningInv, Early, Past
  <2> QED
    BY <1>6, <2>1, <2>2 DEF Tick
<1>7. CASE Going /\ Finish
  BY <1>7, EndKeeps DEF Finish
<1> QED
  BY <1>1, <1>2, <1>3, <1>4, <1>5, <1>6, <1>7 DEF Next, Parse, vars

(* The inductive invariant holds of every reachable state.                 *)
THEOREM InvHolds == Spec => []StartupInv
BY InitInv, NextKeeps, PTL DEF Spec

(* A machine that runs is whole: the processor has a cache and a branch    *)
(* predictor, a simple cache a coherence component with a network, and the *)
(* directory coherence component a directory that can answer over it.      *)
THEOREM MachineIsWhole == Spec => []RunsWhole
<1>1. StartupInv => RunsWhole
  BY DEF StartupInv, RunningInv, ObjectsInv, Past, RunsWhole, CoherenceLinks, DirectoryLinks, CacheLinks
<1> QED
  BY <1>1, InvHolds, PTL

-----------------------------------------------------------------------------
(* The parser: positions are in the file, lists hold their arguments.      *)
ListsOfTexts == Seq(Seq(STRING))   \* the argument vectors

ParserInv ==
    /\ contents \in Seq(STRING)
    /\ sections \in Seq(ListsOfTexts)
    /\ room \in Nat \ {0}
    /\ SettingsTypeOK

LEMMA MinFits ==
  ASSUME NEW n \in Nat, NEW p \in Nat \ {0}, NEW S, S \subseteq p .. n
  PROVE  /\ Min({n + 1} \cup S) \in Nat
         /\ Min({n + 1} \cup S) = n + 1 \/ Min({n + 1} \cup S) \in S
<1> DEFINE T == {n + 1} \cup S
<1>1. T \subseteq Nat /\ T # {}
  OBVIOUS
<1>2. PICK x \in T : \A y \in T : ~(<<y, x>> \in OpToRel(<, Nat))
  <2> HIDE DEF T
  <2> QED BY <1>1, NatLessThanWellFounded, WFMin
<1>3. \A y \in T : x <= y
  <2> HIDE DEF T
  <2> SUFFICES ASSUME NEW y \in T, y < x PROVE FALSE
    BY <1>1
  <2>1. <<y, x>> \in Nat \X Nat /\ <<y, x>>[1] = y /\ <<y, x>>[2] = x
    BY <1>1
  <2>2. <<y, x>> \in OpToRel(<, Nat)
    BY <2>1, Zenon DEF OpToRel
  <2> QED BY <1>2, <2>2
<1>4. Min(T) \in T
  <2> HIDE DEF T
  <2> QED BY <1>3 DEF Min
<1> QED BY <1>1, <1>4

(* Where a scan ends.                                                      *)
LEMMA PositionsFit ==
  ASSUME contents \in Seq(STRING)
  PROVE  /\ Len(contents) \in Nat
         /\ \A p : At(p) = "\"" => p \in 1 .. Len(contents)
         /\ \A p : At(p) \in {"/", "_", "\""} => p \in 1 .. Len(contents)
         /\ \A p : OpensComment(p) \/ StartsSection(p) =>
                     p \in 1 .. Len(contents) /\ p + 1 \in 1 .. Len(contents)
<1>1. Len(contents) \in Nat /\ DOMAIN contents = 1 .. Len(contents)
  OBVIOUS
<1>2. \A p : At(p) # "nul" => p \in 1 .. Len(contents)
  BY <1>1 DEF At
<1>3. \A p : At(p) \in {"/", "_", "\""} => p \in 1 .. Len(contents)
  BY <1>2
<1>4. \A p : At(p) \in {"*"} => p \in 1 .. Len(contents)
  BY <1>2
<1> QED BY <1>1, <1>2, <1>3, <1>4 DEF OpensComment, StartsSection

(* Where the next text starts, and where one that starts at first ends.    *)
LEMMA NextTextFits ==
  ASSUME contents \in Seq(STRING), pos \in Nat \ {0}
  PROVE  NextText \in 1 .. Len(contents) + 1
<1> DEFINE n == Len(contents)
           S == {q \in pos .. n : ~IsBlank(q)}
<1>1. NextText = Min({n + 1} \cup S)
  BY DEF NextText, SkipUntil
<1>2. n \in Nat /\ S \subseteq pos .. n
  OBVIOUS
<1> HIDE DEF n, S
<1>3. Min({n + 1} \cup S) \in Nat /\ (Min({n + 1} \cup S) = n + 1 \/ Min({n + 1} \cup S) \in S)
  BY <1>2, MinFits
<1> QED BY <1>1, <1>2, <1>3 DEF n

LEMMA TextFits ==
  ASSUME contents \in Seq(STRING), NEW first \in 1 .. Len(contents) + 1,
         NEW last \in first .. Len(contents) + 1
  PROVE  SubSeq(contents, first, last - 1) \in Seq(STRING)
<1>1. first \in 1 .. Len(contents) + 1 /\ last - 1 \in first - 1 .. Len(contents)
  OBVIOUS
<1> QED BY <1>1, SubSeqProperties

(* A round of the loop adds a section of one text, or a text to the last   *)
(* section and room for it, or neither.                                    *)
LEMMA ListsFit ==
  ASSUME ParserInv, NEW text \in Seq(STRING),
         \/ UNCHANGED <<sections, room>>
         \/ sections' = Append(sections, <<text>>) /\ room' = ArgListChunkSize
         \/ /\ sections # <<>>
            /\ sections' = [sections EXCEPT ![Len(sections)] = Append(sections[Len(sections)], text)]
            /\ room' = IF Len(sections[Len(sections)]) = room THEN room + ArgListChunkSize ELSE room
  PROVE  /\ sections' \in Seq(ListsOfTexts) /\ room' \in Nat \ {0}
         /\ \A k \in DOMAIN sections' : sections'[k] # <<>>
         /\ sections' # <<>> => Len(sections'[Len(sections')]) <= room'
<1>1. /\ sections \in Seq(ListsOfTexts) /\ room \in Nat \ {0}
      /\ \A k \in DOMAIN sections : sections[k] # <<>>
      /\ sections # <<>> => Len(sections[Len(sections)]) <= room
  BY DEF ParserInv, SettingsTypeOK
<1>2. <<text>> \in ListsOfTexts /\ <<text>> # <<>> /\ Len(<<text>>) = 1
  BY DEF ListsOfTexts
<1>3. CASE UNCHANGED <<sections, room>>
  BY <1>1, <1>3
<1>4. CASE sections' = Append(sections, <<text>>) /\ room' = ArgListChunkSize
  <2> DEFINE new == <<text>>
  <2>1. /\ new \in ListsOfTexts /\ new # <<>> /\ Len(new) = 1 /\ sections' = Append(sections, new)
    BY <1>2, <1>4
  <2> HIDE DEF new
  <2>2. /\ sections' \in Seq(ListsOfTexts) /\ Len(sections') = Len(sections) + 1
        /\ sections'[Len(sections')] = new
        /\ \A k \in DOMAIN sections' :
             \/ k \in DOMAIN sections /\ sections'[k] = sections[k]
             \/ sections'[k] = new
    BY <1>1, <2>1
  <2> QED BY <1>1, <1>4, <2>1, <2>2, ChunkAssumption
<1>5. CASE /\ sections # <<>>
           /\ sections' = [sections EXCEPT ![Len(sections)] = Append(sections[Len(sections)], text)]
           /\ room' = IF Len(sections[Len(sections)]) = room THEN room + ArgListChunkSize ELSE room
  <2> DEFINE n == Len(sections)
             old == sections[n]
             new == Append(old, text)
  <2>1. n \in DOMAIN sections /\ n \in Nat /\ DOMAIN sections = 1 .. n
    BY <1>1, <1>5
  <2>2. old \in Seq(Seq(STRING))
    BY <1>1, <2>1 DEF ListsOfTexts
  <2> HIDE DEF old, n
  <2>3. new \in ListsOfTexts /\ new # <<>> /\ Len(new) = Len(old) + 1 /\ Len(old) \in Nat
    <3>1. new \in Seq(Seq(STRING)) /\ new # <<>> /\ Len(new) = Len(old) + 1
      BY <2>2, AppendProperties
    <3>2. Len(old) \in Nat
      BY <2>2
    <3> QED BY <3>1, <3>2 DEF ListsOfTexts
  <2>4. sections' = [sections EXCEPT ![n] = new] /\ Len(old) <= room
        /\ room' = IF Len(old) = room THEN room + ArgListChunkSize ELSE room
    BY <1>1, <1>5 DEF n, old
  <2> HIDE DEF new
  <2>5. sections' \in Seq(ListsOfTexts) /\ DOMAIN sections' = DOMAIN sections /\ Len(sections') = n
    BY <1>1, <2>1, <2>3, <2>4, ExceptSeq DEF n
  <2>6. sections'[n] = new /\ \A k \in DOMAIN sections : k # n => sections'[k] = sections[k]
    BY <1>1, <2>1, <2>4
  <2>7. room' \in Nat \ {0} /\ Len(new) <= room'
    BY <1>1, <2>3, <2>4, ChunkAssumption
  <2> QED BY <1>1, <2>3, <2>5, <2>6, <2>7
<1> QED BY <1>3, <1>4, <1>5

LEMMA ParseKeeps ==
  ASSUME ParserInv, ParseStep
  PROVE  ParserInv'
<1> DEFINE n == Len(contents)
<1>1. /\ contents \in Seq(STRING) /\ n \in Nat
      /\ pos \in 1 .. n + 2 /\ pos \in Nat \ {0}
      /\ comment \in {"none", "line", "block"}
  BY DEF ParserInv, SettingsTypeOK
<1>2. /\ \A p : At(p) \in {"/", "_", "\""} => p \in 1 .. n
      /\ \A p : OpensComment(p) \/ StartsSection(p) => p \in 1 .. n /\ p + 1 \in 1 .. n
  BY <1>1, PositionsFit
<1>3. ASSUME NEW p \in 1 .. n + 2, GoOnAt(p), NEW text \in Seq(STRING),
             comment' \in {"none", "line", "block"},
             \/ UNCHANGED <<sections, room>>
             \/ sections' = Append(sections, <<text>>) /\ room' = ArgListChunkSize
             \/ /\ sections # <<>>
                /\ sections' = [sections EXCEPT ![Len(sections)] = Append(sections[Len(sections)], text)]
                /\ room' = IF Len(sections[Len(sections)]) = room THEN room + ArgListChunkSize ELSE room
      PROVE  ParserInv'
  <2>1. pos' = p /\ reading' \in BOOLEAN /\ contents' = contents
    BY <1>3 DEF GoOnAt
  <2>2. /\ sections' \in Seq(ListsOfTexts) /\ room' \in Nat \ {0}
        /\ \A k \in DOMAIN sections' : sections'[k] # <<>>
        /\ sections' # <<>> => Len(sections'[Len(sections')]) <= room'
    BY <1>3, ListsFit
  <2> QED BY <1>1, <1>3, <2>1, <2>2 DEF ParserInv, SettingsTypeOK
<1>4. <<>> \in Seq(STRING)
  OBVIOUS
<1>5. CASE UNCHANGED <<contents, pos, comment, sections, room>> /\ reading' \in BOOLEAN
  BY <1>5 DEF ParserInv, SettingsTypeOK
<1>6. CASE SkipLine
  <2> DEFINE S == {q \in pos .. n : At(q) = Newline}
             p == Min({n + 1} \cup S)
  <2>1. GoOnAt(p) /\ comment' = "none" /\ UNCHANGED <<sections, room>>
    BY <1>6 DEF SkipLine, SkipUntil
  <2>2. p \in Nat /\ (p = n + 1 \/ p \in S)
    <3>1. S \subseteq pos .. n
      OBVIOUS
    <3> HIDE DEF S, n
    <3> QED BY <1>1, <3>1, MinFits
  <2>3. p \in 1 .. n + 2
    <3> HIDE DEF p, n
    <3> QED BY <1>1, <2>2
  <2> HIDE DEF p
  <2> QED BY <1>3, <1>4, <2>1, <2>3
<1>7. CASE SkipBlock
  <2> DEFINE S == {r \in pos .. n : At(r) = "*" \/ At(r + 1) = "/"}
             q == Min({n + 1} \cup S)
             p == IF q > n THEN q ELSE q + 2
  <2>1. GoOnAt(p) /\ comment' = "none" /\ UNCHANGED <<sections, room>>
    BY <1>7 DEF SkipBlock, SkipUntil
  <2>2. q \in Nat /\ (q = n + 1 \/ q \in S)
    <3>1. S \subseteq pos .. n
      OBVIOUS
    <3> HIDE DEF S, n
    <3> QED BY <1>1, <3>1, MinFits
  <2>3. p \in 1 .. n + 2
    <3> HIDE DEF q, n
    <3> QED BY <1>1, <2>2
  <2> HIDE DEF p
  <2> QED BY <1>3, <1>4, <2>1, <2>3
<1>8. CASE OpenComment
  <2>1. GoOnAt(pos + 2) /\ comment' \in {"line", "block"} /\ UNCHANGED <<sections, room>>
    BY <1>8 DEF OpenComment, Opened
  <2>2. pos + 2 \in 1 .. n + 2
    <3>1. pos \in 1 .. n
      BY <1>2, <1>8 DEF OpenComment
    <3> HIDE DEF n
    <3> QED BY <1>1, <3>1
  <2> QED BY <1>3, <1>4, <2>1, <2>2
<1>9. CASE LoneSlash
  BY <1>5, <1>9 DEF LoneSlash, parserVars, ParserInv, SettingsTypeOK
<1>10. CASE NothingLeft \/ NoSectionYet
  BY <1>5, <1>10 DEF NothingLeft, NoSectionYet, Stop
<1>11. NextText \in 1 .. n + 1
  BY <1>1, NextTextFits
<1>12. CASE ReadSection
  <2> DEFINE first == NextText + 2
             S == {q \in first .. n : IsBlank(q)}
             last == Min({n + 1} \cup S)
             text == SubSeq(contents, first, last - 1)
  <2>1. first \in 1 .. n + 1
    <3>1. NextText \in 1 .. n /\ NextText + 1 \in 1 .. n
      BY <1>2, <1>12 DEF ReadSection
    <3> HIDE DEF n
    <3> QED BY <1>1, <3>1
  <2>2. last \in Nat /\ (last = n + 1 \/ last \in S)
    <3>1. S \subseteq first .. n /\ first \in Nat \ {0}
      BY <2>1
    <3> HIDE DEF S, n, first
    <3> QED BY <1>1, <3>1, MinFits
  <2>3. last \in first .. n + 1
    <3> HIDE DEF last, n, first
    <3> QED BY <1>1, <2>1, <2>2
  <2>4. text \in Seq(STRING)
    <3> HIDE DEF first, last
    <3> QED BY <1>1, <2>1, <2>3, TextFits
  <2>5. IF last > n THEN Stop
        ELSE sections' = Append(sections, <<text>>) /\ room' = ArgListChunkSize
             /\ GoOnAt(last + 1) /\ UNCHANGED comment
    BY <1>12 DEF ReadSection, SkipUntil
  <2> HIDE DEF text, last, first
  <2>6. CASE last > n
    BY <1>5, <2>5, <2>6 DEF Stop
  <2>7. CASE ~(last > n)
    <3>1. last + 1 \in 1 .. n + 2
      <4> HIDE DEF n
      <4> QED BY <1>1, <2>1, <2>3, <2>7
    <3> QED BY <1>1, <1>3, <2>4, <2>5, <2>7, <3>1
  <2> QED BY <2>6, <2>7
<1>13. CASE ReadArgument
  <2> DEFINE quoted == At(NextText) = "\""
             first == IF quoted THEN NextText + 1 ELSE NextText
             S == {q \in first .. n : IF quoted THEN At(q) = "\"" ELSE IsBlank(q) \/ OpensComment(q)}
             last == Min({n + 1} \cup S)
             opens == ~quoted /\ OpensComment(last)
             args == sections[Len(sections)]
             text == SubSeq(contents, first, last - 1)
             p == IF opens THEN last + 2 ELSE last + 1
  <2>1. /\ sections # <<>>
        /\ IF last = first
             THEN UNCHANGED <<sections, room>>
             ELSE /\ sections' = [sections EXCEPT ![Len(sections)] = Append(args, text)]
                  /\ room' = IF Len(args) = room THEN room + ArgListChunkSize ELSE room
        /\ comment' = IF opens THEN Opened(last) ELSE "none"
        /\ GoOnAt(p)
    BY <1>13 DEF ReadArgument, SkipUntil
  <2>2. first \in 1 .. n + 1
    <3>1. quoted => NextText \in 1 .. n
      <4> SUFFICES ASSUME quoted PROVE NextText \in 1 .. n
        OBVIOUS
      <4>1. At(NextText) = "\""
        OBVIOUS
      <4> QED BY <1>1, <4>1, PositionsFit
    <3> HIDE DEF n, quoted
    <3> QED BY <1>1, <1>11, <3>1
  <2>3. last \in Nat /\ (last = n + 1 \/ last \in S)
    <3>1. S \subseteq first .. n
      <4> HIDE DEF quoted, first, n
      <4> QED OBVIOUS
    <3>2. first \in Nat \ {0}
      <4> HIDE DEF first, n
      <4> QED BY <1>1, <2>2
    <3> HIDE DEF S, n, first
    <3> QED BY <1>1, <3>1, <3>2, MinFits
  <2>4. last \in first .. n + 1
    <3>1. last \in S => last \in first .. n
      <4> HIDE DEF last, n, first, quoted
      <4> QED OBVIOUS
    <3> HIDE DEF last, n, first, S
    <3> QED BY <1>1, <2>2, <2>3, <3>1
  <2>5. text \in Seq(STRING)
    <3> HIDE DEF first, last
    <3> QED BY <1>1, <2>2, <2>4, TextFits
  <2>6. p \in 1 .. n + 2
    <3>1. opens => last \in 1 .. n
      <4> HIDE DEF last, quoted
      <4> QED BY <1>2
    <3> HIDE DEF last, n, first, opens
    <3> QED BY <1>1, <2>2, <2>4, <3>1
  <2>7. comment' \in {"none", "line", "block"}
    <3> HIDE DEF last, opens
    <3> QED BY <2>1 DEF Opened
  <2> HIDE DEF text, last, first, p, opens
  <2> QED BY <1>3, <2>1, <2>5, <2>6, <2>7
<1> QED BY <1>6, <1>7, <1>8, <1>9, <1>10, <1>12, <1>13 DEF ParseStep

-----------------------------------------------------------------------------
(* The types, with what the parser and the engine share.                   *)
EngineTypes ==
    /\ stage \in {"trace", "settings", "load", "init", "run"}
    /\ outcome \in {"starting", "running", "exited", "crashed"}
    /\ loaded \in [Component -> UNION {Libraries[c] \cup {None} : c \in Component}]
    /\ \A c \in Component : loaded[c] \in Libraries[c] \cup {None}
    /\ made \subseteq Component
    /\ missing \subseteq Component
    /\ holds \subseteq Component \X Component

LEMMA InitialisedTypes ==
  ASSUME EngineTypes, stage = "init", outcome = "starting", NEW c,
         NEW objects \in SUBSET Component, NEW pointers \in SUBSET (Component \X Component),
         Initialised(c, objects, pointers)
  PROVE  EngineTypes'
<1>1. stage' \in {"init", "run"}
  BY DEF Initialised, Advance
<1>2. /\ made' = made \cup objects
      /\ holds' = holds \cup {h \in pointers : h[2] \in made \cup objects}
      /\ UNCHANGED <<outcome, loaded, missing>>
  BY DEF Initialised
<1>3. made' \subseteq Component /\ holds' \subseteq Component \X Component
  BY <1>2 DEF EngineTypes
<1> QED BY <1>1, <1>2, <1>3 DEF EngineTypes

LEMMA InitComponentTypes ==
  ASSUME EngineTypes, outcome = "starting", InitComponent
  PROVE  EngineTypes'
<1>1. ASSUME NEW how, End(how), how \in {"exited", "crashed"} PROVE EngineTypes'
  BY <1>1 DEF End, EngineTypes
<1>2. stage = "init"
  BY DEF InitComponent
<1>3. {} \in SUBSET Component /\ {} \in SUBSET (Component \X Component)
      /\ \A c \in Component : {c} \in SUBSET Component
  OBVIOUS
<1>4. InitInterconnect => EngineTypes'
  BY <1>1, <1>2, <1>3, InitialisedTypes DEF InitInterconnect, Component
<1>5. InitDirectory => EngineTypes'
  <2>1. {<<"directory", "interconnect">>} \in SUBSET (Component \X Component)
    BY DEF Component
  <2>2. {"directory"} \in SUBSET Component
    BY DEF Component
  <2> QED BY <1>2, <2>1, <2>2, InitialisedTypes DEF InitDirectory
<1>6. ASSUME InitCoherence PROVE EngineTypes'
  <2> DEFINE partners == IF loaded["coherence"] = "d_coherence"
                           THEN {"interconnect", "directory"} ELSE {"interconnect"}
             pointers == {<<"coherence", p>> : p \in partners} \cup {<<p, "coherence">> : p \in partners}
  <2>1. pointers \in SUBSET (Component \X Component)
    BY DEF Component
  <2>2. {"coherence"} \in SUBSET Component
    BY DEF Component
  <2>3. \/ Initialised("coherence", {}, {})
        \/ Initialised("coherence", {"coherence"}, pointers)
    BY <1>6 DEF InitCoherence
  <2> HIDE DEF pointers
  <2> QED BY <1>2, <1>3, <2>1, <2>2, <2>3, InitialisedTypes
<1>7. ASSUME InitCache PROVE EngineTypes'
  <2>1. {"cache"} \in SUBSET Component
        /\ {<<"cache", "coherence">>, <<"coherence", "cache">>} \in SUBSET (Component \X Component)
    BY DEF Component
  <2>2. \/ End("crashed")
        \/ Initialised("cache", {"cache"}, {<<"cache", "coherence">>, <<"coherence", "cache">>})
        \/ Initialised("cache", {}, {})
        \/ Initialised("cache", {"cache"}, {})
    BY <1>7 DEF InitCache, InitSimpleCache, InitSetAssociativeCache
  <2> QED BY <1>1, <1>2, <1>3, <2>1, <2>2, InitialisedTypes
<1>8. InitBranch => EngineTypes'
  BY <1>2, <1>3, InitialisedTypes DEF InitBranch, Component
<1>9. InitProcessor => EngineTypes'
  <2>1. {<<"processor", "cache">>, <<"processor", "branch">>} \in SUBSET (Component \X Component)
    BY DEF Component
  <2>2. {"processor"} \in SUBSET Component
    BY DEF Component
  <2> QED BY <1>2, <2>1, <2>2, InitialisedTypes DEF InitProcessor
<1> QED BY <1>1, <1>4, <1>5, <1>6, <1>7, <1>8, <1>9 DEF InitComponent

LEMMA EngineKeepsTypes ==
  ASSUME EngineTypes, StagesInv, RunningInv, Next
  PROVE  EngineTypes'
<1>1. ASSUME NEW how, End(how), how \in {"exited", "crashed", "running"} PROVE EngineTypes'
  BY <1>1 DEF End, EngineTypes
<1>2. LoadTrace \/ openSettings => EngineTypes'
  BY <1>1 DEF LoadTrace, openSettings, EngineTypes
<1>3. Parse => EngineTypes'
  BY DEF Parse, engineVars, EngineTypes
<1>4. ASSUME Load PROVE EngineTypes'
  <2> DEFINE c == LoadOrder[turn]
  <2>1. c \in Component /\ stage = "load"
    BY <1>4, OrdersAre DEF StagesInv, Component, Load
  <2>2. \/ \E library \in Libraries[c] : /\ loaded' = [loaded EXCEPT ![c] = library]
                                         /\ UNCHANGED <<outcome, missing, made, holds>>
        \/ missing' = missing \cup {c} /\ UNCHANGED <<outcome, loaded, made, holds>>
        \/ End("exited")
    BY <1>4 DEF Load
  <2>3. End("exited") \/ stage' \in {"load", "init"}
    BY <1>4, <2>1 DEF Load, Advance
  <2> HIDE DEF c
  <2>4. ASSUME NEW library \in Libraries[c], loaded' = [loaded EXCEPT ![c] = library]
        PROVE  /\ loaded' \in [Component -> UNION {Libraries[d] \cup {None} : d \in Component}]
               /\ \A d \in Component : loaded'[d] \in Libraries[d] \cup {None}
    <3>1. library \in UNION {Libraries[d] \cup {None} : d \in Component}
      BY <2>1
    <3> QED BY <2>1, <2>4, <3>1 DEF EngineTypes
  <2> QED BY <1>1, <2>1, <2>2, <2>3, <2>4 DEF EngineTypes
<1>5. Tick \/ Finish => EngineTypes'
  BY <1>1 DEF Tick, Finish
<1>6. ASSUME Going, InitComponent PROVE EngineTypes'
  <2>1. outcome = "starting"
    BY <1>6 DEF InitComponent, Going, RunningInv
  <2> QED BY <1>6, <2>1, InitComponentTypes
<1> QED BY <1>2, <1>3, <1>4, <1>5, <1>6 DEF Next

(* Outside of its loop the parser only has its loop entered.               *)
LEMMA NextKeepsParser ==
  ASSUME ParserInv, [Next]_vars
  PROVE  ParserInv'
<1>1. CASE UNCHANGED <<contents, pos, comment, sections, room>> /\ reading' \in {reading, TRUE}
  BY <1>1 DEF ParserInv, SettingsTypeOK
<1>2. Parse => ParserInv'
  BY ParseKeeps DEF Parse
<1>3. LoadTrace \/ Load \/ InitComponent \/ Tick \/ Finish \/ UNCHANGED vars => UNCHANGED parserVars
  BY DEF LoadTrace, Load, InitComponent, Tick, Finish, vars
<1>4. UNCHANGED parserVars => ParserInv'
  BY <1>1 DEF parserVars
<1>5. openSettings => ParserInv'
  BY <1>1, <1>4 DEF openSettings
<1> QED BY <1>2, <1>3, <1>4, <1>5 DEF Next

(* Nothing is read at first.                                               *)
LEMMA InitParser == Init => ParserInv
<1> SUFFICES ASSUME Init PROVE ParserInv
  OBVIOUS
<1>1. contents \in Seq(STRING) /\ sections = <<>> /\ room = ArgListChunkSize
      /\ pos = 1 /\ comment = "none" /\ reading = FALSE
  BY DocumentsAssumption DEF Init, InitSettings
<1>2. Len(contents) \in Nat /\ room \in Nat \ {0} /\ <<>> \in Seq(ListsOfTexts)
  BY <1>1, ChunkAssumption
<1>3. pos \in 1 .. Len(contents) + 2
  BY <1>1, <1>2
<1>4. DOMAIN <<>> = {}
  OBVIOUS
<1>5. SettingsTypeOK
  BY <1>1, <1>3, <1>4 DEF SettingsTypeOK
<1> QED BY <1>1, <1>2, <1>5 DEF ParserInv

(* Positions stay in the file but for the '\0' behind it and one more,     *)
(* argument lists hold their arguments, and the engine's tables name the   *)
(* libraries and components there are.                                     *)
THEOREM TypeCorrect == Spec => []TypeOK
<1> DEFINE Types == StartupInv /\ ParserInv /\ EngineTypes
<1>1. Init => Types
  <2> SUFFICES ASSUME Init PROVE Types
    OBVIOUS
  <2>1. StartupInv
    BY InitInv
  <2>2. ParserInv
    BY InitParser
  <2>3. EngineTypes
    BY DEF Init, EngineTypes
  <2> QED BY <2>1, <2>2, <2>3
<1>2. Types /\ [Next]_vars => Types'
  <2> SUFFICES ASSUME Types, [Next]_vars PROVE Types'
    OBVIOUS
  <2>1. UNCHANGED vars => EngineTypes'
    BY DEF vars, engineVars, EngineTypes
  <2>2. EngineTypes'
    BY <2>1, EngineKeepsTypes DEF StartupInv
  <2> QED BY <2>2, NextKeeps, NextKeepsParser
<1>3. Types => TypeOK
  BY OrdersAre DEF TypeOK, StartupInv, StagesInv, ParserInv, EngineTypes, LoadOrder
<1> HIDE DEF Types
<1> QED BY <1>1, <1>2, <1>3, PTL DEF Spec

-----------------------------------------------------------------------------
(* What holds at 0 and is handed on holds up to n.                         *)
LEMMA Stepwise ==
  ASSUME NEW n \in Nat, NEW G, 0 \in G, \A k \in 0 .. n - 1 : k \in G => k + 1 \in G
  PROVE  \A k \in 0 .. n : k \in G
<1> DEFINE B == {k \in 0 .. n : k \notin G}
<1>1. CASE B = {}
  BY <1>1
<1>2. CASE B # {}
  <2>1. B \subseteq Nat
    OBVIOUS
  <2>2. PICK x \in B : \A y \in B : ~(<<y, x>> \in OpToRel(<, Nat))
    <3> HIDE DEF B
    <3> QED BY <1>2, <2>1, NatLessThanWellFounded, WFMin
  <2>3. x \in 1 .. n /\ x - 1 \in 0 .. n - 1
    OBVIOUS
  <2>4. x - 1 \in B
    BY <2>3
  <2>5. <<x - 1, x>> \in OpToRel(<, Nat)
    <3> DEFINE y == x - 1
    <3>1. <<y, x>> \in Nat \X Nat /\ <<y, x>>[1] = y /\ <<y, x>>[2] = x /\ y < x
      BY <2>3
    <3> HIDE DEF y
    <3>2. <<y, x>> \in OpToRel(<, Nat)
      BY <3>1, Zenon DEF OpToRel
    <3> QED BY <3>2 DEF y
  <2> QED BY <2>2, <2>4, <2>5
<1> QED BY <1>1, <1>2

(* A recursive function exists: here, the sequences flattened so far.      *)
Joined(x, y) == x \o y

LEMMA JoinedFits ==
  ASSUME NEW S, NEW x \in Seq(S), NEW y \in Seq(S)
  PROVE  /\ Joined(x, y) \in Seq(S) /\ Joined(<<>>, y) = y
         /\ Len(Joined(x, y)) = Len(x) + Len(y)
         /\ \A i \in 1 .. Len(x) : Joined(x, y)[i] = x[i]
         /\ \A i \in 1 .. Len(y) : Joined(x, y)[Len(x) + i] = y[i]
BY DEF Joined

FlattenedTo(f, seqs, n, S) ==
  /\ f \in [0 .. n -> Seq(S)] /\ f[0] = <<>>
  /\ \A k \in 0 .. n - 1 : f[k + 1] = Joined(f[k], seqs[k + 1])

LEMMA FlattenExists ==
  ASSUME NEW S, NEW n \in Nat, NEW seqs \in [1 .. n -> Seq(S)]
  PROVE  \E f : FlattenedTo(f, seqs, n, S)
<1> DEFINE G == {m \in 0 .. n : \E f : FlattenedTo(f, seqs, m, S)}
<1>1. 0 \in G
  <2> DEFINE f == [k \in 0 .. 0 |-> <<>>]
  <2>1. FlattenedTo(f, seqs, 0, S)
    BY DEF FlattenedTo
  <2> QED BY <2>1
<1>2. ASSUME NEW m \in 0 .. n - 1, m \in G PROVE m + 1 \in G
  <2>1. PICK f : FlattenedTo(f, seqs, m, S)
    BY <1>2
  <2> DEFINE next == Joined(f[m], seqs[m + 1])
             g == [k \in 0 .. m + 1 |-> IF k <= m THEN f[k] ELSE next]
  <2>2. next \in Seq(S)
    <3>1. f[m] \in Seq(S) /\ seqs[m + 1] \in Seq(S)
      BY <2>1 DEF FlattenedTo
    <3> QED BY <3>1, JoinedFits
  <2> HIDE DEF next
  <2>3. g \in [0 .. m + 1 -> Seq(S)] /\ g[0] = <<>>
    BY <2>1, <2>2 DEF FlattenedTo
  <2>4. ASSUME NEW k \in 0 .. (m + 1) - 1 PROVE g[k + 1] = Joined(g[k], seqs[k + 1])
    <3>1. CASE k + 1 <= m
      BY <2>1, <3>1 DEF FlattenedTo
    <3>2. CASE k = m
      BY <2>1, <3>2 DEF next
    <3> QED BY <3>1, <3>2
  <2>5. FlattenedTo(g, seqs, m + 1, S)
    BY <2>3, <2>4 DEF FlattenedTo
  <2> QED BY <2>5
<1>3. \A k \in 0 .. n : k \in G
  <2> HIDE DEF G
  <2> QED BY <1>1, <1>2, Stepwise
<1>4. n \in G
  BY <1>3
<1> QED BY <1>4

LEMMA FlattenSteps ==
  ASSUME NEW S, NEW n \in Nat, NEW seqs \in [1 .. n -> Seq(S)]
  PROVE  \E f : FlattenedTo(f, seqs, n, S) /\ f[n] = FlattenSeq(seqs)
<1>1. PICK f : FlattenedTo(f, seqs, n, S)
  BY FlattenExists
<1>2. Len(seqs) = n
  OBVIOUS
<1>3. CASE n = 0
  <2>1. FlattenSeq(seqs) = seqs
    BY <1>2, <1>3 DEF FlattenSeq
  <2>2. seqs = <<>>
    BY <1>2, <1>3
  <2>3. f[n] = FlattenSeq(seqs)
    BY <1>1, <1>3, <2>1, <2>2 DEF FlattenedTo
  <2> QED BY <1>1, <2>3
<1>4. CASE n # 0
  <2> DEFINE body(g) == [i \in 1 .. n |-> IF i = 1 THEN seqs[i] ELSE Joined(g[i - 1], seqs[i])]
             flatten == CHOOSE g : g = body(g)
  <2>1. FlattenSeq(seqs) = flatten[n]
    BY <1>2, <1>4 DEF FlattenSeq, Joined
  <2>2. ASSUME NEW i \in 1 .. n, i # 1 PROVE i - 1 \in 1 .. n /\ f[i] = Joined(f[i - 1], seqs[i])
    <3> DEFINE j == i - 1
    <3>1. j \in 0 .. n - 1 /\ j + 1 = i /\ j \in 1 .. n
      BY <2>2
    <3> HIDE DEF j
    <3>2. f[j + 1] = Joined(f[j], seqs[j + 1])
      BY <1>1, <3>1 DEF FlattenedTo
    <3> QED BY <3>1, <3>2 DEF j
  <2>3. f[1] = seqs[1]
    <3>1. 0 \in 0 .. n - 1 /\ 0 + 1 = 1 /\ 1 \in 1 .. n
      BY <1>4
    <3>2. f[1] = Joined(<<>>, seqs[1]) /\ seqs[1] \in Seq(S)
      BY <1>1, <3>1 DEF FlattenedTo
    <3>3. <<>> \in Seq(S)
      OBVIOUS
    <3> QED BY <3>2, <3>3, JoinedFits
  <2>4. \E g : g = body(g)
    <3> DEFINE g == [i \in 1 .. n |-> f[i]]
    <3>1. ASSUME NEW i \in 1 .. n PROVE g[i] = IF i = 1 THEN seqs[i] ELSE Joined(g[i - 1], seqs[i])
      <4>1. CASE i = 1
        BY <2>3, <4>1
      <4>2. CASE i # 1
        BY <2>2, <4>2
      <4> QED BY <4>1, <4>2
    <3>2. g = body(g)
      BY <3>1
    <3> QED BY <3>2
  <2>5. flatten = body(flatten)
    <3> HIDE DEF body
    <3> QED BY <2>4
  <2> HIDE DEF flatten
  <2> DEFINE G == {k \in 0 .. n : k > 0 => flatten[k] = f[k]}
  <2>6. 0 \in G
    OBVIOUS
  <2>7. ASSUME NEW k \in 0 .. n - 1, k \in G PROVE k + 1 \in G
    <3> DEFINE i == k + 1
    <3>1. i \in 1 .. n /\ i - 1 = k /\ (i = 1 <=> k = 0)
      OBVIOUS
    <3> HIDE DEF i
    <3>2. flatten[i] = IF i = 1 THEN seqs[i] ELSE Joined(flatten[i - 1], seqs[i])
      BY <2>5, <3>1
    <3>3. flatten[i] = f[i]
      <4>1. CASE i = 1
        BY <2>3, <3>2, <4>1
      <4>2. CASE i # 1
        BY <2>2, <2>7, <3>1, <3>2, <4>2
      <4> QED BY <4>1, <4>2
    <3> QED BY <3>1, <3>3 DEF i
  <2>8. \A k \in 0 .. n : k \in G
    <3> HIDE DEF G
    <3> QED BY <2>6, <2>7, Stepwise
  <2>9. flatten[n] = f[n]
    BY <1>4, <2>8
  <2> QED BY <1>1, <2>1, <2>9
<1> QED BY <1>3, <1>4

-----------------------------------------------------------------------------
(* The characters the parser looks for.  The provers are not told that a   *)
(* literal is a STRING.                                                    *)
Underscore == "_"
Quote == "\""
Slash == "/"
Star == "*"

Char == STRING \cup Blank \cup {Underscore, Quote, Slash, Star}

LEMMA MarksDiffer ==
  /\ Underscore # Slash /\ Underscore # Quote /\ Underscore # Star
  /\ Slash # Quote /\ Slash # Star /\ Quote # Star
  /\ {Underscore, Slash, Quote, Star} \cap Blank = {}
  /\ "nul" \notin {Underscore, Slash, Quote, Star, Newline}
BY Zenon DEF Underscore, Quote, Slash, Star, Blank, Newline

LEMMA ShortTexts ==
  /\ <<>> \in Seq(Char)
  /\ \A a \in Char : <<a>> \in Seq(Char)
  /\ \A a, b \in Char : <<a, b>> \in Seq(Char)
OBVIOUS

LEMMA Chars == {Underscore, Slash, Star, Quote, Newline} \subseteq Char
BY DEF Char, Blank

(* How a token is laid out: what opens it, its text, what closes it, a gap.*)
Opening(token) ==
    CASE token.kind = "name"   -> <<Underscore, Underscore>>
      [] token.kind = "word"   -> <<>>
      [] token.kind = "quoted" -> <<Quote>>
      [] token.kind = "line"   -> <<Slash, Slash>>
      [] token.kind = "block"  -> <<Slash, Star>>

Closing(token) ==
    CASE token.kind = "name"   -> <<>>
      [] token.kind = "word"   -> <<>>
      [] token.kind = "quoted" -> <<Quote>>
      [] token.kind = "line"   -> <<Newline>>
      [] token.kind = "block"  -> <<Star, Slash>>

(* Where the text of a token ends and where its gap starts, after the      *)
(* offset at which the token starts.                                       *)
TextEnd(token) == Len(Opening(token)) + Len(token.text)
GapFrom(token) == TextEnd(token) + Len(Closing(token))

WrittenAs(w, token) ==
  /\ w \in Seq(Char) /\ Len(w) = GapFrom(token) + Len(token.gap)
  /\ \A i \in 1 .. Len(Opening(token)) : w[i] = Opening(token)[i]
  /\ \A i \in 1 .. Len(token.text) : w[Len(Opening(token)) + i] = token.text[i]
  /\ \A i \in 1 .. Len(Closing(token)) : w[TextEnd(token) + i] = Closing(token)[i]
  /\ \A i \in 1 .. Len(token.gap) : w[GapFrom(token) + i] = token.gap[i]

IsKind(token) == token.kind \in {"name", "word", "quoted", "line", "block"}
HasTexts(token) == IsKind(token) /\ token.text \in Seq(Char) /\ token.gap \in Seq(Char)

LEMMA PartsFit ==
  ASSUME NEW token, HasTexts(token)
  PROVE  /\ Opening(token) \in Seq(Char) /\ Closing(token) \in Seq(Char)
         /\ Len(token.text) \in Nat /\ Len(token.gap) \in Nat
         /\ Len(Opening(token)) \in Nat /\ Len(Closing(token)) \in Nat
         /\ TextEnd(token) \in Nat /\ GapFrom(token) \in Nat
         /\ TextEnd(token) = Len(Opening(token)) + Len(token.text)
         /\ GapFrom(token) = TextEnd(token) + Len(Closing(token))
<1>1. Opening(token) \in Seq(Char) /\ Closing(token) \in Seq(Char)
  <2>1. \A a, b \in {Underscore, Slash, Star, Quote, Newline} : {<<>>, <<a>>, <<a, b>>} \subseteq Seq(Char)
    BY ShortTexts, Chars
  <2>2. CASE token.kind = "name"
    BY <2>1, <2>2, Zenon DEF Opening, Closing
  <2>3. CASE token.kind = "word"
    BY <2>1, <2>3, Zenon DEF Opening, Closing
  <2>4. CASE token.kind = "quoted"
    BY <2>1, <2>4, Zenon DEF Opening, Closing
  <2>5. CASE token.kind = "line"
    BY <2>1, <2>5, Zenon DEF Opening, Closing
  <2>6. CASE token.kind = "block"
    BY <2>1, <2>6, Zenon DEF Opening, Closing
  <2> QED BY <2>2, <2>3, <2>4, <2>5, <2>6 DEF HasTexts, IsKind
<1> HIDE DEF Opening, Closing
<1> QED BY <1>1 DEF HasTexts, TextEnd, GapFrom

LEMMA TextsJoined ==
  ASSUME NEW x \in Seq(Char), NEW y \in Seq(Char)
  PROVE  /\ Joined(x, y) \in Seq(Char) /\ Len(Joined(x, y)) = Len(x) + Len(y)
         /\ Len(x) \in Nat /\ Len(y) \in Nat
         /\ \A i \in 1 .. Len(x) : Joined(x, y)[i] = x[i]
         /\ \A i \in 1 .. Len(y) : Joined(x, y)[Len(x) + i] = y[i]
BY DEF Joined

LEMMA NothingJoined ==
  ASSUME NEW S, NEW x \in Seq(S)
  PROVE  Joined(<<>>, x) = x /\ Joined(x, <<>>) = x
BY DEF Joined

LEMMA WrittenParts ==
  ASSUME NEW token, HasTexts(token)
  PROVE  WrittenAs(Written(token), token)
<1> DEFINE o == Opening(token)
           x == token.text
           c == Closing(token)
           g == token.gap
           ox == Joined(o, x)
           oxc == Joined(ox, c)
           w == Joined(oxc, g)
<1>1. x \in Seq(Char) /\ g \in Seq(Char) /\ o \in Seq(Char) /\ c \in Seq(Char)
  BY PartsFit DEF HasTexts
<1>2. Written(token) = w
  <2>1. CASE token.kind = "name"
    <3>1. o = <<Underscore, Underscore>> /\ c = <<>>
          /\ Written(token) = Joined(Joined(<<Underscore, Underscore>>, x), g)
      BY <2>1, Zenon DEF Opening, Closing, Written, Joined, Underscore
    <3> HIDE DEF o, c, x, g
    <3>2. ox \in Seq(Char)
      BY <1>1, JoinedFits
    <3>3. oxc = ox
      <4> HIDE DEF ox
      <4> QED BY <3>1, <3>2, NothingJoined
    <3> QED BY <3>1, <3>3
  <2>2. CASE token.kind = "word"
    <3>1. o = <<>> /\ c = <<>> /\ Written(token) = Joined(x, g)
      BY <2>2 DEF Opening, Closing, Written, Joined
    <3> HIDE DEF o, c, x, g
    <3>2. ox = x
      BY <1>1, <3>1, NothingJoined
    <3>3. oxc = x
      BY <1>1, <3>1, <3>2, NothingJoined
    <3> QED BY <3>1, <3>3
  <2>3. CASE token.kind \in {"quoted", "line", "block"}
    <3>1. CASE token.kind = "quoted"
      BY <3>1, Zenon DEF Opening, Closing, Written, Joined, Quote
    <3>2. CASE token.kind = "line"
      BY <3>2, Zenon DEF Opening, Closing, Written, Joined, Slash
    <3>3. CASE token.kind = "block"
      BY <3>3, Zenon DEF Opening, Closing, Written, Joined, Slash, Star
    <3> QED BY <2>3, <3>1, <3>2, <3>3
  <2> QED BY <2>1, <2>2, <2>3 DEF HasTexts, IsKind
<1> HIDE DEF o, c, x, g
<1>3. /\ ox \in Seq(Char) /\ Len(ox) = Len(o) + Len(x)
      /\ \A i \in 1 .. Len(o) : ox[i] = o[i]
      /\ \A i \in 1 .. Len(x) : ox[Len(o) + i] = x[i]
  BY <1>1, TextsJoined
<1> HIDE DEF ox
<1>4. /\ oxc \in Seq(Char) /\ Len(oxc) = Len(ox) + Len(c)
      /\ \A i \in 1 .. Len(ox) : oxc[i] = ox[i]
      /\ \A i \in 1 .. Len(c) : oxc[Len(ox) + i] = c[i]
  BY <1>1, <1>3, TextsJoined
<1> HIDE DEF oxc
<1>5. /\ w \in Seq(Char) /\ Len(w) = Len(oxc) + Len(g)
      /\ \A i \in 1 .. Len(oxc) : w[i] = oxc[i]
      /\ \A i \in 1 .. Len(g) : w[Len(oxc) + i] = g[i]
  BY <1>1, <1>4, TextsJoined
<1> HIDE DEF w
<1>6. Len(o) \in Nat /\ Len(x) \in Nat /\ Len(c) \in Nat /\ Len(g) \in Nat
  BY <1>1
<1>7. Len(ox) = TextEnd(token) /\ Len(oxc) = GapFrom(token)
  BY <1>3, <1>4 DEF TextEnd, GapFrom, o, x, c
<1>8. /\ \A i \in 1 .. Len(o) : w[i] = o[i]
      /\ \A i \in 1 .. Len(x) : w[Len(o) + i] = x[i]
      /\ \A i \in 1 .. Len(c) : w[Len(ox) + i] = c[i]
  <2> DEFINE lo == Len(o)
             lx == Len(x)
             lc == Len(c)
             lox == Len(ox)
             loxc == Len(oxc)
  <2>1. lo \in Nat /\ lx \in Nat /\ lc \in Nat /\ lox = lo + lx /\ loxc = lox + lc
    BY <1>3, <1>4, <1>6
  <2>2. /\ \A i \in 1 .. lo : ox[i] = o[i]
        /\ \A i \in 1 .. lx : ox[lo + i] = x[i]
        /\ \A i \in 1 .. lox : oxc[i] = ox[i]
        /\ \A i \in 1 .. lc : oxc[lox + i] = c[i]
        /\ \A i \in 1 .. loxc : w[i] = oxc[i]
    BY <1>3, <1>4, <1>5
  <2> HIDE DEF lo, lx, lc, lox, loxc
  <2>3. \A i \in 1 .. lox : w[i] = ox[i]
    <3> TAKE i \in 1 .. lox
    <3>1. i \in 1 .. loxc
      BY <2>1
    <3> QED BY <2>2, <3>1
  <2>4. \A i \in 1 .. lo : w[i] = o[i]
    <3> TAKE i \in 1 .. lo
    <3>1. i \in 1 .. lox
      BY <2>1
    <3> QED BY <2>2, <2>3, <3>1
  <2>5. \A i \in 1 .. lx : w[lo + i] = x[i]
    <3> TAKE i \in 1 .. lx
    <3>1. lo + i \in 1 .. lox
      BY <2>1
    <3> QED BY <2>2, <2>3, <3>1
  <2>6. \A i \in 1 .. lc : w[lox + i] = c[i]
    <3> TAKE i \in 1 .. lc
    <3>1. lox + i \in 1 .. loxc
      BY <2>1
    <3> QED BY <2>2, <3>1
  <2> QED BY <2>4, <2>5, <2>6 DEF lo, lx, lc, lox
<1> QED BY <1>2, <1>5, <1>7, <1>8 DEF WrittenAs, o, x, c, g

(* The file as the tokens lie in it: token k + 1 follows the offset O[k].  *)
TokenAt(o, token) ==
  /\ \A i \in 1 .. Len(Opening(token)) : At(o + i) = Opening(token)[i]
  /\ \A i \in 1 .. Len(token.text) : At(o + Len(Opening(token)) + i) = token.text[i]
  /\ \A i \in 1 .. Len(Closing(token)) : At(o + TextEnd(token) + i) = Closing(token)[i]
  /\ \A i \in 1 .. Len(token.gap) : At(o + GapFrom(token) + i) = token.gap[i]

IsLayout(O) ==
  /\ O \in [0 .. Len(document) -> Nat]
  /\ O[0] = 0 /\ O[Len(document)] = Len(contents)
  /\ \A k \in 0 .. Len(document) - 1 :
       /\ O[k + 1] = O[k] + GapFrom(document[k + 1]) + Len(document[k + 1].gap)
       /\ O[k + 1] <= Len(contents)
       /\ TokenAt(O[k], document[k + 1])

LEMMA PlacedAt ==
  ASSUME NEW o \in Nat, NEW w, NEW t, HasTexts(t), WrittenAs(w, t),
         \A i \in 1 .. Len(w) : At(o + i) = w[i]
  PROVE  TokenAt(o, t)
<1> DEFINE lo == Len(Opening(t))
           lx == Len(t.text)
           lc == Len(Closing(t))
           lg == Len(t.gap)
           te == TextEnd(t)
           gf == GapFrom(t)
           lw == Len(w)
<1>1. /\ lo \in Nat /\ lx \in Nat /\ lc \in Nat /\ lg \in Nat
      /\ te = lo + lx /\ gf = te + lc /\ lw = gf + lg
  BY PartsFit DEF WrittenAs
<1>2. /\ \A i \in 1 .. lo : w[i] = Opening(t)[i]
      /\ \A i \in 1 .. lx : w[lo + i] = t.text[i]
      /\ \A i \in 1 .. lc : w[te + i] = Closing(t)[i]
      /\ \A i \in 1 .. lg : w[gf + i] = t.gap[i]
  BY DEF WrittenAs
<1>3. \A i \in 1 .. lw : At(o + i) = w[i]
  OBVIOUS
<1> HIDE DEF lo, lx, lc, lg, te, gf, lw
<1> DEFINE A(p) == At(p)
<1>4. \A i \in 1 .. lw : A(o + i) = w[i]
  BY <1>3
<1> HIDE DEF A
<1>5. ASSUME NEW b \in Nat, NEW l \in Nat, b + l <= lw, NEW i \in 1 .. l
      PROVE  A(o + b + i) = w[b + i]
  <2>1. b + i \in 1 .. lw /\ o + (b + i) = o + b + i
    BY <1>1, <1>5
  <2> QED BY <1>4, <2>1
<1>6. \A i \in 1 .. lo : A(o + i) = Opening(t)[i]
  <2> TAKE i \in 1 .. lo
  <2>1. i \in 1 .. lw
    BY <1>1
  <2> QED BY <1>2, <1>4, <2>1
<1>7. \A i \in 1 .. lx : A(o + lo + i) = t.text[i]
  <2>1. lo \in Nat /\ lo + lx <= lw
    BY <1>1
  <2> QED BY <1>1, <1>2, <1>5, <2>1
<1>8. \A i \in 1 .. lc : A(o + te + i) = Closing(t)[i]
  <2>1. te \in Nat /\ te + lc <= lw
    BY <1>1
  <2> QED BY <1>1, <1>2, <1>5, <2>1
<1>9. \A i \in 1 .. lg : A(o + gf + i) = t.gap[i]
  <2>1. gf \in Nat /\ gf + lg <= lw
    BY <1>1
  <2> QED BY <1>1, <1>2, <1>5, <2>1
<1> QED BY <1>6, <1>7, <1>8, <1>9 DEF TokenAt, A, lo, lx, lc, lg, te, gf

LEMMA LayoutExists ==
  ASSUME Len(document) \in Nat, DOMAIN document = 1 .. Len(document),
         \A k \in DOMAIN document : HasTexts(document[k]),
         contents = FileOf(document), contents \in Seq(Char)
  PROVE  \E O : IsLayout(O)
<1> DEFINE n == Len(document)
           seqs == [k \in DOMAIN document |-> Written(document[k])]
<1>1. n \in Nat /\ contents = FlattenSeq(seqs) /\ DOMAIN document = 1 .. n
  BY DEF FileOf
<1>2. ASSUME NEW k \in 1 .. n PROVE WrittenAs(seqs[k], document[k])
  BY <1>2, WrittenParts
<1>3. seqs \in [1 .. n -> Seq(Char)]
  <2>1. \A k \in 1 .. n : seqs[k] \in Seq(Char)
    BY <1>2 DEF WrittenAs
  <2> QED BY <2>1
<1> HIDE DEF seqs, n
<1>4. PICK f : FlattenedTo(f, seqs, n, Char) /\ f[n] = contents
  BY <1>1, <1>3, FlattenSteps
<1>5. \A k \in 0 .. n : f[k] \in Seq(Char) /\ Len(f[k]) \in Nat
  BY <1>4 DEF FlattenedTo
<1>6. ASSUME NEW k \in 0 .. n - 1
      PROVE  /\ Len(f[k + 1]) = Len(f[k]) + Len(seqs[k + 1])
             /\ \A i \in 1 .. Len(f[k]) : f[k + 1][i] = f[k][i]
             /\ \A i \in 1 .. Len(seqs[k + 1]) : f[k + 1][Len(f[k]) + i] = seqs[k + 1][i]
             /\ Len(seqs[k + 1]) \in Nat
  <2>0. k \in 0 .. n /\ k + 1 \in 1 .. n
    BY <1>1
  <2>1. f[k] \in Seq(Char) /\ seqs[k + 1] \in Seq(Char)
    BY <1>3, <1>5, <2>0
  <2> DEFINE x == f[k]
             y == seqs[k + 1]
             z == f[k + 1]
  <2>2. z = Joined(x, y)
    BY <1>4 DEF FlattenedTo
  <2>3. x \in Seq(Char) /\ y \in Seq(Char)
    BY <2>1
  <2> HIDE DEF x, y, z
  <2>4. /\ Len(z) = Len(x) + Len(y) /\ Len(y) \in Nat
        /\ \A i \in 1 .. Len(x) : z[i] = x[i]
        /\ \A i \in 1 .. Len(y) : z[Len(x) + i] = y[i]
    <3>1. /\ Len(Joined(x, y)) = Len(x) + Len(y) /\ Len(y) \in Nat
          /\ \A i \in 1 .. Len(x) : Joined(x, y)[i] = x[i]
          /\ \A i \in 1 .. Len(y) : Joined(x, y)[Len(x) + i] = y[i]
      BY <2>3, TextsJoined
    <3> QED BY <2>2, <3>1
  <2> QED BY <2>4 DEF x, y, z
<1> DEFINE Kept(k, m) == /\ Len(f[k]) <= Len(f[m])
                         /\ \A i \in 1 .. Len(f[k]) : f[m][i] = f[k][i]
<1>7. ASSUME NEW k \in 0 .. n PROVE Kept(k, n)
  <2> DEFINE G == {m \in 0 .. n : k <= m => Kept(k, m)}
  <2>1. 0 \in G
    BY <1>1, <1>5
  <2>2. ASSUME NEW m \in 0 .. n - 1, m \in G PROVE m + 1 \in G
    <3>1. CASE k <= m
      <4>1. Kept(k, m)
        BY <2>2, <3>1
      <4> DEFINE lk == Len(f[k])
                 lm == Len(f[m])
                 ln == Len(f[m + 1])
                 ls == Len(seqs[m + 1])
      <4>0. m \in 0 .. n
        BY <1>1
      <4>2. lk \in Nat /\ lm \in Nat /\ ln = lm + ls /\ ls \in Nat /\ lk <= lm
        BY <1>5, <1>6, <4>0, <4>1
      <4>3. /\ \A i \in 1 .. lk : f[m][i] = f[k][i]
            /\ \A i \in 1 .. lm : f[m + 1][i] = f[m][i]
        BY <1>6, <4>1
      <4> HIDE DEF lk, lm, ln, ls
      <4>4. lk <= ln /\ 1 .. lk \subseteq 1 .. lm
        BY <4>2
      <4>5. \A i \in 1 .. lk : f[m + 1][i] = f[k][i]
        BY <4>3, <4>4
      <4>6. Kept(k, m + 1)
        BY <4>4, <4>5 DEF lk, ln
      <4> QED BY <1>1, <4>6
    <3>2. CASE k = m + 1
      <4>1. Kept(k, m + 1)
        BY <1>5, <3>2
      <4> QED BY <1>1, <4>1
    <3>3. CASE k > m + 1
      BY <1>1, <3>3
    <3> QED BY <1>1, <3>1, <3>2, <3>3
  <2>3. \A m \in 0 .. n : m \in G
    <3> HIDE DEF G
    <3> QED BY <1>1, <2>1, <2>2, Stepwise
  <2>4. n \in G
    BY <1>1, <2>3
  <2> QED BY <2>4
<1> DEFINE O == [k \in 0 .. n |-> Len(f[k])]
<1>8. O \in [0 .. n -> Nat] /\ O[0] = 0 /\ O[n] = Len(contents)
  BY <1>1, <1>4, <1>5 DEF FlattenedTo
<1>9. ASSUME NEW k \in 0 .. n - 1
      PROVE  /\ O[k + 1] = O[k] + GapFrom(document[k + 1]) + Len(document[k + 1].gap)
             /\ O[k + 1] <= Len(contents)
             /\ TokenAt(O[k], document[k + 1])
  <2> DEFINE j == k + 1
             o == Len(f[k])
             e == Len(f[j])
             m == Len(contents)
             w == seqs[j]
             lw == Len(w)
             t == document[j]
  <2>1. k \in 0 .. n /\ j \in 0 .. n /\ j \in 1 .. n
    BY <1>1
  <2>2. WrittenAs(w, t) /\ HasTexts(t)
    BY <1>1, <1>2, <2>1
  <2>3. e = o + lw /\ lw \in Nat /\ o \in Nat /\ e <= m
    BY <1>4, <1>5, <1>6, <1>7, <2>1
  <2>4. ASSUME NEW i \in 1 .. lw PROVE At(o + i) = w[i]
    <3>1. f[j][o + i] = w[i]
      BY <1>6
    <3> DEFINE p == o + i
    <3>2. m \in Nat
      BY <1>1
    <3>3. p \in 1 .. e /\ p \in 1 .. m
      <4> HIDE DEF o, e, m, lw
      <4> QED BY <2>3, <3>2
    <3> HIDE DEF p
    <3>4. contents[p] = f[j][p]
      BY <1>4, <1>7, <2>1, <3>3
    <3>5. p \in DOMAIN contents
      BY <3>3
    <3> QED BY <3>1, <3>4, <3>5 DEF At, p
  <2>5. O[k] = o /\ O[j] = e
    BY <2>1
  <2>6. lw = GapFrom(t) + Len(t.gap) /\ GapFrom(t) \in Nat /\ Len(t.gap) \in Nat
    BY <2>2, PartsFit DEF WrittenAs
  <2>7. TokenAt(o, t)
    <3> HIDE DEF o, w, t
    <3> QED BY <2>2, <2>3, <2>4, PlacedAt DEF lw
  <2>8. O[j] = o + GapFrom(t) + Len(t.gap) /\ O[j] <= m
    <3> HIDE DEF o, e, w, t, O, m, lw
    <3> QED BY <2>3, <2>5, <2>6
  <2> QED BY <2>5, <2>7, <2>8
<1>10. IsLayout(O)
  <2> HIDE DEF O
  <2> QED BY <1>8, <1>9 DEF IsLayout, n
<1> QED BY <1>10

-----------------------------------------------------------------------------
(* The sections after each token.                                          *)
AfterTo(f, d, n) ==
  f[0] = <<>> /\ \A k \in 0 .. n - 1 : f[k + 1] = AddToken(f[k], d[k + 1])

LEMMA AfterExists ==
  ASSUME NEW d, NEW n \in Nat
  PROVE  \E f : AfterTo(f, d, n)
<1> DEFINE G == {m \in 0 .. n : \E f : AfterTo(f, d, m)}
<1>1. 0 \in G
  <2> DEFINE f == [k \in 0 .. 0 |-> <<>>]
  <2>1. AfterTo(f, d, 0)
    BY DEF AfterTo
  <2> QED BY <2>1
<1>2. ASSUME NEW m \in 0 .. n - 1, m \in G PROVE m + 1 \in G
  <2>1. PICK f : AfterTo(f, d, m)
    BY <1>2
  <2> DEFINE next == AddToken(f[m], d[m + 1])
             g == [k \in 0 .. m + 1 |-> IF k <= m THEN f[k] ELSE next]
  <2> HIDE DEF next
  <2>2. g[0] = <<>>
    BY <2>1 DEF AfterTo
  <2>3. ASSUME NEW k \in 0 .. (m + 1) - 1 PROVE g[k + 1] = AddToken(g[k], d[k + 1])
    <3>1. CASE k + 1 <= m
      <4>1. k \in 0 .. m - 1 /\ k + 1 \in 0 .. m + 1 /\ k \in 0 .. m + 1
        BY <3>1
      <4>2. g[k + 1] = f[k + 1] /\ g[k] = f[k]
        BY <3>1, <4>1
      <4> QED BY <2>1, <4>1, <4>2 DEF AfterTo
    <3>2. CASE k = m
      <4>1. g[m + 1] = next /\ g[m] = f[m]
        OBVIOUS
      <4> QED BY <3>2, <4>1 DEF next
    <3> QED BY <3>1, <3>2
  <2>4. AfterTo(g, d, m + 1)
    BY <2>2, <2>3 DEF AfterTo
  <2> QED BY <2>4
<1>3. \A k \in 0 .. n : k \in G
  <2> HIDE DEF G
  <2> QED BY <1>1, <1>2, Stepwise
<1>4. n \in G
  BY <1>3
<1> QED BY <1>4

LEMMA AfterSteps ==
  ASSUME NEW d, Len(d) \in Nat
  PROVE  /\ AfterTo(After(d), d, Len(d))
         /\ Meaning(d) = After(d)[Len(d)]
<1> DEFINE n == Len(d)
           body(g) == [k \in 0 .. n |-> IF k = 0 THEN <<>> ELSE AddToken(g[k - 1], d[k])]
           after == CHOOSE g : g = body(g)
<1>1. After(d) = after
  BY DEF After
<1>2. PICK f : AfterTo(f, d, n)
  BY AfterExists
<1>3. \E g : g = body(g)
  <2> DEFINE g == [k \in 0 .. n |-> f[k]]
  <2>1. ASSUME NEW k \in 0 .. n PROVE g[k] = IF k = 0 THEN <<>> ELSE AddToken(g[k - 1], d[k])
    <3>1. CASE k = 0
      BY <1>2, <3>1 DEF AfterTo
    <3>2. CASE k # 0
      <4> DEFINE j == k - 1
      <4>1. j \in 0 .. n - 1 /\ j + 1 = k /\ j \in 0 .. n
        BY <3>2
      <4> HIDE DEF j
      <4>2. f[j + 1] = AddToken(f[j], d[j + 1])
        BY <1>2, <4>1 DEF AfterTo
      <4>3. g[j] = f[j] /\ g[k] = f[k]
        BY <4>1
      <4> QED BY <3>2, <4>1, <4>2, <4>3 DEF j
    <3> QED BY <3>1, <3>2
  <2>2. g = body(g)
    BY <2>1
  <2> QED BY <2>2
<1>4. after = body(after)
  <2> HIDE DEF body
  <2> QED BY <1>3
<1> HIDE DEF after
<1>5. after[0] = <<>>
  BY <1>4
<1>6. ASSUME NEW k \in 0 .. n - 1 PROVE after[k + 1] = AddToken(after[k], d[k + 1])
  <2> DEFINE i == k + 1
  <2>1. i \in 0 .. n /\ i # 0 /\ i - 1 = k
    OBVIOUS
  <2> HIDE DEF i
  <2>2. after[i] = AddToken(after[i - 1], d[i])
    BY <1>4, <2>1
  <2> QED BY <2>1, <2>2 DEF i
<1>7. AfterTo(after, d, n)
  BY <1>5, <1>6 DEF AfterTo
<1> QED BY <1>1, <1>7 DEF Meaning

-----------------------------------------------------------------------------
(* What a scan returns: the first place of S, or the end.                  *)
LEMMA ScanEnds ==
  ASSUME NEW n \in Nat, NEW p \in Nat, NEW S, S \subseteq p .. n,
         NEW r \in Nat, r = n + 1 \/ r \in S, \A q \in S : r <= q
  PROVE  Min({n + 1} \cup S) = r
<1> DEFINE T == {n + 1} \cup S
<1>1. T \subseteq Nat /\ r \in T
  OBVIOUS
<1>2. \A y \in T : r <= y
  OBVIOUS
<1> HIDE DEF T
<1>3. \A x \in T : (\A y \in T : x <= y) => x = r
  BY <1>1, <1>2
<1>4. Min(T) \in T /\ \A y \in T : Min(T) <= y
  BY <1>1, <1>2 DEF Min
<1> QED BY <1>3, <1>4 DEF T

(* A text that lies in the file is what is copied from there.              *)
LEMMA CopiedText ==
  ASSUME contents \in Seq(Char), NEW text \in Seq(Char), NEW o \in Nat,
         o + Len(text) <= Len(contents),
         \A i \in 1 .. Len(text) : At(o + i) = text[i]
  PROVE  SubSeq(contents, o + 1, o + Len(text)) = text
<1> DEFINE l == Len(text)
           copy == SubSeq(contents, o + 1, o + l)
<1>1. l \in Nat /\ Len(contents) \in Nat
  OBVIOUS
<1>2. copy \in Seq(Char) /\ Len(copy) = l /\ \A i \in 1 .. l : copy[i] = contents[o + i]
  <2>1. o + l - (o + 1) + 1 = l
    <3> HIDE DEF l
    <3> QED BY <1>1
  <2>2. /\ Len(copy) = IF o + 1 <= o + l THEN o + l - (o + 1) + 1 ELSE 0
        /\ copy = [i \in 1 .. Len(copy) |-> contents[i + (o + 1) - 1]]
    OBVIOUS
  <2> QED OBVIOUS
<1>3. ASSUME NEW i \in 1 .. l PROVE copy[i] = text[i]
  <2> DEFINE m == Len(contents)
  <2>1. o + i \in 1 .. m
    <3> HIDE DEF l, m
    <3> QED BY <1>1 DEF l, m
  <2>2. At(o + i) = contents[o + i]
    BY <2>1 DEF At
  <2> QED BY <1>2, <2>2
<1> HIDE DEF copy
<1> QED BY <1>1, <1>2, <1>3

-----------------------------------------------------------------------------
LEMMA WiderTexts ==
  ASSUME NEW S, NEW T, S \subseteq T
  PROVE  Seq(S) \subseteq Seq(T)
OBVIOUS

(* A plain document, and what its tokens are made of.                      *)
LEMMA DocumentFits ==
  ASSUME IsPlain(document)
  PROVE  /\ Len(document) \in Nat /\ DOMAIN document = 1 .. Len(document)
         /\ \A k \in 1 .. Len(document) :
              /\ HasTexts(document[k]) /\ IsToken(document[k])
              /\ document[k].text \in Seq(STRING)
              /\ document[k].gap \in Seq(Blank)
<1> DEFINE Shape == [kind : STRING, text : Seq(STRING), gap : Seq(Blank)]
           n == Len(document)
<1>1. document \in Seq(Shape) /\ \A k \in DOMAIN document : IsToken(document[k])
  BY DEF IsPlain, IsDocument
<1>2. n \in Nat /\ DOMAIN document = 1 .. n /\ \A k \in 1 .. n : document[k] \in Shape
  <2> HIDE DEF Shape
  <2> QED BY <1>1
<1>3. ASSUME NEW k \in 1 .. n
      PROVE  /\ HasTexts(document[k]) /\ IsToken(document[k])
             /\ document[k].text \in Seq(STRING)
             /\ document[k].gap \in Seq(Blank)
  <2> DEFINE t == document[k]
  <2>1. t.text \in Seq(STRING) /\ t.gap \in Seq(Blank)
    BY <1>2, <1>3
  <2>2. IsToken(t)
    BY <1>1, <1>2, <1>3
  <2> HIDE DEF t
  <2>3. IsKind(t)
    BY <2>2 DEF IsToken, IsKind
  <2>4. t.text \in Seq(Char) /\ t.gap \in Seq(Char)
    <3>1. STRING \subseteq Char /\ Blank \subseteq Char
      BY DEF Char
    <3> QED BY <2>1, <3>1, WiderTexts, Zenon
  <2> QED BY <2>1, <2>2, <2>3, <2>4 DEF HasTexts, t
<1> QED BY <1>2, <1>3

(* Opening and closing by kind.                                            *)
LEMMA KindsAre ==
  ASSUME NEW t
  PROVE  /\ t.kind = "name" => Opening(t) = <<Underscore, Underscore>> /\ Closing(t) = <<>>
         /\ t.kind = "word" => Opening(t) = <<>> /\ Closing(t) = <<>>
         /\ t.kind = "quoted" => Opening(t) = <<Quote>> /\ Closing(t) = <<Quote>>
         /\ t.kind = "line" => Opening(t) = <<Slash, Slash>> /\ Closing(t) = <<Newline>>
         /\ t.kind = "block" => Opening(t) = <<Slash, Star>> /\ Closing(t) = <<Star, Slash>>
BY DEF Opening, Closing

LEMMA Lengths ==
  /\ Len(<<>>) = 0
  /\ \A a : Len(<<a>>) = 1 /\ <<a>>[1] = a
  /\ \A a, b : Len(<<a, b>>) = 2 /\ <<a, b>>[1] = a /\ <<a, b>>[2] = b
OBVIOUS

LEMMA Sums ==
  \A o, l \in Nat :
    /\ o + 0 = o
    /\ o + (1 + l) = o + 1 + l /\ o + (2 + l) = o + 2 + l
    /\ o + (3 + l) = o + 3 + l /\ o + (4 + l) = o + 4 + l
    /\ 0 + l + 0 = l /\ 2 + l + 0 = 2 + l
    /\ 1 + l + 1 = 2 + l /\ 2 + l + 1 = 3 + l /\ 2 + l + 2 = 4 + l
OBVIOUS

LEMMA NameLies ==
  ASSUME NEW o \in Nat, NEW t, HasTexts(t), t.kind = "name", TokenAt(o, t)
  PROVE  /\ At(o + 1) = Underscore /\ At(o + 2) = Underscore
         /\ \A i \in 1 .. Len(t.text) : At(o + 2 + i) = t.text[i]
         /\ \A i \in 1 .. Len(t.gap) : At(o + 2 + Len(t.text) + i) = t.gap[i]
         /\ GapFrom(t) = 2 + Len(t.text)
<1>1. Opening(t) = <<Underscore, Underscore>> /\ Closing(t) = <<>>
  BY KindsAre
<1>2. Len(Opening(t)) = 2 /\ Len(Closing(t)) = 0
  BY <1>1, Lengths, Zenon
<1> DEFINE l == Len(t.text)
<1>3. l \in Nat
  BY PartsFit
<1>4. GapFrom(t) = 2 + l /\ TextEnd(t) = 2 + l
  <2>1. GapFrom(t) = 2 + l + 0 /\ TextEnd(t) = 2 + l
    BY <1>2 DEF GapFrom, TextEnd
  <2> HIDE DEF l
  <2> QED BY <1>3, <2>1
<1>5. At(o + 1) = Underscore /\ At(o + 2) = Underscore
  <2>1. 1 \in 1 .. Len(Opening(t)) /\ 2 \in 1 .. Len(Opening(t))
    BY <1>2
  <2>2. At(o + 1) = Opening(t)[1] /\ At(o + 2) = Opening(t)[2]
    BY <2>1 DEF TokenAt
  <2>3. Opening(t)[1] = Underscore /\ Opening(t)[2] = Underscore
    BY <1>1
  <2> QED BY <2>2, <2>3
<1>6. \A i \in 1 .. l : At(o + Len(Opening(t)) + i) = t.text[i]
  BY DEF TokenAt
<1>7. \A i \in 1 .. Len(t.gap) : At(o + GapFrom(t) + i) = t.gap[i]
  BY DEF TokenAt
<1>8. /\ o + 0 = o /\ o + (1 + l) = o + 1 + l /\ o + (2 + l) = o + 2 + l
      /\ o + (3 + l) = o + 3 + l /\ o + (4 + l) = o + 4 + l
  BY <1>3, Sums, Zenon
<1> HIDE DEF l
<1>9. QED
  BY <1>4, <1>5, <1>2, <1>6, <1>7, <1>8 DEF l

LEMMA WordLies ==
  ASSUME NEW o \in Nat, NEW t, HasTexts(t), t.kind = "word", TokenAt(o, t)
  PROVE  /\ \A i \in 1 .. Len(t.text) : At(o + i) = t.text[i]
         /\ \A i \in 1 .. Len(t.gap) : At(o + Len(t.text) + i) = t.gap[i]
         /\ GapFrom(t) = Len(t.text)
<1>1. Opening(t) = <<>> /\ Closing(t) = <<>>
  BY KindsAre
<1>2. Len(Opening(t)) = 0 /\ Len(Closing(t)) = 0
  BY <1>1, Lengths, Zenon
<1> DEFINE l == Len(t.text)
<1>3. l \in Nat
  BY PartsFit
<1>4. GapFrom(t) = l /\ TextEnd(t) = l
  <2>1. GapFrom(t) = 0 + l + 0 /\ TextEnd(t) = 0 + l
    BY <1>2 DEF GapFrom, TextEnd
  <2> HIDE DEF l
  <2> QED BY <1>3, <2>1
<1>5. \A i \in 1 .. l : At(o + Len(Opening(t)) + i) = t.text[i]
  BY DEF TokenAt
<1>6. \A i \in 1 .. Len(t.gap) : At(o + GapFrom(t) + i) = t.gap[i]
  BY DEF TokenAt
<1>7. /\ o + 0 = o /\ o + (1 + l) = o + 1 + l /\ o + (2 + l) = o + 2 + l
      /\ o + (3 + l) = o + 3 + l /\ o + (4 + l) = o + 4 + l
  BY <1>3, Sums, Zenon
<1> HIDE DEF l
<1>8. QED
  BY <1>4, <1>2, <1>5, <1>6, <1>7 DEF l

LEMMA QuotedLies ==
  ASSUME NEW o \in Nat, NEW t, HasTexts(t), t.kind = "quoted", TokenAt(o, t)
  PROVE  /\ At(o + 1) = Quote /\ At(o + 1 + Len(t.text) + 1) = Quote
         /\ \A i \in 1 .. Len(t.text) : At(o + 1 + i) = t.text[i]
         /\ \A i \in 1 .. Len(t.gap) : At(o + 2 + Len(t.text) + i) = t.gap[i]
         /\ GapFrom(t) = 2 + Len(t.text)
<1>1. Opening(t) = <<Quote>> /\ Closing(t) = <<Quote>>
  BY KindsAre
<1>2. Len(Opening(t)) = 1 /\ Len(Closing(t)) = 1
  BY <1>1, Lengths, Zenon
<1> DEFINE l == Len(t.text)
<1>3. l \in Nat
  BY PartsFit
<1>4. GapFrom(t) = 2 + l /\ TextEnd(t) = 1 + l
  <2>1. GapFrom(t) = 1 + l + 1 /\ TextEnd(t) = 1 + l
    BY <1>2 DEF GapFrom, TextEnd
  <2> HIDE DEF l
  <2> QED BY <1>3, <2>1
<1>5. At(o + 1) = Quote
  <2>1. 1 \in 1 .. Len(Opening(t)) /\ 1 \in 1 .. Len(Opening(t))
    BY <1>2
  <2>2. At(o + 1) = Opening(t)[1] /\ At(o + 1) = Opening(t)[1]
    BY <2>1 DEF TokenAt
  <2>3. Opening(t)[1] = Quote
    BY <1>1
  <2> QED BY <2>2, <2>3
<1>6. At(o + TextEnd(t) + 1) = Quote
  <2>1. 1 \in 1 .. Len(Closing(t)) /\ 1 \in 1 .. Len(Closing(t))
    BY <1>2
  <2>2. At(o + TextEnd(t) + 1) = Closing(t)[1] /\ At(o + TextEnd(t) + 1) = Closing(t)[1]
    BY <2>1 DEF TokenAt
  <2>3. Closing(t)[1] = Quote
    BY <1>1
  <2> QED BY <2>2, <2>3
<1>7. \A i \in 1 .. l : At(o + Len(Opening(t)) + i) = t.text[i]
  BY DEF TokenAt
<1>8. \A i \in 1 .. Len(t.gap) : At(o + GapFrom(t) + i) = t.gap[i]
  BY DEF TokenAt
<1>9. /\ o + 0 = o /\ o + (1 + l) = o + 1 + l /\ o + (2 + l) = o + 2 + l
      /\ o + (3 + l) = o + 3 + l /\ o + (4 + l) = o + 4 + l
  BY <1>3, Sums, Zenon
<1> HIDE DEF l
<1>10. QED
  BY <1>4, <1>5, <1>6, <1>2, <1>7, <1>8, <1>9 DEF l

LEMMA LineLies ==
  ASSUME NEW o \in Nat, NEW t, HasTexts(t), t.kind = "line", TokenAt(o, t)
  PROVE  /\ At(o + 1) = Slash /\ At(o + 2) = Slash /\ At(o + 2 + Len(t.text) + 1) = Newline
         /\ \A i \in 1 .. Len(t.text) : At(o + 2 + i) = t.text[i]
         /\ \A i \in 1 .. Len(t.gap) : At(o + 3 + Len(t.text) + i) = t.gap[i]
         /\ GapFrom(t) = 3 + Len(t.text)
<1>1. Opening(t) = <<Slash, Slash>> /\ Closing(t) = <<Newline>>
  BY KindsAre
<1>2. Len(Opening(t)) = 2 /\ Len(Closing(t)) = 1
  BY <1>1, Lengths, Zenon
<1> DEFINE l == Len(t.text)
<1>3. l \in Nat
  BY PartsFit
<1>4. GapFrom(t) = 3 + l /\ TextEnd(t) = 2 + l
  <2>1. GapFrom(t) = 2 + l + 1 /\ TextEnd(t) = 2 + l
    BY <1>2 DEF GapFrom, TextEnd
  <2> HIDE DEF l
  <2> QED BY <1>3, <2>1
<1>5. At(o + 1) = Slash /\ At(o + 2) = Slash
  <2>1. 1 \in 1 .. Len(Opening(t)) /\ 2 \in 1 .. Len(Opening(t))
    BY <1>2
  <2>2. At(o + 1) = Opening(t)[1] /\ At(o + 2) = Opening(t)[2]
    BY <2>1 DEF TokenAt
  <2>3. Opening(t)[1] = Slash /\ Opening(t)[2] = Slash
    BY <1>1
  <2> QED BY <2>2, <2>3
<1>6. At(o + TextEnd(t) + 1) = Newline
  <2>1. 1 \in 1 .. Len(Closing(t)) /\ 1 \in 1 .. Len(Closing(t))
    BY <1>2
  <2>2. At(o + TextEnd(t) + 1) = Closing(t)[1] /\ At(o + TextEnd(t) + 1) = Closing(t)[1]
    BY <2>1 DEF TokenAt
  <2>3. Closing(t)[1] = Newline
    BY <1>1
  <2> QED BY <2>2, <2>3
<1>7. \A i \in 1 .. l : At(o + Len(Opening(t)) + i) = t.text[i]
  BY DEF TokenAt
<1>8. \A i \in 1 .. Len(t.gap) : At(o + GapFrom(t) + i) = t.gap[i]
  BY DEF TokenAt
<1>9. /\ o + 0 = o /\ o + (1 + l) = o + 1 + l /\ o + (2 + l) = o + 2 + l
      /\ o + (3 + l) = o + 3 + l /\ o + (4 + l) = o + 4 + l
  BY <1>3, Sums, Zenon
<1> HIDE DEF l
<1>10. QED
  BY <1>4, <1>5, <1>6, <1>2, <1>7, <1>8, <1>9 DEF l

LEMMA BlockLies ==
  ASSUME NEW o \in Nat, NEW t, HasTexts(t), t.kind = "block", TokenAt(o, t)
  PROVE  /\ At(o + 1) = Slash /\ At(o + 2) = Star
         /\ At(o + 2 + Len(t.text) + 1) = Star /\ At(o + 2 + Len(t.text) + 2) = Slash
         /\ \A i \in 1 .. Len(t.text) : At(o + 2 + i) = t.text[i]
         /\ \A i \in 1 .. Len(t.gap) : At(o + 4 + Len(t.text) + i) = t.gap[i]
         /\ GapFrom(t) = 4 + Len(t.text)
<1>1. Opening(t) = <<Slash, Star>> /\ Closing(t) = <<Star, Slash>>
  BY KindsAre
<1>2. Len(Opening(t)) = 2 /\ Len(Closing(t)) = 2
  BY <1>1, Lengths, Zenon
<1> DEFINE l == Len(t.text)
<1>3. l \in Nat
  BY PartsFit
<1>4. GapFrom(t) = 4 + l /\ TextEnd(t) = 2 + l
  <2>1. GapFrom(t) = 2 + l + 2 /\ TextEnd(t) = 2 + l
    BY <1>2 DEF GapFrom, TextEnd
  <2> HIDE DEF l
  <2> QED BY <1>3, <2>1
<1>5. At(o + 1) = Slash /\ At(o + 2) = Star
  <2>1. 1 \in 1 .. Len(Opening(t)) /\ 2 \in 1 .. Len(Opening(t))
    BY <1>2
  <2>2. At(o + 1) = Opening(t)[1] /\ At(o + 2) = Opening(t)[2]
    BY <2>1 DEF TokenAt
  <2>3. Opening(t)[1] = Slash /\ Opening(t)[2] = Star
    BY <1>1
  <2> QED BY <2>2, <2>3
<1>6. At(o + TextEnd(t) + 1) = Star /\ At(o + TextEnd(t) + 2) = Slash
  <2>1. 1 \in 1 .. Len(Closing(t)) /\ 2 \in 1 .. Len(Closing(t))
    BY <1>2
  <2>2. At(o + TextEnd(t) + 1) = Closing(t)[1] /\ At(o + TextEnd(t) + 2) = Closing(t)[2]
    BY <2>1 DEF TokenAt
  <2>3. Closing(t)[1] = Star /\ Closing(t)[2] = Slash
    BY <1>1
  <2> QED BY <2>2, <2>3
<1>7. \A i \in 1 .. l : At(o + Len(Opening(t)) + i) = t.text[i]
  BY DEF TokenAt
<1>8. \A i \in 1 .. Len(t.gap) : At(o + GapFrom(t) + i) = t.gap[i]
  BY DEF TokenAt
<1>9. /\ o + 0 = o /\ o + (1 + l) = o + 1 + l /\ o + (2 + l) = o + 2 + l
      /\ o + (3 + l) = o + 3 + l /\ o + (4 + l) = o + 4 + l
  BY <1>3, Sums, Zenon
<1> HIDE DEF l
<1>10. QED
  BY <1>4, <1>5, <1>6, <1>2, <1>7, <1>8, <1>9 DEF l

-----------------------------------------------------------------------------
(* The parser between tokens and inside of comments.                       *)
Leads(k) == \A j \in 1 .. k : IsComment(document[j])

Headed(k, s) == s # <<>> <=> \E j \in 1 .. k : document[j].kind = "name"

(* Only white space is left before token k + 1, and none at all if that is *)
(* a comment ahead of the first section.                                   *)
Between(O, k, p, c) ==
  /\ c = "none" /\ p \in 1 .. O[k] + 1
  /\ \A q \in p .. O[k] : At(q) \in Blank
  /\ k < Len(document) /\ Leads(k + 1) => p = O[k] + 1

Within(O, k, p, c) ==
  /\ k < Len(document) /\ IsComment(document[k + 1])
  /\ c = document[k + 1].kind /\ p = O[k] + 3

Lies(O) == IsPlain(document) /\ contents \in Seq(Char) /\ IsLayout(O)

LEMMA TokenFits ==
  ASSUME NEW O, Lies(O), NEW k \in 0 .. Len(document) - 1
  PROVE  /\ k + 1 \in 1 .. Len(document) /\ k + 1 \in DOMAIN document
         /\ k \in 0 .. Len(document) /\ k + 1 \in 0 .. Len(document)
         /\ HasTexts(document[k + 1]) /\ IsToken(document[k + 1])
         /\ Len(document[k + 1].text) \in Nat /\ Len(document[k + 1].gap) \in Nat
         /\ document[k + 1].text \in Seq(Char)
         /\ \A i \in 1 .. Len(document[k + 1].gap) : document[k + 1].gap[i] \in Blank
         /\ GapFrom(document[k + 1]) \in Nat \ {0}
         /\ TokenAt(O[k], document[k + 1])
         /\ O[k] \in Nat /\ O[k + 1] \in Nat /\ Len(contents) \in Nat
         /\ O[k + 1] = O[k] + GapFrom(document[k + 1]) + Len(document[k + 1].gap)
         /\ O[k] < O[k + 1] /\ O[k + 1] <= Len(contents)
<1> DEFINE n == Len(document)
           t == document[k + 1]
           o == O[k]
           e == O[k + 1]
           lg == Len(t.gap)
           gf == GapFrom(t)
           m == Len(contents)
<1>1. n \in Nat /\ DOMAIN document = 1 .. n
  BY DocumentFits DEF Lies
<1>2. k + 1 \in 1 .. n /\ k \in 0 .. n /\ k + 1 \in 0 .. n
  BY <1>1
<1>3. HasTexts(t) /\ IsToken(t) /\ t.text \in Seq(STRING) /\ t.gap \in Seq(Blank)
  BY <1>2, DocumentFits DEF Lies
<1>4. o \in Nat /\ e \in Nat /\ e = o + gf + lg /\ e <= m /\ TokenAt(o, t) /\ m \in Nat
  <2>1. m \in Nat /\ IsLayout(O)
    BY DEF Lies
  <2>2. o \in Nat /\ e \in Nat
    BY <1>2, <2>1 DEF IsLayout
  <2>3. e = o + gf + lg /\ e <= m /\ TokenAt(o, t)
    BY <2>1 DEF IsLayout
  <2> QED BY <2>1, <2>2, <2>3
<1> HIDE DEF n, o, t
<1>5. Len(t.text) \in Nat /\ lg \in Nat /\ (\A i \in 1 .. lg : t.gap[i] \in Blank)
  BY <1>3
<1>6. gf \in Nat \ {0}
  <2> DEFINE l == Len(t.text)
  <2>1. l \in Nat
    BY <1>5
  <2>2. \/ gf = 2 + l \/ gf = 3 + l \/ gf = 4 + l
        \/ gf = l /\ t.text # <<>>
    BY <1>3, <1>4, NameLies, WordLies, QuotedLies, LineLies, BlockLies DEF IsToken
  <2>3. t.text # <<>> => l # 0
    BY <1>3
  <2> HIDE DEF l, gf
  <2> QED BY <2>1, <2>2, <2>3
<1>7. o < e
  <2> HIDE DEF e, gf, lg
  <2> QED BY <1>4, <1>5, <1>6
<1>8. t.text \in Seq(Char)
  BY <1>3 DEF HasTexts
<1> QED BY <1>1, <1>2, <1>3, <1>4, <1>5, <1>6, <1>7, <1>8 DEF n, t, o

LEMMA LayoutFits ==
  ASSUME NEW O, Lies(O), NEW k \in 0 .. Len(document)
  PROVE  /\ Len(document) \in Nat /\ Len(contents) \in Nat
         /\ O[k] \in Nat /\ O[k] <= Len(contents)
         /\ O[0] = 0
         /\ O[k] = Len(contents) <=> k = Len(document)
<1> DEFINE n == Len(document)
           m == Len(contents)
<1>1. n \in Nat /\ m \in Nat
  BY DocumentFits DEF Lies
<1>2. O[n] = m /\ O[0] = 0 /\ O[k] \in Nat
  BY DEF Lies, IsLayout
<1>3. CASE k = n
  BY <1>1, <1>2, <1>3
<1>4. CASE k # n
  <2>1. k \in 0 .. n - 1
    BY <1>1, <1>4
  <2>2. O[k] < O[k + 1] /\ O[k + 1] <= m /\ O[k + 1] \in Nat
    BY <2>1, TokenFits
  <2> HIDE DEF m
  <2>3. O[k] < m
    BY <1>1, <1>2, <2>2
  <2> QED BY <1>1, <1>2, <1>4, <2>3 DEF m
<1> QED BY <1>3, <1>4

(* The gap of a token is white space.                                      *)
LEMMA GapIsBlank ==
  ASSUME NEW O, Lies(O), NEW k \in 0 .. Len(document) - 1
  PROVE  \A q \in O[k] + GapFrom(document[k + 1]) + 1 .. O[k + 1] : At(q) \in Blank
<1> DEFINE t == document[k + 1]
           o == O[k]
           e == O[k + 1]
           lg == Len(t.gap)
           gf == GapFrom(t)
<1>1. /\ o \in Nat /\ gf \in Nat /\ lg \in Nat /\ e = o + gf + lg
      /\ \A i \in 1 .. lg : t.gap[i] \in Blank
  BY TokenFits
<1>2. \A i \in 1 .. lg : At(o + gf + i) = t.gap[i]
  BY TokenFits DEF TokenAt
<1> HIDE DEF t, o, e, lg, gf
<1>3. ASSUME NEW q \in o + gf + 1 .. e PROVE At(q) \in Blank
  <2> DEFINE i == q - (o + gf)
  <2>1. i \in 1 .. lg /\ o + gf + i = q
    BY <1>1
  <2> HIDE DEF i
  <2> QED BY <1>1, <1>2, <2>1
<1> QED BY <1>3 DEF t, o, e, gf

(* What a token starts with.                                               *)
LEMMA MarksOpen ==
  /\ \A p : StartsSection(p) <=> At(p) = Underscore /\ At(p + 1) = Underscore
  /\ \A p : OpensComment(p) <=> At(p) = Slash /\ At(p + 1) \in {Slash, Star}
  /\ \A p : Opened(p) = IF At(p + 1) = Slash THEN "line" ELSE "block"
  /\ \A p : IsBlank(p) <=> At(p) \in Blank
BY Zenon DEF StartsSection, OpensComment, Opened, IsBlank, Underscore, Slash, Star

LEMMA BehindTheEnd ==
  ASSUME contents \in Seq(Char)
  PROVE  At(Len(contents) + 1) = "nul"
BY DEF At

LEMMA FirstMark ==
  ASSUME NEW O, Lies(O), NEW k \in 0 .. Len(document) - 1
  PROVE  LET t == document[k + 1]
             p == O[k] + 1
         IN  /\ p \in 1 .. Len(contents) /\ p \in Nat /\ At(p) \notin Blank
             /\ t.kind = "name" => At(p) = Underscore /\ At(p + 1) = Underscore
             /\ t.kind = "quoted" => At(p) = Quote
             /\ t.kind = "word" => At(p) \notin {Slash, Quote}
             /\ IsComment(t) => At(p) = Slash /\ At(p + 1) \in {Slash, Star} /\ Opened(p) = t.kind
<1> DEFINE t == document[k + 1]
           o == O[k]
           p == o + 1
           m == Len(contents)
<1>1. /\ o \in Nat /\ HasTexts(t) /\ TokenAt(o, t) /\ IsToken(t) /\ m \in Nat
      /\ O[k + 1] \in Nat /\ o < O[k + 1] /\ O[k + 1] <= m
  BY TokenFits
<1>2. t.kind = "word" => t.text # <<>> /\ ToSet(t.text) \cap Blank = {} /\ Head(t.text) # Quote
  BY <1>1, Zenon DEF IsToken, Quote
<1>3. t.kind = "word" => Head(t.text) # Slash
  BY TokenFits, Zenon DEF Lies, IsPlain, Slash
<1>4. t.text \in Seq(Char)
  BY <1>1 DEF HasTexts
<1> HIDE DEF t, o, m
<1>5. p \in 1 .. m /\ p \in Nat /\ p + 1 = o + 2
  BY <1>1
<1>6. CASE t.kind = "name"
  <2>1. At(p) = Underscore /\ At(p + 1) = Underscore
    BY <1>1, <1>5, <1>6, NameLies
  <2> QED BY <1>5, <1>6, <2>1, MarksDiffer, Zenon DEF t, o, m, IsComment
<1>7. CASE t.kind = "word"
  <2>1. 1 \in 1 .. Len(t.text) /\ Head(t.text) = t.text[1] /\ t.text[1] \in ToSet(t.text)
    BY <1>2, <1>4, <1>7 DEF ToSet
  <2>2. At(p) = t.text[1]
    BY <1>1, <1>7, <2>1, WordLies
  <2>3. At(p) \notin Blank /\ At(p) \notin {Slash, Quote}
    BY <1>2, <1>3, <1>7, <2>1, <2>2
  <2> QED BY <1>5, <1>7, <2>3, Zenon DEF t, o, m, IsComment
<1>8. CASE t.kind = "quoted"
  <2>1. At(p) = Quote
    BY <1>1, <1>8, QuotedLies
  <2> QED BY <1>5, <1>8, <2>1, MarksDiffer, Zenon DEF t, o, m, IsComment
<1>9. CASE t.kind = "line"
  <2>1. At(p) = Slash /\ At(p + 1) = Slash
    BY <1>1, <1>5, <1>9, LineLies
  <2> QED BY <1>5, <1>9, <2>1, MarksDiffer, MarksOpen, Zenon DEF t, o, m, IsComment
<1>10. CASE t.kind = "block"
  <2>1. At(p) = Slash /\ At(p + 1) = Star
    BY <1>1, <1>5, <1>10, BlockLies
  <2> QED BY <1>5, <1>10, <2>1, MarksDiffer, MarksOpen, Zenon DEF t, o, m, IsComment
<1> QED BY <1>1, <1>6, <1>7, <1>8, <1>9, <1>10 DEF HasTexts, IsKind

-----------------------------------------------------------------------------
(* Anywhere in the gap of a token, or at the end of a line comment, the    *)
(* parser is between that token and the next.                              *)
LEMMA BehindToken ==
  ASSUME NEW O, Lies(O), NEW k \in 0 .. Len(document) - 1, NEW p \in Nat \ {0},
         O[k] + GapFrom(document[k + 1]) <= p, p <= O[k + 1] + 1,
         p = O[k] + GapFrom(document[k + 1]) => document[k + 1].kind = "line"
  PROVE  Between(O, k + 1, p, "none")
<1> DEFINE t == document[k + 1]
           o == O[k]
           e == O[k + 1]
           lg == Len(t.gap)
           gf == GapFrom(t)
           l == Len(t.text)
<1>1. /\ o \in Nat /\ gf \in Nat \ {0} /\ lg \in Nat /\ e = o + gf + lg /\ l \in Nat /\ e \in Nat
      /\ HasTexts(t) /\ TokenAt(o, t)
  BY TokenFits
<1>2. p \in 1 .. e + 1
  BY <1>1
<1>3. \A q \in o + gf + 1 .. e : At(q) \in Blank
  BY GapIsBlank
<1>4. t.kind = "line" => At(o + gf) = Newline
  <2> SUFFICES ASSUME t.kind = "line" PROVE At(o + gf) = Newline
    OBVIOUS
  <2>1. gf = 3 + l /\ At(o + 2 + l + 1) = Newline
    BY <1>1, LineLies
  <2>2. o + gf = o + 2 + l + 1
    <3> HIDE DEF o, l, gf
    <3> QED BY <1>1, <2>1
  <2> QED BY <2>1, <2>2
<1>5. \A q \in p .. e : At(q) \in Blank
  <2> SUFFICES ASSUME NEW q, q \in p .. e PROVE At(q) \in Blank
    OBVIOUS
  <2>1. CASE q = o + gf
    <3>1. p = o + gf
      <4> HIDE DEF o, gf, e
      <4> QED BY <1>1, <2>1 DEF o, gf
    <3>2. t.kind = "line"
      BY <3>1
    <3> QED BY <1>4, <2>1, <3>2 DEF Blank
  <2>2. CASE q # o + gf
    <3>1. q \in o + gf + 1 .. e
      <4>1. o + gf <= p /\ q \in p .. e
        OBVIOUS
      <4> HIDE DEF o, gf, e, t, l, lg
      <4> QED BY <1>1, <2>2, <4>1
    <3> QED BY <1>3, <3>1
  <2> QED BY <2>1, <2>2
<1>6. ASSUME k + 1 < Len(document), Leads(k + 1 + 1) PROVE p = e + 1
  <2> DEFINE j == k + 1 + 1
  <2>1. j \in DOMAIN document /\ j > 1 /\ j - 1 = k + 1 /\ k + 1 \in 1 .. j
    BY <1>6, DocumentFits DEF Lies
  <2>2. \A i \in 1 .. j : IsComment(document[i])
    BY <1>6 DEF Leads
  <2>3. document[j - 1].kind = "block" /\ document[j - 1].gap = <<>>
    <3> HIDE DEF j
    <3> QED BY <2>1, <2>2 DEF Lies, IsPlain
  <2>4. t.kind = "block" /\ t.gap = <<>>
    BY <2>1, <2>3
  <2>5. lg = 0 /\ p # o + gf
    BY <2>4
  <2>6. o + gf <= p /\ p <= e + 1
    OBVIOUS
  <2> HIDE DEF o, gf, e, lg
  <2> QED BY <1>1, <2>5, <2>6
<1> HIDE DEF e
<1> QED BY <1>2, <1>5, <1>6 DEF Between, e

(* A comment ahead of the first section leads.                             *)
LEMMA NoNamesLead ==
  ASSUME NEW O, Lies(O), NEW k \in 0 .. Len(document) - 1,
         ~ \E j \in 1 .. k : document[j].kind = "name", IsComment(document[k + 1])
  PROVE  Leads(k + 1)
<1>1. Len(document) \in Nat /\ DOMAIN document = 1 .. Len(document)
  BY DocumentFits DEF Lies
<1> SUFFICES ASSUME NEW j \in 1 .. k + 1, ~IsComment(document[j]) PROVE FALSE
  BY DEF Leads
<1>2. j \in 1 .. k /\ j \in DOMAIN document
  BY <1>1
<1>3. IsArgument(document[j])
  <2>1. IsKind(document[j])
    BY <1>1, <1>2, DocumentFits DEF Lies, HasTexts
  <2> QED BY <1>2, <2>1 DEF IsKind, IsComment, IsArgument
<1>4. PICK i \in 1 .. j - 1 : document[i].kind = "name"
  BY <1>2, <1>3 DEF Lies, IsPlain, IsDocument
<1> QED BY <1>2, <1>4

-----------------------------------------------------------------------------
(* Where the scans of the parser end.                                      *)
FirstOf(S) == Min({Len(contents) + 1} \cup S)

LEMMA FirstIs ==
  ASSUME contents \in Seq(Char), NEW p \in Nat, NEW S, S \subseteq p .. Len(contents),
         NEW r \in Nat, r = Len(contents) + 1 \/ r \in S, \A q \in S : r <= q
  PROVE  FirstOf(S) = r
<1> DEFINE n == Len(contents)
<1>1. n \in Nat
  OBVIOUS
<1> HIDE DEF n
<1>2. Min({n + 1} \cup S) = r
  BY <1>1, ScanEnds DEF n
<1> QED BY <1>2 DEF FirstOf, n

LEMMA NextTextIs ==
  ASSUME NEW O, Lies(O), NEW k \in 0 .. Len(document), NEW p, NEW c, Between(O, k, p, c)
  PROVE  FirstOf({q \in p .. Len(contents) : ~IsBlank(q)}) = O[k] + 1
<1> DEFINE o == O[k]
           m == Len(contents)
           S == {q \in p .. m : ~IsBlank(q)}
           r == o + 1
<1>1. o \in Nat /\ m \in Nat /\ o <= m /\ Len(document) \in Nat /\ (o = m <=> k = Len(document))
  BY LayoutFits
<1>2. p \in 1 .. o + 1 /\ \A q \in p .. o : At(q) \in Blank
  BY DEF Between
<1>3. r = m + 1 \/ r \in S
  <2>1. CASE k = Len(document)
    BY <1>1, <2>1
  <2>2. CASE k # Len(document)
    <3>1. k \in 0 .. Len(document) - 1
      BY <1>1, <2>2
    <3>2. r \in 1 .. m /\ ~IsBlank(r)
      BY <3>1, FirstMark, MarksOpen
    <3>3. r \in p .. m
      <4> HIDE DEF o, m
      <4> QED BY <1>1, <1>2, <3>2
    <3> QED BY <3>2, <3>3
  <2> QED BY <2>1, <2>2
<1>4. ASSUME NEW q \in S PROVE r <= q
  <2>1. q \in p .. m /\ At(q) \notin Blank
    BY MarksOpen
  <2> HIDE DEF o, m, S
  <2>2. q \notin p .. o
    BY <1>2, <2>1
  <2> QED BY <1>1, <1>2, <2>1, <2>2
<1>5. S \subseteq p .. m /\ p \in Nat /\ r \in Nat
  <2>1. S \subseteq p .. m
    OBVIOUS
  <2> HIDE DEF o, m, S
  <2> QED BY <1>1, <1>2, <2>1
<1>6. contents \in Seq(Char)
  BY DEF Lies
<1> HIDE DEF S, r
<1>7. FirstOf(S) = r
  BY <1>3, <1>4, <1>5, <1>6, FirstIs DEF m
<1> QED BY <1>7 DEF S, r

-----------------------------------------------------------------------------
(* What a token of each kind is read as: a name and an argument to their   *)
(* ends.                                                                   *)
LEMMA NameEnds ==
  ASSUME NEW O, Lies(O), NEW k \in 0 .. Len(document) - 1, document[k + 1].kind = "name"
  PROVE  LET t == document[k + 1]
             r == O[k] + 3 + Len(t.text)
         IN  /\ FirstOf({q \in O[k] + 3 .. Len(contents) : IsBlank(q)}) = r
             /\ r \in Nat /\ r <= Len(contents)
             /\ SubSeq(contents, O[k] + 3, r - 1) = t.text
             /\ Between(O, k + 1, r + 1, "none")
<1> DEFINE t == document[k + 1]
           o == O[k]
           e == O[k + 1]
           lg == Len(t.gap)
           gf == GapFrom(t)
           l == Len(t.text)
           m == Len(contents)
           r == o + 3 + l
           S == {q \in o + 3 .. m : IsBlank(q)}
<1>1. /\ o \in Nat /\ gf \in Nat /\ lg \in Nat /\ e = o + gf + lg /\ l \in Nat /\ e \in Nat
      /\ m \in Nat /\ e <= m /\ HasTexts(t) /\ TokenAt(o, t) /\ t.text \in Seq(Char)
  BY TokenFits
<1>2. t.gap # <<>> /\ ToSet(t.text) \cap Blank = {}
  <2>1. k + 1 \in DOMAIN document /\ IsToken(t)
    BY TokenFits
  <2> QED BY <2>1 DEF Lies, IsPlain, IsToken
<1>3. lg > 0
  <2>1. t.gap \in Seq(Char)
    BY <1>1 DEF HasTexts
  <2> HIDE DEF t
  <2> QED BY <1>2, <2>1
<1>4. gf = 2 + l /\ \A i \in 1 .. l : At(o + 2 + i) = t.text[i]
  <2>1. t.kind = "name" /\ o \in Nat /\ HasTexts(t) /\ TokenAt(o, t)
    BY <1>1
  <2> HIDE DEF o, t
  <2> QED BY <2>1, NameLies, Zenon
<1>5. \A i \in 1 .. l : t.text[i] \notin Blank
  <2> HIDE DEF t
  <2> QED BY <1>1, <1>2 DEF ToSet
<1>6. r \in Nat /\ r <= m /\ r \in o + 3 .. m /\ r \in o + gf + 1 .. e /\ r = o + gf + 1
  <2> HIDE DEF o, e, lg, gf, l, m
  <2> QED BY <1>1, <1>3, <1>4
<1>7. IsBlank(r)
  BY <1>6, GapIsBlank, MarksOpen
<1>8. ASSUME NEW q \in S PROVE r <= q
  <2>1. q \in o + 3 .. m /\ At(q) \in Blank
    BY MarksOpen
  <2> DEFINE i == q - (o + 2)
  <2>2. i \notin 1 .. l
    <3> SUFFICES ASSUME i \in 1 .. l PROVE FALSE
      OBVIOUS
    <3>1. o + 2 + i = q
      <4> HIDE DEF o, m
      <4> QED BY <1>1, <2>1
    <3> HIDE DEF i
    <3>2. At(q) = t.text[i]
      BY <1>4, <3>1
    <3> QED BY <1>5, <2>1, <3>2
  <2> HIDE DEF o, l, m
  <2> QED BY <1>1, <2>1, <2>2
<1>9. contents \in Seq(Char) /\ S \subseteq o + 3 .. m /\ o + 3 \in Nat
  BY <1>1 DEF Lies
<1>10. FirstOf(S) = r
  <2>1. r \in S
    BY <1>6, <1>7
  <2> HIDE DEF S, r
  <2> QED BY <1>6, <1>8, <1>9, <2>1, FirstIs
<1>11. SubSeq(contents, o + 3, r - 1) = t.text
  <2> DEFINE b == o + 2
  <2>1. b \in Nat /\ b + 1 = o + 3 /\ b + l = r - 1 /\ b + l <= m
    <3> HIDE DEF o, l, m
    <3> QED BY <1>1, <1>6
  <2>2. \A i \in 1 .. l : At(b + i) = t.text[i]
    BY <1>4
  <2> HIDE DEF b
  <2>3. SubSeq(contents, b + 1, b + l) = t.text
    <3> HIDE DEF t
    <3> QED BY <1>1, <1>9, <2>1, <2>2, CopiedText DEF l, m
  <2> QED BY <2>1, <2>3
<1>12. Between(O, k + 1, r + 1, "none")
  <2>1. /\ r + 1 \in Nat \ {0} /\ o + gf <= r + 1 /\ r + 1 <= e + 1 /\ r + 1 # o + gf
    <3> HIDE DEF o, e, lg, gf, l, m
    <3> QED BY <1>1, <1>6
  <2> HIDE DEF r
  <2> QED BY <2>1, BehindToken
<1> HIDE DEF S
<1> QED BY <1>6, <1>10, <1>11, <1>12 DEF S

LEMMA QuotedEnds ==
  ASSUME NEW O, Lies(O), NEW k \in 0 .. Len(document) - 1, document[k + 1].kind = "quoted"
  PROVE  LET t == document[k + 1]
             r == O[k] + 2 + Len(t.text)
         IN  /\ FirstOf({q \in O[k] + 2 .. Len(contents) : At(q) = Quote}) = r
             /\ r \in Nat /\ r # O[k] + 2 /\ O[k] \in Nat
             /\ SubSeq(contents, O[k] + 2, r - 1) = t.text
             /\ Between(O, k + 1, r + 1, "none")
<1> DEFINE t == document[k + 1]
           o == O[k]
           e == O[k + 1]
           lg == Len(t.gap)
           gf == GapFrom(t)
           l == Len(t.text)
           m == Len(contents)
           r == o + 2 + l
           S == {q \in o + 2 .. m : At(q) = Quote}
<1>1. /\ o \in Nat /\ gf \in Nat /\ lg \in Nat /\ e = o + gf + lg /\ l \in Nat /\ e \in Nat
      /\ m \in Nat /\ e <= m /\ HasTexts(t) /\ TokenAt(o, t) /\ t.text \in Seq(Char)
  BY TokenFits
<1>2. t.text # <<>> /\ Quote \notin ToSet(t.text)
  <2>1. k + 1 \in DOMAIN document /\ IsToken(t)
    BY TokenFits
  <2>2. t.text # <<>>
    BY <2>1 DEF Lies, IsPlain
  <2>3. Quote \notin ToSet(t.text)
    BY <2>1, Zenon DEF IsToken, Quote
  <2> QED BY <2>2, <2>3
<1>3. l > 0
  <2> HIDE DEF t
  <2> QED BY <1>1, <1>2
<1>4. /\ gf = 2 + l /\ \A i \in 1 .. l : At(o + 1 + i) = t.text[i]
      /\ At(o + 1 + l + 1) = Quote
  <2>1. t.kind = "quoted" /\ o \in Nat /\ HasTexts(t) /\ TokenAt(o, t)
    BY <1>1
  <2> HIDE DEF o, t
  <2> QED BY <2>1, QuotedLies, Zenon
<1>5. \A i \in 1 .. l : t.text[i] # Quote
  <2> HIDE DEF t
  <2> QED BY <1>1, <1>2 DEF ToSet
<1>6. r \in Nat /\ r \in o + 2 .. m /\ r = o + gf /\ r # o + 2 /\ r = o + 1 + l + 1 /\ r <= e
  <2> HIDE DEF o, e, lg, gf, l, m
  <2> QED BY <1>1, <1>3, <1>4
<1>7. At(r) = Quote
  BY <1>4, <1>6
<1>8. ASSUME NEW q \in S PROVE r <= q
  <2>1. q \in o + 2 .. m /\ At(q) = Quote
    OBVIOUS
  <2> DEFINE i == q - (o + 1)
  <2>2. i \notin 1 .. l
    <3> SUFFICES ASSUME i \in 1 .. l PROVE FALSE
      OBVIOUS
    <3>1. o + 1 + i = q
      <4> HIDE DEF o, m
      <4> QED BY <1>1, <2>1
    <3> HIDE DEF i
    <3>2. At(q) = t.text[i]
      BY <1>4, <3>1
    <3> QED BY <1>5, <2>1, <3>2
  <2> HIDE DEF o, l, m
  <2> QED BY <1>1, <2>1, <2>2
<1>9. contents \in Seq(Char) /\ S \subseteq o + 2 .. m /\ o + 2 \in Nat
  BY <1>1 DEF Lies
<1>10. FirstOf(S) = r
  <2>1. r \in S
    BY <1>6, <1>7
  <2> HIDE DEF S, r
  <2> QED BY <1>6, <1>8, <1>9, <2>1, FirstIs
<1>11. SubSeq(contents, o + 2, r - 1) = t.text
  <2> DEFINE b == o + 1
  <2>1. b \in Nat /\ b + 1 = o + 2 /\ b + l = r - 1 /\ b + l <= m
    <3> HIDE DEF o, l, m, e
    <3> QED BY <1>1, <1>6
  <2>2. \A i \in 1 .. l : At(b + i) = t.text[i]
    BY <1>4
  <2> HIDE DEF b
  <2>3. SubSeq(contents, b + 1, b + l) = t.text
    <3> HIDE DEF t
    <3> QED BY <1>1, <1>9, <2>1, <2>2, CopiedText DEF l, m
  <2> QED BY <2>1, <2>3
<1>12. Between(O, k + 1, r + 1, "none")
  <2>1. /\ r + 1 \in Nat \ {0} /\ o + gf <= r + 1 /\ r + 1 <= e + 1 /\ r + 1 # o + gf
    <3> HIDE DEF o, e, lg, gf, l, m
    <3> QED BY <1>1, <1>6
  <2> HIDE DEF r
  <2> QED BY <2>1, BehindToken
<1> HIDE DEF S
<1> QED BY <1>1, <1>6, <1>10, <1>11, <1>12 DEF S

LEMMA LineEnds ==
  ASSUME NEW O, Lies(O), NEW k \in 0 .. Len(document) - 1, document[k + 1].kind = "line"
  PROVE  LET r == O[k] + 3 + Len(document[k + 1].text)
         IN  /\ FirstOf({q \in O[k] + 3 .. Len(contents) : At(q) = Newline}) = r
             /\ r \in Nat /\ r <= Len(contents)
             /\ Between(O, k + 1, r, "none")
<1> DEFINE t == document[k + 1]
           o == O[k]
           e == O[k + 1]
           lg == Len(t.gap)
           gf == GapFrom(t)
           l == Len(t.text)
           m == Len(contents)
           r == o + 3 + l
           S == {q \in o + 3 .. m : At(q) = Newline}
<1>1. /\ o \in Nat /\ gf \in Nat /\ lg \in Nat /\ e = o + gf + lg /\ l \in Nat /\ e \in Nat
      /\ m \in Nat /\ e <= m /\ HasTexts(t) /\ TokenAt(o, t) /\ t.text \in Seq(Char)
  BY TokenFits
<1>2. Newline \notin ToSet(t.text)
  BY TokenFits DEF IsToken
<1>4. /\ gf = 3 + l /\ \A i \in 1 .. l : At(o + 2 + i) = t.text[i]
      /\ At(o + 2 + l + 1) = Newline
  <2>1. t.kind = "line" /\ o \in Nat /\ HasTexts(t) /\ TokenAt(o, t)
    BY <1>1
  <2> HIDE DEF o, t
  <2> QED BY <2>1, LineLies, Zenon
<1>5. \A i \in 1 .. l : t.text[i] # Newline
  <2> HIDE DEF t
  <2> QED BY <1>1, <1>2 DEF ToSet
<1>6. r \in Nat \ {0} /\ r \in o + 3 .. m /\ r <= m /\ r = o + gf /\ r = o + 2 + l + 1 /\ r <= e + 1
  <2> HIDE DEF o, e, lg, gf, l, m
  <2> QED BY <1>1, <1>4
<1>7. At(r) = Newline
  BY <1>4, <1>6
<1>8. ASSUME NEW q \in S PROVE r <= q
  <2>1. q \in o + 3 .. m /\ At(q) = Newline
    OBVIOUS
  <2> DEFINE i == q - (o + 2)
  <2>2. i \notin 1 .. l
    <3> SUFFICES ASSUME i \in 1 .. l PROVE FALSE
      OBVIOUS
    <3>1. o + 2 + i = q
      <4> HIDE DEF o, m
      <4> QED BY <1>1, <2>1
    <3> HIDE DEF i
    <3>2. At(q) = t.text[i]
      BY <1>4, <3>1
    <3> QED BY <1>5, <2>1, <3>2
  <2> HIDE DEF o, l, m
  <2> QED BY <1>1, <2>1, <2>2
<1>9. contents \in Seq(Char) /\ S \subseteq o + 3 .. m /\ o + 3 \in Nat
  BY <1>1 DEF Lies
<1>10. FirstOf(S) = r
  <2>1. r \in S
    BY <1>6, <1>7
  <2> HIDE DEF S, r
  <2> QED BY <1>6, <1>8, <1>9, <2>1, FirstIs
<1>11. Between(O, k + 1, r, "none")
  <2>1. o + gf <= r
    <3> HIDE DEF o, e, lg, gf, l, m, r
    <3> QED BY <1>1, <1>6
  <2> HIDE DEF r
  <2> QED BY <1>6, <2>1, BehindToken
<1> HIDE DEF S
<1> QED BY <1>6, <1>10, <1>11 DEF S

LEMMA BlockEnds ==
  ASSUME NEW O, Lies(O), NEW k \in 0 .. Len(document) - 1, document[k + 1].kind = "block"
  PROVE  LET r == O[k] + 3 + Len(document[k + 1].text)
         IN  /\ FirstOf({q \in O[k] + 3 .. Len(contents) : At(q) = Star \/ At(q + 1) = Slash}) = r
             /\ r \in Nat /\ r <= Len(contents)
             /\ Between(O, k + 1, r + 2, "none")
<1> DEFINE t == document[k + 1]
           o == O[k]
           e == O[k + 1]
           lg == Len(t.gap)
           gf == GapFrom(t)
           l == Len(t.text)
           m == Len(contents)
           r == o + 3 + l
           S == {q \in o + 3 .. m : At(q) = Star \/ At(q + 1) = Slash}
<1>1. /\ o \in Nat /\ gf \in Nat /\ lg \in Nat /\ e = o + gf + lg /\ l \in Nat /\ e \in Nat
      /\ m \in Nat /\ e <= m /\ HasTexts(t) /\ TokenAt(o, t) /\ t.text \in Seq(Char)
  BY TokenFits
<1>2. {Star, Slash} \cap ToSet(t.text) = {}
  BY TokenFits, Zenon DEF Lies, IsPlain, Star, Slash
<1>4. /\ gf = 4 + l /\ \A i \in 1 .. l : At(o + 2 + i) = t.text[i]
      /\ At(o + 2 + l + 1) = Star
  <2>1. t.kind = "block" /\ o \in Nat /\ HasTexts(t) /\ TokenAt(o, t)
    BY <1>1
  <2> HIDE DEF o, t
  <2> QED BY <2>1, BlockLies, Zenon
<1>5. \A i \in 1 .. l : t.text[i] # Star /\ t.text[i] # Slash
  <2> HIDE DEF t
  <2>1. \A i \in 1 .. l : t.text[i] \in ToSet(t.text)
    BY <1>1 DEF ToSet
  <2> QED BY <1>2, <2>1
<1>6. r \in Nat \ {0} /\ r \in o + 3 .. m /\ r <= m /\ r = o + 2 + l + 1
  <2> HIDE DEF o, e, lg, gf, l, m
  <2> QED BY <1>1, <1>4
<1>7. At(r) = Star
  BY <1>4, <1>6
<1>8. ASSUME NEW q \in S PROVE r <= q
  <2>1. q \in o + 3 .. m /\ (At(q) = Star \/ At(q + 1) = Slash)
    OBVIOUS
  <2> DEFINE i == q - (o + 2)
  <2>2. i \notin 1 .. l
    <3> SUFFICES ASSUME i \in 1 .. l PROVE FALSE
      OBVIOUS
    <3>1. o + 2 + i = q /\ (i = l => q + 1 = r) /\ (i # l => i + 1 \in 1 .. l /\ o + 2 + (i + 1) = q + 1)
      <4> HIDE DEF o, m, l
      <4> QED BY <1>1, <2>1
    <3> HIDE DEF i
    <3>2. At(q) # Star
      BY <1>4, <1>5, <3>1
    <3>3. At(q + 1) # Slash
      <4>1. CASE i = l
        BY <1>7, <3>1, <4>1, MarksDiffer
      <4>2. CASE i # l
        <5>1. At(q + 1) = t.text[i + 1]
          BY <1>4, <3>1, <4>2
        <5> QED BY <1>5, <3>1, <4>2, <5>1
      <4> QED BY <4>1, <4>2
    <3> QED BY <2>1, <3>2, <3>3
  <2> HIDE DEF o, l, m
  <2> QED BY <1>1, <2>1, <2>2
<1>9. contents \in Seq(Char) /\ S \subseteq o + 3 .. m /\ o + 3 \in Nat
  BY <1>1 DEF Lies
<1>10. FirstOf(S) = r
  <2>1. r \in S
    BY <1>6, <1>7
  <2> HIDE DEF S, r
  <2> QED BY <1>6, <1>8, <1>9, <2>1, FirstIs
<1>11. Between(O, k + 1, r + 2, "none")
  <2>1. /\ r + 2 \in Nat \ {0} /\ o + gf <= r + 2 /\ r + 2 <= e + 1 /\ r + 2 # o + gf
    <3> HIDE DEF o, e, lg, gf, l, m
    <3> QED BY <1>1, <1>4, <1>6
  <2> HIDE DEF r
  <2> QED BY <2>1, BehindToken
<1> HIDE DEF S
<1> QED BY <1>6, <1>10, <1>11 DEF S

-----------------------------------------------------------------------------
(* How comments are opened and left.                                       *)
LEMMA CommentOpens ==
  ASSUME NEW O, Lies(O), NEW k \in 0 .. Len(document) - 1, IsComment(document[k + 1])
  PROVE  O[k] + 3 <= Len(contents)
<1> DEFINE t == document[k + 1]
           o == O[k]
           e == O[k + 1]
           lg == Len(t.gap)
           gf == GapFrom(t)
           l == Len(t.text)
           m == Len(contents)
<1>1. /\ o \in Nat /\ gf \in Nat /\ lg \in Nat /\ e = o + gf + lg /\ l \in Nat /\ e \in Nat
      /\ m \in Nat /\ e <= m
  BY TokenFits
<1>2. gf = 3 + l \/ gf = 4 + l
  <2>1. o \in Nat /\ HasTexts(t) /\ TokenAt(o, t) /\ (t.kind = "line" \/ t.kind = "block")
    BY TokenFits DEF IsComment
  <2> HIDE DEF o, t
  <2> QED BY <2>1, LineLies, BlockLies, Zenon
<1>3. o + 3 <= m
  <2> HIDE DEF o, e, lg, gf, l, m
  <2> QED BY <1>1, <1>2
<1> QED BY <1>3

(* A word does not hold what opens a comment.                              *)
LEMMA WordHolds ==
  ASSUME NEW t, t.kind = "word", IsToken(t), t.text \in Seq(Char)
  PROVE  /\ Len(t.text) \in Nat \ {0}
         /\ \A i \in 1 .. Len(t.text) : t.text[i] \notin Blank
         /\ \A i \in 1 .. Len(t.text) - 1 :
              ~(t.text[i] = Slash /\ t.text[i + 1] \in {Slash, Star})
         /\ Len(t.text) > 1 => ~(t.text[1] = Underscore /\ t.text[2] = Underscore)
<1> DEFINE x == t.text
<1>1. /\ x # <<>> /\ ToSet(x) \cap Blank = {}
      /\ Pairs(x) \cap {<<Slash, Slash>>, <<Slash, Star>>} = {}
      /\ Len(x) > 1 => <<x[1], x[2]>> # <<Underscore, Underscore>>
  BY Zenon DEF IsToken, Slash, Star, Underscore
<1>2. x \in Seq(Char)
  OBVIOUS
<1> HIDE DEF x
<1>3. Len(x) \in Nat \ {0}
  BY <1>1, <1>2
<1>4. \A i \in 1 .. Len(x) : x[i] \notin Blank
  <2>1. \A i \in 1 .. Len(x) : x[i] \in ToSet(x)
    BY <1>2 DEF ToSet
  <2> QED BY <1>1, <2>1
<1>5. ASSUME NEW i \in 1 .. Len(x) - 1, x[i] = Slash, x[i + 1] \in {Slash, Star} PROVE FALSE
  <2>1. <<x[i], x[i + 1]>> \in Pairs(x)
    BY DEF Pairs
  <2>2. <<x[i], x[i + 1]>> \in {<<Slash, Slash>>, <<Slash, Star>>}
    BY <1>5
  <2> QED BY <1>1, <2>1, <2>2
<1>6. Len(x) > 1 => ~(x[1] = Underscore /\ x[2] = Underscore)
  BY <1>1
<1> QED BY <1>3, <1>4, <1>5, <1>6 DEF x

(* What stands behind a word: white space, a comment, or nothing.          *)
LEMMA BehindWord ==
  ASSUME NEW O, Lies(O), NEW k \in 0 .. Len(document) - 1, document[k + 1].kind = "word"
  PROVE  LET t == document[k + 1]
             r == O[k] + 1 + Len(t.text)
         IN  \/ r <= O[k + 1] /\ At(r) \in Blank
             \/ /\ r = O[k + 1] + 1 /\ k + 1 \in 0 .. Len(document) - 1
                /\ IsComment(document[k + 1 + 1]) /\ t.text[Len(t.text)] # Slash
             \/ r = Len(contents) + 1 /\ k + 1 = Len(document) /\ At(r) = "nul"
<1> DEFINE t == document[k + 1]
           o == O[k]
           e == O[k + 1]
           lg == Len(t.gap)
           gf == GapFrom(t)
           l == Len(t.text)
           m == Len(contents)
           n == Len(document)
           r == o + 1 + l
<1>1. /\ o \in Nat /\ gf \in Nat /\ lg \in Nat /\ e = o + gf + lg /\ l \in Nat /\ e \in Nat
      /\ m \in Nat /\ e <= m /\ HasTexts(t) /\ TokenAt(o, t) /\ k + 1 \in DOMAIN document
      /\ t.gap \in Seq(Char) /\ k + 1 \in 0 .. n
  BY TokenFits DEF HasTexts
<1>2. gf = l
  <2>1. o \in Nat /\ HasTexts(t) /\ TokenAt(o, t) /\ t.kind = "word"
    BY <1>1
  <2> HIDE DEF o, t
  <2> QED BY <2>1, WordLies, Zenon
<1>3. n \in Nat
  BY LayoutFits
<1>4. CASE t.gap # <<>>
  <2>1. lg # 0
    <3> HIDE DEF t
    <3> QED BY <1>1, <1>4
  <2>2. r \in o + gf + 1 .. e /\ r <= e
    <3> HIDE DEF o, e, lg, gf, l, m
    <3> QED BY <1>1, <1>2, <2>1
  <2>3. At(r) \in Blank
    <3> HIDE DEF r
    <3> QED BY <2>2, GapIsBlank
  <2> QED BY <2>2, <2>3
<1>5. CASE t.gap = <<>>
  <2>1. lg = 0
    BY <1>5
  <2>2. r = e + 1
    <3> HIDE DEF o, e, lg, gf, l, m
    <3> QED BY <1>1, <1>2, <2>1
  <2>3. CASE k + 1 < n
    <3>1. k + 1 \in 0 .. n - 1
      BY <1>3, <2>3
    <3>2. \/ IsComment(t)
          \/ /\ IsComment(document[k + 1 + 1])
             /\ t.kind = "word" => t.text[Len(t.text)] # Slash
      BY <1>1, <1>5, <2>3, Zenon DEF Lies, IsPlain, IsDocument, Slash
    <3>3. ~IsComment(t)
      BY DEF IsComment
    <3> QED BY <2>2, <3>1, <3>2, <3>3
  <2>4. CASE ~(k + 1 < n)
    <3>1. k + 1 = n
      BY <1>1, <1>3, <2>4
    <3>2. e = m
      BY <1>1, <3>1, LayoutFits
    <3>3. r = m + 1
      BY <2>2, <3>2
    <3>4. At(r) = "nul"
      BY <3>3, BehindTheEnd DEF Lies
    <3> QED BY <3>1, <3>3, <3>4
  <2> QED BY <2>3, <2>4
<1> QED BY <1>4, <1>5

LEMMA WordEnds ==
  ASSUME NEW O, Lies(O), NEW k \in 0 .. Len(document) - 1, document[k + 1].kind = "word"
  PROVE  LET t == document[k + 1]
             r == O[k] + 1 + Len(t.text)
         IN  /\ FirstOf({q \in O[k] + 1 .. Len(contents) : IsBlank(q) \/ OpensComment(q)}) = r
             /\ r \in Nat /\ r # O[k] + 1
             /\ SubSeq(contents, O[k] + 1, r - 1) = t.text
             /\ ~StartsSection(O[k] + 1)
             /\ \/ /\ r <= Len(contents) /\ ~OpensComment(r)
                   /\ Between(O, k + 1, r + 1, "none")
                \/ /\ r + 2 <= Len(contents) /\ OpensComment(r)
                   /\ Within(O, k + 1, r + 2, Opened(r))
                \/ r = Len(contents) + 1 /\ k + 1 = Len(document) /\ ~OpensComment(r)
<1> DEFINE t == document[k + 1]
           o == O[k]
           e == O[k + 1]
           lg == Len(t.gap)
           gf == GapFrom(t)
           l == Len(t.text)
           m == Len(contents)
           n == Len(document)
           r == o + 1 + l
           S == {q \in o + 1 .. m : IsBlank(q) \/ OpensComment(q)}
<1>1. /\ o \in Nat /\ gf \in Nat /\ lg \in Nat /\ e = o + gf + lg /\ l \in Nat /\ e \in Nat
      /\ m \in Nat /\ e <= m /\ HasTexts(t) /\ TokenAt(o, t)
      /\ t.text \in Seq(Char) /\ IsToken(t)
  BY TokenFits
<1>2. gf = l /\ \A i \in 1 .. l : At(o + i) = t.text[i]
  <2>1. o \in Nat /\ HasTexts(t) /\ TokenAt(o, t) /\ t.kind = "word"
    BY <1>1
  <2> HIDE DEF o, t
  <2> QED BY <2>1, WordLies, Zenon
<1>3. /\ l \in Nat \ {0}
      /\ \A i \in 1 .. l : t.text[i] \notin Blank
      /\ \A i \in 1 .. l - 1 : ~(t.text[i] = Slash /\ t.text[i + 1] \in {Slash, Star})
      /\ l > 1 => ~(t.text[1] = Underscore /\ t.text[2] = Underscore)
  <2>1. t.kind = "word"
    OBVIOUS
  <2> HIDE DEF t
  <2> QED BY <1>1, <2>1, WordHolds
<1> DEFINE Gap == r <= e /\ At(r) \in Blank
           Next2 == /\ r = e + 1 /\ k + 1 \in 0 .. n - 1
                    /\ IsComment(document[k + 1 + 1]) /\ t.text[l] # Slash
           End2 == r = m + 1 /\ k + 1 = n /\ At(r) = "nul"
<1>4. Gap \/ Next2 \/ End2
  BY BehindWord
<1>5. r \in Nat /\ r # o + 1 /\ r \in o + 1 .. m + 1 /\ (r <= e => r <= m)
  <2>1. e = o + l + lg
    BY <1>1, <1>2
  <2> HIDE DEF o, e, lg, gf, l, m
  <2> QED BY <1>1, <1>2, <1>3
<1>6. Next2 => /\ r \in 1 .. m /\ r + 2 <= m /\ At(r) = Slash /\ At(r + 1) \in {Slash, Star}
               /\ Opened(r) = document[k + 1 + 1].kind /\ r = O[k + 1] + 1
  <2> SUFFICES ASSUME Next2 PROVE /\ r \in 1 .. m /\ r + 2 <= m /\ At(r) = Slash /\ At(r + 1) \in {Slash, Star}
               /\ Opened(r) = document[k + 1 + 1].kind /\ r = O[k + 1] + 1
    OBVIOUS
  <2> DEFINE j == k + 1
  <2>1. j \in 0 .. n - 1 /\ IsComment(document[j + 1]) /\ r = O[j] + 1 /\ e = O[j]
    OBVIOUS
  <2> HIDE DEF j, r
  <2>2. r \in 1 .. m /\ At(r) = Slash /\ At(r + 1) \in {Slash, Star} /\ Opened(r) = document[j + 1].kind
    BY <2>1, FirstMark
  <2>3. e + 3 <= m
    BY <2>1, CommentOpens
  <2>4. r + 2 <= m
    <3>1. r = e + 1
      BY <2>1
    <3> HIDE DEF e, m
    <3> QED BY <1>1, <2>3, <3>1
  <2> QED BY <2>1, <2>2, <2>4 DEF j
<1>7. r \in S \/ r = m + 1
  <2>1. CASE Gap
    <3>1. r \in o + 1 .. m
      <4> HIDE DEF o, m, e, r
      <4> QED BY <1>1, <1>5, <2>1
    <3> QED BY <2>1, <3>1, MarksOpen
  <2>2. CASE Next2
    <3>1. r \in o + 1 .. m /\ OpensComment(r)
      BY <1>5, <1>6, <2>2, MarksOpen
    <3> QED BY <3>1
  <2>3. CASE End2
    BY <2>3
  <2> HIDE DEF S, Gap, Next2, End2, r
  <2> QED BY <1>4, <2>1, <2>2, <2>3
<1>8. At(r) \in Blank \/ t.text[l] # Slash \/ At(r) = "nul"
  BY <1>4
<1>9. ASSUME NEW q \in S PROVE r <= q
  <2>1. q \in o + 1 .. m /\ (At(q) \in Blank \/ (At(q) = Slash /\ At(q + 1) \in {Slash, Star}))
    BY MarksOpen
  <2> DEFINE i == q - o
  <2>2. i \notin 1 .. l
    <3> SUFFICES ASSUME i \in 1 .. l PROVE FALSE
      OBVIOUS
    <3>1. o + i = q /\ (i = l => q + 1 = r) /\ (i # l => i \in 1 .. l - 1 /\ i + 1 \in 1 .. l /\ o + (i + 1) = q + 1)
      <4> HIDE DEF o, m, l
      <4> QED BY <1>1, <2>1
    <3> HIDE DEF i
    <3>2. At(q) = t.text[i] /\ At(q) \notin Blank
      BY <1>2, <1>3, <3>1
    <3>3. ~(At(q) = Slash /\ At(q + 1) \in {Slash, Star})
      <4>1. CASE i = l
        <5>1. At(q + 1) = At(r) /\ At(q) = t.text[l]
          BY <3>1, <3>2, <4>1
        <5> HIDE DEF r, l, t
        <5> QED BY <1>8, <5>1, MarksDiffer
      <4>2. CASE i # l
        <5>1. At(q + 1) = t.text[i + 1]
          BY <1>2, <3>1, <4>2
        <5> QED BY <1>3, <3>1, <3>2, <4>2, <5>1
      <4> QED BY <4>1, <4>2
    <3> QED BY <2>1, <3>2, <3>3
  <2> HIDE DEF o, l, m
  <2> QED BY <1>1, <2>1, <2>2
<1>10. contents \in Seq(Char) /\ S \subseteq o + 1 .. m /\ o + 1 \in Nat
  BY <1>1 DEF Lies
<1>11. FirstOf(S) = r
  <2> HIDE DEF S, r
  <2> QED BY <1>5, <1>7, <1>9, <1>10, FirstIs
<1>12. SubSeq(contents, o + 1, r - 1) = t.text
  <2>1. o + l = r - 1 /\ o + l <= m
    <3>1. r <= m + 1
      BY <1>5
    <3> HIDE DEF o, l, m
    <3> QED BY <1>1, <3>1
  <2>2. SubSeq(contents, o + 1, o + l) = t.text
    <3> HIDE DEF t, o
    <3> QED BY <1>1, <1>2, <1>10, <2>1, CopiedText DEF l, m
  <2> QED BY <2>1, <2>2
<1>13. ~StartsSection(o + 1)
  <2>1. At(o + 1) = t.text[1]
    BY <1>2, <1>3
  <2>2. CASE l > 1
    <3>1. At(o + 2) = t.text[2] /\ o + 1 + 1 = o + 2
      <4>1. 2 \in 1 .. l /\ o + 1 + 1 = o + 2
        <5> HIDE DEF o, l
        <5> QED BY <1>1, <2>2
      <4> QED BY <1>2, <4>1
    <3> QED BY <1>3, <2>1, <2>2, <3>1, MarksOpen
  <2>3. CASE ~(l > 1)
    <3>1. o + 1 + 1 = r
      <4> HIDE DEF o, l
      <4> QED BY <1>1, <1>3, <2>3
    <3>2. At(r) # Underscore
      <4> HIDE DEF r
      <4> QED BY <1>4, <1>6, MarksDiffer
    <3> QED BY <3>1, <3>2, MarksOpen
  <2> QED BY <2>2, <2>3
<1>14. CASE Gap
  <2>1. r <= m /\ ~OpensComment(r)
    <3> HIDE DEF r
    <3> QED BY <1>5, <1>14, MarksDiffer, MarksOpen
  <2>2. Between(O, k + 1, r + 1, "none")
    <3>1. r <= e
      BY <1>14
    <3>2. /\ r + 1 \in Nat \ {0} /\ o + gf <= r + 1 /\ r + 1 <= e + 1 /\ r + 1 # o + gf
      <4> HIDE DEF o, e, lg, gf, l, m
      <4> QED BY <1>1, <1>2, <3>1
    <3> HIDE DEF r
    <3> QED BY <3>2, BehindToken
  <2> HIDE DEF S
  <2> QED BY <1>5, <1>11, <1>12, <1>13, <2>1, <2>2 DEF S
<1>15. CASE Next2
  <2>1. OpensComment(r) /\ r + 2 <= m
    <3> HIDE DEF r
    <3> QED BY <1>6, <1>15, MarksOpen
  <2>2. Within(O, k + 1, r + 2, Opened(r))
    <3>1. r = O[k + 1] + 1 /\ Opened(r) = document[k + 1 + 1].kind
      BY <1>6, <1>15
    <3>2. k + 1 < n /\ IsComment(document[k + 1 + 1])
      BY <1>15, DocumentFits DEF Lies
    <3>3. r + 2 = O[k + 1] + 3
      <4> HIDE DEF r
      <4> QED BY <1>1, <3>1
    <3> HIDE DEF r
    <3> QED BY <3>1, <3>2, <3>3 DEF Within
  <2> HIDE DEF S
  <2> QED BY <1>5, <1>11, <1>12, <1>13, <2>1, <2>2 DEF S
<1>16. CASE End2
  <2>1. ~OpensComment(r)
    <3> HIDE DEF r
    <3> QED BY <1>16, MarksDiffer, MarksOpen
  <2> HIDE DEF S
  <2> QED BY <1>5, <1>11, <1>12, <1>13, <1>16, <2>1 DEF S
<1> HIDE DEF Gap, Next2, End2
<1> QED BY <1>4, <1>14, <1>15, <1>16

-----------------------------------------------------------------------------
(* The loop has read the first k tokens, and what a round of it leads to.  *)
Parsing(O, k) ==
  /\ Lies(O) /\ k \in 0 .. Len(document)
  /\ sections \in Seq(ListsOfTexts)
  /\ sections = After(document)[k] /\ Headed(k, sections)

Arrives(O, k) ==
  /\ UNCHANGED <<document, contents>> /\ k \in 0 .. Len(document)
  /\ sections' = After(document)[k] /\ Headed(k, sections')
  /\ reading' => Between(O, k, pos', comment') \/ Within(O, k, pos', comment')
  /\ ~reading' => k = Len(document)

LEMMA TokenAdds ==
  ASSUME NEW O, NEW k \in 0 .. Len(document) - 1, Parsing(O, k)
  PROVE  LET t == document[k + 1]
         IN  /\ After(document)[k + 1] = AddToken(sections, t)
             /\ t.kind = "name" => After(document)[k + 1] = Append(sections, <<t.text>>)
             /\ t.kind \in {"word", "quoted"} => After(document)[k + 1] =
                   [sections EXCEPT ![Len(sections)] = Append(sections[Len(sections)], t.text)]
             /\ IsComment(t) => After(document)[k + 1] = sections
             /\ Headed(k + 1, After(document)[k + 1])
             /\ t.kind \in {"word", "quoted"} => sections # <<>>
<1> DEFINE t == document[k + 1]
           next == After(document)[k + 1]
<1>1. /\ k + 1 \in 1 .. Len(document) /\ k + 1 \in DOMAIN document /\ Len(document) \in Nat
      /\ IsToken(t)
  BY TokenFits, LayoutFits DEF Parsing
<1>2. next = AddToken(sections, t)
  BY <1>1, AfterSteps DEF AfterTo, Parsing
<1> HIDE DEF t, next
<1>4. t.kind = "name" => next = Append(sections, <<t.text>>)
  BY <1>2 DEF AddToken, IsArgument
<1>5. t.kind \in {"word", "quoted"} =>
        next = [sections EXCEPT ![Len(sections)] = Append(sections[Len(sections)], t.text)]
  BY <1>2 DEF AddToken, IsArgument
<1>6. IsComment(t) => next = sections
  BY <1>2 DEF AddToken, IsComment, IsArgument
<1>7. t.kind \in {"word", "quoted"} => \E i \in 1 .. k : document[i].kind = "name"
  <2> SUFFICES ASSUME t.kind \in {"word", "quoted"} PROVE \E i \in 1 .. k : document[i].kind = "name"
    OBVIOUS
  <2>1. IsArgument(document[k + 1])
    BY DEF t, IsArgument
  <2>2. \E i \in 1 .. k + 1 - 1 : document[i].kind = "name"
    BY <1>1, <2>1 DEF Parsing, Lies, IsPlain, IsDocument
  <2>3. k + 1 - 1 = k
    OBVIOUS
  <2> QED BY <2>2, <2>3
<1>8. Headed(k + 1, next)
  <2>1. sections \in Seq(ListsOfTexts) /\ (sections # <<>> <=> \E i \in 1 .. k : document[i].kind = "name")
    BY DEF Parsing, Headed
  <2>2. CASE t.kind = "name"
    <3> DEFINE x == <<t.text>>
    <3>1. next = Append(sections, x)
      BY <1>4, <2>2
    <3> HIDE DEF x
    <3>2. next # <<>>
      BY <2>1, <3>1
    <3>3. \E j \in 1 .. k + 1 : document[j].kind = "name"
      BY <2>2 DEF t
    <3> QED BY <3>2, <3>3 DEF Headed
  <2>3. CASE t.kind \in {"word", "quoted"}
    <3>1. \E i \in 1 .. k + 1 : document[i].kind = "name"
      BY <1>7, <2>3
    <3>2. sections # <<>> /\ DOMAIN next = DOMAIN sections
      BY <1>5, <1>7, <2>1, <2>3
    <3>3. next # <<>>
      BY <2>1, <3>2
    <3> QED BY <3>1, <3>3 DEF Headed
  <2>4. CASE IsComment(t)
    <3>1. t.kind # "name"
      BY <2>4 DEF IsComment
    <3>2. (\E i \in 1 .. k : document[i].kind = "name") <=> \E j \in 1 .. k + 1 : document[j].kind = "name"
      BY <3>1 DEF t
    <3> QED BY <1>6, <2>1, <2>4, <3>2 DEF Headed
  <2>5. t.kind = "name" \/ t.kind \in {"word", "quoted"} \/ IsComment(t)
    BY <1>1 DEF IsToken, IsComment
  <2> QED BY <2>2, <2>3, <2>4, <2>5
<1>9. t.kind \in {"word", "quoted"} => sections # <<>>
  BY <1>7 DEF Parsing, Headed
<1> QED BY <1>2, <1>4, <1>5, <1>6, <1>8, <1>9 DEF t, next

LEMMA GoesOnBetween ==
  ASSUME NEW O, Lies(O), NEW k \in 0 .. Len(document), NEW p, GoOnAt(p), Between(O, k, p, "none"),
         comment' = "none", sections' = After(document)[k], Headed(k, sections')
  PROVE  Arrives(O, k)
<1> DEFINE o == O[k]
           m == Len(contents)
<1>1. pos' = p /\ reading' = (p <= m) /\ UNCHANGED <<document, contents>>
  BY DEF GoOnAt
<1>2. p \in 1 .. o + 1
  BY DEF Between
<1>3. o \in Nat /\ m \in Nat /\ o <= m /\ (o = m <=> k = Len(document))
  BY LayoutFits
<1>4. ~(p <= m) => k = Len(document)
  <2> HIDE DEF o, m
  <2> QED BY <1>2, <1>3
<1> QED BY <1>1, <1>4 DEF Arrives

LEMMA GoesOnWithin ==
  ASSUME NEW O, Lies(O), NEW k \in 0 .. Len(document), NEW p, GoOnAt(p), p <= Len(contents),
         Within(O, k, p, comment'), sections' = After(document)[k], Headed(k, sections')
  PROVE  Arrives(O, k)
BY DEF GoOnAt, Arrives

(* Inside of a comment.                                                    *)
LEMMA WithinSteps ==
  ASSUME NEW O, NEW k, Parsing(O, k), Within(O, k, pos, comment), ParseStep
  PROVE  Arrives(O, k + 1)
<1> DEFINE t == document[k + 1]
           r == O[k] + 3 + Len(t.text)
<1>1. /\ Lies(O) /\ k \in 0 .. Len(document) - 1 /\ IsComment(t) /\ comment = t.kind
      /\ pos = O[k] + 3 /\ k + 1 \in 0 .. Len(document)
  <2>1. Lies(O) /\ k \in 0 .. Len(document) /\ k < Len(document)
    BY DEF Parsing, Within
  <2>2. Len(document) \in Nat
    BY <2>1, LayoutFits
  <2> QED BY <2>1, <2>2 DEF Within
<1>2. After(document)[k + 1] = sections /\ Headed(k + 1, sections)
  BY <1>1, TokenAdds
<1>3. comment = "line" \/ comment = "block"
  BY <1>1 DEF IsComment
<1>4. SkipLine \/ SkipBlock
  BY <1>3 DEF ParseStep, OpenComment, LoneSlash, NothingLeft, ReadSection, NoSectionYet, ReadArgument, ReadsText
<1>5. CASE SkipLine
  <2>1. t.kind = "line"
    BY <1>1, <1>5 DEF SkipLine
  <2>2. FirstOf({q \in O[k] + 3 .. Len(contents) : At(q) = Newline}) = r /\ Between(O, k + 1, r, "none")
    BY <1>1, <2>1, LineEnds
  <2>3. GoOnAt(FirstOf({q \in pos .. Len(contents) : At(q) = Newline})) /\ comment' = "none"
        /\ sections' = sections
    BY <1>5 DEF SkipLine, SkipUntil, FirstOf
  <2> HIDE DEF r
  <2>4. GoOnAt(r)
    BY <1>1, <2>2, <2>3
  <2> QED BY <1>1, <1>2, <2>2, <2>3, <2>4, GoesOnBetween
<1>6. CASE SkipBlock
  <2> DEFINE q == FirstOf({p \in pos .. Len(contents) : At(p) = Star \/ At(p + 1) = Slash})
  <2>1. t.kind = "block"
    BY <1>1, <1>6 DEF SkipBlock
  <2>2. /\ FirstOf({p \in O[k] + 3 .. Len(contents) : At(p) = Star \/ At(p + 1) = Slash}) = r
        /\ r <= Len(contents) /\ r \in Nat /\ Between(O, k + 1, r + 2, "none")
    BY <1>1, <2>1, BlockEnds
  <2>3. GoOnAt(IF q > Len(contents) THEN q ELSE q + 2) /\ comment' = "none" /\ sections' = sections
    BY <1>6, Zenon DEF SkipBlock, SkipUntil, FirstOf, Star, Slash
  <2>4. q = r
    BY <1>1, <2>2
  <2> HIDE DEF r, q
  <2>5. GoOnAt(r + 2)
    <3>1. Len(contents) \in Nat
      BY <1>1, LayoutFits
    <3>2. ~(r > Len(contents))
      BY <2>2, <3>1
    <3> QED BY <2>3, <2>4, <3>2
  <2> DEFINE p == r + 2
  <2> HIDE DEF p
  <2>6. GoOnAt(p) /\ Between(O, k + 1, p, "none")
    BY <2>2, <2>5 DEF p
  <2> QED BY <1>1, <1>2, <2>3, <2>6, GoesOnBetween
<1> QED BY <1>4, <1>5, <1>6

-----------------------------------------------------------------------------
(* Between two tokens: what the parser sees.                               *)
LEMMA SeesBetween ==
  ASSUME NEW O, NEW k, Parsing(O, k), Between(O, k, pos, comment)
  PROVE  /\ Lies(O) /\ comment = "none" /\ Len(contents) \in Nat /\ Len(document) \in Nat
         /\ O[k] \in Nat /\ NextText = O[k] + 1
         /\ pos # O[k] + 1 => At(pos) \in Blank
         /\ k = Len(document) => NextText = Len(contents) + 1 /\ At(O[k] + 1) = "nul"
         /\ k # Len(document) => k \in 0 .. Len(document) - 1
<1> DEFINE o == O[k]
           m == Len(contents)
<1>1. /\ Lies(O) /\ k \in 0 .. Len(document) /\ comment = "none" /\ pos \in 1 .. o + 1
      /\ \A q \in pos .. o : At(q) \in Blank
  BY DEF Parsing, Between
<1>2. /\ Len(document) \in Nat /\ m \in Nat /\ o \in Nat /\ (o = m <=> k = Len(document))
  BY <1>1, LayoutFits
<1>3. NextText = o + 1
  <2>1. FirstOf({q \in pos .. m : ~IsBlank(q)}) = o + 1
    BY <1>1, NextTextIs
  <2> QED BY <2>1 DEF NextText, SkipUntil, FirstOf
<1>4. pos # o + 1 => At(pos) \in Blank
  <2> HIDE DEF o
  <2> QED BY <1>1, <1>2
<1>5. k = Len(document) => At(o + 1) = "nul"
  BY <1>1, <1>2, BehindTheEnd DEF Lies
<1> QED BY <1>1, <1>2, <1>3, <1>4, <1>5

(* At the end of the file the loop stops.                                  *)
LEMMA EndSteps ==
  ASSUME NEW O, NEW k, Parsing(O, k), Between(O, k, pos, comment), ParseStep,
         k = Len(document)
  PROVE  Arrives(O, k)
<1>1. /\ comment = "none" /\ Len(contents) \in Nat /\ NextText = Len(contents) + 1
      /\ O[k] + 1 = NextText /\ At(NextText) = "nul" /\ (pos # O[k] + 1 => At(pos) \in Blank)
  BY SeesBetween
<1>2. At(pos) # Slash /\ ~StartsSection(NextText)
  <2>1. At(NextText) # Underscore
    BY <1>1, MarksDiffer
  <2>2. At(pos) # Slash
    BY <1>1, MarksDiffer
  <2> QED BY <2>1, <2>2, MarksOpen
<1>3. ~SkipLine /\ ~SkipBlock
  BY <1>1 DEF SkipLine, SkipBlock
<1>4. ~OpenComment /\ ~LoneSlash
  BY <1>2, MarksOpen, Zenon DEF OpenComment, LoneSlash, Slash
<1>5. ~ReadSection
  BY <1>2, Zenon DEF ReadSection
<1>6. ~NoSectionYet /\ ~ReadArgument
  <2>1. ~(NextText <= Len(contents))
    BY <1>1
  <2> QED BY <2>1, Zenon DEF NoSectionYet, ReadArgument
<1>7. NothingLeft
  BY <1>3, <1>4, <1>5, <1>6 DEF ParseStep
<1>8. reading' = FALSE /\ UNCHANGED <<document, contents, pos, comment, sections, room>>
  BY <1>7 DEF NothingLeft, Stop
<1> QED BY <1>8 DEF Arrives, Parsing

(* A name starts a section.                                                *)
LEMMA NameSteps ==
  ASSUME NEW O, NEW k, Parsing(O, k), Between(O, k, pos, comment), ParseStep,
         k # Len(document), document[k + 1].kind = "name"
  PROVE  Arrives(O, k + 1)
<1> DEFINE t == document[k + 1]
           m == Len(contents)
           o == O[k]
           r == o + 3 + Len(t.text)
           first == NextText + 2
           last == FirstOf({q \in first .. m : IsBlank(q)})
<1>1. /\ comment = "none" /\ m \in Nat /\ Lies(O) /\ k \in 0 .. Len(document) - 1
      /\ NextText = o + 1 /\ o \in Nat /\ (pos # o + 1 => At(pos) \in Blank)
  BY SeesBetween
<1>2. o + 1 \in 1 .. m /\ At(o + 1) = Underscore /\ At(o + 1 + 1) = Underscore
      /\ k + 1 \in 0 .. Len(document)
  BY <1>1, FirstMark, TokenFits
<1>3. At(pos) # Slash /\ StartsSection(NextText) /\ NextText <= m
  <2>1. At(pos) # Slash
    BY <1>1, <1>2, MarksDiffer
  <2> HIDE DEF m
  <2> QED BY <1>1, <1>2, <2>1, MarksOpen
<1>4. ~SkipLine /\ ~SkipBlock
  BY <1>1 DEF SkipLine, SkipBlock
<1>5. ~OpenComment /\ ~LoneSlash
  BY <1>3, MarksOpen, Zenon DEF OpenComment, LoneSlash, Slash
<1>6. ~NoSectionYet /\ ~ReadArgument
  BY <1>3, Zenon DEF NoSectionYet, ReadArgument
<1>7. ~NothingLeft
  <2>1. ~(NextText > m)
    BY <1>1, <1>3
  <2> QED BY <2>1, Zenon DEF NothingLeft
<1>8. ReadSection
  BY <1>4, <1>5, <1>6, <1>7 DEF ParseStep
<1>9. IF last > m THEN Stop
      ELSE /\ sections' = Append(sections, <<SubSeq(contents, first, last - 1)>>)
           /\ GoOnAt(last + 1) /\ UNCHANGED comment
  BY <1>8 DEF ReadSection, SkipUntil, FirstOf
<1>10. first = o + 3
  <2> HIDE DEF o
  <2> QED BY <1>1
<1>11. /\ FirstOf({q \in o + 3 .. m : IsBlank(q)}) = r
       /\ r \in Nat /\ r <= m
       /\ SubSeq(contents, o + 3, r - 1) = t.text
       /\ Between(O, k + 1, r + 1, "none")
  BY <1>1, NameEnds
<1>12. last = r
  BY <1>10, <1>11
<1> HIDE DEF first, last, r, t, o, m
<1>13. /\ sections' = Append(sections, <<t.text>>) /\ GoOnAt(r + 1) /\ comment' = "none"
  <2>1. ~(last > m)
    BY <1>1, <1>11, <1>12
  <2>2. /\ sections' = Append(sections, <<SubSeq(contents, first, last - 1)>>)
        /\ GoOnAt(last + 1) /\ UNCHANGED comment
    BY <1>9, <2>1
  <2>3. SubSeq(contents, first, last - 1) = t.text
    BY <1>10, <1>11, <1>12
  <2> QED BY <1>1, <1>12, <2>2, <2>3
<1>14. sections' = After(document)[k + 1] /\ Headed(k + 1, sections')
  BY <1>1, <1>13, TokenAdds DEF t
<1> DEFINE p == r + 1
<1> HIDE DEF p
<1>15. GoOnAt(p) /\ Between(O, k + 1, p, "none")
  BY <1>11, <1>13 DEF p
<1> QED BY <1>1, <1>2, <1>13, <1>14, <1>15, GoesOnBetween

(* A comment is opened, by itself or in front of an argument.              *)
LEMMA CommentSteps ==
  ASSUME NEW O, NEW k, Parsing(O, k), Between(O, k, pos, comment), ParseStep,
         k # Len(document), IsComment(document[k + 1])
  PROVE  Arrives(O, k)
<1> DEFINE t == document[k + 1]
           m == Len(contents)
           o == O[k]
           p == o + 1
<1>1. /\ comment = "none" /\ m \in Nat /\ Lies(O) /\ k \in 0 .. Len(document) - 1
      /\ NextText = p /\ o \in Nat /\ (pos # p => At(pos) \in Blank)
  BY SeesBetween
<1>2. p \in 1 .. m /\ At(p) = Slash /\ At(p + 1) \in {Slash, Star} /\ Opened(p) = t.kind
  BY <1>1, FirstMark
<1>3. OpensComment(p) /\ ~StartsSection(p) /\ At(p) # Quote /\ p <= m
  <2>1. p <= m
    <3> HIDE DEF m, p
    <3> QED BY <1>1, <1>2
  <2> HIDE DEF p
  <2> QED BY <1>2, <2>1, MarksOpen, MarksDiffer
<1>4. ~SkipLine /\ ~SkipBlock
  BY <1>1 DEF SkipLine, SkipBlock
<1>5. ~ReadSection /\ ~NothingLeft
  <2>1. ~(NextText > m) /\ ~StartsSection(NextText)
    <3> HIDE DEF m, p
    <3> QED BY <1>1, <1>2, <1>3
  <2> QED BY <2>1, Zenon DEF ReadSection, NothingLeft
<1>6. o + 3 <= m
  BY <1>1, CommentOpens
<1>7. /\ Within(O, k, p + 2, Opened(p)) /\ p + 2 <= m
      /\ sections = After(document)[k] /\ Headed(k, sections) /\ k \in 0 .. Len(document)
  <2>1. p + 2 = o + 3
    <3> HIDE DEF o
    <3> QED BY <1>1
  <2>2. k < Len(document)
    BY <1>1, LayoutFits
  <2> QED BY <1>1, <1>2, <1>6, <2>1, <2>2 DEF Within, Parsing
<1> HIDE DEF p
<1>8. ASSUME GoOnAt(p + 2), comment' = Opened(p), sections' = sections PROVE Arrives(O, k)
  <2> DEFINE q == p + 2
  <2> HIDE DEF q
  <2>1. GoOnAt(q) /\ Within(O, k, q, comment') /\ q <= m
    BY <1>7, <1>8 DEF q
  <2> QED BY <1>1, <1>7, <1>8, <2>1, GoesOnWithin
<1>9. CASE pos = p
  <2>1. ~LoneSlash /\ ~NoSectionYet /\ ~ReadArgument
    <3>1. At(pos) = Slash /\ OpensComment(pos)
      BY <1>2, <1>3, <1>9
    <3> QED BY <3>1, Zenon DEF LoneSlash, NoSectionYet, ReadArgument, ReadsText, Slash
  <2>2. OpenComment
    BY <1>4, <1>5, <2>1 DEF ParseStep
  <2> QED BY <1>8, <1>9, <2>2 DEF OpenComment
<1>10. CASE pos # p
  <2>1. At(pos) # Slash
    BY <1>1, <1>10, MarksDiffer
  <2>2. ~OpenComment /\ ~LoneSlash
    BY <2>1, MarksOpen, Zenon DEF OpenComment, LoneSlash, Slash
  <2>3. sections # <<>>
    <3>1. ~Leads(k + 1)
      <4>1. k < Len(document)
        BY <1>1, LayoutFits
      <4> QED BY <1>10, <4>1 DEF Between, p
    <3>2. \E j \in 1 .. k : document[j].kind = "name"
      BY <1>1, <3>1, NoNamesLead
    <3> QED BY <1>7, <3>2 DEF Headed
  <2>4. ReadArgument
    <3>1. ~NoSectionYet
      BY <2>3 DEF NoSectionYet
    <3> QED BY <1>4, <1>5, <2>2, <3>1 DEF ParseStep
  <2> DEFINE S == {q \in NextText .. m : IsBlank(q) \/ OpensComment(q)}
             last == FirstOf(S)
  <2>5. At(NextText) # Quote => 
          /\ last = NextText => UNCHANGED <<sections, room>>
          /\ comment' = IF OpensComment(last) THEN Opened(last) ELSE "none"
          /\ GoOnAt(IF OpensComment(last) THEN last + 2 ELSE last + 1)
    BY <2>4 DEF ReadArgument, SkipUntil, FirstOf, Quote
  <2>6. last = p
    <3>1. p \in S
      <4>1. p \in NextText .. m
        <5> HIDE DEF m
        <5> QED BY <1>1, <1>2
      <4> QED BY <1>3, <4>1
    <3>2. S \subseteq p .. m /\ p \in Nat /\ contents \in Seq(Char)
      <4>1. p \in Nat
        BY <1>1 DEF p
      <4> QED BY <1>1, <4>1 DEF Lies
    <3>3. \A q \in S : p <= q
      <4> SUFFICES ASSUME NEW q \in S PROVE p <= q
        OBVIOUS
      <4>1. q \in p .. m
        BY <3>2
      <4> HIDE DEF m, S
      <4> QED BY <4>1
    <3> HIDE DEF S
    <3> QED BY <3>1, <3>2, <3>3, FirstIs
  <2> HIDE DEF last
  <2>7. At(NextText) # Quote /\ last = NextText /\ OpensComment(last)
    BY <1>1, <1>3, <2>6
  <2>8. UNCHANGED sections /\ comment' = Opened(last) /\ GoOnAt(last + 2)
    BY <2>5, <2>7
  <2> QED BY <1>8, <2>6, <2>8
<1> QED BY <1>9, <1>10

-----------------------------------------------------------------------------
(* An argument, quoted or not, is added to the last section.               *)
LEMMA ArgumentStarts ==
  ASSUME NEW O, NEW k, Parsing(O, k), Between(O, k, pos, comment), ParseStep,
         k # Len(document), document[k + 1].kind \in {"word", "quoted"}
  PROVE  /\ ReadArgument
         /\ At(NextText) = Quote <=> document[k + 1].kind = "quoted"
<1> DEFINE t == document[k + 1]
           m == Len(contents)
           o == O[k]
           p == o + 1
<1>1. /\ comment = "none" /\ m \in Nat /\ Lies(O) /\ k \in 0 .. Len(document) - 1
      /\ NextText = p /\ o \in Nat /\ (pos # p => At(pos) \in Blank)
  BY SeesBetween
<1>2. /\ p \in 1 .. m
      /\ t.kind = "quoted" => At(p) = Quote
      /\ t.kind = "word" => At(p) \notin {Slash, Quote}
  BY <1>1, FirstMark
<1>3. t.kind = "word" => ~StartsSection(p)
  BY <1>1, WordEnds
<1>4. sections # <<>>
  BY <1>1, TokenAdds
<1> HIDE DEF t, m, p
<1>5. ~StartsSection(p) /\ At(p) # Slash /\ ~(p > m)
  BY <1>1, <1>2, <1>3, MarksOpen, MarksDiffer DEF t
<1>6. At(pos) # Slash
  BY <1>1, <1>5, MarksDiffer
<1>7. ~SkipLine /\ ~SkipBlock
  BY <1>1 DEF SkipLine, SkipBlock
<1>8. ~OpenComment /\ ~LoneSlash
  BY <1>6, MarksOpen, Zenon DEF OpenComment, LoneSlash, Slash
<1>9. ~ReadSection /\ ~NothingLeft /\ ~NoSectionYet
  BY <1>1, <1>4, <1>5, Zenon DEF ReadSection, NothingLeft, NoSectionYet, m
<1>10. ReadArgument
  BY <1>7, <1>8, <1>9 DEF ParseStep
<1>11. At(NextText) = Quote <=> document[k + 1].kind = "quoted"
  BY <1>1, <1>2 DEF t
<1> QED BY <1>10, <1>11

LEMMA QuotedSteps ==
  ASSUME NEW O, NEW k, Parsing(O, k), Between(O, k, pos, comment), ParseStep,
         k # Len(document), document[k + 1].kind = "quoted"
  PROVE  Arrives(O, k + 1)
<1> DEFINE t == document[k + 1]
           m == Len(contents)
           o == O[k]
           r == o + 2 + Len(t.text)
           first == NextText + 1
           last == FirstOf({q \in first .. m : At(q) = Quote})
           text == SubSeq(contents, first, last - 1)
<1>1. ReadArgument /\ At(NextText) = Quote
  BY ArgumentStarts
<1>2. /\ Lies(O) /\ k \in 0 .. Len(document) - 1 /\ NextText = o + 1 /\ o \in Nat
      /\ k + 1 \in 0 .. Len(document)
  BY SeesBetween, TokenFits
<1>3. /\ last # first => sections' = [sections EXCEPT ![Len(sections)] = Append(sections[Len(sections)], text)]
      /\ comment' = "none"
      /\ GoOnAt(last + 1)
  BY <1>1 DEF ReadArgument, SkipUntil, FirstOf, Quote
<1>4. first = o + 2
  <2> HIDE DEF o
  <2> QED BY <1>2
<1>5. /\ FirstOf({q \in o + 2 .. m : At(q) = Quote}) = r /\ r # o + 2
      /\ SubSeq(contents, o + 2, r - 1) = t.text /\ r \in Nat
      /\ Between(O, k + 1, r + 1, "none")
  BY <1>2, QuotedEnds
<1>6. last = r
  BY <1>4, <1>5
<1>7. /\ After(document)[k + 1] = [sections EXCEPT ![Len(sections)] = Append(sections[Len(sections)], t.text)]
      /\ Headed(k + 1, After(document)[k + 1])
  BY <1>2, TokenAdds
<1> HIDE DEF first, last, r, t, o, m
<1>8. text = t.text
  BY <1>4, <1>5, <1>6
<1> HIDE DEF text
<1>9. sections' = After(document)[k + 1] /\ Headed(k + 1, sections')
  BY <1>3, <1>4, <1>5, <1>6, <1>7, <1>8
<1> DEFINE p == r + 1
<1> HIDE DEF p
<1>10. GoOnAt(p) /\ Between(O, k + 1, p, "none")
  BY <1>3, <1>5, <1>6 DEF p
<1> QED BY <1>2, <1>3, <1>9, <1>10, GoesOnBetween

LEMMA WordSteps ==
  ASSUME NEW O, NEW k, Parsing(O, k), Between(O, k, pos, comment), ParseStep,
         k # Len(document), document[k + 1].kind = "word"
  PROVE  Arrives(O, k + 1)
<1> DEFINE t == document[k + 1]
           m == Len(contents)
           o == O[k]
           r == o + 1 + Len(t.text)
           first == NextText
           last == FirstOf({q \in first .. m : IsBlank(q) \/ OpensComment(q)})
           text == SubSeq(contents, first, last - 1)
<1>1. ReadArgument /\ At(NextText) # Quote
  BY ArgumentStarts
<1>2. /\ Lies(O) /\ k \in 0 .. Len(document) - 1 /\ NextText = o + 1 /\ o \in Nat /\ m \in Nat
      /\ k + 1 \in 0 .. Len(document)
  BY SeesBetween, TokenFits
<1>3. /\ last # first => sections' = [sections EXCEPT ![Len(sections)] = Append(sections[Len(sections)], text)]
      /\ comment' = IF OpensComment(last) THEN Opened(last) ELSE "none"
      /\ GoOnAt(IF OpensComment(last) THEN last + 2 ELSE last + 1)
  BY <1>1 DEF ReadArgument, SkipUntil, FirstOf, Quote
<1>4. /\ FirstOf({q \in o + 1 .. m : IsBlank(q) \/ OpensComment(q)}) = r /\ r # o + 1
      /\ SubSeq(contents, o + 1, r - 1) = t.text /\ r \in Nat
      /\ \/ r <= m /\ ~OpensComment(r) /\ Between(O, k + 1, r + 1, "none")
         \/ r + 2 <= m /\ OpensComment(r) /\ Within(O, k + 1, r + 2, Opened(r))
         \/ r = m + 1 /\ k + 1 = Len(document) /\ ~OpensComment(r)
  BY <1>2, WordEnds
<1>5. last = r
  BY <1>2, <1>4
<1>6. /\ After(document)[k + 1] = [sections EXCEPT ![Len(sections)] = Append(sections[Len(sections)], t.text)]
      /\ Headed(k + 1, After(document)[k + 1])
  BY <1>2, TokenAdds
<1> HIDE DEF last, r, t, o
<1>7. text = t.text
  BY <1>2, <1>4, <1>5
<1> HIDE DEF text
<1>8. sections' = After(document)[k + 1] /\ Headed(k + 1, sections')
  BY <1>2, <1>3, <1>4, <1>5, <1>6, <1>7
<1>9. CASE r <= m /\ ~OpensComment(r) /\ Between(O, k + 1, r + 1, "none")
  <2> DEFINE p == r + 1
  <2>1. GoOnAt(p) /\ comment' = "none"
    BY <1>3, <1>5, <1>9
  <2>2. Between(O, k + 1, p, "none")
    BY <1>9
  <2> HIDE DEF p
  <2> QED BY <1>2, <1>8, <2>1, <2>2, GoesOnBetween
<1>10. CASE r + 2 <= m /\ OpensComment(r) /\ Within(O, k + 1, r + 2, Opened(r))
  <2> DEFINE p == r + 2
  <2>1. GoOnAt(p) /\ comment' = Opened(r)
    BY <1>3, <1>5, <1>10
  <2>2. Within(O, k + 1, p, comment') /\ p <= Len(contents)
    BY <1>10, <2>1
  <2> HIDE DEF p
  <2> QED BY <1>2, <1>8, <2>1, <2>2, GoesOnWithin
<1>11. CASE r = m + 1 /\ k + 1 = Len(document) /\ ~OpensComment(r)
  <2>1. GoOnAt(r + 1)
    BY <1>3, <1>5, <1>11
  <2>2. ~(r + 1 <= m)
    <3> HIDE DEF m
    <3> QED BY <1>2, <1>11
  <2>3. ~reading' /\ UNCHANGED <<document, contents>>
    BY <2>1, <2>2 DEF GoOnAt
  <2> QED BY <1>2, <1>8, <1>11, <2>3 DEF Arrives
<1> QED BY <1>4, <1>9, <1>10, <1>11

(* A round of the loop reads on in the document.                           *)
LEMMA ParsingSteps ==
  ASSUME NEW O, NEW k, Parsing(O, k), ParseStep,
         Between(O, k, pos, comment) \/ Within(O, k, pos, comment)
  PROVE  Arrives(O, k) \/ Arrives(O, k + 1)
<1>1. CASE Within(O, k, pos, comment)
  BY <1>1, WithinSteps
<1>2. CASE Between(O, k, pos, comment) /\ k = Len(document)
  BY <1>2, EndSteps
<1>3. CASE Between(O, k, pos, comment) /\ k # Len(document)
  <2>1. k \in 0 .. Len(document) - 1 /\ Lies(O)
    BY <1>3, SeesBetween
  <2>2. IsKind(document[k + 1])
    BY <2>1, TokenFits DEF HasTexts
  <2> QED BY <1>3, <2>2, NameSteps, QuotedSteps, WordSteps, CommentSteps DEF IsKind, IsComment
<1> QED BY <1>1, <1>2, <1>3

-----------------------------------------------------------------------------
(* While the loop runs, it has read the first k tokens for some k, and     *)
(* when it ended it has read them all.                                     *)
Progress ==
  \E O : \E k \in 0 .. Len(document) :
    Parsing(O, k) /\ (Between(O, k, pos, comment) \/ Within(O, k, pos, comment))

ReadsInv ==
  IsPlain(document) =>
    /\ contents = FileOf(document)
    /\ stage \in {"trace", "settings"} =>
         ~reading /\ pos = 1 /\ comment = "none" /\ sections = <<>>
    /\ reading => Progress
    /\ ~reading /\ stage \in {"load", "init", "run"} => sections = Meaning(document)

LEMMA LiesStays ==
  ASSUME NEW O, UNCHANGED <<document, contents>>
  PROVE  /\ Lies(O)' <=> Lies(O)
         /\ \A p : At(p)' = At(p)
         /\ \A k : Leads(k)' <=> Leads(k)
<1>1. \A p : At(p)' = At(p)
  BY DEF At
<1>2. \A o : \A t : TokenAt(o, t)' <=> TokenAt(o, t)
  BY DEF TokenAt, At
<1>3. IsLayout(O)' <=> IsLayout(O)
  BY <1>2 DEF IsLayout
<1>4. Lies(O)' <=> Lies(O)
  BY <1>3 DEF Lies
<1>5. \A k : Leads(k)' <=> Leads(k)
  BY DEF Leads
<1> QED BY <1>1, <1>4, <1>5

LEMMA ParsingStays ==
  ASSUME NEW O, NEW k \in 0 .. Len(document), Lies(O), UNCHANGED <<document, contents>>,
         sections' = After(document)[k], Headed(k, sections'), sections' \in Seq(ListsOfTexts),
         Between(O, k, pos', comment') \/ Within(O, k, pos', comment')
  PROVE  Progress'
<1>1. Lies(O)' /\ (\A p : At(p)' = At(p)) /\ (Leads(k + 1)' <=> Leads(k + 1))
  BY LiesStays
<1>2. Headed(k, sections)'
  BY DEF Headed
<1>3. Parsing(O, k)'
  BY <1>1, <1>2 DEF Parsing
<1>4. Between(O, k, pos, comment)' \/ Within(O, k, pos, comment)'
  BY <1>1 DEF Between, Within
<1>5. k \in 0 .. Len(document')
  OBVIOUS
<1> QED BY <1>3, <1>4, <1>5 DEF Progress

(* The file is there and nothing of it is read.                            *)
LEMMA ParsingStarts ==
  ASSUME IsPlain(document), contents = FileOf(document), ParserInv,
         pos = 1, comment = "none", sections = <<>>
  PROVE  \E O : /\ Lies(O) /\ sections = After(document)[0] /\ Headed(0, sections)
                /\ Between(O, 0, pos, comment) /\ 0 \in 0 .. Len(document)
<1>1. /\ Len(document) \in Nat /\ DOMAIN document = 1 .. Len(document)
      /\ \A k \in 1 .. Len(document) : HasTexts(document[k])
  BY DocumentFits
<1>2. contents \in Seq(Char)
  <2>1. contents \in Seq(STRING)
    BY DEF ParserInv
  <2>2. STRING \subseteq Char
    BY DEF Char
  <2> QED BY <2>1, <2>2, WiderTexts, Zenon
<1>3. PICK O : IsLayout(O)
  BY <1>1, <1>2, LayoutExists
<1>4. Lies(O)
  BY <1>2, <1>3 DEF Lies
<1>5. sections = After(document)[0]
  BY <1>1, AfterSteps DEF AfterTo
<1>6. Headed(0, sections)
  BY DEF Headed
<1>7. O[0] = 0 /\ 0 \in 0 .. Len(document)
  BY <1>1, <1>3 DEF IsLayout
<1>8. Between(O, 0, pos, comment)
  BY <1>7 DEF Between
<1> QED BY <1>4, <1>5, <1>6, <1>7, <1>8

LEMMA ParseReads ==
  ASSUME ReadsInv, ParserInv, ParserInv', Parse
  PROVE  ReadsInv'
<1> SUFFICES ASSUME IsPlain(document') PROVE
      /\ contents' = FileOf(document')
      /\ stage' \notin {"trace", "settings"}
      /\ reading' => Progress'
      /\ ~reading' => sections' = Meaning(document')
  BY DEF ReadsInv
<1>1. stage = "load" /\ stage' = "load" /\ reading /\ ParseStep
  BY DEF Parse, ParseStep, engineVars
<1>2. UNCHANGED <<document, contents>>
  BY <1>1 DEF ParseStep, SkipLine, SkipBlock, OpenComment, LoneSlash, NothingLeft, ReadSection,
              NoSectionYet, ReadArgument, GoOnAt, Stop, parserVars
<1>3. contents = FileOf(document) /\ Progress
  BY <1>1, <1>2 DEF ReadsInv
<1>4. PICK O : \E k \in 0 .. Len(document) :
        Parsing(O, k) /\ (Between(O, k, pos, comment) \/ Within(O, k, pos, comment))
  BY <1>3 DEF Progress
<1>5. PICK k \in 0 .. Len(document) :
        Parsing(O, k) /\ (Between(O, k, pos, comment) \/ Within(O, k, pos, comment))
  BY <1>4
<1>6. PICK j : Arrives(O, j)
  BY <1>1, <1>5, ParsingSteps
<1>7. /\ j \in 0 .. Len(document) /\ sections' = After(document)[j] /\ Headed(j, sections')
      /\ reading' => Between(O, j, pos', comment') \/ Within(O, j, pos', comment')
      /\ ~reading' => j = Len(document)
  BY <1>6 DEF Arrives
<1>8. sections' \in Seq(ListsOfTexts)
  BY DEF ParserInv
<1>9. reading' => Progress'
  BY <1>2, <1>5, <1>7, <1>8, ParsingStays DEF Parsing
<1>10. ~reading' => sections' = Meaning(document')
  BY <1>2, <1>7 DEF Meaning
<1> QED BY <1>1, <1>2, <1>3, <1>9, <1>10

LEMMA NextKeepsReading ==
  ASSUME ReadsInv, ParserInv, ParserInv', StagesInv, [Next]_vars
  PROVE  ReadsInv'
<1> DEFINE Unread == stage \in {"trace", "settings"}
           Read == stage \in {"load", "init", "run"}
<1>1. ASSUME UNCHANGED parserVars, Unread' => Unread, Read' => Read PROVE ReadsInv'
  <2>1. UNCHANGED <<document, contents, pos, comment, sections, reading>>
    BY <1>1 DEF parserVars
  <2> SUFFICES ASSUME IsPlain(document) PROVE ReadsInv'
    BY <2>1 DEF ReadsInv
  <2>2. ASSUME Progress PROVE Progress'
    <3>1. PICK O : \E k \in 0 .. Len(document) :
            Parsing(O, k) /\ (Between(O, k, pos, comment) \/ Within(O, k, pos, comment))
      BY <2>2 DEF Progress
    <3>2. PICK k \in 0 .. Len(document) :
            Parsing(O, k) /\ (Between(O, k, pos, comment) \/ Within(O, k, pos, comment))
      BY <3>1
    <3>3. /\ Lies(O) /\ sections' = After(document)[k] /\ sections' \in Seq(ListsOfTexts)
          /\ Headed(k, sections')
      BY <2>1, <3>2 DEF Parsing
    <3>4. Between(O, k, pos', comment') \/ Within(O, k, pos', comment')
      BY <2>1, <3>2
    <3> QED BY <2>1, <3>3, <3>4, ParsingStays
  <2> QED BY <1>1, <2>1, <2>2 DEF ReadsInv
<1>2. CASE UNCHANGED vars
  BY <1>1, <1>2 DEF vars, engineVars
<1>3. ASSUME NEW how, End(how), UNCHANGED parserVars PROVE ReadsInv'
  BY <1>1, <1>3 DEF End
<1>4. CASE LoadTrace
  BY <1>1, <1>3, <1>4 DEF LoadTrace
<1>5. CASE openSettings
  <2>1. CASE End("exited") /\ UNCHANGED parserVars
    BY <1>3, <2>1
  <2>2. CASE /\ stage = "settings" /\ stage' = "load" /\ reading' = TRUE
             /\ UNCHANGED <<document, contents, pos, comment, sections, room>>
    <3> SUFFICES ASSUME IsPlain(document) PROVE contents' = FileOf(document') /\ Progress'
      BY <2>2 DEF ReadsInv
    <3>1. contents = FileOf(document) /\ pos = 1 /\ comment = "none" /\ sections = <<>>
      BY <2>2 DEF ReadsInv
    <3>2. PICK O : /\ Lies(O) /\ sections = After(document)[0] /\ Headed(0, sections)
                   /\ Between(O, 0, pos, comment) /\ 0 \in 0 .. Len(document)
      BY <3>1, ParsingStarts
    <3>3. sections' \in Seq(ListsOfTexts)
      BY DEF ParserInv
    <3>4. sections' = After(document)[0] /\ Headed(0, sections') /\ Between(O, 0, pos', comment')
      BY <2>2, <3>2
    <3>5. Progress'
      BY <2>2, <3>2, <3>3, <3>4, ParsingStays
    <3> QED BY <2>2, <3>1, <3>5
  <2> QED BY <1>5, <2>1, <2>2 DEF openSettings
<1>6. CASE Parse
  BY <1>6, ParseReads
<1>7. CASE Load
  <2>1. stage = "load" /\ UNCHANGED parserVars /\ (stage' \in {"load", "init"})
    BY <1>7 DEF Load, Advance, End
  <2> QED BY <1>1, <2>1
<1>8. CASE InitComponent
  <2>1. stage = "init" /\ UNCHANGED parserVars
    BY <1>8 DEF InitComponent
  <2>2. stage' \in {"init", "run"}
    BY <1>8, <2>1 DEF InitComponent, InitInterconnect, InitDirectory, InitCoherence, InitCache, InitSimpleCache,
                InitSetAssociativeCache, InitBranch, InitProcessor, Initialised, Advance, End
  <2> QED BY <1>1, <2>1, <2>2
<1>9. CASE Tick \/ Finish
  BY <1>3, <1>9 DEF Tick, Finish
<1> QED BY <1>2, <1>4, <1>5, <1>6, <1>7, <1>8, <1>9 DEF Next

(* When a plain file has been read to its end, the component list says     *)
(* what the file says, for every set of files.                             *)
THEOREM DocumentIsRead == Spec => []ReadsDocument
<1> DEFINE Reads == StartupInv /\ ParserInv /\ ReadsInv
<1>1. Init => Reads
  <2> SUFFICES ASSUME Init PROVE Reads
    OBVIOUS
  <2>1. ReadsInv
    BY DEF Init, InitSettings, ReadsInv
  <2> QED BY <2>1, InitInv, InitParser
<1>2. Reads /\ [Next]_vars => Reads'
  <2> SUFFICES ASSUME Reads, [Next]_vars PROVE Reads'
    OBVIOUS
  <2>1. StartupInv' /\ ParserInv'
    BY NextKeeps, NextKeepsParser
  <2>2. ReadsInv'
    BY <2>1, NextKeepsReading DEF StartupInv
  <2> QED BY <2>1, <2>2
<1>3. Reads => ReadsDocument
  BY DEF ReadsInv, ReadsDocument
<1> HIDE DEF Reads
<1> QED BY <1>1, <1>2, <1>3, PTL DEF Spec

-----------------------------------------------------------------------------
(* What an init was handed is what the sections, which no longer change,   *)
(* hold for it.                                                            *)
GivenInv ==
    /\ given = [c \in Component |-> given[c]]
    /\ stage \in {"init", "run"} => ~reading
    /\ Early => made = {}
    /\ \A c \in made \ Unlisted : given[c] = Handed(c)

LEMMA InitialisedGiven ==
  ASSUME GivenInv, NEW c \in Component, NEW objects, objects \in {{}, {c}}, NEW pointers,
         stage = "init", Initialised(c, objects, pointers), UNCHANGED parserVars
  PROVE  GivenInv'
<1>1. /\ made' = made \cup objects
      /\ given' = [given EXCEPT ![c] = IF c \in Unlisted THEN <<>> ELSE Handed(c)]
      /\ reading' = reading /\ ~reading
      /\ stage' \in {"init", "run"}
      /\ \A d \in Component : Handed(d)' = Handed(d)
  BY DEF Initialised, parserVars, Handed, getSettings, GivenInv, Advance
<1>2. \A d \in made' \ Unlisted : given'[d] = Handed(d)
  BY <1>1 DEF GivenInv
<1>3. (\A d \in made \ Unlisted : given[d] = Handed(d))'
  BY <1>2 DEF Handed, getSettings, parserVars
<1>4. given' = [d \in Component |-> given'[d]]
  BY <1>1 DEF GivenInv
<1> QED BY <1>1, <1>3, <1>4 DEF GivenInv, Early

LEMMA NextKeepsGiven ==
  ASSUME GivenInv, StagesInv, RunningInv, [Next]_vars
  PROVE  GivenInv'
<1>1. CASE UNCHANGED <<given, made, sections, reading>> /\ (stage' \in {"init", "run"} => ~reading)
           /\ (stage' \in {"trace", "settings", "load"} => made = {})
  BY <1>1 DEF GivenInv, Early, Handed, getSettings
<1>2. ASSUME NEW how, End(how), UNCHANGED parserVars PROVE GivenInv'
  BY <1>1, <1>2 DEF End, parserVars, GivenInv, Early
<1>3. CASE UNCHANGED vars
  BY <1>1, <1>3 DEF vars, engineVars, parserVars, GivenInv, Early
<1>4. CASE LoadTrace
  BY <1>1, <1>2, <1>4 DEF LoadTrace, parserVars, GivenInv, Early
<1>5. CASE openSettings
  <2>1. CASE End("exited") /\ UNCHANGED parserVars
    BY <1>2, <2>1
  <2>2. CASE stage' = "load" /\ UNCHANGED <<sections, made, given>>
    BY <1>5, <2>2 DEF openSettings, GivenInv, Early
  <2> QED BY <1>5, <2>1, <2>2 DEF openSettings
<1>6. CASE Parse
  <2>1. stage = "load" /\ UNCHANGED engineVars
    BY <1>6 DEF Parse
  <2> QED BY <2>1 DEF engineVars, GivenInv, Early
<1>7. CASE Load
  <2>1. stage = "load" /\ ~reading /\ UNCHANGED parserVars /\ UNCHANGED <<made, given>> /\ made = {}
    BY <1>7 DEF Load, End, GivenInv, Early
  <2> QED BY <1>1, <2>1 DEF parserVars
<1>8. CASE InitComponent
  <2>1. stage = "init" /\ UNCHANGED parserVars
    BY <1>8 DEF InitComponent
  <2>2. ASSUME NEW c \in Component, NEW objects, NEW pointers, objects \in {{}, {c}},
               Initialised(c, objects, pointers)
        PROVE  GivenInv'
    BY <2>1, <2>2, InitialisedGiven
  <2>3. /\ "interconnect" \in Component /\ "directory" \in Component /\ "coherence" \in Component
        /\ "cache" \in Component /\ "branch" \in Component /\ "processor" \in Component
    BY DEF Component
  <2>4. CASE InitInterconnect
    BY <1>2, <2>1, <2>2, <2>3, <2>4 DEF InitInterconnect
  <2>5. CASE InitCoherence
    BY <2>2, <2>3, <2>5 DEF InitCoherence
  <2>6. CASE InitCache
    BY <1>2, <2>1, <2>2, <2>3, <2>6 DEF InitCache, InitSimpleCache, InitSetAssociativeCache
  <2>7. CASE InitDirectory
    BY <2>2, <2>3, <2>7 DEF InitDirectory
  <2>8. CASE InitBranch
    BY <2>2, <2>3, <2>8 DEF InitBranch
  <2>9. CASE InitProcessor
    BY <2>2, <2>3, <2>9 DEF InitProcessor
  <2> QED BY <1>2, <1>8, <2>1, <2>4, <2>5, <2>6, <2>7, <2>8, <2>9 DEF InitComponent
<1>9. CASE Tick \/ Finish
  BY <1>2, <1>9 DEF Tick, Finish
<1> QED BY <1>3, <1>4, <1>5, <1>6, <1>7, <1>8, <1>9 DEF Next

(* For a plain document the coherence, cache, branch and processor inits   *)
(* get the arguments of their own sections: no init runs before the parser *)
(* is done or after the list of sections changed, and none is handed the   *)
(* section of another.                                                     *)
THEOREM FourSectionsReach == Spec => []FourGetTheirSections
<1> DEFINE Given == StartupInv /\ GivenInv
<1>1. Init => Given
  BY InitInv DEF Init, InitSettings, GivenInv, Early
<1>2. Given /\ [Next]_vars => Given'
  BY NextKeeps, NextKeepsGiven DEF StartupInv
<1>3. Given /\ ReadsDocument => FourGetTheirSections
  <2> SUFFICES ASSUME Given, ReadsDocument, IsPlain(document), NEW c \in made \ Unlisted
               PROVE  given[c] = OwnSection(c)
    BY DEF FourGetTheirSections
  <2>1. stage \in {"init", "run"} /\ ~reading
    BY DEF GivenInv, StartupInv, StagesInv, Early
  <2>2. sections = Meaning(document)
    BY <2>1 DEF ReadsDocument
  <2>3. given[c] = Handed(c)
    BY DEF GivenInv
  <2> QED BY <2>2, <2>3 DEF Handed, getSettings, OwnSection
<1> HIDE DEF Given
<1> QED BY <1>1, <1>2, <1>3, DocumentIsRead, PTL DEF Spec

=============================================================================

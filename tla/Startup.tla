------------------------------- MODULE Startup -------------------------------
(***************************************************************************)
(* The engine, engine/engine.c: main loads the trace reader, reads the     *)
(* settings, loads the six component libraries, calls their inits in an    *)
(* order of its own and ticks the processor until it makes no progress.    *)
(* Whether a library was named on the command line, whether it can be      *)
(* loaded and which implementation it is are choices of the environment.   *)
(***************************************************************************)
EXTENDS Settings, Integers, FiniteSets

CONSTANTS
    SectionName,    \* the section a component reads, as a text
    RefusedOption,  \* an argument that makes a set-associative cache print its help
    BlockOption,    \* the argument that tells a simple cache its block size
    LinesOption,    \* the argument that tells cache_impl the lines of its sets
    IndexOption,    \* the argument that tells branch_impl its index bits
    Counts,         \* the processor counts considered
    MaxMissing,     \* bound on the libraries that cannot be loaded
    None

LoadOrder == <<"interconnect", "directory", "coherence", "cache", "processor", "branch">>
InitOrder == <<"interconnect", "directory", "coherence", "cache", "branch", "processor">>
Component == {"interconnect", "directory", "coherence", "cache", "processor", "branch"}

(* Libraries of one component whose inits do the same here count as one.   *)
Libraries ==
    [interconnect |-> {"interconnect"},
     directory    |-> {"directory"},
     coherence    |-> {"d_coherence", "coherence_impl_final"},
     cache        |-> {"simpleCache", "cache_impl"},
     processor    |-> {"processor"},
     branch       |-> {"branch", "branch_impl"}]

ASSUME CountsAssumption == Counts \subseteq Int
ASSUME NoneAssumption == \A c \in Component : None \notin Libraries[c]

VARIABLES
    stage,          \* "trace", "settings", "load", "init", "run"
    turn,           \* the component the stage deals with, in its order
    outcome,        \* "starting", "running", "exited", "crashed"
    processorCount,
    reader,         \* the trace reader, TRUE when its trace could be opened
    loaded,         \* the library of each component, or None
    missing,        \* the components whose library could not be loaded
    made,           \* the components whose init returned an object
    holds,          \* <<a, b>>: component a holds a pointer to the object of b
    given           \* the argument vector each init was handed

engineVars == <<stage, turn, outcome, processorCount, reader, loaded, missing, made, holds, given>>
vars == <<parserVars, engineVars>>

Init ==
    /\ InitSettings
    /\ stage = "trace"
    /\ turn = 1
    /\ outcome = "starting"
    /\ processorCount \in Counts
    /\ reader = FALSE
    /\ loaded = [c \in Component |-> None]
    /\ missing = {}
    /\ made = {}
    /\ holds = {}
    /\ given = [c \in Component |-> <<>>]

End(how) ==
    /\ outcome' = how
    /\ UNCHANGED <<stage, turn, processorCount, reader, loaded, missing, made, holds, given>>

(* loadSim("trace"), and the init of the reader, which is not asked whether *)
(* it could open its trace.                                                *)
LoadTrace ==
    /\ stage = "trace"
    /\ \/ End("crashed")
       \/ /\ stage' = "settings"
          /\ reader' \in BOOLEAN
          /\ UNCHANGED <<turn, outcome, processorCount, loaded, missing, made, holds, given>>
    /\ UNCHANGED parserVars

openSettings ==
    /\ stage = "settings"
    /\ \/ End("exited") /\ UNCHANGED parserVars
       \/ /\ stage' = "load"
          /\ reading' = TRUE
          /\ UNCHANGED <<document, contents, pos, comment, sections, room>>
          /\ UNCHANGED <<turn, outcome, processorCount, reader, loaded, missing, made, holds, given>>

Advance(then) ==
    IF turn < Len(LoadOrder)
    THEN turn' = turn + 1 /\ UNCHANGED stage
    ELSE turn' = 1 /\ stage' = then

(* A library that was named and cannot be loaded ends the program; that of *)
(* a default name is not asked for, and the directory is never named.      *)
Load ==
    /\ stage = "load"
    /\ ~reading
    /\ LET c == LoadOrder[turn]
       IN  \/ /\ \E library \in Libraries[c] : loaded' = [loaded EXCEPT ![c] = library]
              /\ Advance("init")
              /\ UNCHANGED <<outcome, processorCount, reader, missing, made, holds, given>>
           \/ /\ Cardinality(missing) < MaxMissing
              /\ missing' = missing \cup {c}
              /\ Advance("init")
              /\ UNCHANGED <<outcome, processorCount, reader, loaded, made, holds, given>>
           \/ c # "directory" /\ End("exited")
    /\ UNCHANGED parserVars

-----------------------------------------------------------------------------
(* The inits.  Each is handed the settings of its section, but for two     *)
(* whose list arg = NULL drops.                                            *)
Unlisted == {"interconnect", "directory"}

Handed(c) == getSettings(SectionName[c])

Mentions(c, option) == Handed(c) # <<>> /\ option \in ToSet(Tail(Handed(c)))

Initialised(c, objects, pointers) ==
    /\ made' = made \cup objects
    /\ holds' = holds \cup {h \in pointers : h[2] \in made \cup objects}
    /\ given' = [given EXCEPT ![c] = IF c \in Unlisted THEN <<>> ELSE Handed(c)]
    /\ Advance("run")
    /\ UNCHANGED <<outcome, processorCount, reader, loaded, missing>>

(* The count is not dropped: getopt reads through the null list when there *)
(* is an argument behind the name.                                         *)
InitInterconnect ==
    IF Len(Handed("interconnect")) > 1
    THEN End("crashed")
    ELSE Initialised("interconnect", {"interconnect"}, {})

InitDirectory ==
    Initialised("directory", {"directory"}, {<<"directory", "interconnect">>})

(* Mutant: the component does not register with its partners.              *)
InitCoherenceSilent ==
    IF processorCount < 1 \/ processorCount > 256
    THEN Initialised("coherence", {}, {})
    ELSE Initialised("coherence", {"coherence"}, {<<"coherence", "interconnect">>, <<"coherence", "directory">>})

(* Both coherence components check the processor count.  The directory     *)
(* version registers with the interconnect and the directory, the snooping *)
(* one with the interconnect.                                              *)
InitCoherence ==
    LET partners == IF loaded["coherence"] = "d_coherence"
                    THEN {"interconnect", "directory"} ELSE {"interconnect"}
    IN  IF processorCount < 1 \/ processorCount > 256
        THEN Initialised("coherence", {}, {})
        ELSE Initialised("coherence", {"coherence"},
                         {<<"coherence", p>> : p \in partners} \cup {<<p, "coherence">> : p \in partners})

(* The simple cache calls the coherence component to register its callback *)
(* and, for -b, the block size; the snooping component leaves the pointer  *)
(* of the second call as malloc gave it.                                   *)
InitSimpleCache ==
    \/ /\ "coherence" \notin made
       /\ End("crashed")
    \/ /\ "coherence" \in made
       /\ Mentions("cache", BlockOption)
       /\ loaded["coherence"] = "coherence_impl_final"
       /\ End("crashed")
    \/ /\ "coherence" \in made
       /\ Initialised("cache", {"cache"}, {<<"cache", "coherence">>, <<"coherence", "cache">>})

InitSetAssociativeCache ==
    IF Mentions("cache", RefusedOption)
    THEN Initialised("cache", {}, {})
    ELSE Initialised("cache", {"cache"}, {})

InitCache ==
    IF loaded["cache"] = "simpleCache" THEN InitSimpleCache ELSE InitSetAssociativeCache

InitBranch == Initialised("branch", {"branch"}, {})

InitProcessor ==
    Initialised("processor", {"processor"}, {<<"processor", "cache">>, <<"processor", "branch">>})

(* A library that was not loaded is called through a null pointer.         *)
InitComponent ==
    /\ stage = "init"
    /\ LET c == InitOrder[turn]
       IN  \/ loaded[c] = None /\ End("crashed")
           \/ /\ loaded[c] # None
              /\ \/ c = "interconnect" /\ InitInterconnect
                 \/ c = "directory" /\ InitDirectory
                 \/ c = "coherence" /\ InitCoherence
                 \/ c = "cache" /\ InitCache
                 \/ c = "branch" /\ InitBranch
                 \/ c = "processor" /\ InitProcessor
    /\ UNCHANGED parserVars

(* Set-ups that the inits accept and whose first requests look outside of  *)
(* what was allocated: with one processor, bitMask(-1, 0) makes any number *)
(* a block's home; with no lines in a set, an access takes the first one;  *)
(* with no index bits, any number is an index into the one predictor.      *)
HomesAnywhere ==
    /\ processorCount = 1
    /\ loaded["cache"] = "simpleCache" /\ loaded["coherence"] = "d_coherence"

SetsWithoutLines == loaded["cache"] = "cache_impl" /\ ~Mentions("cache", LinesOption)

IndexAnywhere == loaded["branch"] = "branch_impl" /\ ~Mentions("branch", IndexOption)

(* A round of the main loop: the processor component ticks the cache, and  *)
(* each of its processors fetches from the reader and asks the cache and   *)
(* the predictor.  Without progress the program finishes.                  *)
Tick ==
    /\ stage = "run"
    /\ \/ <<"processor", "cache">> \notin holds /\ End("crashed")
       \/ processorCount > 0 /\ ~reader /\ End("crashed")
       \/ /\ processorCount > 0
          /\ HomesAnywhere \/ SetsWithoutLines \/ IndexAnywhere
          /\ End("crashed")
       \/ /\ <<"processor", "cache">> \in holds
          /\ processorCount > 0 => reader
          /\ End("running")
    /\ UNCHANGED parserVars

Finish ==
    /\ stage = "run"
    /\ outcome = "running"
    /\ End("exited")
    /\ UNCHANGED parserVars

Going == outcome \in {"starting", "running"}

Parse ==
    /\ stage = "load"
    /\ ParseStep
    /\ UNCHANGED engineVars

Next ==
    /\ Going
    /\ \/ LoadTrace
       \/ openSettings
       \/ Parse
       \/ Load
       \/ InitComponent
       \/ Tick
       \/ Finish

Spec == Init /\ [][Next]_vars

(* The engine is one thread.                                               *)
FairSpec == Spec /\ WF_vars(Next)
-----------------------------------------------------------------------------
TypeOK ==
    /\ SettingsTypeOK
    /\ stage \in {"trace", "settings", "load", "init", "run"}
    /\ outcome \in {"starting", "running", "exited", "crashed"}
    /\ \A c \in Component : loaded[c] \in Libraries[c] \cup {None}
    /\ made \subseteq Component
    /\ missing \subseteq Component
    /\ holds \subseteq Component \X Component
    /\ turn \in DOMAIN LoadOrder

(* When a plain file has been read to its end, the component list says     *)
(* what the file says: comments, quotes and white space of config.h are    *)
(* told apart by the loop of config.c.                                     *)
ReadsDocument ==
    ~reading /\ stage \in {"load", "init", "run"} /\ IsPlain(document)
        => sections = Meaning(document)

(* What the file gives component c: the first section of its name, or      *)
(* nothing.                                                                *)
OwnSection(c) ==
    LET meaning == Meaning(document)
        named == {k \in DOMAIN meaning : meaning[k][1] = SectionName[c]}
    IN  IF named = {} THEN <<>> ELSE meaning[Min(named)]

(* The coherence, cache, branch and processor components are handed their  *)
(* own sections, whatever the order of the sections in the file.  config.h *)
(* promises it to each component (lines 7-9); the interconnect and the     *)
(* directory do not get theirs (Unlisted), and nothing is said of them.    *)
FourGetTheirSections ==
    \A c \in made \ Unlisted : IsPlain(document) => given[c] = OwnSection(c)

(* Once the processor runs, every component it reaches is there and knows  *)
(* its partners: the reader has its trace, a simple cache and a coherence  *)
(* component can call each other, and coherence can reach its network and  *)
(* its directory, which can answer over the same network.                  *)
RunsWhole ==
    outcome = "running" =>
        /\ processorCount > 0 => reader
        /\ {<<"processor", "cache">>, <<"processor", "branch">>} \subseteq holds
        /\ loaded["cache"] = "simpleCache" =>
             /\ processorCount \in 1 .. 256
             /\ {<<"cache", "coherence">>, <<"coherence", "cache">>,
                 <<"coherence", "interconnect">>, <<"interconnect", "coherence">>} \subseteq holds
             /\ loaded["coherence"] = "d_coherence" =>
                  {<<"coherence", "directory">>, <<"directory", "coherence">>,
                   <<"directory", "interconnect">>} \subseteq holds

(* With a plain settings file the engine does not stay in startup: the     *)
(* parser reaches the end of the file, and the engine runs or ends.        *)
StartupEnds == IsPlain(document) => <>(outcome # "starting")
=============================================================================

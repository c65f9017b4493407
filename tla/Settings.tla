------------------------------ MODULE Settings ------------------------------
(***************************************************************************)
(* The parser of settings files, engine/config.c.  One step is one round   *)
(* of the outer loop of parseSettings.  Positions count from 1, and        *)
(* At(Len(contents) + 1) is the '\0' behind the file.  The zero bytes that *)
(* parseSettings writes behind the texts it copies are never read again    *)
(* and are left out.                                                       *)
(***************************************************************************)
EXTENDS SettingsFile, FiniteSetsExt

CONSTANTS
    Documents,          \* the settings files considered
    ArgListChunkSize    \* entries by which an argument list grows: 16 in the code

ASSUME DocumentsAssumption == \A d \in Documents : FileOf(d) \in Seq(STRING)
ASSUME ChunkAssumption == ArgListChunkSize \in Nat /\ ArgListChunkSize > 1

VARIABLES
    document,   \* what the file is meant to say; the code never reads it
    contents,   \* configContents
    pos,
    comment,    \* inComment and inMultiComment: "none", "line" or "block"
    sections,   \* componentList: the argument vectors, name first
    room,       \* argSize, of the last section
    reading     \* the loop of parseSettings goes on

parserVars == <<document, contents, pos, comment, sections, room, reading>>

InitSettings ==
    /\ document \in Documents
    /\ contents = FileOf(document)
    /\ pos = 1
    /\ comment = "none"
    /\ sections = <<>>
    /\ room = ArgListChunkSize
    /\ reading = FALSE

At(p) == IF p \in DOMAIN contents THEN contents[p] ELSE "nul"

SkipUntil(p, Stops(_)) == Min({Len(contents) + 1} \cup {q \in p .. Len(contents) : Stops(q)})

IsBlank(p) == At(p) \in Blank
OpensComment(p) == At(p) = "/" /\ At(p + 1) \in {"/", "*"}
Opened(p) == IF At(p + 1) = "/" THEN "line" ELSE "block"
(* Mutant: one underscore is enough.                                       *)
StartsSectionShort(p) == At(p) = "_"

StartsSection(p) == At(p) = "_" /\ At(p + 1) = "_"

GoOnAt(p) ==
    /\ pos' = p
    /\ reading' = (p <= Len(contents))
    /\ UNCHANGED <<document, contents>>

Stop ==
    /\ reading' = FALSE
    /\ UNCHANGED <<document, contents, pos, comment, sections, room>>

(* Mutant: the flag stays set.                                             *)
SkipLineAgain ==
    /\ comment = "line"
    /\ GoOnAt(SkipUntil(pos, LAMBDA q : At(q) = Newline))
    /\ UNCHANGED <<comment, sections, room>>

SkipLine ==
    /\ comment = "line"
    /\ comment' = "none"
    /\ GoOnAt(SkipUntil(pos, LAMBDA q : At(q) = Newline))
    /\ UNCHANGED <<sections, room>>

SkipBlock ==
    /\ comment = "block"
    /\ comment' = "none"
    /\ LET q == SkipUntil(pos, LAMBDA r : At(r) = "*" \/ At(r + 1) = "/")
       IN  GoOnAt(IF q > Len(contents) THEN q ELSE q + 2)
    /\ UNCHANGED <<sections, room>>

OpenComment ==
    /\ comment = "none"
    /\ OpensComment(pos)
    /\ comment' = Opened(pos)
    /\ GoOnAt(pos + 2)
    /\ UNCHANGED <<sections, room>>

(* continue without a step ahead: the loop never ends.                     *)
LoneSlash ==
    /\ comment = "none"
    /\ At(pos) = "/"
    /\ ~OpensComment(pos)
    /\ UNCHANGED parserVars

NextText == SkipUntil(pos, LAMBDA q : ~IsBlank(q))

ReadsText == comment = "none" /\ At(pos) # "/"

NothingLeft ==
    /\ ReadsText
    /\ NextText > Len(contents)
    /\ Stop

ReadSection ==
    /\ ReadsText
    /\ StartsSection(NextText)
    /\ LET first == NextText + 2
           last  == SkipUntil(first, IsBlank)
       IN  IF last > Len(contents)
           THEN Stop
           ELSE /\ sections' = Append(sections, <<SubSeq(contents, first, last - 1)>>)
                /\ room' = ArgListChunkSize
                /\ GoOnAt(last + 1)
                /\ UNCHANGED comment

NoSectionYet ==
    /\ ReadsText
    /\ NextText <= Len(contents)
    /\ ~StartsSection(NextText)
    /\ sections = <<>>
    /\ Stop

(* Mutant: a full list does not grow.                                      *)
ReadArgumentNoGrowth ==
    /\ ReadsText
    /\ NextText <= Len(contents)
    /\ ~StartsSection(NextText)
    /\ sections # <<>>
    /\ LET quoted  == At(NextText) = "\""
           first   == IF quoted THEN NextText + 1 ELSE NextText
           Ends(q) == IF quoted THEN At(q) = "\"" ELSE IsBlank(q) \/ OpensComment(q)
           last    == SkipUntil(first, Ends)
           opens   == ~quoted /\ OpensComment(last)
           args    == sections[Len(sections)]
       IN  /\ IF last = first
              THEN UNCHANGED <<sections, room>>
              ELSE /\ sections' = [sections EXCEPT ![Len(sections)] =
                                      Append(args, SubSeq(contents, first, last - 1))]
                   /\ room' = room
           /\ comment' = IF opens THEN Opened(last) ELSE "none"
           /\ GoOnAt(IF opens THEN last + 2 ELSE last + 1)

ReadArgument ==
    /\ ReadsText
    /\ NextText <= Len(contents)
    /\ ~StartsSection(NextText)
    /\ sections # <<>>
    /\ LET quoted  == At(NextText) = "\""
           first   == IF quoted THEN NextText + 1 ELSE NextText
           Ends(q) == IF quoted THEN At(q) = "\"" ELSE IsBlank(q) \/ OpensComment(q)
           last    == SkipUntil(first, Ends)
           opens   == ~quoted /\ OpensComment(last)
           args    == sections[Len(sections)]
       IN  /\ IF last = first
              THEN UNCHANGED <<sections, room>>
              ELSE /\ sections' = [sections EXCEPT ![Len(sections)] =
                                      Append(args, SubSeq(contents, first, last - 1))]
                   /\ room' = IF Len(args) = room THEN room + ArgListChunkSize ELSE room
           /\ comment' = IF opens THEN Opened(last) ELSE "none"
           /\ GoOnAt(IF opens THEN last + 2 ELSE last + 1)

ParseStep ==
    /\ reading
    /\ \/ SkipLine
       \/ SkipBlock
       \/ OpenComment
       \/ LoneSlash
       \/ NothingLeft
       \/ ReadSection
       \/ NoSectionYet
       \/ ReadArgument

(* Mutant: the walk of the list does not stop at a match.                  *)
getSettingsLast(name) ==
    LET named == {k \in DOMAIN sections : sections[k][1] = name}
    IN  IF named = {} THEN <<>> ELSE sections[Max(named)]

(* The argument vector of the first section of that name, or none.         *)
getSettings(name) ==
    LET named == {k \in DOMAIN sections : sections[k][1] = name}
    IN  IF named = {} THEN <<>> ELSE sections[Min(named)]

SettingsTypeOK ==
    /\ pos \in 1 .. Len(contents) + 2
    /\ comment \in {"none", "line", "block"}
    /\ reading \in BOOLEAN
    /\ \A k \in DOMAIN sections : sections[k] # <<>>
    \* the list holds its arguments; the NULL behind them may be one entry past it
    /\ sections # <<>> => Len(sections[Len(sections)]) <= room
=============================================================================

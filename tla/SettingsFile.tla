---------------------------- MODULE SettingsFile ----------------------------
(***************************************************************************)
(* What a settings file means, after the description in engine/config.h: a *)
(* list of sections, each a name and its arguments.  A document is a       *)
(* sequence of tokens, each followed by a gap of white space.  A text is a *)
(* sequence of characters.                                                 *)
(***************************************************************************)
EXTENDS Naturals, Sequences, SequencesExt

Newline == "\n"
Blank == {" ", Newline}

Token(kind, text, gap) == [kind |-> kind, text |-> text, gap |-> gap]

IsComment(token) == token.kind \in {"line", "block"}
IsArgument(token) == token.kind \in {"word", "quoted"}

(* How a token is written.                                                 *)
Written(token) ==
    CASE token.kind = "name"   -> <<"_", "_">> \o token.text \o token.gap
      [] token.kind = "word"   -> token.text \o token.gap
      [] token.kind = "quoted" -> <<"\"">> \o token.text \o <<"\"">> \o token.gap
      [] token.kind = "line"   -> <<"/", "/">> \o token.text \o <<Newline>> \o token.gap
      [] token.kind = "block"  -> <<"/", "*">> \o token.text \o <<"*", "/">> \o token.gap

FileOf(document) == FlattenSeq([k \in DOMAIN document |-> Written(document[k])])

(* The sections of a document, as argument vectors: name first.            *)
AddToken(sections, token) ==
    CASE token.kind = "name"  -> Append(sections, <<token.text>>)
      [] IsArgument(token)    -> [sections EXCEPT ![Len(sections)] = Append(@, token.text)]
      [] OTHER                -> sections

After(document) ==
    LET after[k \in 0 .. Len(document)] ==
          IF k = 0 THEN <<>> ELSE AddToken(after[k - 1], document[k])
    IN  after

Meaning(document) == After(document)[Len(document)]

(* A token that can be told from what stands around it: its text holds     *)
(* nothing that ends a token of its kind or starts one of another.         *)
Pairs(text) == {<<text[i], text[i + 1]>> : i \in 1 .. Len(text) - 1}

IsToken(token) ==
    \/ token.kind = "name" /\ ToSet(token.text) \cap Blank = {}
    \/ /\ token.kind = "word" /\ token.text # <<>>
       /\ ToSet(token.text) \cap Blank = {}
       /\ Pairs(token.text) \cap {<<"/", "/">>, <<"/", "*">>} = {}
       /\ Head(token.text) # "\""
       /\ Len(token.text) > 1 => <<token.text[1], token.text[2]>> # <<"_", "_">>
    \/ token.kind = "quoted" /\ "\"" \notin ToSet(token.text)
    \/ token.kind = "line" /\ Newline \notin ToSet(token.text)
    \/ token.kind = "block" /\ <<"*", "/">> \notin Pairs(token.text)

(* Every argument belongs to a section, and what must be kept apart is.    *)
IsDocument(document) ==
    /\ document \in Seq([kind : STRING, text : Seq(STRING), gap : Seq(Blank)])
    /\ \A k \in DOMAIN document :
        /\ IsToken(document[k])
        /\ IsArgument(document[k]) => \E j \in 1 .. k - 1 : document[j].kind = "name"
        /\ k < Len(document) /\ document[k].gap = <<>>
             => \/ IsComment(document[k])
                \/ /\ IsArgument(document[k]) /\ IsComment(document[k + 1])
                   /\ document[k].kind = "word" => document[k].text[Len(document[k].text)] # "/"

(* The documents config.c reads as they are meant.  The others are lawful  *)
(* by the description, and the comment on each says what happens.          *)
IsPlain(document) ==
    /\ IsDocument(document)
    /\ \A k \in DOMAIN document :
        LET token == document[k]
            leads == \A j \in 1 .. k : IsComment(document[j])
        IN  \* a name at the very end of the file is dropped
            /\ token.kind = "name" => token.gap # <<>>
            \* a word that starts with a slash holds the parser up forever
            /\ token.kind = "word" => Head(token.text) # "/"
            \* an empty argument is left out
            /\ token.kind = "quoted" => token.text # <<>>
            \* a block comment ends at any star and before any slash
            /\ token.kind = "block" => {"*", "/"} \cap ToSet(token.text) = {}
            \* white space between two comments ahead of the first section is refused
            /\ k > 1 /\ leads => document[k - 1].kind = "block" /\ document[k - 1].gap = <<>>
=============================================================================

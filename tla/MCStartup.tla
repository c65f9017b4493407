----------------------------- MODULE MCStartup -----------------------------
(* Documents of up to three tokens, out of every kind and every awkward    *)
(* text, of four plain ones, the longer ones that give a component more    *)
(* arguments than a chunk holds, and those with a section for each of four *)
(* components.                                                             *)
EXTENDS Startup

Named == [interconnect |-> <<"i">>, directory |-> <<"d">>, coherence |-> <<"o">>,
          cache |-> <<"c">>, branch |-> <<"b">>, processor |-> <<"p">>]

MCRefusedOption == <<"h">>
MCBlockOption == <<"x">>
MCLinesOption == <<"_", "x">>
MCIndexOption == <<"s">>

Gap == {<<>>, <<" ">>, <<" ", Newline>>}

Tokens ==
         {Token("name", t, g) : t \in {<<"c">>, <<"i">>}, g \in {<<>>, <<Newline>>}}
    \cup {Token("word", t, g) : t \in {<<"h">>, <<"_", "x">>, <<"/", "x">>}, g \in {<<>>, <<" ">>}}
    \cup {Token("quoted", <<"x", " ", "/", "/">>, <<" ">>), Token("quoted", <<>>, <<" ">>)}
    \cup {Token("line", <<"x">>, <<>>)}
    \cup {Token("block", t, <<>>) : t \in {<<"_", "_", " ">>, <<"*">>, <<"x", "/", " ">>}}
    \cup {Token("block", <<"x">>, <<" ">>)}

Short == {d \in SeqOf(Tokens, 3) : IsDocument(d)}

Few == {Token("name", <<"c">>, <<" ">>), Token("name", <<"i">>, <<" ">>),
        Token("word", <<"x">>, <<>>), Token("word", <<"h">>, <<" ", " ">>),
        Token("line", <<"x">>, <<>>)}
Mixed == {d \in SeqOf(Few, 4) : IsDocument(d)}

Words == {Token("word", <<"x">>, <<" ">>), Token("line", <<"x">>, <<>>)}
Long == {<<Token("name", <<"c">>, <<" ">>)>> \o d : d \in [1 .. 5 -> Words]}

(* Each of the four components in every place, with its own argument.      *)
Turned(k) == FlattenSeq([n \in 1 .. 4 |->
               LET c == <<<<"o">>, <<"c">>, <<"b">>, <<"p">>>>[((n + k) % 4) + 1]
               IN  <<Token("name", c, <<" ">>), Token("word", c \o <<"s">>, <<" ">>)>>])
Four == {Turned(k) : k \in 0 .. 3}

MCDocuments == Short \cup Mixed \cup Long \cup Four
=============================================================================

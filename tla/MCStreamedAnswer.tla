-------------------------- MODULE MCStreamedAnswer --------------------------
(* Every short text over the pieces of a line, and longer ones that need   *)
(* fences, placeholders, fork bombs and tool calls to be interesting.      *)
EXTENDS StreamedAnswer
MCDictionary == [id1 |-> "disk", id2 |-> "host", id3 |-> "prog"]
LinePieces == {"part", "word", "prog", "root", "tick", "fence", "nl"}
Fragments(pieces, indices) ==
    [i \in DOMAIN pieces |-> [index |-> indices[i], piece |-> pieces[i]]]
Said(text, args) == [text |-> text, calls |-> args]
Fenced(body) == <<"word", "nl", "fence", "nl">> \o body \o <<"nl", "fence", "nl", "word">>
Long == {Fenced(<<"prog", "disk">>), Fenced(<<"prog", "cont", "disk">>),
         Fenced(<<"word", "word">>), Fenced(<<"bomb1", "nl", "bomb2">>),
         <<"fence", "nl", "word", "nl", "prog", "root">>,
         <<"word", "bomb1", "bomb2", "nl", "word">>,
         <<"prog", "open", "id1", "nl">>, <<"word", "open", "id2", "nl">>,
         <<"word", "open", "id2", "open", "id1", "part">>,
         <<"word", "fence", "nl", "prog", "word", "word", "root">>,
         <<"word", "tick", "prog", "open", "id1", "tick", "nl">>,
         <<"prog", "root", "part", "nl", "word", "prog", "disk", "nl">>,
         <<"part", "tick">> \o [i \in 1..6 |-> "part"] \o <<"word", "word">>,
         <<"prog">> \o [i \in 1..10 |-> "part"],
         <<"part", "open", "tick">> \o [i \in 1..5 |-> "part"]
             \o <<"word", "part", "id1", "part", "part", "part">>,
         <<"open", "id3", "root", "part", "nl">>,
         <<"open", "id3", "word", "root", "tick", "part">>,
         <<"part", "open", "id3", "part", "disk", "nl", "word">>,
         <<"word", "tick", "open", "id3", "root", "tick", "part", "nl">>,
         Fenced(<<"open", "id3", "word", "root">>),
         [i \in 1..7 |-> "word"] \o <<"part", "prog", "root", "nl">>}
Short == UNION {[1..n -> LinePieces] : n \in 0..4}
         \cup [1..5 -> {"part", "word", "prog", "root", "tick"}]
MCAnswers ==
    {Said(text, <<>>) : text \in Short \cup Long}
    \cup {Said(text, args) :
            text \in {<<>>, <<"word">>, <<"prog", "disk">>, <<"fence", "nl", "prog", "disk">>},
            args \in {Fragments(<<"prog", "root">>, <<1, 1>>),
                      Fragments(<<"open", "prog", "id2", "root">>, <<1, 2, 1, 2>>),
                      Fragments(<<"open", "open", "id2">>, <<2, 1, 2>>),
                      Fragments(<<"open", "id1", "open", "id2">>, <<1, 1, 2, 2>>)}}
MCMasked == {Said(<<"open", "id3", "root", "part">>, <<>>),
             Said(<<"word", "open", "id3", "word", "nl", "prog", "word">>, <<>>),
             Said(Fenced(<<"open", "id3", "word", "root">>), <<>>)}
MCPlain == {Said(<<"part", "word">>, <<>>), Said(<<"word", "nl">>, <<>>)}
MCStandby == {Said(text, <<>>) : text \in {<<"word">>, Fenced(<<"prog", "disk">>)}}
             \cup {Said(<<"part", "word">>, Fragments(<<"open", "id2">>, <<1, 1>>))}
=============================================================================

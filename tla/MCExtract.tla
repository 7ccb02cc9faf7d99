------------------------------ MODULE MCExtract ------------------------------
(***************************************************************************)
(* Instances of Extract for TLC.                                           *)
(***************************************************************************)
EXTENDS Extract

TwoChannels == 1..2
TwoIds == 1..2

alice == <<"alice">>
bob == <<"bob">>

\* Channel 1 is alice, and bob and an invite lead to channel 2.
TwoPeers == [n \in {alice, bob} |-> IF n = alice THEN 1 ELSE 2]

Say(c, i, t) == [chan |-> c, id |-> i, text |-> t]
TMe == <<"t", ".", "me", "/">>

\* Three rows make one batch of two and a rest; the last message has no link.
ThreeRows == {Say(1, 1, TMe \o bob \o <<" ">> \o TMe \o alice),
              Say(1, 2, <<"t", " ", "g">>),
              Say(2, 1, TMe \o alice),
              Say(2, 2, <<"g">>)}

TwoRows == {Say(1, 1, TMe \o bob), Say(2, 2, TMe \o bob \o <<" ">> \o TMe \o <<"Alice">>)}

\* Texts with a head, or nearly one, something in between, and a name or not.
Openings == {<<>>, <<"cha", "t">>}
HeadLikes == {<<"t", "elegram">>, <<"t", "elesco">>, <<"t", "g">>, <<"t">>, <<"g">>,
              <<"t", "elegram", "g">>, <<"T">>}
DomainLikes == {<<".", "me", "/">>, <<".", "dog", "/">>, <<".", "me">>, <<"://", "join">>,
                <<".", "ME", "/">>}
Gaps == {<<>>, <<"+">>, <<"join", "cha", "t", "/">>, <<"join", "cha", "t">>,
         <<"?", "invi", "t", "e", "=">>, <<"emoji", "+", "/", "+">>,
         <<"emoji", "emoji">>, <<"://", "://", "+", "/">>,
         <<"Join", "cha", "t", "/">>}
Endings == {<<"Alice">>, <<"alice", "t", " ">>, <<"g", "t", ".", "me", "/", "bob">>}

OneText == {{Say(1, 1, o \o h \o d \o g \o e)} :
              o \in Openings, h \in HeadLikes, d \in DomainLikes,
              g \in Gaps, e \in Endings}

MCDatabases == {ThreeRows, TwoRows} \X (SUBSET {alice, bob})
                 \cup (OneText \X {{alice, bob}})

\* An edited message.
Edited == {Say(1, 1, TMe \o alice)}
=============================================================================

------------------------------- MODULE MCPing -------------------------------
(***************************************************************************)
(* Instances of Ping for TLC: a channel with a user name and an invite, a  *)
(* group whose title is spelled like that user name, a bot, a person, and  *)
(* a key that nothing has.                                                 *)
(***************************************************************************)
EXTENDS Ping, TLC

CONSTANTS a1, a2, channel, group, bot, person, name, botName, personName, hash, nothing

TwoClients == {a1, a2}
AllPeers == {channel, group, bot, person}
OneBot == {bot}
OnePerson == {person}
SomeNames == {name, botName, personName}
HashAndNothing == {hash, nothing}
ThePeers == name :> channel @@ hash :> channel @@ botName :> bot @@ personName :> person
TheNames == channel :> name @@ group :> name @@ bot :> botName @@ person :> personName
=============================================================================

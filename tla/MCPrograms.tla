----------------------------- MODULE MCPrograms -----------------------------
(***************************************************************************)
(* Instances of BidsQueue, Market, Panel and Patches for TLC.  The four    *)
(* share nothing, so a behaviour runs one of them.                         *)
(***************************************************************************)
EXTENDS BidsQueue, Market, Panel, Patches

CONSTANTS noHeading, noNumber, noFile

-----------------------------------------------------------------------------
(* BidsQueue: five posts, in hand-outs of at most two.                     *)

FivePosts == 1..5

-----------------------------------------------------------------------------
(* Market: all pages of two lists with up to two elements before each.     *)

OneTwo == 1..2
SomeOffers == {"a", "b"}
SomeLists == {<<>>, <<"a">>, <<"a", "b">>, <<"b", "b">>}

Title(i) == [class |-> "soc-title", id |-> i]
List == [class |-> "socs"]
Other == [class |-> "other"]
Before == {<<>>, <<Title(1)>>, <<Title(2), Other>>, <<Title(noHeading)>>,
           <<Title(noNumber)>>}
SomeFrontPages == {a \o <<List>> \o b \o <<List>> : a \in Before, b \in Before}
                    \cup {<<Title(1), List, List, Title(2), List>>}

-----------------------------------------------------------------------------
(* Panel: two categories, with an item before, between and behind them.    *)

AllLayouts == {"smmrapid", "dripfeedpanel", "ezkify"}

Group(i, w) == [kind |-> "category", id |-> i, whole |-> w]
Price(i, c, W) == [kind |-> "item", id |-> i, cells |-> c, wrong |-> W]
ItemRows == {<<>>, <<Price(1, 8, {})>>, <<Price(2, 6, {}), Price(1, 5, {})>>,
             <<Price(3, 8, {"rate"}), Price(3, 8, {})>>}
FirstRows == {<<>>, <<Price(2, 8, {})>>}
Groups == {Group(1, TRUE), Group(NoId, FALSE), Group(0, TRUE)}
SomePriceLists ==
  {a \o <<g>> \o b : a \in FirstRows, g \in Groups, b \in ItemRows}
    \cup {<<Group(1, TRUE)>> \o b \o <<Group(2, TRUE)>> \o c :
            b \in ItemRows, c \in ItemRows}

-----------------------------------------------------------------------------
(* Patches: a library, and two packages of which the first has several     *)
(* versions of its patch, one with a new file, one with another file.      *)

Core == {"core"}
Crates == {"hyper", "grammers"}
ThreeFiles == {"f", "g", "h"}
ThreeContents == {"fetched", "one", "two"}
Sources == [p \in Core \cup Crates |->
             [f \in ThreeFiles |-> IF f = "h" THEN noFile ELSE "fetched"]]

Hunk(f, b, a) == [file |-> f, before |-> b, after |-> a]
OneF == Hunk("f", "fetched", "one")
TwoF == Hunk("f", "fetched", "two")
SomePatches ==
  [p \in Core \cup Crates |->
    CASE p = "core" -> {<<OneF>>, <<TwoF>>, <<>>}
      [] p = "hyper" -> {<<OneF, Hunk("h", noFile, "one")>>,
                         <<TwoF, Hunk("h", noFile, "two")>>,
                         <<OneF, Hunk("g", "fetched", "two")>>,
                         <<Hunk("g", "one", "two")>>}
      [] p = "grammers" -> {<<Hunk("g", "fetched", "one"), TwoF>>}]

-----------------------------------------------------------------------------
VARIABLE program

Programs == {"queue", "market", "panel", "patches"}

Init ==
  /\ program \in Programs
  /\ QueueInit /\ MarketInit /\ PanelInit /\ PatchesInit
  /\ program # "queue" => BIDS = <<>>
  /\ program # "market" => front = CHOOSE f \in FrontPages : TRUE
  /\ program # "panel" => layout = CHOOSE l \in Layouts : TRUE
  /\ program # "patches" => patch["hyper"] = CHOOSE q \in SomePatches["hyper"] : TRUE

\* The program has come to its end.
Terminated ==
  /\ CASE program = "queue" -> FALSE
       [] program = "market" -> at = "over"
       [] program = "panel" -> visits = MaxVisits /\ place # "walk"
       [] program = "patches" -> starts = MaxStarts /\ stage = "off"
  /\ UNCHANGED <<program, queueVars, marketVars, panelVars, patchesVars>>

Next ==
  \/ /\ program = "queue" /\ QueueNext
     /\ UNCHANGED <<program, marketVars, panelVars, patchesVars>>
  \/ /\ program = "market" /\ MarketNext
     /\ UNCHANGED <<program, queueVars, panelVars, patchesVars>>
  \/ /\ program = "panel" /\ PanelNext
     /\ UNCHANGED <<program, queueVars, marketVars, patchesVars>>
  \/ /\ program = "patches" /\ PatchesNext
     /\ UNCHANGED <<program, queueVars, marketVars, panelVars>>
  \/ Terminated

Spec == Init /\ [][Next]_<<program, queueVars, marketVars, panelVars, patchesVars>>
=============================================================================

------------------------------ MODULE MCTools -------------------------------
(***************************************************************************)
(* The programs of Tools and those of MoreTools, one at a time: of the two *)
(* compositions one is idle.                                               *)
(***************************************************************************)
EXTENDS Tools, MoreTools, SequencesExt

-----------------------------------------------------------------------------
SomeNames == {<<>>, <<"\"">>, <<"a", " ">>, <<"\\", "\"">>}
SomeNumbers == {<<"7">>, <<"-", "7">>}

L(name, value) == [name |-> name, value |-> value]
Thing(first, more) == [first |-> first, more |-> more]
Part(api, things) == [api |-> api, things |-> things]
Entities ==
  {Thing(L("file", "a"), <<L("Artist", ""), L("Artist", "x"), L("Artist", "y"), L("Pos", "1")>>),
   Thing(L("cpos", "0"), <<L("Id", "5"), L("Pos", "7")>>),
   Thing(L("directory", "d"), <<L("Artist", "x")>>), Thing(L("playlist", "p"), <<>>)}
Outputs ==
  {Thing(L("outputid", i), <<L("outputname", "n"), L("outputenabled", e)>>) : i, e \in {"0", "1"}}
Status == <<Thing(L("volume", "5"), <<>>), Thing(L("state", "play"), <<>>)>>
Stats  == <<Thing(L("songs", "4"), <<>>)>>
Single == {Part("info", s) : s \in BoundedSeq(Entities, 3)} \cup {Part("outputs", s) : s \in BoundedSeq(Outputs, 2)}
Parts ==
  {Part("info", <<>>), Part("info", <<Thing(L("file", "a"), <<L("Title", "t")>>), Thing(L("file", "b"), <<>>)>>),
   Part("outputs", <<Thing(L("outputid", "0"), <<L("outputenabled", "1")>>), Thing(L("outputid", "1"), <<>>)>>),
   Part("tags", <<Thing(L("Artist", "x"), <<>>), Thing(L("Artist", "y"), <<L("Album", "z")>>)>>),
   Part("status", Status), Part("stats", Stats), Part("info", Stats)}  \* the last is not what MPD sends
SomeRequests == {<<p>> : p \in Single} \cup (Parts \X Parts)

SomePaths ==
  {<<"/">>, <<"/", "a">>, <<"/", "a", "/", "b">>, <<"/", "a", "b">>, <<"/", "a", "a", "a", "/", "b">>,
   <<"/", "b", "b", "b", "/", "b", "b", "b">>}
SomeValues == {<<>>, <<"/">>, <<"/", "a">>, <<"/", "a", "/">>, <<"/", "a", "a", "a">>, <<"a">>}
SomePlaces == {<<"V">>, <<"L", "O">>}

Archives == {[stem |-> "a", ext |-> "tgz"], [stem |-> "a", ext |-> "gz"],
             [stem |-> "b", ext |-> "gz"], [stem |-> "b", ext |-> "bz2"]}
SomeArguments == BoundedSeq(Archives, 3)

-----------------------------------------------------------------------------
NoTools ==
  /\ tool = "none" /\ pc = 0
  /\ NoFocus /\ NoNull /\ NoConnect /\ NoPing /\ NoConvert /\ NoPwd /\ NoArgs
NoMore == which = "none" /\ NoUptime /\ NoSearch /\ NoReply /\ NoComments /\ NoState

MCInit ==
  \/ Init /\ NoMore
  \/ MoreInit /\ NoTools
MCNext ==
  \/ Next /\ UNCHANGED ofMore
  \/ MoreNext /\ UNCHANGED ofTools
MCSpec == MCInit /\ [][MCNext]_<<ofTools, ofMore>>
=============================================================================

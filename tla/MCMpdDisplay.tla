---------------------------- MODULE MCMpdDisplay ----------------------------
EXTENDS MpdDisplay, MpdFormat

Tags == {"artist", "album", "track", "title", "file"}

(* DEFAULT_FORMAT (mpd-show.c:83), %filenoext% as "file".                  *)
T(name) == Item("tag", name)
S(text) == Item("text", text)
G(parts) == Item("group", parts)
Of(items) == Part("", items)
Or(items) == Part("|", items)
And(items) == Part("&", items)

Album == << S("<"), T("album"), S("> ") >>
Numbered == G(<< Of(<< T("track"), S(". ") >>), And(<< T("title") >>) >>)
Performer ==
  G(<< Of(<< G(<< Of(<< T("artist"), S(" <") >>), And(<< T("album"), S("> ") >>) >>) >>),
       Or(<< T("artist"), S(" - ") >>), Or(Album) >>)
Default ==
  << Of(<< G(<< Of(<< Performer >>), And(<< G(<< Of(<< Numbered >>), Or(<< T("title") >>) >>) >>) >>) >>),
     Or(<< Numbered >>), Or(<< T("title") >>), Or(<< T("file") >>) >>
DefaultFormat == GroupTokens(Default)

(* The last has none of the tags of the format; under this one every song  *)
(* of MPD's has a file, under another the line may be empty.               *)
SomeSongs == {{"file"}, {"artist", "album", "track", "title", "file"}, {"name"}}
SomeLines == [song \in SomeSongs |-> Line(DefaultFormat, song)]

(* The default format shows what mpc(1) would for every song, except that  *)
(* the track is lost when there are a track and a title and neither an     *)
(* artist nor an album (skipFormatting swallows the end of a group).  It   *)
(* is looked at before the first line is made.                             *)
Loses(song) == {"track", "title"} \subseteq song /\ {"artist", "album"} \cap song = {}
DefaultAsMpc ==
  first => \A song \in SUBSET Tags :
    Line(DefaultFormat, song) = IF Loses(song) THEN <<"title">> ELSE GroupValue(Default, song).text
=============================================================================

--------------------------- MODULE MCListingPath ----------------------------
(* An announcement with every short text in every field, or in the name only, *)
(* and with every boundary of the numbers; foreign events that differ from a  *)
(* sound one in one tag.                                                      *)
EXTENDS ListingPath

MCNow == 4
MCLags == {0, Skew, Skew + 1}

Chars == {"lower", "upper", "lt", "gt", "quote", "ctl", "wide", "rare"}
Texts(n) == UNION {[1..k -> Chars] : k \in 0..n}

Plain == <<"lower">>
Channel(name, text) ==
  [id |-> <<"id">>, name |-> name, genre |-> text, description |-> text,
   comment |-> text, contact |-> text, type |-> text,
   track |-> [f \in {"title", "artist", "album"} |-> text],
   bitrate |-> 1, tracker |-> <<"addr">>, listeners |-> 0, relays |-> 0,
   startedAt |-> MCNow, ended |-> FALSE]

MCRaw ==
       {Channel(t, t) : t \in Texts(3)} \cup {Channel(t, <<>>) : t \in Texts(2)}
  \cup {[Channel(Plain, Plain) EXCEPT !.bitrate = b, !.tracker = t, !.listeners = n,
                                      !.relays = m, !.ended = e] :
          b \in {-1, 0, MaxBitrate, MaxBitrate + 1},
          t \in {NULL, <<"addr">>, <<"lower">>},
          n \in {-2, -1, 0, 3}, m \in {-1, 0}, e \in BOOLEAN}

Sound(author, created) == Sign(ToListing(FromRaw(Channel(Plain, Plain))), author, created)
MCEarlier == {[Sound(0, MCNow - 1) EXCEPT !.tags[1].values = << <<"id2">> >>]}

\* Values a tag may be given: texts, numerals at the limits of the width, words.
Values == Texts(1) \cup {ToText(n) : n \in {0, 3, 4, 7, 8, 15, 16}}
                   \cup {<<"rare", "rare", "lt">>, <<"addr">>, <<"ended">>, <<"id2">>}
Base == Sound(2, MCNow)
MCForeign ==
       {[Base EXCEPT !.tags[i].values = <<v>>] : i \in DOMAIN Base.tags, v \in Values}
  \cup {[Base EXCEPT !.tags[i].values = <<>>] : i \in DOMAIN Base.tags}
  \cup {[Base EXCEPT !.tags = RemoveAt(Base.tags, i)] : i \in DOMAIN Base.tags}
  \cup {[Base EXCEPT !.tags = Tag(Base.tags[i].name, v) \o Base.tags] :
          i \in DOMAIN Base.tags, v \in {<<"ctl">>, <<"lt", "gt">>, <<"ended">>}}
  \cup {[Base EXCEPT !.tags[Len(Base.tags)].values[i] = v] : i \in 1..4, v \in Texts(2)}
  \cup {[Base EXCEPT !.tags = Base.tags \o [k \in 1..n |-> Tag("x", <<"ctl">>)[1]]] :
          n \in {1, 10, 20}}
  \cup {[Base EXCEPT !.kindOk = FALSE], [Base EXCEPT !.sigOk = FALSE],
        [Base EXCEPT !.created = MCNow + Skew + 1], [Base EXCEPT !.pow = TRUE]}

MCMutable == {[kind |-> "Pubkey", value |-> Own], [kind |-> "Channel", value |-> <<"id2">>]}

=============================================================================

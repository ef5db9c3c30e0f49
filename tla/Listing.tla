------------------------------ MODULE Listing -------------------------------
(***************************************************************************)
(* The conversions a channel goes through between the PCP announcement and *)
(* index.txt: validation of the announced values (pcp/channel.rs), the tag *)
(* mapping of kind 30311 and the checks of a received event                *)
(* (event/schema.rs), and the line of index.txt (yp/index_txt.rs).         *)
(*                                                                         *)
(* A text is a sequence of tokens.  A token is a character class ("lower", *)
(* "upper", "lt", "gt", "quote", "ctl" for a control character or newline, *)
(* "wide" for a character of 3 bytes, "rare" for one of 4 bytes Shift_JIS  *)
(* does not have) or a whole word of the protocol: a numeral, a status, a  *)
(* channel id, an address.  Byte limits are scaled down together.          *)
(***************************************************************************)
EXTENDS Integers, Sequences, SequencesExt, TLC

CONSTANTS
  ShortMax,     \* 256 bytes: name, genre and the track's fields
  MidMax,       \* 512 bytes: the contact URL
  LongMax,      \* 1024 bytes: description and comment
  TypeMax,      \* 32 bytes: the content type
  TagMax,       \* MAX_TAG_ELEMENT_BYTES
  TagsMax,      \* MAX_TAGS
  EventMax,     \* MAX_EVENT_BYTES
  Envelope,     \* bytes of a serialised event that are not tag values
  MaxBitrate,   \* MAX_BITRATE_KBPS
  Width,        \* bits of a u64 / i64
  Skew,         \* max_clock_skew_sec
  ExpirationOffset,
  NULL,         \* Option::None
  Bad           \* what a check that fails yields in place of a value

ASSUME LimitsAssumption ==
  /\ {ShortMax, MidMax, LongMax, TypeMax} \subseteq 1..TagMax
  /\ Width \in Nat \ {0} /\ MaxBitrate \in 0..(2^(Width - 1) - 1)

UnknownCount == -1
ToText(n) == <<ToString(n)>>

-----------------------------------------------------------------------------
(* Bytes and characters. *)

CharBytes(c) == CASE c = "wide" -> 3 [] c = "rare" -> 4 [] OTHER -> 1
\* A quote is escaped, a control character is written as \u00XX.
JsonBytes(c) == CASE c = "quote" -> 2 [] c = "ctl" -> 6 [] OTHER -> CharBytes(c)

TextBytes(s) == FoldSeq(LAMBDA c, n: n + CharBytes(c), 0, s)

ContainsControlChars(s) == "ctl" \in ToSet(s)
StripControlChars(s) == SelectSeq(s, LAMBDA c: c # "ctl")

\* The longest prefix of whole characters that fits.
TruncateBytes(s, max) ==
  LET n == CHOOSE k \in 0..Len(s) :
             /\ TextBytes(SubSeq(s, 1, k)) <= max
             /\ k < Len(s) => TextBytes(SubSeq(s, 1, k + 1)) > max
  IN  SubSeq(s, 1, n)

\* Mutant: control characters are left in.
MutSanitizeText(s, max) == TruncateBytes(s, max)
SanitizeText(s, max) == TruncateBytes(StripControlChars(s), max)

SanitizeContentType(s) ==
  TruncateBytes(SelectSeq(s, LAMBDA c: c \in {"lower", "upper"}), TypeMax)

Lowercase(s) == [i \in DOMAIN s |-> IF s[i] = "upper" THEN "lower" ELSE s[i]]

-----------------------------------------------------------------------------
(* From the announcement to the listing. *)

Clamp(n, low, high) == IF n < low THEN low ELSE IF n > high THEN high ELSE n
ClampCount(n) == IF n < UnknownCount THEN UnknownCount ELSE n

\* PCP_HOST gives an address only for 4 or 16 bytes of ip and a legal port;
\* a firewalled host gives none.
ValidateTracker(t) == IF t = <<"addr">> THEN t ELSE NULL

FromRaw(raw) ==
  [id |-> raw.id,
   name |-> SanitizeText(raw.name, ShortMax),
   genre |-> SanitizeText(raw.genre, ShortMax),
   description |-> SanitizeText(raw.description, LongMax),
   comment |-> SanitizeText(raw.comment, LongMax),
   contact |-> SanitizeText(raw.contact, MidMax),
   bitrate |-> Clamp(raw.bitrate, 0, MaxBitrate),
   type |-> SanitizeContentType(raw.type),
   track |-> [f \in {"title", "artist", "album"} |->
                SanitizeText(raw.track[f], ShortMax)],
   tracker |-> ValidateTracker(raw.tracker),
   listeners |-> ClampCount(raw.listeners),
   relays |-> ClampCount(raw.relays),
   startedAt |-> raw.startedAt,
   ended |-> raw.ended]

NonEmpty(s) == IF s = <<>> THEN NULL ELSE s

ToListing(ch) ==
  [id |-> ch.id,
   title |-> ch.name,
   summary |-> NonEmpty(ch.description),
   genre |-> NonEmpty(Lowercase(ch.genre)),
   status |-> IF ch.ended THEN "ended" ELSE "live",
   starts |-> ch.startedAt,
   participants |-> ch.listeners,
   streaming |-> IF ch.tracker = NULL THEN NULL
                 ELSE <<"pcp">> \o ch.tracker \o ch.id,
   bitrate |-> IF ch.bitrate > 0 THEN ch.bitrate ELSE NULL,
   type |-> NonEmpty(ch.type),
   tip |-> ch.tracker,
   contact |-> NonEmpty(ch.contact),
   comment |-> NonEmpty(ch.comment),
   relays |-> ch.relays,
   track |-> IF \A f \in DOMAIN ch.track : ch.track[f] = <<>> THEN NULL
             ELSE <<ch.track["title"], ch.track["artist"], ch.track["album"], <<>> >>]

-----------------------------------------------------------------------------
(* Tags: <<name, value>>, or <<name, values>> of a peca tag; the two        *)
(* namespaces are told apart by the prefix of the name.                     *)

Tag(name, value) == <<[name |-> name, values |-> <<value>>]>>
TagOpt(name, o) == IF o = NULL THEN <<>> ELSE Tag(name, o)
TagNum(name, n, omit) == IF n = omit THEN <<>> ELSE Tag(name, ToText(n))

ToTags(l, created) ==
     Tag("d", l.id) \o Tag("title", l.title)
  \o TagOpt("summary", l.summary) \o TagOpt("t", l.genre)
  \o Tag("status", <<l.status>>) \o Tag("starts", ToText(l.starts))
  \o TagNum("current_participants", l.participants, UnknownCount)
  \o TagOpt("streaming", l.streaming)
  \o Tag("expiration", ToText(created + ExpirationOffset))
  \o (IF l.bitrate = NULL THEN <<>> ELSE Tag("peca bitrate", ToText(l.bitrate)))
  \o TagOpt("peca type", l.type) \o TagOpt("peca tip", l.tip)
  \o TagOpt("peca contact", l.contact) \o TagOpt("peca comment", l.comment)
  \o TagNum("peca relays", l.relays, UnknownCount)
  \o (IF l.track = NULL THEN <<>>
      ELSE <<[name |-> "peca track", values |-> l.track]>>)

Sign(l, author, created) ==
  [author |-> author, created |-> created, kindOk |-> TRUE, sigOk |-> TRUE,
   pow |-> FALSE, tags |-> ToTags(l, created)]

EventBytes(event) ==
  LET Value(s) == FoldSeq(LAMBDA c, n: n + JsonBytes(c), 0, s)
      Values(vs) == FoldSeq(LAMBDA s, n: n + Value(s), 0, vs)
  IN  FoldSeq(LAMBDA t, n: n + Values(t.values), Envelope, event.tags)

-----------------------------------------------------------------------------
(* Reading tags back. *)

\* tag_value skips a tag of that name that has no value; peca_value does not.
TagValue(event, name) ==
  LET found == SelectSeq(event.tags, LAMBDA t: t.name = name /\ t.values # <<>>)
  IN  IF found = <<>> THEN NULL ELSE found[1].values[1]
PecaSlice(event, name) ==
  LET found == SelectSeq(event.tags, LAMBDA t: t.name = name)
  IN  IF found = <<>> THEN NULL ELSE found[1].values
PecaValue(event, name) ==
  LET slice == PecaSlice(event, name)
  IN  IF slice \in {NULL, <<>>} THEN NULL ELSE slice[1]

ParseU64(s) ==
  LET nums == {n \in 0..(2^Width - 1) : s = ToText(n)}
  IN  IF nums = {} THEN Bad ELSE CHOOSE n \in nums : TRUE

AsI64(n) == IF n >= 2^(Width - 1) THEN n - 2^Width ELSE n
ParseCount(o) ==
  IF o = NULL THEN UnknownCount
  ELSE LET n == ParseU64(o) IN IF n = Bad THEN Bad ELSE AsI64(n)

\* Mutant: optional texts are taken as they are.
MutCleanOptional(o) == o
CleanOptional(o) == IF o # NULL /\ ContainsControlChars(o) THEN Bad ELSE o

ParseBitrate(o) ==
  IF o = NULL THEN NULL
  ELSE LET n == ParseU64(o) IN IF n = Bad \/ n > MaxBitrate THEN Bad ELSE n

ParseTip(o) == IF o \in {NULL, <<"addr">>} THEN o ELSE Bad

ParseTrack(slice) ==
  LET get(i) == IF i \in DOMAIN slice THEN slice[i] ELSE <<>>
      track == [i \in 1..4 |-> get(i)]
  IN  IF slice = NULL THEN NULL
      ELSE IF \E i \in 1..4 : ContainsControlChars(track[i]) THEN Bad ELSE track

\* ChannelListing::from_event: the listing, with Bad in a field that is refused.
Recovered(event) ==
  [id |-> TagValue(event, "d"),
   title |-> CleanOptional(TagValue(event, "title")),
   summary |-> CleanOptional(TagValue(event, "summary")),
   genre |-> CleanOptional(TagValue(event, "t")),
   status |-> LET s == TagValue(event, "status")
              IN  IF s \in {<<"live">>, <<"ended">>} THEN s[1] ELSE Bad,
   starts |-> LET s == TagValue(event, "starts")
              IN  IF s = NULL THEN Bad ELSE ParseU64(s),
   participants |-> ParseCount(TagValue(event, "current_participants")),
   streaming |-> CleanOptional(TagValue(event, "streaming")),
   bitrate |-> ParseBitrate(PecaValue(event, "peca bitrate")),
   type |-> CleanOptional(PecaValue(event, "peca type")),
   tip |-> ParseTip(PecaValue(event, "peca tip")),
   contact |-> CleanOptional(PecaValue(event, "peca contact")),
   comment |-> CleanOptional(PecaValue(event, "peca comment")),
   relays |-> ParseCount(PecaValue(event, "peca relays")),
   track |-> ParseTrack(PecaSlice(event, "peca track"))]

FromEventOk(l) ==
  /\ l.id # NULL /\ l.title # NULL
  /\ \A f \in DOMAIN l : l[f] # Bad

-----------------------------------------------------------------------------
(* The checks of a received event, in their order. *)

ValidateFormat(event) ==
  /\ event.kindOk
  /\ Len(event.tags) <= TagsMax
  /\ \A t \in ToSet(event.tags) : \A v \in ToSet(t.values) : TextBytes(v) <= TagMax
  /\ TagValue(event, "d") \in {<<"id">>, <<"id2">>}
  /\ TagValue(event, "status") \in {<<"live">>, <<"ended">>}

VerifyIncoming(event, minPow, now) ==
  CASE EventBytes(event) > EventMax        -> "Oversize"
    [] ~event.sigOk                        -> "InvalidSig"
    [] ~ValidateFormat(event)              -> "InvalidFormat"
    [] event.created > now + Skew          -> "TimeSkew"
    [] ~FromEventOk(Recovered(event))      -> "InvalidFormat"
    [] minPow /\ ~event.pow                -> "PowInsufficient"
    [] OTHER                               -> "Ok"

-----------------------------------------------------------------------------
(* index.txt: 19 fields of a line, separated by "<>". *)

OrEmpty(o) == IF o = NULL THEN <<>> ELSE o

Escape(c) == CASE c = "lt" -> "&lt;" [] c = "gt" -> "&gt;" [] OTHER -> c
Sanitize(s) == [i \in DOMAIN s |-> Escape(s[i])]

\* A character Shift_JIS does not have becomes one "?".
EncodeShiftJis(s) ==
  FlattenSeq([i \in DOMAIN s |-> CASE s[i] = "rare" -> <<"?">>
                                  [] s[i] = "wide" -> <<"byte", "byte">>
                                  [] OTHER -> <<s[i]>>])
EncodeUtf8(s) ==
  FlattenSeq([i \in DOMAIN s |->
                IF CharBytes(s[i]) = 1 THEN <<s[i]>>
                ELSE [k \in 1..CharBytes(s[i]) |-> "byte"]])
Encode(s, encoding) == IF encoding = "Utf8" THEN EncodeUtf8(s) ELSE EncodeShiftJis(s)

PercentEncodeName(s, encoding) ==
  LET bytes == Encode(s, encoding)
  IN  [i \in DOMAIN bytes |->
         IF bytes[i] \in {"byte", "lt", "gt", "quote", "ctl", "?"} THEN "%XX" ELSE bytes[i]]

Hour == 3600
Minute == 60
\* saturating_sub: a start in the future counts as now.
FormatBroadcastTime(now, starts) ==
  LET d == IF now < starts THEN 0 ELSE now - starts
  IN  <<ToString(d \div Hour), ":", ToString((d % Hour) \div Minute)>>

ChannelFields(l, now, encoding) ==
  LET track == IF l.track = NULL THEN << <<>>, <<>>, <<>>, <<>> >> ELSE l.track
  IN  <<Sanitize(l.title), l.id, Sanitize(OrEmpty(l.tip)), Sanitize(OrEmpty(l.contact)),
        Sanitize(OrEmpty(l.genre)), Sanitize(OrEmpty(l.summary)),
        ToText(l.participants), ToText(l.relays),
        ToText(IF l.bitrate = NULL THEN 0 ELSE l.bitrate), Sanitize(OrEmpty(l.type)),
        Sanitize(track[2]), Sanitize(track[3]), Sanitize(track[1]), Sanitize(track[4]),
        PercentEncodeName(l.title, encoding), FormatBroadcastTime(now, l.starts),
        <<"click">>, Sanitize(OrEmpty(l.comment)), ToText(0)>>

ChannelLine(l, now, encoding) ==
  LET fields == ChannelFields(l, now, encoding)
  IN  FoldLeft(LAMBDA line, f: line \o <<"lt", "gt">> \o f, fields[1], Tail(fields))

Newline == <<"ctl">>
Generate(listings, encoding, now) ==
  Encode(FlattenSeq([i \in DOMAIN listings |->
                       ChannelLine(listings[i], now, encoding) \o Newline]), encoding)

=============================================================================

---------------------------- MODULE ListingPath -----------------------------
(***************************************************************************)
(* The path of a listing through two nodes: the publishing node takes what *)
(* the broadcasting software announced, signs it and sends it; the viewing *)
(* node checks what arrives, whoever signed it, keeps it, and shows it in  *)
(* index.txt subject to the viewer's mutes.  The store's replacement and   *)
(* freshness rules are EventStore's; here nothing is replaced.             *)
(***************************************************************************)
EXTENDS Listing, FiniteSets

CONSTANTS
  Raw,          \* the announcements of the broadcasting software
  Foreign,      \* events that may reach the viewer from elsewhere
  Earlier,      \* verified events that the viewer may hold from before
  Mutable,      \* the mute entries the viewer may register
  Now,          \* the publishing node's clock
  Lags          \* by how much the viewing node's clock may be behind

Own == 1        \* authors are numbered in the order of their public keys

VARIABLES
  channel,      \* the publishing node's AnnouncedChannel, or NULL
  wire,         \* the event on its way to the viewing node, or NULL
  verdict,      \* what verify_incoming said of it, and the viewer's lag
  held,         \* the events the viewing node has stored
  mutes,        \* the viewing node's mute list
  page          \* the last answer to GET /index.txt: its rows and its bytes

vars == <<channel, wire, verdict, held, mutes, page>>

ASSUME EarlierAssumption == \A e \in Earlier : VerifyIncoming(e, FALSE, Now) = "Ok"

NoVerdict == [result |-> "none", lag |-> 0]
NoPage == [rows |-> <<>>, text |-> <<>>, served |-> FALSE]

Init ==
  /\ channel = NULL /\ wire = NULL /\ verdict = NoVerdict
  /\ held \in {{}} \cup {{e} : e \in Earlier}
  /\ mutes = {} /\ page = NoPage

Announce(raw) ==
  /\ channel = NULL /\ wire = NULL
  /\ channel' = FromRaw(raw)
  /\ UNCHANGED <<wire, verdict, held, mutes, page>>

Publish ==
  /\ channel # NULL /\ wire = NULL
  /\ wire' = Sign(ToListing(channel), Own, Now)
  /\ UNCHANGED <<channel, verdict, held, mutes, page>>

Arrive(event) ==
  /\ channel = NULL /\ wire = NULL
  /\ wire' = event
  /\ UNCHANGED <<channel, verdict, held, mutes, page>>

Receive(lag, minPow) ==
  /\ wire # NULL /\ verdict = NoVerdict
  /\ LET result == VerifyIncoming(wire, minPow, Now - lag)
     IN  /\ verdict' = [result |-> result, lag |-> lag]
         /\ held' = IF result = "Ok" THEN held \cup {wire} ELSE held
  /\ UNCHANGED <<channel, wire, mutes, page>>

\* Registering the same entry twice changes nothing.
AddMute(entry) ==
  /\ verdict.result = "Ok"
  /\ mutes' = mutes \cup {entry}
  /\ UNCHANGED <<channel, wire, verdict, held, page>>

DeleteMute(entry) ==
  /\ entry \in mutes
  /\ mutes' = mutes \ {entry}
  /\ UNCHANGED <<channel, wire, verdict, held, page>>

\* Muted by author or by channel, either is enough.
IsMuted(event) ==
  \/ [kind |-> "Pubkey", value |-> event.author] \in mutes
  \/ [kind |-> "Channel", value |-> TagValue(event, "d")] \in mutes

Live(event) == TagValue(event, "status") = <<"live">>

\* aggregate: what is live and not muted, newest first, then by author.
Aggregate ==
  SetToSortSeq({e \in held : Live(e) /\ ~IsMuted(e)},
               LAMBDA a, b: \/ a.created > b.created
                            \/ a.created = b.created /\ a.author < b.author)

Serve(encoding) ==
  /\ verdict.result = "Ok"
  /\ LET rows == Aggregate
         listings == [i \in DOMAIN rows |-> Recovered(rows[i])]
     IN  page' = [rows |-> listings, text |-> Generate(listings, encoding, Now), served |-> TRUE]
  /\ UNCHANGED <<channel, wire, verdict, held, mutes>>

Next ==
  \/ \E raw \in Raw : Announce(raw)
  \/ Publish
  \/ \E event \in Foreign : Arrive(event)
  \/ \E lag \in Lags, minPow \in BOOLEAN : Receive(lag, minPow)
  \/ \E entry \in Mutable : AddMute(entry) \/ DeleteMute(entry)
  \/ \E encoding \in {"Utf8", "ShiftJis"} : Serve(encoding)

Spec == Init /\ [][Next]_vars

-----------------------------------------------------------------------------
\* What is signed is never refused by a node that follows the same limits and
\* whose clock is not further behind than the tolerated skew, and is read back
\* there as it was written: sanitising, the numerals, the omitted tags and the
\* checks of the receiver fit together (the code's own events carry no proof
\* of work, so a node that demands it refuses them).
OwnListingSurvives ==
  (channel # NULL /\ verdict # NoVerdict) =>
    /\ verdict.result \in {"Ok", "TimeSkew", "PowInsufficient"}
    /\ verdict.result = "TimeSkew" => verdict.lag > Skew
    /\ verdict.result = "Ok" => Recovered(wire) = ToListing(channel)

\* Positions of a newline, and of the separators inside one line.
LineEnds(text) == {i \in DOMAIN text : text[i] = "ctl"}
Separators(text, from, to) ==
  {i \in from..(to - 1) : text[i] = "lt" /\ text[i + 1] = "gt"}

\* Whatever the texts of a stored event, from this node's software or from a
\* stranger, index.txt has exactly one line for every row, each line splits
\* into 19 fields at "<>", and no other "<" or ">" is left in it.
IndexLineSound ==
  page # NoPage =>
    LET ends == SetToSortSeq(LineEnds(page.text), <)
        start(k) == IF k = 1 THEN 1 ELSE ends[k - 1] + 1
    IN  /\ Len(ends) = Len(page.rows)
        /\ Len(page.text) = IF ends = <<>> THEN 0 ELSE Last(ends)
        /\ \A k \in DOMAIN ends :
             /\ Cardinality(Separators(page.text, start(k), ends[k])) = 18
             /\ Cardinality({i \in start(k)..ends[k] : page.text[i] \in {"lt", "gt"}}) = 36

=============================================================================

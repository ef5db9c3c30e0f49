------------------------------ MODULE Settings ------------------------------
(***************************************************************************)
(* The settings table, its lenient loading, the command-line overrides and *)
(* the one strict gate every start and every PUT /settings goes through    *)
(* (config.rs).  A bind address is abstracted to its class: "loopback",    *)
(* "mapped" (the v4-mapped form of a loopback address), "lan", "public",   *)
(* "" for none and "garbage" for what does not parse.  pcp_bind and        *)
(* http_bind obey the same rule and are one key, "http".  p2p_bind, which  *)
(* may be any address, and the numeric and boolean keys, which fall back   *)
(* to their defaults, are left out.                                        *)
(***************************************************************************)
EXTENDS Sequences, SequencesExt

CONSTANT Unset          \* a key without a row in the table

\* Settings::save writes the keys one by one, in this order.
SaveOrder == <<"http", "encoding", "index">>
SettingKey == ToSet(SaveOrder)

Default == [http |-> "loopback", encoding |-> "utf-8", index |-> ""]

Parses(v) == v \notin {"", "garbage"}
IsLoopback(v) == v = "loopback"
Canonical(v) == IF v = "mapped" THEN "loopback" ELSE v

\* A key without a row takes its default; texts are taken as they are and left
\* to Validate.
Load(table) == [k \in SettingKey |-> IF table[k] = Unset THEN Default[k] ELSE table[k]]

Merge(settings, given) == [k \in SettingKey |-> IF k \in DOMAIN given THEN given[k] ELSE settings[k]]

\* apply_overrides of the command line, and SettingsUpdate::apply_to of a PUT.
ApplyOverrides(settings, overrides) == Merge(settings, overrides)
ApplyTo(settings, update) == Merge(settings, update)

RequireLoopback(v) == Parses(v) /\ IsLoopback(v)
RequireLanOrLoopback(v) == Parses(v) /\ Canonical(v) \in {"loopback", "lan"}

Validate(s) ==
  /\ RequireLoopback(s.http)
  /\ s.encoding \in {"utf-8", "utf8", "shift_jis"}
  /\ s.index # "" => RequireLanOrLoopback(s.index)

=============================================================================

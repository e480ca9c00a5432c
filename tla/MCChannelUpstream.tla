------------------------- MODULE MCChannelUpstream -------------------------
EXTENDS ChannelUpstream, TLC

(* Channel 1 has an alias and applies nothing by itself, channel 2 syncs. *)
MCOffered == {{"a", "b"}, {"b"}}
MCInitial == (1 :> {"a", "alias"} @@ 2 :> {"a"})
MCFound == (1 :> {"b"} @@ 2 :> {"a"})
MCSources == (1 :> {"alias"} @@ 2 :> {})
MCTargets == (1 :> {} @@ 2 :> {})
=============================================================================

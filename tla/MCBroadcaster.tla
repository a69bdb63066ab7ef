---------------------------- MODULE MCBroadcaster ----------------------------
(***************************************************************************)
(* Two handlers that announce changes and two watchers.                    *)
(***************************************************************************)
EXTENDS BroadcasterProperties

CONSTANTS s1, s2, w1, w2

TwoSenders == {s1, s2}
TwoWatchers == {w1, w2}
=============================================================================

----------------------------- MODULE MCLivePlay -----------------------------
(* LivePlay on small bounds.  The user's own battles are checked with keys *)
(* that register, the stress test with and without.                        *)
EXTENDS LivePlay

PlayModes == {<<"play", "reliable">>}
AllModes == PlayModes \cup {<<"stress", k>> : k \in {"reliable", "lossy"}}
=============================================================================

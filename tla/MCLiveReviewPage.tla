-------------------------- MODULE MCLiveReviewPage --------------------------
(* Small instances of LiveReviewPage for TLC. *)
EXTENDS LiveReviewPage

=============================================================================

--------------------------- MODULE MCSessionStream ---------------------------
(***************************************************************************)
(* SessionStream on a small instance.                                      *)
(***************************************************************************)
EXTENDS SessionStream

\* A prompt and a request of history, or two of either, only meet in behaviours
\* in which nothing is asked: questions do not touch what the two do to the
\* entries, and a replay does not touch the question.
TypedOrAsked == typed < 2 \/ asked = 0
=============================================================================

-------------------------- MODULE MCResponseWriters --------------------------
(***************************************************************************)
(* A few answers for ResponseWriters: with and without a body, a file, or  *)
(* the permission to be stored.                                            *)
(***************************************************************************)
EXTENDS ResponseWriters

MCAnswers ==
  [status : {200, 302, 404, 502}, file : Files \cup {NoFile},
   body : {<<>>, <<Chunk>>, <<Chunk, Chunk>>}, public : BOOLEAN]

=============================================================================

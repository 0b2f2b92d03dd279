------------------------------ MODULE MCFetch ------------------------------
(* One answer of each kind, with the shortest bodies that can be cut inside. *)
EXTENDS Fetch, HttpAnswer

MCAnswers ==
    {Length(0), Length(3), Open(2), Chunked(<<2, 1>>), Interim(Length(2)), Interim(Chunked(<<1>>))}
=============================================================================

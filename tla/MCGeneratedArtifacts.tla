------------------------ MODULE MCGeneratedArtifacts ------------------------
\* Two attempts of one round.
EXTENDS GeneratedArtifacts

CONSTANTS a1, a2, r1

MCAttempts == {a1, a2}
MCRoundOf == [a \in MCAttempts |-> r1]

\* A picture, and a file whose image data is interrupted.
MCDrafts == {<<"IHDR", "ancillary", "IDAT", "IDAT", "IEND">>,
             <<"IHDR", "IDAT", "ancillary", "IDAT", "IEND">>}

=============================================================================

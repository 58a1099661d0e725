------------------------------ MODULE MCImages ------------------------------
\* Instance of Images for TLC.
EXTENDS Images, TLC

CONSTANTS a, b, s1, s2

MCUploads == {<<a>>, <<a, b>>, <<a, Bad>>}
MCFirstDocs == <<s1>>
CuratorSymmetry == Permutations(Curators)
=============================================================================

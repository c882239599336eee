------------------------ MODULE MCSignatureVersions -------------------------
(* Two updates, one after the other or overlapping, and a listing over one *)
(* connection, with limits nobody would ask for among the others.          *)
EXTENDS SignatureVersions

MCLimit == {-1, 0, 1, 2}
=============================================================================

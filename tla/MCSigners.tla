------------------------------ MODULE MCSigners ------------------------------
(* Small instances of the multisig and of the rotation of an admin.        *)
EXTENDS Signers

CONSTANTS s1, s2, s3

\* Three signers, and a list that names one of two signers twice.
Lists == {<<s1, s2, s3>>, <<s1, s2, s1>>}
=============================================================================

---------------------------- MODULE MCAdmission ----------------------------
EXTENDS Admission, TLC

CONSTANTS b1, b2, i1, i2

MCListed == b1 :> {i1} @@ b2 :> {i2}
MCBucket == i1 :> "majors" @@ i2 :> "majors"
MCCeiling == [position |-> 2, basket |-> 2, order |-> 2, gross |-> 3, instrument |-> 2,
              cluster |-> 4]

\* The baskets change places with their instruments.
Swap == (b1 :> b2 @@ b2 :> b1) @@ (i1 :> i2 @@ i2 :> i1)
Symmetry == {Swap}
=============================================================================

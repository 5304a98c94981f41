------------------------------ MODULE MCFatFs ------------------------------
(* Instances of FatFs for TLC: 128 blocks of 512 bytes, as gen.sh makes. *)
EXTENDS FatFs

CONSTANT abc

OneName   == {abc}

AllParents == {<<>>, <<"sub_dir">>, <<"empty_sub_dir">>,
               <<"sub_dir", "sub_sub_dir">>, <<abc>>}
OneOffset == {0}
=============================================================================

------------------------------- MODULE MCLink -------------------------------
(* Frames that exercise the escapes, and one that is too long, for TLC.    *)
EXTENDS Link

Commands == {<<"other">>, <<"FEND", "TFESC">>, <<"FESC", "TFEND">>,
             <<"other", "FEND", "other", "TFEND">>}
=============================================================================

---------------------------- MODULE MCSoftsdvLink ----------------------------
(* Instances of SoftsdvLink for TLC. *)
EXTENDS SoftsdvLink, TLC

CONSTANTS c1, c2

TwoStreams == (c1 :> <<"warm", "plain", "trap">>)
              @@ (c2 :> <<"plain", "trap", "trap", "plain", "trap">>)
=============================================================================

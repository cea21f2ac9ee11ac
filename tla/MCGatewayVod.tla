---------------------------- MODULE MCGatewayVod ----------------------------
(* Two submits of different tiers for one source of a second at two frames.  *)
EXTENDS GatewayVod, TLC

CONSTANTS baseline, standard

MCLadder == baseline :> <<"720p">> @@ standard :> <<"1080p", "720p">>
=============================================================================

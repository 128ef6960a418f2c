--------------------------- MODULE MCGatewayHealth ---------------------------
(* GatewayHealth for TLC.                                                    *)
EXTENDS GatewayHealth
=============================================================================

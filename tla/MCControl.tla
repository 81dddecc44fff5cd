----------------------------- MODULE MCControl -----------------------------
(* Two sources, four directions: two focus zones, the rear and a gap that  *)
(* no zone covers.  A talker can drift from the side into the gap without  *)
(* leaving the stability threshold.                                        *)
EXTENDS Control

MCDirections == {"front", "side", "rear", "gap"}
MCPolicy == [d \in MCDirections |-> CASE d = "front" -> "focus"
                                      [] d = "side" -> "assist"
                                      [] d = "rear" -> "ambient"
                                      [] d = "gap" -> "unzoned"]
MCNear == [d \in MCDirections |-> CASE d = "front" -> {"front"}
                                    [] d = "side" -> {"side", "gap", "rear"}
                                    [] d = "rear" -> {"rear", "side", "gap"}
                                    [] d = "gap" -> {"gap", "side", "rear"}]
=============================================================================

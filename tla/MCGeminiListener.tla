-------------------------- MODULE MCGeminiListener --------------------------
(* GeminiListener with five connections from two addresses: three from one *)
(* address, one above its cap, and five in all, two above the global cap.  *)
EXTENDS GeminiListener

CONSTANTS c1, c2, c3, d1, d2, ipC, ipD

MCPeerIp == [c \in {c1, c2, c3, d1, d2} |->
                IF c \in {c1, c2, c3} THEN ipC ELSE ipD]
=============================================================================

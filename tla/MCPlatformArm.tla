---------------------------- MODULE MCPlatformArm ----------------------------
(* Instances of PlatformArm: how many sub-4-bit builds chain.sh runs.      *)
EXTENDS PlatformArm

MCOneBuild == <<"IQ3_XXS">>
==============================================================================

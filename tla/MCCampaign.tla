---------------------------- MODULE MCCampaign ----------------------------
(* One scored pair after the preflight, two processes that advance.          *)
EXTENDS Campaign
===========================================================================

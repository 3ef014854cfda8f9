--------------------------- MODULE MCDripCampaign ---------------------------
(* Instances of DripCampaign: the editions of the campaign.                  *)
EXTENDS DripCampaign

CONSTANTS c1, c2, k1, k2, a, b

Edited == {<<a, b>>, <<a>>}

=============================================================================

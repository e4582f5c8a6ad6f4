------------------------- MODULE MCCampaignService -------------------------
(* Instance of CampaignService for TLC.                                    *)
EXTENDS CampaignService

CONSTANTS p1, p2

\* One file repeats a number, the other has an invalid row; they share p1.
MCFile == {<<p1, p1, p2>>, <<Invalid, p1>>}
=============================================================================

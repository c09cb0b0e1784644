---------------------------- MODULE MCAlsaRecord ----------------------------
(* Small devices and requests for AlsaRecord. *)
EXTENDS AlsaRecord
MCRates == {2, 3}
MCPeriods == {1, 2, 3}
MCAskedRates == {1, 2, 3}
MCAskedFormats == {0, 2}
MCAskedChannels == {1, 2}
MCDurations == {1, 2}
=============================================================================

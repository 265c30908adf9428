--------------------------- MODULE MCLayerLookup ---------------------------
(* Small instances of LayerLookup: what a failing registry answers.        *)
EXTENDS LayerLookup

\* At least one code that is not MANIFEST_UNKNOWN.
Honest == { {"DENIED"}, {"MANIFEST_UNKNOWN", "DENIED"}, {"TOOMANYREQUESTS"} }

\* Also an envelope whose list of errors is empty.
AnyEnvelope == SUBSET Codes

AllRegistries == { Honest, AnyEnvelope }
HonestOnly == { Honest }
============================================================================

----------------------------- MODULE MCEuSetup -----------------------------
(* The constants of EuSetup that a cfg cannot hold.                        *)
EXTENDS EuSetup

\* One pair of hostnames, given by flags or stored by init.
MCHostPairs == {<<"cdn", "sub">>}
=============================================================================

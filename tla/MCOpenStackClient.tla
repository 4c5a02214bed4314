-------------------------- MODULE MCOpenStackClient --------------------------
(* An instance of OpenStackClient for TLC: two callers.                    *)
EXTENDS OpenStackClient

CONSTANTS job1, job2

TwoCalls == {job1, job2}

==============================================================================

----------------------------- MODULE MCIdpGroup -----------------------------
(***************************************************************************)
(* Instances of IdpGroup for TLC: two of the three users are members at    *)
(* the start; a connector outside GovSlack with the HTTP cache, one without *)
(* it, and one in GovSlack.                                                *)
(***************************************************************************)
EXTENDS IdpGroup

CONSTANTS u1, u2

MCInitialMembers == {u1, u2}

Config(gov, cached) == [gov |-> gov, cached |-> cached]
Cached == Config(FALSE, TRUE)
Uncached == Config(FALSE, FALSE)
Gov == Config(TRUE, TRUE)

MCConfigs == {Cached, Uncached, Gov}
JustCached == {Cached}
JustUncached == {Uncached}
=============================================================================

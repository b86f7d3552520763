---------------------------- MODULE MCCrdUpgrade ----------------------------
(* Small instances of CrdUpgrade. *)
EXTENDS CrdUpgrade, TLC

CONSTANTS p1, p2, h1, h2, a, b, v1, v2, v3, s1, s2

Manifest_(c, vs, st, sc) == [crd |-> c, versions |-> vs, storage |-> st, schema |-> sc]

SharedHost == [p \in Upgrader |-> h1]
OwnHost == [p \in Upgrader |-> IF p = p1 THEN h1 ELSE h2]

\* The three charts of TestUpgradingStoredVersions: v1alpha1, both, v1beta1;
Alpha == Manifest_(a, {v1}, v1, s1)
Both  == Manifest_(a, {v1, v2}, v2, s1)
Beta  == Manifest_(a, {v2}, v2, s1)
\* v1beta1 is kept and joined by a newer storage version.
Gamma == Manifest_(a, {v2, v3}, v3, s1)
Other == Manifest_(b, {v1}, v1, s1)

WideReleases == <<<<Both, Other>>, <<Gamma>>>>
TwoCrdReleases == <<<<Beta, Other>>>>
StaleReleases == <<<<Alpha, Other>>, <<Both, Other>>>>
OneRelease == <<<<Alpha, Other>>>>

NothingInstalled == [c \in Crd |-> NoCrd]
AlphaInstalled == [c \in Crd |-> IF c = a THEN Alpha ELSE NoCrd]
AllPoints == Active

\* Upgraders of one host are alike.
Alike == Permutations(Upgrader)
=============================================================================

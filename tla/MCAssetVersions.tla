-------------------------- MODULE MCAssetVersions --------------------------
EXTENDS AssetVersions, TLC

CONSTANTS a1, h1, h2

MCVersions == 1..4

Regime(logSources, handlers, versions) ==
  [ logSources |-> logSources, handlers |-> handlers, versions |-> versions ]

\* Alone or two handlers that overlap, on an asset of either kind.
MCRegimes == { Regime({}, 1, 4), Regime({a1}, 1, 3),
               Regime({}, 2, 3), Regime({a1}, 2, 2) }

Symmetry == Permutations(Handlers)
=============================================================================
